---------------------- MODULE CompilerPublicationProofs ----------------------
(***************************************************************************)
(* Proofs about CompilerPublication, for every set of programs, every depth *)
(* of history and every bound.                                              *)
(***************************************************************************)
EXTENDS CompilerPublication, CompilerStateProofs

----------------------------------------------------------------------------
(* Type correctness. *)

LEMMA BuildKeepsType ==
    ASSUME PublicationTypeOK, NEW p \in Program, NEW start \in Assembler, Build(p, start),
           interrupted' \in BOOLEAN
    PROVE  PublicationTypeOK'
  <1>1. producer' \in Compiler
    BY BuiltType DEF Build, PublicationTypeOK
  <1>2. marker' \in Marker
    BY <1>1 DEF Build, PublicationTypeOK, Marker, Compiler, Assembler
  <1> QED
    BY <1>1, <1>2 DEF Build, PublicationTypeOK

LEMMA NextKeepsType ==
    PublicationTypeOK /\ [PublicationNext]_publicationVars => PublicationTypeOK'
  <1> SUFFICES ASSUME PublicationTypeOK, [PublicationNext]_publicationVars
               PROVE  PublicationTypeOK'
    OBVIOUS
  <1>0. interrupted' \in BOOLEAN
    BY DEF PublicationNext, Persistence, PublicationTypeOK, publicationVars
  <1>1. CASE Enable
    <2>1. producer' \in Compiler
      BY <1>1, EnabledType, 0 \in Nat DEF Enable, PublicationTypeOK
    <2> QED
      BY <1>0, <1>1, <2>1 DEF Enable, PublicationTypeOK
  <1>2. ASSUME NEW p \in Program, NEW fresh \in BOOLEAN, Compile(p, fresh)
        PROVE  PublicationTypeOK'
    <2>1. StartingAssembler(producer, fresh) \in Assembler
      BY NumberingType, 0 \in Nat DEF StartingAssembler, PublicationTypeOK, Compiler
    <2> QED
      BY <1>0, <1>2, <2>1, BuildKeepsType DEF Compile
  <1>3. CASE Acknowledge
    <2>1. producer' \in Compiler
      BY <1>3, AcknowledgedType DEF Acknowledge, PublicationTypeOK
    <2>2. /\ producer.id \in Nat
          /\ producer.pending.revision \in Nat
          /\ producer.assembler.program \in MaybeProgram
      BY DEF PublicationTypeOK, Compiler, Publication, Assembler
    <2>3. marker' \in Marker
      BY <1>3, <2>2 DEF Acknowledge, Marker
    <2>4. announced' \subseteq [id : Nat, revision : Nat, program : MaybeProgram]
      BY <1>3, <2>2 DEF Acknowledge, Version, PublicationTypeOK
    <2> QED
      BY <1>0, <1>3, <2>1, <2>3, <2>4 DEF Acknowledge, PublicationTypeOK
  <1>4. CASE Reject
    <2>1. producer' \in Compiler
      BY <1>4, RejectedType DEF Reject, PublicationTypeOK
    <2> QED
      BY <1>0, <1>4, <2>1 DEF Reject, PublicationTypeOK
  <1>5. ASSUME NEW revision \in 0..RevisionCap, Retract(revision)
        PROVE  PublicationTypeOK'
    <2>1. producer' \in Compiler
      BY <1>5, RetractedType DEF Retract, PublicationTypeOK
    <2> QED
      BY <1>0, <1>5, <2>1 DEF Retract, PublicationTypeOK
  <1>6. CASE Restart
    <2>1. created + 1 \in Nat
      BY DEF PublicationTypeOK
    <2>2. producer' \in Compiler
      BY <1>6, <2>1, NewCompilerType DEF Restart
    <2> QED
      BY <1>0, <1>6, <2>1, <2>2 DEF Restart, PublicationTypeOK
  <1>7. CASE Export
    <2>1. saved' \in [marker : Marker, state : SavedState]
      BY <1>7, ExportedType DEF Export, PublicationTypeOK
    <2> QED
      BY <1>0, <1>7, <2>1 DEF Export, PublicationTypeOK
  <1>8. CASE Resume
    <2>1. saved.state \in SavedState
      BY DEF PublicationTypeOK
    <2>2. producer' \in Compiler
      BY <1>8, <2>1, ResumedType DEF Resume
    <2> QED
      BY <1>0, <1>8, <2>2 DEF Resume, PublicationTypeOK
  <1>9. ASSUME NEW p \in Program, Compact(p)
        PROVE  PublicationTypeOK'
    <2>1. NewAssembler \in Assembler
      BY DEF NewAssembler, Assembler, MaybeProgram
    <2> QED
      BY <1>0, <1>9, <2>1, BuildKeepsType DEF Compact
  <1>10. CASE UNCHANGED publicationVars
    BY <1>0, <1>10 DEF publicationVars, PublicationTypeOK
  <1> QED
    BY <1>1, <1>2, <1>3, <1>4, <1>5, <1>6, <1>7, <1>8, <1>9, <1>10
       DEF PublicationNext, SessionNext, Persistence, Compaction

LEMMA InitType ==
    PublicationInit => PublicationTypeOK
  <1> SUFFICES ASSUME PublicationInit
               PROVE  PublicationTypeOK
    OBVIOUS
  <1>1. NewCompiler(1) \in Compiler /\ NewCompiler(0) \in Compiler
    BY NewCompilerType
  <1>2. NoMarker \in Marker
    BY DEF NoMarker, Marker
  <1>3. saved \in [marker : Marker, state : SavedState]
    BY <1>1, <1>2, ExportedType DEF PublicationInit, NoSaved
  <1> QED
    BY <1>1, <1>2, <1>3 DEF PublicationInit, PublicationTypeOK

(* Type correctness: every operation, in any order, keeps the compiler, its  *)
(* history and what it saves well formed.                                    *)
THEOREM TypeCorrect == PublicationSpec => []PublicationTypeOK
  BY InitType, NextKeepsType, PTL DEF PublicationSpec

----------------------------------------------------------------------------
(* The line of acknowledged publications.                                    *)

(* Forgetting the oldest keeps the others in order. *)
LEMMA RememberedShift ==
    ASSUME NEW s \in Seq(Publication), Len(s) > 0
    PROVE  /\ Remembered(s) \in Seq(Publication)
           /\ Len(Remembered(s)) > 0
           /\ \E d \in {0, 1} :
                 /\ Len(Remembered(s)) = Len(s) - d
                 /\ \A i \in 1..Len(Remembered(s)) : Remembered(s)[i] = s[i + d]
  <1>1. CASE Len(s) > Retractable
    <2>1. Remembered(s) = Tail(s) /\ Len(Tail(s)) = Len(s) - 1 /\ Len(s) > 1
      BY <1>1, RetractableAssumption DEF Remembered
    <2>2. Tail(s) \in Seq(Publication)
      OBVIOUS
    <2>3. \A i \in 1..Len(Tail(s)) : Tail(s)[i] = s[i + 1]
      OBVIOUS
    <2> QED
      BY <2>1, <2>2, <2>3
  <1>2. CASE ~(Len(s) > Retractable)
    BY <1>2 DEF Remembered
  <1> QED
    BY <1>1, <1>2

(* What is remembered is the new publication and earlier ones. *)
LEMMA RememberedElements ==
    ASSUME NEW line \in Seq(Publication), NEW built \in Publication,
           NEW i \in DOMAIN Remembered(Append(line, built))
    PROVE  LET kept == Remembered(Append(line, built))
           IN  \/ kept[i] = built
               \/ \E j \in DOMAIN line : kept[i] = line[j]
  <1> DEFINE longer == Append(line, built)
             kept == Remembered(longer)
  <1>1. longer \in Seq(Publication) /\ Len(longer) = Len(line) + 1
    OBVIOUS
  <1>2. \A k \in 1..Len(longer) :
           longer[k] = built \/ \E j \in DOMAIN line : longer[k] = line[j]
    OBVIOUS
  <1> HIDE DEF longer
  <1>3. kept \in Seq(Publication)
    BY <1>1, RememberedShift
  <1>4. PICK d \in {0, 1} : /\ Len(kept) = Len(longer) - d
                            /\ \A k \in 1..Len(kept) : kept[k] = longer[k + d]
    BY <1>1, RememberedShift
  <1>5. i \in DOMAIN kept
    BY DEF longer
  <1> HIDE DEF kept
  <1>6. i \in 1..Len(kept) /\ i + d \in 1..Len(longer)
    BY <1>1, <1>3, <1>4, <1>5
  <1>7. kept[i] = built \/ \E j \in DOMAIN line : kept[i] = line[j]
    BY <1>2, <1>4, <1>6
  <1> QED
    BY <1>7 DEF kept, longer

(* Acknowledging a build of the baseline continues the line. *)
LEMMA AcknowledgedUnbroken ==
    ASSUME NEW line \in Seq(Publication), NEW built \in Publication,
           Unbroken(line, built.baseline)
    PROVE  Unbroken(Remembered(Append(line, built)), Acked(built.revision))
  <1> DEFINE longer == Append(line, built)
             kept == Remembered(longer)
  <1>1. /\ longer \in Seq(Publication)
        /\ Len(longer) = Len(line) + 1
        /\ longer[Len(longer)] = built
        /\ \A i \in 1..Len(line) : longer[i] = line[i]
    OBVIOUS
  <1>2. \A i \in 1..Len(longer) - 1 : longer[i + 1].baseline = Acked(longer[i].revision)
    <2> SUFFICES ASSUME NEW i \in 1..Len(longer) - 1
                 PROVE  longer[i + 1].baseline = Acked(longer[i].revision)
      OBVIOUS
    <2>1. CASE i = Len(line)
      BY <1>1, <2>1 DEF Unbroken
    <2>2. CASE i # Len(line)
      <3>1. i \in 1..Len(line) - 1 /\ i + 1 \in 1..Len(line)
        BY <1>1, <2>2
      <3> QED
        BY <1>1, <3>1 DEF Unbroken
    <2> QED
      BY <2>1, <2>2
  <1> HIDE DEF longer
  <1>3. PICK d \in {0, 1} : /\ Len(kept) = Len(longer) - d
                            /\ \A i \in 1..Len(kept) : kept[i] = longer[i + d]
    BY <1>1, RememberedShift
  <1>4. kept \in Seq(Publication) /\ Len(kept) > 0
    BY <1>1, RememberedShift
  <1> HIDE DEF kept
  <1>5. ASSUME NEW i \in 1..Len(kept) - 1
        PROVE  kept[i + 1].baseline = Acked(kept[i].revision)
    <2>1. kept[i] = longer[i + d] /\ kept[i + 1] = longer[(i + d) + 1]
      BY <1>3, <1>4
    <2>2. i + d \in 1..Len(longer) - 1
      BY <1>1, <1>3, <1>4
    <2> QED
      BY <1>2, <2>1, <2>2
  <1>6. kept[Len(kept)] = built
    <2>1. Len(kept) \in 1..Len(kept) /\ Len(kept) + d = Len(longer)
      BY <1>1, <1>3, <1>4
    <2> QED
      BY <1>1, <1>3, <2>1
  <1> QED
    BY <1>5, <1>6 DEF Unbroken, kept, longer

(* Retracting to a publication of the line leaves the line before it. *)
LEMMA RetractedUnbroken ==
    ASSUME NEW line \in Seq(Publication), NEW baseline, Unbroken(line, baseline),
           NEW i \in DOMAIN line
    PROVE  Unbroken(SubSeq(line, 1, i - 1), line[i].baseline)
  <1> DEFINE kept == SubSeq(line, 1, i - 1)
  <1>1. i \in 1..Len(line)
    OBVIOUS
  <1>2. Len(kept) = i - 1 /\ \A j \in 1..i - 1 : kept[j] = line[j]
    BY <1>1
  <1> HIDE DEF kept
  <1>3. ASSUME NEW j \in 1..Len(kept) - 1
        PROVE  kept[j + 1].baseline = Acked(kept[j].revision)
    <2>1. j \in 1..Len(line) - 1 /\ j \in 1..i - 1 /\ j + 1 \in 1..i - 1
      BY <1>1, <1>2
    <2> QED
      BY <1>2, <2>1 DEF Unbroken
  <1>4. ASSUME Len(kept) > 0
        PROVE  line[i].baseline = Acked(kept[Len(kept)].revision)
    <2>1. i - 1 \in 1..Len(line) - 1 /\ i - 1 \in 1..i - 1 /\ (i - 1) + 1 = i
      BY <1>1, <1>2, <1>4
    <2> QED
      BY <1>2, <2>1 DEF Unbroken
  <1> QED
    BY <1>3, <1>4 DEF Unbroken, kept

----------------------------------------------------------------------------
(* Coherence of the baselines.                                               *)

LEMMA EmptyLine == \A baseline : Unbroken(<< >>, baseline)
  <1>1. Len(<< >>) = 0
    OBVIOUS
  <1> QED
    BY <1>1 DEF Unbroken

(* A compiler that has published nothing itself. *)
LEMMA NoHistoryCoherence ==
    ASSUME CoherenceInv,
           announced' = announced, saved' = saved,
           producer'.acknowledged = << >>,
           producer'.phase # "pending",
           HostHasRevision(producer'.baseline),
           producer'.phase = "ready" =>
               Describes(producer.baseline, producer.semantic, producer.assembler)'
    PROVE  CoherenceInv'
  <1>1. DOMAIN (producer'.acknowledged) = {}
    OBVIOUS
  <1>2. BaselineCoherent'
    BY <1>1 DEF BaselineCoherent
  <1>3. HistoryUnbroken'
    BY EmptyLine DEF HistoryUnbroken
  <1>4. SavedCoherent'
    BY DEF CoherenceInv, SavedCoherent
  <1>5. \A v \in announced' : v.revision > 0
    BY DEF CoherenceInv
  <1>6. HostHasRevision(producer.baseline)'
    BY DEF HostHasRevision
  <1> QED
    BY <1>1, <1>2, <1>3, <1>4, <1>5, <1>6 DEF CoherenceInv

(* A build that is not unchanged becomes pending on the baseline it was      *)
(* compared with; any other leaves a tracked compiler as it was.             *)
LEMMA BuildKeepsCoherence ==
    ASSUME PublicationTypeOK, CoherenceInv, NEW p \in Program, NEW start \in Assembler,
           Build(p, start)
    PROVE  CoherenceInv'
  <1> DEFINE next == BuiltAssembler(producer, p, start)
  <1>1. producer \in Compiler /\ next \in Assembler
    BY AssembledType DEF PublicationTypeOK, BuiltAssembler
  <1>2. announced' = announced /\ saved' = saved
    BY DEF Build
  <1>3. next.program = p /\ next.revision > 0
    <2>1. start.revision \in Nat /\ start.floor \in Nat /\ start.program \in MaybeProgram
      BY DEF Assembler
    <2> QED
      BY <2>1 DEF BuiltAssembler, AssemblesUnchanged, Assembled, Assembler, LastRevision
  <1>4. CASE producer.phase = "untracked" \/ ResultUnchanged(producer, p, start)
    <2>1. producer' = [producer EXCEPT !.assembler = next, !.semantic = p]
      BY <1>4 DEF Build, Built
    <2>2. /\ producer'.id = producer.id
          /\ producer'.phase = producer.phase
          /\ producer'.baseline = producer.baseline
          /\ producer'.pending = producer.pending
          /\ producer'.acknowledged = producer.acknowledged
          /\ producer'.assembler = next
          /\ producer'.semantic = p
      BY <1>1, <2>1 DEF Compiler
    <2>3. producer.phase # "pending"
      BY DEF Build, CanCompile
    <2>4. producer.phase = "ready" => next = producer.assembler /\ p = producer.semantic
      BY <1>4 DEF ResultUnchanged, AssemblesUnchanged, BuiltAssembler
    <2> HIDE DEF next
    <2> QED
      BY <1>2, <2>2, <2>3, <2>4
         DEF CoherenceInv, BaselineCoherent, HistoryUnbroken, SavedCoherent, Describes,
             HostHasRevision, Version
  <1>5. CASE ~(producer.phase = "untracked" \/ ResultUnchanged(producer, p, start))
    <2> DEFINE built == [baseline  |-> producer.baseline,
                         revision  |-> next.revision,
                         snapshot  |-> producer.semantic,
                         assembler |-> producer.assembler]
    <2>1. producer' = [producer EXCEPT !.assembler = next, !.semantic = p,
                                       !.phase = "pending", !.pending = built]
      BY <1>5 DEF Build, Built
    <2>2. /\ producer'.id = producer.id
          /\ producer'.phase = "pending"
          /\ producer'.baseline = producer.baseline
          /\ producer'.pending = built
          /\ producer'.acknowledged = producer.acknowledged
          /\ producer'.assembler = next
          /\ producer'.semantic = p
      BY <1>1, <2>1 DEF Compiler
    <2>3. producer.phase = "ready"
      BY <1>1, <1>5 DEF Build, CanCompile, Compiler
    <2> HIDE DEF next
    <2> QED
      BY <1>2, <1>3, <2>2, <2>3
         DEF CoherenceInv, BaselineCoherent, HistoryUnbroken, SavedCoherent, Describes,
             HostHasRevision, Version
  <1> QED
    BY <1>4, <1>5

LEMMA AcknowledgeKeepsCoherence ==
    ASSUME PublicationTypeOK, CoherenceInv, Acknowledge
    PROVE  CoherenceInv'
  <1> DEFINE built == producer.pending
             line == producer.acknowledged
             longer == Append(line, built)
             kept == Remembered(longer)
  <1>1. /\ producer \in Compiler
        /\ built \in Publication
        /\ line \in Seq(Publication)
        /\ producer.phase = "pending"
    BY DEF PublicationTypeOK, Compiler, Acknowledge
  <1>2. /\ producer'.id = producer.id
        /\ producer'.phase = "ready"
        /\ producer'.baseline = Acked(built.revision)
        /\ producer'.acknowledged = kept
        /\ producer'.assembler = producer.assembler
        /\ producer'.semantic = producer.semantic
    BY <1>1 DEF Acknowledge, Acknowledged, Compiler, Acked
  <1>3. /\ announced' = announced \cup {Version(producer.id, built.revision,
                                                producer.assembler.program)}
        /\ saved' = saved
    BY DEF Acknowledge
  <1>4. HistoryUnbroken'
    <2>1. Unbroken(line, built.baseline)
      BY <1>1 DEF CoherenceInv, HistoryUnbroken
    <2>2. Unbroken(kept, Acked(built.revision))
      BY <1>1, <2>1, AcknowledgedUnbroken
    <2> QED
      BY <1>2, <2>2 DEF HistoryUnbroken
  <1>5. ASSUME NEW i \in DOMAIN kept
        PROVE  \/ kept[i] = built
               \/ \E j \in DOMAIN line : kept[i] = line[j]
    BY <1>1, RememberedElements
  <1>6. ASSUME NEW i \in DOMAIN kept
        PROVE  /\ Describes(kept[i].baseline, kept[i].snapshot, kept[i].assembler)
               /\ HostHasRevision(kept[i].baseline)
    BY <1>1, <1>5 DEF CoherenceInv, BaselineCoherent
  <1> HIDE DEF kept, line
  <1>7. BaselineCoherent'
    BY <1>1, <1>2, <1>3, <1>6
       DEF CoherenceInv, BaselineCoherent, Describes, Version, Acked
  <1>8. SavedCoherent'
    BY <1>3 DEF CoherenceInv, SavedCoherent, Version
  <1>9. \A v \in announced' : v.revision > 0
    BY <1>1, <1>3 DEF CoherenceInv, BaselineCoherent, Version
  <1> QED
    BY <1>2, <1>4, <1>6, <1>7, <1>8, <1>9 DEF CoherenceInv, HostHasRevision, Acked

LEMMA RejectKeepsCoherence ==
    ASSUME PublicationTypeOK, CoherenceInv, Reject
    PROVE  CoherenceInv'
  <1>1. producer \in Compiler /\ producer.phase = "pending"
    BY DEF PublicationTypeOK, Reject
  <1>2. /\ producer'.id = producer.id
        /\ producer'.phase = "ready"
        /\ producer'.baseline = producer.pending.baseline
        /\ producer'.acknowledged = producer.acknowledged
        /\ producer'.assembler = producer.pending.assembler
        /\ producer'.semantic = producer.pending.snapshot
    BY <1>1 DEF Reject, Rejected, Compiler
  <1>3. announced' = announced /\ saved' = saved
    BY DEF Reject
  <1> QED
    BY <1>1, <1>2, <1>3
       DEF CoherenceInv, BaselineCoherent, HistoryUnbroken, SavedCoherent, Describes,
           HostHasRevision, Version

LEMMA RetractKeepsCoherence ==
    ASSUME PublicationTypeOK, CoherenceInv, NEW i \in DOMAIN producer.acknowledged,
           producer.phase = "ready",
           producer' = Retracted(producer, i),
           UNCHANGED <<created, marker, saved, announced>>
    PROVE  CoherenceInv'
  <1> DEFINE line == producer.acknowledged
             taken == line[i]
             kept == SubSeq(line, 1, i - 1)
  <1>1. producer \in Compiler /\ line \in Seq(Publication) /\ taken \in Publication
    BY DEF PublicationTypeOK, Compiler
  <1>2. /\ producer'.id = producer.id
        /\ producer'.phase = "ready"
        /\ producer'.baseline = taken.baseline
        /\ producer'.acknowledged = kept
        /\ producer'.semantic = taken.snapshot
        /\ producer'.assembler = ContinueRevisions(taken.assembler,
                                                   LastRevision(producer.assembler))
    BY <1>1 DEF Retracted, Compiler
  <1>3. /\ producer'.assembler.revision = taken.assembler.revision
        /\ producer'.assembler.program = taken.assembler.program
    BY <1>1, <1>2 DEF ContinueRevisions, Publication, Assembler
  <1>4. HistoryUnbroken'
    BY <1>1, <1>2, RetractedUnbroken DEF CoherenceInv, HistoryUnbroken
  <1>5. \A j \in DOMAIN kept : j \in DOMAIN line /\ kept[j] = line[j]
    BY <1>1
  <1>6. announced' = announced /\ saved' = saved
    OBVIOUS
  <1> HIDE DEF kept
  <1>7. BaselineCoherent'
    <2>1. \A j \in DOMAIN line :
              Describes(line[j].baseline, line[j].snapshot, line[j].assembler)
      BY DEF CoherenceInv, BaselineCoherent
    <2>2. Describes(producer.baseline, producer.semantic, producer.assembler)'
      BY <1>2, <1>3, <1>6, <2>1 DEF Describes
    <2>3. ASSUME NEW j \in DOMAIN kept
          PROVE  Describes(line[j].baseline, line[j].snapshot, line[j].assembler)'
                 /\ producer'.acknowledged[j] = line[j]
      <3>1. Describes(line[j].baseline, line[j].snapshot, line[j].assembler)
        BY <1>5, <2>1
      <3> QED
        BY <1>2, <1>5, <1>6, <3>1 DEF Describes
    <2> QED
      BY <1>2, <2>2, <2>3 DEF BaselineCoherent, Describes
  <1>8. SavedCoherent'
    BY <1>6 DEF CoherenceInv, SavedCoherent, Version
  <1>9. \A v \in announced' : v.revision > 0
    BY <1>6 DEF CoherenceInv
  <1> QED
    BY <1>1, <1>2, <1>4, <1>5, <1>7, <1>8, <1>9 DEF CoherenceInv, HostHasRevision

LEMMA ExportKeepsCoherence ==
    ASSUME PublicationTypeOK, CoherenceInv, Export
    PROVE  CoherenceInv'
  <1>1. producer \in Compiler /\ producer.phase = "ready"
    BY DEF PublicationTypeOK, Export
  <1>2. producer' = producer /\ announced' = announced
        /\ saved'.state = Exported(producer)
    BY DEF Export
  <1>3. SavedCoherent'
    <2> DEFINE state == Exported(producer)
    <2>1. /\ state.id = producer.id
          /\ state.revision = IF HasBackend(producer) THEN producer.baseline.revision ELSE 0
          /\ state.backend = HasBackend(producer)
          /\ state.semantic = producer.semantic
          /\ HasBackend(producer) => state.assembler = EncodedAssembler(producer.assembler)
      BY DEF Exported
    <2> HIDE DEF state
    <2>2. producer.baseline.revision \in Nat /\ HasBackend(producer) \in BOOLEAN
      BY <1>1 DEF Compiler, Baseline, HasBackend
    <2>3. CASE HasBackend(producer)
      <3>1. Describes(producer.baseline, producer.semantic, producer.assembler)
            /\ producer.baseline.available
        BY <1>1, <2>3 DEF CoherenceInv, BaselineCoherent, HostHasRevision, HasBackend
      <3>2. /\ state.assembler.revision = producer.assembler.revision
            /\ state.assembler.program = producer.assembler.program
        BY <1>1, <2>1, <2>3 DEF EncodedAssembler, Compiler, Assembler
      <3>3. /\ producer.assembler.revision = producer.baseline.revision
            /\ producer.assembler.program = producer.semantic
            /\ Version(producer.id, producer.baseline.revision, producer.semantic)
                 \in announced
        BY <3>1 DEF Describes
      <3> QED
        BY <1>2, <2>1, <2>3, <3>2, <3>3 DEF SavedCoherent, state
    <2>4. CASE ~HasBackend(producer)
      BY <1>2, <2>1, <2>4 DEF SavedCoherent, state
    <2> QED
      BY <2>3, <2>4
  <1> QED
    BY <1>2, <1>3 DEF CoherenceInv, BaselineCoherent, HistoryUnbroken, Describes

LEMMA ResumeKeepsCoherence ==
    ASSUME PublicationTypeOK, CoherenceInv, Resume
    PROVE  CoherenceInv'
  <1> DEFINE state == saved.state
             restored == [NewCompiler(state.id) EXCEPT !.assembler = state.assembler,
                                                       !.semantic = state.semantic]
  <1>1. state \in SavedState
    BY DEF PublicationTypeOK
  <1>2. /\ restored.id = state.id
        /\ restored.phase = "untracked"
        /\ restored.baseline = NoBaseline
        /\ restored.acknowledged = << >>
        /\ restored.assembler = state.assembler
        /\ restored.semantic = state.semantic
        /\ restored \in Compiler
    <2>1. NewCompiler(state.id) \in Compiler
      BY <1>1, NewCompilerType DEF SavedState
    <2>2. state.assembler \in Assembler /\ state.semantic \in MaybeProgram
      BY <1>1 DEF SavedState
    <2> QED
      BY <2>1, <2>2 DEF NewCompiler, Compiler
  <1> HIDE DEF restored
  <1>3. producer' = IF state.tracking THEN Enabled(restored, state.revision, state.backend)
                                      ELSE restored
    BY DEF Resume, Resumed, restored
  <1>4. announced' = announced /\ saved' = saved
    BY DEF Resume
  <1>5. HostHasRevision(NoBaseline)
    BY DEF HostHasRevision, NoBaseline
  <1>6. CASE ~state.tracking
    BY <1>2, <1>3, <1>4, <1>5, <1>6, NoHistoryCoherence
  <1>7. CASE state.tracking
    <2> DEFINE base == [revision |-> state.revision, available |-> state.backend]
    <2>1. /\ producer'.id = state.id
          /\ producer'.phase = "ready"
          /\ producer'.baseline = base
          /\ producer'.acknowledged = << >>
          /\ producer'.assembler = state.assembler
          /\ producer'.semantic = state.semantic
      BY <1>2, <1>3, <1>7 DEF Enabled, Compiler
    <2>2. HostHasRevision(base)
      BY DEF HostHasRevision, CoherenceInv, SavedCoherent
    <2>3. Describes(producer.baseline, producer.semantic, producer.assembler)'
      BY <1>4, <2>1 DEF Describes, CoherenceInv, SavedCoherent
    <2> HIDE DEF base
    <2> QED
      BY <1>4, <2>1, <2>2, <2>3, NoHistoryCoherence
  <1> QED
    BY <1>6, <1>7

LEMMA NextKeepsCoherence ==
    PublicationTypeOK /\ CoherenceInv /\ [PublicationNext]_publicationVars => CoherenceInv'
  <1> SUFFICES ASSUME PublicationTypeOK, CoherenceInv, [PublicationNext]_publicationVars
               PROVE  CoherenceInv'
    OBVIOUS
  <1>1. CASE Enable
    <2>1. producer \in Compiler
      BY DEF PublicationTypeOK
    <2>2. CASE producer.phase = "untracked"
      <3>1. /\ producer'.id = producer.id
            /\ producer'.phase = "ready"
            /\ producer'.baseline = NoBaseline
            /\ producer'.acknowledged = << >>
        BY <1>1, <2>1, <2>2 DEF Enable, Enabled, Compiler, CoherenceInv, NoBaseline
      <3>2. announced' = announced /\ saved' = saved
        BY <1>1 DEF Enable
      <3>3. Describes(producer.baseline, producer.semantic, producer.assembler)'
        BY <3>1 DEF Describes, NoBaseline
      <3>4. HostHasRevision(NoBaseline)
        BY DEF HostHasRevision, NoBaseline
      <3> QED
        BY <3>1, <3>2, <3>3, <3>4, NoHistoryCoherence
    <2>3. CASE producer.phase # "untracked"
      <3>1. producer' = producer
        BY <1>1, <2>3 DEF Enable, Enabled
      <3> QED
        BY <1>1, <3>1
           DEF Enable, CoherenceInv, BaselineCoherent, HistoryUnbroken, SavedCoherent,
               Describes, HostHasRevision
    <2> QED
      BY <2>2, <2>3
  <1>2. ASSUME NEW p \in Program, NEW fresh \in BOOLEAN, Compile(p, fresh)
        PROVE  CoherenceInv'
    <2>1. StartingAssembler(producer, fresh) \in Assembler
      BY NumberingType, 0 \in Nat DEF StartingAssembler, PublicationTypeOK, Compiler
    <2> QED
      BY <1>2, <2>1, BuildKeepsCoherence DEF Compile
  <1>3. CASE Acknowledge
    BY <1>3, AcknowledgeKeepsCoherence
  <1>4. CASE Reject
    BY <1>4, RejectKeepsCoherence
  <1>5. ASSUME NEW revision \in 0..RevisionCap, Retract(revision)
        PROVE  CoherenceInv'
    BY <1>5, RetractKeepsCoherence DEF Retract, CanRetract
  <1>6. CASE Restart
    <2>1. /\ producer'.phase = "untracked"
          /\ producer'.baseline = NoBaseline
          /\ producer'.acknowledged = << >>
          /\ announced' = announced
          /\ saved' = saved
      BY <1>6 DEF Restart, NewCompiler
    <2>2. HostHasRevision(NoBaseline)
      BY DEF HostHasRevision, NoBaseline
    <2> QED
      BY <2>1, <2>2, NoHistoryCoherence
  <1>7. CASE Export
    BY <1>7, ExportKeepsCoherence
  <1>8. CASE Resume
    BY <1>8, ResumeKeepsCoherence
  <1>9. ASSUME NEW p \in Program, Compact(p)
        PROVE  CoherenceInv'
    <2>1. NewAssembler \in Assembler
      BY DEF NewAssembler, Assembler, MaybeProgram
    <2> QED
      BY <1>9, <2>1, BuildKeepsCoherence DEF Compact
  <1>10. CASE UNCHANGED publicationVars
    BY <1>10 DEF publicationVars, CoherenceInv, BaselineCoherent, HistoryUnbroken, SavedCoherent,
                 Describes, HostHasRevision
  <1> QED
    BY <1>1, <1>2, <1>3, <1>4, <1>5, <1>6, <1>7, <1>8, <1>9, <1>10
       DEF PublicationNext, SessionNext, Persistence, Compaction

LEMMA InitCoherence ==
    PublicationInit => CoherenceInv
  <1> SUFFICES ASSUME PublicationInit PROVE CoherenceInv
    OBVIOUS
  <1>1. /\ producer.phase = "untracked"
        /\ producer.acknowledged = << >>
        /\ producer.baseline = NoBaseline
        /\ announced = {}
    BY DEF PublicationInit, NewCompiler
  <1>2. saved.state.revision = 0 /\ saved.state.backend = FALSE
    BY DEF PublicationInit, NoSaved, Exported, HasBackend, NewCompiler
  <1>3. DOMAIN (producer.acknowledged) = {}
    BY <1>1
  <1>4. HistoryUnbroken
    BY <1>1, EmptyLine DEF HistoryUnbroken
  <1> QED
    BY <1>1, <1>2, <1>3, <1>4
       DEF CoherenceInv, BaselineCoherent, SavedCoherent, HostHasRevision, NoBaseline

(* Whatever is compiled, acknowledged, rejected, taken back, exported and    *)
(* resumed, the state the next patch is computed from is that of the         *)
(* revision it says it applies to.                                           *)
THEOREM BaselinesCoherent == PublicationSpec => []BaselineCoherent
  <1>1. PublicationSpec => []CoherenceInv
    BY TypeCorrect, InitCoherence, NextKeepsCoherence, PTL DEF PublicationSpec
  <1>2. CoherenceInv => BaselineCoherent
    BY DEF CoherenceInv
  <1> QED
    BY <1>1, <1>2, PTL

(* Taking back the publication built on a revision takes back exactly those  *)
(* published after it.                                                       *)
THEOREM HistoriesUnbroken == PublicationSpec => []HistoryUnbroken
  <1>1. PublicationSpec => []CoherenceInv
    BY TypeCorrect, InitCoherence, NextKeepsCoherence, PTL DEF PublicationSpec
  <1>2. CoherenceInv => HistoryUnbroken
    BY DEF CoherenceInv
  <1> QED
    BY <1>1, <1>2, PTL

(* A runtime patching goes on with runs what the next patch starts from.     *)
THEOREM ReconcilesSoundly == PublicationSpec => []ReconcileSound
  <1>1. PublicationSpec => [](PublicationTypeOK /\ CoherenceInv)
    BY TypeCorrect, InitCoherence, NextKeepsCoherence, PTL DEF PublicationSpec
  <1>2. PublicationTypeOK /\ CoherenceInv => ReconcileSound
    <2> SUFFICES ASSUME PublicationTypeOK, CoherenceInv, NEW v \in announced,
                        ContinuesPatching(producer, v.id, v.revision)
                 PROVE  /\ producer.assembler.revision = v.revision
                        /\ Version(v.id, v.revision, producer.assembler.program) \in announced
      BY DEF ReconcileSound
    <2>1. v.revision > 0 /\ v.id = producer.id /\ producer.phase = "ready"
          /\ v.revision = producer.baseline.revision
      BY DEF ContinuesPatching, CoherenceInv
    <2>2. Describes(producer.baseline, producer.semantic, producer.assembler)
          /\ producer.baseline.available
      BY <2>1 DEF ContinuesPatching, CoherenceInv, BaselineCoherent
    <2> QED
      BY <2>1, <2>2 DEF Describes
  <1> QED
    BY <1>1, <1>2, PTL

----------------------------------------------------------------------------
(* Numbering.                                                                *)

(* A fresh layout goes on counting where the compiler's assembler stands. *)
LEMMA StartingKeepsCount ==
    ASSUME NEW c \in Compiler, NEW fresh \in BOOLEAN
    PROVE  /\ StartingAssembler(c, fresh) \in Assembler
           /\ LastRevision(StartingAssembler(c, fresh)) = LastRevision(c.assembler)
  <1>1. c.assembler \in Assembler
    BY DEF Compiler
  <1>2. FreshLayout(c.assembler) \in Assembler
    BY <1>1, NumberingType
  <1>3. LastRevision(FreshLayout(c.assembler)) = LastRevision(c.assembler)
    BY <1>1 DEF Assembler, FreshLayout, ContinueRevisions, NewAssembler, LastRevision
  <1> QED
    BY <1>1, <1>2, <1>3 DEF StartingAssembler

(* A changed program gets the number after the last. *)
LEMMA AssembledCounts ==
    ASSUME NEW a \in Assembler, NEW p \in Program
    PROVE  /\ Assembled(a, p).revision = LastRevision(a) + 1
           /\ LastRevision(Assembled(a, p)) = LastRevision(a) + 1
           /\ LastRevision(a) \in Nat
           /\ a.revision <= LastRevision(a)
  BY DEF Assembler, Assembled, LastRevision

(* A build gets a number no published or remembered build has, unless it     *)
(* assembles nothing new; then nothing was acknowledged by this compiler.    *)
LEMMA BuildKeepsNumbering ==
    ASSUME PublicationTypeOK, CoherenceInv, NumberingInv, NEW p \in Program,
           NEW fresh \in BOOLEAN, Build(p, StartingAssembler(producer, fresh))
    PROVE  NumberingInv'
  <1> DEFINE base == producer.assembler
             start == StartingAssembler(producer, fresh)
             next == BuiltAssembler(producer, p, start)
  <1>1. /\ producer \in Compiler /\ base \in Assembler
        /\ start \in Assembler /\ next \in Assembler
        /\ LastRevision(start) = LastRevision(base)
    <2>1. producer \in Compiler /\ base \in Assembler
      BY DEF PublicationTypeOK, Compiler
    <2> QED
      BY <2>1, StartingKeepsCount, AssembledType DEF BuiltAssembler
  <1>2. announced' = announced /\ created' = created
    BY DEF Build
  <1>3. /\ producer'.id = producer.id
        /\ producer'.acknowledged = producer.acknowledged
        /\ producer'.assembler = next
    BY <1>1 DEF Build, Built, Compiler
  <1>4. \/ next = base
        \/ /\ next = Assembled(start, p)
           /\ next.revision = LastRevision(base) + 1
           /\ LastRevision(next) = LastRevision(base) + 1
    BY <1>1, AssembledCounts DEF BuiltAssembler
  <1>5. /\ \A v \in announced : v.revision \in Nat
        /\ LastRevision(base) \in Nat
        /\ \A i \in DOMAIN producer.acknowledged :
               producer.acknowledged[i].assembler.revision \in Nat
    <2>1. producer.acknowledged \in Seq(Publication)
      BY <1>1 DEF Compiler
    <2>2. \A i \in DOMAIN producer.acknowledged :
             producer.acknowledged[i] \in Publication
      BY <2>1
    <2> QED
      BY <1>1, <2>2, AssembledCounts DEF PublicationTypeOK, Publication, Assembler, LastRevision
  <1>6. Numbers(base) /\ Agrees(base)
    BY DEF NumberingInv
  <1> HIDE DEF next, start
  <1>7. Numbers(next) /\ Agrees(next)
    BY <1>4, <1>5, <1>6 DEF Numbers, Agrees
  <1>8. ASSUME producer'.phase = "pending"
        PROVE  /\ producer'.pending.assembler = base
               /\ \/ next.revision > LastRevision(base)
                  \/ next = base /\ producer.acknowledged = << >>
    <2>1. ~(producer.phase = "untracked" \/ ResultUnchanged(producer, p, start))
      BY <1>1, <1>8 DEF Build, Built, CanCompile, Compiler, start
    <2>2. producer'.pending.assembler = base
      BY <1>1, <2>1 DEF Build, Built, Compiler, start
    <2>3. CASE start = base /\ AssemblesUnchanged(producer, p)
      <3>1. next = base
        BY <2>3 DEF next, BuiltAssembler
      <3>2. producer.phase = "ready"
        BY <1>1, <2>1 DEF Build, CanCompile, Compiler
      <3>3. ~producer.baseline.available
        BY <2>1, <2>3, <3>2
           DEF ResultUnchanged, CoherenceInv, BaselineCoherent, Describes
      <3>4. producer.acknowledged \in Seq(Publication)
        BY <1>1 DEF Compiler
      <3>5. Len(producer.acknowledged) = 0
        BY <3>3, <3>4 DEF CoherenceInv, HistoryUnbroken, Unbroken, Acked
      <3> QED
        BY <2>2, <3>1, <3>4, <3>5
    <2>4. CASE ~(start = base /\ AssemblesUnchanged(producer, p))
      <3>1. next = Assembled(start, p)
        BY <2>4 DEF next, BuiltAssembler
      <3> QED
        BY <1>1, <1>5, <2>2, <3>1, AssembledCounts
    <2> QED
      BY <2>3, <2>4
  <1>9. /\ NumbersDetermineContent'
        /\ (producer.id <= created)'
        /\ (\A v \in announced : v.id <= created)'
    BY <1>2, <1>3 DEF NumberingInv, NumbersDetermineContent
  <1>10. /\ Numbers(producer.assembler)' /\ Agrees(producer.assembler)'
         /\ (\A i \in DOMAIN producer.acknowledged :
                 Agrees(producer.acknowledged[i].assembler))'
    BY <1>2, <1>3, <1>7 DEF NumberingInv, Numbers, Agrees
  <1>11. ASSUME producer'.phase = "pending"
         PROVE  Numbers(producer.pending.assembler)' /\ Agrees(producer.pending.assembler)'
    BY <1>2, <1>3, <1>6, <1>8, <1>11 DEF Numbers, Agrees
  <1> QED
    BY <1>3, <1>8, <1>9, <1>10, <1>11 DEF NumberingInv

(* An acknowledged build either has a number of its own or is the very       *)
(* program of its number.                                                    *)
LEMMA AcknowledgeKeepsNumbering ==
    ASSUME PublicationTypeOK, CoherenceInv, NumberingInv, Acknowledge
    PROVE  NumberingInv'
  <1> DEFINE built == producer.pending
             base == built.assembler
             line == producer.acknowledged
             kept == Remembered(Append(line, built))
             new == Version(producer.id, built.revision, producer.assembler.program)
  <1>1. /\ producer \in Compiler
        /\ built \in Publication
        /\ line \in Seq(Publication)
        /\ producer.phase = "pending"
        /\ producer.assembler \in Assembler
        /\ base \in Assembler
    BY DEF PublicationTypeOK, Compiler, Acknowledge, Publication
  <1>2. /\ producer'.id = producer.id
        /\ producer'.phase = "ready"
        /\ producer'.acknowledged = kept
        /\ producer'.assembler = producer.assembler
    BY <1>1 DEF Acknowledge, Acknowledged, Compiler
  <1>3. announced' = announced \cup {new} /\ created' = created
    BY DEF Acknowledge
  <1>4. built.revision = producer.assembler.revision
    BY <1>1 DEF CoherenceInv, BaselineCoherent
  <1>5. /\ new.id = producer.id
        /\ new.revision = producer.assembler.revision
        /\ new.program = producer.assembler.program
    BY <1>4 DEF Version
  <1>6. /\ \A v \in announced : v.revision \in Nat
        /\ LastRevision(producer.assembler) \in Nat
        /\ LastRevision(base) \in Nat
        /\ producer.assembler.revision \in Nat
        /\ base.revision \in Nat
        /\ producer.assembler.revision <= LastRevision(producer.assembler)
        /\ base.revision <= LastRevision(base)
    BY <1>1 DEF PublicationTypeOK, Assembler, LastRevision
  <1>7. \A j \in DOMAIN line : line[j].assembler.revision \in Nat
    <2>1. \A j \in DOMAIN line : line[j] \in Publication
      BY <1>1
    <2> QED
      BY <2>1 DEF Publication, Assembler
  <1>8. \A i \in DOMAIN kept :
            kept[i] = built \/ \E j \in DOMAIN line : kept[i] = line[j]
    BY <1>1, RememberedElements
  <1>9. /\ Numbers(base) /\ Agrees(base)
        /\ \/ producer.assembler.revision > LastRevision(base)
           \/ producer.assembler = base /\ line = << >>
    BY <1>1 DEF NumberingInv
  <1> HIDE DEF kept, new
  <1>10. ASSUME NEW i \in DOMAIN kept
         PROVE  kept[i].assembler.revision <= LastRevision(producer.assembler)
    <2>1. CASE kept[i] = built
      BY <1>6, <1>9, <2>1
    <2>2. ASSUME NEW j \in DOMAIN line, kept[i] = line[j]
          PROVE  kept[i].assembler.revision <= LastRevision(producer.assembler)
      BY <2>2 DEF NumberingInv, Numbers
    <2> QED
      BY <1>8, <2>1, <2>2
  <1>11. ASSUME NEW i \in DOMAIN kept, NEW v \in announced',
                v.id = producer.id, v.revision = kept[i].assembler.revision
         PROVE  v.program = kept[i].assembler.program
    <2>1. CASE kept[i] = built
      BY <1>3, <1>5, <1>6, <1>9, <1>11, <2>1 DEF Agrees
    <2>2. ASSUME NEW j \in DOMAIN line, kept[i] = line[j]
          PROVE  v.program = kept[i].assembler.program
      <3>1. Agrees(line[j].assembler)
        BY DEF NumberingInv
      <3>2. line # << >>
        BY <1>1
      <3>3. line[j].assembler.revision <= LastRevision(base)
        BY <1>9 DEF Numbers
      <3>4. line[j].assembler.revision # new.revision
        BY <1>5, <1>6, <1>7, <1>9, <3>2, <3>3
      <3> QED
        BY <1>3, <1>11, <2>2, <3>1, <3>4 DEF Agrees
    <2> QED
      BY <1>8, <2>1, <2>2
  <1>12. Agrees(producer.assembler)'
    BY <1>2, <1>3, <1>5 DEF NumberingInv, Agrees
  <1>13. NumbersDetermineContent'
    BY <1>3, <1>5 DEF NumberingInv, NumbersDetermineContent, Agrees
  <1>14. Numbers(producer.assembler)'
    <2>1. \A v \in announced' :
             v.id = producer.id => v.revision <= LastRevision(producer.assembler)
      BY <1>3, <1>5, <1>6 DEF NumberingInv, Numbers
    <2> QED
      BY <1>2, <1>10, <2>1 DEF Numbers
  <1>15. (producer.id <= created)' /\ (\A v \in announced : v.id <= created)'
    BY <1>2, <1>3, <1>5 DEF NumberingInv
  <1>16. (\A i \in DOMAIN producer.acknowledged :
             Agrees(producer.acknowledged[i].assembler))'
    BY <1>2, <1>11 DEF Agrees
  <1> QED
    BY <1>2, <1>12, <1>13, <1>14, <1>15, <1>16 DEF NumberingInv

(* What a compiler goes back to still counts past every number used. *)
LEMMA RetractKeepsNumbering ==
    ASSUME PublicationTypeOK, NumberingInv, NEW i \in DOMAIN producer.acknowledged,
           producer.phase = "ready",
           producer' = Retracted(producer, i),
           UNCHANGED <<created, marker, saved, announced>>
    PROVE  NumberingInv'
  <1> DEFINE line == producer.acknowledged
             taken == line[i]
             kept == SubSeq(line, 1, i - 1)
  <1>1. /\ producer \in Compiler /\ line \in Seq(Publication)
        /\ taken \in Publication
        /\ taken.assembler \in Assembler /\ producer.assembler \in Assembler
    <2>1. producer \in Compiler /\ line \in Seq(Publication)
      BY DEF PublicationTypeOK, Compiler
    <2>2. taken \in Publication
      BY <2>1
    <2> QED
      BY <2>1, <2>2 DEF Compiler, Publication
  <1>2. /\ producer'.id = producer.id
        /\ producer'.phase = "ready"
        /\ producer'.acknowledged = kept
        /\ producer'.assembler = ContinueRevisions(taken.assembler,
                                                   LastRevision(producer.assembler))
    BY <1>1 DEF Retracted, Compiler
  <1>3. /\ producer'.assembler.revision = taken.assembler.revision
        /\ producer'.assembler.program = taken.assembler.program
        /\ LastRevision(producer'.assembler) >= LastRevision(producer.assembler)
        /\ LastRevision(producer'.assembler) \in Nat
        /\ LastRevision(producer.assembler) \in Nat
    BY <1>1, <1>2 DEF ContinueRevisions, Assembler, LastRevision
  <1>4. \A j \in DOMAIN kept : j \in DOMAIN line /\ kept[j] = line[j]
    BY <1>1
  <1>5. announced' = announced /\ created' = created
    OBVIOUS
  <1>6. /\ \A v \in announced : v.revision \in Nat
        /\ \A j \in DOMAIN line : line[j].assembler.revision \in Nat
    <2>1. \A j \in DOMAIN line : line[j] \in Publication
      BY <1>1
    <2> QED
      BY <2>1 DEF PublicationTypeOK, Publication, Assembler
  <1> HIDE DEF kept
  <1>7. Agrees(producer.assembler)'
    BY <1>2, <1>3, <1>5 DEF NumberingInv, Agrees
  <1>8. (\A j \in DOMAIN producer.acknowledged :
            Agrees(producer.acknowledged[j].assembler))'
    <2>1. \A j \in DOMAIN line : Agrees(line[j].assembler)
      BY DEF NumberingInv
    <2>2. \A j \in DOMAIN kept : Agrees(kept[j].assembler)
      BY <1>4, <2>1
    <2> QED
      BY <1>2, <1>5, <2>2 DEF Agrees
  <1>9. Numbers(producer.assembler)'
    <2>1. Numbers(producer.assembler)
      BY DEF NumberingInv
    <2>2. \A v \in announced' :
             v.id = producer'.id => v.revision <= LastRevision(producer'.assembler)
      BY <1>2, <1>3, <1>5, <1>6, <2>1 DEF Numbers
    <2>3. \A j \in DOMAIN kept :
             kept[j].assembler.revision <= LastRevision(producer'.assembler)
      BY <1>3, <1>4, <1>6, <2>1 DEF Numbers
    <2> QED
      BY <1>2, <2>2, <2>3 DEF Numbers
  <1> QED
    BY <1>2, <1>5, <1>7, <1>8, <1>9 DEF NumberingInv, NumbersDetermineContent

LEMMA SessionKeepsNumbering ==
    PublicationTypeOK /\ CoherenceInv /\ NumberingInv /\ [SessionNext]_publicationVars
        => NumberingInv'
  <1> SUFFICES ASSUME PublicationTypeOK, CoherenceInv, NumberingInv,
                      [SessionNext]_publicationVars
               PROVE  NumberingInv'
    OBVIOUS
  <1>1. CASE Enable
    <2>1. /\ producer'.id = producer.id
          /\ producer'.phase # "pending"
          /\ producer'.acknowledged = producer.acknowledged
          /\ producer'.assembler = producer.assembler
      BY <1>1 DEF Enable, CanEnable, Enabled, PublicationTypeOK, Compiler
    <2>2. announced' = announced /\ created' = created
      BY <1>1 DEF Enable
    <2>3. Numbers(producer.assembler)' /\ Agrees(producer.assembler)'
      BY <2>1, <2>2 DEF NumberingInv, Numbers, Agrees
    <2>4. (\A i \in DOMAIN producer.acknowledged :
              Agrees(producer.acknowledged[i].assembler))'
      BY <2>1, <2>2 DEF NumberingInv, Agrees
    <2> QED
      BY <2>1, <2>2, <2>3, <2>4 DEF NumberingInv, NumbersDetermineContent
  <1>2. ASSUME NEW p \in Program, NEW fresh \in BOOLEAN, Compile(p, fresh)
        PROVE  NumberingInv'
    BY <1>2, BuildKeepsNumbering DEF Compile
  <1>3. CASE Acknowledge
    BY <1>3, AcknowledgeKeepsNumbering
  <1>4. CASE Reject
    <2>1. producer \in Compiler /\ producer.phase = "pending"
      BY <1>4 DEF PublicationTypeOK, Reject
    <2>2. /\ producer'.id = producer.id
          /\ producer'.phase = "ready"
          /\ producer'.acknowledged = producer.acknowledged
          /\ producer'.assembler = producer.pending.assembler
      BY <1>4, <2>1 DEF Reject, Rejected, Compiler
    <2> QED
      BY <1>4, <2>1, <2>2
         DEF Reject, NumberingInv, NumbersDetermineContent, Numbers, Agrees
  <1>5. ASSUME NEW revision \in 0..RevisionCap, Retract(revision)
        PROVE  NumberingInv'
    BY <1>5, RetractKeepsNumbering DEF Retract, CanRetract
  <1>6. CASE Restart
    <2>1. /\ producer'.id = created + 1
          /\ producer'.phase = "untracked"
          /\ producer'.acknowledged = << >>
          /\ announced' = announced /\ created' = created + 1
      BY <1>6 DEF Restart, NewCompiler
    <2>2. DOMAIN (producer'.acknowledged) = {}
      BY <2>1
    <2>3. created \in Nat /\ \A v \in announced : v.id \in Nat
      BY DEF PublicationTypeOK
    <2>4. \A v \in announced : v.id <= created
      BY DEF NumberingInv
    <2>5. \A v \in announced' : v.id # producer'.id /\ v.id <= created'
      BY <2>1, <2>3, <2>4
    <2> QED
      BY <2>1, <2>2, <2>3, <2>5
         DEF NumberingInv, NumbersDetermineContent, Numbers, Agrees
  <1>7. CASE UNCHANGED publicationVars
    BY <1>7 DEF publicationVars, NumberingInv, NumbersDetermineContent, Numbers, Agrees
  <1> QED
    BY <1>1, <1>2, <1>3, <1>4, <1>5, <1>6, <1>7 DEF SessionNext

LEMMA InitNumbering ==
    PublicationInit => NumberingInv
  <1> SUFFICES ASSUME PublicationInit PROVE NumberingInv
    OBVIOUS
  <1>1. /\ producer.phase = "untracked"
        /\ producer.acknowledged = << >>
        /\ producer.id = 1 /\ created = 1
        /\ announced = {}
    BY DEF PublicationInit, NewCompiler
  <1>2. DOMAIN (producer.acknowledged) = {}
    BY <1>1
  <1> QED
    BY <1>1, <1>2 DEF NumberingInv, NumbersDetermineContent, Numbers, Agrees

(* Writing down the state leaves what was numbered alone. *)
LEMMA NextKeepsNumbering ==
    PublicationTypeOK /\ CoherenceInv /\ (~interrupted => NumberingInv)
        /\ [PublicationNext]_publicationVars
        => (~interrupted => NumberingInv)'
  <1> SUFFICES ASSUME PublicationTypeOK, CoherenceInv, ~interrupted => NumberingInv,
                      [PublicationNext]_publicationVars, ~interrupted'
               PROVE  NumberingInv'
    OBVIOUS
  <1>1. CASE SessionNext /\ UNCHANGED interrupted
    BY <1>1, SessionKeepsNumbering
  <1>2. CASE Export /\ UNCHANGED interrupted
    BY <1>2 DEF Export, NumberingInv, NumbersDetermineContent, Numbers, Agrees
  <1>3. CASE UNCHANGED publicationVars
    BY <1>3 DEF publicationVars, NumberingInv, NumbersDetermineContent, Numbers, Agrees
  <1> QED
    BY <1>1, <1>2, <1>3 DEF PublicationNext, Persistence

(* Compilers that are neither resumed nor compacted never let two programs   *)
(* share a revision number, whatever is rejected, taken back or relaid.      *)
THEOREM NumbersNeverReused == PublicationSpec => []NumbersStayUnique
  <1>1. PublicationSpec => [](PublicationTypeOK /\ CoherenceInv /\ (~interrupted => NumberingInv))
    BY InitType, InitCoherence, InitNumbering, NextKeepsType, NextKeepsCoherence,
       NextKeepsNumbering, PTL DEF PublicationSpec
  <1>2. (~interrupted => NumberingInv) => NumbersStayUnique
    BY DEF NumberingInv, NumbersStayUnique
  <1> QED
    BY <1>1, <1>2, PTL
============================================================================
