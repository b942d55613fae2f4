------------------------ MODULE CompilerStateProofs -------------------------
(***************************************************************************)
(* What the operators of CompilerState make, for every program, depth of      *)
(* history and revision: lemmas that the proofs about CompilerPublication and  *)
(* about LiveSession share.                                                 *)
(***************************************************************************)
EXTENDS CompilerState, TLAPS

----------------------------------------------------------------------------
(* Every operation of a compiler makes a compiler.                           *)

(* A new compiler is untracked, with an empty history. *)
LEMMA NewCompilerType ==
    ASSUME NEW id \in Nat
    PROVE  NewCompiler(id) \in Compiler
  BY DEF NewCompiler, Compiler, NoBaseline, NoPublication, NewAssembler, Baseline,
         Publication, Assembler, MaybeProgram

(* Assemblers stay assemblers under numbering. *)
LEMMA NumberingType ==
    ASSUME NEW a \in Assembler, NEW r \in Nat
    PROVE  /\ LastRevision(a) \in Nat
           /\ ContinueRevisions(a, r) \in Assembler
           /\ FreshLayout(a) \in Assembler
  <1>1. LastRevision(a) \in Nat
    BY DEF LastRevision, Assembler
  <1>2. ASSUME NEW b \in Assembler, NEW n \in Nat
        PROVE  ContinueRevisions(b, n) \in Assembler
    BY DEF ContinueRevisions, Assembler
  <1>3. NewAssembler \in Assembler
    BY DEF NewAssembler, Assembler, MaybeProgram
  <1> QED
    BY <1>1, <1>2, <1>3 DEF FreshLayout

(* ... and under assembly. *)
LEMMA AssembledType ==
    ASSUME NEW a \in Assembler, NEW p \in Program
    PROVE  Assembled(a, p) \in Assembler
  <1>1. LastRevision(a) + 1 \in Nat
    BY NumberingType, 0 \in Nat
  <1> QED
    BY <1>1 DEF Assembled, Assembler, MaybeProgram

(* A build makes a compiler. *)
LEMMA BuiltType ==
    ASSUME NEW c \in Compiler, NEW p \in Program, NEW start \in Assembler
    PROVE  Built(c, p, start) \in Compiler
  <1> DEFINE next == BuiltAssembler(c, p, start)
             built == [baseline  |-> c.baseline,
                       revision  |-> next.revision,
                       snapshot  |-> c.semantic,
                       assembler |-> c.assembler]
  <1>1. next \in Assembler
    BY AssembledType DEF BuiltAssembler
  <1>2. built \in Publication
    BY <1>1 DEF Compiler, Publication, Assembler
  <1> HIDE DEF next, built
  <1>3. [c EXCEPT !.assembler = next, !.semantic = p] \in Compiler
    BY <1>1 DEF Compiler, MaybeProgram
  <1>4. [[c EXCEPT !.assembler = next, !.semantic = p]
            EXCEPT !.phase = "pending", !.pending = built] \in Compiler
    BY <1>2, <1>3 DEF Compiler
  <1> QED
    BY <1>3, <1>4 DEF Built, next, built

(* Acknowledging, rejecting and enabling make a compiler. *)
LEMMA AcknowledgedType ==
    ASSUME NEW c \in Compiler
    PROVE  Acknowledged(c) \in Compiler
  <1> DEFINE line == Append(c.acknowledged, c.pending)
  <1>1. line \in Seq(Publication) /\ Len(line) = Len(c.acknowledged) + 1
    BY DEF Compiler
  <1>2. Remembered(line) \in Seq(Publication)
    BY <1>1, RetractableAssumption DEF Remembered
  <1>3. NoPublication \in Publication
    BY DEF NoPublication, NoBaseline, NewAssembler, Publication, Baseline, Assembler,
           MaybeProgram
  <1> QED
    BY <1>2, <1>3 DEF Acknowledged, Compiler, Publication, Baseline

LEMMA RejectedType ==
    ASSUME NEW c \in Compiler
    PROVE  Rejected(c) \in Compiler
  <1>1. NoPublication \in Publication
    BY DEF NoPublication, NoBaseline, NewAssembler, Publication, Baseline, Assembler,
           MaybeProgram
  <1> QED
    BY <1>1 DEF Rejected, Compiler, Publication

LEMMA EnabledType ==
    ASSUME NEW c \in Compiler, NEW r \in Nat, NEW available \in BOOLEAN
    PROVE  Enabled(c, r, available) \in Compiler
  BY DEF Enabled, Compiler, Baseline

(* Retracting makes a compiler. *)
LEMMA RetractedType ==
    ASSUME NEW c \in Compiler, NEW i \in DOMAIN c.acknowledged
    PROVE  Retracted(c, i) \in Compiler
  <1> DEFINE taken == c.acknowledged[i]
  <1>1. i \in 1..Len(c.acknowledged) /\ taken \in Publication
    BY DEF Compiler
  <1>2. SubSeq(c.acknowledged, 1, i - 1) \in Seq(Publication)
    BY <1>1 DEF Compiler
  <1>3. ContinueRevisions(taken.assembler, LastRevision(c.assembler)) \in Assembler
    BY <1>1, NumberingType DEF Compiler, Publication
  <1> QED
    BY <1>1, <1>2, <1>3 DEF Retracted, Compiler, Publication

(* A saved state is one, and makes a compiler. *)
LEMMA ExportedType ==
    ASSUME NEW c \in Compiler
    PROVE  Exported(c) \in SavedState
  <1>1. EncodedAssembler(c.assembler) \in Assembler /\ NewAssembler \in Assembler
    BY DEF Compiler, EncodedAssembler, NewAssembler, Assembler, MaybeProgram
  <1>2. HasBackend(c) \in BOOLEAN /\ c.baseline.revision \in Nat
    BY DEF HasBackend, Compiler, Baseline
  <1> QED
    BY <1>1, <1>2 DEF Exported, SavedState, Compiler

LEMMA ResumedType ==
    ASSUME NEW s \in SavedState
    PROVE  Resumed(s) \in Compiler
  <1> DEFINE restored == [NewCompiler(s.id) EXCEPT !.assembler = s.assembler,
                                                   !.semantic = s.semantic]
  <1>1. restored \in Compiler
    <2>1. NewCompiler(s.id) \in Compiler
      BY NewCompilerType DEF SavedState
    <2>2. s.assembler \in Assembler /\ s.semantic \in MaybeProgram
      BY DEF SavedState
    <2> QED
      BY <2>1, <2>2 DEF Compiler
  <1>2. s.revision \in Nat /\ s.backend \in BOOLEAN
    BY DEF SavedState
  <1>3. Enabled(restored, s.revision, s.backend) \in Compiler
    BY <1>1, <1>2, EnabledType
  <1> QED
    BY <1>1, <1>3 DEF Resumed
============================================================================
