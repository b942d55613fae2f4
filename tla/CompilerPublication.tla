------------------------ MODULE CompilerPublication ------------------------
(***************************************************************************)
(* One compiler driven through every operation its owners use: compile,     *)
(* compact, acknowledge, reject and retract publications, export its state  *)
(* and start again from it or afresh.                                       *)
(*                                                                         *)
(* `announced` is a history variable: every build a host was ever told of   *)
(* (acknowledged), with the program it holds.  `marker` is the publication  *)
(* whose whole module is the current output (`.live.full`): a state is      *)
(* exported for it and resumed only while it still is the current one.      *)
(***************************************************************************)
EXTENDS CompilerState

CONSTANTS
    RevisionCap,  \* bound: no build is numbered above it
    ModuleCap     \* bound: module identities created

ASSUME CapsAssumption == RevisionCap \in Nat /\ ModuleCap \in Nat \ {0}

VARIABLES
    producer,   \* the running compiler
    created,    \* module identities handed out
    marker,     \* [id, revision] of the current output, NoMarker before one
    saved,      \* the last exported state with the marker it was saved for
    announced,  \* history: [id, revision, program] of acknowledged builds
    interrupted \* history: whether a compiler was compacted or resumed

publicationVars == <<producer, created, marker, saved, announced, interrupted>>

Marker == [id : Nat, revision : Nat]
NoMarker == [id |-> 0, revision |-> 0]

Version(id, revision, program) ==
    [id |-> id, revision |-> revision, program |-> program]

(* Nothing saved: its marker names no output. *)
NoSaved == [marker |-> NoMarker, state |-> Exported(NewCompiler(0))]

PublicationTypeOK ==
    /\ producer \in Compiler
    /\ created \in Nat
    /\ marker \in Marker
    /\ saved \in [marker : Marker, state : SavedState]
    /\ announced \subseteq [id : Nat, revision : Nat, program : MaybeProgram]
    /\ interrupted \in BOOLEAN

PublicationInit ==
    /\ producer = NewCompiler(1)
    /\ created = 1
    /\ marker = NoMarker
    /\ saved = NoSaved
    /\ announced = {}
    /\ interrupted = FALSE

----------------------------------------------------------------------------
Enable ==
    /\ CanEnable(producer)
    /\ producer' = Enabled(producer, 0, FALSE)
    /\ UNCHANGED <<created, marker, saved, announced>>

(* An unchanged build rewrites the output it left as it is. *)
Build(p, start) ==
    /\ CanCompile(producer)
    /\ producer' = Built(producer, p, start)
    /\ producer'.assembler.revision <= RevisionCap
    /\ marker' = IF producer.phase = "ready" /\ ResultUnchanged(producer, p, start)
                 THEN [id |-> producer.id, revision |-> producer'.assembler.revision]
                 ELSE marker
    /\ UNCHANGED <<created, saved, announced>>

(* The patch planner asks for a fresh layout only of a changed program. *)
Compile(p, fresh) ==
    /\ fresh => producer.semantic \notin {p, NoProgram}
    /\ Build(p, StartingAssembler(producer, fresh))

(* compact starts from an assembler that shares only the stable ids. *)
Compact(p) == Build(p, NewAssembler)

Acknowledge ==
    /\ producer.phase = "pending"
    /\ producer' = Acknowledged(producer)
    /\ marker' = [id |-> producer.id, revision |-> producer.pending.revision]
    /\ announced' = announced \cup {Version(producer.id, producer.pending.revision,
                                            producer.assembler.program)}
    /\ UNCHANGED <<created, saved>>

Reject ==
    /\ producer.phase = "pending"
    /\ producer' = Rejected(producer)
    /\ UNCHANGED <<created, marker, saved, announced>>

Retract(revision) ==
    /\ CanRetract(producer, revision)
    /\ \E i \in DOMAIN producer.acknowledged :
           /\ NewestBuiltOn(producer, revision, i)
           /\ producer' = Retracted(producer, i)
    /\ UNCHANGED <<created, marker, saved, announced>>

(* The session records its state for the output its last build left. *)
Export ==
    /\ CanExport(producer)
    /\ producer.phase = "ready"
    /\ marker = [id |-> producer.id, revision |-> producer.baseline.revision]
    /\ saved' = [marker |-> marker, state |-> Exported(producer)]
    /\ UNCHANGED <<producer, created, marker, announced>>

(* The compiler's process ends, at any point; the next compiler is new ... *)
Restart ==
    /\ created < ModuleCap
    /\ created' = created + 1
    /\ producer' = NewCompiler(created + 1)
    /\ UNCHANGED <<marker, saved, announced>>

(* ... or continues the state saved for the current output. *)
Resume ==
    /\ marker # NoMarker
    /\ saved.marker = marker
    /\ producer' = Resumed(saved.state)
    /\ UNCHANGED <<created, marker, saved, announced>>

----------------------------------------------------------------------------
SessionNext ==
    \/ Enable
    \/ \E p \in Program, fresh \in BOOLEAN : Compile(p, fresh)
    \/ Acknowledge
    \/ Reject
    \/ \E revision \in 0..RevisionCap : Retract(revision)
    \/ Restart

Persistence ==
    \/ Export /\ UNCHANGED interrupted
    \/ Resume /\ interrupted' = TRUE

Compaction == \E p \in Program : Compact(p)

PublicationNext ==
    \/ SessionNext /\ UNCHANGED interrupted
    \/ Persistence
    \/ Compaction /\ interrupted' = TRUE

PublicationSpec == PublicationInit /\ [][PublicationNext]_publicationVars

(* Compilers that are resumed but never compacted. *)
ResumingNext ==
    \/ SessionNext /\ UNCHANGED interrupted
    \/ Persistence

ResumingSpec == PublicationInit /\ [][ResumingNext]_publicationVars

----------------------------------------------------------------------------
(* Coherence of a baseline with the state kept beside it: `program` is the   *)
(* semantic state and `a` the assembler that belong to it.                   *)
Describes(baseline, program, a) ==
    baseline.available =>
        /\ a.revision = baseline.revision
        /\ a.program = program
        /\ Version(producer.id, baseline.revision, program) \in announced

(* The state a build is compared with and patched from is that of the        *)
(* revision the host acknowledged: for the next build, for the build before  *)
(* a pending one (reject goes back to it), and for every publication retract *)
(* can go back to.  compile, acknowledge, reject, retract, export and resume *)
(* each move only some of the parts.                                         *)
BaselineCoherent ==
    /\ producer.phase = "ready" =>
           Describes(producer.baseline, producer.semantic, producer.assembler)
    /\ producer.phase = "pending" =>
           LET built == producer.pending
           IN  /\ Describes(built.baseline, built.snapshot, built.assembler)
               /\ built.revision = producer.assembler.revision
    /\ \A i \in DOMAIN producer.acknowledged :
           LET built == producer.acknowledged[i]
           IN  Describes(built.baseline, built.snapshot, built.assembler)

Acked(revision) == [revision |-> revision, available |-> TRUE]

Unbroken(line, baseline) ==
    /\ \A i \in 1..Len(line) - 1 : line[i + 1].baseline = Acked(line[i].revision)
    /\ Len(line) > 0 => baseline = Acked(line[Len(line)].revision)

(* The acknowledged publications a compiler remembers are one unbroken line  *)
(* that ends at its baseline, so taking back the one built on a revision     *)
(* takes back exactly what was published after that revision.                *)
HistoryUnbroken == Unbroken(producer.acknowledged, producer.baseline)

(* Within a module identity a revision number names one program for ever:    *)
(* the host tells builds apart by identity and revision alone (LiveHost      *)
(* publicationKey), through rejected and retracted builds and fresh layouts. *)
NumbersDetermineContent ==
    \A v, w \in announced :
        v.id = w.id /\ v.revision = w.revision => v.program = w.program

(* As long as no compiler is compacted or resumed they do. *)
NumbersStayUnique == ~interrupted => NumbersDetermineContent

(* A runtime that reconnects is patched on only when the assembler holds the *)
(* very program that runtime runs.                                           *)
ReconcileSound ==
    \A v \in announced :
        ContinuesPatching(producer, v.id, v.revision) =>
            /\ producer.assembler.revision = v.revision
            /\ Version(v.id, v.revision, producer.assembler.program) \in announced

----------------------------------------------------------------------------
(* The inductive invariants behind the two groups of properties. *)

(* Number 0 is the baseline of a host that runs nothing. *)
HostHasRevision(baseline) == baseline.revision > 0 => baseline.available

(* What a saved state resumes to is a coherent baseline too. *)
SavedCoherent ==
    LET state == saved.state
    IN  /\ state.revision > 0 => state.backend
        /\ state.backend =>
               /\ state.assembler.revision = state.revision
               /\ state.assembler.program = state.semantic
               /\ Version(state.id, state.revision, state.semantic) \in announced

(* BaselineCoherent and HistoryUnbroken with what makes them inductive. *)
CoherenceInv ==
    /\ BaselineCoherent
    /\ HistoryUnbroken
    /\ SavedCoherent
    /\ producer.phase = "untracked" => producer.acknowledged = << >>
    /\ HostHasRevision(producer.baseline)
    /\ \A i \in DOMAIN producer.acknowledged :
           HostHasRevision(producer.acknowledged[i].baseline)
    /\ producer.phase = "pending" =>
           /\ producer.pending.baseline = producer.baseline
           /\ producer.semantic = producer.assembler.program
           /\ producer.semantic \in Program
           /\ producer.assembler.revision > 0
    /\ \A v \in announced : v.revision > 0

(* An assembler has the program of the published revision of its number. *)
Agrees(a) ==
    \A v \in announced :
        v.id = producer.id /\ v.revision = a.revision => v.program = a.program

(* Every number used so far is behind an assembler, so its next is new. *)
Numbers(a) ==
    /\ \A v \in announced : v.id = producer.id => v.revision <= LastRevision(a)
    /\ \A i \in DOMAIN producer.acknowledged :
           producer.acknowledged[i].assembler.revision <= LastRevision(a)

(* NumbersDetermineContent with what makes it inductive, for compilers that  *)
(* are neither compacted nor resumed.                                        *)
NumberingInv ==
    /\ NumbersDetermineContent
    /\ producer.id <= created
    /\ \A v \in announced : v.id <= created
    /\ Numbers(producer.assembler)
    /\ Agrees(producer.assembler)
    /\ \A i \in DOMAIN producer.acknowledged :
           Agrees(producer.acknowledged[i].assembler)
    /\ producer.phase = "pending" =>
           LET base == producer.pending.assembler
           IN  /\ Numbers(base)
               /\ Agrees(base)
               /\ \/ producer.assembler.revision > LastRevision(base)
                  \/ producer.assembler = base /\ producer.acknowledged = << >>
============================================================================
