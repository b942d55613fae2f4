--------------------------- MODULE CompilerState ---------------------------
(***************************************************************************)
(* The compiler side of a live session: the publication state machine      *)
(* (compiler/compilation/CompilerPublication.hx), the transaction that      *)
(* feeds it (CompilationTransaction.hx, Compiler.hx) and the numbering of   *)
(* revisions by the assembler (HlModuleAssembler.hx, BackendAssembly.hx).   *)
(*                                                                         *)
(* A program stands for everything a build lowers: two builds of the same   *)
(* program have the same functions, types and layout.  An assembler holds   *)
(* the program it last assembled, which is what the next patch is computed  *)
(* against; the compiler's semantic state (modules, types, ABI) holds the   *)
(* program the next build is compared with.  The two are saved and put back *)
(* separately in the code, so they are separate fields here.                *)
(*                                                                         *)
(* Every operation is an operator on a compiler record: CompilerPublication *)
(* drives one compiler through all of them, LiveSession composes them with  *)
(* the compile worker, the files and the live host.                         *)
(***************************************************************************)
EXTENDS Integers, Sequences

CONSTANTS
    Program,      \* what the sources can be
    NoProgram,    \* nothing compiled yet
    Retractable   \* CompilerPublication.RETRACTABLE

ASSUME NoProgramAssumption == NoProgram \notin Program
ASSUME RetractableAssumption == Retractable \in Nat \ {0}

MaybeProgram == Program \cup {NoProgram}

----------------------------------------------------------------------------
(* The data of the state machine. *)

(* HlModuleAssembler: `floor` is revisionFloor; revision 0 is uninitialized. *)
Assembler == [revision : Nat, floor : Nat, program : MaybeProgram]

(* PublishedBaseline, its ABI being part of the program of that revision. *)
Baseline == [revision : Nat, available : BOOLEAN]

(* PendingPublication: a build with the state it was built from. *)
Publication == [baseline  : Baseline,
                revision  : Nat,
                snapshot  : MaybeProgram,
                assembler : Assembler]

NewAssembler == [revision |-> 0, floor |-> 0, program |-> NoProgram]

NoBaseline == [revision |-> 0, available |-> FALSE]

NoPublication == [baseline  |-> NoBaseline,
                  revision  |-> 0,
                  snapshot  |-> NoProgram,
                  assembler |-> NewAssembler]

(* Compiler with its CompilerPublication.  `pending` counts only in phase    *)
(* "pending", `baseline` in "ready" and "pending".                           *)
Compiler == [id           : Nat,
             phase        : {"untracked", "ready", "pending"},
             baseline     : Baseline,
             pending      : Publication,
             acknowledged : Seq(Publication),
             assembler    : Assembler,
             semantic     : MaybeProgram]

(* What exportIdentityState writes.  `backend` says whether it holds an       *)
(* assembler state, which it does once a revision was acknowledged.          *)
SavedState == [id        : Nat,
               tracking  : BOOLEAN,
               revision  : Nat,
               backend   : BOOLEAN,
               assembler : Assembler,
               semantic  : MaybeProgram]

----------------------------------------------------------------------------
(* Numbering. *)

LastRevision(a) == IF a.revision > a.floor THEN a.revision ELSE a.floor

ContinueRevisions(a, revision) ==
    [a EXCEPT !.floor = IF revision > a.floor THEN revision ELSE a.floor]

(* Mutant: a fresh layout that counts from the start. *)
RestartedLayout(a) == NewAssembler

(* freshLayout: a new assembler that keeps counting. *)
FreshLayout(a) == ContinueRevisions(NewAssembler, LastRevision(a))

(* assemble, for a program that changes something. *)
Assembled(a, p) == [a EXCEPT !.revision = LastRevision(a) + 1, !.program = p]

(* assemble reports `unchanged`: nothing the published module holds differs. *)
AssemblesUnchanged(c, p) ==
    /\ c.assembler.revision > 0
    /\ c.assembler.program = p
    /\ c.semantic = p

----------------------------------------------------------------------------
(* Operations of the compiler. *)

NewCompiler(id) == [id           |-> id,
                    phase        |-> "untracked",
                    baseline     |-> NoBaseline,
                    pending      |-> NoPublication,
                    acknowledged |-> << >>,
                    assembler    |-> NewAssembler,
                    semantic     |-> NoProgram]

(* enable, which throws when a build is pending. *)
CanEnable(c) == c.phase # "pending"

Enabled(c, revision, available) ==
    IF c.phase = "untracked"
    THEN [c EXCEPT !.phase = "ready",
                   !.baseline = [revision |-> revision, available |-> available]]
    ELSE c

(* beforeCompile. *)
CanCompile(c) == c.phase # "pending"

(* The assembler a build starts from: a copy of the compiler's, or a fresh   *)
(* layout when the patch planner asks for one.                               *)
StartingAssembler(c, fresh) ==
    IF fresh THEN FreshLayout(c.assembler) ELSE c.assembler

BuiltAssembler(c, p, start) ==
    IF start = c.assembler /\ AssemblesUnchanged(c, p)
    THEN start
    ELSE Assembled(start, p)

(* `unchanged` of the compile result: also the host must have that revision. *)
ResultUnchanged(c, p, start) ==
    /\ start = c.assembler
    /\ AssemblesUnchanged(c, p)
    /\ \/ c.phase = "untracked"
       \/ c.baseline.available /\ c.baseline.revision = c.assembler.revision

(* adoptCandidate, then candidate or unchanged. *)
Built(c, p, start) ==
    LET next == BuiltAssembler(c, p, start)
        adopted == [c EXCEPT !.assembler = next, !.semantic = p]
    IN  IF c.phase = "untracked" \/ ResultUnchanged(c, p, start)
        THEN adopted
        ELSE [adopted EXCEPT
                !.phase = "pending",
                !.pending = [baseline  |-> c.baseline,
                             revision  |-> next.revision,
                             snapshot  |-> c.semantic,
                             assembler |-> c.assembler]]

(* acknowledge: the oldest publication is forgotten beyond Retractable. *)
Remembered(s) == IF Len(s) > Retractable THEN Tail(s) ELSE s

Acknowledged(c) ==
    [c EXCEPT !.phase = "ready",
              !.baseline = [revision |-> c.pending.revision, available |-> TRUE],
              !.pending = NoPublication,
              !.acknowledged = Remembered(Append(c.acknowledged, c.pending))]

(* Mutants: reject keeps the assembler of the build it rejects, or restores   *)
(* the publication for its assembler.                                         *)
HalfRejected(c) ==
    [c EXCEPT !.phase = "ready",
              !.baseline = c.pending.baseline,
              !.pending = NoPublication,
              !.semantic = c.pending.snapshot]

ConfusedRejected(c) ==
    [c EXCEPT !.phase = "ready",
              !.baseline = c.pending.baseline,
              !.pending = NoPublication,
              !.semantic = c.pending.snapshot,
              !.assembler = c.pending]

(* rejectPublication: restore the snapshot and the assembler built from. *)
Rejected(c) ==
    [c EXCEPT !.phase = "ready",
              !.baseline = c.pending.baseline,
              !.pending = NoPublication,
              !.semantic = c.pending.snapshot,
              !.assembler = c.pending.assembler]

(* retractPublication searches from the newest publication for the one built *)
(* on `revision`, and takes it and those after it back.                      *)
NewestBuiltOn(c, revision, i) ==
    /\ i \in DOMAIN c.acknowledged
    /\ c.acknowledged[i].baseline.revision = revision
    /\ \A j \in DOMAIN c.acknowledged :
           j > i => c.acknowledged[j].baseline.revision # revision

CanRetract(c, revision) ==
    /\ c.phase = "ready"
    /\ \E i \in DOMAIN c.acknowledged : NewestBuiltOn(c, revision, i)

(* Mutant: the publication taken back stays in the history. *)
ShortRetracted(c, i) ==
    LET taken == c.acknowledged[i]
    IN  [c EXCEPT !.baseline = taken.baseline,
                  !.acknowledged = SubSeq(c.acknowledged, 1, i),
                  !.semantic = taken.snapshot,
                  !.assembler = ContinueRevisions(taken.assembler,
                                                  LastRevision(c.assembler))]

Retracted(c, i) ==
    LET taken == c.acknowledged[i]
    IN  [c EXCEPT !.baseline = taken.baseline,
                  !.acknowledged = SubSeq(c.acknowledged, 1, i - 1),
                  !.semantic = taken.snapshot,
                  !.assembler = ContinueRevisions(taken.assembler,
                                                  LastRevision(c.assembler))]

(* exportIdentityState; persistence throws while a build is pending. *)
CanExport(c) == c.phase # "pending"

HasBackend(c) == c.phase = "ready" /\ c.baseline.revision > 0

(* HlAssemblerStateCodec: everything but the revision floor is written. *)
EncodedAssembler(a) == [a EXCEPT !.floor = 0]

Exported(c) ==
    [id        |-> c.id,
     tracking  |-> c.phase = "ready",
     revision  |-> IF HasBackend(c) THEN c.baseline.revision ELSE 0,
     backend   |-> HasBackend(c),
     assembler |-> IF HasBackend(c) THEN EncodedAssembler(c.assembler)
                                    ELSE NewAssembler,
     semantic  |-> c.semantic]

(* A compiler made from a saved state. *)
Resumed(s) ==
    LET restored == [NewCompiler(s.id) EXCEPT !.assembler = s.assembler,
                                              !.semantic = s.semantic]
    IN  IF s.tracking THEN Enabled(restored, s.revision, s.backend) ELSE restored

(* Mutant: any earlier revision will do. *)
LaxContinuesPatching(c, id, revision) ==
    /\ id = c.id
    /\ c.phase = "ready"
    /\ revision <= c.baseline.revision
    /\ c.baseline.revision = 0 \/ c.baseline.available

(* reconcileRuntime: whether patching may go on with a runtime at `revision`. *)
ContinuesPatching(c, id, revision) ==
    /\ id = c.id
    /\ c.phase = "ready"
    /\ revision = c.baseline.revision
    /\ c.baseline.revision = 0 \/ c.baseline.available
============================================================================
