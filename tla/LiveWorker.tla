----------------------------- MODULE LiveWorker -----------------------------
(***************************************************************************)
(* The compile worker: CompilerServer serves one request at a time with a   *)
(* CompilerSession, CompilerDriver stages the artifacts of each build and    *)
(* the server promotes them, a live publication ahead of the whole module.   *)
(*                                                                         *)
(* A session without a compiler has NoCompiler.  Every error, cancellation   *)
(* and crash loses the session's compiler and leaves the promoted files.     *)
(***************************************************************************)
EXTENDS LiveFiles

CONSTANTS
    MaxRevision,  \* bound: no build is numbered above it
    MaxModule     \* bound: module identities created

ASSUME BoundsAssumption == MaxRevision \in Nat \ {0} /\ MaxModule \in Nat \ {0}

VARIABLES
    compiler,     \* the session's compiler
    modules,      \* module identities handed out
    worker,       \* [step, record, build] of the request in progress
    unrecorded,   \* session.unrecordedPublication: its marker
    published     \* history: every build a host could read of

workerVars == <<compiler, modules, worker, unrecorded, published>>

NoCompiler == NewCompiler(0)
HasCompiler == compiler.id # 0

(* CompileResult: what it describes, its patch and its program. *)
Result == [description : Description, patch : PatchFile,
           program : MaybeProgram, unchanged : BOOLEAN]
NoResult == [description |-> [key |-> NoKey, base |-> 0, patch |-> FALSE],
             patch |-> NoPatch, program |-> NoProgram, unchanged |-> FALSE]

WorkerSteps == {"idle", "takeBack", "compile", "withdraw", "patch", "summary",
                "manifest", "stamp", "module", "identity", "marker"}

Idle == [step |-> "idle", record |-> NoRefusal, build |-> NoResult]

WorkerTypeOK ==
    /\ compiler \in Compiler
    /\ modules \in 1..MaxModule
    /\ worker \in [step : WorkerSteps, record : Refusal, build : Result]
    /\ unrecorded \in Key
    /\ published \subseteq ModuleFile

(* A first request was served: the compiler that built it is at hand. *)
WorkerInit(p) ==
    LET first == Built(Enabled(NewCompiler(1), 0, FALSE), p, NewAssembler)
        key == KeyOf(1, 1)
    IN  /\ compiler = Acknowledged(first)
        /\ modules = 1
        /\ worker = Idle
        /\ unrecorded = key
        /\ disk = FirstPublication(key, p)
        /\ published = {[key |-> key, program |-> p]}

At(step) == worker.step = step
Goto(step) == worker' = [worker EXCEPT !.step = step]

----------------------------------------------------------------------------
(* A request, and prepare: another configuration or a structural edit resets *)
(* the session; a session with a compiler reads what a host refused.         *)
Request(reset) ==
    /\ At("idle")
    /\ IF reset \/ ~HasCompiler
       THEN /\ compiler' = NoCompiler
            /\ unrecorded' = IF reset THEN NoKey ELSE unrecorded
            /\ Goto("compile")
       ELSE /\ UNCHANGED <<compiler, unrecorded>>
            /\ worker' = [worker EXCEPT
                             !.record = disk.refused,
                             !.step = IF disk.refused = NoRefusal THEN "compile"
                                                                  ELSE "takeBack"]
    /\ UNCHANGED <<disk, modules, published>>

(* The record counts only for the module that is published whole. *)
RecordApplies ==
    /\ disk.full # NoKey
    /\ worker.record.id = disk.full.id
    /\ CanRetract(compiler, worker.record.running)

(* takeBackRefusedRevisions, from the deletion of the record it read. *)
TakeBack ==
    /\ At("takeBack")
    /\ disk' = [disk EXCEPT !.refused = NoRefusal]
    /\ IF RecordApplies
       THEN \E i \in DOMAIN compiler.acknowledged :
                /\ NewestBuiltOn(compiler, worker.record.running, i)
                /\ compiler' = Retracted(compiler, i)
       ELSE UNCHANGED compiler
    /\ worker' = [worker EXCEPT !.step = "compile", !.record = NoRefusal]
    /\ UNCHANGED <<modules, unrecorded, published>>

(* Mutant: any history beside a whole module is taken for its own. *)
CanResumeAny == disk.full # NoKey /\ disk.state.marker # NoKey

(* resumeLiveModule: the history on disk is that of the module on disk. *)
CanResume == disk.full # NoKey /\ disk.state.marker = disk.full

(* The compiler of a build: the session's, one resumed, or a new one. *)
Prepared(resume) ==
    IF HasCompiler THEN compiler
    ELSE IF resume THEN Resumed(disk.state.compiler)
    ELSE Enabled(NewCompiler(modules + 1), 0, FALSE)

(* A patch is made of the functions that changed, against the layout that    *)
(* the compiler's assembler holds.                                           *)
MayCarryPatch(c, p, start) ==
    /\ c.assembler.revision > 0
    /\ start = c.assembler
    /\ ~AssemblesUnchanged(c, p)

ResultOf(c, p, start, patch) ==
    LET revision == BuiltAssembler(c, p, start).revision
        key == KeyOf(c.id, revision)
    IN  [description |-> [key |-> key, base |-> c.baseline.revision, patch |-> patch],
         patch |-> IF patch THEN [key |-> key, base |-> c.assembler.revision,
                                  from |-> c.assembler.program, to |-> p]
                            ELSE NoPatch,
         program |-> p,
         unchanged |-> ResultUnchanged(c, p, start)]

(* prepare and compile: `p` is what the sources are.  Nothing is staged at a  *)
(* request's own paths, so every build, unchanged or not, is published.       *)
CompileRequest(p, resume, fresh, patch) ==
    /\ At("compile")
    /\ HasCompiler => ~resume
    /\ resume => CanResume
    /\ ~HasCompiler /\ ~resume => modules < MaxModule
    /\ LET c == Prepared(resume)
           start == StartingAssembler(c, fresh)
       IN  /\ fresh => c.semantic \notin {p, NoProgram}
           /\ patch => MayCarryPatch(c, p, start)
           /\ compiler' = Built(c, p, start)
           /\ worker' = [worker EXCEPT !.step = "withdraw",
                                       !.build = ResultOf(c, p, start, patch)]
           /\ modules' = IF HasCompiler \/ resume THEN modules ELSE modules + 1
    /\ compiler'.assembler.revision <= MaxRevision
    /\ UNCHANGED <<disk, unrecorded, published>>

----------------------------------------------------------------------------
(* Mutant: the marker stays until the module is replaced. *)
KeepMarker ==
    /\ At("withdraw")
    /\ Goto(IF worker.build.description.patch THEN "patch" ELSE "summary")
    /\ UNCHANGED <<disk, compiler, modules, unrecorded, published>>

(* publishEarly: the marker goes first, then the files in the host's order.  *)
Withdraw ==
    /\ At("withdraw")
    /\ disk' = [disk EXCEPT !.full = NoKey]
    /\ Goto(IF worker.build.description.patch THEN "patch" ELSE "summary")
    /\ UNCHANGED <<compiler, modules, unrecorded, published>>

PromotePatch ==
    /\ At("patch")
    /\ disk' = [disk EXCEPT !.patch = worker.build.patch]
    /\ Goto("summary")
    /\ UNCHANGED <<compiler, modules, unrecorded, published>>

PromoteSummary ==
    /\ At("summary")
    /\ disk' = [disk EXCEPT !.summary = worker.build.description]
    /\ published' = published \cup {[key |-> worker.build.description.key,
                                     program |-> worker.build.program]}
    /\ Goto("manifest")
    /\ UNCHANGED <<compiler, modules, unrecorded>>

PromoteManifest ==
    /\ At("manifest")
    /\ disk' = [disk EXCEPT !.manifest = worker.build.description]
    /\ Goto("stamp")
    /\ UNCHANGED <<compiler, modules, unrecorded, published>>

(* The driver acknowledges its own publication once it is stamped. *)
Stamp ==
    /\ At("stamp")
    /\ disk' = [disk EXCEPT !.stamp = worker.build.description.key]
    /\ compiler' = IF worker.build.unchanged THEN compiler ELSE Acknowledged(compiler)
    /\ Goto("module")
    /\ UNCHANGED <<modules, unrecorded, published>>

(* The rest of the request's outputs, the marker last. *)
PromoteModule ==
    /\ At("module")
    /\ disk' = [disk EXCEPT !.full = NoKey,
                            !.module = [key |-> worker.build.description.key,
                                        program |-> worker.build.program]]
    /\ Goto("identity")
    /\ UNCHANGED <<compiler, modules, unrecorded, published>>

PromoteIdentity ==
    /\ At("identity")
    /\ disk' = [disk EXCEPT !.identity = worker.build.description.key,
                            !.patch = IF worker.build.description.patch THEN @ ELSE NoPatch]
    /\ Goto("marker")
    /\ UNCHANGED <<compiler, modules, unrecorded, published>>

PromoteMarker ==
    /\ At("marker")
    /\ disk' = [disk EXCEPT !.full = worker.build.description.key]
    /\ unrecorded' = worker.build.description.key
    /\ worker' = Idle
    /\ UNCHANGED <<compiler, modules, published>>

(* recordLiveState, once no request has followed. *)
RecordState ==
    /\ At("idle")
    /\ unrecorded # NoKey
    /\ unrecorded' = NoKey
    /\ disk' = IF HasCompiler /\ disk.full = unrecorded
               THEN [disk EXCEPT !.state = [marker |-> unrecorded,
                                            compiler |-> Exported(compiler)]]
               ELSE disk
    /\ UNCHANGED <<compiler, modules, worker, published>>

(* A compile error, a requester that disconnects, a write that fails, the     *)
(* worker's end: at any step.                                                 *)
LoseSession ==
    /\ HasCompiler \/ ~At("idle")
    /\ compiler' = NoCompiler
    /\ unrecorded' = NoKey
    /\ worker' = Idle
    /\ UNCHANGED <<disk, modules, published>>

----------------------------------------------------------------------------
(* What a request does on its own once it has been made. *)
WorkerStep ==
    \/ TakeBack
    \/ \E p \in Program, resume, fresh, patch \in BOOLEAN :
           CompileRequest(p, resume, fresh, patch)
    \/ Withdraw
    \/ PromotePatch
    \/ PromoteSummary
    \/ PromoteManifest
    \/ Stamp
    \/ PromoteModule
    \/ PromoteIdentity
    \/ PromoteMarker

WorkerNext ==
    \/ \E reset \in BOOLEAN : Request(reset)
    \/ WorkerStep
    \/ RecordState
    \/ LoseSession
============================================================================
