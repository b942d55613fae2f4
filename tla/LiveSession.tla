---------------------------- MODULE LiveSession ----------------------------
(***************************************************************************)
(* `haxeon run --watch --live`: one compile worker, one live host and the    *)
(* files between them.  Each step reads or replaces one file, so the two      *)
(* interleave at every file.                                                 *)
(***************************************************************************)
EXTENDS LiveWorker, LiveHost

vars == <<disk, workerVars, hostVars>>

TypeOK == disk \in Files /\ WorkerTypeOK /\ HostTypeOK

(* The host starts on a module built before. *)
Init == HostInit /\ \E p \in Program : WorkerInit(p)

Next ==
    \/ WorkerNext /\ UNCHANGED hostVars
    \/ HostNext /\ UNCHANGED workerVars

Spec == Init /\ [][Next]_vars

(* Without the histories that outlive a session. *)
NextUnresumed ==
    \/ WorkerNext /\ disk'.state = disk.state /\ UNCHANGED hostVars
    \/ HostNext /\ UNCHANGED workerVars

UnresumedSpec == Init /\ [][NextUnresumed]_vars

(* The host's loop goes on, and a request that was made is worked off: the   *)
(* compile thread runs to its end and nothing waits for the other process.   *)
(* Requests, idle time, the session's end and the application's are up to    *)
(* the environment.                                                          *)
Fairness ==
    /\ WF_vars(HostStep /\ UNCHANGED workerVars)
    /\ WF_vars(WorkerStep /\ UNCHANGED hostVars)

FairSpec == Spec /\ Fairness
FairUnresumedSpec == UnresumedSpec /\ Fairness

(* While a reload waits, the clock it is measured against goes on. *)
FairTrustingSpec == FairSpec /\ SF_vars(TrustModule /\ UNCHANGED workerVars)

----------------------------------------------------------------------------
(* The marker is the licence to load the files: while it names a             *)
(* publication, every file a reload reads is of that publication.            *)
MarkerVouches ==
    disk.full # NoKey =>
        /\ disk.module.key = disk.full
        /\ disk.identity = disk.full
        /\ disk.manifest.key = disk.full
        /\ disk.module \in published

(* A saved history that would be resumed describes the very module on disk:  *)
(* what its next patch is made from is what a host loads from there.         *)
ResumesPublishedModule ==
    CanResume =>
        LET c == Resumed(disk.state.compiler)
        IN  /\ KeyOf(c.id, c.baseline.revision) = disk.module.key
            /\ c.baseline.available
            /\ c.assembler.program = disk.module.program

(* What the host takes the running module for is what runs, whatever landed  *)
(* between the reads of its description, its patch and its module: every     *)
(* later patch is chosen by that revision.                                   *)
HostKnowsWhatRuns ==
    Running => runtime.key = host.current /\ runtime \in published

(* The application runs whole published builds, forward only. *)
Application == INSTANCE LiveProgram WITH
    Key <- [id : 1..MaxModule, revision : 1..MaxRevision],
    Nothing <- NoModule,
    running <- runtime
ImplementsLiveProgram == Application!Spec

(* Once the worker is done with a publication it stamped, a host that goes   *)
(* on running runs it, has passed it over, or waits for its whole module.    *)
Settled ==
    LET key == disk.stamp
    IN  \/ host.step = "stopped"
        \/ host.current = key
        \/ host.rejected = key
        \/ host.pending = key /\ disk.full # key

EveryPublicationSettles ==
    <>[](At("idle") /\ disk.stamp = disk.summary.key) => <>[]Settled

(* A host does not wait for ever for a module whose worker failed before it  *)
(* wrote the marker.                                                         *)
NoReloadHangs ==
    <>[](At("idle") /\ disk.full = NoKey) =>
        <>[](host.step = "stopped" \/ (Running /\ host.pending = NoKey))

----------------------------------------------------------------------------
(* What comments and documents of the code say, which runs refute. *)

(* CompilerSession.hx:182, of takeBackRefusedRevisions: "The compiler takes   *)
(* the refused revisions back before it reads the sources, and this build     *)
(* patches the revision the app runs".                                       *)
TakesBackToWhatRuns ==
    [][At("takeBack") /\ compiler'.id # 0 /\ compiler' # compiler /\ Running =>
           host.current = KeyOf(compiler.id, compiler'.baseline.revision)]_vars

(* CompilerDriver.hx:63: "An unchanged build leaves a publication the host    *)
(* may not have polled yet exactly as it is."                                *)
UnchangedLeavesPublication ==
    [][worker.build.unchanged /\ Running /\ disk.stamp # host.stamp =>
           disk'.summary = disk.summary /\ disk'.patch = disk.patch]_vars
============================================================================
