------------------------------ MODULE LiveHost ------------------------------
(***************************************************************************)
(* The live host (tools/LiveHost.hx): one thread that calls the application, *)
(* polls the publication stamp once a tick and patches or reloads the module *)
(* it runs.  It reads each file on its own, so a build can land between any   *)
(* two reads.                                                                *)
(*                                                                         *)
(* The native runtime is external.  `runtime` is what it executes: the        *)
(* revision it holds and the program its functions add up to, which is        *)
(* NoProgram once a patch replaced functions of another program than the one  *)
(* the patch was made from.                                                   *)
(***************************************************************************)
EXTENDS LiveFiles

CONSTANTS
    Strict,       \* HAXEON_LIVE_STRICT
    TrustMissing  \* the time after which a missing marker is trusted passes

ASSUME ModeAssumption == Strict \in BOOLEAN /\ TrustMissing \in BOOLEAN

VARIABLES
    host,     \* the host's locals and the step it is at
    runtime   \* the module file the runtime executes

hostVars == <<host, runtime>>

HostSteps == {"boot", "manifest", "poll", "describe", "decide", "patch", "complete",
              "marker", "module", "identity", "recheck", "stopped"}

NoDescription == [key |-> NoKey, base |-> 0, patch |-> FALSE]
NoModule == [key |-> NoKey, program |-> NoProgram]

(* `current` is the description and revision of the module that runs. *)
Host == [step      : HostSteps,
         current   : Key,
         stamp     : Key,
         polled    : Key,
         candidate : Description,
         rejected  : Key,
         pending   : Key,
         loading   : ModuleFile,
         trusted   : BOOLEAN,
         lost      : BOOLEAN]

HostTypeOK == host \in Host /\ runtime \in ModuleFile

HostInit ==
    /\ host = [step |-> "boot", current |-> NoKey, stamp |-> NoKey, polled |-> NoKey,
               candidate |-> NoDescription, rejected |-> NoKey, pending |-> NoKey,
               loading |-> NoModule, trusted |-> FALSE, lost |-> FALSE]
    /\ runtime = NoModule

Running == host.current # NoKey
HostAt(step) == host.step = step

(* The end of a tick looks at a reload that waits, if there is one. *)
EndOfTick(h) == [h EXCEPT !.step = IF h.pending = NoKey THEN "poll" ELSE "marker",
                          !.candidate = NoDescription,
                          !.polled = NoKey]

----------------------------------------------------------------------------
(* Start: the stamp, then a description whose whole module is published. *)
BootStamp ==
    /\ HostAt("boot")
    /\ host' = [host EXCEPT !.step = "manifest", !.stamp = disk.stamp]
    /\ UNCHANGED <<disk, runtime>>

BootManifest ==
    /\ HostAt("manifest")
    /\ host' = [host EXCEPT !.step = "marker", !.pending = disk.manifest.key]
    /\ UNCHANGED <<disk, runtime>>

(* A tick that finds the stamp as it was looks no further. *)
Poll ==
    /\ HostAt("poll")
    /\ host' = IF disk.stamp = host.stamp
               THEN EndOfTick(host)
               ELSE [host EXCEPT !.step = "describe", !.polled = disk.stamp]
    /\ UNCHANGED <<disk, runtime>>

(* tryDescription: the summary there is now may be of a newer build. *)
Describe ==
    /\ HostAt("describe")
    /\ LET seen == [host EXCEPT !.stamp = host.polled, !.candidate = disk.summary]
       IN  host' = IF disk.summary.key \in {host.current, host.rejected}
                   THEN EndOfTick(seen)
                   ELSE [seen EXCEPT !.step = "decide"]
    /\ UNCHANGED <<disk, runtime>>

(* The runtime has the candidate's history: its module, and no numbering from *)
(* scratch.                                                                   *)
SameHistory ==
    /\ host.candidate.key.id = host.current.id
    /\ host.candidate.key.revision >= host.current.revision

(* LivePublication.canPatch. *)
CanPatch ==
    /\ host.candidate.key.id = host.current.id
    /\ host.candidate.patch
    /\ host.candidate.base = host.current.revision

(* Mutant: the refused publication is not remembered. *)
ForgetfulRefuse(record) ==
    /\ host' = EndOfTick(host)
    /\ disk' = IF record
               THEN [disk EXCEPT !.refused = [id      |-> host.current.id,
                                              running |-> host.current.revision,
                                              refused |-> host.candidate.key.revision]]
               ELSE disk

(* refuse: `record` tells the compiler. *)
Refuse(record) ==
    /\ host' = EndOfTick([host EXCEPT !.rejected = host.candidate.key])
    /\ disk' = IF record
               THEN [disk EXCEPT !.refused = [id      |-> host.current.id,
                                              running |-> host.current.revision,
                                              refused |-> host.candidate.key.revision]]
               ELSE disk

(* A strict host that once saw a compiler without the running history refuses *)
(* all there is from then on.                                                 *)
RefuseLostHistory ==
    /\ HostAt("decide")
    /\ Strict
    /\ host.lost \/ ~SameHistory
    /\ host' = EndOfTick([host EXCEPT !.rejected = host.candidate.key, !.lost = TRUE])
    /\ UNCHANGED <<disk, runtime>>

RefuseUnpatchable ==
    /\ HostAt("decide")
    /\ Strict
    /\ ~host.lost /\ SameHistory /\ ~CanPatch
    /\ Refuse(TRUE)
    /\ UNCHANGED runtime

DecidePatch ==
    /\ HostAt("decide")
    /\ Strict => ~host.lost /\ SameHistory
    /\ CanPatch
    /\ host' = [host EXCEPT !.step = "patch"]
    /\ UNCHANGED <<disk, runtime>>

DecideReload ==
    /\ HostAt("decide")
    /\ ~Strict /\ ~CanPatch
    /\ host' = [host EXCEPT !.step = "complete"]
    /\ UNCHANGED <<disk, runtime>>

----------------------------------------------------------------------------
(* The runtime refuses a patch of another module or another base revision. *)
Applicable(patch) ==
    /\ patch # NoPatch
    /\ patch.key.id = runtime.key.id
    /\ patch.base = runtime.key.revision

Patched(patch) ==
    [key |-> patch.key,
     program |-> IF runtime.program = patch.from THEN patch.to ELSE NoProgram]

(* The patch file is read now; `complete` is FALSE when it applied but        *)
(* initializers of the fields it added threw (MigrationFailed).               *)
ApplyPatch(complete) ==
    /\ HostAt("patch")
    /\ Applicable(disk.patch)
    /\ runtime' = Patched(disk.patch)
    /\ LET adopted == [host EXCEPT !.current = host.candidate.key, !.rejected = NoKey]
       IN  host' = IF complete \/ Strict
                   THEN EndOfTick(adopted)
                   ELSE [adopted EXCEPT !.step = "complete"]
    /\ UNCHANGED disk

(* Any patch may fail: one that is gone or not applicable, held closures, a   *)
(* staging failure.                                                           *)
FailPatch ==
    /\ HostAt("patch")
    /\ IF Strict
       THEN Refuse(TRUE)
       ELSE host' = [host EXCEPT !.step = "complete"] /\ UNCHANGED disk
    /\ UNCHANGED runtime

(* completeDescription: the reload waits for the description's whole module,  *)
(* or the publication is passed over.                                         *)
Complete ==
    /\ HostAt("complete")
    /\ LET key == host.candidate.key
       IN  host' = EndOfTick(IF disk.manifest.key = key
                             THEN [host EXCEPT !.pending = key]
                             ELSE [host EXCEPT !.rejected = key])
    /\ UNCHANGED <<disk, runtime>>

----------------------------------------------------------------------------
(* readFullModule: the marker, the module, its identity, the marker again.    *)
(* A start that is not served reads the description again.                    *)
Unserved == IF Running THEN [host EXCEPT !.step = "poll"]
                       ELSE [host EXCEPT !.step = "manifest"]

ReadMarker ==
    /\ HostAt("marker")
    /\ host' = IF disk.full = host.pending THEN [host EXCEPT !.step = "module"]
                                          ELSE Unserved
    /\ UNCHANGED <<disk, runtime>>

(* Mutant: only the first load runs out of patience. *)
TrustFirstModule ==
    /\ HostAt("marker")
    /\ TrustMissing
    /\ ~Running
    /\ disk.full = NoKey
    /\ host' = [host EXCEPT !.step = "module", !.trusted = TRUE]
    /\ UNCHANGED <<disk, runtime>>

(* No marker for seconds: the files are taken as they are. *)
TrustModule ==
    /\ HostAt("marker")
    /\ TrustMissing
    /\ disk.full = NoKey
    /\ host' = [host EXCEPT !.step = "module", !.trusted = TRUE]
    /\ UNCHANGED <<disk, runtime>>

ReadModule ==
    /\ HostAt("module")
    /\ host' = [host EXCEPT !.step = "identity", !.loading.program = disk.module.program]
    /\ UNCHANGED <<disk, runtime>>

ReadIdentity ==
    /\ HostAt("identity")
    /\ host' = [host EXCEPT !.step = "recheck", !.loading.key = disk.identity]
    /\ UNCHANGED <<disk, runtime>>

Read(h) == [h EXCEPT !.loading = NoModule, !.trusted = FALSE]

MarkerGone ==
    /\ HostAt("recheck")
    /\ ~host.trusted /\ disk.full # host.pending
    /\ host' = Read(Unserved)
    /\ UNCHANGED <<disk, runtime>>

(* Mutant: the marker is not read again. *)
MayLoadUnchecked == HostAt("recheck")

MayLoad == HostAt("recheck") /\ (host.trusted \/ disk.full = host.pending)

(* The first load, or a reload that succeeds. *)
Load ==
    /\ MayLoad
    /\ runtime' = host.loading
    /\ host' = Read([host EXCEPT !.step = "poll", !.current = host.pending,
                                 !.pending = NoKey, !.rejected = NoKey])
    /\ UNCHANGED disk

(* Mutant: the publication that could not be loaded is not remembered. *)
ForgetfulKeepModule ==
    /\ MayLoad
    /\ Running
    /\ host' = Read([host EXCEPT !.step = "poll", !.pending = NoKey])
    /\ UNCHANGED <<disk, runtime>>

(* The running module stays: its state could not be saved, the replacement    *)
(* could not be loaded, or it failed to start and the module was restored.    *)
KeepModule ==
    /\ MayLoad
    /\ Running
    /\ host' = Read([host EXCEPT !.step = "poll", !.pending = NoKey,
                                 !.rejected = host.pending])
    /\ UNCHANGED <<disk, runtime>>

(* The application ends, or throws in a tick or when it is restored. *)
Stop ==
    /\ HostAt("poll") \/ MayLoad
    /\ host' = Read([host EXCEPT !.step = "stopped", !.pending = NoKey])
    /\ UNCHANGED <<disk, runtime>>

----------------------------------------------------------------------------
HostStep ==
    \/ BootStamp
    \/ BootManifest
    \/ Poll
    \/ Describe
    \/ RefuseLostHistory
    \/ RefuseUnpatchable
    \/ DecidePatch
    \/ DecideReload
    \/ \E complete \in BOOLEAN : ApplyPatch(complete)
    \/ FailPatch
    \/ Complete
    \/ ReadMarker
    \/ TrustModule
    \/ ReadModule
    \/ ReadIdentity
    \/ MarkerGone
    \/ Load
    \/ KeepModule

HostNext == HostStep \/ Stop
============================================================================
