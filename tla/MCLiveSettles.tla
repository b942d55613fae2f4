--------------------------- MODULE MCLiveSettles ---------------------------
(***************************************************************************)
(* LiveSession under fairness, with the hosts there are: one that reloads     *)
(* what it cannot patch, a strict one, and one that in the end trusts a       *)
(* module without its marker.  The first program is p1, as programs are       *)
(* interchangeable.                                                         *)
(***************************************************************************)
EXTENDS LiveSession

CONSTANTS p1, p2

MCPrograms == {p1, p2}

VARIABLE mode  \* "reloading", "strict" or "trusting"

StrictHost == INSTANCE LiveSession WITH Strict <- TRUE
TrustingHost == INSTANCE LiveSession WITH TrustMissing <- TRUE, MaxRevision <- 2

(* Histories that outlive the session are left to the reloading host. *)
StepsOf(reloading, strict, trusting) ==
    \/ mode = "reloading" /\ reloading
    \/ mode = "strict" /\ strict
    \/ mode = "trusting" /\ trusting

MCInit == Init /\ disk.module.program = p1 /\ mode \in {"reloading", "strict", "trusting"}

MCNext ==
    /\ UNCHANGED mode
    /\ StepsOf(Next, StrictHost!NextUnresumed, TrustingHost!Next)

HostGoesOn ==
    /\ UNCHANGED <<mode, workerVars>>
    /\ StepsOf(HostStep, StrictHost!HostStep, TrustingHost!HostStep)

WorkerGoesOn ==
    /\ UNCHANGED <<mode, hostVars>>
    /\ StepsOf(WorkerStep, StrictHost!WorkerStep, TrustingHost!WorkerStep)

TimePasses ==
    /\ UNCHANGED <<mode, workerVars>>
    /\ mode = "trusting" /\ TrustingHost!TrustModule

(* The fairness of LiveSession. *)
MCSpec ==
    /\ MCInit /\ [][MCNext]_<<vars, mode>>
    /\ WF_<<vars, mode>>(HostGoesOn)
    /\ WF_<<vars, mode>>(WorkerGoesOn)
    /\ SF_<<vars, mode>>(TimePasses)

(* Every publication settles with a host that reloads and with a strict one.   *)
PublicationsSettle == mode # "trusting" => EveryPublicationSettles

(* A host that trusts a module without its marker after a while is not left    *)
(* waiting for one.                                                          *)
TrustEndsWaiting == mode = "trusting" => NoReloadHangs
============================================================================
