---------------------------- MODULE RemoteCalls ----------------------------
(***************************************************************************)
(* What an RPC connection promises (docs/RPC.md, "Failure semantics"): a     *)
(* call is answered at most once and runs at most once, an answer comes from  *)
(* a run, and a call said not to have been executed never is.                 *)
(***************************************************************************)
EXTENDS Integers

CONSTANT Calls

VARIABLES
    answer,   \* what the caller of each call knows
    runs      \* how often its handler was invoked

Outcome == {"unused", "waiting", "answered", "refused", "ambiguous"}

Init ==
    /\ answer = [c \in Calls |-> "unused"]
    /\ runs = [c \in Calls |-> 0]

(* Dispatched, or refused before it was. *)
Dispatch(c) ==
    /\ answer[c] = "unused"
    /\ \E a \in {"waiting", "refused"} : answer' = [answer EXCEPT ![c] = a]
    /\ UNCHANGED runs

Run(c) ==
    /\ answer[c] \notin {"unused", "refused"}
    /\ runs[c] = 0
    /\ runs' = [runs EXCEPT ![c] = 1]
    /\ UNCHANGED answer

(* Some of the calls in progress are over for their callers. *)
Settle ==
    /\ \A c \in Calls : answer'[c] # answer[c] =>
           /\ answer[c] = "waiting"
           /\ \/ answer'[c] = "answered" /\ runs[c] = 1
              \/ answer'[c] = "refused" /\ runs[c] = 0
              \/ answer'[c] = "ambiguous"
    /\ answer' \in [Calls -> Outcome]
    /\ UNCHANGED runs

Next == (\E c \in Calls : Dispatch(c) \/ Run(c)) \/ Settle

Spec == Init /\ [][Next]_<<answer, runs>>
============================================================================
