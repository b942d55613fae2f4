----------------------------- MODULE MCRuntime -----------------------------
(***************************************************************************)
(* The parts of the native runtime that keep data of their own, in one run:   *)
(* the arrays, the calls into native libraries, and the heap of the wasm32    *)
(* backend.  They share no state: a behavior explores one of them, the others *)
(* stay as they start or are not there.                                      *)
(***************************************************************************)
EXTENDS NativeCalls, WasmHeap

VARIABLES
    explored,  \* "arrays", "calls" or "heap"
    array, want, result, wanted

arrayVars == <<array, want, result, wanted>>

(* One value every array takes and one that only a dynamic array does.  A capacity  *)
(* grows to four and then by a half, which here exceeds the largest length.        *)
Array == INSTANCE Arrays WITH Values <- {1, 2}, Foreign <- {2}, MaxInt <- 5

(* An allocation that its pointer owns, and bytes that are borrowed; two threads that *)
(* may resolve the same call.                                                       *)
MCCalls ==
    {[library |-> "a", result |-> "pointer", owned |-> TRUE, release |-> TRUE],
     [library |-> "a", result |-> "bytes", owned |-> FALSE, release |-> FALSE]}

(* Sizes such that a block fits just so, leaves a small rest, or less than a header. *)
MCPayloads == {0, 3}

ASSUME RuntimeConstants == Array!ArraysConstants

----------------------------------------------------------------------------
NoArrays == array = 0 /\ want = 0 /\ result = 0 /\ wanted = 0

MCInit ==
    /\ explored \in {"arrays", "calls", "heap"}
    /\ IF explored = "arrays" THEN Array!Init ELSE NoArrays
    /\ CallsInit
    /\ HeapInit /\ (explored # "heap" => ~heap.stress)

MCNext ==
    /\ UNCHANGED explored
    /\ \/ explored = "arrays" /\ Array!Next /\ UNCHANGED <<callVars, heapVars>>
       \/ explored = "calls" /\ CallsNext /\ UNCHANGED <<arrayVars, heapVars>>
       \/ explored = "heap" /\ HeapNext /\ UNCHANGED <<arrayVars, callVars>>

MCSpec == MCInit /\ [][MCNext]_<<explored, arrayVars, callVars, heapVars>>

----------------------------------------------------------------------------
(* The type invariants of the three: lanes and aliases, libraries and the stacks  *)
(* of callbacks, pages and free lists keep their shape and their bounds.         *)
RuntimeTypeOK ==
    /\ explored = "arrays" => Array!TypeOK
    /\ CallsTypeOK
    /\ HeapTypeOK

(* Property of Arrays: arrays, aliases and results have the elements that were   *)
(* left in them, and spare slots keep none.                                    *)
ArraysHoldTheirElements == explored = "arrays" => Array!ArraysHoldTheirElements
============================================================================
