-------------------------------- MODULE MCUi --------------------------------
(***************************************************************************)
(* The stateful parts of the UI package in one run: how a session turns its   *)
(* inputs into frames, the layout session's tree, and the registries of       *)
(* resources.  They share no state: a behavior explores one of them, the       *)
(* others stay as they start.                                                *)
(***************************************************************************)
EXTENDS MCLayoutSession, MCSessionFrames, UiResources

CONSTANTS l1, l2

MCLists == {l1, l2}

VARIABLE explored  \* "frames", "layout" or "resources"

(* The lists of the table are interchangeable. *)
MCSymmetry == Permutations(MCLists)

----------------------------------------------------------------------------
MCInit ==
    /\ explored \in {"frames", "layout", "resources"}
    /\ FramesInit /\ (explored # "frames" => ~threaded /\ scene = "plain")
    /\ Init /\ (explored # "layout" => ~fonts)
    /\ ResourcesInit

MCNext ==
    /\ UNCHANGED explored
    /\ \/ /\ explored = "frames" /\ FramesNext
          /\ UNCHANGED <<vars, resourcesVars>>
       \/ /\ explored = "layout" /\ Next
          /\ UNCHANGED <<framesVars, resourcesVars>>
       \/ /\ explored = "resources" /\ ResourcesNext
          /\ UNCHANGED <<framesVars, vars>>

MCSpec == MCInit /\ [][MCNext]_<<explored, framesVars, vars, resourcesVars>>

----------------------------------------------------------------------------
(* The type invariants of the parts: indices, retained extents and the records   *)
(* of frames, trees and resources keep their shape.                            *)
UiTypeOK == TypeOK /\ FramesTypeOK /\ ResourcesTypeOK
============================================================================
