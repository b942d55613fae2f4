-------------------------- MODULE MCSessionFrames --------------------------
(* A session with two labels, and a list that draws a text of two rows. *)
EXTENDS SessionFrames, TLC

MCEngineOf == ("title" :> "labels") @@ ("status" :> "labels")
              @@ ("line1" :> "text") @@ ("line2" :> "text")
MCRevisions == ("title" :> 2) @@ ("status" :> 1) @@ ("line1" :> 2) @@ ("line2" :> 1)
MCShows == ("plain" :> {"title", "status"})
           @@ ("editor" :> {"title", "status", "line1", "line2"})
(* The same with text that changes in one label only. *)
MCOneEdited == ("title" :> 2) @@ ("status" :> 1) @@ ("line1" :> 1) @@ ("line2" :> 1)
============================================================================
