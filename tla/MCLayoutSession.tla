-------------------------- MODULE MCLayoutSession --------------------------
(* Two panels, either the root, and a canvas that may be raised above the flow *)
(* and measured anew, or turn into text.                                     *)
EXTENDS LayoutSession

Box == [kind |-> "box", above |-> FALSE, version |-> 0]
Text == [kind |-> "text", above |-> FALSE, version |-> 0]
Canvas == [kind |-> "custom", above |-> FALSE, version |-> 0]
Raised == [kind |-> "custom", above |-> TRUE, version |-> 1]
MCLooks == <<{Box}, {Box}, {Canvas, Raised, Text}>>
============================================================================
