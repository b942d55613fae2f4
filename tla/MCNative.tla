------------------------------ MODULE MCNative ------------------------------
(***************************************************************************)
(* The native code beside the session, in one run: how frames are handed to   *)
(* the render thread, how a display list becomes pixels, a streaming child    *)
(* process.  They share no state: a behavior explores one of them and the      *)
(* others stay as they start.                                                *)
(***************************************************************************)
EXTENDS RenderPlans, RenderScheduler, ChildProcess

CONSTANTS p, q, s,      \* two resources and a surface that lists draw
          Components    \* what is explored

VARIABLE explored

----------------------------------------------------------------------------
(* Lists that between them open every kind of layer.  The opacity and the alpha  *)
(* 0 stand for translucent, 1 for opaque.                                      *)
Plain == <<Draw(p), PushState, SetAlpha(0), ClipRect(1), Draw(q), PopState, Draw(q)>>
Blurred == <<Draw(q), BeginLayer(1, 1, <<"blur">>, <<>>, FALSE), Draw(p), EndLayer>>
Shadowed == <<BeginLayer(0, 0, <<"shadow">>, <<>>, TRUE), Draw(p),
              BeginLayer(1, 0, <<>>, <<>>, FALSE), BeginLayer(0, 1, <<>>, <<>>, FALSE),
              Draw(q), EndLayer, EndLayer, EndLayer>>
Frosted == <<Draw(p), BeginLayer(1, 1, <<"matrix">>, <<"blur">>, FALSE), Draw(q), EndLayer>>
Tinted == <<DrawTarget(s), BeginLayer(1, 0, <<"matrix">>, <<>>, FALSE), DrawTarget(s), EndLayer>>
Masked == <<DrawTarget(s), BeginLayer(0, 0, <<>>, <<>>, TRUE), DrawTarget(s), EndLayer>>

MCLists == {Plain, Blurred, Shadowed, Frosted, Tinted, Masked}
MCOverlays == {Plain, Blurred}
MCMayMiss == {Masked}
MCLayouts == {<<[list |-> Blurred, raster |-> TRUE], [list |-> Plain, raster |-> FALSE],
                [list |-> Blurred, raster |-> TRUE]>>}
MCTinted == {Tinted}
MCNone == {}

----------------------------------------------------------------------------
MCInit ==
    /\ explored \in Components
    /\ Init /\ SchedulerInit
    /\ ChildInit /\ (explored # "child" => process.platform = "posix" /\ ~process.detached)

MCNext ==
    /\ UNCHANGED explored
    /\ \/ /\ explored = "plans" /\ Next
          /\ UNCHANGED <<schedulerVars, childVars>>
       \/ /\ explored = "scheduler" /\ SchedulerNext
          /\ UNCHANGED <<vars, childVars>>
       \/ /\ explored = "child" /\ ChildNext
          /\ UNCHANGED <<vars, schedulerVars>>

(* What has not started has nothing to do, so that fairness asks nothing of it. *)
MCSpec ==
    /\ MCInit /\ [][MCNext]_<<explored, vars, schedulerVars, childVars>>
    /\ SchedulerFairness /\ ChildFairness

----------------------------------------------------------------------------
(* The type invariants of the three: tickets, targets and streams keep their    *)
(* shape, caches their room, and the streams and queues their size.             *)
NativeTypeOK == TypeOK /\ SchedulerTypeOK /\ ChildTypeOK
============================================================================
