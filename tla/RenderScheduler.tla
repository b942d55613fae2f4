-------------------------- MODULE RenderScheduler --------------------------
(***************************************************************************)
(* The hand-over of sealed frames from the platform thread to the render     *)
(* thread in packages/ui/src/api.cpp: one pending slot that the newest frame *)
(* takes, one runner task at a time on the render executor, completions that *)
(* go back to the platform thread, which alone may close a frame ticket, and *)
(* the locks under which a renderer's backend is used and destroyed.         *)
(*                                                                         *)
(* A frame stands for its ticket and its submission.  The executors, the     *)
(* surfaces and the runtime's start and end belong to NativeKit core, which  *)
(* is not in the repository: a dispatch may be refused, a bind or a draw may *)
(* fail, and a shutdown joins the render executor and drops what is queued.  *)
(***************************************************************************)
EXTENDS Naturals, Sequences, FiniteSets

CONSTANTS
    MaxFrame,     \* frames acquired in a behaviour
    MaxRuntime,   \* times the runtime is started
    MaxBackend    \* backends created in a behaviour

ASSUME SchedulerBounds ==
    MaxFrame \in Nat \ {0} /\ MaxRuntime \in Nat \ {0} /\ MaxBackend \in Nat \ {0}

Frame == 1..MaxFrame
NoFrame == 0
NoBackend == 0

VARIABLES
    ticket,       \* what became of each frame ticket
    rendererOf,   \* the renderer handle each submission names
    pending,      \* pending_render_submission
    runner,       \* render_submission_runner_active
    generation,   \* render_submission_generation
    tasks,        \* what waits on the render executor: Run, or a backend to destroy
    render,       \* the render thread: where it is, its frame and its backend
    completions,  \* finish_render_submission tasks on the platform executor
    orphans,      \* orphan_completions
    slot,         \* the renderer slot: its handle, and its backend
    made,         \* backends created so far
    gone,         \* backends destroyed
    platform,     \* the platform thread: where it is, and the frame it holds
    runtime       \* the runtime generation, and whether it is up

schedulerVars == <<ticket, rendererOf, pending, runner, generation, tasks, render, completions,
          orphans, slot, made, gone, platform, runtime>>

Run == NoBackend
Handle == 0..(MaxBackend + 1)
NoHandle == 0
RenderAt == {"idle", "taken", "drawing", "drawn", "reported", "refused"}
PlatformAt == {"idle", "building", "dispatching", "closing", "reading"}

SchedulerTypeOK ==
    /\ ticket \in [Frame -> {"free", "open", "presented", "cancelled"}]
    /\ rendererOf \in [Frame -> Handle]
    /\ pending \in Frame \union {NoFrame}
    /\ runner \in BOOLEAN
    /\ generation \in 0..MaxRuntime
    /\ tasks \in Seq(0..MaxBackend)
    /\ render \in [at : RenderAt, frame : Frame \union {NoFrame},
                   backend : 0..MaxBackend, success : BOOLEAN]
    /\ completions \in Seq([frame : Frame, success : BOOLEAN])
    /\ orphans \subseteq Frame
    /\ slot \in [handle : Handle, active : BOOLEAN, backend : 0..MaxBackend]
    /\ made \in 0..MaxBackend
    /\ gone \subseteq 1..MaxBackend
    /\ platform \in [at : PlatformAt, frame : Frame \union {NoFrame}]
    /\ runtime \in [generation : 0..MaxRuntime, up : BOOLEAN]

Idle == [at |-> "idle", frame |-> NoFrame, backend |-> NoBackend, success |-> FALSE]
PlatformIdle == [at |-> "idle", frame |-> NoFrame]

SchedulerInit ==
    /\ ticket = [f \in Frame |-> "free"]
    /\ rendererOf = [f \in Frame |-> NoHandle]
    /\ pending = NoFrame /\ runner = FALSE /\ generation = 0
    /\ tasks = << >> /\ completions = << >> /\ orphans = {}
    /\ render = Idle
    /\ slot = [handle |-> 1, active |-> FALSE, backend |-> NoBackend]
    /\ made = 0 /\ gone = {}
    /\ platform = PlatformIdle
    /\ runtime = [generation |-> 0, up |-> FALSE]

----------------------------------------------------------------------------
(* Locks.  renderer_execution_mutex is shared by the thread that draws and    *)
(* taken alone by whoever closes a renderer or reads its counters; both hold  *)
(* renderers_mutex while they wait for it.                                   *)
RenderersFree == platform.at \notin {"closing", "reading"}
ExecutionShared == render.at = "drawing"

Cancelled(frames) ==
    [f \in Frame |-> IF f \in frames /\ ticket[f] = "open" THEN "cancelled" ELSE ticket[f]]
(* Variants that a run must tell from the code: a replaced frame left open,    *)
(* a flag left up, a completion that overtakes others, a lock not waited for. *)
ForgetReplaced(f) == {}
Some(f) == {f} \ {NoFrame}

(* A handle names the slot only while its generation is current. *)
Resolves(f) == slot.active /\ rendererOf[f] = slot.handle

----------------------------------------------------------------------------
(* The platform thread. *)

CreateRenderer ==
    /\ runtime.up /\ platform.at = "idle" /\ ~slot.active
    /\ slot.handle <= MaxBackend
    /\ slot' = [slot EXCEPT !.active = TRUE, !.backend = NoBackend]
    /\ UNCHANGED <<ticket, rendererOf, pending, runner, generation, tasks, render,
                   completions, orphans, made, gone, platform, runtime>>

(* The surface hands out a ticket; orphans of earlier frames are closed first. *)
AcquireFrame ==
    /\ runtime.up /\ platform.at = "idle"
    /\ \E f \in Frame :
           /\ ticket[f] = "free"
           /\ \A g \in Frame : g < f => ticket[g] # "free"
           /\ ticket' = [Cancelled(orphans) EXCEPT ![f] = "open"]
           /\ platform' = [at |-> "building", frame |-> f]
           /\ rendererOf' = [rendererOf EXCEPT ![f] = slot.handle]
    /\ orphans' = {}
    /\ UNCHANGED <<pending, runner, generation, tasks, render, completions, slot, made,
                   gone, runtime>>

(* A frame that is rejected before it is sealed: the guard closes its ticket. *)
RejectFrame ==
    /\ platform.at = "building"
    /\ ticket' = Cancelled({platform.frame})
    /\ platform' = PlatformIdle
    /\ UNCHANGED <<rendererOf, pending, runner, generation, tasks, render, completions,
                   orphans, slot, made, gone, runtime>>

(* The frame takes the pending slot.  What waited there, of this runtime or  *)
(* of an earlier one, is cancelled; a runner is started when there is none.  *)
Submit ==
    /\ platform.at = "building"
    /\ Resolves(platform.frame)
    /\ LET stale == generation # runtime.generation
           active == runner /\ ~stale
       IN  /\ generation' = runtime.generation
           /\ runner' = TRUE
           /\ platform' = IF active THEN PlatformIdle
                          ELSE [platform EXCEPT !.at = "dispatching"]
    /\ pending' = platform.frame
    /\ ticket' = Cancelled(orphans \union Some(pending))
    /\ orphans' = {}
    /\ UNCHANGED <<rendererOf, tasks, render, completions, slot, made, gone, runtime>>

DispatchRunner ==
    /\ platform.at = "dispatching"
    /\ tasks' = Append(tasks, Run)
    /\ platform' = PlatformIdle
    /\ UNCHANGED <<ticket, rendererOf, pending, runner, generation, render, completions,
                   orphans, slot, made, gone, runtime>>

(* The render executor refuses the runner: the slot is emptied again. *)
DispatchRefused ==
    /\ platform.at = "dispatching"
    /\ ticket' = Cancelled(Some(pending) \union {platform.frame})
    /\ pending' = NoFrame /\ runner' = FALSE
    /\ platform' = PlatformIdle
    /\ UNCHANGED <<rendererOf, generation, tasks, render, completions, orphans, slot,
                   made, gone, runtime>>

(* Destroying a renderer and reading its counters take renderers_mutex and   *)
(* then wait until no frame is being drawn.                                  *)
BeginDestroy ==
    /\ runtime.up /\ platform.at = "idle" /\ slot.active
    /\ platform' = [platform EXCEPT !.at = "closing"]
    /\ UNCHANGED <<ticket, rendererOf, pending, runner, generation, tasks, render,
                   completions, orphans, slot, made, gone, runtime>>

MayClose == ~ExecutionShared

DestroyRenderer ==
    /\ platform.at = "closing" /\ MayClose
    /\ \/ slot.backend = NoBackend /\ UNCHANGED <<tasks, gone>>
       \/ slot.backend # NoBackend
          /\ tasks' = Append(tasks, slot.backend) /\ UNCHANGED gone
       \/ slot.backend # NoBackend
          /\ gone' = gone \union {slot.backend} /\ UNCHANGED tasks
    /\ slot' = [handle |-> slot.handle + 1, active |-> FALSE, backend |-> NoBackend]
    /\ platform' = PlatformIdle
    /\ UNCHANGED <<ticket, rendererOf, pending, runner, generation, render, completions,
                   orphans, made, runtime>>

BeginStats ==
    /\ runtime.up /\ platform.at = "idle" /\ slot.active
    /\ platform' = [platform EXCEPT !.at = "reading"]
    /\ UNCHANGED <<ticket, rendererOf, pending, runner, generation, tasks, render,
                   completions, orphans, slot, made, gone, runtime>>

ReadStats ==
    /\ platform.at = "reading" /\ MayClose
    /\ platform' = PlatformIdle
    /\ UNCHANGED <<ticket, rendererOf, pending, runner, generation, tasks, render,
                   completions, orphans, slot, made, gone, runtime>>

(* The platform thread presents or cancels the frame of the next completion. *)
FinishSubmission ==
    /\ platform.at = "idle" /\ completions # << >>
    /\ LET done == Head(completions)
       IN  ticket' = IF done.success
                     THEN [ticket EXCEPT ![done.frame] = "presented"]
                     ELSE Cancelled({done.frame})
    /\ completions' = Tail(completions)
    /\ UNCHANGED <<rendererOf, pending, runner, generation, tasks, render, orphans, slot,
                   made, gone, platform, runtime>>

----------------------------------------------------------------------------
(* The render thread. *)

TakeSubmission ==
    /\ render.at = "idle" /\ tasks # << >> /\ Head(tasks) = Run
    /\ tasks' = Tail(tasks)
    /\ IF pending = NoFrame
       THEN runner' = FALSE /\ UNCHANGED <<render, pending>>
       ELSE /\ render' = [Idle EXCEPT !.at = "taken", !.frame = pending]
            /\ pending' = NoFrame
            /\ UNCHANGED runner
    /\ UNCHANGED <<ticket, rendererOf, generation, completions, orphans, slot, made,
                   gone, platform, runtime>>

(* The renderer's backend, replaced when it was lost or another device's.    *)
(* The execution lock is taken before renderers_mutex is let go.             *)
UseBackend ==
    /\ render.at = "taken" /\ RenderersFree /\ Resolves(render.frame)
    /\ \E keep \in BOOLEAN :
           /\ keep => slot.backend # NoBackend
           /\ ~keep => made < MaxBackend
           /\ made' = IF keep THEN made ELSE made + 1
           /\ gone' = IF keep THEN gone ELSE gone \union ({slot.backend} \ {NoBackend})
           /\ slot' = [slot EXCEPT !.backend = IF keep THEN @ ELSE made + 1]
           /\ render' = [render EXCEPT !.at = "drawing", !.backend = slot'.backend]
    /\ UNCHANGED <<ticket, rendererOf, pending, runner, generation, tasks, completions,
                   orphans, platform, runtime>>

(* The target cannot be bound, the handle is stale or no backend comes up. *)
NoBackendForFrame ==
    /\ render.at = "taken" /\ RenderersFree
    /\ render' = [render EXCEPT !.at = "drawn", !.success = FALSE]
    /\ UNCHANGED <<ticket, rendererOf, pending, runner, generation, tasks, completions,
                   orphans, slot, made, gone, platform, runtime>>

(* Atlas uploads and the plan; the execution lock is released at the end. *)
DrawFrame ==
    /\ render.at = "drawing"
    /\ \E success \in BOOLEAN :
           render' = [render EXCEPT !.at = "drawn", !.backend = NoBackend, !.success = success]
    /\ UNCHANGED <<ticket, rendererOf, pending, runner, generation, tasks, completions,
                   orphans, slot, made, gone, platform, runtime>>

OvertakingHandBack(f, success) ==
    \/ completions' = <<[frame |-> f, success |-> success]>> \o completions /\ UNCHANGED orphans
    \/ orphans' = orphans \union {f} /\ UNCHANGED completions

(* The platform executor takes the completion, or it is kept as an orphan. *)
HandBack(f, success) ==
    \/ completions' = Append(completions, [frame |-> f, success |-> success]) /\ UNCHANGED orphans
    \/ orphans' = orphans \union {f} /\ UNCHANGED completions

Report ==
    /\ render.at = "drawn" /\ RenderersFree
    /\ HandBack(render.frame, render.success)
    /\ render' = [Idle EXCEPT !.at = "reported"]
    /\ UNCHANGED <<ticket, rendererOf, pending, runner, generation, tasks, slot, made,
                   gone, platform, runtime>>

FlagLeftUp ==
    /\ render.at = "reported"
    /\ \/ pending = NoFrame /\ render' = Idle /\ UNCHANGED <<tasks, runner>>
       \/ pending # NoFrame /\ tasks' = Append(tasks, Run) /\ render' = Idle /\ UNCHANGED runner
    /\ UNCHANGED <<ticket, rendererOf, pending, generation, completions, orphans, slot,
                   made, gone, platform, runtime>>

(* With another frame in the slot the runner dispatches itself again. *)
Reschedule ==
    /\ render.at = "reported"
    /\ \/ pending = NoFrame /\ runner' = FALSE /\ render' = Idle /\ UNCHANGED tasks
       \/ pending # NoFrame /\ tasks' = Append(tasks, Run) /\ render' = Idle /\ UNCHANGED runner
       \/ pending # NoFrame /\ render' = [Idle EXCEPT !.at = "refused"] /\ UNCHANGED <<tasks, runner>>
    /\ UNCHANGED <<ticket, rendererOf, pending, generation, completions, orphans, slot,
                   made, gone, platform, runtime>>

(* The executor refused: whatever is in the slot by now goes back cancelled. *)
HandBackRefused ==
    /\ render.at = "refused"
    /\ pending' = NoFrame /\ runner' = FALSE /\ render' = Idle
    /\ IF pending = NoFrame THEN UNCHANGED <<completions, orphans>>
                            ELSE HandBack(pending, FALSE)
    /\ UNCHANGED <<ticket, rendererOf, generation, tasks, slot, made, gone, platform,
                   runtime>>

RunDestroy ==
    /\ render.at = "idle" /\ tasks # << >> /\ Head(tasks) # Run
    /\ gone' = gone \union {Head(tasks)}
    /\ tasks' = Tail(tasks)
    /\ UNCHANGED <<ticket, rendererOf, pending, runner, generation, render, completions,
                   orphans, slot, made, platform, runtime>>

----------------------------------------------------------------------------
(* The runtime starts, and ends: the render executor is joined, queued tasks  *)
(* are dropped with their clean-up, and the shutdown hook empties the slot.  *)
StartRuntime ==
    /\ ~runtime.up /\ runtime.generation < MaxRuntime
    /\ runtime' = [generation |-> runtime.generation + 1, up |-> TRUE]
    /\ UNCHANGED <<ticket, rendererOf, pending, runner, generation, tasks, render,
                   completions, orphans, slot, made, gone, platform>>

DroppedTasks == {tasks[i] : i \in DOMAIN tasks} \ {Run}
DroppedCompletions == {completions[i].frame : i \in DOMAIN completions}

Shutdown ==
    /\ runtime.up /\ platform.at = "idle" /\ render.at = "idle"
    /\ runtime' = [runtime EXCEPT !.up = FALSE]
    /\ tasks' = << >> /\ gone' = gone \union DroppedTasks
    /\ completions' = << >> /\ orphans' = {}
    /\ ticket' = Cancelled(DroppedCompletions \union orphans \union Some(pending))
    /\ pending' = NoFrame /\ runner' = FALSE /\ generation' = 0
    /\ UNCHANGED <<rendererOf, render, slot, made, platform>>

----------------------------------------------------------------------------
RenderStep ==
    \/ TakeSubmission \/ UseBackend \/ NoBackendForFrame \/ DrawFrame \/ Report
    \/ Reschedule \/ HandBackRefused \/ RunDestroy

(* What the platform thread has begun and what is queued for it. *)
PlatformStep ==
    \/ RejectFrame \/ Submit \/ DispatchRunner \/ DispatchRefused
    \/ DestroyRenderer \/ ReadStats \/ FinishSubmission

SchedulerNext ==
    \/ RenderStep \/ PlatformStep
    \/ CreateRenderer \/ AcquireFrame \/ BeginDestroy \/ BeginStats
    \/ StartRuntime \/ Shutdown

SchedulerSpec == SchedulerInit /\ [][SchedulerNext]_schedulerVars

(* Both threads go on.  A thread that waits for renderers_mutex gets it in   *)
(* the end, and the platform executor runs its completions between calls.    *)
SchedulerFairness ==
    /\ WF_schedulerVars(RenderStep) /\ WF_schedulerVars(PlatformStep)
    /\ SF_schedulerVars(UseBackend \/ NoBackendForFrame) /\ SF_schedulerVars(Report)
    /\ SF_schedulerVars(FinishSubmission)
SchedulerFairSpec == SchedulerSpec /\ SchedulerFairness

----------------------------------------------------------------------------
(* Every open ticket has one owner that will close it: the platform thread   *)
(* that builds its frame, the pending slot, the render thread, a completion  *)
(* or an orphan; and nothing owns a ticket that is closed.                   *)
Owners(f) ==
      (IF platform.at = "building" /\ platform.frame = f THEN 1 ELSE 0)
    + (IF pending = f THEN 1 ELSE 0)
    + (IF render.frame = f THEN 1 ELSE 0)
    + Cardinality({i \in DOMAIN completions : completions[i].frame = f})
    + (IF f \in orphans THEN 1 ELSE 0)
TicketOwnedOnce ==
    \A f \in Frame : Owners(f) = IF ticket[f] = "open" THEN 1 ELSE 0

(* No wake-up is lost and none doubled: while the runner flag is up exactly   *)
(* one of a task, the thread that dispatches it or the render thread carries *)
(* it on, and a frame never waits in the slot without it.                    *)
Runners ==
      Cardinality({i \in DOMAIN tasks : tasks[i] = Run})
    + (IF platform.at = "dispatching" THEN 1 ELSE 0)
    + (IF render.at # "idle" THEN 1 ELSE 0)
OneRunner ==
    /\ Runners = IF runner THEN 1 ELSE 0
    /\ pending # NoFrame => runner

(* The render thread draws with the backend of the renderer its frame was     *)
(* built for, and nobody destroys that backend meanwhile.                    *)
DrawsWithLiveBackend ==
    render.at = "drawing" =>
        render.backend = slot.backend /\ render.backend \notin gone /\ Resolves(render.frame)

(* The three, for the hand-over as a whole. *)
FramesAreOwned == TicketOwnedOnce /\ OneRunner /\ DrawsWithLiveBackend

(* Frames reach the screen in the order they were acquired in: what was       *)
(* replaced or cancelled does not come back behind a newer frame.            *)
PresentsInOrder ==
    [][\A f \in Frame : ticket[f] # "presented" /\ ticket'[f] = "presented" =>
           ticket[f] = "open" /\ \A g \in Frame : g > f => ticket[g] # "presented"]_schedulerVars

(* Every ticket is closed, except that of an orphaned completion, which waits *)
(* for the next frame or for the shutdown.                                   *)
EveryTicketCloses ==
    \A f \in Frame :
        ticket[f] = "open" ~> (ticket[f] \in {"presented", "cancelled"} \/ f \in orphans)
============================================================================
