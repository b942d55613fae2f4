---- MODULE RenderPlans ----
(***************************************************************************)
(* From a display list to the window: a list is compiled into passes over  *)
(* render targets, the plans of canvases are embedded into the plan of a   *)
(* layout, a plan is scheduled by its dependencies, and executed against   *)
(* targets that are recycled and caches that outlive the frame.            *)
(*                                                                         *)
(* A picture is a sequence of items [op, arg, in]: what was drawn, with    *)
(* what, over which picture.  A hash is what it is computed from, so two   *)
(* hashes agree when their sources do (collisions are left out).           *)
(*   target ids   0 is the window, 1 the offscreen root of a frame with    *)
(*                backdrops, the next naturals the compositor's own        *)
(*   dims         0 is as large as the window, 1 a canvas, above 100 the   *)
(*                extent of a bounded layer                                *)
(***************************************************************************)
EXTENDS Integers, FiniteSets, SequencesExt, TLC

CONSTANTS
    Resources,      \* paths, images, texts that lists draw
    Surfaces,       \* render targets that producers fill
    Lists,          \* display lists that may be submitted
    Overlays,       \* those that may be drawn over the frame before
    MayMiss,        \* those in whose frames a producer may have nothing new
    Layouts,        \* sequences of [list, raster]: the canvases of a layout
    EffectRoom,     \* kMaxCachedEffectTargets, and the raster cache's
    MaxFrames, MaxGeneration, MaxFailures, MaxMisses   \* bounds of a behaviour

ASSUME PlansConstants ==
    /\ Overlays \union MayMiss \subseteq Lists
    /\ \A bound \in {EffectRoom, MaxFrames, MaxGeneration} : bound \in Nat \ {0}
    /\ MaxFailures \in Nat /\ MaxMisses \in Nat

VARIABLES
    content,        \* generation of each resource, and of each producer's output
    pixels,         \* per surface: the generation its target holds; 0 none, -1 undefined
    current,        \* per surface: the generation markSurfaceCurrent noted
    effects, rasters,   \* caches: key -> [picture, used]
    frame,          \* frame_serial
    shown,          \* what the window shows
    asked,          \* what the frames that succeeded asked it to show
    refused,        \* an accepted list failed on a device that did not
    misses, failures

vars == <<content, pixels, current, effects, rasters, frame, shown,
          asked, refused, misses, failures>>

MainTarget == 0
RootTarget == 1
NoTarget == -1
CanvasSize == 1
Item(op, arg, in) == [op |-> op, arg |-> arg, in |-> in]
Leftover == Item("leftover", <<>>, <<>>)    \* what a recycled target held

\* A picture drawn over another; all of it as it is adds its items one by one.
Over(opacity, clip, at, picture) ==
    IF opacity = 1 /\ clip = 0 /\ at = 0 THEN picture
    ELSE <<Item("composite", <<opacity, clip, at>>, picture)>>

----------------------------------------------------------------------------
(* Display lists *)

Draw(r) == [op |-> "draw", of |-> r]
DrawTarget(s) == [op |-> "target", of |-> s]
SetAlpha(a) == [op |-> "alpha", to |-> a]
ClipRect(r) == [op |-> "clip", to |-> r]
PushState == [op |-> "push"]
PopState == [op |-> "pop"]
EndLayer == [op |-> "end"]
BeginLayer(opacity, bounds, effects_, backdrop, mask) ==
    [op |-> "begin", opacity |-> opacity, bounds |-> bounds, effects |-> effects_,
     backdrop |-> backdrop, mask |-> mask]

\* A layer needs a target of its own unless it only groups.
Isolated(b) == b.opacity < 1 \/ b.bounds # 0 \/ b.effects # <<>> \/ b.mask \/ b.backdrop # <<>>

\* Scopes nest by kind: no command closes what was not opened, none stays open.
Depth(list, opening, closing) ==
    FoldLeft(LAMBDA d, c : IF d < 0 THEN d ELSE IF c.op = opening THEN d + 1
                           ELSE IF c.op = closing THEN d - 1 ELSE d, 0, list)
Valid(list) == Depth(list, "push", "pop") = 0 /\ Depth(list, "begin", "end") = 0

HasBackdrop(list) == \E i \in DOMAIN list : list[i].op = "begin" /\ list[i].backdrop # <<>>

\* The extent an effect program adds to a bounded layer.
Spreads(program) == Len(SelectSeq(program, LAMBDA f : f # "matrix"))
Extent(bounds, program) == IF bounds = 0 THEN 0 ELSE 100 * bounds + Spreads(program)

----------------------------------------------------------------------------
(* The compositor: c is a compilation in progress *)

Pass(kind, target, dims, load, input) ==
    [kind |-> kind, target |-> target, dims |-> dims, load |-> load, input |-> input,
     commands |-> <<>>]
Command(op, of, opacity, clip) ==
    [op |-> op, of |-> of, opacity |-> opacity, clip |-> clip, at |-> 0]
Whole(target) == Command("composite", target, 1, 0)

AddPass(c, pass) == [c EXCEPT !.passes = Append(@, pass)]

\* continue_pass: whoever drew to the target before is loaded, not cleared.
ContinuePass(c, target, dims) ==
    AddPass(c, Pass("draw", target, dims, \E i \in DOMAIN c.passes : c.passes[i].target = target,
                    NoTarget))
Emit(c, command) == [c EXCEPT !.passes[Len(c.passes)].commands = Append(@, command)]
Depend(c, producer, consumer) == [c EXCEPT !.dependencies = @ \union {<<producer, consumer>>}]

\* One operation of an effect program over c.out; c.out is then its result.
Filter(c, kind, dims) ==
    [AddPass(c, Pass(kind, c.next, dims, FALSE, c.out)) EXCEPT !.next = @ + 1, !.out = c.next]
TwoAxes(c, kind, dims) == Filter(Filter(c, kind \o ".h", dims), kind \o ".v", dims)

\* A target of their own for one target drawn over another.
Group(c, below, above, dims) ==
    [Depend(Depend(Emit(Emit(ContinuePass(c, c.next, dims), Whole(below)), Whole(above)),
                   below, c.next), above, c.next) EXCEPT !.next = @ + 1, !.out = c.next]
UnderSource(shadow, source, dims) == Group(shadow, shadow.out, source, dims)
ApplyOperation(c, kind, dims) ==
    CASE kind = "matrix" -> Filter(c, kind, dims)
      [] kind = "blur" -> TwoAxes(c, kind, dims)
      [] kind = "shadow" -> UnderSource(TwoAxes(c, kind, dims), c.out, dims)
ApplyProgram(c, program, input, dims) ==
    FoldLeft(LAMBDA a, kind : ApplyOperation(a, kind, dims), [c EXCEPT !.out = input], program)

\* Of an isolated layer, c.out is the filtered backdrop, and the next target its own.
Backdrop(c, b) ==
    IF b.backdrop = <<>> THEN [c EXCEPT !.out = NoTarget]
    ELSE ApplyProgram(c, b.backdrop, c.target, Extent(b.bounds, b.backdrop))
Layer(c, b, target) ==
    [parent |-> c.target, begin |-> b, dims |-> Extent(b.bounds, b.effects), backdrop |-> c.out,
     target |-> target]
Isolate(c, b) ==
    ContinuePass([c EXCEPT !.layers = Append(@, Layer(c, b, c.next)),
                           !.next = @ + 1, !.target = c.next],
                 c.next, Extent(b.bounds, b.effects))
OpenLayer(c, b) ==
    IF Isolated(b) THEN Isolate(Backdrop(c, b), b)
    ELSE [c EXCEPT !.layers = Append(@, Layer(c, b, c.target))]

\* The layer is filtered, drawn over its backdrop, masked, and drawn to its parent.
OverBackdrop(c, layer) ==
    IF layer.backdrop = NoTarget THEN c ELSE Group(c, layer.backdrop, c.out, layer.dims)
UnderMask(c, layer) == IF layer.begin.mask THEN Filter(c, "mask", layer.dims) ELSE c
ToParent(c, layer) ==
    Depend(Emit(ContinuePass(c, layer.parent, 0),
                Command("composite", c.out, layer.begin.opacity, c.canvas[2])),
           c.out, layer.parent)
Composite(c, layer) ==
    ToParent(UnderMask(OverBackdrop(ApplyProgram(c, layer.begin.effects, layer.target, layer.dims),
                                 layer), layer), layer)
CloseLayer(c) ==
    LET layer == Last(c.layers)
        closed == [c EXCEPT !.layers = Front(@), !.target = layer.parent]
    IN  IF Isolated(layer.begin) THEN Composite(closed, layer) ELSE closed

\* The canvas is its alpha and its clip; clips intersect.
Step(c, command) ==
    CASE command.op = "alpha" -> [c EXCEPT !.canvas[1] = command.to]
      [] command.op = "clip" -> [c EXCEPT !.canvas[2] = @ + command.to]
      [] command.op = "push" -> [c EXCEPT !.states = Append(@, c.canvas)]
      [] command.op = "pop" -> [c EXCEPT !.canvas = Last(c.states), !.states = Front(@)]
      [] command.op = "draw" -> Emit(c, Command("draw", command.of, c.canvas[1], c.canvas[2]))
      [] command.op = "target" ->
            Depend(Emit(c, Command("composite", command.of, c.canvas[1], c.canvas[2])),
                   command.of, c.target)
      [] command.op = "begin" -> OpenLayer(c, command)
      [] command.op = "end" -> CloseLayer(c)

Fresh(main) == [passes |-> <<>>, dependencies |-> {}, order |-> <<>>, target |-> main, out |-> NoTarget,
                next |-> IF main = RootTarget THEN RootTarget + 1 ELSE RootTarget,
                canvas |-> <<1, 0>>, states |-> <<>>, layers |-> <<>>]
Compile(list, main) == FoldLeft(Step, ContinuePass(Fresh(main), main, 0), list)

----------------------------------------------------------------------------
(* Plans of frames *)

\* The root of a frame with backdrops is composited to the window at the end.
WithWindow(plan, load) ==
    [plan EXCEPT !.passes = Append(@, [Pass("draw", MainTarget, 0, load, NoTarget)
                                           EXCEPT !.commands = <<Whole(RootTarget)>>]),
                 !.dependencies = @ \union {<<RootTarget, MainTarget>>}]

ListPlan(list, load) ==
    [IF HasBackdrop(list) THEN WithWindow(Compile(list, RootTarget), load)
     ELSE Compile(list, MainTarget) EXCEPT !.passes[1].load = @ \/ load]

\* append_embedded_render_plan: what the list draws to its main target is drawn by
\* pass `into` of the destination, its other passes follow with targets of their own.
Embed(plan, source, main, into, node) ==
    LET shift == plan.next - source.first
        Moved(t) == IF t = main THEN plan.passes[into].target
                    ELSE IF t \in Surfaces THEN t ELSE t + shift
        Placed(command) == IF command.op = "composite"
                           THEN [command EXCEPT !.of = Moved(@)] ELSE command
        MainCommands == FoldLeft(LAMBDA s, p : IF p.target = main THEN s \o p.commands ELSE s,
                                 <<>>, source.passes)
        Others == SelectSeq(source.passes, LAMBDA p : p.target # main)
    IN  [plan EXCEPT
            !.passes = [@ EXCEPT ![into].commands =
                            @ \o [i \in DOMAIN MainCommands |->
                                    [Placed(MainCommands[i]) EXCEPT !.at = node]]]
                       \o [i \in DOMAIN Others |->
                            [Others[i] EXCEPT !.target = Moved(@),
                                !.input = IF @ = NoTarget THEN @ ELSE Moved(@),
                                !.commands = [j \in DOMAIN @ |-> Placed(@[j])]]],
            !.dependencies = @ \union {<<Moved(d[1]), Moved(d[2])>> : d \in source.dependencies},
            !.next = @ + source.next - source.first]

\* A canvas that is cached has a raster pass, and the main target is continued over it.
Source(compiled, main) ==
    [passes |-> compiled.passes, dependencies |-> compiled.dependencies,
     first |-> Fresh(main).next, next |-> compiled.next]
BeginRaster(plan) ==
    AddPass([plan EXCEPT !.next = @ + 1], Pass("raster", plan.next, CanvasSize, FALSE, NoTarget))
Resume(plan, target, main, node) ==
    [AddPass(plan, [Pass("draw", main, 0, TRUE, NoTarget)
                        EXCEPT !.commands = <<[Whole(target) EXCEPT !.at = node]>>])
        EXCEPT !.dependencies = @ \union {<<target, main>>}, !.into = Len(plan.passes) + 1]
EmbedCanvas(plan, source, raster, main, node) ==
    IF raster
    THEN Resume(Embed(BeginRaster(plan), source, main, Len(plan.passes) + 1, 0), plan.next,
                main, node)
    ELSE Embed(plan, source, main, plan.into, node)
AddCanvas(plan, node, canvas, main) ==
    EmbedCanvas(plan, Source(Compile(canvas.list, main), main), canvas.raster, main, node)

Canvases(canvases, main) ==
    FoldLeft(LAMBDA plan, i : AddCanvas(plan, i, canvases[i], main),
             [passes |-> <<Pass("draw", main, 0, FALSE, NoTarget)>>, dependencies |-> {},
              order |-> <<>>, next |-> Fresh(main).next, into |-> 1],
             [i \in DOMAIN canvases |-> i])
LayoutPlan(canvases) ==
    IF \E i \in DOMAIN canvases : HasBackdrop(canvases[i].list)
    THEN WithWindow(Canvases(canvases, RootTarget), FALSE)
    ELSE Canvases(canvases, MainTarget)

----------------------------------------------------------------------------
(* schedule_render_plan *)

Writers(plan, t) == {i \in DOMAIN plan.passes : plan.passes[i].target = t}
Consumes(pass, t) == \E j \in DOMAIN pass.commands :
                        pass.commands[j].op = "composite" /\ pass.commands[j].of = t
BeforeAnyUse(plan, i) ==
    LET pass == plan.passes[i]
        needed == {d[1] : d \in {e \in plan.dependencies : e[2] = pass.target}}
    IN  ({k \in Writers(plan, pass.target) \union Writers(plan, pass.input) : k < i}
            \union UNION {Writers(plan, t) : t \in needed}) \ {i}
Before(plan, i) ==
    LET pass == plan.passes[i]
        consumed == {d[1] : d \in {e \in plan.dependencies :
                                     e[2] = pass.target /\ Consumes(pass, e[1])}}
    IN  ({k \in Writers(plan, pass.target) \union Writers(plan, pass.input) : k < i}
            \union UNION {Writers(plan, t) : t \in consumed}) \ {i}

InputsKnown(plan) ==
    /\ \A i \in DOMAIN plan.passes : plan.passes[i].input = NoTarget
            \/ \E k \in Writers(plan, plan.passes[i].input) : k < i
    /\ \A d \in plan.dependencies : Writers(plan, d[1]) = {}
            \/ \E i \in Writers(plan, d[2]) : Consumes(plan.passes[i], d[1])

Order(plan) ==
    LET before == [i \in DOMAIN plan.passes |-> Before(plan, i)]
        Ready(order) == {i \in DOMAIN plan.passes \ ToSet(order) : before[i] \subseteq ToSet(order)}
    IN  FoldLeft(LAMBDA order, n : IF Ready(order) = {} THEN order
                                   ELSE Append(order, Min(Ready(order))),
                 <<>>, [i \in DOMAIN plan.passes |-> i])

Scheduled(plan) == [plan EXCEPT !.order = IF InputsKnown(plan) THEN Order(plan) ELSE <<>>]
Schedulable(plan) == Len(plan.order) = Len(plan.passes)

\* The plans of everything that may be shown; @@ has TLC compute them once.
ListPlans == [shown_ \in Lists \X BOOLEAN |-> Scheduled(ListPlan(shown_[1], shown_[2]))] @@ <<>>
LayoutPlans == [canvases \in Layouts |-> Scheduled(LayoutPlan(canvases))] @@ <<>>

----------------------------------------------------------------------------
(* execute_render_plan: x is a frame in execution *)

Put(f, k, v) == (k :> v) @@ f

\* resolve_target: an alias names a cached picture; what was evicted falls back.
Resolved(x, t) ==
    IF t \in DOMAIN x.aliases /\ x.aliases[t][1] = "raster" /\ x.aliases[t][2] \in DOMAIN x.rasters
    THEN <<x.rasters[x.aliases[t][2]].picture>>
    ELSE IF t \in DOMAIN x.aliases /\ x.aliases[t][1] = "effect"
                /\ x.aliases[t][2] \in DOMAIN x.effects
    THEN <<x.effects[x.aliases[t][2]].picture>>
    ELSE IF t \in DOMAIN x.targets THEN <<x.targets[t].picture>> ELSE <<>>

\* runtime_pass_hash, with the structural key it starts from.
SourceKey(x, command) ==
    IF command.op = "composite" /\ command.of \in DOMAIN x.hashes
    THEN Item("composite", <<command.of, command.opacity, command.clip, command.at>>,
              <<x.hashes[command.of]>>)
    ELSE Item(command.op, <<command.of, content[command.of], command.opacity, command.clip,
                            command.at>>, <<>>)
PassKey(x, pass) ==
    Item(pass.kind, <<pass.dims, pass.load, IF pass.load THEN x.serial ELSE 0>>,
         IF pass.input # NoTarget THEN <<x.hashes[pass.input]>>
         ELSE (IF pass.target \in DOMAIN x.hashes THEN <<x.hashes[pass.target]>> ELSE <<>>)
              \o [i \in DOMAIN pass.commands |-> SourceKey(x, pass.commands[i])])

\* What a pass draws: over what it loads, each command, or its filtered input.
SourcePicture(x, command) ==
    IF command.op = "composite"
    THEN Over(command.opacity, command.clip, command.at, Resolved(x, command.of)[1])
    ELSE <<Item("draw", <<command.of, content[command.of], command.opacity, command.clip,
                          command.at>>, <<>>)>>
Painted(x, pass, base) ==
    IF pass.input # NoTarget THEN <<Item(pass.kind, <<>>, Resolved(x, pass.input)[1])>>
    ELSE base \o FlattenSeq([i \in DOMAIN pass.commands |-> SourcePicture(x, pass.commands[i])])

\* beginTargetPass: a target of another size is recycled, and what it held is gone.
Loaded(x, pass) ==
    IF ~pass.load THEN <<>>
    ELSE IF pass.target \in DOMAIN x.targets /\ x.targets[pass.target].dims = pass.dims
    THEN x.targets[pass.target].picture ELSE <<Leftover>>

\* make_effect_cache_room: the least recently used goes, never one of this frame.
Victims(cache, serial) == {k \in DOMAIN cache : cache[k].used # serial}
Oldest(cache, ks) == CHOOSE k \in ks : \A j \in ks : cache[k].used <= cache[j].used
HasRoom(cache, serial) == Cardinality(DOMAIN cache) < EffectRoom \/ Victims(cache, serial) # {}
MakeNoRoom(cache, serial) == cache
MakeRoom(cache, serial) ==
    IF Cardinality(DOMAIN cache) < EffectRoom THEN cache
    ELSE [k \in DOMAIN cache \ {Oldest(cache, Victims(cache, serial))} |-> cache[k]]

IntoTarget(x, pass) ==
    [x EXCEPT !.targets = Put(@, pass.target, [dims |-> pass.dims,
                               picture |-> Painted(x, pass, Loaded(x, pass))])]
IntoCache(x, cache, pass, key) ==
    LET entry == [picture |-> Painted(x, pass, <<>>), used |-> x.serial]
    IN  IF key \in DOMAIN cache THEN Put(cache, key, [cache[key] EXCEPT !.used = x.serial])
        ELSE Put(MakeRoom(cache, x.serial), key, entry)
Cached(x, cache, key) == key \in DOMAIN cache \/ HasRoom(cache, x.serial)

RunPass(x, pass) ==
    LET key == PassKey(x, pass)
        sources == (IF pass.input = NoTarget THEN {} ELSE {pass.input})
                   \union {pass.commands[i].of : i \in
                            {j \in DOMAIN pass.commands : pass.commands[j].op = "composite"}}
        y == [x EXCEPT !.hashes = Put(@, pass.target, key)]
    IN  IF \E t \in sources : Resolved(x, t) = <<>> THEN [x EXCEPT !.ok = FALSE]
        ELSE IF pass.target = MainTarget
        THEN [y EXCEPT !.screen = Painted(x, pass, IF pass.load THEN @ ELSE <<>>)]
        ELSE IF pass.kind = "raster" /\ Cached(x, x.rasters, key)
        THEN [y EXCEPT !.rasters = IntoCache(x, @, pass, key),
                       !.aliases = Put(@, pass.target, <<"raster", key>>)]
        ELSE IF pass.kind \notin {"draw", "mask", "raster"} /\ Cached(x, x.effects, key)
        THEN [y EXCEPT !.effects = IntoCache(x, @, pass, key),
                       !.aliases = Put(@, pass.target, <<"effect", key>>)]
        ELSE [IntoTarget(x, pass) EXCEPT !.hashes = y.hashes]

\* The producers of a plan run first.  One that has nothing new may keep what its
\* target holds.
External(plan) == {d[1] : d \in plan.dependencies} \intersect Surfaces
PixelsAfter(plan, missing) ==
    [s \in Surfaces |-> IF s \in External(plan) /\ s \notin missing /\ current[s] # content[s]
                        THEN content[s] ELSE pixels[s]]
SurfacePicture(s, held) == <<IF held = -1 THEN Leftover ELSE Item("surface", <<s, held>>, <<>>)>>

Begun(plan, missing) ==
    LET after == PixelsAfter(plan, missing)
        filled == {s \in Surfaces : after[s] # 0}
    IN  [targets |-> [s \in filled |-> [dims |-> 0, picture |-> SurfacePicture(s, after[s])]],
         effects |-> effects, rasters |-> rasters, aliases |-> <<>>, hashes |-> <<>>,
         screen |-> shown, serial |-> frame + 1, ok |-> TRUE]
\* The frame before each of its passes, and after the last.
Runs(plan, missing) ==
    FoldLeft(LAMBDA xs, i : Append(xs, IF Last(xs).ok THEN RunPass(Last(xs), plan.passes[i])
                                       ELSE Last(xs)),
             <<Begun(plan, missing)>>, plan.order)

\* Variants that a run must tell from the code: the caches keep what an aborted frame
\* used, and a pass waits for whatever its target depends on.
Unpurged(cache, serial) == cache

\* abortFrame: what the frame put into a cache was perhaps never executed, and every
\* entry the frame used is dropped.
Unexecuted(cache, before) ==
    [k \in DOMAIN cache |-> IF k \in DOMAIN before THEN cache[k]
                            ELSE [cache[k] EXCEPT !.picture = <<Leftover>>]]
Surviving(cache, serial) ==
    LET kept == {k \in DOMAIN cache : cache[k].used # serial} IN [k \in kept |-> cache[k]]

----------------------------------------------------------------------------
(* What a list shows, without targets, passes or caches *)

FilteredBy(picture, kind) ==
    LET twice == <<Item(kind \o ".v", <<>>, <<Item(kind \o ".h", <<>>, picture)>>)>>
    IN  CASE kind = "matrix" -> <<Item("matrix", <<>>, picture)>>
          [] kind = "blur" -> twice
          [] kind = "shadow" -> twice \o picture
Filtered(picture, program) == FoldLeft(FilteredBy, picture, program)

\* p holds the pictures of the open layers, the window's first.
Onto(p, picture) == [p EXCEPT !.open[Len(p.open)] = @ \o picture]
PaintEnd(p) ==
    LET b == Last(p.begun)
        behind == Last(Front(p.open))
        filtered == Filtered(Last(p.open), b.effects)
        grouped == IF b.backdrop = <<>> THEN filtered
                   ELSE Filtered(behind, b.backdrop) \o filtered
        masked == IF b.mask THEN <<Item("mask", <<>>, grouped)>> ELSE grouped
    IN  Onto([p EXCEPT !.open = Front(@), !.begun = Front(@)],
             Over(b.opacity, p.canvas[2], 0, masked))
PaintStep(p, command, held) ==
    CASE command.op = "alpha" -> [p EXCEPT !.canvas[1] = command.to]
      [] command.op = "clip" -> [p EXCEPT !.canvas[2] = @ + command.to]
      [] command.op = "push" -> [p EXCEPT !.states = Append(@, p.canvas)]
      [] command.op = "pop" -> [p EXCEPT !.canvas = Last(p.states), !.states = Front(@)]
      [] command.op = "draw" ->
            Onto(p, <<Item("draw", <<command.of, content[command.of], p.canvas[1], p.canvas[2], 0>>,
                           <<>>)>>)
      [] command.op = "target" ->
            Onto(p, Over(p.canvas[1], p.canvas[2], 0,
                         SurfacePicture(command.of, held[command.of])))
      [] command.op = "begin" ->
            IF Isolated(command) THEN [p EXCEPT !.open = Append(@, <<>>), !.begun = Append(@, command)]
            ELSE [p EXCEPT !.begun = Append(@, command)]
      [] command.op = "end" ->
            IF Isolated(Last(p.begun)) THEN PaintEnd(p) ELSE [p EXCEPT !.begun = Front(@)]
PaintList(list, held) ==
    FoldLeft(LAMBDA p, c : PaintStep(p, c, held),
             [open |-> << <<>> >>, begun |-> <<>>, canvas |-> <<1, 0>>, states |-> <<>>],
             list).open[1]

\* A canvas is painted where it lies, a cached one as one picture.
At(picture, node) == [i \in DOMAIN picture |->
    LET item == picture[i] IN [item EXCEPT !.arg = Append(Front(@), node)]]
PaintLayout(canvases, held) ==
    FoldLeft(LAMBDA s, i :
                LET picture == PaintList(canvases[i].list, held)
                IN  s \o IF canvases[i].raster THEN Over(1, 0, i, picture) ELSE At(picture, i),
             <<>>, [i \in DOMAIN canvases |-> i])

----------------------------------------------------------------------------
(* Frames *)

Noted(plan, missing) ==
    [s \in Surfaces |-> IF s \in External(plan) \ missing THEN content[s] ELSE current[s]]

\* A resource, or a producer's output, changes.
Change(r) ==
    /\ content[r] < MaxGeneration
    /\ content' = [content EXCEPT ![r] = @ + 1]
    /\ UNCHANGED <<pixels, current, effects, rasters, frame, shown, asked, refused, misses,
                   failures>>

\* A frame is drawn to its end; `picture` is what its list asks for.  A plan that cannot
\* be scheduled or read is turned away, although no device failed.
Completes(plan, x, picture, over, missing) ==
    /\ \A s \in missing : pixels[s] # 0
    /\ misses' = misses + Cardinality(missing)
    /\ IF Schedulable(plan) /\ x.ok
       THEN /\ shown' = x.screen
            /\ asked' = (IF over THEN asked ELSE <<>>) \o picture
            /\ effects' = x.effects /\ rasters' = x.rasters
            /\ pixels' = PixelsAfter(plan, missing) /\ current' = Noted(plan, missing)
            /\ UNCHANGED refused
       ELSE /\ refused' = TRUE
            /\ UNCHANGED <<pixels, current, effects, rasters, shown, asked>>
    /\ UNCHANGED failures

\* The device fails before a pass of the frame, or after the last: nothing of it is shown,
\* and what it rendered may never have been executed.
Aborts(plan, x, missing) ==
    LET after == PixelsAfter(plan, missing)
    IN  /\ failures < MaxFailures /\ missing = {}
        /\ Schedulable(plan) /\ x.ok
        /\ effects' = Surviving(Unexecuted(x.effects, effects), x.serial)
        /\ rasters' = Surviving(Unexecuted(x.rasters, rasters), x.serial)
        /\ pixels' = [s \in Surfaces |-> IF after[s] = pixels[s] THEN after[s] ELSE -1]
        /\ current' = [s \in Surfaces |-> 0]
        /\ failures' = failures + 1
        /\ UNCHANGED <<shown, asked, refused, misses>>

\* A producer has nothing and never had: the frame fails before its first pass.
Starves(plan, missing) ==
    LET rendered == {s \in External(plan) \ missing : current[s] # content[s]}
    IN  /\ \E s \in missing : pixels[s] = 0
        /\ \E done \in SUBSET rendered :
              pixels' = [s \in Surfaces |-> IF s \in done THEN -1 ELSE pixels[s]]
        /\ current' = [s \in Surfaces |-> 0]
        /\ misses' = misses + Cardinality(missing)
        /\ UNCHANGED <<effects, rasters, shown, asked, refused, failures>>

ShowFrame(plan, picture, over, missing) ==
    /\ frame < MaxFrames
    /\ misses + Cardinality(missing) <= MaxMisses
    /\ frame' = frame + 1
    /\ LET runs == Runs(plan, missing)
       IN  \/ Completes(plan, Last(runs), picture, over, missing)
           \/ \E at \in DOMAIN runs : Aborts(plan, runs[at], missing)
           \/ Starves(plan, missing)
    /\ UNCHANGED content

ShowList(list, over, missing) ==
    /\ Valid(list)
    /\ missing # {} => list \in MayMiss
    /\ \E plan \in {ListPlans[<<list, over>>]} :
          /\ missing \subseteq External(plan)
          /\ ShowFrame(plan, PaintList(list, PixelsAfter(plan, missing)), over, missing)
ShowLayout(canvases, missing) ==
    \E plan \in {LayoutPlans[canvases]} :
        /\ missing \subseteq External(plan)
        /\ ShowFrame(plan, PaintLayout(canvases, PixelsAfter(plan, missing)), FALSE, missing)

Init ==
    /\ content = [r \in Resources \union Surfaces |-> 1]
    /\ pixels = [s \in Surfaces |-> 0] /\ current = [s \in Surfaces |-> 0]
    /\ effects = <<>> /\ rasters = <<>>
    /\ frame = 0 /\ shown = <<>> /\ asked = <<>> /\ refused = FALSE
    /\ misses = 0 /\ failures = 0

Next ==
    \/ \E r \in Resources \union Surfaces : Change(r)
    \/ \E list \in Lists, missing \in SUBSET Surfaces : ShowList(list, FALSE, missing)
    \/ \E list \in Overlays, missing \in SUBSET Surfaces : ShowList(list, TRUE, missing)
    \/ \E canvases \in Layouts, missing \in SUBSET Surfaces : ShowLayout(canvases, missing)

Spec == Init /\ [][Next]_vars

Generations == 0 .. MaxGeneration
TypeOK ==
    /\ content \in [Resources \union Surfaces -> Generations]
    /\ pixels \in [Surfaces -> Generations \union {-1}] /\ current \in [Surfaces -> Generations]
    /\ frame \in 0 .. MaxFrames /\ refused \in BOOLEAN
    /\ Cardinality(DOMAIN effects) <= EffectRoom /\ Cardinality(DOMAIN rasters) <= EffectRoom
    /\ misses \in 0 .. MaxMisses /\ failures \in 0 .. MaxFailures
    /\ \A s \in Surfaces : current[s] \in {0, pixels[s]}

----------------------------------------------------------------------------
(* What the window shows is what the lists of its frames draw, item over item: no *)
(* target that was recycled, no picture cached from another content, no surface of *)
(* an aborted frame shows through, in whatever order frames follow one another     *)
(* (compositor.cpp, render_plan.cpp, render_plan_executor.cpp, ui_renderer.cpp).    *)
FramesShowTheirList == shown = asked

(* A list that is accepted is drawn: its plan can be scheduled, and every target it *)
(* reads is there when the pass that reads it runs (schedule_render_plan).          *)
AcceptedListsAreDrawn == ~refused
============================================================================
