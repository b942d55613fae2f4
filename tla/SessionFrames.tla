--------------------------- MODULE SessionFrames ---------------------------
(***************************************************************************)
(* How a layout session turns its inputs into a frame: the two-phase         *)
(* preparation of glyphs in the text engines' atlases, the plan that names   *)
(* the generations it was built against, its reuse when nothing changed, the *)
(* upload of the atlases to a renderer's backend, and the drawing.           *)
(*                                                                         *)
(* A scene is a set of display lists; it shows rows of text, each of one     *)
(* engine: the session's own labels and a text layout drawn by a list.  The  *)
(* atlas is Skribidi's, which is not in the repository: it may find place    *)
(* for a glyph or repack, and a repack keeps what its caller just prepared.  *)
(***************************************************************************)
EXTENDS Naturals, FiniteSets

CONSTANTS
    Session,        \* the engine of the session's labels
    Editor,         \* the engine of a retained text layout
    EngineOf,       \* the engine of each row
    Shows,          \* the rows that each scene shows
    Revisions,      \* how many revisions each row's text may have
    MaxGeneration   \* generations of an atlas

Row == DOMAIN EngineOf
Scene == DOMAIN Shows
Engine == {Session, Editor}

ASSUME FramesConstants ==
    /\ Session # Editor
    /\ EngineOf \in [Row -> Engine]
    /\ Shows \in [Scene -> SUBSET Row]
    /\ Revisions \in [Row -> Nat \ {0}] /\ MaxGeneration \in Nat \ {0}

VARIABLES
    threaded,   \* frames are sealed for a render thread, or executed inline
    revision,   \* the text of each row
    scene,      \* the display lists that are attached
    atlas,      \* of each engine: its generation, its glyphs, and whether it is dirty
    published,  \* the generation each row's glyphs were last published at, by revision
    frame,      \* LayoutSessionState::frame, the plan under construction
    kept,       \* LayoutSessionState::reusable_plan
    pending,    \* the sealed plan that waits for the render thread
    drawing,    \* the sealed plan the render thread has taken
    gpu,        \* the renderer's backend and its atlas images
    shown,      \* what the last frame put on the screen
    trouble     \* why the last frame failed

framesVars == <<threaded, revision, scene, atlas, published, frame, kept, pending, drawing,
                gpu, shown, trouble>>

Glyph == UNION {{r} \X (1..Revisions[r]) : r \in Row}
Generation == 1..MaxGeneration
NoGeneration == 0
Inputs == [scene : Scene, revision : [Row -> Nat]]
Plan == [of : Inputs, bound : [Row -> Generation \union {NoGeneration}], whole : BOOLEAN]
Image == [generation : Generation \union {NoGeneration}, glyphs : SUBSET Glyph]

(* What a frame is asked to show: the lists, and the text they and the layout *)
(* name.                                                                     *)
Asked == [scene |-> scene,
          revision |-> [r \in Row |-> IF r \in Shows[scene] THEN revision[r] ELSE 0]]
GlyphsOf(inputs) == {<<r, inputs.revision[r]>> : r \in Row} \intersect Glyph
RowsOf(engine) == {r \in Shows[scene] : EngineOf[r] = engine}
GlyphsAt(rows) == {<<r, revision[r]>> : r \in rows}

NoImage == [generation |-> NoGeneration, glyphs |-> {}]
NoBackend == [up |-> FALSE, image |-> [e \in Engine |-> NoImage]]
NoPlan == [of |-> [scene |-> CHOOSE s \in Scene : TRUE, revision |-> [r \in Row |-> 0]],
           bound |-> [r \in Row |-> NoGeneration], whole |-> FALSE]
NoSubmission == [asked |-> NoPlan.of, plan |-> NoPlan]

FramesTypeOK ==
    /\ threaded \in BOOLEAN
    /\ revision \in [Row -> Nat \ {0}] /\ scene \in Scene
    /\ atlas \in [Engine -> [generation : Generation, glyphs : SUBSET Glyph, dirty : BOOLEAN]]
    /\ published \in [Row -> [revision : Nat, generation : Generation \union {NoGeneration}]]
    /\ frame \in Plan
    /\ kept \in [valid : BOOLEAN, settled : BOOLEAN, plan : Plan,
                 generation : [Engine -> Generation \union {NoGeneration}]]
    /\ {pending, drawing} \subseteq [asked : Inputs, plan : Plan]
    /\ gpu \in [up : BOOLEAN, image : [Engine -> Image]]
    /\ shown \in [asked : Inputs, glyphs : SUBSET Glyph]
    /\ trouble \in {"none", "build", "backend", "moved", "missing"}

FramesInit ==
    /\ threaded \in BOOLEAN
    /\ revision = [r \in Row |-> 1] /\ scene \in Scene
    /\ atlas = [e \in Engine |-> [generation |-> 1, glyphs |-> {}, dirty |-> FALSE]]
    /\ published = [r \in Row |-> [revision |-> 0, generation |-> NoGeneration]]
    /\ frame = NoPlan /\ pending = NoSubmission /\ drawing = NoSubmission
    /\ kept = [valid |-> FALSE, settled |-> FALSE, plan |-> NoPlan,
               generation |-> [e \in Engine |-> NoGeneration]]
    /\ gpu = NoBackend
    /\ shown = [asked |-> NoPlan.of, glyphs |-> {}]
    /\ trouble = "none"

----------------------------------------------------------------------------
(* The program's side. *)

EditText ==
    /\ \E r \in Row : revision[r] < Revisions[r]
                      /\ revision' = [revision EXCEPT ![r] = @ + 1]
    /\ UNCHANGED <<threaded, scene, atlas, published, frame, kept, pending, drawing,
                   gpu, shown, trouble>>

AttachLists ==
    /\ \E s \in Scene \ {scene} : scene' = s
    /\ UNCHANGED <<threaded, revision, atlas, published, frame, kept, pending, drawing,
                   gpu, shown, trouble>>

(* The device is lost or the surface is made again on another: the backend    *)
(* and its images are given up, and the next frame makes new ones.           *)
LoseBackend ==
    /\ gpu.up
    /\ gpu' = NoBackend
    /\ UNCHANGED <<threaded, revision, scene, atlas, published, frame, kept, pending, drawing,
                   shown, trouble>>

----------------------------------------------------------------------------
(* Preparing glyphs. *)

(* Atlases that hold the new glyphs: what is there already stays as it is.    *)
Place(a, new, keep) ==
    IF new \subseteq a.glyphs THEN {a}
    ELSE {[a EXCEPT !.glyphs = @ \union new, !.dirty = TRUE]}
         \union {[generation |-> g, glyphs |-> new \union (keep \intersect a.glyphs),
                  dirty |-> TRUE] : g \in {a.generation + 1} \intersect Generation}

(* Published glyphs are current while the text and the atlas generation are.  *)
Current(r) ==
    published[r] = [revision |-> revision[r], generation |-> atlas[EngineOf[r]].generation]

(* Labels: every row is prepared before any is published; when a repack may   *)
(* have dropped the rows that were taken from the last frame, all of them    *)
(* are prepared again, and the plan is then emitted against one generation.  *)
UnsettledSettle(before, after, reused, rows) == {after}
Settle(before, after, reused, rows) ==
    IF reused # {} /\ after.generation # before.generation
    THEN Place(after, GlyphsAt(rows), GlyphsAt(rows))
    ELSE {after}
PreparedLabels ==
    LET rows == RowsOf(Session)
        reused == {r \in rows : Current(r)}
    IN  UNION {Settle(atlas[Session], a, reused, rows)
               : a \in Place(atlas[Session], GlyphsAt(rows \ reused), {})}

(* Rows of a text layout: published one after the other, so a repack leaves   *)
(* earlier rows behind; those are published again before the plan is used.   *)
RowGenerations(after, rows, reused) ==
    {g \in [rows -> {atlas[Editor].generation, after.generation}] :
        /\ \A r \in reused : g[r] = atlas[Editor].generation
        /\ rows \ reused # {} => \E r \in rows \ reused : g[r] = after.generation}
Refresh(after, rows, g) ==
    LET stale == {r \in rows : g[r] # after.generation}
    IN  {[atlas |-> b, bound |-> [r \in rows |-> IF r \in stale THEN b.generation ELSE g[r]]]
         : b \in Place(after, GlyphsAt(stale), GlyphsAt(rows))}
PreparedRows ==
    LET rows == RowsOf(Editor)
        reused == {r \in rows : Current(r)}
    IN  UNION {UNION {Refresh(a, rows, g) : g \in RowGenerations(a, rows, reused)}
               : a \in Place(atlas[Editor], GlyphsAt(rows \ reused), GlyphsAt(rows \ reused))}

(* The plan of the frame with what preparing it leaves behind. *)
Built ==
    {[atlas |-> [e \in Engine |-> IF e = Session THEN labels ELSE texts.atlas],
      plan |-> [of |-> Asked, whole |-> TRUE,
                bound |-> [r \in Row |-> IF r \in RowsOf(Session) THEN labels.generation
                                         ELSE IF r \in RowsOf(Editor) THEN texts.bound[r]
                                         ELSE NoGeneration]]]
     : labels \in PreparedLabels, texts \in PreparedRows}

Publish(plan) ==
    published' = [r \in Row |-> IF plan.bound[r] # NoGeneration
                                THEN [revision |-> plan.of.revision[r], generation |-> plan.bound[r]]
                                ELSE published[r]]

----------------------------------------------------------------------------
(* Executing a plan. *)

(* uploadAtlases: dirty pages, or all of them for a backend that is new; a    *)
(* page is acknowledged once it is uploaded, and an upload may fail.  A new  *)
(* generation retires the older one's image.                                 *)
AcknowledgedUnsent(a, sent) == [a EXCEPT !.dirty = FALSE]
Acknowledged(a, sent) == [a EXCEPT !.dirty = @ /\ ~sent]
EnginesOf(plan) == {Session} \union {EngineOf[r] : r \in {x \in Row : plan.bound[x] # NoGeneration}}
Uploads(plan, atlases) ==
    LET send == {e \in EnginesOf(plan) : atlases[e].glyphs # {} /\ (~gpu.up \/ atlases[e].dirty)}
    IN  {[ok |-> sent = send,
          atlas |-> [e \in Engine |-> Acknowledged(atlases[e], e \in sent)],
          gpu |-> [up |-> TRUE,
                   image |-> [e \in Engine |->
                       IF e \in sent THEN [generation |-> atlases[e].generation,
                                           glyphs |-> atlases[e].glyphs]
                       ELSE gpu.image[e]]]]
         : sent \in SUBSET send}

(* drawGlyphs refuses a batch whose generation has no image. *)
Bound(plan) == {r \in Row : plan.bound[r] # NoGeneration}
Undrawable(plan, g) == {r \in Bound(plan) : g.image[EngineOf[r]].generation # plan.bound[r]}
Drawn(plan, g) == {<<r, plan.of.revision[r]>> : r \in Bound(plan)}
                      \intersect UNION {g.image[e].glyphs : e \in Engine}
Reason(plan, atlases, missing) ==
    IF \E r \in missing : atlases[EngineOf[r]].generation # plan.bound[r] THEN "moved" ELSE "missing"

(* One execution: the uploads, then the draw, which may fail of itself. *)
Execution(plan, u, drew) ==
    LET missing == Undrawable(plan, u.gpu)
        ok == u.ok /\ missing = {} /\ drew
    IN  [ok |-> ok, atlas |-> u.atlas, gpu |-> u.gpu,
         trouble |-> IF ok THEN "none"
                     ELSE IF u.ok /\ missing # {} THEN Reason(plan, u.atlas, missing)
                     ELSE "backend"]
Executions(plan, atlases) ==
    UNION {{Execution(plan, u, TRUE), Execution(plan, u, FALSE)} : u \in Uploads(plan, atlases)}

Show(asked, plan, done) ==
    /\ gpu' = done.gpu /\ atlas' = done.atlas /\ trouble' = done.trouble
    /\ shown' = IF done.ok THEN [asked |-> asked, glyphs |-> Drawn(plan, done.gpu)] ELSE shown

----------------------------------------------------------------------------
(* nkui_layout_session_render_frame. *)

(* The generations a plan depends on: always the session's own atlas, and     *)
(* that of each text layout its lists draw.                                  *)
GenerationsOf(plan, atlases) ==
    [e \in Engine |-> IF e \in EnginesOf(plan) THEN atlases[e].generation ELSE NoGeneration]

(* Variants that a run must tell from the code: a plan reused for other text, *)
(* labels left where a repack moved them, a page acknowledged unsent.        *)
BlindReusable ==
    /\ kept.valid /\ kept.settled
    /\ kept.plan.of.scene = scene
    /\ \A e \in Engine : kept.generation[e] \in {NoGeneration, atlas[e].generation}

Reusable ==
    /\ kept.valid /\ kept.settled
    /\ kept.plan.of = Asked
    /\ \A e \in Engine : kept.generation[e] \in {NoGeneration, atlas[e].generation}

(* A plan is settled once two builds in a row saw the same inputs. *)
Remember(plan, atlases) ==
    LET generations == GenerationsOf(plan, atlases)
    IN  kept' = [valid |-> TRUE, plan |-> plan, generation |-> generations,
                 settled |-> kept.plan.of = plan.of /\ kept.generation = generations]

ReuseInline ==
    /\ ~threaded /\ Reusable
    /\ \E done \in Executions(frame, atlas) :
           /\ Show(Asked, frame, done)
           /\ kept' = [kept EXCEPT !.valid = done.ok]
    /\ UNCHANGED <<threaded, revision, scene, published, frame, pending, drawing>>

ReuseSealed ==
    /\ threaded /\ Reusable
    /\ pending' = [asked |-> Asked, plan |-> kept.plan]
    /\ UNCHANGED <<threaded, revision, scene, atlas, published, frame, kept, drawing, gpu,
                   shown, trouble>>

BuildInline ==
    /\ ~threaded /\ ~Reusable
    /\ \E built \in Built : \E done \in Executions(built.plan, built.atlas) :
           /\ frame' = built.plan /\ Publish(built.plan)
           /\ Show(Asked, built.plan, done)
           /\ IF done.ok THEN Remember(built.plan, done.atlas)
                         ELSE kept' = [kept EXCEPT !.valid = FALSE]
    /\ UNCHANGED <<threaded, revision, scene, pending, drawing>>

BuildSealed ==
    /\ threaded /\ ~Reusable
    /\ \E built \in Built :
           /\ atlas' = built.atlas /\ Publish(built.plan)
           /\ Remember(built.plan, built.atlas)
           /\ pending' = [asked |-> Asked, plan |-> built.plan]
    /\ frame' = NoPlan
    /\ UNCHANGED <<threaded, revision, scene, drawing, gpu, shown, trouble>>

(* The build gives up: the frame it was compiling into is lost, glyphs it has *)
(* prepared stay in the atlases, and the plan it remembers stays as it was.  *)
BuildFails ==
    /\ ~Reusable
    /\ \E built \in Built :
           \/ atlas' = built.atlas /\ Publish(built.plan)
           \/ UNCHANGED <<atlas, published>>
    /\ frame' = NoPlan
    /\ trouble' = "build"
    /\ UNCHANGED <<threaded, revision, scene, kept, pending, drawing, gpu, shown>>

(* The render thread takes the newest plan, and executes it once it has the   *)
(* locks that a build holds.                                                 *)
TakeSealed ==
    /\ pending.plan.whole /\ ~drawing.plan.whole
    /\ drawing' = pending
    /\ pending' = NoSubmission
    /\ UNCHANGED <<threaded, revision, scene, atlas, published, frame, kept, gpu, shown, trouble>>

ExecuteSealed ==
    /\ drawing.plan.whole
    /\ \E done \in Executions(drawing.plan, atlas) : Show(drawing.asked, drawing.plan, done)
    /\ drawing' = NoSubmission
    /\ UNCHANGED <<threaded, revision, scene, published, frame, kept, pending>>

----------------------------------------------------------------------------
FramesNext ==
    \/ EditText \/ AttachLists \/ LoseBackend
    \/ ReuseInline \/ ReuseSealed \/ BuildInline \/ BuildSealed \/ BuildFails
    \/ TakeSealed \/ ExecuteSealed

FramesSpec == FramesInit /\ [][FramesNext]_framesVars

----------------------------------------------------------------------------
(* What a sealed frame puts on the screen is what the session was asked for   *)
(* when it was submitted, every glyph of it, however the text, the lists and *)
(* the atlases moved on before the render thread came to it.                 *)
SealedFramesShowWhatWasAsked ==
    threaded => shown.glyphs = GlyphsOf(shown.asked)

(* api.cpp:4806 says of every frame that a plan is used again only when       *)
(* building it again would reproduce it.                                     *)
ReusedPlansShowWhatWasAsked == shown.glyphs = GlyphsOf(shown.asked)

(* An atlas page that is clean needs no upload: where the backend has an      *)
(* image of its generation, the image holds all its glyphs.                  *)
CleanPagesAreUploaded ==
    \A e \in Engine :
        ~atlas[e].dirty /\ gpu.image[e].generation = atlas[e].generation
            => gpu.image[e].glyphs = atlas[e].glyphs

(* A plan that names the current generation of an atlas names glyphs that are *)
(* in it, whoever holds the plan: repacking an atlas while one frame is built *)
(* never empties what the frame has already bound.                           *)
PlansNameGlyphsThatExist ==
    \A p \in {frame, kept.plan, pending.plan, drawing.plan} : \A r \in Bound(p) :
        p.whole /\ atlas[EngineOf[r]].generation = p.bound[r]
            => <<r, p.of.revision[r]>> \in atlas[EngineOf[r]].glyphs
============================================================================
