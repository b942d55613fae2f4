------------------------------ MODULE UiProofs ------------------------------
(***************************************************************************)
(* Proofs about the parts of the UI package that MCUi checks together.         *)
(*                                                                         *)
(* SessionFrames, for any rows, scenes and revisions and any number of atlas    *)
(* generations: a plan that names the generation an atlas has names glyphs     *)
(* that are in it, a page that counts as clean is with the backend, and so     *)
(* what a sealed frame puts on the screen is what was asked for.  An atlas     *)
(* only moves on: within a generation it loses no glyph, and a new generation  *)
(* is one that no plan names yet.  So what a plan, or the record of a row's     *)
(* last publication, says about an atlas stays true of it.                    *)
(*                                                                         *)
(* UiResources, for any numbers of slots, lists, sessions, nodes, fonts and     *)
(* generations: whatever the order of the calls, what was given to somebody     *)
(* stays as it was given.  Each count is the size of the set of its users,     *)
(* and an operation changes that set by what it adds to the count.            *)
(***************************************************************************)
EXTENDS SessionFrames, UiResources, FunctionTheorems, FiniteSetTheorems, WellFoundedInduction,
        TLAPS

(* SessionFrames.                                                            *)

Atlas == [generation : Generation, glyphs : SUBSET Glyph, dirty : BOOLEAN]
Atlases == [Engine -> Atlas]
Backend == [up : BOOLEAN, image : [Engine -> Image]]
Submission == [asked : Inputs, plan : Plan]
Publication == [revision : Nat, generation : Generation \union {NoGeneration}]

(* What the text of a row was at a generation of its atlas.                   *)
Named(r, text, generation, atlases) ==
    generation # NoGeneration =>
        /\ generation <= atlases[EngineOf[r]].generation
        /\ generation = atlases[EngineOf[r]].generation =>
               <<r, text>> \in atlases[EngineOf[r]].glyphs

(* A plan that was built binds the rows its scene shows, and names glyphs.    *)
PlanOK(p, atlases) ==
    p.whole =>
        \A r \in Row :
            /\ p.bound[r] # NoGeneration <=> r \in Shows[p.of.scene]
            /\ IF r \in Shows[p.of.scene] THEN p.of.revision[r] \in 1..Revisions[r]
                                          ELSE p.of.revision[r] = 0
            /\ Named(r, p.of.revision[r], p.bound[r], atlases)

(* A page that is clean is with the backend, if the backend has any.          *)
PageOK(a, image) ==
    /\ ~a.dirty => \/ image.generation = NoGeneration
                   \/ image.generation = a.generation /\ image.glyphs = a.glyphs
    /\ a.dirty => a.glyphs # {}
PagesOK(atlases, g) == \A e \in Engine : PageOK(atlases[e], g.image[e])

PublishedOK(rows, atlases) ==
    \A r \in Row : Named(r, rows[r].revision, rows[r].generation, atlases)

SubmissionOK(s) == s.plan.whole => s.plan.of = s.asked

KeptPlan == [valid : BOOLEAN, settled : BOOLEAN, plan : Plan,
         generation : [Engine -> Generation \union {NoGeneration}]]
Screen == [asked : Inputs, glyphs : SUBSET Glyph]
Troubles == {"none", "build", "backend", "moved", "missing"}

Shape ==
    /\ threaded \in BOOLEAN /\ revision \in [Row -> Nat \ {0}] /\ scene \in Scene
    /\ atlas \in Atlases /\ published \in [Row -> Publication]
    /\ frame \in Plan /\ kept \in KeptPlan
    /\ pending \in Submission /\ drawing \in Submission
    /\ gpu \in Backend /\ shown \in Screen /\ trouble \in Troubles

TextOK == \A r \in Row : revision[r] \in 1..Revisions[r]

FramesOK ==
    /\ Shape /\ TextOK
    /\ PagesOK(atlas, gpu) /\ PublishedOK(published, atlas)
    /\ PlanOK(frame, atlas) /\ PlanOK(kept.plan, atlas)
    /\ PlanOK(pending.plan, atlas) /\ PlanOK(drawing.plan, atlas)
    /\ SubmissionOK(pending) /\ SubmissionOK(drawing)
    /\ kept.valid => kept.plan.whole
    /\ SealedFramesShowWhatWasAsked

----------------------------------------------------------------------------
(* Glyphs, and what an atlas is asked to hold. *)

LEMMA Texts ==
    /\ \A r \in Row : EngineOf[r] \in Engine /\ Revisions[r] \in Nat /\ Revisions[r] # 0
    /\ \A s \in Scene : Shows[s] \subseteq Row
    /\ Session \in Engine /\ Editor \in Engine /\ Session # Editor
    /\ MaxGeneration \in Nat
  BY FramesConstants DEF Row, Scene, Engine

LEMMA GlyphIs ==
    ASSUME NEW r \in Row, NEW n
    PROVE  <<r, n>> \in Glyph <=> n \in 1..Revisions[r]
  BY DEF Glyph

LEMMA GlyphsAtRows ==
    ASSUME Shape, TextOK, NEW rows \in SUBSET Row
    PROVE  /\ GlyphsAt(rows) \subseteq Glyph
           /\ \A r \in rows : <<r, revision[r]>> \in GlyphsAt(rows)
  <1>1. ASSUME NEW x \in GlyphsAt(rows) PROVE x \in Glyph
    <2>1. PICK r \in rows : x = <<r, revision[r]>>
      BY DEF GlyphsAt
    <2> QED
      BY <2>1, GlyphIs DEF TextOK
  <1> QED
    BY <1>1 DEF GlyphsAt

LEMMA RowsShown ==
    ASSUME Shape
    PROVE  /\ \A e \in Engine : RowsOf(e) \subseteq Row
           /\ \A r \in Row : r \in RowsOf(Session) <=> r \in Shows[scene] /\ EngineOf[r] = Session
           /\ \A r \in Row : r \in RowsOf(Editor) <=> r \in Shows[scene] /\ EngineOf[r] = Editor
  <1>1. Shows[scene] \subseteq Row
    BY Texts DEF Shape
  <1>2. ASSUME NEW e \in Engine
        PROVE  /\ RowsOf(e) \subseteq Row
               /\ \A r \in Row : r \in RowsOf(e) <=> r \in Shows[scene] /\ EngineOf[r] = e
    BY <1>1 DEF RowsOf
  <1> QED
    BY <1>2, Texts

(* An atlas moves on.  Grown is what preparing glyphs does to it, Later also   *)
(* what an upload does.                                                     *)
Later(a, b) ==
    /\ b \in Atlas /\ a.generation <= b.generation
    /\ b.generation = a.generation => a.glyphs \subseteq b.glyphs
Grown(a, b) == Later(a, b) /\ (b = a \/ (b.dirty /\ b.glyphs # {}))

LEMMA SameGeneration == ASSUME NEW g \in Generation PROVE g <= g
  BY DEF Generation

LEMMA SameAtlas == ASSUME NEW a \in Atlas PROVE Grown(a, a)
  BY DEF Grown, Later, Atlas, Generation

LEMMA GrownAgain ==
    ASSUME NEW a \in Atlas, NEW b \in Atlas, NEW c \in Atlas, Grown(a, b), Grown(b, c)
    PROVE  Grown(a, c)
  BY DEF Grown, Later, Atlas, Generation

LEMMA LaterAgain ==
    ASSUME NEW first \in Atlases, NEW second \in Atlases, NEW third \in Atlases,
           \A e \in Engine : Later(first[e], second[e]),
           \A e \in Engine : Later(second[e], third[e])
    PROVE  \A e \in Engine : Later(first[e], third[e])
  <1> SUFFICES ASSUME NEW e \in Engine PROVE Later(first[e], third[e])
    OBVIOUS
  <1>1. first[e] \in Atlas /\ second[e] \in Atlas /\ third[e] \in Atlas
    BY DEF Atlases
  <1>2. Later(first[e], second[e]) /\ Later(second[e], third[e])
    OBVIOUS
  <1> QED
    BY <1>1, <1>2 DEF Later, Atlas, Generation

LEMMA Placed ==
    ASSUME NEW a \in Atlas, NEW new \in SUBSET Glyph, NEW keep, NEW b \in Place(a, new, keep)
    PROVE  b \in Atlas /\ Grown(a, b) /\ new \subseteq b.glyphs
  <1>1. CASE new \subseteq a.glyphs
    <2>1. b = a
      BY <1>1 DEF Place
    <2> QED
      BY <1>1, <2>1, SameAtlas
  <1>2. CASE ~(new \subseteq a.glyphs) /\ b = [a EXCEPT !.glyphs = @ \union new, !.dirty = TRUE]
    <2> DEFINE more == a.glyphs \union new
    <2>1. more \subseteq Glyph /\ more # {} /\ new \subseteq more /\ a.glyphs \subseteq more
      BY <1>2 DEF Atlas
    <2>2. b = [a EXCEPT !.glyphs = more, !.dirty = TRUE]
      BY <1>2
    <2> HIDE DEF more
    <2>3. b \in Atlas /\ b.generation = a.generation /\ b.glyphs = more /\ b.dirty
      BY <2>1, <2>2 DEF Atlas
    <2>4. a.generation <= b.generation
      BY <2>3 DEF Atlas, Generation
    <2> QED
      BY <2>1, <2>3, <2>4 DEF Grown, Later
  <1>3. ASSUME ~(new \subseteq a.glyphs), NEW g \in {a.generation + 1} \intersect Generation,
               b = [generation |-> g, glyphs |-> new \union (keep \intersect a.glyphs), dirty |-> TRUE]
        PROVE  b \in Atlas /\ Grown(a, b) /\ new \subseteq b.glyphs
    <2> DEFINE more == new \union (keep \intersect a.glyphs)
    <2>1. more \subseteq Glyph /\ more # {} /\ new \subseteq more
      BY <1>3 DEF Atlas
    <2>2. b = [generation |-> g, glyphs |-> more, dirty |-> TRUE]
      BY <1>3
    <2> HIDE DEF more
    <2>3. b \in Atlas /\ b.generation = g /\ b.glyphs = more /\ b.dirty
      BY <2>1, <2>2 DEF Atlas
    <2>4. a.generation <= b.generation /\ b.generation # a.generation
      BY <2>3 DEF Atlas, Generation
    <2> QED
      BY <2>1, <2>3, <2>4 DEF Grown, Later
  <1> QED
    BY <1>1, <1>2, <1>3 DEF Place

(* What is said of an atlas stays true of it. *)
LEMMA NamedLater ==
    ASSUME NEW before \in Atlases, NEW after \in Atlases,
           \A e \in Engine : Later(before[e], after[e]),
           NEW r \in Row, NEW text, NEW g \in Generation \union {NoGeneration},
           Named(r, text, g, before)
    PROVE  Named(r, text, g, after)
  <1> DEFINE e == EngineOf[r]
  <1>1. e \in Engine /\ before[e] \in Atlas /\ after[e] \in Atlas /\ Later(before[e], after[e])
    BY Texts DEF Atlases
  <1> DEFINE a == before[e]
             b == after[e]
  <1>2. a.generation \in Nat /\ b.generation \in Nat /\ g \in Nat
    BY <1>1 DEF Atlas, Generation, NoGeneration
  <1>3. /\ g # NoGeneration => g <= a.generation
        /\ g # NoGeneration /\ g = a.generation => <<r, text>> \in a.glyphs
    BY DEF Named
  <1>4. a.generation <= b.generation /\ (b.generation = a.generation => a.glyphs \subseteq b.glyphs)
    BY <1>1 DEF Later
  <1> HIDE DEF a, b
  <1>5. /\ g # NoGeneration => g <= b.generation
        /\ g # NoGeneration /\ g = b.generation => <<r, text>> \in b.glyphs
    BY <1>2, <1>3, <1>4
  <1> QED
    BY <1>5 DEF Named, b

LEMMA PlanLater ==
    ASSUME NEW before \in Atlases, NEW after \in Atlases,
           \A e \in Engine : Later(before[e], after[e]),
           NEW p \in Plan, PlanOK(p, before)
    PROVE  PlanOK(p, after)
  <1> SUFFICES ASSUME p.whole, NEW r \in Row
               PROVE  Named(r, p.of.revision[r], p.bound[r], after)
    BY DEF PlanOK
  <1>1. p.bound[r] \in Generation \union {NoGeneration}
    BY DEF Plan
  <1>2. Named(r, p.of.revision[r], p.bound[r], before)
    BY DEF PlanOK
  <1> QED
    BY <1>1, <1>2, NamedLater

LEMMA PublishedLater ==
    ASSUME NEW before \in Atlases, NEW after \in Atlases,
           \A e \in Engine : Later(before[e], after[e]),
           NEW rows \in [Row -> Publication], PublishedOK(rows, before)
    PROVE  PublishedOK(rows, after)
  <1> SUFFICES ASSUME NEW r \in Row
               PROVE  Named(r, rows[r].revision, rows[r].generation, after)
    BY DEF PublishedOK
  <1>1. rows[r].generation \in Generation \union {NoGeneration}
    BY DEF Publication
  <1>2. Named(r, rows[r].revision, rows[r].generation, before)
    BY DEF PublishedOK
  <1> QED
    BY <1>1, <1>2, NamedLater

LEMMA PagesGrown ==
    ASSUME NEW before \in Atlases, NEW after \in Atlases, NEW g \in Backend,
           \A e \in Engine : Grown(before[e], after[e]), PagesOK(before, g)
    PROVE  PagesOK(after, g)
  <1> SUFFICES ASSUME NEW e \in Engine PROVE PageOK(after[e], g.image[e])
    BY DEF PagesOK
  <1>1. PageOK(before[e], g.image[e]) /\ after[e] \in Atlas
    BY DEF PagesOK, Atlases
  <1>2. CASE after[e] = before[e]
    BY <1>1, <1>2
  <1>3. CASE after[e].dirty /\ after[e].glyphs # {}
    BY <1>3 DEF PageOK
  <1> QED
    BY <1>2, <1>3 DEF Grown

----------------------------------------------------------------------------
(* What preparing a frame makes. *)

LEMMA CurrentGlyphs ==
    ASSUME FramesOK, NEW r \in Row, Current(r)
    PROVE  <<r, revision[r]>> \in atlas[EngineOf[r]].glyphs
  <1> DEFINE a == atlas[EngineOf[r]]
  <1>1. a \in Atlas
    BY Texts DEF FramesOK, Shape, Atlases
  <1>2. a.generation # NoGeneration
    BY <1>1 DEF Atlas, Generation, NoGeneration
  <1>3. published[r].revision = revision[r] /\ published[r].generation = a.generation
    BY DEF Current
  <1>4. Named(r, published[r].revision, published[r].generation, atlas)
    BY DEF FramesOK, PublishedOK
  <1> QED
    BY <1>2, <1>3, <1>4 DEF Named

LEMMA AtlasShape ==
    ASSUME FramesOK
    PROVE  atlas \in Atlases /\ atlas[Session] \in Atlas /\ atlas[Editor] \in Atlas
  <1>1. atlas \in Atlases
    BY DEF FramesOK, Shape
  <1> QED
    BY <1>1, Texts DEF Atlases

LEMMA LabelsPrepared ==
    ASSUME FramesOK, NEW labels \in PreparedLabels
    PROVE  /\ labels \in Atlas /\ Grown(atlas[Session], labels)
           /\ \A r \in RowsOf(Session) : <<r, revision[r]>> \in labels.glyphs
  <1> DEFINE rows == RowsOf(Session)
             reused == {r \in rows : Current(r)}
             before == atlas[Session]
  <1>1. PICK a \in Place(before, GlyphsAt(rows \ reused), {}) :
            labels \in Settle(before, a, reused, rows)
    BY DEF PreparedLabels
  <1>2. /\ rows \subseteq Row /\ \A r \in rows : EngineOf[r] = Session
        /\ before \in Atlas
    BY RowsShown, Texts, AtlasShape DEF FramesOK, RowsOf
  <1>3. /\ GlyphsAt(rows \ reused) \subseteq Glyph /\ GlyphsAt(rows) \subseteq Glyph
        /\ \A r \in rows \ reused : <<r, revision[r]>> \in GlyphsAt(rows \ reused)
        /\ \A r \in rows : <<r, revision[r]>> \in GlyphsAt(rows)
    BY <1>2, GlyphsAtRows DEF FramesOK
  <1>4. a \in Atlas /\ Grown(before, a) /\ GlyphsAt(rows \ reused) \subseteq a.glyphs
    BY <1>1, <1>2, <1>3, Placed
  <1>5. ASSUME NEW r \in reused PROVE <<r, revision[r]>> \in before.glyphs
    BY <1>2, CurrentGlyphs
  <1> HIDE DEF rows, reused, before
  <1>6. CASE reused # {} /\ a.generation # before.generation
    <2>1. labels \in Place(a, GlyphsAt(rows), GlyphsAt(rows))
      BY <1>1, <1>6 DEF Settle
    <2>2. labels \in Atlas /\ Grown(a, labels) /\ GlyphsAt(rows) \subseteq labels.glyphs
      BY <1>3, <1>4, <2>1, Placed
    <2>3. Grown(before, labels)
      BY <1>2, <1>4, <2>2, GrownAgain
    <2> QED
      BY <1>3, <2>2, <2>3 DEF rows, before
  <1>7. CASE ~(reused # {} /\ a.generation # before.generation)
    <2>1. labels = a
      BY <1>1, <1>7 DEF Settle
    <2>2. ASSUME NEW r \in rows PROVE <<r, revision[r]>> \in a.glyphs
      <3>1. CASE r \in reused
        BY <1>4, <1>5, <1>7, <3>1 DEF Grown, Later
      <3>2. CASE r \notin reused
        BY <1>3, <1>4, <3>2
      <3> QED
        BY <3>1, <3>2
    <2> QED
      BY <1>4, <2>1, <2>2 DEF rows, before
  <1> QED
    BY <1>6, <1>7

LEMMA RowsPrepared ==
    ASSUME FramesOK, NEW p \in PreparedRows
    PROVE  /\ p.atlas \in Atlas /\ Grown(atlas[Editor], p.atlas)
           /\ \A r \in RowsOf(Editor) :
                 /\ p.bound[r] \in Generation /\ p.bound[r] <= p.atlas.generation
                 /\ p.bound[r] = p.atlas.generation => <<r, revision[r]>> \in p.atlas.glyphs
  <1> DEFINE rows == RowsOf(Editor)
             reused == {r \in rows : Current(r)}
             before == atlas[Editor]
  <1>1. PICK a \in Place(before, GlyphsAt(rows \ reused), GlyphsAt(rows \ reused)) :
            \E g \in RowGenerations(a, rows, reused) : p \in Refresh(a, rows, g)
    BY DEF PreparedRows
  <1>2. PICK g \in RowGenerations(a, rows, reused) : p \in Refresh(a, rows, g)
    BY <1>1
  <1> DEFINE stale == {r \in rows : g[r] # a.generation}
  <1>3. PICK b \in Place(a, GlyphsAt(stale), GlyphsAt(rows)) :
            p = [atlas |-> b, bound |-> [r \in rows |-> IF r \in stale THEN b.generation ELSE g[r]]]
    BY <1>2 DEF Refresh
  <1>4. /\ rows \subseteq Row /\ \A r \in rows : EngineOf[r] = Editor
        /\ before \in Atlas
    BY RowsShown, Texts, AtlasShape DEF FramesOK, RowsOf
  <1>5. /\ GlyphsAt(rows \ reused) \subseteq Glyph /\ GlyphsAt(stale) \subseteq Glyph
        /\ \A r \in rows \ reused : <<r, revision[r]>> \in GlyphsAt(rows \ reused)
        /\ \A r \in stale : <<r, revision[r]>> \in GlyphsAt(stale)
    BY <1>4, GlyphsAtRows DEF FramesOK
  <1>6. a \in Atlas /\ Grown(before, a) /\ GlyphsAt(rows \ reused) \subseteq a.glyphs
    BY <1>1, <1>4, <1>5, Placed
  <1>7. b \in Atlas /\ Grown(a, b) /\ GlyphsAt(stale) \subseteq b.glyphs
    BY <1>3, <1>5, <1>6, Placed
  <1>8. Grown(before, b)
    BY <1>4, <1>6, <1>7, GrownAgain
  <1>9. ASSUME NEW r \in reused PROVE <<r, revision[r]>> \in before.glyphs
    BY <1>4, CurrentGlyphs
  <1>10. /\ \A r \in rows : g[r] \in {before.generation, a.generation}
         /\ \A r \in reused : g[r] = before.generation
    BY <1>2 DEF RowGenerations
  <1>11. /\ p.atlas = b
         /\ \A r \in rows : p.bound[r] = IF r \in stale THEN b.generation ELSE a.generation
    BY <1>3
  <1> HIDE DEF rows, reused, before
  <1>12. /\ a.generation \in Generation /\ b.generation \in Generation
         /\ a.generation <= b.generation /\ b.generation \in Nat
    BY <1>6, <1>7 DEF Atlas, Grown, Later, Generation
  <1>13. ASSUME NEW r \in rows
         PROVE  /\ p.bound[r] \in Generation /\ p.bound[r] <= p.atlas.generation
                /\ p.bound[r] = p.atlas.generation => <<r, revision[r]>> \in p.atlas.glyphs
    <2>1. CASE r \in stale
      BY <1>5, <1>7, <1>11, <1>12, <2>1
    <2>2. CASE r \notin stale
      <3>1. p.bound[r] = a.generation /\ g[r] = a.generation
        BY <1>11, <2>2
      <3>2. <<r, revision[r]>> \in a.glyphs
        <4>1. CASE r \in reused
          BY <1>6, <1>9, <1>10, <3>1, <4>1 DEF Grown, Later
        <4>2. CASE r \notin reused
          BY <1>5, <1>6, <4>2
        <4> QED
          BY <4>1, <4>2
      <3>3. b.generation = a.generation => <<r, revision[r]>> \in b.glyphs
        BY <1>7, <3>2 DEF Grown, Later
      <3> QED
        BY <1>11, <1>12, <3>1, <3>3
    <2> QED
      BY <2>1, <2>2
  <1> QED
    BY <1>7, <1>8, <1>11, <1>13 DEF rows, before

LEMMA AskedShape ==
    ASSUME FramesOK
    PROVE  /\ Asked \in Inputs /\ Asked.scene = scene
           /\ \A r \in Row : Asked.revision[r] = IF r \in Shows[scene] THEN revision[r] ELSE 0
  <1> DEFINE texts == [r \in Row |-> IF r \in Shows[scene] THEN revision[r] ELSE 0]
  <1>1. texts \in [Row -> Nat] /\ scene \in Scene
    BY DEF FramesOK, Shape
  <1>2. Asked = [scene |-> scene, revision |-> texts]
    BY DEF Asked
  <1>3. \A r \in Row : texts[r] = IF r \in Shows[scene] THEN revision[r] ELSE 0
    OBVIOUS
  <1> HIDE DEF texts
  <1> QED
    BY <1>1, <1>2, <1>3 DEF Inputs

(* A plan that was built is about what is asked, and names glyphs. *)
LEMMA BuiltOK ==
    ASSUME FramesOK, NEW built \in Built
    PROVE  /\ built.atlas \in Atlases /\ \A e \in Engine : Grown(atlas[e], built.atlas[e])
           /\ built.plan \in Plan /\ built.plan.whole /\ built.plan.of = Asked
           /\ PlanOK(built.plan, built.atlas)
  <1>1. PICK labels \in PreparedLabels, texts \in PreparedRows :
          built = [atlas |-> [e \in Engine |-> IF e = Session THEN labels ELSE texts.atlas],
                   plan |-> [of |-> Asked, whole |-> TRUE,
                             bound |-> [r \in Row |-> IF r \in RowsOf(Session) THEN labels.generation
                                                      ELSE IF r \in RowsOf(Editor) THEN texts.bound[r]
                                                      ELSE NoGeneration]]]
    BY DEF Built
  <1> DEFINE held == [e \in Engine |-> IF e = Session THEN labels ELSE texts.atlas]
             bound == [r \in Row |-> IF r \in RowsOf(Session) THEN labels.generation
                                     ELSE IF r \in RowsOf(Editor) THEN texts.bound[r]
                                     ELSE NoGeneration]
  <1>2. /\ built.atlas = held /\ built.plan = [of |-> Asked, whole |-> TRUE, bound |-> bound]
    BY <1>1
  <1>3. /\ labels \in Atlas /\ Grown(atlas[Session], labels)
        /\ \A r \in RowsOf(Session) : <<r, revision[r]>> \in labels.glyphs
    BY LabelsPrepared
  <1>4. /\ texts.atlas \in Atlas /\ Grown(atlas[Editor], texts.atlas)
        /\ \A r \in RowsOf(Editor) :
              /\ texts.bound[r] \in Generation /\ texts.bound[r] <= texts.atlas.generation
              /\ texts.bound[r] = texts.atlas.generation => <<r, revision[r]>> \in texts.atlas.glyphs
    BY RowsPrepared
  <1>5. held \in Atlases /\ held[Session] = labels /\ held[Editor] = texts.atlas
    BY <1>3, <1>4, Texts DEF Atlases
  <1>6. \A e \in Engine : Grown(atlas[e], held[e])
    BY <1>3, <1>4, <1>5 DEF Engine
  <1>7. labels.generation \in Generation
    BY <1>3 DEF Atlas
  <1>8. bound \in [Row -> Generation \union {NoGeneration}]
    BY <1>4, <1>7
  <1>9. built.plan \in Plan
    BY <1>2, <1>8, AskedShape DEF Plan
  <1>14. built.plan.whole /\ built.plan.of = Asked /\ built.plan.bound = bound
    BY <1>2
  <1>10. \A r \in Row : bound[r] = IF r \in RowsOf(Session) THEN labels.generation
                                    ELSE IF r \in RowsOf(Editor) THEN texts.bound[r]
                                    ELSE NoGeneration
    OBVIOUS
  <1> HIDE DEF held, bound
  <1>11. ASSUME NEW r \in Row
         PROVE  /\ bound[r] # NoGeneration <=> r \in Shows[scene]
                /\ Named(r, Asked.revision[r], bound[r], held)
    <2>1. EngineOf[r] = Session \/ EngineOf[r] = Editor
      BY Texts DEF Engine
    <2>2. /\ r \in RowsOf(Session) <=> r \in Shows[scene] /\ EngineOf[r] = Session
          /\ r \in RowsOf(Editor) <=> r \in Shows[scene] /\ EngineOf[r] = Editor
      BY RowsShown DEF FramesOK
    <2>3. CASE r \in RowsOf(Session)
      <3>1. bound[r] = labels.generation /\ EngineOf[r] = Session /\ r \in Shows[scene]
        BY <1>10, <2>2, <2>3
      <3>2. Asked.revision[r] = revision[r]
        BY <3>1, AskedShape
      <3>3. labels.generation # NoGeneration /\ labels.generation <= labels.generation
        BY <1>7 DEF Generation, NoGeneration
      <3> QED
        BY <1>3, <1>5, <2>3, <3>1, <3>2, <3>3 DEF Named
    <2>4. CASE r \in RowsOf(Editor)
      <3>1. bound[r] = texts.bound[r] /\ EngineOf[r] = Editor /\ r \in Shows[scene]
        BY <1>10, <2>2, <2>4, Texts
      <3>2. Asked.revision[r] = revision[r]
        BY <3>1, AskedShape
      <3>3. texts.bound[r] # NoGeneration
        <4>1. texts.bound[r] \in Generation
          BY <1>4, <2>4
        <4> QED
          BY <4>1 DEF Generation, NoGeneration
      <3> QED
        BY <1>4, <1>5, <2>4, <3>1, <3>2, <3>3 DEF Named
    <2>5. CASE r \notin RowsOf(Session) /\ r \notin RowsOf(Editor)
      BY <1>10, <2>1, <2>2, <2>5 DEF Named
    <2> QED
      BY <2>3, <2>4, <2>5
  <1>12. ASSUME NEW r \in Row
         PROVE  IF r \in Shows[scene] THEN Asked.revision[r] \in 1..Revisions[r]
                                       ELSE Asked.revision[r] = 0
    BY AskedShape DEF FramesOK, TextOK
  <1>13. PlanOK(built.plan, held)
    BY <1>14, <1>11, <1>12, AskedShape DEF PlanOK
  <1> QED
    BY <1>2, <1>5, <1>6, <1>9, <1>13, <1>14

(* What the record of publications says after a plan was built. *)
LEMMA Published ==
    ASSUME FramesOK, NEW held \in Atlases, \A e \in Engine : Later(atlas[e], held[e]),
           NEW p \in Plan, p.whole, PlanOK(p, held), Publish(p)
    PROVE  published' \in [Row -> Publication] /\ PublishedOK(published', held)
  <1>1. published \in [Row -> Publication] /\ atlas \in Atlases
    BY AtlasShape DEF FramesOK, Shape
  <1>2. PublishedOK(published, held)
    BY <1>1, PublishedLater DEF FramesOK
  <1>3. published' = [r \in Row |-> IF p.bound[r] # NoGeneration
                                    THEN [revision |-> p.of.revision[r], generation |-> p.bound[r]]
                                    ELSE published[r]]
    BY DEF Publish
  <1>4. ASSUME NEW r \in Row
        PROVE  /\ published'[r] \in Publication
               /\ Named(r, published'[r].revision, published'[r].generation, held)
    <2>1. p.of.revision[r] \in Nat /\ p.bound[r] \in Generation \union {NoGeneration}
      BY DEF Plan, Inputs
    <2>2. CASE p.bound[r] # NoGeneration
      <3>1. published'[r] = [revision |-> p.of.revision[r], generation |-> p.bound[r]]
        BY <1>3, <2>2
      <3>2. Named(r, p.of.revision[r], p.bound[r], held)
        BY DEF PlanOK
      <3>3. published'[r] \in Publication
        BY <2>1, <3>1 DEF Publication
      <3>4. published'[r].revision = p.of.revision[r] /\ published'[r].generation = p.bound[r]
        BY <3>1
      <3> QED
        BY <3>2, <3>3, <3>4
    <2>3. CASE p.bound[r] = NoGeneration
      <3>1. published'[r] = published[r]
        BY <1>3, <2>3
      <3> QED
        BY <1>1, <1>2, <3>1 DEF PublishedOK
    <2> QED
      BY <2>2, <2>3
  <1>5. published' \in [Row -> Publication]
    BY <1>3, <1>4
  <1> QED
    BY <1>4, <1>5 DEF PublishedOK

----------------------------------------------------------------------------
(* What executing a plan does to the atlases and the backend. *)

LEMMA DirtySet ==
    ASSUME NEW a \in Atlas, NEW d \in BOOLEAN, NEW b, b = [a EXCEPT !.dirty = d]
    PROVE  /\ b \in Atlas /\ b.generation = a.generation /\ b.glyphs = a.glyphs
           /\ b.dirty <=> d
  <1>1. b = [generation |-> a.generation, glyphs |-> a.glyphs, dirty |-> d]
    BY DEF Atlas
  <1>2. a.generation \in Generation /\ a.glyphs \in SUBSET Glyph
    BY DEF Atlas
  <1>3. b.generation = a.generation /\ b.glyphs = a.glyphs /\ b.dirty = d
    BY <1>1
  <1>4. b \in Atlas
    BY <1>1, <1>2 DEF Atlas
  <1> QED
    BY <1>3, <1>4

LEMMA Uploaded ==
    ASSUME gpu \in Backend, NEW held \in Atlases, PagesOK(held, gpu), NEW plan \in Plan,
           NEW u \in Uploads(plan, held)
    PROVE  /\ u.atlas \in Atlases /\ \A e \in Engine : Later(held[e], u.atlas[e])
           /\ u.gpu \in Backend /\ PagesOK(u.atlas, u.gpu)
           /\ u.ok => \A e \in EnginesOf(plan) \intersect Engine :
                 LET i == u.gpu.image[e]
                 IN  \/ i.generation = NoGeneration
                     \/ i.generation = held[e].generation /\ i.glyphs = held[e].glyphs
  <1> DEFINE send == {e \in EnginesOf(plan) : held[e].glyphs # {} /\ (~gpu.up \/ held[e].dirty)}
  <1>1. PICK sent \in SUBSET send :
          u = [ok |-> sent = send,
               atlas |-> [e \in Engine |-> Acknowledged(held[e], e \in sent)],
               gpu |-> [up |-> TRUE,
                        image |-> [e \in Engine |->
                            IF e \in sent THEN [generation |-> held[e].generation,
                                                glyphs |-> held[e].glyphs]
                            ELSE gpu.image[e]]]]
    BY DEF Uploads
  <1> DEFINE after == [e \in Engine |-> Acknowledged(held[e], e \in sent)]
             image == [e \in Engine |-> IF e \in sent THEN [generation |-> held[e].generation,
                                                            glyphs |-> held[e].glyphs]
                                        ELSE gpu.image[e]]
  <1>2. u.ok = (sent = send) /\ u.atlas = after /\ u.gpu = [up |-> TRUE, image |-> image]
    BY <1>1
  <1>3. \A e \in Engine : held[e] \in Atlas /\ gpu.image[e] \in Image
    BY DEF Atlases, Backend
  <1>4. ASSUME NEW e \in Engine
        PROVE  /\ after[e] \in Atlas /\ after[e].generation = held[e].generation
               /\ after[e].glyphs = held[e].glyphs
               /\ after[e].dirty <=> held[e].dirty /\ e \notin sent
    <2> DEFINE d == held[e].dirty /\ ~(e \in sent)
    <2>1. after[e] = [held[e] EXCEPT !.dirty = d]
      <3>1. after[e] = Acknowledged(held[e], e \in sent)
        OBVIOUS
      <3> HIDE DEF after
      <3> QED
        BY <3>1 DEF Acknowledged
    <2>2. d \in BOOLEAN
      OBVIOUS
    <2>3. d <=> held[e].dirty /\ e \notin sent
      OBVIOUS
    <2> HIDE DEF after, d
    <2>4. /\ after[e] \in Atlas /\ after[e].generation = held[e].generation
          /\ after[e].glyphs = held[e].glyphs /\ (after[e].dirty <=> d)
      <3>1. held[e] \in Atlas
        BY <1>3
      <3> QED
        BY <3>1, <2>1, <2>2, DirtySet
    <2> QED
      BY <2>3, <2>4
  <1>5. ASSUME NEW e \in Engine
        PROVE  /\ image[e] \in Image
               /\ e \in sent => image[e].generation = held[e].generation /\ image[e].glyphs = held[e].glyphs
               /\ e \notin sent => image[e] = gpu.image[e]
    BY <1>3 DEF Atlas, Image
  <1>6. after \in Atlases /\ image \in [Engine -> Image]
    <2>1. \A e \in Engine : after[e] \in Atlas /\ image[e] \in Image
      BY <1>4, <1>5
    <2> QED
      BY <2>1 DEF Atlases
  <1> HIDE DEF after, image, send
  <1>7. u.gpu \in Backend /\ u.gpu.image = image
    BY <1>2, <1>6 DEF Backend
  <1>8. ASSUME NEW e \in Engine PROVE Later(held[e], after[e]) /\ PageOK(after[e], image[e])
    <2>1. held[e].generation <= after[e].generation
      <3>1. held[e].generation \in Generation /\ after[e].generation = held[e].generation
        BY <1>3, <1>4 DEF Atlas
      <3> QED
        BY <3>1, SameGeneration
    <2>2. PageOK(held[e], gpu.image[e])
      BY DEF PagesOK
    <2>3. PageOK(after[e], image[e])
      BY <1>4, <1>5, <2>2 DEF PageOK
    <2> QED
      BY <1>4, <2>1, <2>3 DEF Later
  <1>9. ASSUME u.ok, NEW e \in EnginesOf(plan) \intersect Engine
        PROVE  \/ image[e].generation = NoGeneration
               \/ image[e].generation = held[e].generation /\ image[e].glyphs = held[e].glyphs
    <2>1. CASE e \in sent
      BY <1>5, <2>1
    <2>2. CASE e \notin sent
      <3>1. held[e].glyphs = {} \/ ~held[e].dirty
        BY <1>2, <1>9, <2>2 DEF send
      <3>2. PageOK(held[e], gpu.image[e])
        BY DEF PagesOK
      <3>3. ~held[e].dirty
        BY <3>1, <3>2 DEF PageOK
      <3> QED
        BY <1>5, <2>2, <3>2, <3>3 DEF PageOK
    <2> QED
      BY <2>1, <2>2
  <1> QED
    BY <1>2, <1>6, <1>7, <1>8, <1>9 DEF PagesOK

LEMMA ExecutionIs ==
    ASSUME NEW plan, NEW u, NEW drew, NEW done, done = Execution(plan, u, drew)
    PROVE  /\ done.atlas = u.atlas /\ done.gpu = u.gpu
           /\ done.ok => u.ok /\ Undrawable(plan, u.gpu) = {}
           /\ done.ok \in BOOLEAN /\ done.trouble \in Troubles
  <1> DEFINE missing == Undrawable(plan, u.gpu)
             ok == u.ok /\ missing = {} /\ drew
             reason == IF ok THEN "none"
                         ELSE IF u.ok /\ missing # {} THEN Reason(plan, u.atlas, missing)
                         ELSE "backend"
  <1>1. done = [ok |-> ok, atlas |-> u.atlas, gpu |-> u.gpu, trouble |-> reason]
    BY DEF Execution
  <1>2. ok \in BOOLEAN /\ (ok => u.ok /\ missing = {})
    OBVIOUS
  <1>3. reason \in Troubles
    <2>1. Reason(plan, u.atlas, missing) \in Troubles
      BY DEF Reason, Troubles
    <2>2. "none" \in Troubles /\ "backend" \in Troubles
      BY DEF Troubles
    <2> QED
      BY <2>1, <2>2
  <1> HIDE DEF ok, reason
  <1>4. done.ok = ok /\ done.atlas = u.atlas /\ done.gpu = u.gpu /\ done.trouble = reason
    BY <1>1
  <1> QED
    BY <1>2, <1>3, <1>4

LEMMA DrawnIsWhole ==
    ASSUME NEW held \in Atlases, NEW plan \in Plan, plan.whole, PlanOK(plan, held),
           NEW g \in Backend, Undrawable(plan, g) = {},
           \A e \in EnginesOf(plan) \intersect Engine :
               \/ g.image[e].generation = NoGeneration
               \/ g.image[e].generation = held[e].generation /\ g.image[e].glyphs = held[e].glyphs
    PROVE  Drawn(plan, g) = GlyphsOf(plan.of)
  <1>1. ASSUME NEW x \in Drawn(plan, g) PROVE x \in GlyphsOf(plan.of)
    <2>1. PICK r \in Bound(plan) : x = <<r, plan.of.revision[r]>>
      BY DEF Drawn
    <2>2. r \in Row /\ plan.bound[r] # NoGeneration
      BY DEF Bound
    <2>3. plan.of.revision[r] \in 1..Revisions[r]
      BY <2>2 DEF PlanOK
    <2>4. x \in Glyph
      BY <2>1, <2>2, <2>3, GlyphIs
    <2> QED
      BY <2>1, <2>2, <2>4 DEF GlyphsOf
  <1>2. ASSUME NEW x \in GlyphsOf(plan.of) PROVE x \in Drawn(plan, g)
    <2>1. PICK r \in Row : x = <<r, plan.of.revision[r]>> /\ x \in Glyph
      BY DEF GlyphsOf
    <2>2. plan.of.revision[r] \in 1..Revisions[r]
      BY <2>1, GlyphIs
    <2>3. plan.of.revision[r] # 0
      BY <2>2, Texts
    <2>4. plan.bound[r] # NoGeneration /\ Named(r, plan.of.revision[r], plan.bound[r], held)
      BY <2>3 DEF PlanOK
    <2>5. r \in Bound(plan)
      BY <2>4 DEF Bound
    <2> DEFINE e == EngineOf[r]
    <2>6. e \in Engine /\ e \in EnginesOf(plan)
      BY <2>4, Texts DEF EnginesOf
    <2>7. g.image[e].generation = plan.bound[r]
      BY <2>5 DEF Undrawable
    <2>8. g.image[e].generation = held[e].generation /\ g.image[e].glyphs = held[e].glyphs
      BY <2>4, <2>6, <2>7
    <2>9. x \in g.image[e].glyphs
      BY <2>1, <2>4, <2>7, <2>8 DEF Named
    <2> QED
      BY <2>1, <2>5, <2>6, <2>9 DEF Drawn
  <1> QED
    BY <1>1, <1>2

LEMMA Executed ==
    ASSUME gpu \in Backend, NEW held \in Atlases, PagesOK(held, gpu), NEW plan \in Plan,
           PlanOK(plan, held), NEW done \in Executions(plan, held)
    PROVE  /\ done.atlas \in Atlases /\ \A e \in Engine : Later(held[e], done.atlas[e])
           /\ done.gpu \in Backend /\ PagesOK(done.atlas, done.gpu)
           /\ done.ok \in BOOLEAN /\ done.trouble \in Troubles /\ Drawn(plan, done.gpu) \subseteq Glyph
           /\ done.ok /\ plan.whole => Drawn(plan, done.gpu) = GlyphsOf(plan.of)
  <1>1. PICK u \in Uploads(plan, held) :
          done = Execution(plan, u, TRUE) \/ done = Execution(plan, u, FALSE)
    BY DEF Executions
  <1>2. /\ done.atlas = u.atlas /\ done.gpu = u.gpu
        /\ done.ok => u.ok /\ Undrawable(plan, u.gpu) = {}
        /\ done.ok \in BOOLEAN /\ done.trouble \in Troubles
    BY <1>1, ExecutionIs
  <1>4. /\ u.atlas \in Atlases /\ \A e \in Engine : Later(held[e], u.atlas[e])
        /\ u.gpu \in Backend /\ PagesOK(u.atlas, u.gpu)
        /\ u.ok => \A e \in EnginesOf(plan) \intersect Engine :
              LET i == u.gpu.image[e]
              IN  \/ i.generation = NoGeneration
                  \/ i.generation = held[e].generation /\ i.glyphs = held[e].glyphs
    BY Uploaded
  <1>5. Drawn(plan, u.gpu) \subseteq Glyph
    <2>1. \A e \in Engine : u.gpu.image[e].glyphs \subseteq Glyph
      BY <1>4 DEF Backend, Image
    <2> QED
      BY <2>1 DEF Drawn
  <1>6. ASSUME done.ok, plan.whole PROVE Drawn(plan, u.gpu) = GlyphsOf(plan.of)
    BY <1>2, <1>4, <1>6, DrawnIsWhole
  <1> QED
    BY <1>2, <1>4, <1>5, <1>6

----------------------------------------------------------------------------
(* The invariant holds at first, and every step keeps it. *)

LEMMA NothingYet ==
    ASSUME NEW s \in Scene
    PROVE  /\ NoPlan \in Plan /\ ~NoPlan.whole /\ NoPlan.of \in Inputs
           /\ NoSubmission \in Submission /\ NoSubmission.plan = NoPlan
           /\ NoSubmission.asked = NoPlan.of
           /\ GlyphsOf(NoPlan.of) = {}
  <1> DEFINE some == CHOOSE x \in Scene : TRUE
             none == [r \in Row |-> 0]
             inputs == [scene |-> some, revision |-> none]
             bound == [r \in Row |-> NoGeneration]
  <1>1. some \in Scene
    OBVIOUS
  <1>2. none \in [Row -> Nat] /\ \A r \in Row : none[r] = 0
    OBVIOUS
  <1>3. bound \in [Row -> Generation \union {NoGeneration}]
    OBVIOUS
  <1>4. NoPlan = [of |-> inputs, bound |-> bound, whole |-> FALSE]
    BY DEF NoPlan
  <1> HIDE DEF some, none, bound
  <1>5. inputs \in Inputs /\ inputs.revision = none
    BY <1>1, <1>2 DEF Inputs
  <1> HIDE DEF inputs
  <1>6. NoPlan \in Plan /\ ~NoPlan.whole /\ NoPlan.of = inputs
    BY <1>3, <1>4, <1>5 DEF Plan
  <1>7. /\ NoSubmission \in Submission /\ NoSubmission.plan = NoPlan
        /\ NoSubmission.asked = NoPlan.of
    BY <1>5, <1>6 DEF NoSubmission, Submission
  <1>8. GlyphsOf(inputs) = {}
    <2> SUFFICES ASSUME NEW x \in GlyphsOf(inputs) PROVE FALSE
      OBVIOUS
    <2>1. PICK r \in Row : x = <<r, inputs.revision[r]>> /\ x \in Glyph
      BY DEF GlyphsOf
    <2>2. inputs.revision[r] \in 1..Revisions[r] /\ inputs.revision[r] = 0
      BY <1>2, <1>5, <2>1, GlyphIs
    <2> QED
      BY <2>2, Texts
  <1> QED
    BY <1>5, <1>6, <1>7, <1>8

LEMMA FramesOKInitially == FramesInit => FramesOK
  <1> SUFFICES ASSUME FramesInit PROVE FramesOK
    OBVIOUS
  <1>1. scene \in Scene
    BY DEF FramesInit
  <1>2. /\ NoPlan \in Plan /\ ~NoPlan.whole /\ NoPlan.of \in Inputs
        /\ NoSubmission \in Submission /\ NoSubmission.plan = NoPlan
        /\ GlyphsOf(NoPlan.of) = {}
    BY <1>1, NothingYet
  <1>3. /\ threaded \in BOOLEAN /\ revision = [r \in Row |-> 1]
        /\ frame = NoPlan /\ pending = NoSubmission /\ drawing = NoSubmission
        /\ trouble \in Troubles
    BY DEF FramesInit, Troubles
  <1>4. revision \in [Row -> Nat \ {0}] /\ TextOK
    BY <1>3, Texts DEF TextOK
  <1>5. atlas \in Atlases /\ \A e \in Engine : ~atlas[e].dirty /\ atlas[e].generation = 1
    <2> DEFINE a == [generation |-> 1, glyphs |-> {}, dirty |-> FALSE]
    <2>1. a \in Atlas /\ ~a.dirty /\ a.generation = 1
      BY FramesConstants DEF Atlas, Generation
    <2>2. atlas = [e \in Engine |-> a]
      BY DEF FramesInit
    <2> HIDE DEF a
    <2> QED
      BY <2>1, <2>2 DEF Atlases
  <1>6. published \in [Row -> Publication] /\ \A r \in Row : published[r].generation = NoGeneration
    <2> DEFINE a == [revision |-> 0, generation |-> NoGeneration]
    <2>1. a \in Publication /\ a.generation = NoGeneration
      BY DEF Publication
    <2>2. published = [r \in Row |-> a]
      BY DEF FramesInit
    <2> HIDE DEF a
    <2> QED
      BY <2>1, <2>2
  <1>7. gpu \in Backend /\ \A e \in Engine : gpu.image[e].generation = NoGeneration
    <2>1. NoImage \in Image /\ NoImage.generation = NoGeneration
      BY DEF NoImage, Image
    <2>2. gpu = [up |-> FALSE, image |-> [e \in Engine |-> NoImage]]
      BY DEF FramesInit, NoBackend
    <2> QED
      BY <2>1, <2>2 DEF Backend
  <1>8. kept \in KeptPlan /\ ~kept.valid /\ kept.plan = NoPlan
    <2> DEFINE g == [e \in Engine |-> NoGeneration]
    <2>1. g \in [Engine -> Generation \union {NoGeneration}]
      OBVIOUS
    <2>2. kept = [valid |-> FALSE, settled |-> FALSE, plan |-> NoPlan, generation |-> g]
      BY DEF FramesInit
    <2> HIDE DEF g
    <2> QED
      BY <1>2, <2>1, <2>2 DEF KeptPlan
  <1>9. shown \in Screen /\ shown.glyphs = GlyphsOf(shown.asked)
    <2>1. shown = [asked |-> NoPlan.of, glyphs |-> {}]
      BY DEF FramesInit
    <2> QED
      BY <1>2, <2>1 DEF Screen
  <1>10. Shape
    BY <1>1, <1>2, <1>3, <1>4, <1>5, <1>6, <1>7, <1>8, <1>9 DEF Shape
  <1>11. PagesOK(atlas, gpu) /\ PublishedOK(published, atlas)
    BY <1>5, <1>6, <1>7 DEF PagesOK, PageOK, PublishedOK, Named
  <1>12. /\ PlanOK(frame, atlas) /\ PlanOK(kept.plan, atlas)
         /\ PlanOK(pending.plan, atlas) /\ PlanOK(drawing.plan, atlas)
         /\ SubmissionOK(pending) /\ SubmissionOK(drawing)
    BY <1>2, <1>3, <1>8 DEF PlanOK, SubmissionOK
  <1> QED
    BY <1>4, <1>8, <1>9, <1>10, <1>11, <1>12 DEF FramesOK, SealedFramesShowWhatWasAsked

(* What plans and publications say stands when the atlases move on. *)
LEMMA RecordsStand ==
    ASSUME FramesOK, NEW held \in Atlases, \A e \in Engine : Later(atlas[e], held[e])
    PROVE  /\ PublishedOK(published, held)
           /\ PlanOK(frame, held) /\ PlanOK(kept.plan, held)
           /\ PlanOK(pending.plan, held) /\ PlanOK(drawing.plan, held)
  <1>1. /\ atlas \in Atlases /\ published \in [Row -> Publication]
        /\ frame \in Plan /\ kept.plan \in Plan /\ pending.plan \in Plan /\ drawing.plan \in Plan
    BY DEF FramesOK, Shape, KeptPlan, Submission
  <1>2. PublishedOK(published, held)
    BY <1>1, PublishedLater DEF FramesOK
  <1>3. PlanOK(frame, held)
    BY <1>1, PlanLater DEF FramesOK
  <1>4. PlanOK(kept.plan, held)
    BY <1>1, PlanLater DEF FramesOK
  <1>5. PlanOK(pending.plan, held)
    BY <1>1, PlanLater DEF FramesOK
  <1>6. PlanOK(drawing.plan, held)
    BY <1>1, PlanLater DEF FramesOK
  <1> QED
    BY <1>2, <1>3, <1>4, <1>5, <1>6

LEMMA ShownShape ==
    ASSUME FramesOK, NEW asked \in Inputs, NEW plan, NEW done, Drawn(plan, done.gpu) \subseteq Glyph,
           Show(asked, plan, done)
    PROVE  /\ shown' \in Screen /\ gpu' = done.gpu /\ atlas' = done.atlas
           /\ trouble' = done.trouble
           /\ \/ shown' = shown
              \/ done.ok /\ shown'.asked = asked /\ shown'.glyphs = Drawn(plan, done.gpu)
  <1>1. shown \in Screen
    BY DEF FramesOK, Shape
  <1>2. CASE done.ok
    <2>1. shown' = [asked |-> asked, glyphs |-> Drawn(plan, done.gpu)]
      BY <1>2 DEF Show
    <2> QED
      BY <1>2, <2>1 DEF Screen, Show
  <1>3. CASE ~done.ok
    BY <1>1, <1>3 DEF Show
  <1> QED
    BY <1>2, <1>3

LEMMA EditTextKeepsOK == ASSUME FramesOK, EditText PROVE FramesOK'
  <1>1. PICK r \in Row : revision[r] < Revisions[r] /\ revision' = [revision EXCEPT ![r] = @ + 1]
    BY DEF EditText
  <1>2. UNCHANGED <<threaded, scene, atlas, published, frame, kept, pending, drawing, gpu, shown,
                    trouble>>
    BY DEF EditText
  <1>3. revision \in [Row -> Nat \ {0}] /\ TextOK
    BY DEF FramesOK, Shape
  <1>4. ASSUME NEW x \in Row
        PROVE  revision'[x] \in Nat \ {0} /\ revision'[x] \in 1..Revisions[x]
    <2>1. revision[x] \in Nat \ {0} /\ revision[x] \in 1..Revisions[x] /\ Revisions[x] \in Nat
      BY <1>3, Texts DEF TextOK
    <2>2. revision'[x] = IF x = r THEN revision[x] + 1 ELSE revision[x]
      BY <1>1, <1>3
    <2> QED
      BY <1>1, <2>1, <2>2
  <1>5. revision' \in [Row -> Nat \ {0}]
    BY <1>1, <1>3, <1>4
  <1>6. TextOK'
    BY <1>4 DEF TextOK
  <1> QED
    BY <1>2, <1>5, <1>6 DEF FramesOK, Shape, SealedFramesShowWhatWasAsked

LEMMA AttachListsKeepsOK == ASSUME FramesOK, AttachLists PROVE FramesOK'
  <1>1. /\ scene' \in Scene
        /\ UNCHANGED <<threaded, revision, atlas, published, frame, kept, pending, drawing, gpu,
                       shown, trouble>>
    BY DEF AttachLists
  <1> QED
    BY <1>1 DEF FramesOK, Shape, TextOK, SealedFramesShowWhatWasAsked

LEMMA LoseBackendKeepsOK == ASSUME FramesOK, LoseBackend PROVE FramesOK'
  <1>1. /\ gpu' = NoBackend
        /\ UNCHANGED <<threaded, revision, scene, atlas, published, frame, kept, pending, drawing,
                       shown, trouble>>
    BY DEF LoseBackend
  <1>2. gpu' \in Backend /\ \A e \in Engine : gpu'.image[e].generation = NoGeneration
    <2>1. NoImage \in Image /\ NoImage.generation = NoGeneration
      BY DEF NoImage, Image
    <2> QED
      BY <1>1, <2>1 DEF NoBackend, Backend
  <1>3. PagesOK(atlas', gpu')
    BY <1>1, <1>2 DEF FramesOK, PagesOK, PageOK
  <1> QED
    BY <1>1, <1>2, <1>3 DEF FramesOK, Shape, TextOK, SealedFramesShowWhatWasAsked

LEMMA ReuseInlineKeepsOK == ASSUME FramesOK, ReuseInline PROVE FramesOK'
  <1>1. PICK done \in Executions(frame, atlas) :
            Show(Asked, frame, done) /\ kept' = [kept EXCEPT !.valid = done.ok]
    BY DEF ReuseInline
  <1>2. /\ ~threaded /\ kept.valid
        /\ UNCHANGED <<threaded, revision, scene, published, frame, pending, drawing>>
    BY DEF ReuseInline, Reusable
  <1>3. /\ gpu \in Backend /\ atlas \in Atlases /\ PagesOK(atlas, gpu) /\ frame \in Plan
        /\ PlanOK(frame, atlas) /\ kept \in KeptPlan
    BY DEF FramesOK, Shape
  <1>4. /\ done.atlas \in Atlases /\ \A e \in Engine : Later(atlas[e], done.atlas[e])
        /\ done.gpu \in Backend /\ PagesOK(done.atlas, done.gpu)
        /\ done.ok \in BOOLEAN /\ done.trouble \in Troubles /\ Drawn(frame, done.gpu) \subseteq Glyph
    BY <1>3, Executed
  <1>5. /\ shown' \in Screen /\ gpu' = done.gpu /\ atlas' = done.atlas
        /\ trouble' = done.trouble
    BY <1>1, <1>4, AskedShape, ShownShape
  <1>6. kept' \in KeptPlan /\ kept'.plan = kept.plan
    BY <1>1, <1>3, <1>4 DEF KeptPlan
  <1>7. Shape' /\ TextOK'
    BY <1>2, <1>4, <1>5, <1>6 DEF FramesOK, Shape, TextOK
  <1>8. /\ PublishedOK(published, atlas') /\ PlanOK(frame, atlas') /\ PlanOK(kept.plan, atlas')
        /\ PlanOK(pending.plan, atlas') /\ PlanOK(drawing.plan, atlas')
    BY <1>4, <1>5, RecordsStand
  <1> QED
    BY <1>2, <1>4, <1>5, <1>6, <1>7, <1>8 DEF FramesOK, SealedFramesShowWhatWasAsked

LEMMA ReuseSealedKeepsOK == ASSUME FramesOK, ReuseSealed PROVE FramesOK'
  <1>1. /\ pending' = [asked |-> Asked, plan |-> kept.plan] /\ kept.plan.of = Asked
        /\ UNCHANGED <<threaded, revision, scene, atlas, published, frame, kept, drawing, gpu,
                       shown, trouble>>
    BY DEF ReuseSealed, Reusable
  <1>2. kept.plan \in Plan
    BY DEF FramesOK, Shape, KeptPlan
  <1>3. pending' \in Submission /\ pending'.plan = kept.plan /\ pending'.asked = Asked
    BY <1>1, <1>2, AskedShape DEF Submission
  <1> QED
    BY <1>1, <1>3 DEF FramesOK, Shape, TextOK, SubmissionOK, SealedFramesShowWhatWasAsked

LEMMA Remembered ==
    ASSUME NEW plan \in Plan, NEW held \in Atlases, Remember(plan, held)
    PROVE  kept' \in KeptPlan /\ kept'.plan = plan
  <1> DEFINE generations == GenerationsOf(plan, held)
             settled == kept.plan.of = plan.of /\ kept.generation = generations
  <1>1. generations \in [Engine -> Generation \union {NoGeneration}]
    <2>1. \A e \in Engine : held[e].generation \in Generation
      BY DEF Atlases, Atlas
    <2> QED
      BY <2>1 DEF GenerationsOf
  <1>2. settled \in BOOLEAN
    OBVIOUS
  <1>3. kept' = [valid |-> TRUE, plan |-> plan, generation |-> generations, settled |-> settled]
    BY DEF Remember
  <1> HIDE DEF generations, settled
  <1> QED
    BY <1>1, <1>2, <1>3 DEF KeptPlan

LEMMA BuildInlineKeepsOK == ASSUME FramesOK, BuildInline PROVE FramesOK'
  <1>1. PICK built \in Built : \E done \in Executions(built.plan, built.atlas) :
            /\ frame' = built.plan /\ Publish(built.plan)
            /\ Show(Asked, built.plan, done)
            /\ IF done.ok THEN Remember(built.plan, done.atlas)
                          ELSE kept' = [kept EXCEPT !.valid = FALSE]
    BY DEF BuildInline
  <1>2. PICK done \in Executions(built.plan, built.atlas) :
            /\ frame' = built.plan /\ Publish(built.plan)
            /\ Show(Asked, built.plan, done)
            /\ IF done.ok THEN Remember(built.plan, done.atlas)
                          ELSE kept' = [kept EXCEPT !.valid = FALSE]
    BY <1>1
  <1>3. ~threaded /\ UNCHANGED <<threaded, revision, scene, pending, drawing>>
    BY DEF BuildInline
  <1>4. /\ gpu \in Backend /\ atlas \in Atlases /\ PagesOK(atlas, gpu) /\ kept \in KeptPlan
    BY DEF FramesOK, Shape
  <1>5. /\ built.atlas \in Atlases /\ \A e \in Engine : Grown(atlas[e], built.atlas[e])
        /\ built.plan \in Plan /\ built.plan.whole /\ PlanOK(built.plan, built.atlas)
    BY BuiltOK
  <1>6. PagesOK(built.atlas, gpu)
    BY <1>4, <1>5, PagesGrown
  <1>7. /\ done.atlas \in Atlases /\ \A e \in Engine : Later(built.atlas[e], done.atlas[e])
        /\ done.gpu \in Backend /\ PagesOK(done.atlas, done.gpu)
        /\ done.ok \in BOOLEAN /\ done.trouble \in Troubles
        /\ Drawn(built.plan, done.gpu) \subseteq Glyph
    BY <1>4, <1>5, <1>6, Executed
  <1>8. /\ shown' \in Screen /\ gpu' = done.gpu /\ atlas' = done.atlas
        /\ trouble' = done.trouble
    BY <1>2, <1>7, AskedShape, ShownShape
  <1>9. \A e \in Engine : Later(atlas[e], built.atlas[e])
    BY <1>5 DEF Grown
  <1>10. \A e \in Engine : Later(atlas[e], done.atlas[e])
    BY <1>4, <1>5, <1>7, <1>9, LaterAgain
  <1>11. PlanOK(built.plan, done.atlas)
    BY <1>5, <1>7, PlanLater
  <1>12. published' \in [Row -> Publication] /\ PublishedOK(published', done.atlas)
    BY <1>2, <1>5, <1>7, <1>10, <1>11, Published
  <1>13. kept' \in KeptPlan /\ PlanOK(kept'.plan, done.atlas) /\ (kept'.valid => kept'.plan.whole)
    <2>1. CASE done.ok
      <3>1. kept' \in KeptPlan /\ kept'.plan = built.plan
        BY <1>2, <1>5, <1>7, <2>1, Remembered
      <3> QED
        BY <1>5, <1>11, <3>1
    <2>2. CASE ~done.ok
      <3>1. kept' \in KeptPlan /\ kept'.plan = kept.plan /\ ~kept'.valid
        BY <1>2, <1>4, <2>2 DEF KeptPlan
      <3>2. PlanOK(kept.plan, done.atlas)
        BY <1>7, <1>10, RecordsStand
      <3> QED
        BY <3>1, <3>2
    <2> QED
      BY <2>1, <2>2
  <1>14. PlanOK(pending.plan, done.atlas) /\ PlanOK(drawing.plan, done.atlas)
    BY <1>7, <1>10, RecordsStand
  <1>15. frame' = built.plan
    BY <1>2
  <1>16. Shape' /\ TextOK'
    BY <1>3, <1>5, <1>7, <1>8, <1>12, <1>13, <1>15 DEF FramesOK, Shape, TextOK
  <1> QED
    BY <1>3, <1>7, <1>8, <1>11, <1>12, <1>13, <1>14, <1>15, <1>16
    DEF FramesOK, SealedFramesShowWhatWasAsked

LEMMA BuildSealedKeepsOK == ASSUME FramesOK, BuildSealed PROVE FramesOK'
  <1>1. PICK built \in Built :
            /\ atlas' = built.atlas /\ Publish(built.plan)
            /\ Remember(built.plan, built.atlas)
            /\ pending' = [asked |-> Asked, plan |-> built.plan]
    BY DEF BuildSealed
  <1>2. frame' = NoPlan /\ UNCHANGED <<threaded, revision, scene, drawing, gpu, shown, trouble>>
    BY DEF BuildSealed
  <1>3. /\ gpu \in Backend /\ atlas \in Atlases /\ PagesOK(atlas, gpu) /\ scene \in Scene
    BY DEF FramesOK, Shape
  <1>4. /\ built.atlas \in Atlases /\ \A e \in Engine : Grown(atlas[e], built.atlas[e])
        /\ built.plan \in Plan /\ built.plan.whole /\ built.plan.of = Asked
        /\ PlanOK(built.plan, built.atlas)
    BY BuiltOK
  <1>5. PagesOK(built.atlas, gpu)
    BY <1>3, <1>4, PagesGrown
  <1>6. \A e \in Engine : Later(atlas[e], built.atlas[e])
    BY <1>4 DEF Grown
  <1>7. published' \in [Row -> Publication] /\ PublishedOK(published', built.atlas)
    BY <1>1, <1>4, <1>6, Published
  <1>8. kept' \in KeptPlan /\ kept'.plan = built.plan
    BY <1>1, <1>4, Remembered
  <1>9. pending' \in Submission /\ pending'.plan = built.plan /\ pending'.asked = Asked
    BY <1>1, <1>4, AskedShape DEF Submission
  <1>10. NoPlan \in Plan /\ ~NoPlan.whole
    BY <1>3, NothingYet
  <1>11. PlanOK(drawing.plan, built.atlas)
    BY <1>4, <1>6, RecordsStand
  <1>12. Shape' /\ TextOK'
    BY <1>1, <1>2, <1>4, <1>7, <1>8, <1>9, <1>10 DEF FramesOK, Shape, TextOK
  <1>13. PlanOK(frame', atlas') /\ PlanOK(pending'.plan, atlas') /\ PlanOK(kept'.plan, atlas')
    BY <1>1, <1>2, <1>4, <1>8, <1>9, <1>10 DEF PlanOK
  <1> QED
    BY <1>1, <1>2, <1>4, <1>5, <1>7, <1>8, <1>9, <1>11, <1>12, <1>13
    DEF FramesOK, SubmissionOK, SealedFramesShowWhatWasAsked

LEMMA BuildFailsKeepsOK == ASSUME FramesOK, BuildFails PROVE FramesOK'
  <1>1. PICK built \in Built : \/ atlas' = built.atlas /\ Publish(built.plan)
                              \/ UNCHANGED <<atlas, published>>
    BY DEF BuildFails
  <1>2. /\ frame' = NoPlan /\ trouble' = "build"
        /\ UNCHANGED <<threaded, revision, scene, kept, pending, drawing, gpu, shown>>
    BY DEF BuildFails
  <1>3. /\ gpu \in Backend /\ atlas \in Atlases /\ PagesOK(atlas, gpu) /\ scene \in Scene
    BY DEF FramesOK, Shape
  <1>4. NoPlan \in Plan /\ ~NoPlan.whole
    BY <1>3, NothingYet
  <1>5. PlanOK(frame', atlas')
    BY <1>2, <1>4 DEF PlanOK
  <1>6. CASE atlas' = built.atlas /\ Publish(built.plan)
    <2>1. /\ built.atlas \in Atlases /\ \A e \in Engine : Grown(atlas[e], built.atlas[e])
          /\ built.plan \in Plan /\ built.plan.whole /\ PlanOK(built.plan, built.atlas)
      BY BuiltOK
    <2>2. PagesOK(built.atlas, gpu)
      BY <1>3, <2>1, PagesGrown
    <2>3. \A e \in Engine : Later(atlas[e], built.atlas[e])
      BY <2>1 DEF Grown
    <2>4. published' \in [Row -> Publication] /\ PublishedOK(published', built.atlas)
      BY <1>6, <2>1, <2>3, Published
    <2>5. /\ PlanOK(kept.plan, built.atlas) /\ PlanOK(pending.plan, built.atlas)
          /\ PlanOK(drawing.plan, built.atlas)
      BY <2>1, <2>3, RecordsStand
    <2>6. Shape' /\ TextOK'
      BY <1>2, <1>4, <1>6, <2>1, <2>4 DEF FramesOK, Shape, TextOK, Troubles
    <2> QED
      BY <1>2, <1>5, <1>6, <2>2, <2>4, <2>5, <2>6 DEF FramesOK, SealedFramesShowWhatWasAsked
  <1>7. CASE UNCHANGED <<atlas, published>>
    BY <1>2, <1>4, <1>5, <1>7
    DEF FramesOK, Shape, TextOK, Troubles, SealedFramesShowWhatWasAsked
  <1> QED
    BY <1>1, <1>6, <1>7

LEMMA TakeSealedKeepsOK == ASSUME FramesOK, TakeSealed PROVE FramesOK'
  <1>1. /\ drawing' = pending /\ pending' = NoSubmission
        /\ UNCHANGED <<threaded, revision, scene, atlas, published, frame, kept, gpu, shown, trouble>>
    BY DEF TakeSealed
  <1>2. NoSubmission \in Submission /\ ~NoSubmission.plan.whole
    BY NothingYet DEF FramesOK, Shape
  <1>3. PlanOK(pending'.plan, atlas') /\ SubmissionOK(pending')
    BY <1>1, <1>2 DEF PlanOK, SubmissionOK
  <1> QED
    BY <1>1, <1>2, <1>3 DEF FramesOK, Shape, TextOK, SealedFramesShowWhatWasAsked

LEMMA ExecuteSealedKeepsOK == ASSUME FramesOK, ExecuteSealed PROVE FramesOK'
  <1>1. PICK done \in Executions(drawing.plan, atlas) : Show(drawing.asked, drawing.plan, done)
    BY DEF ExecuteSealed
  <1>2. /\ drawing' = NoSubmission /\ drawing.plan.whole
        /\ UNCHANGED <<threaded, revision, scene, published, frame, kept, pending>>
    BY DEF ExecuteSealed
  <1>3. /\ gpu \in Backend /\ atlas \in Atlases /\ PagesOK(atlas, gpu)
        /\ drawing.plan \in Plan /\ drawing.asked \in Inputs /\ PlanOK(drawing.plan, atlas)
        /\ scene \in Scene
    BY DEF FramesOK, Shape, Submission
  <1>4. /\ done.atlas \in Atlases /\ \A e \in Engine : Later(atlas[e], done.atlas[e])
        /\ done.gpu \in Backend /\ PagesOK(done.atlas, done.gpu)
        /\ done.trouble \in Troubles /\ Drawn(drawing.plan, done.gpu) \subseteq Glyph
        /\ done.ok => Drawn(drawing.plan, done.gpu) = GlyphsOf(drawing.plan.of)
    BY <1>2, <1>3, Executed
  <1>5. /\ shown' \in Screen /\ gpu' = done.gpu /\ atlas' = done.atlas
        /\ trouble' = done.trouble
        /\ \/ shown' = shown
           \/ /\ done.ok /\ shown'.asked = drawing.asked
              /\ shown'.glyphs = Drawn(drawing.plan, done.gpu)
    BY <1>1, <1>3, <1>4, ShownShape
  <1>6. drawing.plan.of = drawing.asked
    BY <1>2 DEF FramesOK, SubmissionOK
  <1>7. SealedFramesShowWhatWasAsked'
    BY <1>2, <1>4, <1>5, <1>6 DEF FramesOK, SealedFramesShowWhatWasAsked
  <1>8. NoSubmission \in Submission /\ ~NoSubmission.plan.whole
    BY <1>3, NothingYet
  <1>9. PlanOK(drawing'.plan, atlas') /\ SubmissionOK(drawing')
    BY <1>2, <1>8 DEF PlanOK, SubmissionOK
  <1>10. Shape' /\ TextOK'
    BY <1>2, <1>4, <1>5, <1>8 DEF FramesOK, Shape, TextOK
  <1>11. /\ PublishedOK(published, atlas') /\ PlanOK(frame, atlas') /\ PlanOK(kept.plan, atlas')
         /\ PlanOK(pending.plan, atlas')
    BY <1>4, <1>5, RecordsStand
  <1> QED
    BY <1>2, <1>4, <1>5, <1>7, <1>9, <1>10, <1>11 DEF FramesOK

LEMMA FramesOKIsKept == FramesOK /\ [FramesNext]_framesVars => FramesOK'
  <1> SUFFICES ASSUME FramesOK, [FramesNext]_framesVars PROVE FramesOK'
    OBVIOUS
  <1>1. CASE EditText \/ AttachLists \/ LoseBackend
    BY <1>1, EditTextKeepsOK, AttachListsKeepsOK, LoseBackendKeepsOK
  <1>2. CASE ReuseInline \/ ReuseSealed \/ BuildInline \/ BuildSealed \/ BuildFails
    BY <1>2, ReuseInlineKeepsOK, ReuseSealedKeepsOK, BuildInlineKeepsOK, BuildSealedKeepsOK,
       BuildFailsKeepsOK
  <1>3. CASE TakeSealed \/ ExecuteSealed
    BY <1>3, TakeSealedKeepsOK, ExecuteSealedKeepsOK
  <1>4. CASE UNCHANGED framesVars
    BY <1>4 DEF framesVars, FramesOK, Shape, TextOK, SealedFramesShowWhatWasAsked
  <1> QED
    BY <1>1, <1>2, <1>3, <1>4 DEF FramesNext

(* The invariant holds of every behavior of a session, its engines and its      *)
(* renderer (api.cpp, text_engine.cpp, ui_renderer.cpp).                       *)
THEOREM FramesAlwaysOK == FramesSpec => []FramesOK
  BY FramesOKInitially, FramesOKIsKept, PTL DEF FramesSpec

(* The state keeps its shape: generations stay within their bound, and plans,   *)
(* images and screens name rows and glyphs there are.                         *)
THEOREM FramesAlwaysTyped == FramesSpec => []FramesTypeOK
  <1>1. FramesOK => FramesTypeOK
    <2>1. Shape => FramesTypeOK
      BY DEF Shape, FramesTypeOK, Atlases, Atlas, Publication, KeptPlan, Submission, Backend, Screen,
             Troubles
    <2> QED
      BY <2>1 DEF FramesOK
  <1> QED
    BY <1>1, FramesAlwaysOK, PTL

(* What a sealed frame puts on the screen is what was asked for when it was     *)
(* submitted, every glyph of it (nkui_layout_session_render_frame,             *)
(* execute_render_submission).                                               *)
THEOREM SealedFramesAreWhole == FramesSpec => []SealedFramesShowWhatWasAsked
  <1>1. FramesOK => SealedFramesShowWhatWasAsked
    BY DEF FramesOK
  <1> QED
    BY <1>1, FramesAlwaysOK, PTL

(* A page that counts as clean is with the backend, through failed uploads and  *)
(* lost backends (uploadAtlases, acknowledge_atlas_upload).                     *)
THEOREM CleanPagesStayUploaded == FramesSpec => []CleanPagesAreUploaded
  <1>1. FramesOK => CleanPagesAreUploaded
    <2> SUFFICES ASSUME FramesOK, NEW e \in Engine, ~atlas[e].dirty,
                        gpu.image[e].generation = atlas[e].generation
                 PROVE  gpu.image[e].glyphs = atlas[e].glyphs
      BY DEF CleanPagesAreUploaded
    <2>1. PageOK(atlas[e], gpu.image[e])
      BY DEF FramesOK, PagesOK
    <2>2. atlas[e].generation \in Generation
      BY AtlasShape DEF Atlases, Atlas
    <2>3. atlas[e].generation # NoGeneration
      BY <2>2 DEF Generation, NoGeneration
    <2> QED
      BY <2>1, <2>3 DEF PageOK
  <1> QED
    BY <1>1, FramesAlwaysOK, PTL

(* A plan that names the current generation of an atlas names glyphs that are   *)
(* in it, whoever holds the plan and however often the atlas was repacked      *)
(* (LayoutRenderCompiler::compile, append_render_glyph).                       *)
THEOREM PlansAlwaysNameGlyphs == FramesSpec => []PlansNameGlyphsThatExist
  <1>1. FramesOK => PlansNameGlyphsThatExist
    <2> SUFFICES ASSUME FramesOK, NEW p \in {frame, kept.plan, pending.plan, drawing.plan},
                        NEW r \in Bound(p), p.whole,
                        atlas[EngineOf[r]].generation = p.bound[r]
                 PROVE  <<r, p.of.revision[r]>> \in atlas[EngineOf[r]].glyphs
      BY DEF PlansNameGlyphsThatExist
    <2>1. PlanOK(p, atlas)
      BY DEF FramesOK
    <2>2. r \in Row /\ p.bound[r] # NoGeneration
      BY DEF Bound
    <2> QED
      BY <2>1, <2>2 DEF PlanOK, Named
  <1> QED
    BY <1>1, FramesAlwaysOK, PTL

----------------------------------------------------------------------------
(* UiResources.                                                              *)

Slot == [kind : Kind \union {"free"}, generation : SlotGeneration, alive : BOOLEAN, refs : Nat,
         fonts : Collection \union {NoFonts}, given : SUBSET Font]
SlotTable == [ResourceSlot -> Slot]
DisplayList == [live : BOOLEAN, generation : 1..ListGenerations, refs : Nat,
                draws : SUBSET Handle]
ListTable == [List -> DisplayList]
LayoutSession == [live : BOOLEAN, custom : SUBSET Node,
                  paint : [Node -> ListHandle \union {NoList}],
                  composite : [Node -> ListHandle \union {NoList}],
                  fonts : Collection \union {NoFonts}, given : SUBSET Font]
SessionTable == [SessionSlot -> LayoutSession]

----------------------------------------------------------------------------
(* The constants and the arithmetic of generations.                          *)

LEMMA NextGeneration ==
    ASSUME NEW g \in SlotGeneration
    PROVE  NextOf(g) \in SlotGeneration
  <1>1. Generations \in Nat \ {0} /\ g \in Nat
    BY ResourcesConstants DEF SlotGeneration
  <1>2. g % Generations \in 0..(Generations - 1)
    BY <1>1
  <1> QED
    BY <1>1, <1>2 DEF NextOf, SlotGeneration

LEMMA NextListGeneration ==
    ASSUME NEW g \in 1..ListGenerations
    PROVE  NextOfList(g) \in 1..ListGenerations
  <1>1. ListGenerations \in Nat \ {0} /\ g \in Nat
    BY ResourcesConstants
  <1>2. g % ListGenerations \in 0..(ListGenerations - 1)
    BY <1>1
  <1> QED
    BY <1>1, <1>2 DEF NextOfList

(* The first free slot exists: a set of numbers that is finite and not empty   *)
(* has a least member.                                                       *)
LEMMA FirstMember ==
    ASSUME NEW S \in SUBSET ResourceSlot, S # {}
    PROVE  First(S) \in S
  <1> DEFINE Below(s) == {t \in S : t < s}
             R == StrictSubsetOrdering(ResourceSlot)
             T == {Below(s) : s \in S}
  <1>1. ResourceSlot \subseteq Nat /\ IsFiniteSet(ResourceSlot)
    BY ResourcesConstants
  <1>2. IsWellFoundedOn(R, FiniteSubsetsOf(ResourceSlot))
    BY FS_StrictSubsetOrderingWellFounded
  <1>3. FiniteSubsetsOf(ResourceSlot) = SUBSET ResourceSlot
    BY <1>1, FS_FiniteSubsetsOfFinite
  <1>4. T \subseteq SUBSET ResourceSlot /\ T # {}
    OBVIOUS
  <1>5. PICK D \in T : \A E \in T : ~(<<E, D>> \in R)
    <2> HIDE DEF R, T
    <2> QED
      BY <1>2, <1>3, <1>4, WFMin
  <1>6. PICK s \in S : D = Below(s)
    BY <1>5
  <1>7. ASSUME NEW t \in S, ~(s <= t)
        PROVE  FALSE
    <2>1. s \in Nat /\ t \in Nat /\ t < s
      BY <1>1, <1>7
    <2>2. t \in Below(s) /\ t \notin Below(t)
      BY <2>1
    <2>3. Below(t) \subseteq Below(s)
      <3> SUFFICES ASSUME NEW x \in S, x < t PROVE x < s
        OBVIOUS
      <3>1. x \in Nat
        BY <1>1
      <3> QED
        BY <2>1, <3>1
    <2>4. Below(t) \in SUBSET ResourceSlot /\ Below(s) \in SUBSET ResourceSlot
      OBVIOUS
    <2>5. Below(t) # Below(s)
      BY <2>2
    <2>6. <<Below(t), Below(s)>> \in R
      <3> HIDE DEF Below
      <3> QED
        BY <2>3, <2>4, <2>5 DEF StrictSubsetOrdering
    <2> QED
      BY <1>5, <1>6, <2>6
  <1> QED
    BY <1>6, <1>7 DEF First

----------------------------------------------------------------------------
(* What lists draw.                                                          *)

DrawersOf(ls, s) == {l \in List : \E h \in ls[l].draws : h.slot = s}

SlotOK(slot, drawers) ==
    /\ slot.refs = Cardinality(drawers)
    /\ slot.kind # "free" <=> slot.alive \/ slot.refs > 0

(* ListsKeepWhatTheyDraw, of the tables ss and ls.                             *)
DrawnOK(ss, ls) ==
    /\ \A l \in List : \A h \in ls[l].draws : Resolves(ss, h)
    /\ \A s \in ResourceSlot : SlotOK(ss[s], DrawersOf(ls, s))

LEMMA Drawers ==
    ASSUME NEW ls, NEW s
    PROVE  /\ IsFiniteSet(DrawersOf(ls, s))
           /\ Cardinality(DrawersOf(ls, s)) \in 0..Cardinality(List)
           /\ Cardinality(DrawersOf(ls, s)) = 0 <=> DrawersOf(ls, s) = {}
  <1> DEFINE D == DrawersOf(ls, s)
  <1>1. IsFiniteSet(List) /\ D \in SUBSET List
    BY ResourcesConstants DEF DrawersOf
  <1>2. IsFiniteSet(D) /\ Cardinality(D) <= Cardinality(List)
    <2> HIDE DEF D
    <2> QED
      BY <1>1, FS_Subset
  <1>3. Cardinality(D) \in Nat /\ Cardinality(List) \in Nat
    <2> HIDE DEF D
    <2> QED
      BY <1>1, <1>2, FS_CardinalityType
  <1>4. Cardinality(D) = 0 <=> D = {}
    <2> HIDE DEF D
    <2> QED
      BY <1>2, FS_EmptySet
  <1> QED
    BY <1>2, <1>3, <1>4

(* Lists that draw the same count the same.                                    *)
LEMMA SameDrawers ==
    ASSUME NEW ss, NEW ls, NEW new, \A l \in List : new[l].draws = ls[l].draws, DrawnOK(ss, ls)
    PROVE  DrawnOK(ss, new)
  <1>1. ASSUME NEW s PROVE DrawersOf(new, s) = DrawersOf(ls, s)
    BY DEF DrawersOf
  <1> QED
    BY <1>1 DEF DrawnOK

AtSlot(handles, s) == {h \in handles : h.slot = s}

(* One step of Dropped after Taken, at one slot: `gone` are the handles of the  *)
(* slot that the list drew, `come` those that it draws now.                   *)
Exchanged(slot, gone, come) ==
    LET taken == IF come # {} THEN [slot EXCEPT !.refs = @ + 1] ELSE slot
    IN  IF gone = {} THEN taken
        ELSE IF taken.refs = 1 /\ ~taken.alive THEN Empty(NextOf(slot.generation))
        ELSE [taken EXCEPT !.refs = @ - 1]

LEMMA ExchangeAtSlot ==
    ASSUME slots \in SlotTable, NEW old \in SUBSET Handle, NEW drawn, NEW s \in ResourceSlot,
           \A h \in old : Resolves(slots, h),
           AtSlot(old, s) # {} => slots[s].refs > 0
    PROVE  Dropped(Taken(drawn), old)[s]
             = Exchanged(slots[s], AtSlot(old, s), AtSlot(drawn, s))
  <1> DEFINE gone == AtSlot(old, s)
             come == AtSlot(drawn, s)
             T == Taken(drawn)
             Held == {h \in old : h.slot = s /\ Resolves(T, h) /\ T[s].refs > 0}
  <1>1. slots[s] \in Slot
    BY DEF SlotTable
  <1>2. T[s] = IF come # {} THEN [slots[s] EXCEPT !.refs = @ + 1] ELSE slots[s]
    BY DEF Taken, AtSlot
  <1>3. \A h \in old : h.slot = s => Resolves(T, h)
    <2> SUFFICES ASSUME NEW h \in old, h.slot = s PROVE Resolves(T, h)
      OBVIOUS
    <2>1. T[s].kind = slots[s].kind /\ T[s].generation = slots[s].generation
      BY <1>1, <1>2 DEF Slot
    <2> QED
      BY <2>1 DEF Resolves
  <1>4. gone # {} => T[s].refs > 0
    BY <1>1, <1>2 DEF Slot
  <1>5. Held # {} <=> gone # {}
    BY <1>3, <1>4 DEF AtSlot
  <1>6. T[s].generation = slots[s].generation
    BY <1>1, <1>2 DEF Slot
  <1>7. Dropped(T, old)[s] =
          IF Held = {} THEN T[s]
          ELSE IF T[s].refs = 1 /\ ~T[s].alive THEN Released(T, s)[s]
          ELSE [T[s] EXCEPT !.refs = @ - 1]
    <2> HIDE DEF T
    <2>1. CASE Held = {}
      BY <2>1 DEF Dropped
    <2>2. CASE Held # {} /\ T[s].refs = 1 /\ ~T[s].alive
      BY <2>2 DEF Dropped
    <2>3. CASE Held # {} /\ ~(T[s].refs = 1 /\ ~T[s].alive)
      BY <2>3 DEF Dropped
    <2> QED
      BY <2>1, <2>2, <2>3
  <1>8. Released(T, s)[s] = Empty(NextOf(slots[s].generation))
    <2>1. T \in [ResourceSlot -> {T[x] : x \in ResourceSlot}]
      BY DEF Taken
    <2> HIDE DEF T
    <2> QED
      BY <1>6, <2>1 DEF Released
  <1> HIDE DEF Held
  <1>9. CASE gone = {}
    BY <1>2, <1>5, <1>7, <1>9 DEF Exchanged
  <1>10. CASE gone # {} /\ come # {}
    BY <1>2, <1>5, <1>7, <1>8, <1>10 DEF Exchanged
  <1>11. CASE gone # {} /\ come = {}
    BY <1>2, <1>5, <1>7, <1>8, <1>11 DEF Exchanged
  <1> QED
    BY <1>9, <1>10, <1>11

Joined(D, l0, come) == IF come # {} THEN D \union {l0} ELSE D \ {l0}

(* A list that draws `drawn` from now on, and no longer what it drew.           *)
LEMMA ExchangeKeepsSlot ==
    ASSUME NEW slot \in Slot, NEW D, IsFiniteSet(D), NEW l0, SlotOK(slot, D),
           NEW gone, gone # {} <=> l0 \in D, NEW come, come # {} => slot.alive,
           NEW new, new = Exchanged(slot, gone, come),
           NEW then, then = Joined(D, l0, come)
    PROVE  /\ new \in Slot /\ SlotOK(new, then)
           /\ \/ /\ new.kind = slot.kind /\ new.generation = slot.generation
                 /\ new.fonts = slot.fonts /\ new.given = slot.given
              \/ new = Empty(NextOf(slot.generation)) /\ then = {}
  <1>1. /\ slot.refs = Cardinality(D) /\ slot.refs \in Nat /\ slot.alive \in BOOLEAN
        /\ slot.generation \in SlotGeneration
        /\ slot.kind # "free" <=> slot.alive \/ slot.refs > 0
    BY DEF SlotOK, Slot
  <1>2. gone # {} => slot.refs > 0
    <2>1. Cardinality(D) # 0 \/ D = {}
      BY FS_EmptySet
    <2> QED
      BY <1>1, <2>1
  <1>3. CASE come # {} /\ gone # {}
    <2>1. then = D
      BY <1>3 DEF Joined
    <2>2. new = slot
      <3>1. (slot.refs + 1) - 1 = slot.refs /\ slot.refs + 1 # 1
        BY <1>1, <1>2, <1>3
      <3>2. new = [slot EXCEPT !.refs = (slot.refs + 1) - 1]
        BY <1>1, <1>3, <3>1 DEF Exchanged, Slot
      <3> QED
        BY <3>1, <3>2 DEF Slot
    <2> QED
      BY <2>1, <2>2
  <1>4. CASE come # {} /\ gone = {}
    <2>1. then = D \union {l0} /\ Cardinality(then) = slot.refs + 1
      <3>1. Cardinality(D \union {l0}) = Cardinality(D) + 1
        BY <1>4, FS_AddElement
      <3> QED
        BY <1>1, <1>4, <3>1 DEF Joined
    <2>2. new = [slot EXCEPT !.refs = slot.refs + 1]
      BY <1>4 DEF Exchanged
    <2>3. new \in Slot /\ new.refs = slot.refs + 1 /\ new.alive = slot.alive
          /\ new.kind = slot.kind /\ new.generation = slot.generation
          /\ new.fonts = slot.fonts /\ new.given = slot.given
      BY <1>1, <2>2 DEF Slot
    <2>4. SlotOK(new, then)
      BY <1>1, <1>4, <2>1, <2>3 DEF SlotOK
    <2> QED
      BY <2>3, <2>4
  <1>5. CASE come = {} /\ gone # {}
    <2>1. then = D \ {l0} /\ Cardinality(then) = slot.refs - 1 /\ IsFiniteSet(then)
      <3>1. Cardinality(D \ {l0}) = Cardinality(D) - 1 /\ IsFiniteSet(D \ {l0})
        BY <1>5, FS_RemoveElement
      <3> QED
        BY <1>1, <1>5, <3>1 DEF Joined
    <2>2. CASE slot.refs = 1 /\ ~slot.alive
      <3>1. new = Empty(NextOf(slot.generation))
        BY <1>5, <2>2 DEF Exchanged
      <3>2. then = {}
        BY <2>1, <2>2, FS_EmptySet
      <3>3. new \in Slot
        BY <1>1, <3>1, NextGeneration DEF Empty, Slot
      <3>4. SlotOK(new, then)
        BY <3>1, <3>2, FS_EmptySet DEF SlotOK, Empty
      <3> QED
        BY <3>1, <3>2, <3>3, <3>4
    <2>3. CASE ~(slot.refs = 1 /\ ~slot.alive)
      <3>0. slot.refs - 1 \in Nat
        BY <1>1, <1>2, <1>5
      <3>1. new = [slot EXCEPT !.refs = slot.refs - 1]
        BY <1>5, <2>3 DEF Exchanged
      <3>2. new \in Slot /\ new.refs = slot.refs - 1 /\ new.alive = slot.alive
            /\ new.kind = slot.kind /\ new.generation = slot.generation
            /\ new.fonts = slot.fonts /\ new.given = slot.given
        BY <1>1, <3>0, <3>1 DEF Slot
      <3>3. slot.kind # "free"
        BY <1>1, <1>2, <1>5
      <3>4. new.alive \/ new.refs > 0
        BY <1>1, <2>3, <3>0, <3>2
      <3>5. SlotOK(new, then)
        BY <2>1, <3>2, <3>3, <3>4 DEF SlotOK
      <3> QED
        BY <3>2, <3>5
    <2> QED
      BY <2>2, <2>3
  <1>6. CASE come = {} /\ gone = {}
    <2>1. then = D /\ new = slot
      BY <1>6 DEF Exchanged, Joined
    <2> QED
      BY <2>1
  <1> QED
    BY <1>3, <1>4, <1>5, <1>6

(* What a table of resources keeps of another for those that hold fonts.        *)
Passes(ss, new) ==
    \A s \in ResourceSlot :
        \/ /\ new[s].kind = ss[s].kind
           /\ new[s].fonts = ss[s].fonts /\ new[s].given = ss[s].given
        \/ new[s].kind = "free" /\ new[s].fonts = NoFonts

LEMMA ExchangeKeepsDrawn ==
    ASSUME slots \in SlotTable, lists \in ListTable, DrawnOK(slots, lists), NEW l0 \in List,
           NEW drawn \in SUBSET Handle, \A h \in drawn : Alive(h), NEW ls,
           \A l \in List : ls[l].draws = IF l = l0 THEN drawn ELSE lists[l].draws,
           NEW old, old = lists[l0].draws, NEW new, new = Dropped(Taken(drawn), old)
    PROVE  new \in SlotTable /\ DrawnOK(new, ls) /\ Passes(slots, new)
  <1> DEFINE same(s) == /\ new[s].kind = slots[s].kind
                        /\ new[s].generation = slots[s].generation
                        /\ new[s].fonts = slots[s].fonts /\ new[s].given = slots[s].given
             freed(s) == /\ new[s] = Empty(NextOf(slots[s].generation))
                         /\ DrawersOf(ls, s) = {}
  <1>1. old \in SUBSET Handle /\ \A h \in old : Resolves(slots, h)
    BY DEF ListTable, DisplayList, DrawnOK
  <1>2. ASSUME NEW s \in ResourceSlot
        PROVE  new[s] \in Slot /\ SlotOK(new[s], DrawersOf(ls, s)) /\ (same(s) \/ freed(s))
    <2> DEFINE D == DrawersOf(lists, s)
               then == DrawersOf(ls, s)
             gone == AtSlot(old, s)
             come == AtSlot(drawn, s)
    <2>3. slots[s] \in Slot /\ SlotOK(slots[s], D)
      BY DEF SlotTable, DrawnOK
    <2>4. gone # {} <=> l0 \in D
      BY DEF DrawersOf, AtSlot
    <2>5. then = Joined(D, l0, come)
      BY DEF DrawersOf, Joined, AtSlot
    <2>6. IsFiniteSet(D) /\ Cardinality(D) \in Nat /\ (Cardinality(D) = 0 <=> D = {})
      BY Drawers
    <2>7. come # {} => slots[s].alive
      BY DEF Alive, AtSlot
    <2>8. gone # {} => slots[s].refs > 0
      BY <2>3, <2>4, <2>6 DEF SlotOK
    <2>9. new[s] = Exchanged(slots[s], gone, come)
      BY <1>1, <2>8, ExchangeAtSlot
    <2> HIDE DEF D, then, gone, come
    <2>10. /\ new[s] \in Slot /\ SlotOK(new[s], then)
           /\ \/ /\ new[s].kind = slots[s].kind /\ new[s].generation = slots[s].generation
                 /\ new[s].fonts = slots[s].fonts /\ new[s].given = slots[s].given
              \/ new[s] = Empty(NextOf(slots[s].generation)) /\ then = {}
      BY <2>3, <2>4, <2>5, <2>6, <2>7, <2>9, ExchangeKeepsSlot
    <2> QED
      BY <2>10 DEF then
  <1>3. new \in SlotTable
    <2>1. new = [s \in ResourceSlot |-> new[s]]
      BY DEF Dropped
    <2> QED
      BY <1>2, <2>1 DEF SlotTable
  <1>4. ASSUME NEW l \in List, NEW h \in ls[l].draws PROVE Resolves(new, h)
    <2>1. h \in Handle /\ Resolves(slots, h)
      <3>1. CASE l = l0
        BY <3>1 DEF Alive, Resolves
      <3>2. CASE l # l0
        BY <3>2 DEF DrawnOK, ListTable, DisplayList
      <3> QED
        BY <3>1, <3>2
    <2>2. h.slot \in ResourceSlot /\ l \in DrawersOf(ls, h.slot)
      BY <2>1 DEF Handle, DrawersOf
    <2>3. same(h.slot)
      BY <1>2, <2>2
    <2> QED
      BY <2>1, <2>3 DEF Resolves
  <1>5. Passes(slots, new)
    <2> SUFFICES ASSUME NEW s \in ResourceSlot
                 PROVE  \/ /\ new[s].kind = slots[s].kind
                           /\ new[s].fonts = slots[s].fonts /\ new[s].given = slots[s].given
                        \/ new[s].kind = "free" /\ new[s].fonts = NoFonts
      BY DEF Passes
    <2>1. same(s) \/ freed(s)
      BY <1>2
    <2> QED
      BY <2>1 DEF Empty
  <1>6. DrawnOK(new, ls)
    BY <1>2, <1>4 DEF DrawnOK
  <1> QED
    BY <1>3, <1>5, <1>6

----------------------------------------------------------------------------
(* The font collections.                                                     *)

(* UsersKeepTheirFonts, and: a collection is there as long as it has a holder,  *)
(* and only text layouts and the program's collections among the resources     *)
(* hold one.                                                                 *)
FontsOK(ss, us, cs) ==
    /\ cs \in [DOMAIN cs -> SUBSET Font] /\ DOMAIN cs \subseteq Collection
    /\ \A c \in Collection : c \in DOMAIN cs <=> HoldersIn(ss, us, c) # {}
    /\ \A s \in ResourceSlot :
          /\ ss[s].kind \in Plain \union {"free"} => ss[s].fonts = NoFonts
          /\ ss[s].kind = "fonts" => ss[s].fonts # NoFonts
          /\ ss[s].kind = "text" /\ ss[s].fonts # NoFonts => cs[ss[s].fonts] = ss[s].given
    /\ \A u \in SessionSlot : us[u].fonts # NoFonts => cs[us[u].fonts] = us[u].given
    /\ \A s, t \in ResourceSlot :
          ss[s].kind = "fonts" /\ ss[t].kind = "fonts" /\ ss[s].fonts = ss[t].fonts => s = t

(* The holders of a collection are in the tables, each with one collection.     *)
LEMMA Holder ==
    ASSUME NEW ss, NEW us, NEW c, NEW x
    PROVE  /\ x \in HoldersIn(ss, us, c) <=>
                \/ x \in ResourceSlot /\ ss[x].fonts = c
                \/ x \in SessionSlot /\ us[x].fonts = c
           /\ ~(x \in ResourceSlot /\ x \in SessionSlot)
  BY ResourcesConstants DEF HoldersIn

LEMMA CollectionNumbers ==
    /\ Collection \subseteq Nat \ {0} /\ NoFonts \notin Collection
    /\ IsFiniteSet(Collection)
    /\ Cardinality(ResourceSlot) \in Nat /\ Cardinality(SessionSlot) \in Nat
    /\ Cardinality(Collection) = Cardinality(ResourceSlot) + Cardinality(SessionSlot) + 1
  <1> DEFINE n == Cardinality(ResourceSlot) + Cardinality(SessionSlot) + 1
  <1>1. Cardinality(ResourceSlot) \in Nat /\ Cardinality(SessionSlot) \in Nat
    BY ResourcesConstants, FS_CardinalityType
  <1>2. n \in Nat \ {0}
    BY <1>1
  <1> HIDE DEF n
  <1>3. IsFiniteSet(1..n) /\ Cardinality(1..n) = n
    BY <1>2, FS_Interval
  <1>4. Collection = 1..n
    BY DEF Collection, n
  <1>5. Collection \subseteq Nat \ {0} /\ NoFonts \notin Collection
    BY <1>2, <1>4 DEF NoFonts
  <1> QED
    BY <1>1, <1>3, <1>4, <1>5 DEF n

(* There is always another collection: those there are have a holder each.      *)
LEMMA FreshIsNew ==
    ASSUME FontsOK(slots, sessions, collections)
    PROVE  Fresh \in Collection \ DOMAIN collections
  <1> DEFINE Table == ResourceSlot \union SessionSlot
             holder == [c \in Collection |->
                          CHOOSE x \in Table : x \in HoldersIn(slots, sessions, c)]
  <1>1. SUFFICES ASSUME Collection \subseteq DOMAIN collections
                 PROVE  FALSE
    BY DEF Fresh
  <1>2. ASSUME NEW c \in Collection
        PROVE  holder[c] \in Table /\ holder[c] \in HoldersIn(slots, sessions, c)
    <2>1. HoldersIn(slots, sessions, c) # {}
      BY <1>1, <1>2 DEF FontsOK
    <2>2. HoldersIn(slots, sessions, c) \subseteq Table
      BY DEF HoldersIn
    <2> QED
      BY <2>1, <2>2
  <1>3. IsFiniteSet(Table) /\ Cardinality(Table) < Cardinality(Collection)
    <2>1. /\ IsFiniteSet(ResourceSlot) /\ IsFiniteSet(SessionSlot)
          /\ ResourceSlot \intersect SessionSlot = {}
      BY ResourcesConstants
    <2>2. /\ IsFiniteSet(Table)
          /\ Cardinality(Table) = Cardinality(ResourceSlot) + Cardinality(SessionSlot)
                                    - Cardinality(ResourceSlot \intersect SessionSlot)
      BY <2>1, FS_Union
    <2>3. Cardinality(ResourceSlot \intersect SessionSlot) = 0
      BY <2>1, FS_EmptySet
    <2> HIDE DEF Table
    <2> QED
      BY <2>2, <2>3, CollectionNumbers
  <1>4. holder \in [Collection -> Table]
    BY <1>2
  <1> HIDE DEF holder, Table
  <1>5. \E c, d \in Collection : c # d /\ holder[c] = holder[d]
    <2>1. IsFiniteSet(Collection)
      BY CollectionNumbers
    <2> QED
      BY <1>3, <1>4, <2>1, FS_PigeonHole
  <1>6. PICK c, d \in Collection : c # d /\ holder[c] = holder[d]
    BY <1>5
  <1> QED
    BY <1>2, <1>6, Holder

(* No change to who holds which collection.                                    *)
LEMMA SameFonts ==
    ASSUME NEW ss, NEW us, NEW cs, FontsOK(ss, us, cs), NEW new, NEW others,
           \A s \in ResourceSlot :
              /\ new[s].fonts = ss[s].fonts
              /\ \/ new[s].kind = ss[s].kind /\ new[s].given = ss[s].given
                 \/ {new[s].kind, ss[s].kind} \subseteq Plain \union {"free"},
           \A u \in SessionSlot : others[u].fonts = us[u].fonts /\ others[u].given = us[u].given
    PROVE  FontsOK(new, others, cs)
  <1>1. ASSUME NEW c PROVE HoldersIn(new, others, c) = HoldersIn(ss, us, c)
    BY DEF HoldersIn
  <1>2. "text" \notin Plain \union {"free"} /\ "fonts" \notin Plain \union {"free"}
    BY ResourcesConstants
  <1>3. ASSUME NEW s \in ResourceSlot
        PROVE  /\ new[s].kind = "text" => ss[s].kind = "text" /\ new[s].given = ss[s].given
               /\ new[s].kind = "fonts" => ss[s].kind = "fonts"
               /\ new[s].kind \in Plain \union {"free"} => ss[s].kind \in Plain \union {"free"}
    BY <1>2
  <1> QED
    BY <1>1, <1>3 DEF FontsOK

(* Some holders let go, and the collections that nobody holds go with them.      *)
LEMMA KeptFonts ==
    ASSUME NEW ss \in SlotTable, NEW us \in SessionTable, NEW cs, FontsOK(ss, us, cs),
           NEW new \in SlotTable, Passes(ss, new), NEW others \in SessionTable,
           \A u \in SessionSlot :
              \/ others[u].fonts = us[u].fonts /\ others[u].given = us[u].given
              \/ others[u].fonts = NoFonts
    PROVE  FontsOK(new, others, Kept(new, others, cs))
  <1> DEFINE left == Kept(new, others, cs)
  <1>1. /\ DOMAIN left = {c \in DOMAIN cs : HoldersIn(new, others, c) # {}}
        /\ \A c \in DOMAIN left : left[c] = cs[c]
    BY DEF Kept
  <1>2. ASSUME NEW s \in ResourceSlot, new[s].fonts # NoFonts
        PROVE  new[s].kind = ss[s].kind /\ new[s].fonts = ss[s].fonts /\ new[s].given = ss[s].given
    BY <1>2 DEF Passes
  <1>3. ASSUME NEW c \in Collection, HoldersIn(new, others, c) # {}
        PROVE  c \in DOMAIN left
    <2>1. PICK x : x \in HoldersIn(new, others, c)
      BY <1>3
    <2>2. c # NoFonts
      BY CollectionNumbers
    <2>3. x \in HoldersIn(ss, us, c)
      BY <1>2, <2>1, <2>2, Holder
    <2> QED
      BY <1>1, <1>3, <2>3 DEF FontsOK
  <1>4. ASSUME NEW s \in ResourceSlot, new[s].fonts # NoFonts
        PROVE  new[s].fonts \in DOMAIN left
    <2>1. new[s].fonts \in Collection
      BY <1>4 DEF SlotTable, Slot
    <2>2. s \in HoldersIn(new, others, new[s].fonts)
      BY Holder
    <2> QED
      BY <1>3, <2>1, <2>2
  <1>5. ASSUME NEW u \in SessionSlot, others[u].fonts # NoFonts
        PROVE  others[u].fonts \in DOMAIN left
    <2>1. others[u].fonts \in Collection
      BY <1>5 DEF SessionTable, LayoutSession
    <2>2. u \in HoldersIn(new, others, others[u].fonts)
      BY Holder
    <2> QED
      BY <1>3, <2>1, <2>2
  <1>6. left \in [DOMAIN left -> SUBSET Font] /\ DOMAIN left \subseteq Collection
    BY <1>1 DEF FontsOK, Kept
  <1>7. \A c \in Collection : c \in DOMAIN left <=> HoldersIn(new, others, c) # {}
    BY <1>1, <1>3
  <1>8. ASSUME NEW s \in ResourceSlot
        PROVE  /\ new[s].kind \in Plain \union {"free"} => new[s].fonts = NoFonts
               /\ new[s].kind = "fonts" => new[s].fonts # NoFonts
               /\ new[s].kind = "text" /\ new[s].fonts # NoFonts
                    => left[new[s].fonts] = new[s].given
    <2> HIDE DEF left
    <2>1. "fonts" # "free" /\ (new[s].kind = ss[s].kind \/ new[s].kind = "free")
      BY DEF Passes
    <2> QED
      BY <1>1, <1>2, <1>4, <2>1 DEF FontsOK, Passes
  <1>9. ASSUME NEW u \in SessionSlot, others[u].fonts # NoFonts
        PROVE  left[others[u].fonts] = others[u].given
    <2> HIDE DEF left
    <2> QED
      BY <1>1, <1>5, <1>9 DEF FontsOK
  <1>10. ASSUME NEW s \in ResourceSlot, NEW t \in ResourceSlot,
                new[s].kind = "fonts" /\ new[t].kind = "fonts" /\ new[s].fonts = new[t].fonts
         PROVE  s = t
    BY <1>2, <1>8, <1>10 DEF FontsOK
  <1> HIDE DEF left
  <1>11. FontsOK(new, others, left)
    BY <1>6, <1>7, <1>8, <1>9, <1>10 DEF FontsOK
  <1> QED
    BY <1>11 DEF left

(* Whoever has a collection, has one that is there.                             *)
LEMMA HeldIsThere ==
    ASSUME NEW ss \in SlotTable, NEW us \in SessionTable, NEW cs, FontsOK(ss, us, cs)
    PROVE  /\ \A s \in ResourceSlot : ss[s].fonts # NoFonts =>
                 /\ ss[s].fonts \in DOMAIN cs /\ ss[s].fonts \in Collection
                 /\ s \in HoldersIn(ss, us, ss[s].fonts)
           /\ \A u \in SessionSlot : us[u].fonts # NoFonts =>
                 /\ us[u].fonts \in DOMAIN cs /\ us[u].fonts \in Collection
                 /\ u \in HoldersIn(ss, us, us[u].fonts)
  <1>1. ASSUME NEW s \in ResourceSlot, ss[s].fonts # NoFonts
        PROVE  /\ ss[s].fonts \in DOMAIN cs /\ ss[s].fonts \in Collection
               /\ s \in HoldersIn(ss, us, ss[s].fonts)
    <2>1. ss[s].fonts \in Collection
      BY <1>1 DEF SlotTable, Slot
    <2>2. s \in HoldersIn(ss, us, ss[s].fonts)
      BY Holder
    <2> QED
      BY <2>1, <2>2 DEF FontsOK
  <1>2. ASSUME NEW u \in SessionSlot, us[u].fonts # NoFonts
        PROVE  /\ us[u].fonts \in DOMAIN cs /\ us[u].fonts \in Collection
               /\ u \in HoldersIn(ss, us, us[u].fonts)
    <2>1. us[u].fonts \in Collection
      BY <1>2 DEF SessionTable, LayoutSession
    <2>2. u \in HoldersIn(ss, us, us[u].fonts)
      BY Holder
    <2> QED
      BY <2>1, <2>2 DEF FontsOK
  <1> QED
    BY <1>1, <1>2

(* A slot of the program's gets a collection of its own.                        *)
Added(cs, f, F) == [c \in DOMAIN cs \union {f} |-> IF c = f THEN F ELSE cs[c]]

LEMMA OwnFonts ==
    ASSUME NEW ss \in SlotTable, NEW us \in SessionTable, NEW cs, FontsOK(ss, us, cs),
           NEW s \in ResourceSlot,
           ss[s].fonts = NoFonts \/ HoldersIn(ss, us, ss[s].fonts) # {s},
           NEW new, new[s].kind = "fonts", \A t \in ResourceSlot \ {s} : new[t] = ss[t],
           NEW f \in Collection \ DOMAIN cs, new[s].fonts = f, NEW F \in SUBSET Font,
           NEW after, after = Added(cs, f, F)
    PROVE  FontsOK(new, us, after)
  <1>1. /\ DOMAIN after = DOMAIN cs \union {f} /\ DOMAIN after \subseteq Collection
        /\ after \in [DOMAIN after -> SUBSET Font]
        /\ \A c \in DOMAIN cs : after[c] = cs[c]
    BY DEF FontsOK, Added
  <1>2. f # NoFonts /\ s \in HoldersIn(new, us, f)
    BY CollectionNumbers, Holder
  <1>3. ASSUME NEW c \in Collection, c # f
        PROVE  c \in DOMAIN after <=> HoldersIn(new, us, c) # {}
    <2>1. c # NoFonts /\ (c \in DOMAIN after <=> c \in DOMAIN cs)
      BY <1>1, <1>3, CollectionNumbers
    <2>2. ASSUME NEW x PROVE x \in HoldersIn(new, us, c) <=> x # s /\ x \in HoldersIn(ss, us, c)
      BY <1>3, Holder
    <2>3. ASSUME HoldersIn(ss, us, c) = {s} PROVE FALSE
      <3>1. ss[s].fonts = c
        BY <2>3, Holder
      <3> QED
        BY <2>1, <2>3, <3>1
    <2>4. c \in DOMAIN cs <=> HoldersIn(ss, us, c) # {}
      BY DEF FontsOK
    <2> QED
      BY <2>1, <2>2, <2>3, <2>4
  <1>4. \A c \in Collection : c \in DOMAIN after <=> HoldersIn(new, us, c) # {}
    BY <1>1, <1>2, <1>3
  <1>5. ASSUME NEW t \in ResourceSlot
        PROVE  /\ new[t].kind \in Plain \union {"free"} => new[t].fonts = NoFonts
               /\ new[t].kind = "fonts" => new[t].fonts # NoFonts
               /\ new[t].kind = "text" /\ new[t].fonts # NoFonts
                    => after[new[t].fonts] = new[t].given
    <2>1. CASE t = s
      BY <1>2, <2>1, ResourcesConstants
    <2>2. CASE t # s
      <3>1. new[t] = ss[t] /\ (ss[t].fonts # NoFonts => ss[t].fonts \in DOMAIN cs)
        BY <2>2, HeldIsThere
      <3> QED
        BY <1>1, <3>1 DEF FontsOK
    <2> QED
      BY <2>1, <2>2
  <1>6. ASSUME NEW u \in SessionSlot, us[u].fonts # NoFonts
        PROVE  after[us[u].fonts] = us[u].given
    <2>1. us[u].fonts \in DOMAIN cs
      BY <1>6, HeldIsThere
    <2> QED
      BY <1>1, <1>6, <2>1 DEF FontsOK
  <1>7. ASSUME NEW t \in ResourceSlot, NEW v \in ResourceSlot,
               new[t].kind = "fonts" /\ new[v].kind = "fonts" /\ new[t].fonts = new[v].fonts
        PROVE  t = v
    <2>1. ASSUME NEW x \in ResourceSlot \ {s} PROVE new[x].fonts # f
      BY <1>2, HeldIsThere
    <2>2. CASE t # s /\ v # s
      BY <1>7, <2>2 DEF FontsOK
    <2>3. CASE t = s \/ v = s
      BY <1>7, <2>1, <2>3
    <2> QED
      BY <2>2, <2>3
  <1> QED
    BY <1>1, <1>4, <1>5, <1>6, <1>7 DEF FontsOK

(* A font is added to a collection that one slot of the program's has alone.     *)
LEMMA UnsharedFonts ==
    ASSUME NEW ss \in SlotTable, NEW us \in SessionTable, NEW cs, FontsOK(ss, us, cs),
           NEW s \in ResourceSlot, ss[s].kind = "fonts", HoldersIn(ss, us, ss[s].fonts) = {s},
           NEW font \in Font,
           NEW after, after = [cs EXCEPT ![ss[s].fonts] = @ \union {font}]
    PROVE  FontsOK(ss, us, after)
  <1> DEFINE c == ss[s].fonts
  <1>1. c # NoFonts /\ c \in DOMAIN cs
    <2>1. c # NoFonts
      BY DEF FontsOK
    <2> QED
      BY <2>1, HeldIsThere
  <1>2. /\ DOMAIN after = DOMAIN cs /\ after \in [DOMAIN after -> SUBSET Font]
        /\ \A d \in DOMAIN cs : d # c => after[d] = cs[d]
    BY <1>1 DEF FontsOK
  <1>3. ASSUME NEW t \in ResourceSlot, ss[t].kind = "text", ss[t].fonts # NoFonts
        PROVE  after[ss[t].fonts] = ss[t].given
    <2>1. ss[t].fonts \in DOMAIN cs /\ t \in HoldersIn(ss, us, ss[t].fonts)
      BY <1>3, HeldIsThere
    <2>2. t # s
      BY <1>3
    <2>3. ss[t].fonts # c
      BY <2>1, <2>2
    <2> QED
      BY <1>2, <1>3, <2>1, <2>3 DEF FontsOK
  <1>4. ASSUME NEW u \in SessionSlot, us[u].fonts # NoFonts
        PROVE  after[us[u].fonts] = us[u].given
    <2>1. us[u].fonts \in DOMAIN cs /\ u \in HoldersIn(ss, us, us[u].fonts)
      BY <1>4, HeldIsThere
    <2>2. u # s
      BY Holder
    <2>3. us[u].fonts # c
      BY <2>1, <2>2
    <2> QED
      BY <1>2, <1>4, <2>1, <2>3 DEF FontsOK
  <1> QED
    BY <1>2, <1>3, <1>4 DEF FontsOK

(* A text layout takes a collection that is there.                              *)
LEMMA TextFonts ==
    ASSUME NEW ss, NEW us, NEW cs, FontsOK(ss, us, cs),
           NEW s \in ResourceSlot, ss[s].fonts = NoFonts, NEW c \in DOMAIN cs,
           NEW new, new[s].kind = "text", new[s].fonts = c, new[s].given = cs[c],
           \A t \in ResourceSlot \ {s} : new[t] = ss[t]
    PROVE  FontsOK(new, us, cs)
  <1>1. c \in Collection /\ c # NoFonts
    BY CollectionNumbers DEF FontsOK
  <1>2. ASSUME NEW d \in Collection
        PROVE  d \in DOMAIN cs <=> HoldersIn(new, us, d) # {}
    <2>1. d # NoFonts
      BY CollectionNumbers
    <2>2. ASSUME NEW x
          PROVE  x \in HoldersIn(new, us, d) <=> x \in HoldersIn(ss, us, d) \/ (x = s /\ d = c)
      BY <2>1, Holder
    <2>3. d \in DOMAIN cs <=> HoldersIn(ss, us, d) # {}
      BY DEF FontsOK
    <2> QED
      BY <2>2, <2>3
  <1>3. "text" \notin Plain \union {"free"} /\ "text" # "fonts"
    BY ResourcesConstants
  <1>4. ASSUME NEW t \in ResourceSlot
        PROVE  t = s \/ new[t] = ss[t]
    OBVIOUS
  <1>5. cs \in [DOMAIN cs -> SUBSET Font] /\ DOMAIN cs \subseteq Collection
    BY DEF FontsOK
  <1>6. ASSUME NEW t \in ResourceSlot
        PROVE  /\ new[t].kind \in Plain \union {"free"} => new[t].fonts = NoFonts
               /\ new[t].kind = "fonts" => new[t].fonts # NoFonts
               /\ new[t].kind = "text" /\ new[t].fonts # NoFonts => cs[new[t].fonts] = new[t].given
    BY <1>3, <1>4 DEF FontsOK
  <1>7. ASSUME NEW t \in ResourceSlot, NEW v \in ResourceSlot,
               new[t].kind = "fonts" /\ new[v].kind = "fonts" /\ new[t].fonts = new[v].fonts
        PROVE  t = v
    BY <1>3, <1>4, <1>7 DEF FontsOK
  <1>8. \A u \in SessionSlot : us[u].fonts # NoFonts => cs[us[u].fonts] = us[u].given
    BY DEF FontsOK
  <1> QED
    BY <1>2, <1>5, <1>6, <1>7, <1>8 DEF FontsOK

(* And so does a session.                                                      *)
LEMMA SessionFonts ==
    ASSUME NEW ss, NEW us, NEW cs, FontsOK(ss, us, cs),
           NEW u \in SessionSlot, us[u].fonts = NoFonts, NEW c \in DOMAIN cs,
           NEW new, new[u].fonts = c, new[u].given = cs[c],
           \A v \in SessionSlot \ {u} : new[v] = us[v]
    PROVE  FontsOK(ss, new, cs)
  <1>1. ASSUME NEW d \in Collection
        PROVE  d \in DOMAIN cs <=> HoldersIn(ss, new, d) # {}
    <2>1. d # NoFonts
      BY CollectionNumbers
    <2>2. ASSUME NEW x
          PROVE  x \in HoldersIn(ss, new, d) <=> x \in HoldersIn(ss, us, d) \/ (x = u /\ d = c)
      BY <2>1, Holder
    <2>3. d \in DOMAIN cs <=> HoldersIn(ss, us, d) # {}
      BY DEF FontsOK
    <2> QED
      BY <2>2, <2>3
  <1> QED
    BY <1>1 DEF FontsOK

----------------------------------------------------------------------------
(* Resources that are made and destroyed.                                    *)

(* Nobody draws what is in a slot before or after it is taken.                  *)
LEMMA ReplacedSlot ==
    ASSUME NEW ss, NEW ls \in ListTable, DrawnOK(ss, ls),
           NEW s \in ResourceSlot, ss[s].refs = 0,
           NEW new, \A t \in ResourceSlot \ {s} : new[t] = ss[t],
           new[s].refs = 0, new[s].kind # "free" <=> new[s].alive
    PROVE  DrawnOK(new, ls)
  <1>1. DrawersOf(ls, s) = {} /\ Cardinality(DrawersOf(ls, s)) = 0
    BY Drawers DEF DrawnOK, SlotOK
  <1>2. SlotOK(new[s], DrawersOf(ls, s))
    BY <1>1 DEF SlotOK
  <1>3. ASSUME NEW l \in List, NEW h \in ls[l].draws PROVE Resolves(new, h)
    <2>1. h.slot \in ResourceSlot /\ h.slot # s
      BY <1>1 DEF ListTable, DisplayList, Handle, DrawersOf
    <2> QED
      BY <2>1 DEF DrawnOK, Resolves
  <1> QED
    BY <1>2, <1>3 DEF DrawnOK

(* A slot that keeps its kind, its generation and its count.                    *)
LEMMA SameSlots ==
    ASSUME NEW ss, NEW ls \in ListTable, DrawnOK(ss, ls), NEW new,
           \A s \in ResourceSlot :
              /\ new[s].kind = ss[s].kind /\ new[s].generation = ss[s].generation
              /\ new[s].refs = ss[s].refs
              /\ new[s].alive = ss[s].alive \/ (ss[s].kind # "free" /\ ss[s].refs > 0)
    PROVE  DrawnOK(new, ls)
  <1>1. ASSUME NEW s \in ResourceSlot PROVE SlotOK(new[s], DrawersOf(ls, s))
    BY DEF DrawnOK, SlotOK
  <1>2. ASSUME NEW l \in List, NEW h \in ls[l].draws PROVE Resolves(new, h)
    <2>1. h.slot \in ResourceSlot
      BY DEF ListTable, DisplayList, Handle
    <2> QED
      BY <2>1 DEF DrawnOK, Resolves
  <1> QED
    BY <1>1, <1>2 DEF DrawnOK

LEMMA Allocation ==
    ASSUME slots \in SlotTable, lists \in ListTable, DrawnOK(slots, lists),
           NEW kind \in Kind, FreeSlots(kind) # {},
           NEW fonts \in Collection \union {NoFonts}, NEW given \in SUBSET Font,
           NEW s, s = First(FreeSlots(kind)),
           NEW new, new = Allocated(kind, fonts, given)
    PROVE  /\ s \in ResourceSlot /\ slots[s].kind = "free"
           /\ slots[s].refs = 0
           /\ new \in SlotTable
           /\ new[s].kind = kind /\ new[s].generation = slots[s].generation
           /\ new[s].refs = 0 /\ new[s].fonts = fonts /\ new[s].given = given
           /\ \A t \in ResourceSlot \ {s} : new[t] = slots[t]
           /\ DrawnOK(new, lists)
  <1>1. s \in FreeSlots(kind)
    <2>1. FreeSlots(kind) \in SUBSET ResourceSlot
      BY DEF FreeSlots
    <2> QED
      BY <2>1, FirstMember
  <1>2. s \in ResourceSlot /\ slots[s].kind = "free" /\ slots[s] \in Slot
    BY <1>1 DEF FreeSlots, SlotTable
  <1>3. slots[s].refs = 0
    BY <1>2 DEF DrawnOK, SlotOK, Slot
  <1>4. kind # "free"
    BY ResourcesConstants DEF Kind
  <1>5. /\ new[s] = [kind |-> kind, generation |-> slots[s].generation, alive |-> TRUE,
                     refs |-> 0, fonts |-> fonts, given |-> given]
        /\ \A t \in ResourceSlot \ {s} : new[t] = slots[t]
        /\ new = [t \in ResourceSlot |-> new[t]]
    BY <1>2 DEF Allocated, SlotTable
  <1>6. new[s] \in Slot
    BY <1>2, <1>5 DEF Slot
  <1>7. new \in SlotTable
    BY <1>5, <1>6 DEF SlotTable
  <1>8. DrawnOK(new, lists)
    BY <1>2, <1>3, <1>4, <1>5, ReplacedSlot
  <1> QED
    BY <1>2, <1>3, <1>5, <1>7, <1>8

LEMMA Release ==
    ASSUME NEW ss \in SlotTable, lists \in ListTable, DrawnOK(ss, lists),
           NEW s \in ResourceSlot, ss[s].refs = 0, NEW new, new = Released(ss, s)
    PROVE  /\ new \in SlotTable /\ DrawnOK(new, lists) /\ Passes(ss, new)
           /\ new[s].kind = "free" /\ new[s].fonts = NoFonts
           /\ \A t \in ResourceSlot \ {s} : new[t] = ss[t]
  <1>1. /\ new[s] = Empty(NextOf(ss[s].generation))
        /\ \A t \in ResourceSlot \ {s} : new[t] = ss[t]
        /\ new = [t \in ResourceSlot |-> new[t]]
    BY DEF Released, SlotTable
  <1>2. new[s] \in Slot
    <2>1. ss[s].generation \in SlotGeneration
      BY DEF SlotTable, Slot
    <2> QED
      BY <1>1, <2>1, NextGeneration DEF Empty, Slot
  <1>3. new \in SlotTable
    BY <1>1, <1>2 DEF SlotTable
  <1>4. new[s].kind = "free" /\ new[s].refs = 0 /\ ~new[s].alive /\ new[s].fonts = NoFonts
    BY <1>1 DEF Empty
  <1>5. DrawnOK(new, lists)
    BY <1>1, <1>4, ReplacedSlot
  <1>6. Passes(ss, new)
    BY <1>1, <1>4 DEF Passes
  <1> QED
    BY <1>1, <1>3, <1>4, <1>5, <1>6

----------------------------------------------------------------------------
(* What sessions paint.                                                      *)

Spot == {"paint", "composite"} \X Node

ListAt(us, q) ==
    IF q[2][1] = "paint" THEN us[q[1]].paint[q[2][2]] ELSE us[q[1]].composite[q[2][2]]
PaintersOf(us, l) == {q \in SessionSlot \X Spot : ListAt(us, q).slot = l}

(* PaintsHoldTheirLists, of the tables ls and us.                               *)
PaintsOK(ls, us) ==
    /\ \A q \in SessionSlot \X Spot : ListAt(us, q) # NoList =>
          /\ ls[ListAt(us, q).slot].live
          /\ ls[ListAt(us, q).slot].generation = ListAt(us, q).generation
          /\ q[2][2] \in us[q[1]].custom
    /\ \A l \in List : ls[l].refs = Cardinality(PaintersOf(us, l))

LEMMA ListAtType ==
    ASSUME NEW us \in SessionTable, NEW q \in SessionSlot \X Spot
    PROVE  /\ q[1] \in SessionSlot /\ q[2] \in Spot /\ q[2][2] \in Node
           /\ ListAt(us, q) \in ListHandle \union {NoList}
           /\ ListAt(us, q) # NoList => ListAt(us, q).slot \in List
           /\ ListAt(us, q).slot \in List => ListAt(us, q) # NoList
  <1>1. q[1] \in SessionSlot /\ q[2] \in Spot /\ q[2][2] \in Node
    BY DEF Spot
  <1>2. us[q[1]] \in LayoutSession
    BY <1>1 DEF SessionTable
  <1>3. ListAt(us, q) \in ListHandle \union {NoList}
    BY <1>1, <1>2 DEF ListAt, LayoutSession
  <1>4. NoList.slot \notin List
    BY ResourcesConstants DEF NoList
  <1>5. \A l \in ListHandle : l.slot \in List
    BY DEF ListHandle
  <1> QED
    BY <1>1, <1>3, <1>4, <1>5

LEMMA Painters ==
    ASSUME NEW us, NEW l
    PROVE  IsFiniteSet(PaintersOf(us, l)) /\ Cardinality(PaintersOf(us, l)) \in Nat
  <1>1. IsFiniteSet({"paint", "composite"})
    <2>1. IsFiniteSet({"paint"}) /\ IsFiniteSet({"composite"})
      BY FS_Singleton
    <2>2. {"paint", "composite"} = {"paint"} \union {"composite"}
      OBVIOUS
    <2> QED
      BY <2>1, <2>2, FS_Union
  <1>2. IsFiniteSet(Spot)
    BY <1>1, FS_Product, ResourcesConstants DEF Spot
  <1>3. IsFiniteSet(SessionSlot \X Spot)
    BY <1>2, FS_Product, ResourcesConstants
  <1>4. PaintersOf(us, l) \in SUBSET (SessionSlot \X Spot)
    BY DEF PaintersOf
  <1>5. IsFiniteSet(PaintersOf(us, l))
    BY <1>3, <1>4, FS_Subset
  <1> QED
    BY <1>5, FS_CardinalityType

LEMMA PaintersAreCounted ==
    ASSUME NEW us, NEW l
    PROVE  PaintersOf(us, l) = UNION {{s} \X SpotsOf(us[s], l) : s \in SessionSlot}
  <1> DEFINE all == UNION {{s} \X SpotsOf(us[s], l) : s \in SessionSlot}
  <1>1. ASSUME NEW q \in PaintersOf(us, l) PROVE q \in all
    <2>1. /\ q \in SessionSlot \X Spot /\ ListAt(us, q).slot = l
          /\ q = <<q[1], q[2]>> /\ q[1] \in SessionSlot /\ q[2] \in Spot
      BY DEF PaintersOf
    <2>2. q[2] = <<q[2][1], q[2][2]>> /\ q[2][1] \in {"paint", "composite"} /\ q[2][2] \in Node
      BY <2>1 DEF Spot
    <2>3. q[2] \in SpotsOf(us[q[1]], l)
      <3>1. CASE q[2][1] = "paint"
        BY <2>1, <2>2, <3>1 DEF SpotsOf, ListAt
      <3>2. CASE q[2][1] = "composite"
        BY <2>1, <2>2, <3>2 DEF SpotsOf, ListAt
      <3> QED
        BY <2>2, <3>1, <3>2
    <2> QED
      BY <2>1, <2>3
  <1>2. ASSUME NEW q \in all PROVE q \in PaintersOf(us, l)
    <2>1. PICK s \in SessionSlot : q \in {s} \X SpotsOf(us[s], l)
      BY <1>2
    <2>2. q = <<s, q[2]>> /\ q[1] = s /\ q[2] \in SpotsOf(us[s], l)
      BY <2>1
    <2>3. PICK n \in Node : \/ q[2] = <<"paint", n>> /\ us[s].paint[n].slot = l
                            \/ q[2] = <<"composite", n>> /\ us[s].composite[n].slot = l
      BY <2>2 DEF SpotsOf
    <2>4. q \in SessionSlot \X Spot
      BY <2>2, <2>3 DEF Spot
    <2>5. ListAt(us, q).slot = l
      <3>1. CASE q[2] = <<"paint", n>> /\ us[s].paint[n].slot = l
        BY <2>2, <3>1 DEF ListAt
      <3>2. CASE q[2] = <<"composite", n>> /\ us[s].composite[n].slot = l
        BY <2>2, <3>2 DEF ListAt
      <3> QED
        BY <2>3, <3>1, <3>2
    <2> QED
      BY <2>4, <2>5 DEF PaintersOf
  <1> QED
    BY <1>1, <1>2

(* The records by which Unpainted knows the spots G of session s.               *)
Known(us, s, p) == [of |-> p[1], node |-> p[2], list |-> ListAt(us, <<s, p>>)]
GoneAt(us, s, G) == {Known(us, s, p) : p \in {p \in G : ListAt(us, <<s, p>>) # NoList}}

(* As many of them name list l as there are painters of l among the spots.       *)
LEMMA AsManyGone ==
    ASSUME lists \in ListTable, sessions \in SessionTable, PaintsOK(lists, sessions),
           NEW s \in SessionSlot, NEW G \in SUBSET Spot, NEW l \in List,
           NEW mine, mine = {g \in GoneAt(sessions, s, G) :
                               g.list.slot = l /\ g.list.generation = lists[l].generation},
           NEW lost, lost = {q \in PaintersOf(sessions, l) : q[1] = s /\ q[2] \in G}
    PROVE  Cardinality(mine) = Cardinality(lost)
  <1> DEFINE f == [q \in lost |-> Known(sessions, s, q[2])]
  <1>1. IsFiniteSet(lost)
    <2>1. lost \in SUBSET PaintersOf(sessions, l)
      OBVIOUS
    <2> QED
      BY <2>1, Painters, FS_Subset
  <1>2. ASSUME NEW q \in lost
        PROVE  /\ q = <<s, q[2]>> /\ q[2] \in G /\ q[2] = <<q[2][1], q[2][2]>>
               /\ Known(sessions, s, q[2]) \in mine
    <2>1. /\ q \in SessionSlot \X Spot /\ ListAt(sessions, q).slot = l
          /\ q[1] = s /\ q[2] \in G
      BY DEF PaintersOf
    <2>2. q = <<s, q[2]>> /\ q[2] = <<q[2][1], q[2][2]>>
      BY <2>1 DEF Spot
    <2>3. ListAt(sessions, q) # NoList
      BY <2>1, ListAtType
    <2>4. lists[l].generation = ListAt(sessions, q).generation
      BY <2>1, <2>3 DEF PaintsOK
    <2>5. Known(sessions, s, q[2]) \in GoneAt(sessions, s, G)
      BY <2>1, <2>2, <2>3 DEF GoneAt
    <2>6. Known(sessions, s, q[2]).list = ListAt(sessions, q)
      BY <2>2 DEF Known
    <2> QED
      BY <2>1, <2>2, <2>4, <2>5, <2>6
  <1>3. ASSUME NEW g \in mine
        PROVE  \E q \in lost : Known(sessions, s, q[2]) = g
    <2>1. PICK p \in G : g = Known(sessions, s, p)
      BY DEF GoneAt
    <2>2. <<s, p>> \in SessionSlot \X Spot /\ g.list = ListAt(sessions, <<s, p>>)
      BY <2>1 DEF Known
    <2>3. <<s, p>> \in lost
      BY <2>2 DEF PaintersOf
    <2> QED
      BY <2>1, <2>3
  <1>4. f \in Bijection(lost, mine)
    <2>1. f \in [lost -> mine]
      BY <1>2
    <2>2. ASSUME NEW q \in lost, NEW r \in lost, f[q] = f[r]
          PROVE  q = r
      <3>1. Known(sessions, s, q[2]) = Known(sessions, s, r[2])
        BY <2>2
      <3>2. q[2][1] = r[2][1] /\ q[2][2] = r[2][2]
        BY <3>1 DEF Known
      <3>3. q = <<s, <<q[2][1], q[2][2]>>>> /\ r = <<s, <<r[2][1], r[2][2]>>>>
        BY <1>2
      <3> QED
        BY <3>2, <3>3
    <2>3. ASSUME NEW g \in mine PROVE \E q \in lost : f[q] = g
      <3>1. PICK q \in lost : Known(sessions, s, q[2]) = g
        BY <1>3
      <3> QED
        BY <3>1
    <2> HIDE DEF f
    <2> QED
      BY <2>1, <2>2, <2>3, Fun_IsBij
  <1>5. ExistsBijection(lost, mine)
    BY <1>4 DEF ExistsBijection
  <1> QED
    BY <1>1, <1>5, FS_Bijection

(* A session lets go of what it paints at the spots G.                          *)
LEMMA Unpaint ==
    ASSUME lists \in ListTable, sessions \in SessionTable, PaintsOK(lists, sessions),
           NEW s \in SessionSlot, NEW G \in SUBSET Spot,
           NEW gone, gone = GoneAt(sessions, s, G),
           NEW us \in SessionTable, \A t \in SessionSlot \ {s} : us[t] = sessions[t],
           \A p \in Spot : ListAt(us, <<s, p>>) =
                              IF p \in G THEN NoList ELSE ListAt(sessions, <<s, p>>),
           \A p \in Spot : ListAt(us, <<s, p>>) # NoList => p[2] \in us[s].custom,
           NEW ls, ls = Unpainted(gone)
    PROVE  /\ ls \in ListTable /\ PaintsOK(ls, us)
           /\ \A l \in List : ls[l].draws = lists[l].draws
  <1> DEFINE lost(l) == {q \in PaintersOf(sessions, l) : q[1] = s /\ q[2] \in G}
             mine(l) == {g \in gone : g.list.slot = l
                                      /\ g.list.generation = lists[l].generation}
             count(l) == Cardinality(mine(l))
  <1>1. ASSUME NEW l \in List
        PROVE  ls[l] = [lists[l] EXCEPT !.refs =
                          IF lists[l].live
                          THEN IF count(l) > lists[l].refs THEN 0 ELSE lists[l].refs - count(l)
                          ELSE lists[l].refs]
    BY DEF Unpainted
  <1>2. ASSUME NEW q \in SessionSlot \X Spot
        PROVE  ListAt(us, q) = IF q[1] = s /\ q[2] \in G THEN NoList ELSE ListAt(sessions, q)
    <2>1. q = <<q[1], q[2]>> /\ q[1] \in SessionSlot /\ q[2] \in Spot
      OBVIOUS
    <2>2. CASE q[1] = s
      BY <2>1, <2>2
    <2>3. CASE q[1] # s
      BY <2>1, <2>3 DEF ListAt
    <2> QED
      BY <2>2, <2>3
  <1>3. ASSUME NEW l \in List
        PROVE  /\ PaintersOf(us, l) = PaintersOf(sessions, l) \ lost(l)
               /\ lost(l) \subseteq PaintersOf(sessions, l)
    <2>1. NoList.slot # l
      BY ResourcesConstants DEF NoList
    <2> QED
      BY <1>2, <2>1 DEF PaintersOf
  <1>4. ASSUME NEW l \in List
        PROVE  /\ ls[l] \in DisplayList /\ ls[l].draws = lists[l].draws
               /\ ls[l].live = lists[l].live /\ ls[l].generation = lists[l].generation
               /\ ls[l].refs = Cardinality(PaintersOf(us, l))
    <2>1. lists[l] \in DisplayList
      BY DEF ListTable
    <2>2. /\ lists[l].refs = Cardinality(PaintersOf(sessions, l)) /\ lists[l].refs \in Nat
          /\ IsFiniteSet(PaintersOf(sessions, l))
      BY Painters DEF PaintsOK
    <2>3. count(l) = Cardinality(lost(l))
      BY AsManyGone
    <2>4. Cardinality(PaintersOf(us, l)) = lists[l].refs - count(l)
          /\ count(l) \in Nat /\ count(l) <= lists[l].refs
      <3> DEFINE L == lost(l)
                 P == PaintersOf(sessions, l)
      <3>1. L \in SUBSET P /\ PaintersOf(us, l) = P \ L
        BY <1>3
      <3>2. IsFiniteSet(P) /\ Cardinality(P) = lists[l].refs /\ Cardinality(L) = count(l)
        BY <2>2, <2>3
      <3> HIDE DEF L, P, count
      <3>3. IsFiniteSet(L) /\ Cardinality(L) <= Cardinality(P) /\ P \intersect L = L
        BY <3>1, <3>2, FS_Subset
      <3>4. Cardinality(L) \in Nat
        BY <3>3, FS_CardinalityType
      <3>5. Cardinality(P \ L) = Cardinality(P) - Cardinality(L)
        <4>1. Cardinality(P \ L) = Cardinality(P) - Cardinality(P \intersect L)
          BY <3>2, FS_Difference
        <4> QED
          BY <3>3, <4>1
      <3> QED
        BY <3>1, <3>2, <3>3, <3>4, <3>5
    <2>5. ~lists[l].live => count(l) = 0
      <3>1. ASSUME ~lists[l].live, NEW q \in PaintersOf(sessions, l) PROVE FALSE
        <4>1. q \in SessionSlot \X Spot /\ ListAt(sessions, q).slot = l
          BY DEF PaintersOf
        <4>2. ListAt(sessions, q) # NoList
          BY <4>1, ListAtType
        <4> QED
          BY <3>1, <4>1, <4>2 DEF PaintsOK
      <3>2. CASE lists[l].live
        BY <3>2
      <3>3. CASE ~lists[l].live
        <4>1. lost(l) = {}
          BY <3>1, <3>3
        <4> QED
          BY <2>3, <4>1, FS_EmptySet
      <3> QED
        BY <3>2, <3>3
    <2> HIDE DEF count
    <2>6. ls[l] = [lists[l] EXCEPT !.refs = lists[l].refs - count(l)]
      <3>1. CASE lists[l].live
        BY <1>1, <2>2, <2>4, <3>1
      <3>2. CASE ~lists[l].live
        <4>1. lists[l].refs - count(l) = lists[l].refs
          BY <2>2, <2>5, <3>2
        <4> QED
          BY <1>1, <3>2, <4>1
      <3> QED
        BY <3>1, <3>2
    <2>7. lists[l].refs - count(l) \in Nat
      BY <2>2, <2>4
    <2> QED
      BY <2>1, <2>4, <2>6, <2>7 DEF DisplayList
  <1>5. ls \in ListTable
    <2>1. ls = [l \in List |-> ls[l]]
      BY DEF Unpainted
    <2> QED
      BY <1>4, <2>1 DEF ListTable
  <1>6. ASSUME NEW q \in SessionSlot \X Spot, ListAt(us, q) # NoList
        PROVE  /\ ls[ListAt(us, q).slot].live
               /\ ls[ListAt(us, q).slot].generation = ListAt(us, q).generation
               /\ q[2][2] \in us[q[1]].custom
    <2>1. ListAt(us, q) = ListAt(sessions, q)
      BY <1>2, <1>6
    <2>2. /\ lists[ListAt(us, q).slot].live
          /\ lists[ListAt(us, q).slot].generation = ListAt(us, q).generation
          /\ q[2][2] \in sessions[q[1]].custom
      BY <1>6, <2>1 DEF PaintsOK
    <2>3. ListAt(us, q).slot \in List
      BY <1>6, ListAtType
    <2>4. q[2][2] \in us[q[1]].custom
      <3>1. q = <<q[1], q[2]>> /\ q[1] \in SessionSlot /\ q[2] \in Spot
        OBVIOUS
      <3>2. CASE q[1] = s
        BY <1>6, <3>1, <3>2
      <3>3. CASE q[1] # s
        BY <2>2, <3>1, <3>3
      <3> QED
        BY <3>2, <3>3
    <2> QED
      BY <1>4, <2>2, <2>3, <2>4
  <1> QED
    BY <1>4, <1>5, <1>6 DEF PaintsOK

(* A session paints spot p with list l instead of what it painted it with.       *)
LEMMA Repaint ==
    ASSUME lists \in ListTable, sessions \in SessionTable, PaintsOK(lists, sessions),
           NEW s \in SessionSlot, NEW p \in Spot, NEW q0, q0 = <<s, p>>,
           NEW l \in ListHandle, IsList(l), NEW old, old = ListAt(sessions, q0), old # l,
           p[2] \in sessions[s].custom,
           NEW us \in SessionTable, \A t \in SessionSlot \ {s} : us[t] = sessions[t],
           us[s].custom = sessions[s].custom, ListAt(us, q0) = l,
           \A r \in Spot \ {p} : ListAt(us, <<s, r>>) = ListAt(sessions, <<s, r>>),
           NEW ls, ls = Moved(l, old)
    PROVE  /\ ls \in ListTable /\ PaintsOK(ls, us)
           /\ \A k \in List : ls[k].draws = lists[k].draws
  <1>1. q0 \in SessionSlot \X Spot /\ q0[2] = p /\ q0[1] = s
    OBVIOUS
  <1>2. l.slot \in List /\ l.generation \in 1..ListGenerations
    BY DEF ListHandle
  <1>3. ASSUME NEW q \in SessionSlot \X Spot
        PROVE  /\ ListAt(us, q) = IF q = q0 THEN l ELSE ListAt(sessions, q)
               /\ us[q[1]].custom = sessions[q[1]].custom
    <2>1. q = <<q[1], q[2]>> /\ q[1] \in SessionSlot /\ q[2] \in Spot
      OBVIOUS
    <2>2. CASE q[1] = s
      BY <2>1, <2>2
    <2>3. CASE q[1] # s
      BY <2>1, <2>3 DEF ListAt
    <2> QED
      BY <2>2, <2>3
  <1>4. old # NoList =>
          /\ old.slot \in List /\ lists[old.slot].live
          /\ lists[old.slot].generation = old.generation
    BY <1>1, ListAtType DEF PaintsOK
  <1>5. old.slot \in List => old # NoList
    BY <1>1, ListAtType
  <1>6. old.slot # l.slot
    <2>1. SUFFICES ASSUME old.slot = l.slot PROVE FALSE
      OBVIOUS
    <2>2. old # NoList /\ old.generation = l.generation
      BY <1>2, <1>4, <1>5, <2>1 DEF IsList
    <2>3. old \in ListHandle
      BY <1>1, <2>2, ListAtType
    <2>4. old = l
      BY <2>1, <2>2, <2>3 DEF ListHandle
    <2> QED
      BY <2>4
  <1>7. ASSUME NEW k \in List
        PROVE  /\ ls[k] \in DisplayList /\ ls[k].draws = lists[k].draws
               /\ ls[k].live = lists[k].live /\ ls[k].generation = lists[k].generation
               /\ ls[k].refs = Cardinality(PaintersOf(us, k))
    <2> DEFINE P == PaintersOf(sessions, k)
               N == PaintersOf(us, k)
    <2>1. /\ lists[k] \in DisplayList /\ lists[k].refs = Cardinality(P) /\ IsFiniteSet(P)
          /\ Cardinality(P) \in Nat
      BY Painters DEF ListTable, PaintsOK
    <2>2. q0 \in P <=> k = old.slot
      BY <1>1 DEF PaintersOf
    <2>3. N = IF k = l.slot THEN P \union {q0} ELSE P \ {q0}
      BY <1>1, <1>3 DEF PaintersOf
    <2>4. ls[k] = [lists[k] EXCEPT !.refs =
                     IF k = l.slot THEN lists[k].refs + 1
                     ELSE IF k = old.slot /\ lists[k].live
                             /\ lists[k].generation = old.generation /\ lists[k].refs > 0
                     THEN lists[k].refs - 1 ELSE lists[k].refs]
      BY DEF Moved
    <2> HIDE DEF P, N
    <2>5. lists[k].refs \in Nat
      BY <2>1
    <2>6. ASSUME NEW n \in Nat, ls[k] = [lists[k] EXCEPT !.refs = n], n = Cardinality(N)
          PROVE  /\ ls[k] \in DisplayList /\ ls[k].draws = lists[k].draws
                 /\ ls[k].live = lists[k].live /\ ls[k].generation = lists[k].generation
                 /\ ls[k].refs = Cardinality(N)
      BY <2>1, <2>6 DEF DisplayList
    <2>7. CASE k = l.slot
      <3>1. N = P \union {q0} /\ q0 \notin P
        BY <1>6, <2>2, <2>3, <2>7
      <3>2. Cardinality(N) = lists[k].refs + 1
        <4>1. Cardinality(P \union {q0}) = Cardinality(P) + 1
          BY <2>1, <3>1, FS_AddElement
        <4> QED
          BY <2>1, <3>1, <4>1
      <3>3. ls[k] = [lists[k] EXCEPT !.refs = lists[k].refs + 1]
        BY <2>4, <2>7
      <3> QED
        BY <2>5, <2>6, <3>2, <3>3 DEF N
    <2>8. CASE k # l.slot /\ k = old.slot
      <3>1. N = P \ {q0} /\ q0 \in P
        BY <2>2, <2>3, <2>8
      <3>2. Cardinality(N) = lists[k].refs - 1
        <4>1. Cardinality(P \ {q0}) = Cardinality(P) - 1
          BY <2>1, <3>1, FS_RemoveElement
        <4> QED
          BY <2>1, <3>1, <4>1
      <3>3. lists[k].refs > 0
        <4>1. Cardinality(P) # 0
          BY <2>1, <3>1, FS_EmptySet
        <4> QED
          BY <2>1, <4>1
      <3>4. lists[k].live /\ lists[k].generation = old.generation
        BY <1>4, <1>5, <2>8
      <3>5. ls[k] = [lists[k] EXCEPT !.refs = lists[k].refs - 1]
        BY <2>4, <2>8, <3>3, <3>4
      <3>6. lists[k].refs - 1 \in Nat
        BY <2>5, <3>3
      <3> QED
        BY <2>6, <3>2, <3>5, <3>6 DEF N
    <2>9. CASE k # l.slot /\ k # old.slot
      <3>1. N = P
        BY <2>2, <2>3, <2>9
      <3>2. ls[k] = [lists[k] EXCEPT !.refs = lists[k].refs]
        BY <2>4, <2>9
      <3> QED
        BY <2>1, <2>5, <2>6, <3>1, <3>2 DEF N
    <2> QED
      BY <2>7, <2>8, <2>9
  <1>8. ls \in ListTable
    <2>1. ls = [k \in List |-> ls[k]]
      BY DEF Moved
    <2> QED
      BY <1>7, <2>1 DEF ListTable
  <1>9. ASSUME NEW q \in SessionSlot \X Spot, ListAt(us, q) # NoList
        PROVE  /\ ls[ListAt(us, q).slot].live
               /\ ls[ListAt(us, q).slot].generation = ListAt(us, q).generation
               /\ q[2][2] \in us[q[1]].custom
    <2>1. CASE q = q0
      BY <1>1, <1>2, <1>3, <1>7, <2>1 DEF IsList
    <2>2. CASE q # q0
      <3>1. ListAt(us, q) = ListAt(sessions, q)
        BY <1>3, <2>2
      <3>2. ListAt(us, q).slot \in List
        BY <1>9, ListAtType
      <3> QED
        BY <1>3, <1>7, <1>9, <3>1, <3>2 DEF PaintsOK
    <2> QED
      BY <2>1, <2>2
  <1> QED
    BY <1>7, <1>8, <1>9 DEF PaintsOK

(* Lists that are there as before, and counted as before.                        *)
LEMMA SamePaints ==
    ASSUME NEW ls, NEW us \in SessionTable, PaintsOK(ls, us), NEW new,
           \A l \in List :
              /\ new[l].refs = ls[l].refs
              /\ ls[l].refs # 0 /\ ls[l].live =>
                   new[l].live /\ new[l].generation = ls[l].generation
    PROVE  PaintsOK(new, us)
  <1>1. ASSUME NEW q \in SessionSlot \X Spot, ListAt(us, q) # NoList
        PROVE  /\ new[ListAt(us, q).slot].live
               /\ new[ListAt(us, q).slot].generation = ListAt(us, q).generation
               /\ q[2][2] \in us[q[1]].custom
    <2> DEFINE l == ListAt(us, q).slot
    <2>1. l \in List
      BY <1>1, ListAtType
    <2>2. ls[l].live /\ ls[l].generation = ListAt(us, q).generation
          /\ q[2][2] \in us[q[1]].custom /\ ls[l].refs = Cardinality(PaintersOf(us, l))
      BY <1>1, <2>1 DEF PaintsOK
    <2>3. q \in PaintersOf(us, l)
      BY DEF PaintersOf
    <2>4. ls[l].refs # 0
      BY <2>2, <2>3, Painters, FS_EmptySet
    <2> QED
      BY <2>1, <2>2, <2>4
  <1> QED
    BY <1>1 DEF PaintsOK

(* Sessions that paint the same.                                               *)
LEMMA SamePainters ==
    ASSUME NEW ls, NEW us, PaintsOK(ls, us), NEW new,
           \A s \in SessionSlot :
              /\ new[s].paint = us[s].paint /\ new[s].composite = us[s].composite
              /\ new[s].custom = us[s].custom
    PROVE  PaintsOK(ls, new)
  <1>1. ASSUME NEW q \in SessionSlot \X Spot
        PROVE  ListAt(new, q) = ListAt(us, q) /\ new[q[1]].custom = us[q[1]].custom
    BY DEF ListAt
  <1>2. ASSUME NEW l PROVE PaintersOf(new, l) = PaintersOf(us, l)
    BY <1>1 DEF PaintersOf
  <1> QED
    BY <1>1, <1>2 DEF PaintsOK

----------------------------------------------------------------------------
(* The inductive invariant, and one lemma for each operation.                *)

ResourcesOK ==
    /\ slots \in SlotTable /\ lists \in ListTable /\ sessions \in SessionTable
    /\ DrawnOK(slots, lists)
    /\ PaintsOK(lists, sessions)
    /\ FontsOK(slots, sessions, collections)

LEMMA FreeHasNoFonts ==
    ASSUME ResourcesOK, NEW s \in ResourceSlot, slots[s].kind = "free"
    PROVE  slots[s].fonts = NoFonts
  BY DEF ResourcesOK, FontsOK

LEMMA CreateKeeps ==
    ASSUME ResourcesOK, NEW kind \in Plain, Create(kind)
    PROVE  ResourcesOK'
  <1> DEFINE s == First(FreeSlots(kind))
  <1>1. kind \in Kind /\ FreeSlots(kind) # {} /\ slots' = Allocated(kind, NoFonts, {})
        /\ UNCHANGED <<lists, sessions, collections>>
    BY DEF Create, Kind
  <1>2. /\ s \in ResourceSlot /\ slots[s].kind = "free" /\ slots' \in SlotTable
        /\ slots'[s].kind = kind /\ slots'[s].fonts = NoFonts
        /\ \A t \in ResourceSlot \ {s} : slots'[t] = slots[t]
        /\ DrawnOK(slots', lists)
    BY <1>1, Allocation DEF ResourcesOK
  <1>3. slots[s].fonts = NoFonts
    BY <1>2, FreeHasNoFonts
  <1> HIDE DEF s
  <1>4. FontsOK(slots', sessions, collections)
    BY <1>2, <1>3, SameFonts DEF ResourcesOK
  <1> QED
    BY <1>1, <1>2, <1>4 DEF ResourcesOK

LEMMA CreateFailsKeeps ==
    ASSUME ResourcesOK, NEW kind \in Kind, CreateFails(kind)
    PROVE  ResourcesOK'
  <1> DEFINE s == First(FreeSlots(kind))
             T == Allocated(kind, NoFonts, {})
  <1>1. FreeSlots(kind) # {} /\ slots' = Released(T, s)
        /\ UNCHANGED <<lists, sessions, collections>>
    BY DEF CreateFails
  <1>2. /\ s \in ResourceSlot /\ slots[s].kind = "free" /\ T \in SlotTable
        /\ T[s].refs = 0
        /\ \A t \in ResourceSlot \ {s} : T[t] = slots[t]
        /\ DrawnOK(T, lists)
    BY <1>1, Allocation DEF ResourcesOK
  <1> HIDE DEF s, T
  <1>3. slots[s].fonts = NoFonts
    BY <1>2, FreeHasNoFonts
  <1>4. /\ slots' \in SlotTable /\ DrawnOK(slots', lists)
        /\ slots'[s].kind = "free" /\ slots'[s].fonts = NoFonts
        /\ \A t \in ResourceSlot \ {s} : slots'[t] = slots[t]
    BY <1>1, <1>2, Release DEF ResourcesOK
  <1>5. FontsOK(slots', sessions, collections)
    BY <1>2, <1>3, <1>4, SameFonts DEF ResourcesOK
  <1> QED
    BY <1>1, <1>4, <1>5 DEF ResourcesOK

LEMMA CreateFontsKeeps ==
    ASSUME ResourcesOK, CreateFonts
    PROVE  ResourcesOK'
  <1> DEFINE s == First(FreeSlots("fonts"))
  <1>1. /\ "fonts" \in Kind /\ FreeSlots("fonts") # {}
        /\ slots' = Allocated("fonts", Fresh, {}) /\ collections' = With({})
        /\ UNCHANGED <<lists, sessions>>
    BY DEF CreateFonts, Kind
  <1>2. Fresh \in Collection \ DOMAIN collections
    BY FreshIsNew DEF ResourcesOK
  <1>3. /\ s \in ResourceSlot /\ slots[s].kind = "free" /\ slots' \in SlotTable
        /\ slots'[s].kind = "fonts" /\ slots'[s].fonts = Fresh
        /\ \A t \in ResourceSlot \ {s} : slots'[t] = slots[t]
        /\ DrawnOK(slots', lists)
    BY <1>1, <1>2, Allocation DEF ResourcesOK
  <1> HIDE DEF s
  <1>4. slots[s].fonts = NoFonts
    BY <1>3, FreeHasNoFonts
  <1>5. collections' = Added(collections, Fresh, {})
    BY <1>1 DEF With, Added
  <1>6. FontsOK(slots', sessions, collections')
    BY <1>2, <1>3, <1>4, <1>5, OwnFonts DEF ResourcesOK
  <1> QED
    BY <1>1, <1>3, <1>6 DEF ResourcesOK

(* The collection of one of the program's slots.                                *)
LEMMA ItsFonts ==
    ASSUME ResourcesOK, NEW s \in ResourceSlot, slots[s].kind = "fonts"
    PROVE  /\ slots[s].fonts \in DOMAIN collections /\ slots[s].fonts \in Collection
           /\ collections[slots[s].fonts] \in SUBSET Font
  <1>1. slots[s].fonts # NoFonts
    BY DEF ResourcesOK, FontsOK
  <1>2. slots[s].fonts \in DOMAIN collections /\ slots[s].fonts \in Collection
    BY <1>1, HeldIsThere DEF ResourcesOK
  <1>3. collections \in [DOMAIN collections -> SUBSET Font]
    BY DEF ResourcesOK, FontsOK
  <1> QED
    BY <1>2, <1>3

LEMMA CreateTextKeeps ==
    ASSUME ResourcesOK, NEW fonts \in ResourceSlot, CreateText(fonts)
    PROVE  ResourcesOK'
  <1> DEFINE s == First(FreeSlots("text"))
             c == slots[fonts].fonts
  <1>1. /\ "text" \in Kind /\ FreeSlots("text") # {} /\ slots[fonts].kind = "fonts"
        /\ slots' = Allocated("text", c, collections[c])
        /\ UNCHANGED <<lists, sessions, collections>>
    BY DEF CreateText, Kind
  <1>2. c \in DOMAIN collections /\ c \in Collection /\ collections[c] \in SUBSET Font
    BY <1>1, ItsFonts
  <1>3. /\ s \in ResourceSlot /\ slots[s].kind = "free" /\ slots' \in SlotTable
        /\ slots'[s].kind = "text" /\ slots'[s].fonts = c /\ slots'[s].given = collections[c]
        /\ \A t \in ResourceSlot \ {s} : slots'[t] = slots[t]
        /\ DrawnOK(slots', lists)
    BY <1>1, <1>2, Allocation DEF ResourcesOK
  <1>4. slots[s].fonts = NoFonts
    BY <1>3, FreeHasNoFonts
  <1> HIDE DEF s, c
  <1>5. FontsOK(slots', sessions, collections)
    BY <1>2, <1>3, <1>4, TextFonts DEF ResourcesOK
  <1> QED
    BY <1>1, <1>3, <1>5 DEF ResourcesOK

LEMMA DestroyKeeps ==
    ASSUME ResourcesOK, NEW s \in ResourceSlot, NEW g, Destroy(s, g)
    PROVE  ResourcesOK'
  <1>1. /\ slots[s].kind # "free"
        /\ slots' = IF slots[s].refs = 0 THEN Released(slots, s)
                    ELSE [slots EXCEPT ![s].alive = FALSE]
        /\ collections' = Kept(slots', sessions, collections)
        /\ UNCHANGED <<lists, sessions>>
    BY DEF Destroy
  <1>2. slots' \in SlotTable /\ DrawnOK(slots', lists) /\ Passes(slots, slots')
    <2>1. CASE slots[s].refs = 0
      BY <1>1, <2>1, Release DEF ResourcesOK
    <2>2. CASE slots[s].refs # 0
      <3>1. /\ slots' = [slots EXCEPT ![s].alive = FALSE] /\ slots \in SlotTable
            /\ slots[s] \in Slot
        BY <1>1, <2>2 DEF ResourcesOK, SlotTable
      <3>2. slots[s].refs > 0
        BY <2>2, <3>1 DEF Slot
      <3>3. slots' \in SlotTable
        BY <3>1 DEF SlotTable, Slot
      <3>4. ASSUME NEW t \in ResourceSlot
            PROVE  /\ slots'[t].kind = slots[t].kind /\ slots'[t].fonts = slots[t].fonts
                   /\ slots'[t].generation = slots[t].generation
                   /\ slots'[t].refs = slots[t].refs /\ slots'[t].given = slots[t].given
                   /\ t # s => slots'[t].alive = slots[t].alive
        BY <3>1 DEF SlotTable, Slot
      <3>5. DrawnOK(slots', lists)
        <4>1. lists \in ListTable /\ DrawnOK(slots, lists)
          BY DEF ResourcesOK
        <4>2. ASSUME NEW t \in ResourceSlot
              PROVE  slots'[t].alive = slots[t].alive \/ (slots[t].kind # "free" /\ slots[t].refs > 0)
          BY <1>1, <3>2, <3>4
        <4> QED
          BY <3>4, <4>1, <4>2, SameSlots
      <3>6. Passes(slots, slots')
        BY <3>4 DEF Passes
      <3> QED
        BY <3>3, <3>5, <3>6
    <2> QED
      BY <2>1, <2>2
  <1>3. FontsOK(slots', sessions, collections')
    BY <1>1, <1>2, KeptFonts DEF ResourcesOK
  <1> QED
    BY <1>1, <1>2, <1>3 DEF ResourcesOK

(* A slot of the program's that refers to another collection from now on.        *)
LEMMA OtherFonts ==
    ASSUME ResourcesOK, NEW s \in ResourceSlot, slots[s].kind = "fonts", Shared(s),
           NEW F \in SUBSET Font, slots' = [slots EXCEPT ![s].fonts = Fresh],
           collections' = With(F), UNCHANGED <<lists, sessions>>
    PROVE  ResourcesOK'
  <1>1. Fresh \in Collection \ DOMAIN collections
    BY FreshIsNew DEF ResourcesOK
  <1>2. slots \in SlotTable /\ slots[s] \in Slot
    BY DEF ResourcesOK, SlotTable
  <1>3. slots' \in SlotTable
    BY <1>1, <1>2 DEF SlotTable, Slot
  <1>4. /\ \A t \in ResourceSlot \ {s} : slots'[t] = slots[t]
        /\ slots'[s].kind = slots[s].kind /\ slots'[s].generation = slots[s].generation
        /\ slots'[s].refs = slots[s].refs /\ slots'[s].alive = slots[s].alive
        /\ slots'[s].fonts = Fresh
    BY <1>2 DEF SlotTable, Slot
  <1>5. DrawnOK(slots', lists)
    <2>1. ASSUME NEW t \in ResourceSlot
          PROVE  /\ slots'[t].kind = slots[t].kind
                 /\ slots'[t].generation = slots[t].generation
                 /\ slots'[t].refs = slots[t].refs /\ slots'[t].alive = slots[t].alive
      BY <1>4
    <2>2. lists \in ListTable /\ DrawnOK(slots, lists)
      BY DEF ResourcesOK
    <2> QED
      BY <2>1, <2>2, SameSlots
  <1>6. collections' = Added(collections, Fresh, F)
    BY DEF With, Added
  <1>7. FontsOK(slots', sessions, collections')
    <2>1. slots[s].fonts = NoFonts \/ HoldersIn(slots, sessions, slots[s].fonts) # {s}
      BY DEF Shared
    <2>2. slots \in SlotTable /\ sessions \in SessionTable /\ FontsOK(slots, sessions, collections)
      BY DEF ResourcesOK
    <2>3. slots'[s].kind = "fonts" /\ slots'[s].fonts = Fresh
      BY <1>4
    <2>4. \A t \in ResourceSlot \ {s} : slots'[t] = slots[t]
      BY <1>4
    <2>5. PICK new : new = slots'
      OBVIOUS
    <2>6. /\ new[s].kind = "fonts" /\ new[s].fonts = Fresh
          /\ \A t \in ResourceSlot \ {s} : new[t] = slots[t]
      BY <2>3, <2>4, <2>5
    <2>7. FontsOK(new, sessions, collections')
      BY <1>1, <1>6, <2>1, <2>2, <2>6, OwnFonts
    <2> QED
      BY <2>5, <2>7
  <1> QED
    BY <1>3, <1>5, <1>7 DEF ResourcesOK

LEMMA AddFontKeeps ==
    ASSUME ResourcesOK, NEW s \in ResourceSlot, NEW font \in Font, AddFont(s, font)
    PROVE  ResourcesOK'
  <1>1. slots[s].kind = "fonts" /\ UNCHANGED <<lists, sessions>>
    BY DEF AddFont
  <1>2. collections[slots[s].fonts] \in SUBSET Font
    BY <1>1, ItsFonts
  <1>3. CASE Shared(s)
    <2>1. /\ slots' = [slots EXCEPT ![s].fonts = Fresh]
          /\ collections' = With(collections[slots[s].fonts] \union {font})
      BY <1>3 DEF AddFont
    <2>2. collections[slots[s].fonts] \union {font} \in SUBSET Font
      BY <1>2
    <2> QED
      BY <1>1, <1>3, <2>1, <2>2, OtherFonts
  <1>4. CASE ~Shared(s)
    <2>1. /\ collections' = [collections EXCEPT ![slots[s].fonts] = @ \union {font}]
          /\ UNCHANGED slots
      BY <1>4 DEF AddFont
    <2>2. FontsOK(slots, sessions, collections')
      BY <1>1, <1>4, <2>1, UnsharedFonts DEF ResourcesOK, Shared
    <2> QED
      BY <1>1, <2>1, <2>2 DEF ResourcesOK
  <1> QED
    BY <1>3, <1>4

LEMMA AddFontFailsKeeps ==
    ASSUME ResourcesOK, NEW s \in ResourceSlot, AddFontFails(s)
    PROVE  ResourcesOK'
  <1>1. slots[s].kind = "fonts"
    BY DEF AddFontFails
  <1>2. collections[slots[s].fonts] \in SUBSET Font
    BY <1>1, ItsFonts
  <1> QED
    BY <1>2, OtherFonts DEF AddFontFails

LEMMA ListCreateKeeps ==
    ASSUME ResourcesOK, ListCreate
    PROVE  ResourcesOK'
  <1>1. PICK l \in List : ~lists[l].live /\ lists' = [lists EXCEPT ![l].live = TRUE]
    BY DEF ListCreate
  <1>2. UNCHANGED <<slots, sessions, collections>>
    BY DEF ListCreate
  <1>3. lists \in ListTable /\ lists[l] \in DisplayList
    BY DEF ResourcesOK, ListTable
  <1>4. lists' \in ListTable
    BY <1>1, <1>3 DEF ListTable, DisplayList
  <1>5. ASSUME NEW k \in List
        PROVE  /\ lists'[k].draws = lists[k].draws /\ lists'[k].refs = lists[k].refs
               /\ lists'[k].generation = lists[k].generation
               /\ lists[k].live => lists'[k].live
    BY <1>1, <1>3 DEF ListTable, DisplayList
  <1>6. PICK new : new = lists'
    OBVIOUS
  <1>7. DrawnOK(slots, new)
    BY <1>5, <1>6, SameDrawers DEF ResourcesOK
  <1>8. PaintsOK(new, sessions)
    BY <1>5, <1>6, SamePaints DEF ResourcesOK
  <1> QED
    BY <1>2, <1>4, <1>6, <1>7, <1>8 DEF ResourcesOK

(* What the references and the fonts are after a list draws something else.      *)
LEMMA Redraws ==
    ASSUME ResourcesOK, NEW l \in List, NEW drawn \in SUBSET Handle, \A d \in drawn : Alive(d),
           slots' = Dropped(Taken(drawn), lists[l].draws),
           collections' = Kept(slots', sessions, collections),
           \A k \in List : lists'[k].draws = IF k = l THEN drawn ELSE lists[k].draws
    PROVE  /\ slots' \in SlotTable /\ DrawnOK(slots', lists')
           /\ FontsOK(slots', sessions, collections')
  <1>1. PICK ss, ls, old : ss = slots' /\ ls = lists' /\ old = lists[l].draws
    OBVIOUS
  <1>2. /\ ss = Dropped(Taken(drawn), old)
        /\ \A k \in List : ls[k].draws = IF k = l THEN drawn ELSE lists[k].draws
    BY <1>1
  <1>3. ss \in SlotTable /\ DrawnOK(ss, ls) /\ Passes(slots, ss)
    BY <1>1, <1>2, ExchangeKeepsDrawn DEF ResourcesOK
  <1>4. FontsOK(ss, sessions, Kept(ss, sessions, collections))
    BY <1>3, KeptFonts DEF ResourcesOK
  <1> QED
    BY <1>1, <1>3, <1>4

LEMMA TakenNothing == slots \in SlotTable => Taken({}) = slots
  BY DEF Taken, SlotTable

LEMMA ListDestroyKeeps ==
    ASSUME ResourcesOK, NEW h \in ListHandle, ListDestroy(h)
    PROVE  ResourcesOK'
  <1> DEFINE l == h.slot
  <1>1. /\ lists[l].live /\ lists[l].refs = 0
        /\ slots' = Dropped(slots, lists[l].draws)
        /\ lists' = [lists EXCEPT ![l] = [live |-> FALSE,
                                          generation |-> NextOfList(lists[l].generation),
                                          refs |-> 0, draws |-> {}]]
        /\ collections' = Kept(slots', sessions, collections)
        /\ UNCHANGED sessions
    BY DEF ListDestroy, IsList
  <1>2. l \in List /\ lists \in ListTable /\ lists[l] \in DisplayList /\ slots \in SlotTable
    BY DEF ListHandle, ResourcesOK, ListTable
  <1> HIDE DEF l
  <1>3. NextOfList(lists[l].generation) \in 1..ListGenerations
    BY <1>2, NextListGeneration DEF DisplayList
  <1>4. lists' \in ListTable
    BY <1>1, <1>2, <1>3 DEF ListTable, DisplayList
  <1>5. \A k \in List : lists'[k].draws = IF k = l THEN {} ELSE lists[k].draws
    BY <1>1, <1>2 DEF ListTable
  <1>6. /\ slots' \in SlotTable /\ DrawnOK(slots', lists')
        /\ FontsOK(slots', sessions, collections')
    <2>1. slots' = Dropped(Taken({}), lists[l].draws)
      BY <1>1, <1>2, TakenNothing
    <2> QED
      BY <1>1, <1>2, <1>5, <2>1, Redraws
  <1>7. PaintsOK(lists', sessions)
    <2>1. PICK new : new = lists'
      OBVIOUS
    <2>2. ASSUME NEW k \in List
          PROVE  /\ new[k].refs = lists[k].refs
                 /\ lists[k].refs # 0 /\ lists[k].live =>
                       new[k].live /\ new[k].generation = lists[k].generation
      BY <1>1, <1>2, <2>1 DEF ListTable
    <2>3. PaintsOK(new, sessions)
      BY <2>2, SamePaints DEF ResourcesOK
    <2> QED
      BY <2>1, <2>3
  <1> QED
    BY <1>1, <1>4, <1>6, <1>7 DEF ResourcesOK

(* A list that goes on with other commands.                                    *)
LEMMA Resubmitted ==
    ASSUME ResourcesOK, NEW l \in List, NEW drawn \in SUBSET Handle, \A d \in drawn : Alive(d),
           slots' = Dropped(Taken(drawn), lists[l].draws),
           lists' = [lists EXCEPT ![l].draws = drawn],
           collections' = Kept(slots', sessions, collections), UNCHANGED sessions
    PROVE  ResourcesOK'
  <1>1. lists \in ListTable /\ lists[l] \in DisplayList
    BY DEF ResourcesOK, ListTable
  <1>2. lists' \in ListTable
    BY <1>1 DEF ListTable, DisplayList
  <1>3. ASSUME NEW k \in List
        PROVE  /\ lists'[k].draws = IF k = l THEN drawn ELSE lists[k].draws
               /\ lists'[k].refs = lists[k].refs /\ lists'[k].live = lists[k].live
               /\ lists'[k].generation = lists[k].generation
    BY <1>1 DEF ListTable, DisplayList
  <1>4. /\ slots' \in SlotTable /\ DrawnOK(slots', lists')
        /\ FontsOK(slots', sessions, collections')
    BY <1>3, Redraws
  <1>5. PICK new : new = lists'
    OBVIOUS
  <1>6. PaintsOK(new, sessions)
    <2>1. ASSUME NEW k \in List
          PROVE  /\ new[k].refs = lists[k].refs
                 /\ lists[k].refs # 0 /\ lists[k].live =>
                       new[k].live /\ new[k].generation = lists[k].generation
      BY <1>3, <1>5
    <2>2. sessions \in SessionTable /\ PaintsOK(lists, sessions)
      BY DEF ResourcesOK
    <2> QED
      BY <2>1, <2>2, SamePaints
  <1> QED
    BY <1>2, <1>4, <1>5, <1>6 DEF ResourcesOK

LEMMA ListResetKeeps ==
    ASSUME ResourcesOK, NEW h \in ListHandle, ListReset(h)
    PROVE  ResourcesOK'
  <1>1. h.slot \in List /\ slots \in SlotTable
    BY DEF ListHandle, ResourcesOK
  <1>2. slots' = Dropped(Taken({}), lists[h.slot].draws)
    BY <1>1, TakenNothing DEF ListReset
  <1>3. PICK l \in List : l = h.slot
    BY <1>1
  <1>4. PICK drawn \in SUBSET Handle : drawn = {}
    OBVIOUS
  <1>5. /\ \A d \in drawn : Alive(d)
        /\ slots' = Dropped(Taken(drawn), lists[l].draws)
        /\ lists' = [lists EXCEPT ![l].draws = drawn]
        /\ collections' = Kept(slots', sessions, collections) /\ UNCHANGED sessions
    BY <1>2, <1>3, <1>4 DEF ListReset
  <1> QED
    BY <1>5, Resubmitted

LEMMA ListSubmitKeeps ==
    ASSUME ResourcesOK, NEW h \in ListHandle, NEW drawn \in SUBSET Handle, ListSubmit(h, drawn)
    PROVE  ResourcesOK'
  <1>1. h.slot \in List
    BY DEF ListHandle
  <1>2. PICK l \in List : l = h.slot
    BY <1>1
  <1>3. /\ \A d \in drawn : Alive(d)
        /\ slots' = Dropped(Taken(drawn), lists[l].draws)
        /\ lists' = [lists EXCEPT ![l].draws = drawn]
        /\ collections' = Kept(slots', sessions, collections) /\ UNCHANGED sessions
    BY <1>2 DEF ListSubmit
  <1> QED
    BY <1>3, Resubmitted

(* What was just retained is released as it was.                               *)
LEMMA TakenAndDropped ==
    ASSUME slots \in SlotTable, NEW drawn \in SUBSET Handle, \A d \in drawn : Alive(d)
    PROVE  Dropped(Taken(drawn), drawn) = slots
  <1> DEFINE T == Taken(drawn)
             back == Dropped(T, drawn)
  <1>1. ASSUME NEW s \in ResourceSlot PROVE back[s] = slots[s]
    <2> DEFINE Held == {h \in drawn : h.slot = s /\ Resolves(T, h) /\ T[s].refs > 0}
    <2>1. slots[s] \in Slot
      BY DEF SlotTable
    <2>2. back[s] = CASE Held = {} -> T[s]
                      [] Held # {} /\ T[s].refs = 1 /\ ~T[s].alive -> Released(T, s)[s]
                      [] OTHER -> [T[s] EXCEPT !.refs = T[s].refs - 1]
      BY DEF Dropped
    <2>3. CASE \E h \in drawn : h.slot = s
      <3>1. PICK h \in drawn : h.slot = s
        BY <2>3
      <3>2. T[s] = [slots[s] EXCEPT !.refs = slots[s].refs + 1]
        BY <2>3 DEF Taken
      <3>3. /\ T[s].kind = slots[s].kind /\ T[s].generation = slots[s].generation
            /\ T[s].alive = slots[s].alive /\ T[s].refs = slots[s].refs + 1
            /\ slots[s].refs \in Nat
        BY <2>1, <3>2 DEF Slot
      <3>4. /\ slots[s].kind = h.kind /\ slots[s].generation = h.generation /\ slots[s].alive
        BY <3>1 DEF Alive
      <3>5. h \in Held
        BY <3>1, <3>3, <3>4 DEF Resolves
      <3> HIDE DEF T, Held
      <3>6. back[s] = [T[s] EXCEPT !.refs = T[s].refs - 1]
        BY <2>2, <3>3, <3>4, <3>5
      <3>7. back[s] = [slots[s] EXCEPT !.refs = (slots[s].refs + 1) - 1]
        BY <2>1, <3>2, <3>3, <3>6 DEF Slot
      <3>8. (slots[s].refs + 1) - 1 = slots[s].refs
        BY <3>3
      <3> QED
        BY <2>1, <3>7, <3>8 DEF Slot
    <2>4. CASE ~\E h \in drawn : h.slot = s
      <3>1. T[s] = slots[s] /\ Held = {}
        BY <2>4 DEF Taken
      <3> HIDE DEF T, Held
      <3> QED
        BY <2>2, <3>1
    <2> QED
      BY <2>3, <2>4
  <1>2. back = [s \in ResourceSlot |-> back[s]]
    BY DEF Dropped
  <1> HIDE DEF back
  <1>3. back = slots
    BY <1>1, <1>2 DEF SlotTable
  <1> QED
    BY <1>3 DEF back

LEMMA ListRefusesKeeps ==
    ASSUME ResourcesOK, NEW h, NEW retained \in SUBSET Handle, ListRefuses(h, retained)
    PROVE  ResourcesOK'
  <1>1. slots' = slots
    BY TakenAndDropped DEF ListRefuses, ResourcesOK
  <1> QED
    BY <1>1 DEF ListRefuses, ResourcesOK

(* What Attached lists of the nodes of a session.                               *)
LEMMA AttachedAre ==
    ASSUME NEW us, NEW s, NEW nodes \in SUBSET Node
    PROVE  Attached(us[s], nodes) = GoneAt(us, s, {"paint", "composite"} \X nodes)
  <1> DEFINE G == {"paint", "composite"} \X nodes
  <1>1. ASSUME NEW g \in Attached(us[s], nodes) PROVE g \in GoneAt(us, s, G)
    <2>1. CASE \E n \in nodes : /\ us[s].paint[n] # NoList
                                /\ g = [of |-> "paint", node |-> n, list |-> us[s].paint[n]]
      <3>1. PICK n \in nodes : /\ us[s].paint[n] # NoList
                               /\ g = [of |-> "paint", node |-> n, list |-> us[s].paint[n]]
        BY <2>1
      <3>2. <<"paint", n>> \in G /\ ListAt(us, <<s, <<"paint", n>>>>) = us[s].paint[n]
        BY DEF ListAt
      <3>3. g = Known(us, s, <<"paint", n>>)
        BY <3>1, <3>2 DEF Known
      <3> QED
        BY <3>1, <3>2, <3>3 DEF GoneAt
    <2>2. CASE \E n \in nodes : /\ us[s].composite[n] # NoList
                                /\ g = [of |-> "composite", node |-> n,
                                        list |-> us[s].composite[n]]
      <3>1. PICK n \in nodes : /\ us[s].composite[n] # NoList
                               /\ g = [of |-> "composite", node |-> n,
                                       list |-> us[s].composite[n]]
        BY <2>2
      <3>2. /\ <<"composite", n>> \in G
            /\ ListAt(us, <<s, <<"composite", n>>>>) = us[s].composite[n]
        BY DEF ListAt
      <3>3. g = Known(us, s, <<"composite", n>>)
        BY <3>1, <3>2 DEF Known
      <3> QED
        BY <3>1, <3>2, <3>3 DEF GoneAt
    <2> QED
      BY <1>1, <2>1, <2>2 DEF Attached
  <1>2. ASSUME NEW g \in GoneAt(us, s, G) PROVE g \in Attached(us[s], nodes)
    <2>1. PICK p \in G : g = Known(us, s, p) /\ ListAt(us, <<s, p>>) # NoList
      BY DEF GoneAt
    <2>2. p[1] \in {"paint", "composite"} /\ p[2] \in nodes
      BY <2>1
    <2>3. CASE p[1] = "paint"
      BY <2>1, <2>2, <2>3 DEF Known, ListAt, Attached
    <2>4. CASE p[1] = "composite"
      BY <2>1, <2>2, <2>4 DEF Known, ListAt, Attached
    <2> QED
      BY <2>2, <2>3, <2>4
  <1> QED
    BY <1>1, <1>2

OfKind(gone, of) == {a \in gone : a.of = of}

LEMMA AttachedAt ==
    ASSUME NEW us, NEW s, NEW n \in Node, NEW of \in {"paint", "composite"}
    PROVE  OfKind(Attached(us[s], {n}), of) = GoneAt(us, s, {<<of, n>>})
  <1> DEFINE p == <<of, n>>
             G == {"paint", "composite"} \X {n}
  <1>1. Attached(us[s], {n}) = GoneAt(us, s, G)
    <2>1. {n} \in SUBSET Node
      OBVIOUS
    <2> QED
      BY <2>1, AttachedAre
  <1>2. ASSUME NEW q \in G, Known(us, s, q).of = of PROVE q = p
    BY <1>2 DEF Known
  <1>3. p \in G /\ Known(us, s, p).of = of
    BY DEF Known
  <1> HIDE DEF p, G
  <1>4. OfKind(GoneAt(us, s, G), of) = GoneAt(us, s, {p})
    BY <1>2, <1>3 DEF GoneAt, OfKind
  <1> QED
    BY <1>1, <1>4 DEF p

(* A session that lets go of the spots G, and keeps or lets go of its fonts.      *)
LEMMA LetsGo ==
    ASSUME ResourcesOK, NEW s \in SessionSlot, NEW G \in SUBSET Spot,
           lists' = Unpainted(GoneAt(sessions, s, G)), slots' = slots,
           sessions' \in SessionTable, \A t \in SessionSlot \ {s} : sessions'[t] = sessions[t],
           \A p \in Spot : ListAt(sessions', <<s, p>>) =
                              IF p \in G THEN NoList ELSE ListAt(sessions, <<s, p>>),
           \A p \in Spot : ListAt(sessions', <<s, p>>) # NoList => p[2] \in sessions'[s].custom,
           FontsOK(slots, sessions', collections')
    PROVE  ResourcesOK'
  <1>1. PICK gone, us, ls : /\ gone = GoneAt(sessions, s, G) /\ us = sessions'
                            /\ ls = lists'
    OBVIOUS
  <1>2. /\ ls = Unpainted(gone) /\ us \in SessionTable
        /\ \A t \in SessionSlot \ {s} : us[t] = sessions[t]
        /\ \A p \in Spot : ListAt(us, <<s, p>>) =
                              IF p \in G THEN NoList ELSE ListAt(sessions, <<s, p>>)
        /\ \A p \in Spot : ListAt(us, <<s, p>>) # NoList => p[2] \in us[s].custom
    BY <1>1
  <1>3. lists \in ListTable /\ sessions \in SessionTable /\ PaintsOK(lists, sessions)
    BY DEF ResourcesOK
  <1>4. /\ ls \in ListTable /\ PaintsOK(ls, us)
        /\ \A l \in List : ls[l].draws = lists[l].draws
    BY <1>1, <1>2, <1>3, Unpaint
  <1>5. DrawnOK(slots, ls)
    BY <1>4, SameDrawers DEF ResourcesOK
  <1> QED
    BY <1>1, <1>4, <1>5 DEF ResourcesOK

LEMMA SpotIs ==
    ASSUME NEW us, NEW s, NEW p \in Spot
    PROVE  /\ p[2] \in Node /\ p = <<p[1], p[2]>>
           /\ \/ p[1] = "paint" /\ ListAt(us, <<s, p>>) = us[s].paint[p[2]]
              \/ p[1] = "composite" /\ ListAt(us, <<s, p>>) = us[s].composite[p[2]]
  BY DEF Spot, ListAt

(* A painted node is a custom one.                                              *)
LEMMA PaintedIsCustom ==
    ASSUME ResourcesOK, NEW s \in SessionSlot, NEW p \in Spot,
           ListAt(sessions, <<s, p>>) # NoList
    PROVE  p[2] \in sessions[s].custom
  <1>1. <<s, p>> \in SessionSlot \X Spot
    OBVIOUS
  <1> QED
    BY <1>1 DEF ResourcesOK, PaintsOK

(* The fonts of a session that changes nothing about them.                       *)
LEMMA OtherSessionFonts ==
    ASSUME ResourcesOK, NEW us,
           \A u \in SessionSlot : us[u].fonts = sessions[u].fonts
                                  /\ us[u].given = sessions[u].given
    PROVE  FontsOK(slots, us, collections)
  BY SameFonts DEF ResourcesOK

LEMMA SessionCreateKeeps ==
    ASSUME ResourcesOK, NEW s \in SessionSlot, SessionCreate(s)
    PROVE  ResourcesOK'
  <1>1. /\ sessions' = [sessions EXCEPT ![s].live = TRUE]
        /\ UNCHANGED <<slots, lists, collections>>
        /\ sessions \in SessionTable /\ sessions[s] \in LayoutSession
    BY DEF SessionCreate, ResourcesOK, SessionTable
  <1>2. PICK us : us = sessions'
    OBVIOUS
  <1>3. us \in SessionTable
    BY <1>1, <1>2 DEF SessionTable, LayoutSession
  <1>4. \A t \in SessionSlot :
          /\ us[t].paint = sessions[t].paint /\ us[t].composite = sessions[t].composite
          /\ us[t].custom = sessions[t].custom /\ us[t].fonts = sessions[t].fonts
          /\ us[t].given = sessions[t].given
    BY <1>1, <1>2 DEF SessionTable, LayoutSession
  <1>5. PaintsOK(lists, us)
    BY <1>4, SamePainters DEF ResourcesOK
  <1>6. FontsOK(slots, us, collections)
    BY <1>4, OtherSessionFonts
  <1> QED
    BY <1>1, <1>2, <1>3, <1>5, <1>6 DEF ResourcesOK

LEMMA SetFontCollectionKeeps ==
    ASSUME ResourcesOK, NEW s \in SessionSlot, NEW fonts \in ResourceSlot,
           SetFontCollection(s, fonts)
    PROVE  ResourcesOK'
  <1> DEFINE c == slots[fonts].fonts
  <1>1. /\ sessions' = [sessions EXCEPT ![s].fonts = c, ![s].given = collections[c]]
        /\ UNCHANGED <<slots, lists, collections>>
        /\ sessions \in SessionTable /\ sessions[s] \in LayoutSession
        /\ sessions[s].fonts = NoFonts /\ slots[fonts].kind = "fonts"
    BY DEF SetFontCollection, ResourcesOK, SessionTable
  <1>2. c \in DOMAIN collections /\ c \in Collection /\ collections[c] \in SUBSET Font
    BY <1>1, ItsFonts
  <1>3. PICK us : us = sessions'
    OBVIOUS
  <1> HIDE DEF c
  <1>4. us \in SessionTable
    BY <1>1, <1>2, <1>3 DEF SessionTable, LayoutSession
  <1>5. /\ \A t \in SessionSlot \ {s} : us[t] = sessions[t]
        /\ us[s].paint = sessions[s].paint /\ us[s].composite = sessions[s].composite
        /\ us[s].custom = sessions[s].custom /\ us[s].fonts = c /\ us[s].given = collections[c]
    BY <1>1, <1>3 DEF SessionTable, LayoutSession
  <1>6. PaintsOK(lists, us)
    <2>1. ASSUME NEW t \in SessionSlot
          PROVE  /\ us[t].paint = sessions[t].paint /\ us[t].composite = sessions[t].composite
                 /\ us[t].custom = sessions[t].custom
      BY <1>5
    <2> QED
      BY <2>1, SamePainters DEF ResourcesOK
  <1>7. FontsOK(slots, us, collections)
    BY <1>1, <1>2, <1>5, SessionFonts DEF ResourcesOK
  <1> QED
    BY <1>1, <1>3, <1>4, <1>6, <1>7 DEF ResourcesOK

LEMMA SessionDestroyKeeps ==
    ASSUME ResourcesOK, NEW s \in SessionSlot, SessionDestroy(s)
    PROVE  ResourcesOK'
  <1>1. /\ lists' = Unpainted(Attached(sessions[s], Node))
        /\ sessions' = [sessions EXCEPT ![s] = NoSession]
        /\ collections' = Kept(slots, sessions', collections) /\ slots' = slots
        /\ sessions \in SessionTable
    BY DEF SessionDestroy, ResourcesOK
  <1>2. Attached(sessions[s], Node) = GoneAt(sessions, s, Spot)
    BY AttachedAre DEF Spot
  <1>3. NoSession \in LayoutSession
    BY DEF NoSession, NoPaint, LayoutSession
  <1>4. /\ sessions' \in SessionTable /\ sessions'[s] = NoSession
        /\ \A t \in SessionSlot \ {s} : sessions'[t] = sessions[t]
    BY <1>1, <1>3 DEF SessionTable
  <1>5. ASSUME NEW p \in Spot PROVE ListAt(sessions', <<s, p>>) = NoList
    BY <1>4, SpotIs DEF NoSession, NoPaint
  <1>6. PICK us : us = sessions'
    OBVIOUS
  <1>7. FontsOK(slots, us, Kept(slots, us, collections))
    <2>1. Passes(slots, slots)
      BY DEF Passes
    <2>2. ASSUME NEW u \in SessionSlot
          PROVE  \/ us[u].fonts = sessions[u].fonts /\ us[u].given = sessions[u].given
                 \/ us[u].fonts = NoFonts
      BY <1>4, <1>6 DEF NoSession
    <2> QED
      BY <1>4, <1>6, <2>1, <2>2, KeptFonts DEF ResourcesOK
  <1>8. FontsOK(slots, sessions', collections')
    BY <1>1, <1>6, <1>7
  <1>9. PICK G \in SUBSET Spot : G = Spot
    OBVIOUS
  <1>10. lists' = Unpainted(GoneAt(sessions, s, G))
    BY <1>1, <1>2, <1>9
  <1>11. \A p \in Spot : ListAt(sessions', <<s, p>>) =
                            IF p \in G THEN NoList ELSE ListAt(sessions, <<s, p>>)
    BY <1>5, <1>9
  <1>12. \A p \in Spot : ListAt(sessions', <<s, p>>) # NoList => p[2] \in sessions'[s].custom
    BY <1>5
  <1> QED
    BY <1>1, <1>4, <1>8, <1>10, <1>11, <1>12, LetsGo

(* A session that paints other spots and changes its custom nodes, if anything.   *)
Painting(s, custom, paint, composite) ==
    [sessions EXCEPT ![s].custom = custom, ![s].paint = paint, ![s].composite = composite]

LEMMA SessionPaints ==
    ASSUME ResourcesOK, NEW s \in SessionSlot, NEW custom \in SUBSET Node,
           NEW paint \in [Node -> ListHandle \union {NoList}],
           NEW composite \in [Node -> ListHandle \union {NoList}],
           NEW us, us = Painting(s, custom, paint, composite)
    PROVE  /\ us \in SessionTable /\ \A t \in SessionSlot \ {s} : us[t] = sessions[t]
           /\ us[s].custom = custom /\ us[s].paint = paint /\ us[s].composite = composite
           /\ FontsOK(slots, us, collections)
  <1>1. sessions \in SessionTable /\ sessions[s] \in LayoutSession
    BY DEF ResourcesOK, SessionTable
  <1>2. us \in SessionTable
    BY <1>1 DEF Painting, SessionTable, LayoutSession
  <1>3. /\ \A t \in SessionSlot \ {s} : us[t] = sessions[t]
        /\ us[s].custom = custom /\ us[s].paint = paint /\ us[s].composite = composite
        /\ us[s].fonts = sessions[s].fonts /\ us[s].given = sessions[s].given
    BY <1>1 DEF Painting, SessionTable, LayoutSession
  <1>4. FontsOK(slots, us, collections)
    <2>1. ASSUME NEW u \in SessionSlot
          PROVE  us[u].fonts = sessions[u].fonts /\ us[u].given = sessions[u].given
      BY <1>3
    <2> QED
      BY <2>1, OtherSessionFonts
  <1> QED
    BY <1>2, <1>3, <1>4

LEMMA PaintType ==
    ASSUME ResourcesOK, NEW s \in SessionSlot
    PROVE  /\ sessions \in SessionTable /\ sessions[s] \in LayoutSession
           /\ sessions[s].paint \in [Node -> ListHandle \union {NoList}]
           /\ sessions[s].composite \in [Node -> ListHandle \union {NoList}]
           /\ sessions[s].custom \in SUBSET Node
  BY DEF ResourcesOK, SessionTable, LayoutSession

LEMMA SubmitTreeKeeps ==
    ASSUME ResourcesOK, NEW s \in SessionSlot, NEW custom \in SUBSET Node,
           SubmitTree(s, custom)
    PROVE  ResourcesOK'
  <1> DEFINE nodes == Node \ custom
  <1>1. PICK G \in SUBSET Spot : G = {"paint", "composite"} \X nodes
    BY DEF Spot
  <1>2. PICK paint, composite : /\ paint = Without(sessions[s].paint, nodes)
                                /\ composite = Without(sessions[s].composite, nodes)
    OBVIOUS
  <1>3. lists' = Unpainted(GoneAt(sessions, s, G))
    <2>1. Attached(sessions[s], nodes) = GoneAt(sessions, s, G)
      BY <1>1, AttachedAre
    <2> QED
      BY <2>1 DEF SubmitTree
  <1>4. /\ slots' = slots /\ collections' = collections
        /\ sessions' = Painting(s, custom, paint, composite)
    BY <1>2, PaintType DEF SubmitTree, LayoutSession, Painting
  <1>5. /\ paint \in [Node -> ListHandle \union {NoList}]
        /\ composite \in [Node -> ListHandle \union {NoList}]
        /\ \A n \in Node : /\ paint[n] = IF n \in nodes THEN NoList ELSE sessions[s].paint[n]
                           /\ composite[n] = IF n \in nodes THEN NoList
                                             ELSE sessions[s].composite[n]
    BY <1>2, PaintType DEF Without
  <1>6. PICK us : us = sessions'
    OBVIOUS
  <1>7. /\ us \in SessionTable /\ \A t \in SessionSlot \ {s} : us[t] = sessions[t]
        /\ us[s].custom = custom /\ us[s].paint = paint /\ us[s].composite = composite
        /\ FontsOK(slots, us, collections)
    BY <1>4, <1>5, <1>6, SessionPaints
  <1>8. ASSUME NEW p \in Spot
        PROVE  /\ ListAt(us, <<s, p>>) = IF p \in G THEN NoList ELSE ListAt(sessions, <<s, p>>)
               /\ ListAt(us, <<s, p>>) # NoList => p[2] \in us[s].custom
    <2>1. p[2] \in Node /\ (p \in G <=> p[2] \in nodes)
      BY <1>1 DEF Spot
    <2> QED
      BY <1>5, <1>7, <2>1, SpotIs
  <1> QED
    BY <1>3, <1>4, <1>6, <1>7, <1>8, LetsGo

LEMMA ClearPaintsKeeps ==
    ASSUME ResourcesOK, NEW s \in SessionSlot, ClearPaints(s)
    PROVE  ResourcesOK'
  <1>1. PICK G \in SUBSET Spot : G = Spot
    OBVIOUS
  <1>2. lists' = Unpainted(GoneAt(sessions, s, G))
    BY <1>1, AttachedAre DEF ClearPaints, Spot
  <1>3. PICK us : us = sessions'
    OBVIOUS
  <1>4. PICK custom \in SUBSET Node : custom = sessions[s].custom
    BY PaintType
  <1>5. /\ slots' = slots /\ collections' = collections
        /\ us = Painting(s, custom, NoPaint, NoPaint)
    BY <1>3, <1>4, PaintType DEF ClearPaints, SessionTable, LayoutSession, Painting
  <1>6. NoPaint \in [Node -> ListHandle \union {NoList}]
    BY DEF NoPaint
  <1>7. /\ us \in SessionTable /\ \A t \in SessionSlot \ {s} : us[t] = sessions[t]
        /\ us[s].paint = NoPaint /\ us[s].composite = NoPaint
        /\ FontsOK(slots, us, collections)
    BY <1>5, <1>6, SessionPaints
  <1>8. ASSUME NEW p \in Spot PROVE ListAt(us, <<s, p>>) = NoList
    BY <1>7, SpotIs DEF NoPaint
  <1> QED
    BY <1>1, <1>2, <1>3, <1>5, <1>7, <1>8, LetsGo

(* One spot is let go of.                                                      *)
LEMMA ClearsSpot ==
    ASSUME ResourcesOK, NEW s \in SessionSlot, NEW p \in Spot,
           lists' = Unpainted(OfKind(Attached(sessions[s], {p[2]}), p[1])),
           NEW paint \in [Node -> ListHandle \union {NoList}],
           NEW composite \in [Node -> ListHandle \union {NoList}],
           \A n \in Node : /\ paint[n] = IF p = <<"paint", n>> THEN NoList
                                         ELSE sessions[s].paint[n]
                           /\ composite[n] = IF p = <<"composite", n>> THEN NoList
                                             ELSE sessions[s].composite[n],
           NEW custom \in SUBSET Node, custom = sessions[s].custom,
           sessions' = Painting(s, custom, paint, composite),
           slots' = slots, collections' = collections
    PROVE  ResourcesOK'
  <1>1. PICK G \in SUBSET Spot : G = {p}
    OBVIOUS
  <1>2. p[1] \in {"paint", "composite"} /\ p[2] \in Node /\ p = <<p[1], p[2]>>
    BY DEF Spot
  <1>3. lists' = Unpainted(GoneAt(sessions, s, G))
    <2>1. PICK of \in {"paint", "composite"}, n \in Node : of = p[1] /\ n = p[2]
      BY <1>2
    <2>2. OfKind(Attached(sessions[s], {n}), of) = GoneAt(sessions, s, {<<of, n>>})
      BY AttachedAt
    <2>3. {<<of, n>>} = G
      BY <1>1, <1>2, <2>1
    <2> QED
      BY <2>1, <2>2, <2>3
  <1>4. PICK us : us = sessions'
    OBVIOUS
  <1>5. /\ us \in SessionTable /\ \A t \in SessionSlot \ {s} : us[t] = sessions[t]
        /\ us[s].custom = sessions[s].custom
        /\ us[s].paint = paint /\ us[s].composite = composite
        /\ FontsOK(slots, us, collections)
    BY <1>4, SessionPaints
  <1>6. ASSUME NEW q \in Spot
        PROVE  ListAt(us, <<s, q>>) = IF q \in G THEN NoList ELSE ListAt(sessions, <<s, q>>)
    <2>1. q[2] \in Node /\ q = <<q[1], q[2]>>
      BY SpotIs
    <2>2. CASE q[1] = "paint"
      BY <1>1, <1>5, <2>1, <2>2 DEF ListAt
    <2>3. CASE q[1] = "composite"
      BY <1>1, <1>5, <2>1, <2>3 DEF ListAt
    <2> QED
      BY <2>2, <2>3, SpotIs
  <1>7. ASSUME NEW q \in Spot, ListAt(us, <<s, q>>) # NoList PROVE q[2] \in us[s].custom
    BY <1>5, <1>6, <1>7, PaintedIsCustom
  <1> QED
    BY <1>3, <1>4, <1>5, <1>6, <1>7, LetsGo, ZenonT(60)

LEMMA ClearPaintKeeps ==
    ASSUME ResourcesOK, NEW s \in SessionSlot, NEW n \in Node,
           ClearPaint(s, n) \/ ClearComposite(s, n)
    PROVE  ResourcesOK'
  <1>1. PICK custom \in SUBSET Node : custom = sessions[s].custom
    BY PaintType
  <1>2. slots' = slots /\ collections' = collections
    BY DEF ClearPaint, ClearComposite
  <1>3. CASE ClearPaint(s, n)
    <2>1. PICK paint, composite : /\ paint = [sessions[s].paint EXCEPT ![n] = NoList]
                                  /\ composite = sessions[s].composite
      OBVIOUS
    <2>2. PICK p \in Spot : p = <<"paint", n>>
      BY DEF Spot
    <2>3. lists' = Unpainted(OfKind(Attached(sessions[s], {p[2]}), p[1]))
      BY <1>3, <2>2 DEF ClearPaint, OfKind
    <2>4. sessions' = Painting(s, custom, paint, composite)
      BY <1>1, <1>3, <2>1, PaintType DEF ClearPaint, SessionTable, LayoutSession, Painting
    <2>5. /\ paint \in [Node -> ListHandle \union {NoList}]
          /\ composite \in [Node -> ListHandle \union {NoList}]
      BY <2>1, PaintType
    <2>6. ASSUME NEW m \in Node
          PROVE  /\ paint[m] = IF p = <<"paint", m>> THEN NoList ELSE sessions[s].paint[m]
                 /\ composite[m] = IF p = <<"composite", m>> THEN NoList
                                   ELSE sessions[s].composite[m]
      BY <2>1, <2>2, PaintType
    <2> QED
      BY <1>1, <1>2, <2>3, <2>4, <2>5, <2>6, ClearsSpot
  <1>4. CASE ClearComposite(s, n)
    <2>1. PICK paint, composite : /\ composite = [sessions[s].composite EXCEPT ![n] = NoList]
                                  /\ paint = sessions[s].paint
      OBVIOUS
    <2>2. PICK p \in Spot : p = <<"composite", n>>
      BY DEF Spot
    <2>3. lists' = Unpainted(OfKind(Attached(sessions[s], {p[2]}), p[1]))
      BY <1>4, <2>2 DEF ClearComposite, OfKind
    <2>4. sessions' = Painting(s, custom, paint, composite)
      BY <1>1, <1>4, <2>1, PaintType DEF ClearComposite, SessionTable, LayoutSession, Painting
    <2>5. /\ paint \in [Node -> ListHandle \union {NoList}]
          /\ composite \in [Node -> ListHandle \union {NoList}]
      BY <2>1, PaintType
    <2>6. ASSUME NEW m \in Node
          PROVE  /\ paint[m] = IF p = <<"paint", m>> THEN NoList ELSE sessions[s].paint[m]
                 /\ composite[m] = IF p = <<"composite", m>> THEN NoList
                                   ELSE sessions[s].composite[m]
      BY <2>1, <2>2, PaintType
    <2> QED
      BY <1>1, <1>2, <2>3, <2>4, <2>5, <2>6, ClearsSpot
  <1> QED
    BY <1>3, <1>4

(* One spot is painted with another list.                                      *)
LEMMA PaintsSpot ==
    ASSUME ResourcesOK, NEW s \in SessionSlot, NEW p \in Spot,
           NEW l \in ListHandle, IsList(l), p[2] \in sessions[s].custom,
           NEW old, old = ListAt(sessions, <<s, p>>), old # l, lists' = Moved(l, old),
           NEW paint \in [Node -> ListHandle \union {NoList}],
           NEW composite \in [Node -> ListHandle \union {NoList}],
           \A n \in Node : /\ paint[n] = IF p = <<"paint", n>> THEN l
                                         ELSE sessions[s].paint[n]
                           /\ composite[n] = IF p = <<"composite", n>> THEN l
                                             ELSE sessions[s].composite[n],
           NEW custom \in SUBSET Node, custom = sessions[s].custom,
           sessions' = Painting(s, custom, paint, composite),
           slots' = slots, collections' = collections
    PROVE  ResourcesOK'
  <1>1. PICK us, ls, q0 : us = sessions' /\ ls = lists' /\ q0 = <<s, p>>
    OBVIOUS
  <1>2. /\ us \in SessionTable /\ \A t \in SessionSlot \ {s} : us[t] = sessions[t]
        /\ us[s].custom = sessions[s].custom
        /\ us[s].paint = paint /\ us[s].composite = composite
        /\ FontsOK(slots, us, collections)
    BY <1>1, SessionPaints
  <1>3. ASSUME NEW q \in Spot
        PROVE  ListAt(us, <<s, q>>) = IF q = p THEN l ELSE ListAt(sessions, <<s, q>>)
    <2>1. q[2] \in Node /\ q = <<q[1], q[2]>>
      BY SpotIs
    <2>2. CASE q[1] = "paint"
      BY <1>2, <2>1, <2>2 DEF ListAt
    <2>3. CASE q[1] = "composite"
      BY <1>2, <2>1, <2>3 DEF ListAt
    <2> QED
      BY <2>2, <2>3, SpotIs
  <1>4. lists \in ListTable /\ sessions \in SessionTable /\ PaintsOK(lists, sessions)
    BY DEF ResourcesOK
  <1>5. /\ ls = Moved(l, old) /\ old = ListAt(sessions, q0) /\ ListAt(us, q0) = l
        /\ \A r \in Spot \ {p} : ListAt(us, <<s, r>>) = ListAt(sessions, <<s, r>>)
    BY <1>1, <1>3
  <1>6. /\ ls \in ListTable /\ PaintsOK(ls, us)
        /\ \A k \in List : ls[k].draws = lists[k].draws
    BY <1>1, <1>2, <1>4, <1>5, Repaint
  <1>7. DrawnOK(slots, ls)
    BY <1>6, SameDrawers DEF ResourcesOK
  <1> QED
    BY <1>1, <1>2, <1>6, <1>7 DEF ResourcesOK

LEMMA SetPaintKeeps ==
    ASSUME ResourcesOK, NEW s \in SessionSlot, NEW n \in Node, NEW l \in ListHandle,
           SetPaint(s, n, l) \/ SetComposite(s, n, l)
    PROVE  ResourcesOK'
  <1>1. PICK custom \in SUBSET Node : custom = sessions[s].custom
    BY PaintType
  <1>2. slots' = slots /\ collections' = collections /\ IsList(l) /\ n \in sessions[s].custom
    BY DEF SetPaint, SetComposite
  <1>3. CASE SetPaint(s, n, l)
    <2>1. PICK paint, composite, old : /\ paint = [sessions[s].paint EXCEPT ![n] = l]
                                       /\ composite = sessions[s].composite
                                       /\ old = sessions[s].paint[n]
      OBVIOUS
    <2>2. PICK p \in Spot : p = <<"paint", n>>
      BY DEF Spot
    <2>3. /\ old = ListAt(sessions, <<s, p>>) /\ old # l /\ lists' = Moved(l, old)
          /\ p[2] \in sessions[s].custom
      BY <1>2, <1>3, <2>1, <2>2 DEF SetPaint, ListAt
    <2>4. sessions' = Painting(s, custom, paint, composite)
      BY <1>1, <1>3, <2>1, PaintType DEF SetPaint, SessionTable, LayoutSession, Painting
    <2>5. /\ paint \in [Node -> ListHandle \union {NoList}]
          /\ composite \in [Node -> ListHandle \union {NoList}]
      BY <2>1, PaintType
    <2>6. ASSUME NEW m \in Node
          PROVE  /\ paint[m] = IF p = <<"paint", m>> THEN l ELSE sessions[s].paint[m]
                 /\ composite[m] = IF p = <<"composite", m>> THEN l
                                   ELSE sessions[s].composite[m]
      BY <2>1, <2>2, PaintType
    <2> QED
      BY <1>1, <1>2, <2>3, <2>4, <2>5, <2>6, PaintsSpot
  <1>4. CASE SetComposite(s, n, l)
    <2>1. PICK paint, composite, old : /\ composite = [sessions[s].composite EXCEPT ![n] = l]
                                       /\ paint = sessions[s].paint
                                       /\ old = sessions[s].composite[n]
      OBVIOUS
    <2>2. PICK p \in Spot : p = <<"composite", n>>
      BY DEF Spot
    <2>3. /\ old = ListAt(sessions, <<s, p>>) /\ old # l /\ lists' = Moved(l, old)
          /\ p[2] \in sessions[s].custom
      BY <1>2, <1>4, <2>1, <2>2 DEF SetComposite, ListAt
    <2>4. sessions' = Painting(s, custom, paint, composite)
      BY <1>1, <1>4, <2>1, PaintType DEF SetComposite, SessionTable, LayoutSession, Painting
    <2>5. /\ paint \in [Node -> ListHandle \union {NoList}]
          /\ composite \in [Node -> ListHandle \union {NoList}]
      BY <2>1, PaintType
    <2>6. ASSUME NEW m \in Node
          PROVE  /\ paint[m] = IF p = <<"paint", m>> THEN l ELSE sessions[s].paint[m]
                 /\ composite[m] = IF p = <<"composite", m>> THEN l
                                   ELSE sessions[s].composite[m]
      BY <2>1, <2>2, PaintType
    <2> QED
      BY <1>1, <1>2, <2>3, <2>4, <2>5, <2>6, PaintsSpot
  <1> QED
    BY <1>3, <1>4

----------------------------------------------------------------------------
(* The theorems.                                                             *)

LEMMA ResourcesStart == ASSUME ResourcesInit PROVE ResourcesOK
  <1>1. slots \in SlotTable
    <2>1. 1 \in SlotGeneration
      BY ResourcesConstants DEF SlotGeneration
    <2> QED
      BY <2>1 DEF ResourcesInit, SlotTable, Slot, Empty
  <1>2. lists \in ListTable
    <2>1. 1 \in 1..ListGenerations
      BY ResourcesConstants
    <2> QED
      BY <2>1 DEF ResourcesInit, ListTable, DisplayList
  <1>3. sessions \in SessionTable
    BY DEF ResourcesInit, SessionTable, LayoutSession, NoSession, NoPaint
  <1>4. DrawnOK(slots, lists)
    <2>1. ASSUME NEW s \in ResourceSlot PROVE SlotOK(slots[s], DrawersOf(lists, s))
      <3>1. DrawersOf(lists, s) = {}
        BY DEF ResourcesInit, DrawersOf
      <3>2. slots[s].refs = 0 /\ slots[s].kind = "free" /\ ~slots[s].alive
        BY DEF ResourcesInit, Empty
      <3> QED
        BY <3>1, <3>2, FS_EmptySet DEF SlotOK
    <2> QED
      BY <2>1 DEF DrawnOK, ResourcesInit
  <1>5. PaintsOK(lists, sessions)
    <2>1. ASSUME NEW q \in SessionSlot \X Spot PROVE ListAt(sessions, q) = NoList
      <3>1. q[1] \in SessionSlot /\ q[2][2] \in Node
        BY DEF Spot
      <3> QED
        BY <3>1 DEF ListAt, ResourcesInit, NoSession, NoPaint
    <2>2. ASSUME NEW l \in List PROVE PaintersOf(sessions, l) = {}
      BY <2>1, ResourcesConstants DEF PaintersOf, NoList
    <2>3. ASSUME NEW l \in List PROVE lists[l].refs = 0
      BY DEF ResourcesInit
    <2> QED
      BY <2>1, <2>2, <2>3, FS_EmptySet DEF PaintsOK
  <1>6. FontsOK(slots, sessions, collections)
    <2>1. /\ \A s \in ResourceSlot : slots[s].fonts = NoFonts /\ slots[s].kind = "free"
          /\ \A u \in SessionSlot : sessions[u].fonts = NoFonts
          /\ DOMAIN collections = {} /\ collections \in [{} -> SUBSET Font]
      BY DEF ResourcesInit, Empty, NoSession
    <2>2. ASSUME NEW c \in Collection PROVE HoldersIn(slots, sessions, c) = {}
      BY <2>1, CollectionNumbers DEF HoldersIn
    <2> QED
      BY <2>1, <2>2 DEF FontsOK
  <1> QED
    BY <1>1, <1>2, <1>3, <1>4, <1>5, <1>6 DEF ResourcesOK

LEMMA ResourcesStep == ASSUME ResourcesOK, [ResourcesNext]_resourcesVars PROVE ResourcesOK'
  <1>1. CASE UNCHANGED resourcesVars
    BY <1>1 DEF resourcesVars, ResourcesOK
  <1>2. CASE \E kind \in Plain : Create(kind)
    BY <1>2, CreateKeeps
  <1>3. CASE \E kind \in Kind : CreateFails(kind)
    BY <1>3, CreateFailsKeeps
  <1>4. CASE CreateFonts
    BY <1>4, CreateFontsKeeps
  <1>5. CASE \E f \in ResourceSlot : CreateText(f)
    BY <1>5, CreateTextKeeps
  <1>6. CASE \E s \in ResourceSlot, g \in SlotGeneration : Destroy(s, g)
    BY <1>6, DestroyKeeps
  <1>7. CASE \E s \in ResourceSlot, f \in Font : AddFont(s, f)
    BY <1>7, AddFontKeeps
  <1>8. CASE \E s \in ResourceSlot : AddFontFails(s)
    BY <1>8, AddFontFailsKeeps
  <1>9. CASE ListCreate
    BY <1>9, ListCreateKeeps
  <1>10. CASE \E h \in ListHandle : ListDestroy(h) \/ ListReset(h)
    BY <1>10, ListDestroyKeeps, ListResetKeeps
  <1>11. CASE \E h \in ListHandle, drawn \in SUBSET {d \in Handle : Alive(d)} :
                ListSubmit(h, drawn) \/ ListRefuses(h, drawn)
    <2>1. PICK h \in ListHandle, drawn \in SUBSET Handle :
                ListSubmit(h, drawn) \/ ListRefuses(h, drawn)
      BY <1>11
    <2> QED
      BY <2>1, ListSubmitKeeps, ListRefusesKeeps
  <1>12. ASSUME NEW s \in SessionSlot,
                \/ SessionCreate(s) \/ SessionDestroy(s) \/ ClearPaints(s)
                \/ \E f \in ResourceSlot : SetFontCollection(s, f)
                \/ \E custom \in SUBSET Node : SubmitTree(s, custom)
                \/ \E n \in Node : ClearPaint(s, n) \/ ClearComposite(s, n)
                \/ \E n \in Node, l \in ListHandle : SetPaint(s, n, l) \/ SetComposite(s, n, l)
         PROVE  ResourcesOK'
    BY <1>12, SessionCreateKeeps, SessionDestroyKeeps, ClearPaintsKeeps, SetFontCollectionKeeps,
       SubmitTreeKeeps, ClearPaintKeeps, SetPaintKeeps
  <1> QED
    BY <1>1, <1>2, <1>3, <1>4, <1>5, <1>6, <1>7, <1>8, <1>9, <1>10, <1>11, <1>12
       DEF ResourcesNext

LEMMA ResourcesInvariant == ResourcesSpec => []ResourcesOK
  <1>1. ResourcesInit => ResourcesOK
    BY ResourcesStart
  <1>2. ResourcesOK /\ [ResourcesNext]_resourcesVars => ResourcesOK'
    BY ResourcesStep
  <1> QED
    BY <1>1, <1>2, PTL DEF ResourcesSpec

(* The tables keep their types in every behaviour; a slot is never counted more  *)
(* often than there are lists.                                               *)
THEOREM ResourcesTypeCorrect == ResourcesSpec => []ResourcesTypeOK
  <1>1. ResourcesOK => ResourcesTypeOK
    <2> SUFFICES ASSUME ResourcesOK PROVE ResourcesTypeOK
      OBVIOUS
    <2>1. slots \in [ResourceSlot ->
             [kind : Kind \union {"free"}, generation : SlotGeneration, alive : BOOLEAN,
              refs : 0..Cardinality(List), fonts : Collection \union {NoFonts},
              given : SUBSET Font]]
      <3>1. ASSUME NEW s \in ResourceSlot PROVE slots[s].refs \in 0..Cardinality(List)
        BY Drawers DEF ResourcesOK, DrawnOK, SlotOK
      <3> QED
        BY <3>1 DEF ResourcesOK, SlotTable, Slot
    <2>2. lists \in [List -> [live : BOOLEAN, generation : 1..ListGenerations, refs : Nat,
                              draws : SUBSET Handle]]
      BY DEF ResourcesOK, ListTable, DisplayList
    <2>3. sessions \in [SessionSlot -> [live : BOOLEAN, custom : SUBSET Node,
                                        paint : [Node -> ListHandle \union {NoList}],
                                        composite : [Node -> ListHandle \union {NoList}],
                                        fonts : Collection \union {NoFonts},
                                        given : SUBSET Font]]
      BY DEF ResourcesOK, SessionTable, LayoutSession
    <2>4. /\ DOMAIN collections \subseteq Collection
          /\ \A c \in DOMAIN collections : collections[c] \subseteq Font
      BY DEF ResourcesOK, FontsOK
    <2> QED
      BY <2>1, <2>2, <2>3, <2>4 DEF ResourcesTypeOK
  <1> QED
    BY <1>1, ResourcesInvariant, PTL

(* What was given to somebody stays as it was given while they have it: what a    *)
(* display list draws, what a node is painted with, and the fonts of a text      *)
(* layout or a session.                                                      *)
THEOREM UsersKeep == ResourcesSpec => []UsersKeepWhatTheyWereGiven
  <1>1. ResourcesOK => UsersKeepWhatTheyWereGiven
    <2> SUFFICES ASSUME ResourcesOK PROVE UsersKeepWhatTheyWereGiven
      OBVIOUS
    <2>1. ListsKeepWhatTheyDraw
      BY DEF ResourcesOK, DrawnOK, SlotOK, DrawersOf, ListsKeepWhatTheyDraw
    <2>2. ASSUME NEW s \in SessionSlot, NEW n \in Node,
                 NEW l \in {sessions[s].paint[n], sessions[s].composite[n]} \ {NoList}
          PROVE  IsList(l) /\ n \in sessions[s].custom
      <3>1. PICK p \in Spot : p[2] = n /\ l = ListAt(sessions, <<s, p>>)
        <4>1. <<"paint", n>> \in Spot /\ <<"composite", n>> \in Spot
          BY DEF Spot
        <4>2. /\ ListAt(sessions, <<s, <<"paint", n>>>>) = sessions[s].paint[n]
              /\ ListAt(sessions, <<s, <<"composite", n>>>>) = sessions[s].composite[n]
          BY DEF ListAt
        <4> QED
          BY <4>1, <4>2
      <3>2. <<s, p>> \in SessionSlot \X Spot /\ ListAt(sessions, <<s, p>>) # NoList
        BY <3>1
      <3> QED
        BY <3>1, <3>2 DEF ResourcesOK, PaintsOK, IsList
    <2>3. ASSUME NEW l \in List
          PROVE  lists[l].refs
                   = Cardinality(UNION {{s} \X SpotsOf(sessions[s], l) : s \in SessionSlot})
      <3>1. PaintersOf(sessions, l) = UNION {{s} \X SpotsOf(sessions[s], l) : s \in SessionSlot}
        BY PaintersAreCounted
      <3> QED
        BY <3>1 DEF ResourcesOK, PaintsOK
    <2>4. PaintsHoldTheirLists
      BY <2>2, <2>3 DEF PaintsHoldTheirLists
    <2>5. UsersKeepTheirFonts
      BY DEF ResourcesOK, FontsOK, UsersKeepTheirFonts
    <2> QED
      BY <2>1, <2>4, <2>5 DEF UsersKeepWhatTheyWereGiven
  <1> QED
    BY <1>1, ResourcesInvariant, PTL
============================================================================
