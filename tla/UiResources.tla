---------------------------- MODULE UiResources ----------------------------
(***************************************************************************)
(* The registries of the UI's C interface: resources in generational slots,  *)
(* display lists that retain the resources they draw, layout sessions whose   *)
(* nodes are painted by display lists, and the font collections that text    *)
(* layouts and sessions share.  Every operation runs under the mutexes of the *)
(* registries it touches, so each is one step; nothing but the tables keeps a *)
(* slot from being reused under somebody who still names it.                 *)
(*                                                                         *)
(* What a resource holds is left out, except for the fonts of a collection.  *)
(***************************************************************************)
EXTENDS Naturals, FiniteSets

CONSTANTS
    Plain,          \* the kinds of resources that hold no other: paths, paints, images, targets
    ResourceSlot,   \* the slots of the resource table
    Reserved,       \* slot one, which no render target takes
    List,           \* the slots of the display list table
    SessionSlot,    \* the slots of the layout session table
    Node,           \* the nodes of a session's tree
    Font,           \* the fonts that may be added to a collection
    Generations,    \* how many generations a resource's slot counts before it starts over
    ListGenerations \* and how many a list's slot counts

Kind == Plain \union {"text", "fonts"}
Drawable == Kind \ {"fonts"}

(* No handle names slot "none", and the kinds of Plain are not among the others. *)
ASSUME ResourcesConstants ==
    /\ Plain \intersect {"text", "fonts", "free"} = {}
    /\ ResourceSlot \subseteq Nat \ {0} /\ IsFiniteSet(ResourceSlot) /\ Reserved \in ResourceSlot
    /\ SessionSlot \subseteq Nat \ ResourceSlot /\ IsFiniteSet(SessionSlot)
    /\ IsFiniteSet(List) /\ "none" \notin List
    /\ IsFiniteSet(Node) /\ IsFiniteSet(Font)
    /\ Generations \in Nat \ {0} /\ ListGenerations \in Nat \ {0}

VARIABLES
    slots,          \* the resource table
    lists,          \* the display list table
    sessions,       \* the session table
    collections     \* the font collections that are referred to, and their fonts

resourcesVars == <<slots, lists, sessions, collections>>

SlotGeneration == 1..Generations
Handle == [kind : Drawable, slot : ResourceSlot, generation : SlotGeneration]
ListHandle == [slot : List, generation : 1..ListGenerations]
NoList == [slot |-> "none", generation |-> 0]
NoFonts == 0
Collection == 1..(Cardinality(ResourceSlot) + Cardinality(SessionSlot) + 1)

NextOf(generation) == (generation % Generations) + 1
NextOfList(generation) == (generation % ListGenerations) + 1
(* What a slot holds; `given` are the fonts its collection had when a text       *)
(* layout took it (history).                                                 *)
Empty(generation) == [kind |-> "free", generation |-> generation, alive |-> FALSE, refs |-> 0,
                      fonts |-> NoFonts, given |-> {}]

ResourcesTypeOK ==
    /\ slots \in [ResourceSlot ->
           [kind : Kind \union {"free"}, generation : SlotGeneration, alive : BOOLEAN,
            refs : 0..Cardinality(List), fonts : Collection \union {NoFonts},
            given : SUBSET Font]]
    /\ lists \in [List -> [live : BOOLEAN, generation : 1..ListGenerations, refs : Nat,
                           draws : SUBSET Handle]]
    /\ sessions \in [SessionSlot -> [live : BOOLEAN, custom : SUBSET Node,
                                 paint : [Node -> ListHandle \union {NoList}],
                                 composite : [Node -> ListHandle \union {NoList}],
                                 fonts : Collection \union {NoFonts}, given : SUBSET Font]]
    /\ DOMAIN collections \subseteq Collection
    /\ \A c \in DOMAIN collections : collections[c] \subseteq Font

NoPaint == [n \in Node |-> NoList]
NoSession == [live |-> FALSE, custom |-> {}, paint |-> NoPaint, composite |-> NoPaint,
              fonts |-> NoFonts, given |-> {}]

ResourcesInit ==
    /\ slots = [s \in ResourceSlot |-> Empty(1)]
    /\ lists = [l \in List |-> [live |-> FALSE, generation |-> 1, refs |-> 0, draws |-> {}]]
    /\ sessions = [s \in SessionSlot |-> NoSession]
    /\ collections = [c \in {} |-> {}]

----------------------------------------------------------------------------
(* Shared pointers: a collection is there as long as somebody holds it. *)

HoldersIn(ss, us, c) ==
    {s \in ResourceSlot : ss[s].fonts = c} \union {u \in SessionSlot : us[u].fonts = c}
Kept(ss, us, cs) == [c \in {c \in DOMAIN cs : HoldersIn(ss, us, c) # {}} |-> cs[c]]
Fresh == CHOOSE c \in Collection : c \notin DOMAIN collections
With(fonts) == [c \in DOMAIN collections \union {Fresh} |->
                  IF c = Fresh THEN fonts ELSE collections[c]]

----------------------------------------------------------------------------
(* Resources. *)

Alive(h) == /\ slots[h.slot].kind = h.kind /\ slots[h.slot].generation = h.generation
            /\ slots[h.slot].alive
Resolves(table, h) == table[h.slot].kind = h.kind /\ table[h.slot].generation = h.generation

(* release_resource_slot: the slot's next handle has another generation. *)
Released(table, s) ==
    [table EXCEPT ![s] = Empty(NextOf(table[s].generation))]

(* allocate_resource takes the first free slot, past the reserved one for a     *)
(* render target; with none there is the error NKUI_ERROR_RESOURCE_LIMIT.     *)
FreeSlots(kind) ==
    {s \in ResourceSlot : slots[s].kind = "free" /\ (kind = "target" => s # Reserved)}
First(S) == CHOOSE s \in S : \A t \in S : s <= t
Allocated(kind, fonts, given) ==
    [slots EXCEPT ![First(FreeSlots(kind))] =
        [kind |-> kind, generation |-> @.generation, alive |-> TRUE, refs |-> 0,
         fonts |-> fonts, given |-> given]]

Create(kind) ==
    /\ FreeSlots(kind) # {}
    /\ slots' = Allocated(kind, NoFonts, {})
    /\ UNCHANGED <<lists, sessions, collections>>

(* What a slot was allocated for cannot be made: the path is empty, the text    *)
(* does not shape, the collection is not valid.                              *)
CreateFails(kind) ==
    /\ FreeSlots(kind) # {}
    /\ slots' = Released(Allocated(kind, NoFonts, {}), First(FreeSlots(kind)))
    /\ UNCHANGED <<lists, sessions, collections>>

CreateFonts ==
    /\ FreeSlots("fonts") # {}
    /\ slots' = Allocated("fonts", Fresh, {})
    /\ collections' = With({})
    /\ UNCHANGED <<lists, sessions>>

(* A text layout keeps the collection it is made with. *)
CreateText(fonts) ==
    /\ slots[fonts].kind = "fonts" /\ slots[fonts].alive
    /\ collections[slots[fonts].fonts] # {}
    /\ FreeSlots("text") # {}
    /\ slots' = Allocated("text", slots[fonts].fonts, collections[slots[fonts].fonts])
    /\ UNCHANGED <<lists, sessions, collections>>

DestroyAtOnce(s, generation) ==
    /\ slots[s].kind # "free" /\ slots[s].generation = generation /\ slots[s].alive
    /\ slots' = Released(slots, s)
    /\ collections' = Kept(slots', sessions, collections)
    /\ UNCHANGED <<lists, sessions>>

(* nkui_resource_destroy looks at the slot and the generation of a handle. *)
Destroy(s, generation) ==
    /\ slots[s].kind # "free" /\ slots[s].generation = generation /\ slots[s].alive
    /\ slots' = IF slots[s].refs = 0 THEN Released(slots, s)
                ELSE [slots EXCEPT ![s].alive = FALSE]
    /\ collections' = Kept(slots', sessions, collections)
    /\ UNCHANGED <<lists, sessions>>

(* ensure_mutable_font_collection: a collection that somebody else holds is     *)
(* left to them, and the slot gets a copy of its own.                        *)
Shared(s) == HoldersIn(slots, sessions, slots[s].fonts) # {s}
AddFont(s, font) ==
    /\ slots[s].kind = "fonts" /\ slots[s].alive
    /\ IF Shared(s)
       THEN /\ slots' = [slots EXCEPT ![s].fonts = Fresh]
            /\ collections' = With(collections[slots[s].fonts] \union {font})
       ELSE /\ collections' = [collections EXCEPT ![slots[s].fonts] = @ \union {font}]
            /\ UNCHANGED slots
    /\ UNCHANGED <<lists, sessions>>

(* The font does not load: it is taken back, but a copy stays. *)
AddFontFails(s) ==
    /\ slots[s].kind = "fonts" /\ slots[s].alive /\ Shared(s)
    /\ slots' = [slots EXCEPT ![s].fonts = Fresh]
    /\ collections' = With(collections[slots[s].fonts])
    /\ UNCHANGED <<lists, sessions>>

----------------------------------------------------------------------------
(* Display lists. *)

IsList(h) == lists[h.slot].live /\ lists[h.slot].generation = h.generation

(* release_display_resources: each resource the list draws loses one reference, *)
(* and one that its program has destroyed goes with the last.                *)
Dropped(table, drawn) ==
    LET Held(s) == {h \in drawn : h.slot = s /\ Resolves(table, h) /\ table[s].refs > 0}
    IN [s \in ResourceSlot |->
          CASE Held(s) = {} -> table[s]
            [] Held(s) # {} /\ table[s].refs = 1 /\ ~table[s].alive -> Released(table, s)[s]
            [] OTHER -> [table[s] EXCEPT !.refs = @ - 1]]
Taken(drawn) ==
    [s \in ResourceSlot |-> IF \E h \in drawn : h.slot = s THEN [slots[s] EXCEPT !.refs = @ + 1]
                    ELSE slots[s]]

ListCreate ==
    /\ \E l \in List :
          /\ ~lists[l].live
          /\ lists' = [lists EXCEPT ![l].live = TRUE]
    /\ UNCHANGED <<slots, sessions, collections>>

(* A list that paints a node of a session is not destroyed. *)
ListDestroy(h) ==
    /\ IsList(h) /\ lists[h.slot].refs = 0
    /\ slots' = Dropped(slots, lists[h.slot].draws)
    /\ lists' = [lists EXCEPT ![h.slot] = [live |-> FALSE, generation |-> NextOfList(@.generation),
                                           refs |-> 0, draws |-> {}]]
    /\ collections' = Kept(slots', sessions, collections)
    /\ UNCHANGED <<sessions>>

ListReset(h) ==
    /\ IsList(h)
    /\ slots' = Dropped(slots, lists[h.slot].draws)
    /\ lists' = [lists EXCEPT ![h.slot].draws = {}]
    /\ collections' = Kept(slots', sessions, collections)
    /\ UNCHANGED <<sessions>>

(* The new commands' resources are retained before the old ones are let go, so  *)
(* that a resource both draw is never without a reference.                   *)
ListSubmit(h, drawn) ==
    /\ IsList(h) /\ \A d \in drawn : Alive(d)
    /\ slots' = Dropped(Taken(drawn), lists[h.slot].draws)
    /\ lists' = [lists EXCEPT ![h.slot].draws = drawn]
    /\ collections' = Kept(slots', sessions, collections)
    /\ UNCHANGED <<sessions>>

(* A resource of the new commands is not alive, or their bytes cannot be kept:  *)
(* what was retained so far is released again, and the list draws what it did. *)
ListRefuses(h, retained) ==
    /\ IsList(h) /\ retained # {} /\ \A d \in retained : Alive(d)
    /\ slots' = Dropped(Taken(retained), retained)
    /\ UNCHANGED <<lists, sessions, collections>>

----------------------------------------------------------------------------
(* Layout sessions. *)

SpotsOf(session, l) ==
    {<<"paint", n>> : n \in {n \in Node : session.paint[n].slot = l}}
    \union {<<"composite", n>> : n \in {n \in Node : session.composite[n].slot = l}}

(* The references of a session that lets some of its paints go: each handle     *)
(* that still resolves loses one.                                           *)
Unpainted(gone) ==
    [l \in List |->
        [lists[l] EXCEPT !.refs =
            LET mine == Cardinality({g \in gone : g.list.slot = l
                                                 /\ g.list.generation = lists[l].generation})
            IN IF lists[l].live THEN (IF mine > @ THEN 0 ELSE @ - mine) ELSE @]]
Attached(session, nodes) ==
    {[of |-> "paint", node |-> n, list |-> session.paint[n]] :
        n \in {n \in nodes : session.paint[n] # NoList}}
    \union {[of |-> "composite", node |-> n, list |-> session.composite[n]] :
        n \in {n \in nodes : session.composite[n] # NoList}}
Without(table, nodes) == [n \in Node |-> IF n \in nodes THEN NoList ELSE table[n]]

SessionCreate(s) ==
    /\ ~sessions[s].live
    /\ sessions' = [sessions EXCEPT ![s].live = TRUE]
    /\ UNCHANGED <<slots, lists, collections>>

SessionDestroy(s) ==
    /\ sessions[s].live
    /\ lists' = Unpainted(Attached(sessions[s], Node))
    /\ sessions' = [sessions EXCEPT ![s] = NoSession]
    /\ collections' = Kept(slots, sessions', collections)
    /\ UNCHANGED <<slots>>

SetFontCollection(s, fonts) ==
    /\ sessions[s].live /\ sessions[s].fonts = NoFonts
    /\ slots[fonts].kind = "fonts" /\ slots[fonts].alive
    /\ sessions' = [sessions EXCEPT ![s].fonts = slots[fonts].fonts,
                                    ![s].given = collections[slots[fonts].fonts]]
    /\ UNCHANGED <<slots, lists, collections>>

(* The end of a submit lets go of the paints of every node that is not a custom *)
(* one any more.                                                            *)
SubmitTree(s, custom) ==
    /\ sessions[s].live /\ custom # sessions[s].custom
    /\ lists' = Unpainted(Attached(sessions[s], Node \ custom))
    /\ sessions' = [sessions EXCEPT ![s].custom = custom,
                                    ![s].paint = Without(@, Node \ custom),
                                    ![s].composite = Without(@, Node \ custom)]
    /\ UNCHANGED <<slots, collections>>

(* nkui_layout_session_set_custom_paint and _composite: the new list is counted *)
(* and the replaced one is not.                                             *)
Moved(l, old) ==
    [k \in List |->
        [lists[k] EXCEPT !.refs =
            IF k = l.slot THEN @ + 1
            ELSE IF k = old.slot /\ lists[k].live /\ lists[k].generation = old.generation /\ @ > 0
            THEN @ - 1 ELSE @]]
SetPaint(s, n, l) ==
    /\ sessions[s].live /\ IsList(l) /\ n \in sessions[s].custom
    /\ sessions[s].paint[n] # l
    /\ lists' = Moved(l, sessions[s].paint[n])
    /\ sessions' = [sessions EXCEPT ![s].paint[n] = l]
    /\ UNCHANGED <<slots, collections>>
SetComposite(s, n, l) ==
    /\ sessions[s].live /\ IsList(l) /\ n \in sessions[s].custom
    /\ sessions[s].composite[n] # l
    /\ lists' = Moved(l, sessions[s].composite[n])
    /\ sessions' = [sessions EXCEPT ![s].composite[n] = l]
    /\ UNCHANGED <<slots, collections>>

ClearPaint(s, n) ==
    /\ sessions[s].live /\ sessions[s].paint[n] # NoList
    /\ lists' = Unpainted({a \in Attached(sessions[s], {n}) : a.of = "paint"})
    /\ sessions' = [sessions EXCEPT ![s].paint[n] = NoList]
    /\ UNCHANGED <<slots, collections>>
ClearComposite(s, n) ==
    /\ sessions[s].live /\ sessions[s].composite[n] # NoList
    /\ lists' = Unpainted({a \in Attached(sessions[s], {n}) : a.of = "composite"})
    /\ sessions' = [sessions EXCEPT ![s].composite[n] = NoList]
    /\ UNCHANGED <<slots, collections>>
ClearPaints(s) ==
    /\ sessions[s].live /\ Attached(sessions[s], Node) # {}
    /\ lists' = Unpainted(Attached(sessions[s], Node))
    /\ sessions' = [sessions EXCEPT ![s].paint = NoPaint, ![s].composite = NoPaint]
    /\ UNCHANGED <<slots, collections>>

----------------------------------------------------------------------------
ResourcesNext ==
    \/ \E kind \in Plain : Create(kind)
    \/ \E kind \in Kind : CreateFails(kind)
    \/ CreateFonts \/ (\E f \in ResourceSlot : CreateText(f))
    \/ \E s \in ResourceSlot, g \in SlotGeneration : Destroy(s, g)
    \/ \E s \in ResourceSlot, f \in Font : AddFont(s, f)
    \/ \E s \in ResourceSlot : AddFontFails(s)
    \/ ListCreate
    \/ \E h \in ListHandle : ListDestroy(h) \/ ListReset(h)
    \/ \E h \in ListHandle, drawn \in SUBSET {d \in Handle : Alive(d)} :
          ListSubmit(h, drawn) \/ ListRefuses(h, drawn)
    \/ \E s \in SessionSlot :
          \/ SessionCreate(s) \/ SessionDestroy(s) \/ ClearPaints(s)
          \/ \E f \in ResourceSlot : SetFontCollection(s, f)
          \/ \E custom \in SUBSET Node : SubmitTree(s, custom)
          \/ \E n \in Node : ClearPaint(s, n) \/ ClearComposite(s, n)
          \/ \E n \in Node, l \in ListHandle : SetPaint(s, n, l) \/ SetComposite(s, n, l)

ResourcesSpec == ResourcesInit /\ [][ResourcesNext]_resourcesVars

----------------------------------------------------------------------------
(* What a display list draws is what it was submitted with, in whatever order   *)
(* its program destroys, resubmits and resets, and although a slot's           *)
(* generations start over: a slot counts exactly the lists that retain it, is   *)
(* not released while one does, and is released as soon as none does and its   *)
(* program has let it go (display_refs, release_display_resource).            *)
ListsKeepWhatTheyDraw ==
    /\ \A l \in List : \A h \in lists[l].draws : Resolves(slots, h)
    /\ \A s \in ResourceSlot :
          /\ slots[s].refs = Cardinality({l \in List : \E h \in lists[l].draws : h.slot = s})
          /\ slots[s].kind # "free" <=> slots[s].alive \/ slots[s].refs > 0

(* A painted node's list is there: the list's count is the number of nodes it   *)
(* paints or composites, over all sessions, however the tree drops nodes,      *)
(* sessions go, and paints are replaced (custom_refs).                       *)
PaintsHoldTheirLists ==
    /\ \A s \in SessionSlot : \A n \in Node :
          \A l \in {sessions[s].paint[n], sessions[s].composite[n]} \ {NoList} :
             IsList(l) /\ n \in sessions[s].custom
    /\ \A l \in List :
          lists[l].refs = Cardinality(UNION {{s} \X SpotsOf(sessions[s], l) : s \in SessionSlot})

(* Adding to a font collection never changes the fonts of a text layout or a    *)
(* session that was made with it before, and no two of the program's          *)
(* collections ever become one (use_count and the copy on write).            *)
UsersKeepTheirFonts ==
    /\ \A s \in ResourceSlot : slots[s].kind = "text" /\ slots[s].fonts # NoFonts =>
          collections[slots[s].fonts] = slots[s].given
    /\ \A s \in SessionSlot :
          sessions[s].fonts # NoFonts => collections[sessions[s].fonts] = sessions[s].given
    /\ \A s, t \in ResourceSlot : slots[s].kind = "fonts" /\ slots[t].kind = "fonts"
                          /\ slots[s].fonts = slots[t].fonts => s = t

(* What was given to somebody stays as it was given while they have it: a list   *)
(* its resources, a node its lists, a text layout and a session their fonts.    *)
UsersKeepWhatTheyWereGiven ==
    ListsKeepWhatTheyDraw /\ PaintsHoldTheirLists /\ UsersKeepTheirFonts
============================================================================
