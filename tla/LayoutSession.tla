--------------------------- MODULE LayoutSession ---------------------------
(***************************************************************************)
(* One layout session: the tree it retains, the transactions that replace or *)
(* patch it (LayoutMutation), the engine that lays it out with what it kept   *)
(* from the last layout, and the caller's copy of the geometry.              *)
(*                                                                         *)
(* A node's style is cut down to what takes different paths: its visual kind, *)
(* whether it floats above the flow, and the version of its measured content. *)
(* Clay itself and the arithmetic of geometry are not modelled: a resolved    *)
(* item records the cached inputs it was computed from.                      *)
(***************************************************************************)
EXTENDS Naturals, Sequences, FiniteSets, SequencesExt

CONSTANTS
    Id,         \* the node ids a caller uses
    Looks,      \* the looks each node may have
    Roots       \* the nodes that may be the root

Look == [kind : {"box", "text", "custom"}, above : BOOLEAN, version : Nat]
ASSUME LayoutConstants ==
    /\ Id \subseteq Nat \ {0} /\ IsFiniteSet(Id) /\ Roots \subseteq Id
    /\ Looks \in [Id -> SUBSET Look]

VARIABLES
    storage,    \* node_storage: what each retained slot holds
    tree,       \* root, ordered_slots and ordered_parents
    submitted,  \* the session holds a tree
    mutation,   \* the LayoutMutation of the submit under way
    engine,     \* what the layout engine keeps between layouts
    snapshot,   \* LayoutSessionState::snapshot: the resolved items
    updates,    \* resolved_updates and resolved_updates_ready
    fonts,      \* fonts_configured
    told,       \* the caller's own reading of the transactions that were accepted
    mirror,     \* the geometry the caller has merged, by node
    verdict,    \* whether the last transaction was rightly accepted or turned away
    stuck       \* a measure callback waits for the mutex its own submit holds

vars == <<storage, tree, submitted, mutation, engine, snapshot, updates, fonts, told, mirror,
          verdict, stuck>>
session == <<storage, tree, submitted>>

None == [id |-> 0]
NoTree == [root |-> 0, order |-> <<>>, parents |-> <<>>]
NoEngine == [prepared |-> FALSE, children |-> <<>>, measured |-> <<>>, stacked |-> <<>>]
NoMutation == [phase |-> "none"]
NoCaller == [root |-> 0, order |-> <<>>, look |-> <<>>, kids |-> <<>>]

----------------------------------------------------------------------------
(* Trees as a caller thinks of them, and what a transaction asks for. *)

(* The walk from a root in child-list order.  It stops after one node more than *)
(* there are ids, so it meets a node twice when the lists are no tree.        *)
Walk(root, kids) ==
    LET walk[n \in Nat, stack \in Seq(Id)] ==
            IF n = 0 \/ stack = <<>> THEN <<>>
            ELSE LET i == Head(stack)
                 IN <<i>> \o walk[n - 1, (IF i \in DOMAIN kids THEN kids[i] ELSE <<>>) \o Tail(stack)]
    IN walk[Cardinality(Id) + 1, <<root>>]
IsTree(t) ==
    /\ t.root \in DOMAIN t.kids
    /\ \A i \in DOMAIN t.kids : Range(t.kids[i]) \subseteq DOMAIN t.kids
    /\ LET walk == Walk(t.root, t.kids)
       IN IsInjective(walk) /\ Range(walk) = DOMAIN t.kids

Sequences(S) == {s \in UNION {[1..n -> S] : n \in 0..Cardinality(S)} : IsInjective(s)}
Shapes ==
    {t \in UNION {[root : Roots, kids : [N -> Sequences(N)]] : N \in SUBSET Id \ {{}}} : IsTree(t)}
Scenes ==
    UNION {{[root |-> t.root, kids |-> t.kids, look |-> look, order |-> Walk(t.root, t.kids)] :
               look \in {f \in [DOMAIN t.kids -> UNION Range(Looks)] :
                            \A i \in DOMAIN f : f[i] \in Looks[i]}} : t \in Shapes}

ParentIn(order, kids, i) ==
    IF \E k \in 1..Len(order) : Contains(kids[order[k]], i)
    THEN CHOOSE k \in 1..Len(order) : Contains(kids[order[k]], i) ELSE 0
FullOf(t, order) ==
    [full |-> TRUE, nodes |-> [k \in 1..Len(order) |->
        [id |-> order[k], look |-> t.look[order[k]], parent |-> ParentIn(order, t.kids, order[k])]]]

(* LayoutTransaction.encodeInto with the announced inputs: the changed and     *)
(* the added nodes, the ids that are gone, and every child list that changed. *)
PatchOf(t, announced) ==
    LET New(i) == i \notin DOMAIN told.look
        Edited(i) == New(i) \/ i \in announced \/ t.look[i] # told.look[i]
        Regrown(i) == IF New(i) THEN t.kids[i] # <<>> ELSE t.kids[i] # told.kids[i]
        parents == SelectSeq(t.order, Regrown)
        edits == SelectSeq(t.order, Edited)
    IN [full |-> FALSE,
        nodes |-> [k \in DOMAIN edits |-> [id |-> edits[k], look |-> t.look[edits[k]]]],
        removed |-> SelectSeq(told.order, LAMBDA i : i \notin DOMAIN t.kids),
        lists |-> (IF t.root # told.root THEN <<[parent |-> 0, kids |-> <<t.root>>]>> ELSE <<>>)
                  \o [k \in DOMAIN parents |-> [parent |-> parents[k], kids |-> t.kids[parents[k]]]],
        count |-> Len(t.order)]

(* What a transaction says, read declaratively: the tree it describes on top  *)
(* of the caller's, and whether it describes one at all.                     *)
Named(t) == {t.nodes[k].id : k \in DOMAIN t.nodes}
Reading(t) ==
    IF t.full
    THEN [order |-> [k \in DOMAIN t.nodes |-> t.nodes[k].id],
          root |-> LET roots == {k \in DOMAIN t.nodes : t.nodes[k].parent = 0}
                   IN IF Cardinality(roots) = 1 THEN t.nodes[CHOOSE k \in roots : TRUE].id ELSE 0,
          look |-> [i \in Named(t) |-> (CHOOSE k \in Range(t.nodes) : k.id = i).look],
          kids |-> [i \in Named(t) |->
                      LET mine == SelectSeq(t.nodes, LAMBDA n : n.parent # 0
                                                       /\ t.nodes[n.parent].id = i)
                      IN [k \in DOMAIN mine |-> mine[k].id]]]
    ELSE LET nodes == (DOMAIN told.look \ Range(t.removed)) \union Named(t)
             ListOf(i) == {n \in Range(t.lists) : n.parent = i}
             kids == [i \in nodes |-> CASE ListOf(i) # {} -> (CHOOSE n \in ListOf(i) : TRUE).kids
                                        [] ListOf(i) = {} /\ i \in DOMAIN told.kids -> told.kids[i]
                                        [] OTHER -> <<>>]
             root == IF ListOf(0) = {} THEN told.root
                     ELSE Head((CHOOSE n \in ListOf(0) : TRUE).kids \o <<0>>)
             look == [i \in nodes |-> IF i \in Named(t) THEN (CHOOSE k \in Range(t.nodes) : k.id = i).look
                                      ELSE told.look[i]]
             reshaped == t.lists # <<>> \/ t.removed # <<>>
                         \/ \E i \in nodes \intersect DOMAIN told.look :
                               look[i].kind # told.look[i].kind
         IN [look |-> look, kids |-> kids, root |-> root,
             order |-> IF reshaped /\ root \in nodes THEN Walk(root, kids) ELSE told.order]
Coherent(t) ==
    /\ IsInjective([k \in DOMAIN t.nodes |-> t.nodes[k].id])
    /\ ~t.full => /\ told # NoCaller
                  /\ IsInjective(t.removed) /\ Range(t.removed) \subseteq DOMAIN told.look \ Named(t)
                  /\ IsInjective([k \in DOMAIN t.lists |-> t.lists[k].parent])
                  /\ \A n \in Range(t.lists) :
                        IF n.parent = 0 THEN Len(n.kids) = 1 ELSE n.parent \in DOMAIN Reading(t).kids
                  /\ t.count = Cardinality(DOMAIN Reading(t).look)
    /\ IsTree(Reading(t))

(* One piece of a transaction lost or repeated, or its count off by one. *)
Damaged(t) ==
    LET Damage(s) == {RemoveAt(s, k) : k \in DOMAIN s} \union {Append(s, s[k]) : k \in DOMAIN s}
    IN IF t.full
       THEN {[t EXCEPT !.nodes = Append(@, @[k])] : k \in DOMAIN t.nodes}
            \union {[t EXCEPT !.nodes[k].parent = p] : k \in DOMAIN t.nodes, p \in 0..Len(t.nodes)}
       ELSE {[t EXCEPT !.nodes = s] : s \in Damage(t.nodes)}
            \union {[t EXCEPT !.removed = s] : s \in Damage(t.removed)}
            \union {[t EXCEPT !.lists = s] : s \in Damage(t.lists)}
            \union {[t EXCEPT !.count = @ + 1]}

----------------------------------------------------------------------------
(* LayoutMutation: apply, roll back, publish. *)

Slot(look, parent, resolved) ==
    [look |-> look, parent |-> parent, kids |-> <<>>, resolved |-> resolved]

(* The new storage of a full transaction keeps the resolved record of a node  *)
(* that had one, so that only geometry that changes is reported.             *)
Retained(i) == IF i \in DOMAIN storage THEN storage[i].resolved ELSE None
Replaced(t) ==
    [i \in Named(t) |-> LET n == CHOOSE k \in Range(t.nodes) : k.id = i
                        IN Slot(n.look, n.parent, Retained(i))]

Added(t) == Named(t) \ DOMAIN storage
FirstLook(t, i) == Head(t.nodes).look
LookIn(t, i) == (CHOOSE k \in Range(t.nodes) : k.id = i).look
Updated(t) ==
    [i \in DOMAIN storage \union Added(t) |->
        IF i \in Added(t) THEN Slot(LookIn(t, i), 0, None)
        ELSE IF i \in Named(t) THEN [storage[i] EXCEPT !.look = LookIn(t, i)]
        ELSE storage[i]]

ListedKids(t, i) == (CHOOSE n \in Range(t.lists) : n.parent = i).kids
IsListed(t, i) == \E n \in Range(t.lists) : n.parent = i

LayersForgotten(t) ==
    LET topology == t.removed # <<>> \/ t.lists # <<>>
                    \/ \E i \in Named(t) \ Added(t) : storage[i].look.kind # LookIn(t, i).kind
    IN [topology |-> topology, layers |-> topology, nodes |-> Named(t) \ Added(t)]
Changes(t) ==
    LET known == Named(t) \ Added(t)
        Restacked(i) == storage[i].look.above # LookIn(t, i).above
        topology == t.removed # <<>> \/ t.lists # <<>>
                    \/ \E i \in known : storage[i].look.kind # LookIn(t, i).kind
    IN [topology |-> topology,
        layers |-> topology \/ \E i \in known : Restacked(i),
        nodes |-> known]
EveryChange == [topology |-> TRUE, layers |-> TRUE, nodes |-> {}]

CountUnchecked(t) == submitted /\ \A i \in Range(t.removed) : i \in DOMAIN storage
(* The patch is refused before anything is touched. *)
PatchIsSound(t) ==
    /\ submitted
    /\ Added(t) # {} => t.removed # <<>> \/ t.lists # <<>>
                        \/ \E i \in Named(t) \ Added(t) : storage[i].look.kind # LookIn(t, i).kind
    /\ IsInjective([k \in DOMAIN t.nodes |-> t.nodes[k].id])
    /\ \A i \in Range(t.removed) : i \in DOMAIN storage /\ i \notin Named(t)
    /\ IsInjective(t.removed)
    /\ IsInjective([k \in DOMAIN t.lists |-> t.lists[k].parent])
    /\ \A n \in Range(t.lists) :
          n.parent # 0 => n.parent \in (DOMAIN storage \union Added(t)) \ Range(t.removed)
    /\ t.count + Len(t.removed) = Cardinality(DOMAIN storage \union Added(t))

(* Its walk: from the listed root or the retained one, through the listed      *)
(* children of a slot or the retained ones; NoTree when it does not succeed.  *)
WalkOf(t, slots) ==
    LET kids == [i \in DOMAIN slots \ Range(t.removed) |->
                    IF IsListed(t, i) THEN ListedKids(t, i) ELSE slots[i].kids]
        root == IF ~IsListed(t, 0) THEN tree.root
                ELSE IF Len(ListedKids(t, 0)) = 1 THEN Head(ListedKids(t, 0)) ELSE 0
        order == Walk(root, kids)
    IN IF /\ Range(order) \subseteq DOMAIN kids
          /\ IsInjective(order) /\ Len(order) = t.count
       THEN [root |-> root, order |-> order,
             parents |-> [k \in DOMAIN order |-> ParentIn(order, kids, order[k])]]
       ELSE NoTree

ParentsForgotten(slots, t, held) ==
    IF t.full THEN held
    ELSE [i \in DOMAIN slots \ Named(t) |-> slots[i]]
         @@ [i \in DOMAIN held |-> [slots[i] EXCEPT !.look = held[i]]]
(* What a failed mutation leaves: full storage swapped back, an added slot      *)
(* erased, an updated one given its old value, and every ordered slot its     *)
(* ordered parent again.                                                     *)
RolledBack(slots, t, held) ==
    LET kept == IF t.full THEN held
                ELSE [i \in DOMAIN slots \ Named(t) |-> slots[i]]
                     @@ [i \in DOMAIN held |-> [slots[i] EXCEPT !.look = held[i]]]
    IN [i \in DOMAIN kept |->
          IF \E k \in DOMAIN tree.order : tree.order[k] = i
          THEN [kept[i] EXCEPT !.parent = tree.parents[CHOOSE k \in DOMAIN tree.order :
                                                          tree.order[k] = i]]
          ELSE kept[i]]
Held(t) == IF t.full THEN storage
           ELSE [i \in Named(t) \intersect DOMAIN storage |-> storage[i].look]

Refuse(t) ==
    /\ verdict' = IF Coherent(t) THEN "tree refused" ELSE "right"
    /\ mutation' = NoMutation

(* nkui_layout_session_submit up to the layout.  The session's mutex is held   *)
(* from here to the end of the submit.                                       *)
BeginFull(t) ==
    LET order == [k \in DOMAIN t.nodes |-> t.nodes[k].id]
    IN IF ~IsInjective(order)
       THEN /\ Refuse(t)
            /\ storage' = RolledBack(Replaced(t), t, storage)
       ELSE /\ storage' = Replaced(t)
            /\ mutation' = [phase |-> "solving", transaction |-> t, held |-> Held(t),
                            order |-> order, changes |-> EveryChange,
                            parents |-> [k \in DOMAIN order |-> t.nodes[k].parent]]
            /\ UNCHANGED verdict

BeginPatch(t) ==
    LET slots == Updated(t)
        walk == IF Changes(t).topology THEN WalkOf(t, slots) ELSE tree
        Placed(i) == IF Contains(walk.order, i)
                     THEN [slots[i] EXCEPT !.parent = walk.parents[CHOOSE k \in DOMAIN walk.order :
                                                                     walk.order[k] = i]]
                     ELSE slots[i]
    IN CASE ~PatchIsSound(t) -> Refuse(t) /\ UNCHANGED storage
         [] PatchIsSound(t) /\ walk = NoTree ->
                Refuse(t) /\ storage' = RolledBack(slots, t, Held(t))
         [] OTHER ->
                /\ storage' = [i \in DOMAIN slots |-> Placed(i)]
                /\ mutation' = [phase |-> "solving", transaction |-> t, held |-> Held(t),
                                order |-> walk.order, changes |-> Changes(t),
                                parents |-> walk.parents, root |-> walk.root]
                /\ UNCHANGED verdict

Idle == mutation.phase = "none" /\ ~stuck
Begin(t) ==
    /\ Idle
    /\ IF t.full THEN BeginFull(t) ELSE BeginPatch(t)
    /\ UNCHANGED <<tree, submitted, engine, snapshot, updates, fonts, told, mirror, stuck>>

Rollback ==
    /\ storage' = RolledBack(storage, mutation.transaction, mutation.held)
    /\ mutation' = NoMutation
    /\ UNCHANGED verdict

----------------------------------------------------------------------------
(* LayoutEngine::layout, on the nodes of the mutation in their order. *)

Count == Len(mutation.order)
LookAt(k) == storage[mutation.order[k]].look
ParentAt(k) == storage[mutation.order[k]].parent
Reshapes == ~engine.prepared \/ mutation.changes.topology
Restacks == Reshapes \/ mutation.changes.layers

(* The engine finds the nodes by their parent indices; a tree that a patch     *)
(* walked has been validated already.                                        *)
ChildrenOf(k) == SelectSeq([c \in 1..Count |-> c], LAMBDA c : ParentAt(c) = k)
ShapeIsSound ==
    /\ Cardinality({k \in 1..Count : ParentAt(k) = 0}) = 1
    /\ IsTree([root |-> CHOOSE k \in 1..Count : ParentAt(k) = 0,
               kids |-> [k \in 1..Count |-> ChildrenOf(k)]])

(* What the engine has rebuilt when it solves: children and element ids with   *)
(* the shape, measured versions with the shape or for the changed nodes, the   *)
(* stacking with the layers.                                                 *)
Solving ==
    LET custom == {k \in 1..Count : LookAt(k).kind = "custom"}
        remeasured == IF Reshapes THEN custom
                      ELSE {k \in custom : mutation.order[k] \in mutation.changes.nodes}
        versions == [i \in {mutation.order[k] : k \in remeasured} |-> storage[i].look.version]
    IN [prepared |-> TRUE,
        children |-> IF Reshapes THEN [k \in 1..Count |-> ChildrenOf(k)] ELSE engine.children,
        measured |-> IF Reshapes THEN versions ELSE versions @@ engine.measured,
        stacked |-> IF Restacks THEN [k \in 1..Count |-> LookAt(k).above] ELSE engine.stacked]

(* A resolved item: what the node says now, and where the engine's retained     *)
(* children, versions and layers put it.                                     *)
Resolved(e) ==
    [k \in 1..Count |->
        [id |-> mutation.order[k], look |-> LookAt(k),
         under |-> IF ParentAt(k) = 0 THEN 0 ELSE mutation.order[ParentAt(k)],
         place |-> {<<p, c>> \in (1..Count) \X (1..Count) :
                        c \in DOMAIN e.children[p] /\ e.children[p][c] = k},
         measured |-> IF LookAt(k).kind = "custom" THEN e.measured[mutation.order[k]] ELSE 0,
         above |-> e.stacked[k]]]

(* Text cannot be measured before the session has fonts; the engine is not     *)
(* reached.                                                                  *)
NeedsFonts == ~fonts /\ \E k \in 1..Count : LookAt(k).kind = "text"
RefuseText ==
    /\ mutation.phase = "solving" /\ ~stuck /\ NeedsFonts
    /\ Rollback
    /\ UNCHANGED <<tree, submitted, engine, snapshot, updates, fonts, told, mirror, stuck>>

(* The engine refuses the shape, or Clay or the geometry fails: what it kept    *)
(* may be half rebuilt, and is not read before it is rebuilt.                *)
FailSolve ==
    /\ mutation.phase = "solving" /\ ~stuck /\ ~NeedsFonts
    /\ engine' = NoEngine
    /\ Rollback
    /\ UNCHANGED <<tree, submitted, snapshot, updates, fonts, told, mirror, stuck>>

(* publish: child lists and removals reach the slots, and the pending order      *)
(* becomes the session's.                                                    *)
Published(t) ==
    IF t.full
    THEN [i \in DOMAIN storage |->
            [storage[i] EXCEPT !.kids =
                LET mine == SelectSeq([k \in 1..Count |-> k],
                              LAMBDA k : mutation.parents[k] # 0
                                         /\ mutation.order[mutation.parents[k]] = i)
                IN [k \in DOMAIN mine |-> mutation.order[mine[k]]]]]
    ELSE [i \in DOMAIN storage \ Range(t.removed) |->
            IF IsListed(t, i) THEN [storage[i] EXCEPT !.kids = ListedKids(t, i)] ELSE storage[i]]

FinishSubmit ==
    LET t == mutation.transaction
    IN /\ mutation.phase = "solving" /\ ~stuck /\ ~NeedsFonts
       /\ ~t.full \/ ShapeIsSound
       /\ engine' = Solving
       /\ snapshot' = Resolved(engine')
       /\ storage' = Published(t)
       /\ tree' = IF mutation.changes.topology
                  THEN [root |-> mutation.order[CHOOSE k \in 1..Count : mutation.parents[k] = 0],
                        order |-> mutation.order, parents |-> mutation.parents]
                  ELSE tree
       /\ submitted' = TRUE
       /\ updates' = [ready |-> FALSE, records |-> {}]
       /\ told' = Reading(t)
       /\ verdict' = IF Coherent(t) THEN "right" ELSE "no tree accepted"
       /\ mutation' = NoMutation
       /\ mirror' = [mirror EXCEPT !.stale = TRUE]
       /\ UNCHANGED <<fonts, stuck>>

----------------------------------------------------------------------------
(* Everyone else. *)

(* update_resolved_records, for whoever comes first: a frame or the caller. *)
Changed == {k \in DOMAIN snapshot : storage[snapshot[k].id].resolved # snapshot[k]}
RecordedAgain == [ready |-> FALSE, records |-> {snapshot[k] : k \in Changed}]
Recorded ==
    IF updates.ready THEN updates
    ELSE [ready |-> TRUE, records |-> {snapshot[k] : k \in Changed}]
Record ==
    /\ Idle /\ submitted
    /\ updates' = Recorded
    /\ storage' = IF updates.ready THEN storage
                  ELSE [i \in DOMAIN storage |->
                          [storage[i] EXCEPT !.resolved =
                              IF \E k \in Changed : snapshot[k].id = i
                              THEN snapshot[CHOOSE k \in Changed : snapshot[k].id = i] ELSE @]]
    /\ UNCHANGED <<tree, submitted, mutation, engine, snapshot, fonts, told, verdict, stuck>>

RenderFrame == Record /\ ~updates.ready /\ UNCHANGED mirror

(* LayoutSession.submit after the native one: the changed records replace the   *)
(* caller's, and every other node keeps the record it had.                    *)
Fetch ==
    /\ Record /\ mirror.stale
    /\ LET Fresh(i) == {r \in updates'.records : r.id = i}
       IN mirror' = [stale |-> FALSE,
                     items |-> [k \in DOMAIN told.order |->
                        LET i == told.order[k]
                            old == {r \in Range(mirror.items) : r.id = i}
                        IN CASE Fresh(i) # {} -> CHOOSE r \in Fresh(i) : TRUE
                             [] Fresh(i) = {} /\ old # {} -> CHOOSE r \in old : TRUE
                             [] OTHER -> None]]

(* The fonts come with a new engine. *)
SetFonts ==
    /\ Idle /\ ~fonts
    /\ fonts' = TRUE
    /\ engine' = NoEngine
    /\ UNCHANGED <<storage, tree, submitted, mutation, snapshot, updates, told, mirror, verdict,
                   stuck>>

(* A measure callback runs inside the layout, under the session's mutex.  Most  *)
(* calls find active_measure_session and refuse; the readers below do not look *)
(* at it and lock the mutex that their own thread holds.                      *)
Refusing == {"submit", "verify_tree", "get_resolved_updates", "destroy"}
Unguarded == {"get_resolved_items", "hit_test", "hit_test_into", "get_hit_test_stats"}
MeasureReenters(call) ==
    /\ mutation.phase = "solving" /\ ~stuck /\ ~NeedsFonts /\ ShapeIsSound
    /\ \E k \in 1..Count : LookAt(k).kind = "custom"
    /\ stuck' = (call \in Unguarded)
    /\ UNCHANGED <<storage, tree, submitted, mutation, engine, snapshot, updates, fonts, told,
                   mirror, verdict>>

----------------------------------------------------------------------------
(* Callers. *)

(* From one submit to the next a caller edits looks or rearranges the tree. *)
Near(t) ==
    \/ ~submitted \/ t.kids = told.kids
    \/ \A i \in DOMAIN t.look \intersect DOMAIN told.look : t.look[i] = told.look[i]
Submit ==
    /\ Idle /\ ~mirror.stale
    /\ \E t \in Scenes :
          /\ Near(t)
          /\ \/ Begin(FullOf(t, t.order))
             \/ Begin(FullOf(t, Reverse(t.order)))
             \/ submitted /\ \E announced \in {{}, Id} : Begin(PatchOf(t, announced))
SubmitDamaged ==
    /\ Idle /\ ~mirror.stale
    /\ \E t \in Scenes :
          /\ Near(t)
          /\ \/ submitted /\ \E damaged \in Damaged(PatchOf(t, {})) : Begin(damaged)
             \/ ~submitted /\ \E damaged \in Damaged(FullOf(t, t.order)) : Begin(damaged)
             \/ ~submitted /\ Begin(PatchOf(t, {}))

Init ==
    /\ storage = <<>> /\ tree = NoTree /\ submitted = FALSE
    /\ mutation = NoMutation
    /\ engine = NoEngine
    /\ snapshot = <<>> /\ updates = [ready |-> FALSE, records |-> {}]
    /\ fonts \in BOOLEAN
    /\ told = NoCaller /\ mirror = [stale |-> FALSE, items |-> <<>>]
    /\ verdict = "right"
    /\ stuck = FALSE

Next ==
    \/ Submit \/ SubmitDamaged
    \/ RefuseText \/ FailSolve \/ FinishSubmit
    \/ RenderFrame \/ Fetch \/ SetFonts
    \/ \E call \in Refusing \union Unguarded : MeasureReenters(call)

Spec == Init /\ [][Next]_vars

----------------------------------------------------------------------------
(* Every slot, index and retained cache has the extent its owner says it has. *)
TypeOK ==
    /\ DOMAIN storage \subseteq Id
    /\ \A i \in DOMAIN storage :
          /\ storage[i].look \in Looks[i] /\ storage[i].parent \in 0..Cardinality(Id)
          /\ Range(storage[i].kids) \subseteq Id
    /\ Range(tree.order) \subseteq Id /\ Len(tree.parents) = Len(tree.order)
    /\ {submitted, fonts, stuck, updates.ready, mirror.stale} \subseteq BOOLEAN
    /\ mutation.phase \in {"none", "solving"}
    /\ engine.prepared => Len(engine.children) = Len(engine.stacked)
    /\ Len(snapshot) <= Cardinality(Id)

(* Whatever was refused on the way, by the patch's own checks, by its walk, for *)
(* want of fonts or by the engine, the session holds exactly the tree that the *)
(* accepted transactions describe: root, child lists, looks, node order and    *)
(* the parent index of every node (nkui_layout_session_verify_tree finds no    *)
(* difference).                                                              *)
RetainedTreeIsExact ==
    Idle /\ submitted =>
        /\ tree.root = told.root /\ tree.order = told.order
        /\ [i \in DOMAIN storage |-> storage[i].look] = told.look
        /\ [i \in DOMAIN storage |-> storage[i].kids] = told.kids
        /\ \A k \in DOMAIN tree.order :
              /\ tree.parents[k] = ParentIn(tree.order, told.kids, tree.order[k])
              /\ storage[tree.order[k]].parent = tree.parents[k]

(* A transaction is accepted only if it describes a tree on top of the one the  *)
(* caller holds, and one that does is never turned away by the session's own    *)
(* checks: only fonts or the engine may still refuse it.                      *)
OnlyTreesAreAccepted ==
    verdict = "right"

(* A layout that reuses the engine's children, measured versions and stacking   *)
(* resolves every node as one that rebuilds them would: a patch of looks only,  *)
(* after any refused or failed submit, never shows a stale place, version or   *)
(* layer.                                                                    *)
LayoutIsAsIfRebuilt ==
    Idle /\ submitted =>
        \A k \in DOMAIN snapshot :
            LET item == snapshot[k]  i == tree.order[k]
            IN /\ item.id = i /\ item.look = told.look[i]
               /\ item.under = (IF tree.parents[k] = 0 THEN 0 ELSE tree.order[tree.parents[k]])
               /\ item.above = told.look[i].above
               /\ item.measured = (IF told.look[i].kind = "custom" THEN told.look[i].version ELSE 0)
               /\ item.place = {<<tree.parents[k], c>> : c \in
                      {c \in 1..Len(tree.order) : /\ tree.parents[k] # 0
                         /\ c \in DOMAIN told.kids[item.under] /\ told.kids[item.under][c] = i}}

(* The caller never reads the whole geometry again, only the records that are   *)
(* reported as changed, and still its copy is the session's, whichever nodes    *)
(* were removed, added again, reordered, or kept over a full submit, and        *)
(* whether a frame asked for the records first.                              *)
MirrorIsExact == Idle /\ submitted /\ ~mirror.stale => mirror.items = snapshot

(* nativekit_ui_layout.h:315: the callback "must not re-enter layout session    *)
(* operations.  Such re-entry returns NKUI_ERROR_INVALID_ARGUMENT."           *)
ReentryIsRefused == ~stuck
============================================================================
