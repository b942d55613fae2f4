------------------------------ MODULE WasmHeap ------------------------------
(***************************************************************************)
(* The heap of the wasm32 backend (src/native/wasm/heap.c): free lists by     *)
(* exact size and one for large blocks, a collection when the budget or the   *)
(* memory runs out, and the sweep that rebuilds the lists.                   *)
(*                                                                         *)
(* Addresses and sizes count words of eight bytes.  The guest, which marks    *)
(* what the program can reach, is external; what is in a block, and the       *)
(* statistics, are left out.                                               *)
(***************************************************************************)
EXTENDS Integers, FiniteSets, SequencesExt

CONSTANTS
    Payloads,       \* sizes that are asked for
    Header,         \* HEADER_SIZE
    SmallLimit,     \* SMALL_LIMIT
    PageSize, MaxPages,
    MinBudget       \* MIN_ALLOCATION_BUDGET

ASSUME HeapConstants ==
    /\ Payloads \subseteq Nat
    /\ \A n \in {Header, SmallLimit, PageSize, MaxPages, MinBudget} : n \in Nat \ {0}
    /\ Header < SmallLimit

VARIABLES
    heap,   \* hx_heap, with the headers of its blocks and the size of the memory
    held    \* the blocks the program can reach

heapVars == <<heap, held>>

Null == 0
Start == 1                          \* heap_start
Small == Header .. SmallLimit - 1
Most(m, n) == IF m < n THEN n ELSE m
Free(size) == [size |-> size, allocated |-> FALSE, marked |-> FALSE]
Used(size) == [size |-> size, allocated |-> TRUE, marked |-> FALSE]
Memory(h) == h.pages * PageSize
Starts(h) == DOMAIN h.blocks

Empty(stress) ==
    [blocks |-> <<>>, classes |-> [size \in Small |-> <<>>], large |-> <<>>, top |-> Start,
     budget |-> MinBudget, live |-> 0, pages |-> 1, stress |-> stress, trapped |-> FALSE]

HeapInit == heap \in {Empty(stress) : stress \in BOOLEAN} /\ held = {}

----------------------------------------------------------------------------
With(blocks, b, block) ==
    [c \in DOMAIN blocks \union {b} |-> IF c = b THEN block ELSE blocks[c]]

(* push_free *)
PushFree(h, b, size) ==
    LET pushed == [h EXCEPT !.blocks = With(@, b, Free(size))]
    IN  IF size \in Small THEN [pushed EXCEPT !.classes[size] = <<b>> \o @]
        ELSE [pushed EXCEPT !.large = <<b>> \o @]

(* take_free: a block of just that size, or the end of the first large one that fits, *)
(* which stays in its list as long as what is left of it is large.                   *)
Got(h, b, size) == [heap |-> h, block |-> b, size |-> size]

(* A variant keeps the rest there as long as it is a block. *)
StaysWhileABlock(remainder) == remainder >= Header
StaysLarge(remainder) == remainder >= SmallLimit
TakeLarge(h, i, size) ==
    LET b == h.large[i]
        available == h.blocks[b].size
        remainder == available - size
        unlinked == IF StaysLarge(remainder) THEN h ELSE [h EXCEPT !.large = RemoveAt(@, i)]
        carved == [unlinked EXCEPT !.blocks[b].size = remainder]
    IN  IF remainder < Header THEN Got(unlinked, b, available)
        ELSE Got(IF remainder < SmallLimit THEN PushFree(carved, b, remainder) ELSE carved,
                 b + remainder, size)
TakeFree(h, size) ==
    LET fitting == {i \in DOMAIN h.large : h.blocks[h.large[i]].size >= size}
    IN  IF size \in Small /\ h.classes[size] # <<>>
        THEN Got([h EXCEPT !.classes[size] = Tail(@)], Head(h.classes[size]), size)
        ELSE IF fitting = {} THEN Got(h, Null, size)
        ELSE TakeLarge(h, CHOOSE i \in fitting : \A j \in fitting : i <= j, size)

----------------------------------------------------------------------------
(* haxeon_heap_sweep, after the guest has marked what is held. *)

Marked(h) == [h EXCEPT !.blocks = [b \in DOMAIN @ |-> [@[b] EXCEPT !.marked = b \in held]]]
Sound(h, b) == h.blocks[b].size >= Header /\ h.blocks[b].size <= h.top - b

(* Block by block: runs of what is free become one block of a list.  `s` has the heap *)
(* as it is rebuilt, and the length and the start of the run under way.             *)
Flushed(s) == IF s.run = 0 THEN s ELSE [s EXCEPT !.heap = PushFree(@, s.start, s.run), !.run = 0]
Kept(s, b, size) ==
    LET f == Flushed(s)
    IN  [f EXCEPT !.heap.live = @ + size, !.heap.blocks = With(@, b, Used(size))]
Joined(s, b, size) == [s EXCEPT !.start = IF s.run = 0 THEN b ELSE @, !.run = @ + size]
Swept(h, s, b) ==
    IF b \notin Starts(h) THEN s
    ELSE IF h.blocks[b].allocated /\ h.blocks[b].marked THEN Kept(s, b, h.blocks[b].size)
    ELSE Joined(s, b, h.blocks[b].size)
Cleared(h) ==
    [h EXCEPT !.blocks = <<>>, !.classes = [size \in Small |-> <<>>], !.large = <<>>,
              !.live = 0, !.trapped = \E b \in Starts(h) : ~Sound(h, b)]
Sweeping(h) ==
    LET After[b \in 0 .. h.top - 1] ==
            IF b = 0 THEN [heap |-> Cleared(h), run |-> 0, start |-> Null]
            ELSE Swept(h, After[b - 1], b)
    IN  After
Sweep(h) == Flushed(Sweeping(h)[h.top - 1]).heap

(* collect, and replenish_budget: nearly twice what lives before the next time. *)
Replenished(h, size) ==
    LET new == Sweep(Marked(h))
    IN  IF h.stress THEN new ELSE [new EXCEPT !.budget = Most(new.live, MinBudget) - size]

----------------------------------------------------------------------------
(* haxeon_heap_alloc *)

(* A variant that rounds the pages it needs down. *)
FromTopRoundedDown(h, size) ==
    LET end == h.top + size
        pages == Most(h.pages, end \div PageSize)
    IN  IF pages > MaxPages THEN Got([h EXCEPT !.trapped = TRUE], Null, size)
        ELSE Got([h EXCEPT !.top = end, !.pages = pages], h.top, size)

(* From the top, with more memory where it takes any; without it the program ends. *)
FromTop(h, size) ==
    LET end == h.top + size
        pages == Most(h.pages, (end + PageSize - 1) \div PageSize)
    IN  IF pages > MaxPages THEN Got([h EXCEPT !.trapped = TRUE], Null, size)
        ELSE Got([h EXCEPT !.top = end, !.pages = pages], h.top, size)

Alloc(payload) ==
    LET size == payload + Header
        collects == heap.stress \/ heap.budget < size
        begun == IF collects THEN Replenished(heap, size) ELSE [heap EXCEPT !.budget = @ - size]
        first == TakeFree(begun, size)
        pressed == first.block = Null /\ ~collects /\ Memory(begun) < begun.top + size
        second == IF pressed THEN TakeFree(Replenished(begun, size), size) ELSE first
        got == IF second.block = Null THEN FromTop(second.heap, size) ELSE second
    IN  /\ ~heap.trapped
        /\ heap' = IF got.heap.trapped THEN got.heap
                   ELSE [got.heap EXCEPT !.blocks = With(@, got.block, Used(got.size))]
        /\ held' = IF got.heap.trapped THEN held ELSE held \union {got.block}

(* The program no longer reaches a block. *)
Drop(b) == held' = held \ {b} /\ UNCHANGED heap

HeapNext == (\E payload \in Payloads : Alloc(payload)) \/ (\E b \in held : Drop(b))

HeapSpec == HeapInit /\ [][HeapNext]_heapVars

HeapTypeOK ==
    /\ \A b \in Starts(heap) : heap.blocks[b] \in [size : Nat, allocated : BOOLEAN, marked : {FALSE}]
    /\ held \subseteq Starts(heap)
    /\ heap.pages \in 1 .. MaxPages /\ heap.top - 1 <= Memory(heap)

----------------------------------------------------------------------------
Listed(h, b) ==
    IF h.blocks[b].size \in Small THEN h.classes[h.blocks[b].size] ELSE h.large

(* Blocks follow each other from the start of the heap to its top without gap or      *)
(* overlap; what is free is in one list once, that of its size, and in no other list  *)
(* than of blocks as large; what the program reaches is allocated, so that it is never *)
(* handed out again or swallowed by a neighbour (push_free, take_free,              *)
(* haxeon_heap_sweep: "Traps on a malformed block").                                *)
BlocksTileTheHeap ==
    LET lists == {heap.classes[size] : size \in Small} \union {heap.large}
    IN  /\ \A b \in Starts(heap) : b + heap.blocks[b].size \in Starts(heap) \union {heap.top}
        /\ heap.top > Start => Start \in Starts(heap)
        /\ Starts(heap) \subseteq Start .. heap.top - 1
        /\ \A b, c \in Starts(heap) : b < c => b + heap.blocks[b].size <= c
        /\ \A b \in Starts(heap) : ~heap.blocks[b].allocated =>
               Cardinality({i \in DOMAIN Listed(heap, b) : Listed(heap, b)[i] = b}) = 1
        /\ \A list \in lists : \A i \in DOMAIN list :
               list[i] \in Starts(heap) /\ ~heap.blocks[list[i]].allocated
               /\ Listed(heap, list[i]) = list
        /\ \A b \in held : heap.blocks[b].allocated
============================================================================
