------------------------------- MODULE Arrays -------------------------------
(***************************************************************************)
(* The arrays of the native runtime (src/native/runtime): arrays.c over one   *)
(* block of elements, and value_arrays.c, whose structures lie in a lane of   *)
(* scalars beside a lane of references and perhaps a bitmap of those that are *)
(* there, under the policy of value_lane_policy.h.                           *)
(*                                                                         *)
(* One array is followed from its allocation.  A slot keeps what is in it     *)
(* when the array shrinks below it; an element is one scalar and one          *)
(* reference.  Any allocation may fail, which ends the operation with an      *)
(* exception.  hl_array_reserve and the collector are HashLink's.             *)
(***************************************************************************)
EXTENDS Integers, FiniteSets, SequencesExt

CONSTANTS
    Values,     \* what is stored
    Foreign,    \* those of them only Array<Dynamic> takes
    MaxInt      \* stands for the largest Int, 2^31 - 1

(* Assumed of the constants wherever this module is instantiated. *)
ArraysConstants == Foreign \subseteq Values /\ Values \subseteq Nat \ {0} /\ MaxInt \in Nat \ {0}

VARIABLES
    array,      \* the array under test
    want,       \* the elements it should have
    result,     \* the array the last operation returned, or NoArray
    wanted      \* the elements that one should have

vars == <<array, want, result, wanted>>

Null == 0
Junk == -1                  \* what hl_array_reserve leaves in a slot
Kinds == {"dynamic", "typed", "value"}
Empty == [scalar |-> Null, ref |-> Null, valid |-> FALSE]
Unknown == [scalar |-> Junk, ref |-> Null, valid |-> FALSE]
NoAlias == [size |-> -1, capacity |-> -1]

\* `nullable` is has_validity of a value array.  `alias` is the header of an
\* Array<Dynamic> that became a value array, `ok` and `allocations` are of the operation
\* under way: whether it still runs, and how many allocations it gets.
New(kind, nullable) ==
    [kind |-> kind, nullable |-> nullable, size |-> 0, capacity |-> 0, slots |-> <<>>,
     alias |-> NoAlias, ok |-> TRUE, allocations |-> 0]
NoArray == New("none", FALSE)
Slot(a, i) == a.slots[i + 1]
Indices(a) == 0 .. a.size - 1
IsValue(a) == a.kind = "value"
HasBitmap(a) == IsValue(a) /\ a.nullable

Least(m, n) == IF m < n THEN m ELSE n
Most(m, n) == IF m < n THEN n ELSE m
\* Arguments below zero count from the end.
FromEnd(i, size) == IF i < 0 THEN Most(0, i + size) ELSE i
Clamped(i, size) == Least(FromEnd(i, size), size)

----------------------------------------------------------------------------
(* What is where: an operation is a chain of these, and ends where one fails. *)

Fail(a) == [a EXCEPT !.ok = FALSE]
Guard(a, condition) == IF condition THEN a ELSE Fail(a)
Allocate(a, after) ==
    IF ~a.ok THEN a ELSE IF a.allocations = 0 THEN Fail(a)
    ELSE [after EXCEPT !.allocations = a.allocations - 1]

\* realtime_value_array_sync
Synced(a) ==
    IF a.alias = NoAlias THEN a
    ELSE [a EXCEPT !.alias = [size |-> a.size, capacity |-> a.capacity]]
PublishLength(a, size) == IF a.ok THEN Synced([a EXCEPT !.size = size]) ELSE a

\* The bitmap is copied in whole bytes, the elements one by one.
ReplaceCapacity(a, next) ==
    LET Copied(i) == IF i <= a.size THEN a.slots[i]
                     ELSE IF i <= a.capacity /\ i <= 8 * ((a.size + 7) \div 8)
                     THEN [Empty EXCEPT !.valid = a.slots[i].valid] ELSE Empty
    IN  IF next = a.capacity THEN a
        ELSE Allocate(a, Synced([a EXCEPT !.capacity = next,
                                          !.slots = [i \in 1 .. next |-> Copied(i)]]))

CapacityFor(a, required) ==
    LET Grown[n \in 0 .. MaxInt] ==
            IF n >= required THEN n
            ELSE Grown[IF MaxInt - n \div 2 < n THEN required ELSE n + n \div 2]
    IN  IF required <= a.capacity THEN a.capacity ELSE Grown[Most(a.capacity, 4)]
Reserve(a, required) == IF a.ok THEN ReplaceCapacity(a, CapacityFor(a, required)) ELSE a

\* hl_array_reserve: the block grows, and what lies behind the elements is anything.
TypedReserve(a, required) ==
    IF required <= a.capacity THEN a
    ELSE Allocate(a, [a EXCEPT !.capacity = required,
                               !.slots = [i \in 1 .. required |->
                                            IF i <= a.size THEN a.slots[i] ELSE Unknown]])

ClearRange(a, first, count) ==
    IF a.ok THEN [a EXCEPT !.slots = [i \in DOMAIN @ |->
                                        IF i \in first + 1 .. first + count THEN Empty ELSE @[i]]]
    ELSE a

\* Lanes are moved at once, the bits of the bitmap one after the other: from the end when
\* an array moves up within itself (a variant always starts at the beginning).
OffsetsFromTheStart(upwards, count) == [n \in 1 .. count |-> n - 1]
Offsets(upwards, count) == [n \in 1 .. count |-> IF upwards THEN count - n ELSE n - 1]
Move(a, target, source, count) ==
    LET Lanes(i) == [a.slots[i - target + source] EXCEPT !.valid = a.slots[i].valid]
        lanes == [i \in DOMAIN a.slots |-> IF i \in target + 1 .. target + count THEN Lanes(i)
                                           ELSE a.slots[i]]
        bits == FoldLeft(LAMBDA s, k : [s EXCEPT ![target + k + 1].valid = s[source + k + 1].valid],
                         lanes, Offsets(source < target, count))
    IN  IF a.ok THEN [a EXCEPT !.slots = IF HasBitmap(a) THEN bits ELSE lanes] ELSE a

Element(v, a) == [scalar |-> v, ref |-> IF IsValue(a) THEN v ELSE Null, valid |-> HasBitmap(a)]
Write(a, i, v) == IF a.ok THEN [a EXCEPT !.slots[i + 1] = Element(v, a)] ELSE a

----------------------------------------------------------------------------
(* value_lane_policy.h *)

Ensure(a, i) == IF i < a.size THEN a ELSE PublishLength(Reserve(a, i + 1), i + 1)
ValueResize(a, n) ==
    PublishLength(IF a.size < n THEN Reserve(a, n) ELSE ClearRange(a, n, a.size - n), n)
InsertEmpty(a, position) ==
    LET at == Clamped(position, a.size)
        grown == PublishLength(Reserve(Guard(a, a.size < MaxInt), a.size + 1), a.size + 1)
    IN  ClearRange(Move(grown, at + 1, at, a.size - at), at, 1)
ValueRemoveIndex(a, i) ==
    ValueResize(Move(a, i, i + 1, a.size - i - 1), a.size - 1)
\* The room is made before anything moves, so that nothing fails once it has.
PrepareWrite(a, i, inserting) ==
    IF inserting
    THEN InsertEmpty(Reserve(Guard(a, a.size < MaxInt), a.size + 1), i)
    ELSE Ensure(Reserve(Guard(a, 0 <= i /\ i < MaxInt), IF i < a.size THEN a.size ELSE i + 1), i)

\* __value_array_alloc, realtime_value_array_new_like and hl_alloc_array.
NewLike(a, n) ==
    LET fresh == [New(a.kind, a.nullable) EXCEPT !.allocations = 1]
        block == [fresh EXCEPT !.capacity = n, !.slots = [i \in 1 .. n |-> Empty]]
    IN  [(IF IsValue(a) THEN Reserve(fresh, n) ELSE block) EXCEPT !.size = n]
Sliced(a, first, count) ==
    LET new == NewLike(a, count)
    IN  [new EXCEPT !.slots = [i \in DOMAIN @ |-> IF i <= count THEN a.slots[first + i] ELSE @[i]]]

----------------------------------------------------------------------------
(* The same on one block of elements: arrays.c *)

TypedResize(a, n) ==
    LET r == TypedReserve(a, n)
        from == Least(n, a.size)
    IN  PublishLength(ClearRange(r, from, Most(n, a.size) - from), n)
TypedInsert(a, position, v) ==
    LET at == Clamped(position, a.size)
        room == TypedReserve(a, a.size + 1)
    IN  Write(PublishLength(Move(room, at + 1, at, a.size - at), a.size + 1), at, v)
TypedSet(a, i, v) ==
    LET r == TypedReserve(Guard(a, 0 <= i /\ i < MaxInt), i + 1)
        grown == IF i < a.size THEN r ELSE ClearRange(PublishLength(r, i + 1), a.size, i + 1 - a.size)
    IN  Write(grown, i, v)
TypedRemove(a, i, count) ==
    LET size == a.size - count
    IN  ClearRange(PublishLength(Move(a, i, i + count, size - i), size), size, count)

\* Both for an array of whatever kind: the functions __array_*_any.
Takes(a, v) == a.kind = "dynamic" \/ v \notin Foreign
Set(a, i, v) ==
    LET checked == Guard(a, Takes(a, v))
    IN  IF ~checked.ok THEN checked
        ELSE IF IsValue(a) THEN Write(PrepareWrite(a, i, FALSE), i, v) ELSE TypedSet(a, i, v)
Insert(a, position, v) ==
    LET checked == Guard(a, Takes(a, v))
    IN  IF ~checked.ok THEN checked
        ELSE IF IsValue(a) THEN Write(PrepareWrite(a, position, TRUE), Clamped(position, a.size), v)
        ELSE TypedInsert(a, position, v)
RemoveIndex(a, i) ==
    IF i \notin Indices(a) THEN Fail(a)
    ELSE IF IsValue(a) THEN ValueRemoveIndex(a, i) ELSE TypedRemove(a, i, 1)
Pop(a) ==
    IF a.size = 0 THEN Fail(a)
    ELSE IF IsValue(a) THEN ValueResize(a, a.size - 1) ELSE TypedRemove(a, a.size - 1, 1)
Resize(a, n) ==
    IF n < 0 THEN Fail(a) ELSE IF IsValue(a) THEN ValueResize(a, n) ELSE TypedResize(a, n)
Clear(a, i) == IF i \in Indices(a) THEN ClearRange(a, i, 1) ELSE Fail(a)
Reversed(a) ==
    [a EXCEPT !.slots = [i \in DOMAIN @ |-> IF i <= a.size THEN @[a.size + 1 - i] ELSE @[i]]]

\* What is returned is allocated before anything is removed.
SpliceCount(a, position, n) ==
    IF n < 0 \/ position > a.size THEN 0 ELSE Least(n, a.size - FromEnd(position, a.size))
Splice(a, position, n) ==
    LET at == FromEnd(position, a.size)
        count == SpliceCount(a, position, n)
        out == Allocate(a, a)
    IN  IF count = 0 THEN out
        ELSE IF IsValue(a) THEN ValueResize(Move(out, at, at + count, a.size - at - count), a.size - count)
        ELSE TypedRemove(out, at, count)

----------------------------------------------------------------------------
(* An Array<Dynamic> takes the element type of the first typed view of it: all is      *)
(* built before its header changes, and the header stays the one the aliases have.     *)

Elements(a) ==
    [i \in 1 .. a.size |-> IF HasBitmap(a) /\ ~a.slots[i].valid THEN Null ELSE a.slots[i].scalar]
Accepts(a, nullable) ==
    \A i \in 1 .. a.size : a.slots[i].scalar \notin Foreign /\ (nullable \/ a.slots[i].scalar # Null)

\* __value_array_retype
ToValue(a, nullable) ==
    LET candidate == [NewLike(New("value", nullable), a.size) EXCEPT !.allocations = a.allocations]
        filled == FoldLeft(LAMBDA c, i : IF a.slots[i].scalar = Null THEN c
                                         ELSE Write(c, i - 1, a.slots[i].scalar),
                           candidate, [i \in 1 .. a.size |-> i])
    IN  IF ~Accepts(a, nullable) THEN Fail(a)
        ELSE Allocate(a, Synced([filled EXCEPT !.alias = [size |-> a.size, capacity |-> a.capacity]]))
\* realtime_array_retype
ToTyped(a, nullable) ==
    LET n == Most(a.capacity, 1)
    IN  IF ~Accepts(a, nullable) THEN Fail(a)
        ELSE Allocate(a, [a EXCEPT !.kind = "typed", !.nullable = nullable, !.capacity = n,
                                   !.slots = [i \in 1 .. n |-> IF i <= a.size THEN @[i] ELSE Empty]])

----------------------------------------------------------------------------
(* Operations.  `allocations` of them succeed; one that fails throws, and what the     *)
(* program has then is what it had.                                                   *)

Begin(allocations) == [array EXCEPT !.allocations = allocations]
Budgets == {0, 2}
Closed(a) == [a EXCEPT !.ok = TRUE, !.allocations = 0]
Positions == -(array.size + 1) .. array.size + 1
Keeps == result = NoArray /\ UNCHANGED <<result, wanted>>

Becomes(after, elements) ==
    /\ array' = Closed(after)
    /\ want' = IF after.ok THEN elements ELSE want
Returns(after, new, elements) ==
    IF after.ok THEN result' = Closed(new) /\ wanted' = elements ELSE UNCHANGED <<result, wanted>>

\* What the operations do to the elements.
With(s, i, v) == IF i < Len(s) THEN [s EXCEPT ![i + 1] = v]
                 ELSE s \o [n \in 1 .. i - Len(s) |-> Null] \o <<v>>
Sized(s, n) == [i \in 1 .. n |-> IF i <= Len(s) THEN s[i] ELSE Null]
Between(s, first, last) == SubSeq(s, first + 1, last)
Without(s, first, count) == Between(s, 0, first) \o Between(s, first + count, Len(s))

SetElement ==
    \E i \in -1 .. array.size + 1, v \in Values, n \in Budgets :
        /\ i < MaxInt \/ IsValue(array)
        /\ Becomes(Set(Begin(n), i, v), With(want, i, v)) /\ Keeps
InsertElement ==
    \E position \in Positions, v \in Values, n \in Budgets :
        /\ array.size < MaxInt \/ IsValue(array)
        /\ Becomes(Insert(Begin(n), position, v),
                   InsertAt(want, Clamped(position, Len(want)) + 1, v))
        /\ Keeps
RemoveElement ==
    \E i \in Positions : Becomes(RemoveIndex(Begin(0), i), Without(want, i, 1)) /\ Keeps
PopElement == Becomes(Pop(Begin(0)), Front(want)) /\ Keeps
ClearElement == IsValue(array) /\ \E i \in Positions :
    Becomes(Clear(Begin(0), i), [want EXCEPT ![i + 1] = Null]) /\ Keeps
ResizeArray ==
    \E n \in Budgets, size \in -1 .. MaxInt :
        Becomes(Resize(Begin(n), size), Sized(want, size)) /\ Keeps
ReverseArray == Becomes(Reversed(Begin(0)), Reverse(want)) /\ Keeps

\* Also shift: the first element, and slice and copy: nothing removed.
SpliceArray ==
    /\ result = NoArray
    /\ \E position \in Positions, length \in -1 .. array.size + 1, n \in Budgets :
          LET after == Splice(Begin(n), position, length)
              taken == SpliceCount(array, position, length)
              new == Sliced(array, IF taken = 0 THEN 0 ELSE FromEnd(position, array.size), taken)
              at == Clamped(position, Len(want))
              count == IF position > Len(want) THEN 0 ELSE Most(0, Least(length, Len(want) - at))
          IN  /\ Becomes(after, Without(want, at, count))
              /\ Returns(after, new, Between(want, at, at + count))
SliceArray ==
    /\ result = NoArray
    /\ \E start, end \in Positions, n \in Budgets :
          LET first == Clamped(start, array.size)
              last == Most(first, Clamped(end, array.size))
              after == Allocate(Begin(n), Begin(n))
          IN  /\ Becomes(after, want)
              /\ Returns(after, Sliced(array, first, last - first), Between(want, first, last))

\* Equal storage keeps its element type, mixed storage is concatenated element by element.
Joined(a, b) ==
    LET same == a.kind = b.kind /\ a.nullable = b.nullable
        new == NewLike(IF same THEN a ELSE New("dynamic", TRUE), a.size + b.size)
        Of(c, i) == IF same THEN c.slots[i] ELSE [Empty EXCEPT !.scalar = Elements(c)[i]]
    IN  [new EXCEPT !.slots = [i \in DOMAIN @ |-> IF i <= a.size THEN Of(a, i)
                                    ELSE IF i <= a.size + b.size THEN Of(b, i - a.size) ELSE @[i]]]
ConcatArrays ==
    \E n \in Budgets :
        /\ result # NoArray
        /\ LET fits == array.size + result.size <= MaxInt
               after == Allocate(Guard(Begin(n), fits), Begin(n))
           IN  /\ Becomes(after, want)
               /\ Returns(after, Joined(array, result), want \o wanted)

\* The program goes on without what was returned.
Forget == result # NoArray /\ result' = NoArray /\ wanted' = <<>> /\ UNCHANGED <<array, want>>

Retype ==
    /\ array.kind = "dynamic"
    /\ \E n \in Budgets, nullable \in BOOLEAN :
          \/ Becomes(ToValue(Begin(n), nullable), want)
          \/ Becomes(ToTyped(Begin(n), nullable), want)
    /\ Keeps

Init ==
    /\ array \in {New(k, n) : k \in Kinds, n \in BOOLEAN} /\ (array.kind = "dynamic" => array.nullable)
    /\ want = <<>> /\ result = NoArray /\ wanted = <<>>

Next ==
    \/ SetElement \/ InsertElement \/ RemoveElement \/ PopElement \/ ClearElement \/ ResizeArray
    \/ ReverseArray \/ SpliceArray \/ SliceArray \/ ConcatArrays \/ Forget \/ Retype

Spec == Init /\ [][Next]_vars

TypeOK ==
    /\ array.kind \in Kinds /\ array.nullable \in BOOLEAN /\ array.ok
    /\ array.size \in 0 .. array.capacity /\ array.capacity \in 0 .. MaxInt
    /\ Len(array.slots) = array.capacity
    /\ want \in Seq(Values \union {Null}) /\ wanted \in Seq(Values \union {Null})

----------------------------------------------------------------------------
(* Through growth, overlapping moves, failed allocations and changes of the element    *)
(* type, an array has the elements the operations on it left, and so has what they     *)
(* return; no slot behind the last keeps an element alive or shows it again when the   *)
(* array grows; an alias from before the type changed sees the same array              *)
(* (value_lane_policy.h, replace_capacity, __value_array_retype, arrays.c).           *)
Spare(a) == \A i \in a.size + 1 .. a.capacity : a.slots[i] \in {Empty, Unknown}
ArraysHoldTheirElements ==
    /\ Elements(array) = want /\ Spare(array)
    /\ array.alias \in {NoAlias, [size |-> array.size, capacity |-> array.capacity]}
    /\ result # NoArray => Elements(result) = wanted /\ Spare(result)
============================================================================
