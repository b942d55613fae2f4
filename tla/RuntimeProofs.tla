---------------------------- MODULE RuntimeProofs ---------------------------
(***************************************************************************)
(* What the native runtime promises, where it is proved.                     *)
(*                                                                         *)
(* NativeCalls, for any libraries, calls and threads and whatever number of   *)
(* objects, controls and nested calls: native code stays loaded while it can   *)
(* be called, what it allocated is released once, and what a callback was     *)
(* given ends with the callback.  The invariant is CallsOK.  Every part of it *)
(* is an operator of the state it is about, so that a step is argued by what  *)
(* it does to one object, to the loader and to the stack.                    *)
(*                                                                         *)
(* WasmHeap, for any sizes and limits: the blocks tile the heap and the free  *)
(* lists are exact.  The invariant is Ready.  A sweep is argued address by    *)
(* address: SweepAt says what it has rebuilt so far.                         *)
(***************************************************************************)
EXTENDS NativeCalls, WasmHeap, FiniteSetTheorems, SequenceTheorems, WellFoundedInduction, TLAPS


Control == [library : Libraries \union {NoLibrary}, references : Nat]
Loader == [controls : [Controls -> Control], held : [Libraries -> Nat]]
Object == [kind : Kinds, control : Controls \union {None},
           value : Natives \union {None, Closure, Foreign},
           owns : BOOLEAN, scoped : BOOLEAN, failed : BOOLEAN]
Frame == [at : {"haxe", "native"}, control : Controls \union {None},
          object : Objects \union {None}, callback : Objects \union {None},
          call : Calls \union {NoCall}]
Entry == [call : Calls, function : Objects]
Fates == {"none", "owned", "released", "twice", "lost"}

Shape ==
    /\ loader \in Loader
    /\ objects \in [Objects -> Object]
    /\ natives \in [Natives -> Fates]
    /\ cache \subseteq Entry
    /\ resolving \in [Threads -> {NothingResolved} \union Entry]
    /\ stack \in Seq(Frame) /\ Len(stack) <= MaxDepth
    /\ blocking \in Int

(* What an object of each kind may be. *)
Formed(x) ==
    /\ x.kind = "none" => x.control = None
    /\ x.kind \in {"none", "library", "function"} => x.value = None
    /\ x.kind = "function" => x.control # None
    /\ x.kind = "callback" /\ x.value = Closure => x.control = None
    /\ x.kind = "pointer" => x.value # Closure
    /\ x.owns => x.kind = "pointer" /\ x.value \in Natives /\ ~x.scoped
    /\ x.scoped => x.kind = "pointer"
AllFormed(os) == \A o \in Objects : Formed(os[o])

(* A control counts the objects that hold it, the system its controls. *)
Holding(os, k) == {o \in Objects : os[o].control = k}
ControlsOf(cs, library) == {k \in Controls : cs[k].library = library}
Counted(l, os) ==
    /\ \A k \in Controls :
          /\ l.controls[k].references = Cardinality(Holding(os, k))
          /\ l.controls[k].library = NoLibrary <=> l.controls[k].references = 0
    /\ \A library \in Libraries : l.held[library] = Cardinality(ControlsOf(l.controls, library))

(* What is owned has one owner. *)
OwnersOK(n, os) ==
    /\ \A r \in Natives : n[r] # "twice"
    /\ \A r \in Natives : n[r] = "owned" => \E o \in Objects : os[o].owns /\ os[o].value = r
    /\ \A o \in Objects : os[o].owns => n[os[o].value] = "owned"
    /\ \A o, p \in Objects : os[o].owns /\ os[p].owns /\ os[o].value = os[p].value => o = p

(* What was resolved is a function. *)
CacheOK(c, rs, os) ==
    /\ \A entry, other \in c : entry.call = other.call => entry = other
    /\ \A entry \in c : os[entry.function].kind = "function"
    /\ \A t \in Threads : rs[t] # NothingResolved => os[rs[t].function].kind = "function"

(* Native calls and callbacks alternate.  A call through an object the program  *)
(* could close is the innermost, and nothing calls back from it.               *)
InNativeOf(st) == st # <<>> /\ st[Len(st)].at = "native"
FrameOK(st, os, i) ==
    /\ st[i].at = "native" => st[i].object # None
    /\ st[i].control # None =>
          /\ st[i].object # None
          /\ os[st[i].object].control = st[i].control
          /\ os[st[i].object].kind # "function" =>
                i = Len(st) /\ st[i].at = "native" /\ st[i].callback = None
    /\ st[i].at = "haxe" => st[i].callback # None
    /\ st[i].at = "haxe" /\ st[i].object # None => os[st[i].object].scoped
FramesOK(st, os) ==
    /\ st # <<>> => st[1].at = "native"
    /\ \A i \in 1 .. Len(st) : i > 1 => st[i].at # st[i - 1].at
    /\ \A i \in 1 .. Len(st) : FrameOK(st, os, i)

ScopesOK(st, os) ==
    \A o \in Objects : os[o].scoped /\ os[o].value # None =>
        \E i \in 1 .. Len(st) : st[i].at = "haxe" /\ st[i].object = o

BlockingOK(st, b) == b = IF InNativeOf(st) THEN 1 ELSE 0

CallsOK ==
    /\ Shape
    /\ AllFormed(objects)
    /\ Counted(loader, objects)
    /\ OwnersOK(natives, objects)
    /\ CacheOK(cache, resolving, objects)
    /\ FramesOK(stack, objects)
    /\ ScopesOK(stack, objects)
    /\ BlockingOK(stack, blocking)

----------------------------------------------------------------------------
(* Numbers and sets. *)

(* The numbers that stand for something else are no objects and no natives. *)
LEMMA Numbers ==
    /\ MaxControls \in Nat /\ MaxObjects \in Nat /\ MaxNatives \in Nat /\ MaxDepth \in Nat
    /\ MaxDepth > 0 /\ Main \in Threads
    /\ None \notin Controls /\ None \notin Objects /\ None \notin Natives
    /\ Closure \notin Natives /\ Foreign \notin Natives
    /\ Closure # None /\ Foreign # None /\ Foreign # Closure
    /\ Controls \subseteq Nat /\ Objects \subseteq Nat /\ Natives \subseteq Nat
BY CallsConstants DEF CallsConstants, None, Closure, Foreign, Controls, Objects, Natives

(* AnyOf chooses from what there is. *)
LEMMA AnyOfIsIn == ASSUME NEW S, S # {} PROVE AnyOf(S) \in S
BY DEF AnyOf

LEMMA FiniteControls == IsFiniteSet(Controls)
<1>1. MaxControls \in Int /\ 1 \in Int
  BY Numbers
<1> QED BY <1>1, FS_Interval DEF Controls
LEMMA FiniteObjects == IsFiniteSet(Objects)
<1>1. MaxObjects \in Int /\ 1 \in Int
  BY Numbers
<1> QED BY <1>1, FS_Interval DEF Objects

(* How a count changes when one member joins or leaves. *)
LEMMA Joins ==
    ASSUME NEW S, NEW T, NEW x, IsFiniteSet(S), x \notin S, T = S \union {x}
    PROVE  IsFiniteSet(T) /\ Cardinality(T) = Cardinality(S) + 1 /\ Cardinality(S) \in Nat
BY FS_AddElement, FS_CardinalityType
LEMMA Leaves ==
    ASSUME NEW S, NEW T, NEW x, IsFiniteSet(S), x \in S, T = S \ {x}
    PROVE  IsFiniteSet(T) /\ Cardinality(T) = Cardinality(S) - 1 /\ Cardinality(S) \in Nat
BY FS_RemoveElement, FS_CardinalityType

LEMMA HoldingIsFinite ==
    ASSUME NEW os, NEW k
    PROVE  IsFiniteSet(Holding(os, k)) /\ Cardinality(Holding(os, k)) \in Nat
<1>1. Holding(os, k) \in SUBSET Objects
  BY DEF Holding
<1>2. IsFiniteSet(Holding(os, k))
  BY <1>1, FiniteObjects, FS_Subset
<1> QED BY <1>2, FS_CardinalityType
LEMMA ControlsOfIsFinite ==
    ASSUME NEW cs, NEW library
    PROVE  /\ IsFiniteSet(ControlsOf(cs, library))
           /\ Cardinality(ControlsOf(cs, library)) \in Nat
<1>1. ControlsOf(cs, library) \in SUBSET Controls
  BY DEF ControlsOf
<1>2. IsFiniteSet(ControlsOf(cs, library))
  BY <1>1, FiniteControls, FS_Subset
<1> QED BY <1>2, FS_CardinalityType

(* What holds a control is counted by it. *)
LEMMA HeldIsCounted ==
    ASSUME NEW l, NEW os, Counted(l, os), NEW o \in Objects, NEW k \in Controls,
           os[o].control = k
    PROVE  l.controls[k].references \in Nat /\ l.controls[k].references > 0
<1>1. o \in Holding(os, k)
  BY DEF Holding
<1>2. IsFiniteSet(Holding(os, k)) /\ Cardinality(Holding(os, k)) \in Nat
  BY HoldingIsFinite
<1>3. Cardinality(Holding(os, k)) # 0
  BY <1>1, <1>2, FS_EmptySet
<1> QED BY <1>2, <1>3 DEF Counted

----------------------------------------------------------------------------
(* What the loader counts, when one object takes or leaves a control. *)

(* All objects but one hold what they held. *)
HoldAsBefore(os, new, o) == \A p \in Objects \ {o} : new[p].control = os[p].control

LEMMA CountTakes ==
    ASSUME NEW os, NEW new, NEW o \in Objects, HoldAsBefore(os, new, o),
           os[o].control = None, NEW k \in Controls, new[o].control = k
    PROVE  /\ Cardinality(Holding(new, k)) = Cardinality(Holding(os, k)) + 1
           /\ \A other \in Controls : other # k =>
                  Cardinality(Holding(new, other)) = Cardinality(Holding(os, other))
<1>1. /\ o \notin Holding(os, k) /\ Holding(new, k) = Holding(os, k) \union {o}
  BY Numbers DEF Holding, HoldAsBefore
<1>2. IsFiniteSet(Holding(os, k))
  BY HoldingIsFinite
<1>3. Cardinality(Holding(new, k)) = Cardinality(Holding(os, k)) + 1
  BY <1>1, <1>2, Joins
<1>4. \A other \in Controls : other # k => Holding(new, other) = Holding(os, other)
  BY Numbers DEF Holding, HoldAsBefore
<1> QED BY <1>3, <1>4
LEMMA CountLeaves ==
    ASSUME NEW os, NEW new, NEW o \in Objects, HoldAsBefore(os, new, o),
           new[o].control = None, NEW k \in Controls, os[o].control = k
    PROVE  /\ Cardinality(Holding(new, k)) = Cardinality(Holding(os, k)) - 1
           /\ \A other \in Controls : other # k =>
                  Cardinality(Holding(new, other)) = Cardinality(Holding(os, other))
<1>1. /\ o \in Holding(os, k) /\ Holding(new, k) = Holding(os, k) \ {o}
  BY Numbers DEF Holding, HoldAsBefore
<1>2. IsFiniteSet(Holding(os, k))
  BY HoldingIsFinite
<1>3. Cardinality(Holding(new, k)) = Cardinality(Holding(os, k)) - 1
  BY <1>1, <1>2, Leaves
<1>4. \A other \in Controls : other # k => Holding(new, other) = Holding(os, other)
  BY Numbers DEF Holding, HoldAsBefore
<1> QED BY <1>3, <1>4

(* An object that keeps its control, or has none before and after. *)
LEMMA CountedSame ==
    ASSUME NEW l, NEW os, NEW new, Counted(l, os), NEW o \in Objects,
           HoldAsBefore(os, new, o), new[o].control = os[o].control
    PROVE  Counted(l, new)
<1>1. \A k \in Controls : Holding(new, k) = Holding(os, k)
  BY DEF Holding, HoldAsBefore
<1> QED BY <1>1 DEF Counted

(* A fresh control, which its first object holds. *)
LEMMA CountedOpen ==
    ASSUME NEW l \in Loader, NEW os, NEW new, Counted(l, os), NEW o \in Objects,
           HoldAsBefore(os, new, o), os[o].control = None,
           NEW k \in Controls, l.controls[k].references = 0, new[o].control = k,
           NEW library \in Libraries
    PROVE  Open(l, k, library) \in Loader /\ Counted(Open(l, k, library), new)
<1> DEFINE m == Open(l, k, library)
           fresh == [library |-> library, references |-> 1]
<1>1. fresh \in Control
  BY DEF Control
<1>2. l.controls \in [Controls -> Control] /\ l.held \in [Libraries -> Nat]
  BY DEF Loader
<1>3. m.controls = [l.controls EXCEPT ![k] = fresh] /\ m.controls \in [Controls -> Control]
  BY <1>1, <1>2 DEF Open
<1>4. /\ m.held = [l.held EXCEPT ![library] = @ + 1] /\ m.held \in [Libraries -> Nat]
  BY <1>2 DEF Open
<1>5. m \in Loader
  BY <1>3, <1>4 DEF Open, Loader
<1>6. m.controls[k] = fresh /\ \A j \in Controls : j # k => m.controls[j] = l.controls[j]
  BY <1>2, <1>3
<1>7. NoLibrary \notin Libraries
  BY CallsConstants DEF CallsConstants
<1>8. l.controls[k].library = NoLibrary /\ Cardinality(Holding(os, k)) = 0
  BY DEF Counted
<1>9. \A j \in Controls : /\ m.controls[j].references = Cardinality(Holding(new, j))
                          /\ m.controls[j].library = NoLibrary <=> m.controls[j].references = 0
  <2>1. Cardinality(Holding(new, k)) = 1
    BY <1>8, CountTakes
  <2>2. \A j \in Controls : j # k => Cardinality(Holding(new, j)) = Cardinality(Holding(os, j))
    BY CountTakes
  <2> QED BY <1>6, <1>7, <2>1, <2>2 DEF Counted
<1>10. ASSUME NEW b \in Libraries
       PROVE  m.held[b] = Cardinality(ControlsOf(m.controls, b))
  <2>1. l.held[b] = Cardinality(ControlsOf(l.controls, b))
    BY DEF Counted
  <2>2. CASE b = library
    <3>1. /\ k \notin ControlsOf(l.controls, b)
          /\ ControlsOf(m.controls, b) = ControlsOf(l.controls, b) \union {k}
      BY <1>6, <1>7, <1>8, <2>2 DEF ControlsOf
    <3>2. IsFiniteSet(ControlsOf(l.controls, b))
      BY ControlsOfIsFinite
    <3>3. Cardinality(ControlsOf(m.controls, b)) = Cardinality(ControlsOf(l.controls, b)) + 1
      BY <3>1, <3>2, Joins
    <3> QED BY <1>2, <1>4, <2>1, <2>2, <3>3
  <2>3. CASE b # library
    <3>1. ControlsOf(m.controls, b) = ControlsOf(l.controls, b)
      BY <1>6, <1>7, <1>8, <2>3 DEF ControlsOf
    <3> QED BY <1>2, <1>4, <2>1, <2>3, <3>1
  <2> QED BY <2>2, <2>3
<1> QED BY <1>5, <1>9, <1>10 DEF Counted

(* An object takes a control that others hold, or none. *)
LEMMA CountedRetain ==
    ASSUME NEW l \in Loader, NEW os, NEW new, Counted(l, os), NEW o \in Objects,
           HoldAsBefore(os, new, o), os[o].control = None,
           NEW k \in Controls \union {None}, new[o].control = k,
           k # None => l.controls[k].references > 0
    PROVE  Retain(l, k) \in Loader /\ Counted(Retain(l, k), new)
<1>1. CASE k = None
  BY <1>1, CountedSame DEF Retain
<1>2. CASE k # None
  <2> DEFINE m == [l EXCEPT !.controls[k].references = @ + 1]
  <2>1. k \in Controls
    BY <1>2
  <2>2. l.controls \in [Controls -> Control] /\ l.held \in [Libraries -> Nat]
    BY DEF Loader
  <2>3. l.controls[k] \in Control
    BY <2>1, <2>2
  <2>4. [l.controls[k] EXCEPT !.references = @ + 1] \in Control
    BY <2>3 DEF Control
  <2>5. m.controls = [l.controls EXCEPT ![k] = [l.controls[k] EXCEPT !.references = @ + 1]]
    BY DEF Loader
  <2>6. m.controls \in [Controls -> Control]
    <3> DEFINE c == [l.controls[k] EXCEPT !.references = @ + 1]
    <3>1. c \in Control /\ m.controls = [l.controls EXCEPT ![k] = c]
      BY <2>4, <2>5
    <3> HIDE DEF c, m
    <3> QED BY <2>2, <3>1
  <2>7. m.held = l.held
    BY DEF Loader
  <2>8. m = [controls |-> m.controls, held |-> m.held]
    BY DEF Loader
  <2>9. m \in Loader
    BY <2>2, <2>6, <2>7, <2>8 DEF Loader
  <2>10. /\ m.controls[k].references = l.controls[k].references + 1
         /\ \A j \in Controls : j # k => m.controls[j] = l.controls[j]
    BY <2>1, <2>2, <2>3, <2>5 DEF Control
  <2>11. \A j \in Controls : m.controls[j].library = l.controls[j].library
    BY <2>1, <2>2, <2>3, <2>5 DEF Control
  <2>12. /\ Cardinality(Holding(new, k)) = Cardinality(Holding(os, k)) + 1
         /\ \A j \in Controls : j # k => Cardinality(Holding(new, j)) = Cardinality(Holding(os, j))
    BY <2>1, CountTakes
  <2>13. l.controls[k].references \in Nat
    BY <2>3 DEF Control
  <2>14. \A j \in Controls :
            /\ m.controls[j].references = Cardinality(Holding(new, j))
            /\ m.controls[j].library = NoLibrary <=> m.controls[j].references = 0
    BY <1>2, <2>1, <2>10, <2>11, <2>12, <2>13 DEF Counted
  <2>15. \A library \in Libraries : ControlsOf(m.controls, library) = ControlsOf(l.controls, library)
    BY <2>11 DEF ControlsOf
  <2>16. Counted(m, new)
    BY <2>7, <2>14, <2>15 DEF Counted
  <2>17. Retain(l, k) = m
    BY <1>2 DEF Retain
  <2> QED BY <2>9, <2>16, <2>17
<1> QED BY <1>1, <1>2

(* An object leaves its control; the last one unloads. *)
LEMMA CountedRelease ==
    ASSUME NEW l \in Loader, NEW os, NEW new, Counted(l, os), NEW o \in Objects,
           HoldAsBefore(os, new, o), new[o].control = None,
           NEW k \in Controls \union {None}, os[o].control = k
    PROVE  Release(l, k) \in Loader /\ Counted(Release(l, k), new)
<1>1. CASE k = None
  BY <1>1, CountedSame DEF Release
<1>2. CASE k # None
  <2> DEFINE m == [l EXCEPT !.controls[k].references = @ - 1]
             e == [controls |-> [l.controls EXCEPT ![k] = NoControl],
                   held |-> [l.held EXCEPT ![l.controls[k].library] = @ - 1]]
  <2>1. k \in Controls
    BY <1>2
  <2>2. l.controls \in [Controls -> Control] /\ l.held \in [Libraries -> Nat]
    BY DEF Loader
  <2>3. l.controls[k] \in Control /\ l.controls[k].references \in Nat
    BY <2>1, <2>2 DEF Control
  <2>4. l.controls[k].references > 0
    BY <2>1, HeldIsCounted
  <2>5. /\ Cardinality(Holding(new, k)) = Cardinality(Holding(os, k)) - 1
        /\ \A j \in Controls : j # k => Cardinality(Holding(new, j)) = Cardinality(Holding(os, j))
    BY <2>1, CountLeaves
  <2>6. CASE l.controls[k].references > 1
    <3>1. [l.controls[k] EXCEPT !.references = @ - 1] \in Control
      BY <2>3, <2>6 DEF Control
    <3>2. m.controls = [l.controls EXCEPT ![k] = [l.controls[k] EXCEPT !.references = @ - 1]]
      BY DEF Loader
    <3>3. m.controls \in [Controls -> Control]
      <4> DEFINE c == [l.controls[k] EXCEPT !.references = @ - 1]
      <4>1. c \in Control /\ m.controls = [l.controls EXCEPT ![k] = c]
        BY <3>1, <3>2
      <4> HIDE DEF c, m
      <4> QED BY <2>2, <4>1
    <3>4. m.held = l.held
      BY DEF Loader
    <3>5. m = [controls |-> m.controls, held |-> m.held]
      BY DEF Loader
    <3>6. m \in Loader
      BY <2>2, <3>3, <3>4, <3>5 DEF Loader
    <3>7. /\ m.controls[k].references = l.controls[k].references - 1
          /\ \A j \in Controls : j # k => m.controls[j] = l.controls[j]
      BY <2>1, <2>2, <2>3, <3>2 DEF Control
    <3>8. \A j \in Controls : m.controls[j].library = l.controls[j].library
      BY <2>1, <2>2, <2>3, <3>2 DEF Control
    <3>9. \A j \in Controls :
              /\ m.controls[j].references = Cardinality(Holding(new, j))
              /\ m.controls[j].library = NoLibrary <=> m.controls[j].references = 0
      BY <2>1, <2>3, <2>5, <2>6, <3>7, <3>8 DEF Counted
    <3>10. \A library \in Libraries :
              ControlsOf(m.controls, library) = ControlsOf(l.controls, library)
      BY <3>8 DEF ControlsOf
    <3>11. Counted(m, new)
      BY <3>4, <3>9, <3>10 DEF Counted
    <3>12. Release(l, k) = m
      BY <1>2, <2>6 DEF Release
    <3> QED BY <3>6, <3>11, <3>12
  <2>7. CASE l.controls[k].references = 1
    <3>1. NoControl \in Control
      BY DEF NoControl, Control
    <3>2. e.controls \in [Controls -> Control]
      BY <2>2, <3>1
    <3>3. l.controls[k].library \in Libraries
      BY <2>1, <2>3, <2>7 DEF Control, Counted
    <3> DEFINE b == l.controls[k].library
    <3>4. k \in ControlsOf(l.controls, b)
      BY <2>1 DEF ControlsOf
    <3>5. /\ IsFiniteSet(ControlsOf(l.controls, b))
          /\ Cardinality(ControlsOf(l.controls, b)) \in Nat
      BY ControlsOfIsFinite
    <3>6. NoLibrary \notin Libraries
      BY CallsConstants DEF CallsConstants
    <3>7. e.controls[k] = NoControl /\ \A j \in Controls : j # k => e.controls[j] = l.controls[j]
      BY <2>1, <2>2
    <3>8. ControlsOf(e.controls, b) = ControlsOf(l.controls, b) \ {k}
      BY <3>3, <3>6, <3>7 DEF ControlsOf, NoControl
    <3>9. Cardinality(ControlsOf(e.controls, b)) = Cardinality(ControlsOf(l.controls, b)) - 1
      BY <3>4, <3>5, <3>8, Leaves
    <3>10. Cardinality(ControlsOf(e.controls, b)) \in Nat
      BY ControlsOfIsFinite
    <3>11. l.held[b] = Cardinality(ControlsOf(l.controls, b))
      BY <3>3 DEF Counted
    <3>12. l.held[b] - 1 \in Nat
      BY <3>9, <3>10, <3>11
    <3>13. e.held \in [Libraries -> Nat]
      BY <2>2, <3>12
    <3>14. e \in Loader
      BY <3>2, <3>13 DEF Loader
    <3>15. \A j \in Controls :
              /\ e.controls[j].references = Cardinality(Holding(new, j))
              /\ e.controls[j].library = NoLibrary <=> e.controls[j].references = 0
      BY <2>1, <2>5, <2>7, <3>7 DEF Counted, NoControl
    <3>16. ASSUME NEW c \in Libraries
           PROVE  e.held[c] = Cardinality(ControlsOf(e.controls, c))
      <4>1. CASE c = b
        BY <2>2, <3>3, <3>9, <3>11, <4>1
      <4>2. CASE c # b
        <5>1. ControlsOf(e.controls, c) = ControlsOf(l.controls, c)
          BY <3>6, <3>7, <4>2 DEF ControlsOf, NoControl
        <5> QED BY <2>2, <4>2, <5>1 DEF Counted
      <4> QED BY <4>1, <4>2
    <3>17. Counted(e, new)
      BY <3>15, <3>16 DEF Counted
    <3>18. Release(l, k) = e
      BY <1>2, <2>7 DEF Release
    <3> QED BY <3>14, <3>17, <3>18
  <2> QED BY <2>3, <2>4, <2>6, <2>7
<1> QED BY <1>1, <1>2

(* haxeon_native_cached_resolve: retained and closed, the fresh control stays. *)
LEMMA Reopened ==
    ASSUME NEW l \in Loader, NEW k \in Controls, NEW library \in Libraries
    PROVE  Release(Retain(Open(l, k, library), k), k) = Open(l, k, library)
<1> DEFINE m == Open(l, k, library)
           r == Retain(m, k)
<1>1. k # None
  BY Numbers
<1>2. m.controls \in [Controls -> Control] /\ m.held \in [Libraries -> Nat]
  BY DEF Open, Loader, Control
<1>3. m.controls[k] = [library |-> library, references |-> 1]
  BY DEF Open, Loader
<1>4. r = [m EXCEPT !.controls[k].references = @ + 1]
  BY <1>1 DEF Retain
<1>5. r = [controls |-> [m.controls EXCEPT ![k] = [library |-> library, references |-> 2]],
           held |-> m.held]
  BY <1>3, <1>4 DEF Open
<1>6. r.controls[k].references = 2
  BY <1>2, <1>5
<1>7. Release(r, k) = [r EXCEPT !.controls[k].references = @ - 1]
  BY <1>1, <1>6 DEF Release
<1>8. [r EXCEPT !.controls[k].references = @ - 1]
        = [controls |-> [r.controls EXCEPT ![k] = [library |-> library, references |-> 1]],
           held |-> r.held]
  BY <1>2, <1>5, <1>6
<1>9. [r.controls EXCEPT ![k] = [library |-> library, references |-> 1]] = m.controls
  BY <1>2, <1>3, <1>5
<1> QED BY <1>5, <1>7, <1>8, <1>9 DEF Open

----------------------------------------------------------------------------
(* The other parts, when one object changes or the stack does. *)

SameBut(os, new, o) == \A p \in Objects \ {o} : new[p] = os[p]

(* What frames rely on: an object keeps its kind and scope, and a function its  *)
(* control; others may lose theirs while Haxe code runs.                      *)
LEMMA FramesKept ==
    ASSUME NEW st \in Seq(Frame), NEW os, NEW new, FramesOK(st, os),
           NEW o \in Objects, SameBut(os, new, o),
           \A i \in 1 .. Len(st) : st[i].object = o =>
               /\ new[o].kind = os[o].kind
               /\ new[o].scoped <=> os[o].scoped
               /\ \/ new[o].control = os[o].control
                  \/ os[o].kind # "function" /\ ~InNativeOf(st)
    PROVE  FramesOK(st, new)
<1> SUFFICES ASSUME NEW i \in 1 .. Len(st) PROVE FrameOK(st, new, i)
  BY DEF FramesOK
<1>1. st[i] \in Frame /\ FrameOK(st, os, i)
  BY DEF FramesOK
<1>2. CASE st[i].object = o
  <2>1. /\ new[o].kind = os[o].kind
        /\ new[o].scoped <=> os[o].scoped
        /\ \/ new[o].control = os[o].control
           \/ os[o].kind # "function" /\ ~InNativeOf(st)
    BY <1>2
  <2> QED BY <1>1, <1>2, <2>1 DEF FrameOK, InNativeOf
<1>3. CASE st[i].object # o
  <2>1. st[i].object \in Objects \union {None}
    BY <1>1 DEF Frame
  <2>2. st[i].object # None => new[st[i].object] = os[st[i].object]
    BY <1>3, <2>1 DEF SameBut
  <2> QED BY <1>1, <2>2 DEF FrameOK
<1> QED BY <1>2, <1>3

(* A call into native code, from Haxe code. *)
LEMMA FramesEnter ==
    ASSUME NEW st \in Seq(Frame), NEW os, FramesOK(st, os), ~InNativeOf(st), NEW f \in Frame,
           f.at = "native", f.object # None,
           f.control # None => /\ os[f.object].control = f.control
                               /\ os[f.object].kind # "function" => f.callback = None
    PROVE  /\ Append(st, f) \in Seq(Frame) /\ FramesOK(Append(st, f), os)
           /\ Len(Append(st, f)) = Len(st) + 1 /\ InNativeOf(Append(st, f))
<1> DEFINE t == Append(st, f)
<1>1. /\ t \in Seq(Frame) /\ Len(t) = Len(st) + 1 /\ Len(st) \in Nat
      /\ t[Len(st) + 1] = f /\ \A i \in 1 .. Len(st) : t[i] = st[i]
  OBVIOUS
<1> HIDE DEF t
<1>2. ASSUME NEW i \in 1 .. Len(t) PROVE FrameOK(t, os, i)
  <2>1. CASE i = Len(t)
    BY <1>1, <2>1 DEF FrameOK
  <2>2. CASE i # Len(t)
    <3>1. i \in 1 .. Len(st) /\ t[i] = st[i] /\ FrameOK(st, os, i)
      BY <1>1, <2>2 DEF FramesOK
    <3>2. ~(i = Len(st) /\ st[i].at = "native")
      BY <1>1, <3>1 DEF InNativeOf
    <3> QED BY <3>1, <3>2 DEF FrameOK
  <2> QED BY <2>1, <2>2
<1>3. ASSUME NEW i \in 1 .. Len(t), i > 1 PROVE t[i].at # t[i - 1].at
  <2>1. CASE i = Len(t)
    <3>1. i - 1 = Len(st) /\ Len(st) > 0 /\ t[i - 1] = st[Len(st)] /\ st # <<>>
      BY <1>1, <1>3, <2>1
    <3> QED BY <1>1, <2>1, <3>1 DEF InNativeOf
  <2>2. CASE i # Len(t)
    <3>1. i \in 1 .. Len(st) /\ t[i] = st[i] /\ t[i - 1] = st[i - 1]
      BY <1>1, <1>3, <2>2
    <3> QED BY <1>3, <3>1 DEF FramesOK
  <2> QED BY <2>1, <2>2
<1>4. t[1].at = "native"
  <2>1. CASE Len(st) = 0
    BY <1>1, <2>1
  <2>2. CASE Len(st) > 0
    BY <1>1, <2>2 DEF FramesOK
  <2> QED BY <1>1, <2>1, <2>2
<1>5. InNativeOf(t)
  BY <1>1 DEF InNativeOf
<1>6. FramesOK(t, os)
  BY <1>2, <1>3, <1>4 DEF FramesOK
<1> QED BY <1>1, <1>5, <1>6 DEF t

(* A callback, from native code that has one. *)
LEMMA FramesDispatch ==
    ASSUME NEW st \in Seq(Frame), NEW os, FramesOK(st, os), InNativeOf(st),
           st[Len(st)].callback # None, NEW f \in Frame,
           f.at = "haxe", f.control = None, f.callback # None,
           f.object # None => os[f.object].scoped
    PROVE  /\ Append(st, f) \in Seq(Frame) /\ FramesOK(Append(st, f), os)
           /\ Len(Append(st, f)) = Len(st) + 1 /\ ~InNativeOf(Append(st, f))
<1> DEFINE t == Append(st, f)
<1>1. /\ t \in Seq(Frame) /\ Len(t) = Len(st) + 1 /\ Len(st) \in Nat /\ Len(st) > 0
      /\ t[Len(st) + 1] = f /\ \A i \in 1 .. Len(st) : t[i] = st[i]
  BY DEF InNativeOf
<1> HIDE DEF t
<1>2. ASSUME NEW i \in 1 .. Len(t) PROVE FrameOK(t, os, i)
  <2>1. CASE i = Len(t)
    BY <1>1, <2>1 DEF FrameOK
  <2>2. CASE i # Len(t)
    <3>1. i \in 1 .. Len(st) /\ t[i] = st[i] /\ FrameOK(st, os, i)
      BY <1>1, <2>2 DEF FramesOK
    <3> QED BY <3>1 DEF FrameOK
  <2> QED BY <2>1, <2>2
<1>3. ASSUME NEW i \in 1 .. Len(t), i > 1 PROVE t[i].at # t[i - 1].at
  <2>1. CASE i = Len(t)
    <3>1. i - 1 = Len(st) /\ t[i - 1] = st[Len(st)]
      BY <1>1, <1>3, <2>1
    <3> QED BY <1>1, <2>1, <3>1 DEF InNativeOf
  <2>2. CASE i # Len(t)
    <3>1. i \in 1 .. Len(st) /\ t[i] = st[i] /\ t[i - 1] = st[i - 1]
      BY <1>1, <1>3, <2>2
    <3> QED BY <1>3, <3>1 DEF FramesOK
  <2> QED BY <2>1, <2>2
<1>4. t[1].at = "native"
  BY <1>1 DEF FramesOK
<1>5. ~InNativeOf(t)
  BY <1>1 DEF InNativeOf
<1>6. FramesOK(t, os)
  BY <1>2, <1>3, <1>4 DEF FramesOK
<1> QED BY <1>1, <1>5, <1>6 DEF t

(* The frames under the innermost one. *)
LEMMA Popped ==
    ASSUME NEW st \in Seq(Frame), st # <<>>
    PROVE  LET t == SubSeq(st, 1, Len(st) - 1)
           IN  /\ t \in Seq(Frame) /\ Len(st) \in Nat /\ Len(st) > 0 /\ Len(t) = Len(st) - 1
               /\ \A i \in 1 .. Len(t) : t[i] = st[i]
<1> DEFINE n == Len(st) - 1
<1>1. Len(st) \in Nat /\ Len(st) > 0 /\ n \in Int /\ 1 \in Int
  OBVIOUS
<1>2. \A i \in 1 .. n : st[i] \in Frame
  <2> HIDE DEF Frame
  <2>1. \A i \in 1 .. Len(st) : st[i] \in Frame
    OBVIOUS
  <2> QED BY <1>1, <2>1
<1> HIDE DEF n
<1>3. /\ SubSeq(st, 1, n) \in Seq(Frame)
      /\ Len(SubSeq(st, 1, n)) = IF 1 <= n THEN n - 1 + 1 ELSE 0
      /\ \A i \in 1 .. n - 1 + 1 : SubSeq(st, 1, n)[i] = st[1 + i - 1]
  BY <1>1, <1>2, SubSeqProperties
<1>4. n >= 0 /\ n = Len(st) - 1
  BY <1>1 DEF n
<1>5. Len(SubSeq(st, 1, n)) = n
  BY <1>1, <1>3, <1>4
<1>6. \A i \in 1 .. n : SubSeq(st, 1, n)[i] = st[i]
  BY <1>1, <1>3
<1> QED BY <1>1, <1>3, <1>4, <1>5, <1>6 DEF n

(* What returns uncovers the other kind of frame. *)
LEMMA FramesReturn ==
    ASSUME NEW st \in Seq(Frame), NEW os, FramesOK(st, os), st # <<>>
    PROVE  LET t == SubSeq(st, 1, Len(st) - 1)
           IN  /\ t \in Seq(Frame) /\ FramesOK(t, os) /\ Len(t) = Len(st) - 1
               /\ \A i \in 1 .. Len(t) : t[i] = st[i]
               /\ InNativeOf(t) <=> ~InNativeOf(st)
<1> DEFINE t == SubSeq(st, 1, Len(st) - 1)
<1>1. /\ t \in Seq(Frame) /\ Len(st) \in Nat /\ Len(st) > 0 /\ Len(t) = Len(st) - 1
      /\ \A i \in 1 .. Len(t) : t[i] = st[i]
  BY Popped
<1> HIDE DEF t
<1>2. ASSUME NEW i \in 1 .. Len(t) PROVE FrameOK(t, os, i)
  <2>1. i \in 1 .. Len(st) /\ i # Len(st) /\ t[i] = st[i] /\ FrameOK(st, os, i)
    BY <1>1 DEF FramesOK
  <2> QED BY <2>1 DEF FrameOK
<1>3. ASSUME NEW i \in 1 .. Len(t), i > 1 PROVE t[i].at # t[i - 1].at
  <2>1. i \in 1 .. Len(st) /\ t[i] = st[i] /\ t[i - 1] = st[i - 1]
    BY <1>1, <1>3
  <2> QED BY <1>3, <2>1 DEF FramesOK
<1>4. t # <<>> => t[1].at = "native"
  BY <1>1 DEF FramesOK
<1>5. FramesOK(t, os)
  BY <1>2, <1>3, <1>4 DEF FramesOK
<1>6. InNativeOf(t) <=> ~InNativeOf(st)
  <2>1. CASE Len(st) = 1
    <3>1. t = <<>> /\ st[Len(st)].at = "native"
      BY <1>1, <2>1 DEF FramesOK
    <3> QED BY <3>1 DEF InNativeOf
  <2>2. CASE Len(st) > 1
    <3>1. t # <<>> /\ t[Len(t)] = st[Len(st) - 1] /\ Len(st) \in 1 .. Len(st)
      BY <1>1, <2>2
    <3>2. st[Len(st)].at # st[Len(st) - 1].at
      BY <2>2, <3>1 DEF FramesOK
    <3>3. Len(st) - 1 \in 1 .. Len(st)
      BY <1>1, <2>2
    <3>4. st[Len(st)] \in Frame /\ st[Len(st) - 1] \in Frame
      BY <3>1, <3>3
    <3>5. st[Len(st)].at \in {"haxe", "native"} /\ st[Len(st) - 1].at \in {"haxe", "native"}
      BY <3>4 DEF Frame
    <3> QED BY <3>1, <3>2, <3>5 DEF InNativeOf
  <2> QED BY <1>1, <2>1, <2>2
<1> QED BY <1>1, <1>5, <1>6 DEF t

(* An address that is neither new nor taken from a frame stays in its scope. *)
LEMMA ScopesKept ==
    ASSUME NEW st, NEW os, NEW new, ScopesOK(st, os), NEW o \in Objects, SameBut(os, new, o),
           new[o].scoped /\ new[o].value # None => os[o].scoped /\ os[o].value # None
    PROVE  ScopesOK(st, new)
BY DEF ScopesOK, SameBut
LEMMA ScopesPushed ==
    ASSUME NEW st \in Seq(Frame), NEW os, ScopesOK(st, os), NEW f \in Frame
    PROVE  ScopesOK(Append(st, f), os)
<1> DEFINE t == Append(st, f)
<1>1. /\ Len(t) = Len(st) + 1 /\ Len(st) \in Nat /\ \A i \in 1 .. Len(st) : t[i] = st[i]
  OBVIOUS
<1> HIDE DEF t
<1>2. ScopesOK(t, os)
  BY <1>1 DEF ScopesOK
<1> QED BY <1>2 DEF t
LEMMA ScopesPopped ==
    ASSUME NEW st \in Seq(Frame), NEW os, ScopesOK(st, os), st # <<>>,
           \A o \in Objects : st[Len(st)].at = "haxe" /\ st[Len(st)].object = o
               => os[o].value = None
    PROVE  ScopesOK(SubSeq(st, 1, Len(st) - 1), os)
<1> DEFINE t == SubSeq(st, 1, Len(st) - 1)
<1>1. /\ Len(st) \in Nat /\ Len(st) > 0 /\ Len(t) = Len(st) - 1
      /\ \A i \in 1 .. Len(t) : t[i] = st[i]
  BY Popped
<1> HIDE DEF t
<1>2. ScopesOK(t, os)
  BY <1>1 DEF ScopesOK
<1> QED BY <1>2 DEF t

(* Who owns what: nobody new, a new owner, one less, or nothing to own. *)
LEMMA OwnersKept ==
    ASSUME NEW n, NEW os, NEW new, OwnersOK(n, os), NEW o \in Objects, SameBut(os, new, o),
           \/ ~os[o].owns /\ ~new[o].owns
           \/ os[o].owns /\ new[o].owns /\ new[o].value = os[o].value
    PROVE  OwnersOK(n, new)
<1>1. \A p \in Objects : (new[p].owns <=> os[p].owns) /\ (os[p].owns => new[p].value = os[p].value)
  BY DEF SameBut
<1> QED BY <1>1 DEF OwnersOK
LEMMA OwnersGain ==
    ASSUME NEW n \in [Natives -> Fates], NEW os, NEW new, OwnersOK(n, os), NEW o \in Objects,
           SameBut(os, new, o), NEW r \in Natives, n[r] = "none",
           AllFormed(os), ~os[o].owns, new[o].owns, new[o].value = r
    PROVE  /\ [n EXCEPT ![r] = "owned"] \in [Natives -> Fates]
           /\ OwnersOK([n EXCEPT ![r] = "owned"], new)
<1> DEFINE m == [n EXCEPT ![r] = "owned"]
<1>1. m \in [Natives -> Fates] /\ m[r] = "owned" /\ \A q \in Natives : q # r => m[q] = n[q]
  BY DEF Fates
<1>2. \A p \in Objects : os[p].owns => os[p].value \in Natives /\ os[p].value # r
  BY DEF AllFormed, Formed, OwnersOK
<1>3. \A p \in Objects : p # o => new[p] = os[p]
  BY DEF SameBut
<1> HIDE DEF m
<1>4. \A q \in Natives : m[q] # "twice"
  BY <1>1 DEF OwnersOK
<1>5. \A q \in Natives : m[q] = "owned" => \E p \in Objects : new[p].owns /\ new[p].value = q
  BY <1>1, <1>3 DEF OwnersOK
<1>6. \A p \in Objects : new[p].owns => m[new[p].value] = "owned"
  BY <1>1, <1>2, <1>3 DEF OwnersOK
<1>7. \A p, q \in Objects : new[p].owns /\ new[q].owns /\ new[p].value = new[q].value => p = q
  BY <1>2, <1>3 DEF OwnersOK
<1>8. OwnersOK(m, new)
  BY <1>4, <1>5, <1>6, <1>7 DEF OwnersOK
<1> QED BY <1>1, <1>8 DEF m
LEMMA OwnersLose ==
    ASSUME NEW n \in [Natives -> Fates], NEW os, NEW new, OwnersOK(n, os), NEW o \in Objects,
           SameBut(os, new, o), AllFormed(os), os[o].owns, ~new[o].owns
    PROVE  /\ ReleaseNative(n, os[o].value) \in [Natives -> Fates]
           /\ OwnersOK(ReleaseNative(n, os[o].value), new)
<1> DEFINE r == os[o].value
           m == ReleaseNative(n, r)
<1>1. r \in Natives /\ n[r] = "owned"
  BY DEF AllFormed, Formed, OwnersOK
<1>2. m \in [Natives -> Fates] /\ m[r] = "released" /\ \A q \in Natives : q # r => m[q] = n[q]
  BY <1>1 DEF Fates, ReleaseNative
<1>3. \A p \in Objects : p # o => new[p] = os[p] /\ (os[p].owns => os[p].value # r)
  BY DEF SameBut, OwnersOK
<1>4. \A p \in Objects : os[p].owns => os[p].value \in Natives
  BY DEF AllFormed, Formed
<1> HIDE DEF m
<1>5. \A q \in Natives : m[q] # "twice"
  BY <1>2 DEF OwnersOK
<1>6. \A q \in Natives : m[q] = "owned" => \E p \in Objects : new[p].owns /\ new[p].value = q
  BY <1>2, <1>3 DEF OwnersOK
<1>7. \A p \in Objects : new[p].owns => m[new[p].value] = "owned"
  BY <1>2, <1>3, <1>4 DEF OwnersOK
<1>8. \A p, q \in Objects : new[p].owns /\ new[q].owns /\ new[p].value = new[q].value => p = q
  BY <1>3 DEF OwnersOK
<1>9. OwnersOK(m, new)
  BY <1>5, <1>6, <1>7, <1>8 DEF OwnersOK
<1> QED BY <1>2, <1>9 DEF m
LEMMA OwnersSettled ==
    ASSUME NEW n \in [Natives -> Fates], NEW os, OwnersOK(n, os), AllFormed(os),
           NEW r \in Natives, n[r] = "none", NEW fate \in {"released", "lost"}
    PROVE  /\ [n EXCEPT ![r] = fate] \in [Natives -> Fates]
           /\ OwnersOK([n EXCEPT ![r] = fate], os)
<1> DEFINE m == [n EXCEPT ![r] = fate]
<1>1. m \in [Natives -> Fates] /\ m[r] = fate /\ \A q \in Natives : q # r => m[q] = n[q]
  BY DEF Fates
<1>2. \A p \in Objects : os[p].owns => os[p].value \in Natives /\ os[p].value # r
  BY DEF AllFormed, Formed, OwnersOK
<1> HIDE DEF m
<1>3. OwnersOK(m, os)
  BY <1>1, <1>2 DEF OwnersOK
<1> QED BY <1>1, <1>3 DEF m

(* A function that was resolved stays one. *)
LEMMA CacheKept ==
    ASSUME NEW c, c \subseteq Entry, NEW rs \in [Threads -> {NothingResolved} \union Entry],
           NEW os, NEW new, CacheOK(c, rs, os), NEW o \in Objects, SameBut(os, new, o),
           \/ new[o].kind = os[o].kind
           \/ os[o].kind # "function"
           \/ /\ \A entry \in c : entry.function # o
              /\ \A t \in Threads : rs[t] # NothingResolved => rs[t].function # o
    PROVE  CacheOK(c, rs, new)
<1>1. ASSUME NEW entry \in c PROVE new[entry.function].kind = "function"
  <2>1. entry.function \in Objects /\ os[entry.function].kind = "function"
    BY DEF Entry, CacheOK
  <2> QED BY <2>1 DEF SameBut
<1>2. ASSUME NEW t \in Threads, rs[t] # NothingResolved
      PROVE  new[rs[t].function].kind = "function"
  <2>1. rs[t] \in Entry
    BY <1>2
  <2>2. rs[t].function \in Objects /\ os[rs[t].function].kind = "function"
    BY <1>2, <2>1 DEF Entry, CacheOK
  <2> QED BY <1>2, <2>2 DEF SameBut
<1> QED BY <1>1, <1>2 DEF CacheOK

----------------------------------------------------------------------------
(* The objects the steps make. *)

LEMMA MadeObjects ==
    ASSUME NEW k \in Controls \union {None}
    PROVE  /\ NoObject \in Object /\ Formed(NoObject)
           /\ [NoObject EXCEPT !.kind = "library", !.control = k] \in Object
           /\ Formed([NoObject EXCEPT !.kind = "library", !.control = k])
           /\ Function(k) \in Object
           /\ k # None => Formed(Function(k))
           /\ \A value \in Natives \union {None, Foreign} :
                 Pointer(value, k) \in Object /\ Formed(Pointer(value, k))
           /\ \A r \in Natives : Owned(r, k) \in Object /\ Formed(Owned(r, k))
           /\ [Pointer(Foreign, None) EXCEPT !.scoped = TRUE] \in Object
           /\ Formed([Pointer(Foreign, None) EXCEPT !.scoped = TRUE])
           /\ [NoObject EXCEPT !.kind = "callback", !.value = Closure] \in Object
           /\ Formed([NoObject EXCEPT !.kind = "callback", !.value = Closure])
<1>1. NoObject \in Object /\ Formed(NoObject)
  BY DEF NoObject, Object, Kinds, Formed
<1>2. /\ [NoObject EXCEPT !.kind = "library", !.control = k] \in Object
      /\ Formed([NoObject EXCEPT !.kind = "library", !.control = k])
  BY DEF NoObject, Object, Kinds, Formed
<1>3. Function(k) \in Object /\ (k # None => Formed(Function(k)))
  BY DEF Function, NoObject, Object, Kinds, Formed
<1>4. ASSUME NEW value \in Natives \union {None, Foreign}
      PROVE  Pointer(value, k) \in Object /\ Formed(Pointer(value, k))
  BY Numbers DEF Pointer, NoObject, Object, Kinds, Formed
<1>5. ASSUME NEW r \in Natives
      PROVE  Owned(r, k) \in Object /\ Formed(Owned(r, k))
  BY Numbers DEF Owned, Pointer, NoObject, Object, Kinds, Formed
<1>6. /\ [Pointer(Foreign, None) EXCEPT !.scoped = TRUE] \in Object
      /\ Formed([Pointer(Foreign, None) EXCEPT !.scoped = TRUE])
  BY Numbers DEF Pointer, NoObject, Object, Kinds, Formed
<1>7. /\ [NoObject EXCEPT !.kind = "callback", !.value = Closure] \in Object
      /\ Formed([NoObject EXCEPT !.kind = "callback", !.value = Closure])
  BY DEF NoObject, Object, Kinds, Formed
<1> QED BY <1>1, <1>2, <1>3, <1>4, <1>5, <1>6, <1>7

(* What a fresh object cannot disturb. *)
LEMMA FreshObject ==
    ASSUME CallsOK, NEW o \in FreeObjects, NEW x \in Object, Formed(x),
           NEW new, new = [objects EXCEPT ![o] = x]
    PROVE  /\ o \in Objects /\ new \in [Objects -> Object] /\ AllFormed(new)
           /\ SameBut(objects, new, o) /\ HoldAsBefore(objects, new, o)
           /\ objects[o].control = None /\ ~objects[o].owns /\ ~objects[o].scoped
           /\ new[o] = x
           /\ CacheOK(cache, resolving, new) /\ FramesOK(stack, new)
           /\ ~x.scoped => ScopesOK(stack, new)
<1>1. /\ objects \in [Objects -> Object] /\ AllFormed(objects) /\ stack \in Seq(Frame)
      /\ cache \subseteq Entry /\ resolving \in [Threads -> {NothingResolved} \union Entry]
      /\ CacheOK(cache, resolving, objects) /\ FramesOK(stack, objects)
      /\ ScopesOK(stack, objects)
  BY DEF CallsOK, Shape
<1>2. o \in Objects /\ objects[o].kind = "none"
  BY DEF FreeObjects
<1>3. new \in [Objects -> Object] /\ new[o] = x /\ SameBut(objects, new, o)
  BY <1>1, <1>2 DEF SameBut
<1>4. AllFormed(new)
  BY <1>1, <1>2, <1>3 DEF AllFormed, SameBut
<1>5. HoldAsBefore(objects, new, o)
  BY <1>3 DEF SameBut, HoldAsBefore
<1>6. Formed(objects[o])
  BY <1>1, <1>2 DEF AllFormed
<1>7. objects[o].control = None /\ ~objects[o].owns /\ ~objects[o].scoped
  BY <1>2, <1>6 DEF Formed
<1>8. CacheOK(cache, resolving, new)
  BY <1>1, <1>2, <1>3, CacheKept
<1>9. FramesOK(stack, new)
  <2> SUFFICES ASSUME NEW i \in 1 .. Len(stack) PROVE FrameOK(stack, new, i)
    BY <1>1 DEF FramesOK
  <2>1. stack[i] \in Frame /\ FrameOK(stack, objects, i)
    BY <1>1 DEF FramesOK
  <2>2. CASE stack[i].object = o
    <3>1. stack[i].control = None /\ stack[i].at # "haxe"
      BY <1>2, <1>7, <2>1, <2>2, Numbers DEF FrameOK
    <3> QED BY <2>1, <3>1 DEF FrameOK
  <2>3. CASE stack[i].object # o
    <3>1. stack[i].object \in Objects \union {None}
      BY <2>1 DEF Frame
    <3>2. stack[i].object # None => new[stack[i].object] = objects[stack[i].object]
      BY <1>3, <2>3, <3>1 DEF SameBut
    <3> QED BY <2>1, <3>2 DEF FrameOK
  <2> QED BY <2>2, <2>3
<1>10. ~x.scoped => ScopesOK(stack, new)
  BY <1>1, <1>2, <1>3, ScopesKept
<1> QED BY <1>2, <1>3, <1>4, <1>5, <1>7, <1>8, <1>9, <1>10

(* Free controls and natives. *)
LEMMA FreeIsThere ==
    /\ FreeObjects # {} => AnyOf(FreeObjects) \in FreeObjects
    /\ FreeControls # {} => /\ AnyOf(FreeControls) \in Controls
                            /\ loader.controls[AnyOf(FreeControls)].references = 0
    /\ FreeNatives # {} => /\ AnyOf(FreeNatives) \in Natives
                           /\ natives[AnyOf(FreeNatives)] = "none"
<1>1. FreeObjects # {} => AnyOf(FreeObjects) \in FreeObjects
  BY AnyOfIsIn
<1>2. FreeControls # {} => AnyOf(FreeControls) \in FreeControls
  BY AnyOfIsIn
<1>3. FreeNatives # {} => AnyOf(FreeNatives) \in FreeNatives
  BY AnyOfIsIn
<1> QED BY <1>1, <1>2, <1>3 DEF FreeControls, FreeNatives

(* While Haxe code runs, no native code is innermost. *)
LEMMA HaxeRuns ==
    /\ InHaxe => ~InNativeOf(stack)
    /\ InNative <=> InNativeOf(stack)
BY DEF InHaxe, InNative, InNativeOf, Top

(* An object takes no more than the control of one that is there. *)
LEMMA FreshHolder ==
    ASSUME CallsOK, NEW o \in FreeObjects, NEW x \in Object, Formed(x), ~x.owns, ~x.scoped,
           objects' = [objects EXCEPT ![o] = x],
           x.control # None => loader.controls[x.control].references > 0,
           loader' = Retain(loader, x.control),
           UNCHANGED <<natives, cache, resolving, stack, blocking>>
    PROVE  CallsOK'
<1>1. /\ o \in Objects /\ objects' \in [Objects -> Object] /\ AllFormed(objects')
      /\ SameBut(objects, objects', o) /\ HoldAsBefore(objects, objects', o)
      /\ objects[o].control = None /\ ~objects[o].owns /\ objects'[o] = x
      /\ CacheOK(cache, resolving, objects') /\ FramesOK(stack, objects')
      /\ ScopesOK(stack, objects')
  BY FreshObject
<1>2. loader \in Loader /\ Counted(loader, objects) /\ OwnersOK(natives, objects)
  BY DEF CallsOK, Shape
<1>3. x.control \in Controls \union {None}
  BY DEF Object
<1>4. loader' \in Loader /\ Counted(loader', objects')
  BY <1>1, <1>2, <1>3, CountedRetain
<1>5. OwnersOK(natives, objects')
  BY <1>1, <1>2, OwnersKept
<1> QED BY <1>1, <1>4, <1>5 DEF CallsOK, Shape

(* The control of an object that is there. *)
LEMMA ControlIsCounted ==
    ASSUME CallsOK, NEW o \in Objects
    PROVE  /\ objects[o] \in Object /\ Formed(objects[o])
           /\ objects[o].control \in Controls \union {None}
           /\ objects[o].control # None => loader.controls[objects[o].control].references > 0
<1>1. objects[o] \in Object /\ Formed(objects[o])
  BY DEF CallsOK, Shape, AllFormed
<1>2. objects[o].control \in Controls \union {None}
  BY <1>1 DEF Object
<1>3. Counted(loader, objects)
  BY DEF CallsOK
<1>4. objects[o].control # None => loader.controls[objects[o].control].references > 0
  BY <1>2, <1>3, HeldIsCounted
<1> QED BY <1>1, <1>2, <1>4

----------------------------------------------------------------------------
(* The steps.  First those that make an object. *)

LEMMA OpenLibraryKeeps == ASSUME CallsOK, OpenLibrary PROVE CallsOK'
<1> DEFINE k == AnyOf(FreeControls)
           o == AnyOf(FreeObjects)
           x == [NoObject EXCEPT !.kind = "library", !.control = k]
<1>1. PICK library \in Libraries :
          loader' = Open(loader, k, library) /\ objects' = [objects EXCEPT ![o] = x]
  BY DEF OpenLibrary
<1>2. /\ k \in Controls /\ loader.controls[k].references = 0 /\ o \in FreeObjects
  BY FreeIsThere DEF OpenLibrary
<1>3. x \in Object /\ Formed(x)
  BY <1>2, MadeObjects
<1>4. x.control = k /\ ~x.owns /\ ~x.scoped
  BY DEF NoObject
<1> HIDE DEF k, o, x
<1>5. /\ o \in Objects /\ objects' \in [Objects -> Object] /\ AllFormed(objects')
      /\ SameBut(objects, objects', o) /\ HoldAsBefore(objects, objects', o)
      /\ objects[o].control = None /\ ~objects[o].owns /\ objects'[o] = x
      /\ CacheOK(cache, resolving, objects') /\ FramesOK(stack, objects')
      /\ ScopesOK(stack, objects')
  BY <1>1, <1>2, <1>3, <1>4, FreshObject
<1>6. loader \in Loader /\ Counted(loader, objects) /\ OwnersOK(natives, objects)
  BY DEF CallsOK, Shape
<1>7. loader' \in Loader /\ Counted(loader', objects')
  BY <1>1, <1>2, <1>4, <1>5, <1>6, CountedOpen
<1>8. OwnersOK(natives, objects')
  BY <1>4, <1>5, <1>6, OwnersKept
<1>9. UNCHANGED <<natives, cache, resolving, stack, blocking>>
  BY DEF OpenLibrary
<1> QED BY <1>5, <1>7, <1>8, <1>9 DEF CallsOK, Shape

LEMMA ResolveKeeps == ASSUME CallsOK, NEW o \in Objects, Resolve(o) PROVE CallsOK'
<1> DEFINE f == AnyOf(FreeObjects)
           x == Function(objects[o].control)
<1>1. f \in FreeObjects
  BY FreeIsThere DEF Resolve
<1>2. /\ objects[o].control \in Controls \union {None} /\ objects[o].control # None
      /\ loader.controls[objects[o].control].references > 0
  BY ControlIsCounted DEF Resolve
<1>3. x \in Object /\ Formed(x)
  BY <1>2, MadeObjects
<1>4. x.control = objects[o].control /\ ~x.owns /\ ~x.scoped
  BY DEF Function, NoObject
<1>5. /\ objects' = [objects EXCEPT ![f] = x] /\ loader' = Retain(loader, x.control)
      /\ UNCHANGED <<natives, cache, resolving, stack, blocking>>
  BY <1>4 DEF Resolve
<1> HIDE DEF f, x
<1> QED BY <1>1, <1>2, <1>3, <1>4, <1>5, FreshHolder

LEMMA FieldPointerKeeps == ASSUME CallsOK, NEW o \in Objects, FieldPointer(o) PROVE CallsOK'
<1> DEFINE f == AnyOf(FreeObjects)
           x == Pointer(objects[o].value, None)
<1>1. f \in FreeObjects
  BY FreeIsThere DEF FieldPointer
<1>2. objects[o] \in Object /\ Formed(objects[o]) /\ objects[o].kind = "pointer"
  BY ControlIsCounted DEF FieldPointer, Is
<1>3. objects[o].value \in Natives \union {None, Foreign}
  BY <1>2 DEF Object, Formed
<1>4. x \in Object /\ Formed(x)
  BY <1>3, MadeObjects
<1>5. x.control = None /\ ~x.owns /\ ~x.scoped
  BY DEF Pointer, NoObject
<1>6. /\ objects' = [objects EXCEPT ![f] = x] /\ loader' = Retain(loader, x.control)
      /\ UNCHANGED <<natives, cache, resolving, stack, blocking>>
  BY <1>5 DEF FieldPointer, Retain
<1> HIDE DEF f, x
<1> QED BY <1>1, <1>4, <1>5, <1>6, FreshHolder

LEMMA CreateCallbackKeeps == ASSUME CallsOK, CreateCallback PROVE CallsOK'
<1> DEFINE f == AnyOf(FreeObjects)
           x == [NoObject EXCEPT !.kind = "callback", !.value = Closure]
<1>1. f \in FreeObjects
  BY FreeIsThere DEF CreateCallback
<1>2. x \in Object /\ Formed(x)
  BY MadeObjects
<1>3. x.control = None /\ ~x.owns /\ ~x.scoped
  BY DEF NoObject
<1>4. /\ objects' = [objects EXCEPT ![f] = x] /\ loader' = Retain(loader, x.control)
      /\ UNCHANGED <<natives, cache, resolving, stack, blocking>>
  BY <1>3 DEF CreateCallback, Retain
<1> HIDE DEF f, x
<1> QED BY <1>1, <1>2, <1>3, <1>4, FreshHolder

LEMMA CallbackFromPointerKeeps ==
    ASSUME CallsOK, NEW o \in Objects, CallbackFromPointer(o) PROVE CallsOK'
<1> DEFINE f == AnyOf(FreeObjects)
           x == [NoObject EXCEPT !.kind = "callback", !.value = objects[o].value,
                                 !.control = objects[o].control]
<1>1. f \in FreeObjects
  BY FreeIsThere DEF CallbackFromPointer
<1>2. /\ objects[o] \in Object /\ Formed(objects[o]) /\ objects[o].kind = "pointer"
      /\ objects[o].control \in Controls \union {None}
      /\ objects[o].control # None => loader.controls[objects[o].control].references > 0
  BY ControlIsCounted DEF CallbackFromPointer, Is
<1>3. /\ objects[o].value \in Natives \union {None, Closure, Foreign}
      /\ objects[o].value # Closure
  BY <1>2 DEF Object, Formed
<1>4. x \in Object /\ Formed(x)
  BY <1>2, <1>3 DEF NoObject, Object, Kinds, Formed
<1>5. x.control = objects[o].control /\ ~x.owns /\ ~x.scoped
  BY DEF NoObject
<1>6. /\ objects' = [objects EXCEPT ![f] = x] /\ loader' = Retain(loader, x.control)
      /\ UNCHANGED <<natives, cache, resolving, stack, blocking>>
  BY <1>5 DEF CallbackFromPointer
<1> HIDE DEF f, x
<1> QED BY <1>1, <1>2, <1>4, <1>5, <1>6, FreshHolder

LEMMA AllocPointerKeeps == ASSUME CallsOK, AllocPointer PROVE CallsOK'
<1> DEFINE o == AnyOf(FreeObjects)
           r == AnyOf(FreeNatives)
           x == Owned(r, None)
<1>1. o \in FreeObjects /\ r \in Natives /\ natives[r] = "none"
  BY FreeIsThere DEF AllocPointer
<1>2. x \in Object /\ Formed(x)
  BY <1>1, MadeObjects
<1>3. x.control = None /\ ~x.scoped
  BY DEF Owned, Pointer, NoObject
<1>4. x.owns /\ x.value = r
  BY DEF Owned, Pointer, NoObject
<1>5. /\ natives' = [natives EXCEPT ![r] = "owned"] /\ objects' = [objects EXCEPT ![o] = x]
      /\ UNCHANGED <<loader, cache, resolving, stack, blocking>>
  BY DEF AllocPointer
<1> HIDE DEF o, r, x
<1>6. /\ o \in Objects /\ objects' \in [Objects -> Object] /\ AllFormed(objects')
      /\ SameBut(objects, objects', o) /\ HoldAsBefore(objects, objects', o)
      /\ objects[o].control = None /\ ~objects[o].owns /\ objects'[o] = x
      /\ CacheOK(cache, resolving, objects') /\ FramesOK(stack, objects')
      /\ ScopesOK(stack, objects')
  BY <1>1, <1>2, <1>3, <1>5, FreshObject, ZenonT(60)
<1>7. /\ Counted(loader, objects) /\ OwnersOK(natives, objects)
      /\ natives \in [Natives -> Fates] /\ AllFormed(objects)
  BY DEF CallsOK, Shape
<1>8. Counted(loader, objects')
  BY <1>3, <1>6, <1>7, CountedSame
<1>9. objects'[o].owns /\ objects'[o].value = r
  BY <1>4, <1>6, Zenon
<1>10. natives' \in [Natives -> Fates] /\ OwnersOK(natives', objects')
  BY <1>1, <1>5, <1>6, <1>7, <1>9, OwnersGain
<1>11. Shape'
  BY <1>5, <1>6, <1>10 DEF CallsOK, Shape
<1> QED BY <1>5, <1>6, <1>8, <1>10, <1>11 DEF CallsOK

----------------------------------------------------------------------------
(* The cache. *)

LEMMA StartResolveKeeps ==
    ASSUME CallsOK, NEW t \in Threads, NEW call \in Calls, StartResolve(t, call)
    PROVE  CallsOK'
<1> DEFINE k == AnyOf(FreeControls)
           o == AnyOf(FreeObjects)
           x == Function(k)
           e == [call |-> call, function |-> o]
<1>1. /\ k \in Controls /\ loader.controls[k].references = 0 /\ o \in FreeObjects
  BY FreeIsThere DEF StartResolve
<1>2. x \in Object /\ Formed(x)
  BY <1>1, MadeObjects, Numbers
<1>3. x.control = k /\ x.kind = "function" /\ ~x.owns /\ ~x.scoped
  BY DEF Function, NoObject
<1>4. /\ loader' = Release(Retain(Open(loader, k, call.library), k), k)
      /\ objects' = [objects EXCEPT ![o] = x]
      /\ resolving' = [resolving EXCEPT ![t] = e]
      /\ UNCHANGED <<natives, cache, stack, blocking>>
  BY DEF StartResolve
<1>5. call.library \in Libraries
  BY CallsConstants DEF CallsConstants
<1>6. o \in Objects
  BY <1>1 DEF FreeObjects
<1>7. e \in Entry /\ e.function = o
  BY <1>6 DEF Entry
<1> HIDE DEF k, o, x, e
<1>8. /\ objects' \in [Objects -> Object] /\ AllFormed(objects')
      /\ SameBut(objects, objects', o) /\ HoldAsBefore(objects, objects', o)
      /\ objects[o].control = None /\ ~objects[o].owns /\ objects'[o] = x
      /\ CacheOK(cache, resolving, objects') /\ FramesOK(stack, objects')
      /\ ScopesOK(stack, objects')
  BY <1>1, <1>2, <1>3, <1>4, FreshObject
<1>9. /\ loader \in Loader /\ Counted(loader, objects) /\ OwnersOK(natives, objects)
      /\ resolving \in [Threads -> {NothingResolved} \union Entry]
  BY DEF CallsOK, Shape
<1>10. loader' = Open(loader, k, call.library)
  BY <1>1, <1>4, <1>5, <1>9, Reopened
<1>11. objects'[o].control = k
  BY <1>3, <1>8
<1>12. loader' \in Loader /\ Counted(loader', objects')
  BY <1>1, <1>5, <1>6, <1>8, <1>9, <1>10, <1>11, CountedOpen
<1>13. ~objects'[o].owns
  BY <1>3, <1>8, Zenon
<1>14. OwnersOK(natives, objects')
  BY <1>6, <1>8, <1>9, <1>13, OwnersKept
<1>15. resolving' \in [Threads -> {NothingResolved} \union Entry]
  BY <1>4, <1>7, <1>9
<1>16. objects'[o].kind = "function"
  BY <1>3, <1>8
<1>17. CacheOK(cache, resolving', objects')
  <2>1. \A u \in Threads : u # t => resolving'[u] = resolving[u]
    BY <1>4, <1>9
  <2>2. resolving'[t] = e
    BY <1>4, <1>9
  <2>3. ASSUME NEW u \in Threads, resolving'[u] # NothingResolved
        PROVE  objects'[resolving'[u].function].kind = "function"
    <3>1. CASE u = t
      BY <1>7, <1>16, <2>2, <3>1
    <3>2. CASE u # t
      BY <1>8, <2>1, <2>3, <3>2 DEF CacheOK
    <3> QED BY <3>1, <3>2
  <2> QED BY <1>8, <2>3 DEF CacheOK
<1>18. Shape'
  BY <1>4, <1>8, <1>12, <1>15 DEF CallsOK, Shape
<1> QED BY <1>4, <1>8, <1>12, <1>14, <1>17, <1>18 DEF CallsOK

LEMMA GiveUpKeeps == ASSUME CallsOK, NEW t \in Threads, GiveUp(t) PROVE CallsOK'
<1>1. /\ resolving' = [resolving EXCEPT ![t] = NothingResolved]
      /\ UNCHANGED <<loader, objects, natives, cache, stack, blocking>>
  BY DEF GiveUp
<1>2. /\ resolving \in [Threads -> {NothingResolved} \union Entry]
      /\ CacheOK(cache, resolving, objects)
  BY DEF CallsOK, Shape
<1>3. resolving' \in [Threads -> {NothingResolved} \union Entry]
  BY <1>1, <1>2
<1>4. \A u \in Threads : resolving'[u] # NothingResolved => resolving'[u] = resolving[u]
  BY <1>1, <1>2
<1>5. CacheOK(cache, resolving', objects)
  BY <1>2, <1>4 DEF CacheOK
<1>6. Shape'
  BY <1>1, <1>3 DEF CallsOK, Shape
<1> QED BY <1>1, <1>5, <1>6 DEF CallsOK

LEMMA PublishKeeps == ASSUME CallsOK, NEW t \in Threads, Publish(t) PROVE CallsOK'
<1> DEFINE e == resolving[t]
<1>1. /\ resolving' = [resolving EXCEPT ![t] = NothingResolved]
      /\ UNCHANGED <<loader, objects, natives, stack, blocking>>
      /\ cache' = IF Cached(e.call) = {} THEN cache \union {e} ELSE cache
      /\ e # NothingResolved
  BY DEF Publish
<1>2. /\ resolving \in [Threads -> {NothingResolved} \union Entry] /\ cache \subseteq Entry
      /\ CacheOK(cache, resolving, objects)
  BY DEF CallsOK, Shape
<1>3. e \in Entry /\ objects[e.function].kind = "function"
  BY <1>1, <1>2 DEF CacheOK
<1>4. resolving' \in [Threads -> {NothingResolved} \union Entry]
  BY <1>1, <1>2
<1>5. \A u \in Threads : resolving'[u] # NothingResolved => resolving'[u] = resolving[u]
  BY <1>1, <1>2
<1> HIDE DEF e
<1>6. cache' \subseteq Entry
  BY <1>1, <1>2, <1>3
<1>7. CacheOK(cache', resolving', objects)
  <2>1. CASE Cached(e.call) = {}
    <3>1. cache' = cache \union {e} /\ \A other \in cache : other.call # e.call
      BY <1>1, <2>1 DEF Cached
    <3>2. \A entry, other \in cache' : entry.call = other.call => entry = other
      BY <1>2, <3>1 DEF CacheOK
    <3>3. \A entry \in cache' : objects[entry.function].kind = "function"
      BY <1>2, <1>3, <3>1 DEF CacheOK
    <3>4. \A u \in Threads : resolving'[u] # NothingResolved =>
              objects[resolving'[u].function].kind = "function"
      BY <1>2, <1>5 DEF CacheOK
    <3> QED BY <3>2, <3>3, <3>4 DEF CacheOK
  <2>2. CASE Cached(e.call) # {}
    <3>1. cache' = cache
      BY <1>1, <2>2
    <3> QED BY <1>2, <1>5, <3>1 DEF CacheOK
  <2> QED BY <2>1, <2>2
<1>8. Shape'
  BY <1>1, <1>4, <1>6 DEF CallsOK, Shape
<1> QED BY <1>1, <1>7, <1>8 DEF CallsOK

----------------------------------------------------------------------------
(* Into native code. *)

LEMMA EnterKeeps ==
    ASSUME CallsOK, InHaxe, NEW f \in Frame, Enter(f), f.object # None,
           f.control # None => /\ objects[f.object].control = f.control
                               /\ objects[f.object].kind # "function" => f.callback = None,
           UNCHANGED <<loader, objects, natives, cache, resolving>>
    PROVE  CallsOK'
<1> DEFINE g == [f EXCEPT !.at = "native"]
<1>1. /\ g \in Frame /\ g.at = "native" /\ g.object = f.object /\ g.control = f.control
      /\ g.callback = f.callback
  BY DEF Frame
<1>2. Len(stack) < MaxDepth /\ stack' = Append(stack, g) /\ blocking' = blocking + 1
  BY DEF Enter
<1> HIDE DEF g
<1>3. /\ stack \in Seq(Frame) /\ FramesOK(stack, objects) /\ ScopesOK(stack, objects)
      /\ BlockingOK(stack, blocking) /\ ~InNativeOf(stack)
  BY HaxeRuns DEF CallsOK, Shape
<1>4. /\ stack' \in Seq(Frame) /\ FramesOK(stack', objects) /\ InNativeOf(stack')
      /\ Len(stack') = Len(stack) + 1
  BY <1>1, <1>2, <1>3, FramesEnter
<1>5. ScopesOK(stack', objects)
  BY <1>1, <1>2, <1>3, ScopesPushed
<1>6. blocking' = 1
  BY <1>2, <1>3 DEF BlockingOK
<1>7. BlockingOK(stack', blocking')
  BY <1>4, <1>6 DEF BlockingOK
<1>8. Len(stack') <= MaxDepth
  BY <1>2, <1>3, <1>4, Numbers
<1>9. Shape'
  BY <1>4, <1>6, <1>8 DEF CallsOK, Shape
<1> QED BY <1>4, <1>5, <1>7, <1>9 DEF CallsOK

LEMMA CallFunctionKeeps == ASSUME CallsOK, NEW o \in Objects, CallFunction(o) PROVE CallsOK'
<1> DEFINE f == [NoFrame EXCEPT !.control = objects[o].control, !.object = o]
<1>1. objects[o].control \in Controls \union {None}
  BY ControlIsCounted
<1>2. f \in Frame
  BY <1>1 DEF NoFrame, Frame
<1>3. f.object = o /\ f.control = objects[o].control /\ f.callback = None /\ o # None
  BY Numbers DEF NoFrame
<1>4. /\ InHaxe /\ Enter(f) /\ UNCHANGED <<loader, objects, natives, cache, resolving>>
  BY DEF CallFunction
<1> HIDE DEF f
<1> QED BY <1>2, <1>3, <1>4, EnterKeeps

LEMMA InvokeThroughKeeps == ASSUME CallsOK, NEW o \in Objects, InvokeThrough(o) PROVE CallsOK'
<1> DEFINE f == [NoFrame EXCEPT !.control = objects[o].control, !.object = o,
                                !.callback = IF objects[o].value = Closure THEN o ELSE None]
<1>1. objects[o] \in Object /\ Formed(objects[o]) /\ objects[o].control \in Controls \union {None}
  BY ControlIsCounted
<1>2. f \in Frame
  BY <1>1 DEF NoFrame, Frame
<1>3. /\ f.object = o /\ f.control = objects[o].control /\ o # None
      /\ f.callback = IF objects[o].value = Closure THEN o ELSE None
  BY Numbers DEF NoFrame
<1>4. objects[o].value = Closure => objects[o].control = None
  BY <1>1, Numbers DEF Formed, Object, Kinds
<1>5. /\ InHaxe /\ Enter(f) /\ UNCHANGED <<loader, objects, natives, cache, resolving>>
  BY DEF InvokeThrough
<1> HIDE DEF f
<1> QED BY <1>2, <1>3, <1>4, <1>5, EnterKeeps

LEMMA InvokeKeeps ==
    ASSUME CallsOK, NEW call \in Calls, NEW callback \in Objects \union {None},
           Invoke(call, callback)
    PROVE  CallsOK'
<1>1. PICK entry \in Cached(call) :
          Enter([NoFrame EXCEPT !.control = objects[entry.function].control,
                                !.object = entry.function, !.callback = callback, !.call = call])
  BY DEF Invoke
<1> DEFINE o == entry.function
           f == [NoFrame EXCEPT !.control = objects[o].control, !.object = o,
                                !.callback = callback, !.call = call]
<1>2. o \in Objects /\ objects[o].kind = "function"
  BY <1>1 DEF Cached, CallsOK, Shape, Entry, CacheOK
<1>3. objects[o].control \in Controls \union {None}
  BY <1>2, ControlIsCounted
<1>4. f \in Frame
  BY <1>2, <1>3 DEF NoFrame, Frame
<1>5. f.object = o /\ f.control = objects[o].control /\ o # None
  BY <1>2, Numbers DEF NoFrame
<1>6. /\ InHaxe /\ Enter(f) /\ UNCHANGED <<loader, objects, natives, cache, resolving>>
  BY <1>1 DEF Invoke
<1> HIDE DEF f, o
<1> QED BY <1>2, <1>4, <1>5, <1>6, EnterKeeps

----------------------------------------------------------------------------
(* Out of native code, with or without an object of what it returned. *)

(* The stack without its innermost call, where what is left fits the objects. *)
LEMMA ReturnKeeps ==
    ASSUME CallsOK, Return, FramesOK(stack, objects'), ScopesOK(stack, objects'),
           objects' \in [Objects -> Object], AllFormed(objects'),
           loader' \in Loader, Counted(loader', objects'),
           natives' \in [Natives -> Fates], OwnersOK(natives', objects'),
           CacheOK(cache, resolving, objects'), UNCHANGED <<cache, resolving>>
    PROVE  CallsOK'
<1>1. /\ stack \in Seq(Frame) /\ Len(stack) <= MaxDepth /\ BlockingOK(stack, blocking)
  BY DEF CallsOK, Shape
<1>2. /\ stack # <<>> /\ InNativeOf(stack) /\ stack[Len(stack)].at = "native"
      /\ stack' = SubSeq(stack, 1, Len(stack) - 1) /\ blocking' = blocking - 1
  BY HaxeRuns DEF Return, Pop, InNativeOf
<1>3. /\ stack' \in Seq(Frame) /\ FramesOK(stack', objects') /\ Len(stack') = Len(stack) - 1
      /\ ~InNativeOf(stack')
  BY <1>1, <1>2, FramesReturn
<1>4. ScopesOK(stack', objects')
  BY <1>1, <1>2, ScopesPopped
<1>5. blocking' = 0
  BY <1>1, <1>2 DEF BlockingOK
<1>6. BlockingOK(stack', blocking')
  BY <1>3, <1>5 DEF BlockingOK
<1>7. Len(stack') <= MaxDepth
  BY <1>1, <1>3, Numbers
<1>8. Shape'
  BY <1>3, <1>5, <1>7 DEF CallsOK, Shape
<1> QED BY <1>3, <1>4, <1>6, <1>8 DEF CallsOK

(* The function that is called is there, and so is its control. *)
LEMMA TopIsCounted ==
    ASSUME CallsOK, InNative
    PROVE  /\ Top.control \in Controls \union {None}
           /\ Top.control # None => loader.controls[Top.control].references > 0
<1>1. /\ stack \in Seq(Frame) /\ FramesOK(stack, objects) /\ stack # <<>>
      /\ Counted(loader, objects)
  BY DEF CallsOK, Shape, InNative
<1>2. Len(stack) \in 1 .. Len(stack)
  BY <1>1
<1>3. stack[Len(stack)] \in Frame /\ FrameOK(stack, objects, Len(stack))
  BY <1>1, <1>2 DEF FramesOK
<1>4. Top \in Frame
  BY <1>3 DEF Top
<1>5. Top.control \in Controls \union {None} /\ Top.object \in Objects \union {None}
  BY <1>4 DEF Frame
<1>6. Top.control # None => Top.object # None /\ objects[Top.object].control = Top.control
  BY <1>3 DEF FrameOK, Top
<1>7. ASSUME Top.control # None PROVE loader.controls[Top.control].references > 0
  <2>1. /\ Top.object \in Objects /\ Top.control \in Controls
        /\ objects[Top.object].control = Top.control
    BY <1>5, <1>6, <1>7
  <2> QED BY <1>1, <2>1, HeldIsCounted
<1> QED BY <1>5, <1>7

LEMMA ReturnPlainKeeps == ASSUME CallsOK, ReturnPlain PROVE CallsOK'
<1>1. Return /\ UNCHANGED <<loader, objects, natives, cache, resolving>>
  BY DEF ReturnPlain
<1>2. /\ FramesOK(stack, objects') /\ ScopesOK(stack, objects')
      /\ objects' \in [Objects -> Object] /\ AllFormed(objects')
      /\ loader' \in Loader /\ Counted(loader', objects')
      /\ natives' \in [Natives -> Fates] /\ OwnersOK(natives', objects')
      /\ CacheOK(cache, resolving, objects')
  BY <1>1 DEF CallsOK, Shape
<1> QED BY <1>1, <1>2, ReturnKeeps

LEMMA ReturnBorrowedKeeps == ASSUME CallsOK, ReturnBorrowed PROVE CallsOK'
<1> DEFINE o == AnyOf(FreeObjects)
           k == Top.control
           x == Pointer(Foreign, k)
<1>1. /\ Return /\ o \in FreeObjects /\ objects' = [objects EXCEPT ![o] = x]
      /\ loader' = Retain(loader, k) /\ UNCHANGED <<natives, cache, resolving>>
  BY FreeIsThere DEF ReturnBorrowed
<1>2. /\ k \in Controls \union {None}
      /\ k # None => loader.controls[k].references > 0
  BY <1>1, TopIsCounted DEF Return
<1>3. x \in Object /\ Formed(x)
  BY <1>2, MadeObjects
<1>4. x.control = k /\ ~x.owns /\ ~x.scoped
  BY DEF Pointer, NoObject
<1> HIDE DEF o, k, x
<1>5. /\ o \in Objects /\ objects' \in [Objects -> Object] /\ AllFormed(objects')
      /\ SameBut(objects, objects', o) /\ HoldAsBefore(objects, objects', o)
      /\ objects[o].control = None /\ ~objects[o].owns /\ objects'[o] = x
      /\ CacheOK(cache, resolving, objects') /\ FramesOK(stack, objects')
      /\ ScopesOK(stack, objects')
  BY <1>1, <1>3, <1>4, FreshObject
<1>6. /\ loader \in Loader /\ Counted(loader, objects) /\ OwnersOK(natives, objects)
      /\ natives' \in [Natives -> Fates]
  BY <1>1 DEF CallsOK, Shape
<1>7. loader' \in Loader /\ Counted(loader', objects')
  BY <1>1, <1>2, <1>4, <1>5, <1>6, CountedRetain
<1>8. ~objects'[o].owns
  BY <1>4, <1>5, Zenon
<1>9. OwnersOK(natives', objects')
  BY <1>1, <1>5, <1>6, <1>8, OwnersKept
<1> QED BY <1>1, <1>5, <1>6, <1>7, <1>9, ReturnKeeps

LEMMA ReturnOwnedKeeps == ASSUME CallsOK, ReturnOwned PROVE CallsOK'
<1> DEFINE r == AnyOf(FreeNatives)
           o == AnyOf(FreeObjects)
           k == Top.control
           x == Owned(r, k)
           kept == Top.call.result = "pointer" /\ Top.call.release
           fate == IF kept THEN "owned" ELSE IF Top.call.release THEN "released" ELSE "lost"
<1>1. /\ Return /\ FreeNatives # {} /\ FreeObjects # {} /\ UNCHANGED <<cache, resolving>>
      /\ natives' = [natives EXCEPT ![r] = fate]
      /\ IF kept THEN /\ objects' = [objects EXCEPT ![o] = x]
                      /\ loader' = Retain(loader, k)
                 ELSE UNCHANGED <<objects, loader>>
  BY DEF ReturnOwned
<1>2. r \in Natives /\ natives[r] = "none" /\ o \in FreeObjects
  BY <1>1, FreeIsThere
<1>3. /\ k \in Controls \union {None}
      /\ k # None => loader.controls[k].references > 0
  BY <1>1, TopIsCounted DEF Return
<1>4. /\ loader \in Loader /\ Counted(loader, objects) /\ OwnersOK(natives, objects)
      /\ natives \in [Natives -> Fates] /\ AllFormed(objects)
      /\ objects \in [Objects -> Object] /\ CacheOK(cache, resolving, objects)
      /\ FramesOK(stack, objects) /\ ScopesOK(stack, objects)
  BY DEF CallsOK, Shape
<1>5. CASE kept
  <2>1. /\ objects' = [objects EXCEPT ![o] = x] /\ loader' = Retain(loader, k)
        /\ natives' = [natives EXCEPT ![r] = "owned"]
    BY <1>1, <1>5
  <2>2. x \in Object /\ Formed(x)
    BY <1>2, <1>3, MadeObjects
  <2>3. x.control = k /\ ~x.scoped
    BY DEF Owned, Pointer, NoObject
  <2>4. x.owns /\ x.value = r
    BY DEF Owned, Pointer, NoObject
  <2> HIDE DEF o, k, x, r, kept, fate
  <2>5. /\ o \in Objects /\ objects' \in [Objects -> Object] /\ AllFormed(objects')
        /\ SameBut(objects, objects', o) /\ HoldAsBefore(objects, objects', o)
        /\ objects[o].control = None /\ ~objects[o].owns /\ objects'[o] = x
        /\ CacheOK(cache, resolving, objects') /\ FramesOK(stack, objects')
        /\ ScopesOK(stack, objects')
    BY <1>2, <2>1, <2>2, <2>3, FreshObject
  <2>6. loader' \in Loader /\ Counted(loader', objects')
    BY <1>3, <1>4, <2>1, <2>3, <2>5, CountedRetain
  <2>7. objects'[o].owns /\ objects'[o].value = r
    BY <2>4, <2>5, Zenon
  <2>8. natives' \in [Natives -> Fates] /\ OwnersOK(natives', objects')
    BY <1>2, <1>4, <2>1, <2>5, <2>7, OwnersGain
  <2> QED BY <1>1, <2>5, <2>6, <2>8, ReturnKeeps
<1>6. CASE ~kept
  <2>1. UNCHANGED <<objects, loader>> /\ fate \in {"released", "lost"}
    BY <1>1, <1>6
  <2> HIDE DEF o, k, x, r, kept, fate
  <2>2. natives' \in [Natives -> Fates] /\ OwnersOK(natives', objects)
    BY <1>1, <1>2, <1>4, <2>1, OwnersSettled
  <2>3. /\ FramesOK(stack, objects') /\ ScopesOK(stack, objects')
        /\ objects' \in [Objects -> Object] /\ AllFormed(objects')
        /\ loader' \in Loader /\ Counted(loader', objects')
        /\ OwnersOK(natives', objects') /\ CacheOK(cache, resolving, objects')
    BY <1>4, <2>1, <2>2
  <2> QED BY <1>1, <2>2, <2>3, ReturnKeeps
<1> QED BY <1>5, <1>6

----------------------------------------------------------------------------
(* What changes of an object while it stays what it is. *)

LEMMA ChangedObject ==
    ASSUME NEW os \in [Objects -> Object], AllFormed(os), NEW st \in Seq(Frame),
           NEW c, c \subseteq Entry, NEW rs \in [Threads -> {NothingResolved} \union Entry],
           CacheOK(c, rs, os), FramesOK(st, os), ScopesOK(st, os),
           NEW o \in Objects, NEW x \in Object, Formed(x), NEW new, new = [os EXCEPT ![o] = x],
           x.kind = os[o].kind, x.scoped <=> os[o].scoped, x.value \in {os[o].value, None},
           \/ x.control = os[o].control
           \/ os[o].kind # "function" /\ ~InNativeOf(st)
    PROVE  /\ new \in [Objects -> Object] /\ AllFormed(new) /\ new[o] = x
           /\ SameBut(os, new, o) /\ HoldAsBefore(os, new, o)
           /\ CacheOK(c, rs, new) /\ FramesOK(st, new) /\ ScopesOK(st, new)
<1>1. new \in [Objects -> Object] /\ new[o] = x /\ SameBut(os, new, o)
  BY DEF SameBut
<1>2. AllFormed(new)
  BY <1>1 DEF AllFormed, SameBut
<1>3. HoldAsBefore(os, new, o)
  BY <1>1 DEF SameBut, HoldAsBefore
<1>4. CacheOK(c, rs, new)
  BY <1>1, CacheKept
<1>5. /\ new[o].kind = os[o].kind
      /\ new[o].scoped <=> os[o].scoped
  <2>1. new[o].kind = os[o].kind
    BY <1>1
  <2>2. CASE x.scoped
    <3>1. new[o].scoped
      BY <1>1, <2>2, Zenon
    <3> QED BY <2>1, <2>2, <3>1
  <2>3. CASE ~x.scoped
    <3>1. ~new[o].scoped
      BY <1>1, <2>3, Zenon
    <3> QED BY <2>1, <2>3, <3>1
  <2> QED BY <2>2, <2>3
<1>6. \/ new[o].control = os[o].control
      \/ os[o].kind # "function" /\ ~InNativeOf(st)
  BY <1>1
<1>7. FramesOK(st, new)
  BY <1>1, <1>5, <1>6, FramesKept
<1>8. new[o].scoped /\ new[o].value # None => os[o].scoped /\ os[o].value # None
  BY <1>1, <1>5
<1>9. ScopesOK(st, new)
  BY <1>1, <1>8, ScopesKept
<1> QED BY <1>1, <1>2, <1>3, <1>4, <1>7, <1>9

(* An object that gives up its control while Haxe code runs, and owns nothing. *)
LEMMA GivesUpControl ==
    ASSUME CallsOK, InHaxe, NEW o \in Objects, NEW x \in Object, Formed(x),
           objects' = [objects EXCEPT ![o] = x],
           x.kind = objects[o].kind, objects[o].kind # "function",
           x.scoped <=> objects[o].scoped, x.value \in {objects[o].value, None},
           x.control = None, ~x.owns, ~objects[o].owns,
           loader' = Release(loader, objects[o].control),
           UNCHANGED <<natives, cache, resolving, stack, blocking>>
    PROVE  CallsOK'
<1>1. /\ objects \in [Objects -> Object] /\ AllFormed(objects) /\ stack \in Seq(Frame)
      /\ cache \subseteq Entry /\ resolving \in [Threads -> {NothingResolved} \union Entry]
      /\ CacheOK(cache, resolving, objects) /\ FramesOK(stack, objects)
      /\ ScopesOK(stack, objects) /\ ~InNativeOf(stack)
  BY HaxeRuns DEF CallsOK, Shape
<1>2. /\ objects' \in [Objects -> Object] /\ AllFormed(objects') /\ objects'[o] = x
      /\ SameBut(objects, objects', o) /\ HoldAsBefore(objects, objects', o)
      /\ CacheOK(cache, resolving, objects') /\ FramesOK(stack, objects')
      /\ ScopesOK(stack, objects')
  BY <1>1, ChangedObject
<1>3. loader \in Loader /\ Counted(loader, objects) /\ OwnersOK(natives, objects)
  BY DEF CallsOK, Shape
<1>4. objects[o].control \in Controls \union {None} /\ objects'[o].control = None
  BY <1>2, ControlIsCounted
<1>5. loader' \in Loader /\ Counted(loader', objects')
  BY <1>2, <1>3, <1>4, CountedRelease
<1>6. ~objects'[o].owns
  BY <1>2, Zenon
<1>7. OwnersOK(natives, objects')
  BY <1>2, <1>3, <1>6, OwnersKept
<1>8. Shape'
  BY <1>2, <1>5 DEF CallsOK, Shape
<1> QED BY <1>2, <1>5, <1>7, <1>8 DEF CallsOK

LEMMA CloseLibraryKeeps == ASSUME CallsOK, NEW o \in Objects, CloseLibrary(o) PROVE CallsOK'
<1> DEFINE x == [objects[o] EXCEPT !.control = None]
<1>1. /\ InHaxe /\ objects[o].kind = "library" /\ objects' = [objects EXCEPT ![o] = x]
      /\ loader' = Release(loader, objects[o].control)
      /\ UNCHANGED <<natives, cache, resolving, stack, blocking>>
  BY DEF CloseLibrary, Is
<1>2. objects[o] \in Object /\ Formed(objects[o])
  BY ControlIsCounted
<1>3. x \in Object
  BY <1>2 DEF Object
<1>4. /\ x.kind = objects[o].kind /\ x.scoped = objects[o].scoped /\ x.value = objects[o].value
      /\ x.control = None /\ x.owns = objects[o].owns
  BY <1>2 DEF Object
<1>5. ~objects[o].owns /\ ~objects[o].scoped /\ objects[o].value = None
  BY <1>1, <1>2 DEF Formed
<1> HIDE DEF x
<1>6. ~x.owns /\ ~x.scoped
  BY <1>4, <1>5, Zenon
<1>7. Formed(x)
  BY <1>1, <1>4, <1>5, <1>6 DEF Formed
<1> QED BY <1>1, <1>3, <1>4, <1>5, <1>6, <1>7, GivesUpControl

LEMMA CloseCallbackKeeps == ASSUME CallsOK, NEW c \in Objects, CloseCallback(c) PROVE CallsOK'
<1> DEFINE x == [objects[c] EXCEPT !.value = None, !.control = None]
<1>1. /\ InHaxe /\ objects[c].kind = "callback" /\ loader' = Release(loader, objects[c].control)
      /\ UNCHANGED <<natives, cache, resolving, stack, blocking>>
  BY DEF CloseCallback, Is, OpenCallback
<1>2. objects[c] \in Object /\ Formed(objects[c]) /\ objects \in [Objects -> Object]
  BY ControlIsCounted DEF CallsOK, Shape
<1>3. objects' = [objects EXCEPT ![c] = x]
  BY <1>2 DEF CloseCallback
<1>4. x \in Object
  BY <1>2 DEF Object
<1>5. /\ x.kind = objects[c].kind /\ x.scoped = objects[c].scoped /\ x.value = None
      /\ x.control = None /\ x.owns = objects[c].owns
  BY <1>2 DEF Object
<1>6. ~objects[c].owns /\ ~objects[c].scoped
  BY <1>1, <1>2 DEF Formed
<1> HIDE DEF x
<1>7. ~x.owns /\ ~x.scoped
  BY <1>5, <1>6, Zenon
<1>8. Formed(x)
  BY <1>1, <1>5, <1>7 DEF Formed
<1> QED BY <1>1, <1>3, <1>4, <1>5, <1>6, <1>7, <1>8, GivesUpControl

LEMMA ClosePointerKeeps == ASSUME CallsOK, NEW o \in Objects, ClosePointer(o) PROVE CallsOK'
<1> DEFINE x == Pointer(None, None)
<1>1. /\ InHaxe /\ objects[o].kind = "pointer" /\ objects[o].owns
      /\ natives' = ReleaseNative(natives, objects[o].value)
      /\ objects' = [objects EXCEPT ![o] = x] /\ loader' = Release(loader, objects[o].control)
      /\ UNCHANGED <<cache, resolving, stack, blocking>>
  BY DEF ClosePointer, Is
<1>2. objects[o] \in Object /\ Formed(objects[o])
  BY ControlIsCounted
<1>3. x \in Object /\ Formed(x)
  BY MadeObjects
<1>4. x.kind = "pointer" /\ x.value = None /\ x.control = None
  BY DEF Pointer, NoObject
<1>5. ~x.owns /\ x.scoped = FALSE
  BY DEF Pointer, NoObject
<1>6. objects[o].scoped = FALSE
  <2>1. ~objects[o].scoped
    BY <1>1, <1>2 DEF Formed
  <2>2. objects[o].scoped \in BOOLEAN
    BY <1>2 DEF Object
  <2> QED BY <2>1, <2>2
<1> HIDE DEF x
<1>7. /\ objects \in [Objects -> Object] /\ AllFormed(objects) /\ stack \in Seq(Frame)
      /\ cache \subseteq Entry /\ resolving \in [Threads -> {NothingResolved} \union Entry]
      /\ CacheOK(cache, resolving, objects) /\ FramesOK(stack, objects)
      /\ ScopesOK(stack, objects) /\ ~InNativeOf(stack)
  BY <1>1, HaxeRuns DEF CallsOK, Shape
<1>8. /\ objects' \in [Objects -> Object] /\ AllFormed(objects') /\ objects'[o] = x
      /\ SameBut(objects, objects', o) /\ HoldAsBefore(objects, objects', o)
      /\ CacheOK(cache, resolving, objects') /\ FramesOK(stack, objects')
      /\ ScopesOK(stack, objects')
  BY <1>1, <1>3, <1>4, <1>5, <1>6, <1>7, ChangedObject
<1>9. /\ loader \in Loader /\ Counted(loader, objects) /\ OwnersOK(natives, objects)
      /\ natives \in [Natives -> Fates]
  BY DEF CallsOK, Shape
<1>10. objects[o].control \in Controls \union {None} /\ objects'[o].control = None
  BY <1>4, <1>8, ControlIsCounted
<1>11. loader' \in Loader /\ Counted(loader', objects')
  BY <1>1, <1>8, <1>9, <1>10, CountedRelease
<1>12. ~objects'[o].owns
  BY <1>5, <1>8, Zenon
<1>13. natives' \in [Natives -> Fates] /\ OwnersOK(natives', objects')
  BY <1>1, <1>7, <1>8, <1>9, <1>12, OwnersLose
<1>14. Shape'
  BY <1>1, <1>8, <1>11, <1>13 DEF CallsOK, Shape
<1> QED BY <1>1, <1>8, <1>11, <1>13, <1>14 DEF CallsOK

(* The collector takes what nothing refers to. *)
LEMMA CollectKeeps == ASSUME CallsOK, NEW o \in Objects, Collect(o) PROVE CallsOK'
<1>1. /\ o \notin Pinned /\ objects' = [objects EXCEPT ![o] = NoObject]
      /\ loader' = Release(loader, objects[o].control)
      /\ natives' = IF objects[o].owns THEN ReleaseNative(natives, objects[o].value) ELSE natives
      /\ UNCHANGED <<cache, resolving, stack, blocking>>
  BY DEF Collect, Finalize
<1>2. /\ objects \in [Objects -> Object] /\ AllFormed(objects) /\ stack \in Seq(Frame)
      /\ cache \subseteq Entry /\ resolving \in [Threads -> {NothingResolved} \union Entry]
      /\ CacheOK(cache, resolving, objects) /\ FramesOK(stack, objects)
      /\ ScopesOK(stack, objects) /\ loader \in Loader /\ Counted(loader, objects)
      /\ OwnersOK(natives, objects) /\ natives \in [Natives -> Fates]
  BY DEF CallsOK, Shape
<1>3. NoObject \in Object /\ Formed(NoObject)
  BY MadeObjects, Numbers
<1>4. /\ objects' \in [Objects -> Object] /\ objects'[o] = NoObject
      /\ SameBut(objects, objects', o)
  BY <1>1, <1>2, <1>3 DEF SameBut
<1>5. AllFormed(objects')
  BY <1>2, <1>3, <1>4 DEF AllFormed, SameBut
<1>6. HoldAsBefore(objects, objects', o)
  BY <1>4 DEF SameBut, HoldAsBefore
<1>7. objects'[o].control = None
  BY <1>4 DEF NoObject
<1>8. ~objects'[o].owns /\ ~objects'[o].scoped
  BY <1>4 DEF NoObject
<1>9. /\ \A entry \in cache : entry.function # o
      /\ \A t \in Threads : resolving[t] # NothingResolved => resolving[t].function # o
  BY <1>1 DEF Pinned
<1>10. \A i \in 1 .. Len(stack) : stack[i].object # o
  <2>1. DOMAIN stack = 1 .. Len(stack)
    BY <1>2
  <2> QED BY <1>1, <2>1 DEF Pinned
<1>11. CacheOK(cache, resolving, objects')
  BY <1>2, <1>4, <1>9, CacheKept
<1>12. FramesOK(stack, objects')
  BY <1>2, <1>4, <1>10, FramesKept
<1>13. ScopesOK(stack, objects')
  BY <1>2, <1>4, <1>8, ScopesKept
<1>14. objects[o].control \in Controls \union {None}
  BY ControlIsCounted
<1>15. loader' \in Loader /\ Counted(loader', objects')
  BY <1>1, <1>2, <1>6, <1>7, <1>14, CountedRelease
<1>16. natives' \in [Natives -> Fates] /\ OwnersOK(natives', objects')
  <2>1. CASE objects[o].owns
    BY <1>1, <1>2, <1>4, <1>8, <2>1, OwnersLose
  <2>2. CASE ~objects[o].owns
    BY <1>1, <1>2, <1>4, <1>8, <2>2, OwnersKept
  <2> QED BY <2>1, <2>2
<1>17. Shape'
  BY <1>1, <1>4, <1>15, <1>16 DEF CallsOK, Shape
<1> QED BY <1>1, <1>5, <1>11, <1>12, <1>13, <1>15, <1>16, <1>17 DEF CallsOK

----------------------------------------------------------------------------
(* Failures and callbacks. *)

(* Objects that differ in what has failed. *)
FailuresApart(os, new) ==
    /\ new \in [Objects -> Object]
    /\ \A p \in Objects :
          /\ new[p].kind = os[p].kind /\ new[p].control = os[p].control
          /\ new[p].value = os[p].value
          /\ new[p].owns <=> os[p].owns
          /\ new[p].scoped <=> os[p].scoped
LEMMA FailureApart ==
    ASSUME NEW os \in [Objects -> Object], NEW o \in Objects
    PROVE  /\ FailuresApart(os, [os EXCEPT ![o].failed = TRUE])
           /\ FailuresApart(os, [os EXCEPT ![o].failed = FALSE])
<1>1. os[o] \in Object
  OBVIOUS
<1>2. /\ [os[o] EXCEPT !.failed = TRUE] \in Object
      /\ [os[o] EXCEPT !.failed = FALSE] \in Object
  BY <1>1 DEF Object
<1>3. ASSUME NEW x \in Object, NEW new, new = [os EXCEPT ![o] = x],
             x.kind = os[o].kind, x.control = os[o].control, x.value = os[o].value,
             x.owns <=> os[o].owns, x.scoped <=> os[o].scoped
      PROVE  FailuresApart(os, new)
  <2>1. /\ new \in [Objects -> Object] /\ new[o] = x
        /\ \A p \in Objects : p # o => new[p] = os[p]
    BY <1>3
  <2>2. /\ new[o].kind = os[o].kind /\ new[o].control = os[o].control
        /\ new[o].value = os[o].value
    BY <1>3, <2>1
  <2>3. /\ new[o].owns <=> os[o].owns
        /\ new[o].scoped <=> os[o].scoped
    BY <1>3, <2>1, Zenon
  <2> QED BY <2>1, <2>2, <2>3 DEF FailuresApart
<1>4. ASSUME NEW x, x = [os[o] EXCEPT !.failed = TRUE]
      PROVE  /\ x.kind = os[o].kind /\ x.control = os[o].control /\ x.value = os[o].value
             /\ x.owns <=> os[o].owns
             /\ x.scoped <=> os[o].scoped
  BY <1>1, <1>4 DEF Object
<1>5. ASSUME NEW x, x = [os[o] EXCEPT !.failed = FALSE]
      PROVE  /\ x.kind = os[o].kind /\ x.control = os[o].control /\ x.value = os[o].value
             /\ x.owns <=> os[o].owns
             /\ x.scoped <=> os[o].scoped
  BY <1>1, <1>5 DEF Object
<1> QED BY <1>2, <1>3, <1>4, <1>5

(* What has failed is no part of the rest. *)
LEMMA FailureKeeps ==
    ASSUME NEW os \in [Objects -> Object], AllFormed(os), NEW st \in Seq(Frame),
           NEW c, c \subseteq Entry, NEW rs \in [Threads -> {NothingResolved} \union Entry],
           CacheOK(c, rs, os), FramesOK(st, os), ScopesOK(st, os),
           NEW n, OwnersOK(n, os), NEW l, Counted(l, os), NEW new, FailuresApart(os, new)
    PROVE  /\ AllFormed(new) /\ CacheOK(c, rs, new) /\ FramesOK(st, new) /\ ScopesOK(st, new)
           /\ OwnersOK(n, new) /\ Counted(l, new)
<1>1. AllFormed(new)
  BY DEF AllFormed, Formed, FailuresApart
<1>2. CacheOK(c, rs, new)
  <2>1. ASSUME NEW entry \in c PROVE new[entry.function].kind = "function"
    <3>1. entry.function \in Objects /\ os[entry.function].kind = "function"
      BY DEF Entry, CacheOK
    <3> QED BY <3>1 DEF FailuresApart
  <2>2. ASSUME NEW t \in Threads, rs[t] # NothingResolved
        PROVE  new[rs[t].function].kind = "function"
    <3>1. rs[t] \in Entry
      BY <2>2
    <3>2. rs[t].function \in Objects /\ os[rs[t].function].kind = "function"
      BY <2>2, <3>1 DEF Entry, CacheOK
    <3> QED BY <2>2, <3>2 DEF FailuresApart
  <2> QED BY <2>1, <2>2 DEF CacheOK
<1>3. FramesOK(st, new)
  <2> SUFFICES ASSUME NEW i \in 1 .. Len(st) PROVE FrameOK(st, new, i)
    BY DEF FramesOK
  <2>1. st[i] \in Frame /\ FrameOK(st, os, i)
    BY DEF FramesOK
  <2>2. st[i].object \in Objects \union {None}
    BY <2>1 DEF Frame
  <2>3. st[i].object # None =>
            /\ new[st[i].object].kind = os[st[i].object].kind
            /\ new[st[i].object].control = os[st[i].object].control
            /\ new[st[i].object].scoped <=> os[st[i].object].scoped
    BY <2>2 DEF FailuresApart
  <2> QED BY <2>1, <2>3 DEF FrameOK
<1>4. ScopesOK(st, new)
  BY DEF ScopesOK, FailuresApart
<1>5. OwnersOK(n, new)
  BY DEF OwnersOK, FailuresApart
<1>6. Counted(l, new)
  <2>1. \A k \in Controls : Holding(new, k) = Holding(os, k)
    BY DEF Holding, FailuresApart
  <2> QED BY <2>1 DEF Counted
<1> QED BY <1>1, <1>2, <1>3, <1>4, <1>5, <1>6

LEMMA FailedKeeps ==
    ASSUME CallsOK, FailuresApart(objects, objects'),
           UNCHANGED <<loader, natives, cache, resolving, stack, blocking>>
    PROVE  CallsOK'
<1>1. /\ objects \in [Objects -> Object] /\ AllFormed(objects) /\ stack \in Seq(Frame)
      /\ cache \subseteq Entry /\ resolving \in [Threads -> {NothingResolved} \union Entry]
      /\ CacheOK(cache, resolving, objects) /\ FramesOK(stack, objects)
      /\ ScopesOK(stack, objects) /\ OwnersOK(natives, objects) /\ Counted(loader, objects)
  BY DEF CallsOK, Shape
<1>2. /\ AllFormed(objects')
      /\ CacheOK(cache, resolving, objects') /\ FramesOK(stack, objects')
      /\ ScopesOK(stack, objects') /\ OwnersOK(natives, objects') /\ Counted(loader, objects')
  BY <1>1, FailureKeeps
<1>3. objects' \in [Objects -> Object]
  BY DEF FailuresApart
<1>4. Shape'
  BY <1>3 DEF CallsOK, Shape
<1> QED BY <1>2, <1>4 DEF CallsOK

LEMMA TakeErrorKeeps == ASSUME CallsOK, NEW c \in Objects, TakeError(c) PROVE CallsOK'
<1>1. /\ objects' = [objects EXCEPT ![c].failed = FALSE]
      /\ UNCHANGED <<loader, natives, cache, resolving, stack, blocking>>
  BY DEF TakeError
<1>2. objects \in [Objects -> Object]
  BY DEF CallsOK, Shape
<1>3. FailuresApart(objects, objects')
  BY <1>1, <1>2, FailureApart
<1> QED BY <1>1, <1>3, FailedKeeps
LEMMA DispatchElsewhereKeeps ==
    ASSUME CallsOK, NEW c \in Objects, DispatchElsewhere(c) PROVE CallsOK'
<1>1. /\ objects' = [objects EXCEPT ![c].failed = TRUE]
      /\ UNCHANGED <<loader, natives, cache, resolving, stack, blocking>>
  BY DEF DispatchElsewhere, Failed
<1>2. objects \in [Objects -> Object]
  BY DEF CallsOK, Shape
<1>3. FailuresApart(objects, objects')
  BY <1>1, <1>2, FailureApart
<1> QED BY <1>1, <1>3, FailedKeeps

(* The callback starts, with or without an address it was given. *)
ObjectsOK(os) ==
    /\ os \in [Objects -> Object] /\ AllFormed(os)
    /\ Counted(loader, os) /\ OwnersOK(natives, os)
    /\ CacheOK(cache, resolving, os) /\ FramesOK(stack, os)
Given(x) == x.control = None /\ ~x.owns /\ x.scoped
LEMMA GivenObject ==
    ASSUME CallsOK, NEW o \in FreeObjects, NEW x \in Object, Formed(x), Given(x),
           NEW new, new = [objects EXCEPT ![o] = x]
    PROVE  ObjectsOK(new) /\ SameBut(objects, new, o) /\ new[o].scoped
<1>1. /\ o \in Objects /\ new \in [Objects -> Object] /\ AllFormed(new)
      /\ SameBut(objects, new, o) /\ HoldAsBefore(objects, new, o)
      /\ objects[o].control = None /\ ~objects[o].owns /\ new[o] = x
      /\ CacheOK(cache, resolving, new) /\ FramesOK(stack, new)
  BY FreshObject, ZenonT(60)
<1>2. Counted(loader, objects) /\ OwnersOK(natives, objects)
  BY DEF CallsOK
<1>3. ~new[o].owns /\ new[o].scoped
  BY <1>1, Zenon DEF Given
<1>4. new[o].control = objects[o].control
  BY <1>1 DEF Given
<1>5. OwnersOK(natives, new)
  BY <1>1, <1>2, <1>3, OwnersKept
<1>6. Counted(loader, new)
  BY <1>1, <1>2, <1>4, CountedSame
<1> QED BY <1>1, <1>3, <1>5, <1>6 DEF ObjectsOK

CallStarts(f) ==
    /\ InNative /\ Top.callback # None /\ Len(stack) < MaxDepth
    /\ stack' = Append(stack, f) /\ blocking' = 0
    /\ UNCHANGED <<loader, natives, cache, resolving>>
GivenIn(f, os, new) ==
    /\ f.object # None => new[f.object].scoped
    /\ \A p \in Objects : p # f.object => new[p] = os[p]
LEMMA StackStarts ==
    ASSUME NEW st \in Seq(Frame), NEW os, NEW new, ScopesOK(st, os), FramesOK(st, new),
           InNativeOf(st), st[Len(st)].callback # None, NEW f \in Frame,
           f.at = "haxe", f.control = None, f.callback # None, GivenIn(f, os, new)
    PROVE  /\ Append(st, f) \in Seq(Frame) /\ Len(Append(st, f)) = Len(st) + 1
           /\ FramesOK(Append(st, f), new) /\ ScopesOK(Append(st, f), new)
           /\ ~InNativeOf(Append(st, f))
<1> DEFINE t == Append(st, f)
<1>1. f.object # None => new[f.object].scoped
  BY DEF GivenIn
<1>2. t \in Seq(Frame) /\ FramesOK(t, new) /\ Len(t) = Len(st) + 1 /\ ~InNativeOf(t)
  BY <1>1, FramesDispatch
<1>3. ScopesOK(t, os)
  BY ScopesPushed
<1>4. Len(t) \in 1 .. Len(t) /\ t[Len(t)] = f
  OBVIOUS
<1> HIDE DEF t
<1>5. ASSUME NEW p \in Objects, new[p].scoped /\ new[p].value # None
      PROVE  \E i \in 1 .. Len(t) : t[i].at = "haxe" /\ t[i].object = p
  <2>1. CASE p = f.object
    BY <1>4, <2>1
  <2>2. CASE p # f.object
    <3>1. new[p] = os[p]
      BY <2>2 DEF GivenIn
    <3> QED BY <1>3, <1>5, <3>1 DEF ScopesOK
  <2> QED BY <2>1, <2>2
<1>6. ScopesOK(t, new)
  BY <1>5 DEF ScopesOK
<1> QED BY <1>2, <1>6 DEF t
LEMMA DispatchRuns ==
    ASSUME CallsOK, NEW f \in Frame, f.at = "haxe", f.control = None, f.callback # None,
           CallStarts(f), ObjectsOK(objects'), GivenIn(f, objects, objects')
    PROVE  CallsOK'
<1>1. stack \in Seq(Frame) /\ ScopesOK(stack, objects) /\ FramesOK(stack, objects')
  BY DEF CallsOK, Shape, ObjectsOK
<1>2. InNativeOf(stack) /\ stack[Len(stack)].callback # None
  BY HaxeRuns DEF Top, CallStarts
<1>3. /\ Append(stack, f) \in Seq(Frame) /\ Len(Append(stack, f)) = Len(stack) + 1
      /\ FramesOK(Append(stack, f), objects') /\ ScopesOK(Append(stack, f), objects')
      /\ ~InNativeOf(Append(stack, f))
  BY <1>1, <1>2, StackStarts
<1>4. /\ Len(stack) < MaxDepth /\ blocking' = 0 /\ stack' = Append(stack, f)
      /\ UNCHANGED <<loader, natives, cache, resolving>>
  BY DEF CallStarts
<1>5. /\ stack' \in Seq(Frame) /\ FramesOK(stack', objects') /\ ScopesOK(stack', objects')
      /\ ~InNativeOf(stack') /\ Len(stack') = Len(stack) + 1
  BY <1>3, <1>4
<1>6. BlockingOK(stack', blocking')
  BY <1>4, <1>5 DEF BlockingOK
<1>7. Len(stack') <= MaxDepth
  BY <1>1, <1>4, <1>5, Numbers
<1>8. Shape'
  BY <1>4, <1>5, <1>7 DEF CallsOK, Shape, ObjectsOK
<1> QED BY <1>4, <1>5, <1>6, <1>8 DEF CallsOK, ObjectsOK

LEMMA DispatchKeeps == ASSUME CallsOK, NEW c \in Objects, Dispatch(c) PROVE CallsOK'
<1>1. InNative /\ c = Top.callback /\ UNCHANGED <<loader, natives, cache, resolving>>
  BY DEF Dispatch
<1>2. CASE objects' = Failed(objects, c, "contract") /\ UNCHANGED <<stack, blocking>>
  <2>1. objects' = [objects EXCEPT ![c].failed = TRUE]
    BY <1>2 DEF Failed
  <2>2. objects \in [Objects -> Object]
    BY DEF CallsOK, Shape
  <2>3. FailuresApart(objects, objects')
    BY <2>1, <2>2, FailureApart
  <2> QED BY <1>1, <1>2, <2>3, FailedKeeps
<1>3. ASSUME NEW o \in {None} \union IF FreeObjects = {} THEN {} ELSE {AnyOf(FreeObjects)},
             Len(stack) < MaxDepth, blocking' = 0,
             objects' = IF o = None THEN objects
                        ELSE [objects EXCEPT ![o] = [Pointer(Foreign, None) EXCEPT !.scoped = TRUE]],
             stack' = Append(stack, [NoFrame EXCEPT !.callback = c, !.object = o])
      PROVE  CallsOK'
  <2> DEFINE f == [NoFrame EXCEPT !.callback = c, !.object = o]
             x == [Pointer(Foreign, None) EXCEPT !.scoped = TRUE]
  <2>1. o = None \/ o \in FreeObjects
    BY FreeIsThere
  <2>2. o = None \/ o \in Objects
    BY <2>1 DEF FreeObjects
  <2>3. f \in Frame
    BY <2>2 DEF NoFrame, Frame
  <2>4. f.at = "haxe" /\ f.control = None /\ f.callback = c /\ f.object = o
    BY DEF NoFrame
  <2>5. x \in Object /\ Formed(x)
    BY MadeObjects, Numbers
  <2>6. Given(x)
    BY DEF Pointer, NoObject, Given
  <2>7. /\ stack' = Append(stack, f)
        /\ o = None => objects' = objects
        /\ o # None => objects' = [objects EXCEPT ![o] = x]
        /\ Len(stack) < MaxDepth /\ blocking' = 0
    BY <1>3
  <2> HIDE DEF f, x
  <2> HIDE <1>3
  <2>8. c # None
    BY Numbers
  <2>9. CallStarts(f)
    BY <1>1, <2>7, <2>8 DEF CallStarts
  <2>10. ObjectsOK(objects') /\ GivenIn(f, objects, objects')
    <3>1. CASE o = None
      <4>1. ObjectsOK(objects)
        BY DEF CallsOK, Shape, ObjectsOK
      <4> QED BY <2>4, <2>7, <3>1, <4>1 DEF GivenIn
    <3>2. CASE o # None
      <4>1. o \in FreeObjects /\ objects' = [objects EXCEPT ![o] = x]
        BY <2>1, <2>7, <3>2
      <4>2. ObjectsOK(objects') /\ SameBut(objects, objects', o) /\ objects'[o].scoped
        BY <2>5, <2>6, <4>1, GivenObject
      <4> QED BY <2>4, <4>2 DEF GivenIn, SameBut
    <3> QED BY <3>1, <3>2
  <2> QED BY <2>3, <2>4, <2>8, <2>9, <2>10, DispatchRuns
<1> QED BY <1>2, <1>3 DEF Dispatch

(* The callback ends, and with it the address it was given. *)
LEMMA DispatchReturnsKeeps ==
    ASSUME CallsOK, NEW how \in {"fine", "exception", "contract"}, DispatchReturns(how)
    PROVE  CallsOK'
<1> DEFINE o == Top.object
           c == Top.callback
           middle == Expired(objects, o, how)
           x == [objects[o] EXCEPT !.value = None]
<1>1. /\ stack # <<>> /\ InHaxe /\ objects' = Failed(middle, c, how)
      /\ stack' = SubSeq(stack, 1, Len(stack) - 1) /\ blocking' = 1
      /\ UNCHANGED <<loader, natives, cache, resolving>>
  BY DEF DispatchReturns, Pop
<1>2. /\ objects \in [Objects -> Object] /\ AllFormed(objects) /\ stack \in Seq(Frame)
      /\ cache \subseteq Entry /\ resolving \in [Threads -> {NothingResolved} \union Entry]
      /\ CacheOK(cache, resolving, objects) /\ FramesOK(stack, objects)
      /\ ScopesOK(stack, objects) /\ OwnersOK(natives, objects) /\ Counted(loader, objects)
      /\ Len(stack) <= MaxDepth
  BY DEF CallsOK, Shape
<1>3. /\ stack[Len(stack)] \in Frame /\ FrameOK(stack, objects, Len(stack))
      /\ stack[Len(stack)].at = "haxe"
  <2>1. Len(stack) \in 1 .. Len(stack)
    BY <1>1, <1>2
  <2> QED BY <1>1, <1>2, <2>1 DEF FramesOK, InHaxe, Top
<1>4. /\ o = stack[Len(stack)].object /\ c = stack[Len(stack)].callback
      /\ c \in Objects /\ o \in Objects \union {None}
  BY <1>3 DEF FrameOK, Frame, Top
<1>5. o # None => objects[o].scoped
  BY <1>3, <1>4 DEF FrameOK
<1> HIDE DEF o, c
<1>6. /\ middle \in [Objects -> Object] /\ AllFormed(middle)
      /\ CacheOK(cache, resolving, middle) /\ FramesOK(stack, middle)
      /\ ScopesOK(stack, middle) /\ OwnersOK(natives, middle) /\ Counted(loader, middle)
      /\ o # None => middle[o].value = None
  <2>1. CASE o = None
    <3>1. middle = objects
      BY <2>1 DEF Expired
    <3> QED BY <1>2, <2>1, <3>1
  <2>2. CASE o # None
    <3>1. o \in Objects /\ objects[o] \in Object /\ Formed(objects[o])
      BY <1>2, <1>4, <2>2 DEF AllFormed
    <3>2. x \in Object
      BY <3>1 DEF Object
    <3>3. /\ x.kind = objects[o].kind /\ x.scoped = objects[o].scoped /\ x.value = None
          /\ x.control = objects[o].control /\ x.owns = objects[o].owns
      BY <3>1 DEF Object
    <3>4. ~objects[o].owns /\ objects[o].kind = "pointer"
      BY <1>5, <2>2, <3>1 DEF Formed
    <3>5. middle = [objects EXCEPT ![o] = x]
      BY <2>2 DEF Expired
    <3> HIDE DEF x, middle
    <3>6. ~x.owns
      BY <3>3, <3>4, Zenon
    <3>7. x.scoped <=> objects[o].scoped
      BY <3>3, Zenon
    <3>8. Formed(x)
      BY <3>3, <3>4, <3>6, Numbers DEF Formed
    <3>9. x.kind = objects[o].kind /\ x.control = objects[o].control /\ x.value = None
      BY <3>3
    <3>10. /\ middle \in [Objects -> Object] /\ AllFormed(middle) /\ middle[o] = x
           /\ SameBut(objects, middle, o) /\ HoldAsBefore(objects, middle, o)
           /\ CacheOK(cache, resolving, middle) /\ FramesOK(stack, middle)
           /\ ScopesOK(stack, middle)
      BY <1>2, <3>1, <3>2, <3>5, <3>7, <3>8, <3>9, ChangedObject
    <3>11. ~middle[o].owns
      BY <3>6, <3>10, Zenon
    <3>12. OwnersOK(natives, middle)
      BY <1>2, <3>1, <3>4, <3>10, <3>11, OwnersKept
    <3>13. Counted(loader, middle)
      BY <1>2, <3>1, <3>3, <3>10, CountedSame
    <3> QED BY <3>3, <3>10, <3>12, <3>13
  <2> QED BY <2>1, <2>2
<1> HIDE DEF middle
<1>7. /\ objects' \in [Objects -> Object] /\ AllFormed(objects')
      /\ CacheOK(cache, resolving, objects') /\ FramesOK(stack, objects')
      /\ ScopesOK(stack, objects') /\ OwnersOK(natives, objects') /\ Counted(loader, objects')
      /\ o # None => objects'[o].value = None
  <2>1. CASE how = "fine"
    <3>1. objects' = middle
      BY <1>1, <2>1 DEF Failed
    <3> QED BY <1>6, <3>1
  <2>2. CASE how # "fine"
    <3>1. objects' = [middle EXCEPT ![c].failed = TRUE]
      BY <1>1, <2>2 DEF Failed
    <3>2. FailuresApart(middle, objects')
      BY <1>4, <1>6, <3>1, FailureApart
    <3>3. /\ AllFormed(objects')
          /\ CacheOK(cache, resolving, objects') /\ FramesOK(stack, objects')
          /\ ScopesOK(stack, objects') /\ OwnersOK(natives, objects')
          /\ Counted(loader, objects')
      BY <1>2, <1>6, <3>2, FailureKeeps
    <3>4. /\ objects' \in [Objects -> Object]
          /\ \A p \in Objects : objects'[p].value = middle[p].value
      BY <3>2 DEF FailuresApart
    <3> QED BY <1>4, <1>6, <3>3, <3>4
  <2> QED BY <2>1, <2>2
<1>8. ~InNativeOf(stack)
  BY <1>1, HaxeRuns
<1>9. /\ stack' \in Seq(Frame) /\ FramesOK(stack', objects') /\ InNativeOf(stack')
      /\ Len(stack') = Len(stack) - 1
  BY <1>1, <1>2, <1>7, <1>8, FramesReturn
<1>10. ScopesOK(stack', objects')
  <2>1. \A p \in Objects : stack[Len(stack)].at = "haxe" /\ stack[Len(stack)].object = p
            => objects'[p].value = None
    BY <1>4, <1>7, Numbers
  <2> QED BY <1>1, <1>2, <1>7, <2>1, ScopesPopped
<1>11. BlockingOK(stack', blocking')
  BY <1>1, <1>9 DEF BlockingOK
<1>12. Len(stack') <= MaxDepth
  BY <1>2, <1>9, Numbers
<1>13. Shape'
  BY <1>1, <1>7, <1>9, <1>12 DEF CallsOK, Shape
<1> QED BY <1>1, <1>7, <1>9, <1>10, <1>11, <1>13 DEF CallsOK

----------------------------------------------------------------------------
(* The invariant. *)

(* With no library open and nothing allocated, nothing is held or owned. *)
LEMMA CallsStartOK == CallsInit => CallsOK
<1> SUFFICES ASSUME CallsInit PROVE CallsOK
  OBVIOUS
<1>1. /\ loader = [controls |-> [k \in Controls |-> NoControl], held |-> [l \in Libraries |-> 0]]
      /\ objects = [o \in Objects |-> NoObject] /\ natives = [r \in Natives |-> "none"]
      /\ cache = {} /\ resolving = [t \in Threads |-> NothingResolved]
      /\ stack = <<>> /\ blocking = 0
  BY DEF CallsInit
<1>2. NoObject \in Object /\ Formed(NoObject)
  BY MadeObjects
<1>3. NoControl \in Control
  BY DEF NoControl, Control
<1>4. /\ loader.controls = [k \in Controls |-> NoControl]
      /\ loader.held = [l \in Libraries |-> 0]
  BY <1>1
<1>5. loader \in Loader
  BY <1>1, <1>3 DEF Loader
<1>6. stack \in Seq(Frame) /\ Len(stack) = 0
  BY <1>1
<1>7. natives \in [Natives -> Fates] /\ objects \in [Objects -> Object]
  BY <1>1, <1>2 DEF Fates
<1>8. cache \subseteq Entry /\ resolving \in [Threads -> {NothingResolved} \union Entry]
  BY <1>1
<1>9. Len(stack) <= MaxDepth /\ blocking \in Int
  BY <1>1, <1>6, Numbers
<1>10. Shape
  BY <1>5, <1>6, <1>7, <1>8, <1>9 DEF Shape
<1>11. AllFormed(objects)
  BY <1>1, <1>2 DEF AllFormed
<1>12. \A o \in Objects : objects[o].control = None /\ ~objects[o].owns /\ ~objects[o].scoped
  BY <1>1 DEF NoObject
<1>13. Counted(loader, objects)
  <2>1. ASSUME NEW k \in Controls
        PROVE  /\ loader.controls[k].references = Cardinality(Holding(objects, k))
               /\ loader.controls[k].library = NoLibrary <=> loader.controls[k].references = 0
    <3>1. loader.controls[k].references = 0 /\ loader.controls[k].library = NoLibrary
      BY <1>4 DEF NoControl
    <3>2. Holding(objects, k) = {}
      BY <1>12, Numbers DEF Holding
    <3>3. Cardinality(Holding(objects, k)) = 0
      BY <3>2, FS_EmptySet
    <3> QED BY <3>1, <3>3
  <2>2. ASSUME NEW library \in Libraries
        PROVE  loader.held[library] = Cardinality(ControlsOf(loader.controls, library))
    <3>1. NoLibrary \notin Libraries
      BY CallsConstants DEF CallsConstants
    <3>2. ControlsOf(loader.controls, library) = {}
      BY <1>4, <3>1 DEF ControlsOf, NoControl
    <3>3. Cardinality(ControlsOf(loader.controls, library)) = 0
      BY <3>2, FS_EmptySet
    <3> QED BY <1>4, <3>3
  <2> QED BY <2>1, <2>2 DEF Counted
<1>14. OwnersOK(natives, objects)
  BY <1>1, <1>12 DEF OwnersOK
<1>15. CacheOK(cache, resolving, objects)
  BY <1>1 DEF CacheOK
<1>16. FramesOK(stack, objects)
  BY <1>1, <1>6 DEF FramesOK
<1>17. ScopesOK(stack, objects)
  BY <1>12 DEF ScopesOK
<1>18. BlockingOK(stack, blocking)
  BY <1>1 DEF BlockingOK, InNativeOf
<1> QED BY <1>10, <1>11, <1>13, <1>14, <1>15, <1>16, <1>17, <1>18 DEF CallsOK

(* Every step keeps the invariant. *)
LEMMA CallsStepOK == CallsOK /\ [CallsNext]_callVars => CallsOK'
<1> SUFFICES ASSUME CallsOK, [CallsNext]_callVars PROVE CallsOK'
  OBVIOUS
<1>1. CASE OpenLibrary
  BY <1>1, OpenLibraryKeeps
<1>2. CASE AllocPointer
  BY <1>2, AllocPointerKeeps
<1>3. CASE CreateCallback
  BY <1>3, CreateCallbackKeeps
<1>4. CASE ReturnPlain
  BY <1>4, ReturnPlainKeeps
<1>5. CASE ReturnOwned
  BY <1>5, ReturnOwnedKeeps
<1>6. CASE ReturnBorrowed
  BY <1>6, ReturnBorrowedKeeps
<1>7. ASSUME NEW t \in Threads, GiveUp(t) PROVE CallsOK'
  BY <1>7, GiveUpKeeps
<1>8. ASSUME NEW t \in Threads, Publish(t) PROVE CallsOK'
  BY <1>8, PublishKeeps
<1>9. ASSUME NEW t \in Threads, NEW call \in Calls, StartResolve(t, call) PROVE CallsOK'
  BY <1>9, StartResolveKeeps
<1>10. ASSUME NEW call \in Calls, NEW callback \in Objects \union {None}, Invoke(call, callback)
       PROVE  CallsOK'
  BY <1>10, InvokeKeeps
<1>11. ASSUME NEW o \in Objects, CloseLibrary(o) PROVE CallsOK'
  BY <1>11, CloseLibraryKeeps
<1>12. ASSUME NEW o \in Objects, Resolve(o) PROVE CallsOK'
  BY <1>12, ResolveKeeps
<1>13. ASSUME NEW o \in Objects, CallFunction(o) PROVE CallsOK'
  BY <1>13, CallFunctionKeeps
<1>14. ASSUME NEW o \in Objects, InvokeThrough(o) PROVE CallsOK'
  BY <1>14, InvokeThroughKeeps
<1>15. ASSUME NEW o \in Objects, FieldPointer(o) PROVE CallsOK'
  BY <1>15, FieldPointerKeeps
<1>16. ASSUME NEW o \in Objects, ClosePointer(o) PROVE CallsOK'
  BY <1>16, ClosePointerKeeps
<1>17. ASSUME NEW o \in Objects, Collect(o) PROVE CallsOK'
  BY <1>17, CollectKeeps
<1>18. ASSUME NEW o \in Objects, CallbackFromPointer(o) PROVE CallsOK'
  BY <1>18, CallbackFromPointerKeeps
<1>19. ASSUME NEW o \in Objects, CloseCallback(o) PROVE CallsOK'
  BY <1>19, CloseCallbackKeeps
<1>20. ASSUME NEW o \in Objects, TakeError(o) PROVE CallsOK'
  BY <1>20, TakeErrorKeeps
<1>21. ASSUME NEW o \in Objects, Dispatch(o) PROVE CallsOK'
  BY <1>21, DispatchKeeps
<1>22. ASSUME NEW o \in Objects, DispatchElsewhere(o) PROVE CallsOK'
  BY <1>22, DispatchElsewhereKeeps
<1>23. ASSUME NEW how \in {"fine", "exception", "contract"}, DispatchReturns(how) PROVE CallsOK'
  BY <1>23, DispatchReturnsKeeps
<1>24. CASE UNCHANGED callVars
  BY <1>24 DEF callVars, CallsOK, Shape
<1> QED BY <1>1, <1>2, <1>3, <1>4, <1>5, <1>6, <1>7, <1>8, <1>9, <1>10, <1>11, <1>12, <1>13,
           <1>14, <1>15, <1>16, <1>17, <1>18, <1>19, <1>20, <1>21, <1>22, <1>23, <1>24, Zenon
           DEF CallsNext

(* Objects, controls, frames and their counts are what they are meant to be,   *)
(* whatever the program, native code and the collector do.                  *)
THEOREM CallsAlwaysOK == CallsSpec => []CallsOK
<1>1. CallsInit => CallsOK
  BY CallsStartOK
<1>2. CallsOK /\ [CallsNext]_callVars => CallsOK'
  BY CallsStepOK
<1> QED BY <1>1, <1>2, PTL DEF CallsSpec

----------------------------------------------------------------------------
(* What follows from it. *)

(* A library is loaded as often as it has controls, a control counts what holds   *)
(* it, and the code of every call under way is loaded (the reference counts of    *)
(* native_call.c), in whatever order the program closes and drops what it has.   *)
THEOREM CodeAlwaysLoaded == CallsSpec => []NativeCodeStaysLoaded
<1>1. CallsOK => NativeCodeStaysLoaded
  <2> SUFFICES ASSUME CallsOK PROVE NativeCodeStaysLoaded
    OBVIOUS
  <2>1. Counted(loader, objects) /\ FramesOK(stack, objects) /\ stack \in Seq(Frame)
    BY DEF CallsOK, Shape
  <2>2. \A k \in Controls : loader.controls[k].references =
                            Cardinality({o \in Objects : objects[o].control = k})
    BY <2>1 DEF Counted, Holding
  <2>3. \A library \in Libraries : loader.held[library] =
            Cardinality({k \in Controls : loader.controls[k].library = library})
    BY <2>1 DEF Counted, ControlsOf
  <2>4. ASSUME NEW i \in DOMAIN stack, stack[i].control # None
        PROVE  loader.controls[stack[i].control].references > 0
    <3>1. i \in 1 .. Len(stack) /\ stack[i] \in Frame
      BY <2>1
    <3>2. FrameOK(stack, objects, i)
      BY <2>1, <3>1 DEF FramesOK
    <3>3. stack[i].object \in Objects /\ objects[stack[i].object].control = stack[i].control
      BY <2>4, <3>1, <3>2 DEF FrameOK, Frame
    <3>4. objects[stack[i].object].control # None =>
              loader.controls[objects[stack[i].object].control].references > 0
      BY <3>3, ControlIsCounted
    <3> QED BY <2>4, <3>3, <3>4
  <2>5. \A entry, other \in cache : entry.call = other.call => entry = other
    BY DEF CallsOK, CacheOK
  <2> QED BY <2>2, <2>3, <2>4, <2>5 DEF NativeCodeStaysLoaded
<1> QED BY <1>1, CallsAlwaysOK, PTL

(* What native code allocated has one pointer that owns it until it is released,  *)
(* and is released once (native_pointer_close and the finalizer).              *)
THEOREM OwnedAlwaysReleasedOnce == CallsSpec => []OwnedPointersReleasedOnce
<1>1. CallsOK => OwnedPointersReleasedOnce
  <2> SUFFICES ASSUME CallsOK, NEW r \in Natives
               PROVE  /\ natives[r] # "twice"
                      /\ Cardinality({o \in Objects : objects[o].owns /\ objects[o].value = r})
                             = IF natives[r] = "owned" THEN 1 ELSE 0
    BY DEF OwnedPointersReleasedOnce
  <2> DEFINE owners == {o \in Objects : objects[o].owns /\ objects[o].value = r}
  <2>1. OwnersOK(natives, objects)
    BY DEF CallsOK
  <2>2. natives[r] # "twice"
    BY <2>1 DEF OwnersOK
  <2>3. CASE natives[r] = "owned"
    <3>1. PICK o \in Objects : objects[o].owns /\ objects[o].value = r
      BY <2>1, <2>3 DEF OwnersOK
    <3>2. owners = {o}
      BY <2>1, <3>1 DEF OwnersOK
    <3>3. Cardinality(owners) = 1
      BY <3>2, FS_Singleton
    <3> QED BY <2>2, <2>3, <3>3
  <2>4. CASE natives[r] # "owned"
    <3>1. owners = {}
      BY <2>1, <2>4 DEF OwnersOK
    <3>2. Cardinality(owners) = 0
      BY <3>1, FS_EmptySet
    <3> QED BY <2>2, <2>4, <3>2
  <2> QED BY <2>3, <2>4
<1> QED BY <1>1, CallsAlwaysOK, PTL

(* What a callback was given has an address only while it runs, and the thread is  *)
(* blocked for the collector exactly while native code runs                      *)
(* (haxeon_native_callback_dispatch, haxeon_native_ffi_call).                   *)
THEOREM ScopesAlwaysEnd == CallsSpec => []CallbackScopesEnd
<1>1. CallsOK => CallbackScopesEnd
  <2> SUFFICES ASSUME CallsOK PROVE CallbackScopesEnd
    OBVIOUS
  <2>1. /\ ScopesOK(stack, objects) /\ BlockingOK(stack, blocking)
        /\ DOMAIN stack = 1 .. Len(stack)
    BY DEF CallsOK, Shape
  <2>2. \A o \in Objects : objects[o].scoped /\ objects[o].value # None =>
            \E i \in DOMAIN stack : stack[i].at = "haxe" /\ stack[i].object = o
    BY <2>1 DEF ScopesOK
  <2>3. blocking = IF InNative THEN 1 ELSE 0
    BY <2>1, HaxeRuns DEF BlockingOK
  <2> QED BY <2>2, <2>3 DEF CallbackScopesEnd
<1> QED BY <1>1, CallsAlwaysOK, PTL

(* Objects, controls and the stack keep their shape and their bounds. *)
THEOREM CallsAlwaysTyped == CallsSpec => []CallsTypeOK
<1>1. CallsOK => CallsTypeOK
  <2> SUFFICES ASSUME CallsOK PROVE CallsTypeOK
    OBVIOUS
  <2>1. /\ loader.controls \in [Controls -> Control] /\ loader.held \in [Libraries -> Nat]
        /\ objects \in [Objects -> Object] /\ natives \in [Natives -> Fates]
        /\ cache \subseteq Entry /\ resolving \in [Threads -> {NothingResolved} \union Entry]
        /\ Len(stack) <= MaxDepth
    BY DEF CallsOK, Shape, Loader
  <2>2. blocking \in 0 .. MaxDepth
    BY Numbers DEF CallsOK, BlockingOK
  <2> QED BY <2>1, <2>2 DEF CallsTypeOK, Control, Object, Entry, Fates
<1> QED BY <1>1, CallsAlwaysOK, PTL

----------------------------------------------------------------------------
(* WasmHeap *)

\* A set of numbers that has any has a smallest.
LEMMA Smallest ==
    ASSUME NEW T, T \subseteq Nat, T # {}
    PROVE  \E m \in T : \A n \in T : m <= n
  <1>1. PICK m \in T : \A n \in T : <<n, m>> \notin OpToRel(<, Nat)
    BY WFMin, NatLessThanWellFounded
  <1>2. \A n \in T : ~(n < m)
    BY <1>1 DEF OpToRel
  <1> QED BY <1>2

\* What holds of 0 and is handed from each number to the next holds up to N: were it
\* missed anywhere, then somewhere first. This is the induction over the addresses of a sweep.
LEMMA UpTo ==
    ASSUME NEW N \in Nat, NEW T, 0 \in T, \A n \in 0 .. N - 1 : n \in T => n + 1 \in T
    PROVE  0 .. N \subseteq T
  <1> DEFINE missed == {n \in 0 .. N : n \notin T}
  <1> SUFFICES ASSUME missed # {} PROVE FALSE OBVIOUS
  <1>1. PICK m \in missed : \A n \in missed : m <= n
    BY Smallest, missed \subseteq Nat
  <1>2. m # 0 /\ m - 1 \in 0 .. N - 1 /\ m - 1 \notin missed
    BY <1>1
  <1> QED BY <1>1, <1>2

\* The pages haxeon_heap_alloc asks for, rounded up, hold what they are asked for.
LEMMA PagesSuffice ==
    ASSUME NEW n \in Nat, NEW p \in Nat \ {0}
    PROVE  (n + p - 1) \div p \in Nat /\ n <= ((n + p - 1) \div p) * p
  BY SMTT(20)

----------------------------------------------------------------------------
\* A header, the headers of a heap, and the heap.
BlockRecord == [size : Nat, allocated : BOOLEAN, marked : BOOLEAN]
BlockMaps == UNION {[D -> BlockRecord] : D \in SUBSET Nat}
HeapRecord ==
    [blocks : BlockMaps, classes : [Small -> Seq(Nat)], large : Seq(Nat), top : Nat,
     budget : Int, live : Nat, pages : Nat, stress : BOOLEAN, trapped : BOOLEAN]

\* The headers of a heap: a block record for some addresses.
LEMMA BlockMap ==
    \A f : f \in BlockMaps <=> DOMAIN f \subseteq Nat /\ f \in [DOMAIN f -> BlockRecord]
  BY DEF BlockMaps

\* The headers push_free and haxeon_heap_alloc write are headers.
LEMMA BlockType ==
    ASSUME NEW size \in Nat
    PROVE  Free(size) \in BlockRecord /\ Used(size) \in BlockRecord
  BY DEF Free, Used, BlockRecord

\* Writing one header leaves the others.
LEMMA WithType ==
    ASSUME NEW f \in BlockMaps, NEW b \in Nat, NEW r \in BlockRecord
    PROVE  /\ With(f, b, r) \in BlockMaps
           /\ DOMAIN With(f, b, r) = DOMAIN f \union {b}
           /\ With(f, b, r)[b] = r
           /\ \A c \in DOMAIN f \ {b} : With(f, b, r)[c] = f[c]
  <1>1. With(f, b, r) = [c \in {b} \union DOMAIN f |-> IF c = b THEN r ELSE f[c]]
    BY DEF With
  <1>2. f \in [DOMAIN f -> BlockRecord] /\ DOMAIN f \subseteq Nat
    BY BlockMap
  <1> QED BY <1>1, <1>2, BlockMap

\* What push_free makes of `h`.
Pushed(h, b, size, p) ==
    /\ p \in HeapRecord
    /\ p.blocks = With(h.blocks, b, Free(size))
    /\ \A n \in Small :
          p.classes[n] = IF n = size THEN <<b>> \o h.classes[n] ELSE h.classes[n]
    /\ p.large = IF size \in Small THEN h.large ELSE <<b>> \o h.large
    /\ p.top = h.top /\ p.budget = h.budget /\ p.live = h.live
    /\ p.pages = h.pages /\ p.stress = h.stress /\ p.trapped = h.trapped

\* push_free changes one header and the head of one list.
LEMMA PushFreeType ==
    ASSUME NEW h \in HeapRecord, NEW b \in Nat, NEW size \in Nat
    PROVE  Pushed(h, b, size, PushFree(h, b, size))
  <1> DEFINE p == PushFree(h, b, size)
  <1> SUFFICES Pushed(h, b, size, p) OBVIOUS
  <1> DEFINE w == With(h.blocks, b, Free(size))
  <1>1. w \in BlockMaps
    <2>1. Free(size) \in BlockRecord BY BlockType
    <2> QED BY <2>1, WithType DEF HeapRecord
  <1> HIDE DEF w
  <1>2. <<b>> \in Seq(Nat) OBVIOUS
  <1>3. \A s \in Seq(Nat) : <<b>> \o s \in Seq(Nat) BY <1>2
  <1>4. p = LET pushed == [h EXCEPT !.blocks = w]
            IN  IF size \in Small THEN [pushed EXCEPT !.classes[size] = <<b>> \o @]
                ELSE [pushed EXCEPT !.large = <<b>> \o @]
    BY DEF PushFree, w
  <1> HIDE DEF p
  <1>5. CASE size \in Small
    <2>1. p = [h EXCEPT !.blocks = w, !.classes = [h.classes EXCEPT ![size] = <<b>> \o @]]
      BY <1>4, <1>5 DEF HeapRecord
    <2>2. [h.classes EXCEPT ![size] = <<b>> \o @] \in [Small -> Seq(Nat)]
      BY <1>5, <1>3 DEF HeapRecord
    <2>3. p \in HeapRecord /\ p.blocks = w /\ p.large = h.large
          /\ p.classes = [h.classes EXCEPT ![size] = <<b>> \o @]
      BY <2>1, <2>2, <1>1, <1>5 DEF HeapRecord
    <2>4. \A n \in Small : p.classes[n] = IF n = size THEN <<b>> \o h.classes[n] ELSE h.classes[n]
      BY <2>3 DEF HeapRecord
    <2>5. /\ p.top = h.top /\ p.budget = h.budget /\ p.live = h.live
          /\ p.pages = h.pages /\ p.stress = h.stress /\ p.trapped = h.trapped
      BY <2>1 DEF HeapRecord
    <2> QED BY <2>3, <2>4, <2>5, <1>5 DEF w, Pushed
  <1>6. CASE size \notin Small
    <2>1. p = [h EXCEPT !.blocks = w, !.large = <<b>> \o h.large]
      BY <1>4, <1>6 DEF HeapRecord
    <2>2. p \in HeapRecord /\ p.blocks = w /\ p.large = <<b>> \o h.large /\ p.classes = h.classes
      BY <2>1, <1>3, <1>1 DEF HeapRecord
    <2>3. /\ p.top = h.top /\ p.budget = h.budget /\ p.live = h.live
          /\ p.pages = h.pages /\ p.stress = h.stress /\ p.trapped = h.trapped
      BY <2>1 DEF HeapRecord
    <2>4. \A n \in Small : n # size BY <1>6
    <2> QED BY <2>2, <2>3, <2>4, <1>6 DEF w, Pushed
  <1> QED BY <1>5, <1>6

\* The same, as far as the blocks are concerned.
PushedBlocks(h, b, size, p) ==
    /\ p \in HeapRecord
    /\ Starts(p) = Starts(h) \union {b}
    /\ p.blocks[b].size = size /\ ~p.blocks[b].allocated /\ ~p.blocks[b].marked
    /\ \A c \in Starts(h) \ {b} : p.blocks[c] = h.blocks[c]
    /\ p.top = h.top /\ p.pages = h.pages /\ p.stress = h.stress
    /\ p.trapped = h.trapped /\ p.live = h.live

\* push_free adds a free block, and leaves the other blocks and the bounds of the heap.
LEMMA PushFreeBlocks ==
    ASSUME NEW h \in HeapRecord, NEW b \in Nat, NEW size \in Nat
    PROVE  PushedBlocks(h, b, size, PushFree(h, b, size))
  <1> DEFINE p == PushFree(h, b, size)
  <1>0. Pushed(h, b, size, p) BY PushFreeType
  <1> SUFFICES PushedBlocks(h, b, size, p) OBVIOUS
  <1> HIDE DEF p
  <1>1. /\ p \in HeapRecord /\ p.blocks = With(h.blocks, b, Free(size))
        /\ p.top = h.top /\ p.pages = h.pages /\ p.stress = h.stress
        /\ p.trapped = h.trapped /\ p.live = h.live
    BY <1>0 DEF Pushed
  <1>2. p.blocks[b] = Free(size) /\ DOMAIN p.blocks = Starts(h) \union {b}
        /\ \A c \in Starts(h) \ {b} : p.blocks[c] = h.blocks[c]
    BY <1>1 DEF With, Starts
  <1>3. p.blocks[b].size = size /\ ~p.blocks[b].allocated /\ ~p.blocks[b].marked
    BY <1>2 DEF Free
  <1> QED BY <1>1, <1>2, <1>3 DEF Starts, PushedBlocks

----------------------------------------------------------------------------
\* The blocks of `f` follow each other from the start of the heap to `top`.
Tiles(f, top) ==
    /\ \A b \in DOMAIN f :
          /\ b >= Start /\ f[b].size >= Header /\ b + f[b].size <= top
          /\ b + f[b].size \in DOMAIN f \union {top}
    /\ top >= Start /\ (top > Start => Start \in DOMAIN f)
    /\ \A b, c \in DOMAIN f : b < c => b + f[b].size <= c

\* A header is smaller than the smallest large block.
LEMMA HeaderType == Header \in Nat \ {0} /\ SmallLimit \in Nat \ {0} /\ Header < SmallLimit
                    /\ Small = Header .. SmallLimit - 1 /\ Small \subseteq Nat
  BY HeapConstants DEF Small

\* Blocks tile as long as they keep their sizes, whatever else a header says.
LEMMA TilesSameSizes ==
    ASSUME NEW f \in BlockMaps, NEW g \in BlockMaps, NEW top \in Nat, Tiles(f, top),
           DOMAIN g = DOMAIN f, \A b \in DOMAIN f : g[b].size = f[b].size
    PROVE  Tiles(g, top)
  <1>1. \A b \in DOMAIN g :
            /\ b >= Start /\ g[b].size >= Header /\ b + g[b].size <= top
            /\ b + g[b].size \in DOMAIN g \union {top}
    BY DEF Tiles
  <1>2. top >= Start /\ (top > Start => Start \in DOMAIN g)
    BY DEF Tiles
  <1>3. \A b, c \in DOMAIN g : b < c => b + g[b].size <= c
    BY DEF Tiles
  <1> QED BY <1>1, <1>2, <1>3 DEF Tiles

\* What tiles up to `top` starts below it.
LEMMA TilesBelow ==
    ASSUME NEW f \in BlockMaps, NEW top \in Nat, Tiles(f, top), NEW b \in DOMAIN f
    PROVE  b \in Nat /\ f[b].size \in Nat /\ b < top
  <1>1. b \in Nat /\ f[b].size \in Nat BY BlockMap DEF BlockRecord
  <1>2. f[b].size >= Header /\ b + f[b].size <= top BY DEF Tiles
  <1> QED BY <1>1, <1>2, HeaderType

\* A block at the top extends the tiling to its end.
LEMMA TilesGrow ==
    ASSUME NEW f \in BlockMaps, NEW top \in Nat, Tiles(f, top),
           NEW r \in BlockRecord, r.size >= Header
    PROVE  Tiles(With(f, top, r), top + r.size)
  <1> DEFINE g == With(f, top, r)
  <1>1. DOMAIN g = DOMAIN f \union {top} /\ g[top] = r /\ \A c \in DOMAIN f \ {top} : g[c] = f[c]
    BY DEF With
  <1>2. DOMAIN f \subseteq Nat /\ \A b \in DOMAIN f : f[b] \in BlockRecord
    BY BlockMap
  <1>3. r.size \in Nat /\ r.size > 0 /\ Header > 0
    BY HeaderType DEF BlockRecord
  <1>4. \A b \in DOMAIN f : b # top /\ b < top /\ f[b].size \in Nat
    BY <1>2, HeaderType DEF Tiles, BlockRecord
  <1> HIDE DEF g
  <1>5. \A b \in DOMAIN g : /\ b >= Start /\ g[b].size >= Header /\ b + g[b].size <= top + r.size
                            /\ b + g[b].size \in DOMAIN g \union {top + r.size}
    BY <1>1, <1>2, <1>3, <1>4 DEF Tiles, Start
  <1>6. Start \in DOMAIN g /\ top + r.size >= Start
    BY <1>1, <1>2, <1>3 DEF Tiles, Start
  <1>7. \A b, c \in DOMAIN g : b < c => b + g[b].size <= c
    BY <1>1, <1>2, <1>3, <1>4 DEF Tiles
  <1> QED BY <1>5, <1>6, <1>7 DEF Tiles, g

\* A block in two halves, neither smaller than a header, tiles as the one did.
LEMMA TilesSplit ==
    ASSUME NEW f \in BlockMaps, NEW g \in BlockMaps, NEW top \in Nat, Tiles(f, top),
           NEW b \in DOMAIN f, NEW rest \in Nat, NEW size \in Nat,
           rest >= Header, size >= Header, f[b].size = rest + size,
           DOMAIN g = DOMAIN f \union {b + rest},
           g[b].size = rest, g[b + rest].size = size,
           \A c \in DOMAIN f \ {b} : g[c].size = f[c].size
    PROVE  Tiles(g, top) /\ b + rest \notin DOMAIN f /\ b + rest \in Nat
  <1>1. DOMAIN f \subseteq Nat /\ \A c \in DOMAIN f : f[c].size \in Nat
    BY BlockMap DEF BlockRecord
  <1>2. Header > 0 /\ Header \in Nat BY HeaderType
  <1>3. b + rest \notin DOMAIN f
    BY <1>1, <1>2 DEF Tiles
  <1>4. \A c \in DOMAIN g : /\ c >= Start /\ g[c].size >= Header /\ c + g[c].size <= top
                            /\ c + g[c].size \in DOMAIN g \union {top}
    BY <1>1, <1>2, <1>3 DEF Tiles, Start
  <1>5. \A c \in DOMAIN f \ {b} : c < b => c + f[c].size <= b
    BY DEF Tiles
  <1>6. \A c \in DOMAIN f \ {b} : c > b => b + rest + size <= c
    BY <1>1 DEF Tiles
  <1>7. \A c, d \in DOMAIN g : c < d => c + g[c].size <= d
    <2> SUFFICES ASSUME NEW c \in DOMAIN g, NEW d \in DOMAIN g, c < d PROVE c + g[c].size <= d
      OBVIOUS
    <2>1. CASE c = b
      BY <2>1, <1>1, <1>2, <1>6
    <2>2. CASE c = b + rest
      BY <2>2, <1>1, <1>2, <1>3, <1>5, <1>6
    <2>3. CASE c \in DOMAIN f \ {b}
      <3>1. g[c].size = f[c].size BY <2>3
      <3>2. CASE d \in DOMAIN f
        BY <3>1, <3>2, <2>3 DEF Tiles
      <3>3. CASE d = b + rest
        BY <3>1, <3>3, <2>3, <1>1, <1>5, <1>6, <1>2
      <3> QED BY <3>2, <3>3
    <2> QED BY <2>1, <2>2, <2>3
  <1> QED BY <1>1, <1>3, <1>4, <1>7 DEF Tiles

----------------------------------------------------------------------------
\* A list has free blocks of some sizes, each once, and none that is out of the lists;
\* every other free block is in the list of its size.
GoodList(f, out, list, sizes) ==
    /\ \A i \in DOMAIN list :
          list[i] \in DOMAIN f \ out /\ ~f[list[i]].allocated /\ f[list[i]].size \in sizes
    /\ \A i, j \in DOMAIN list : list[i] = list[j] => i = j

Complete(h, out) ==
    \A b \in Starts(h) \ out :
        ~h.blocks[b].allocated => \E i \in DOMAIN Listed(h, b) : Listed(h, b)[i] = b

ListsOK(h, out) ==
    /\ \A n \in Small : GoodList(h.blocks, out, h.classes[n], {n})
    /\ GoodList(h.blocks, out, h.large, Nat \ Small)
    /\ Complete(h, out)

\* A free block that no list has can be put before those of its list.
LEMMA GoodListPush ==
    ASSUME NEW f \in BlockMaps, NEW out, NEW list \in Seq(Nat), NEW sizes,
           GoodList(f, out, list, sizes),
           NEW b \in Nat, NEW size \in Nat, b \in out \/ b \notin DOMAIN f \/ f[b].allocated,
           NEW g, g = With(f, b, Free(size))
    PROVE  /\ GoodList(g, out \ {b}, list, sizes)
           /\ size \in sizes => GoodList(g, out \ {b}, <<b>> \o list, sizes)
  <1>1. DOMAIN g = DOMAIN f \union {b} /\ g[b] = Free(size)
        /\ \A c \in DOMAIN f \ {b} : g[c] = f[c]
    BY DEF With
  <1>2. \A i \in DOMAIN list : list[i] # b
    BY DEF GoodList
  <1>3. GoodList(g, out \ {b}, list, sizes)
    BY <1>1, <1>2 DEF GoodList
  <1>4. ASSUME size \in sizes PROVE GoodList(g, out \ {b}, <<b>> \o list, sizes)
    <2> DEFINE l == <<b>> \o list
    <2>1. DOMAIN l = 1 .. Len(list) + 1 /\ l[1] = b
          /\ \A i \in 2 .. Len(list) + 1 : l[i] = list[i - 1] /\ i - 1 \in DOMAIN list
      OBVIOUS
    <2>2. g[b].size = size /\ ~g[b].allocated BY <1>1 DEF Free
    <2> HIDE DEF l
    <2>3. \A i \in DOMAIN l : l[i] \in DOMAIN g \ (out \ {b}) /\ ~g[l[i]].allocated /\ g[l[i]].size \in sizes
      <3> TAKE i \in DOMAIN l
      <3>1. CASE i = 1 BY <3>1, <2>1, <2>2, <1>1, <1>4
      <3>2. CASE i \in 2 .. Len(list) + 1
        BY <3>2, <2>1, <1>3 DEF GoodList
      <3> QED BY <3>1, <3>2, <2>1
    <2>4. \A i, j \in DOMAIN l : l[i] = l[j] => i = j
      <3> TAKE i, j \in DOMAIN l
      <3>0. Len(list) \in Nat OBVIOUS
      <3>1. CASE i = 1 \/ j = 1 BY <3>0, <3>1, <2>1, <1>2
      <3>2. CASE i \in 2 .. Len(list) + 1 /\ j \in 2 .. Len(list) + 1
        <4>1. l[i] = list[i - 1] /\ l[j] = list[j - 1] /\ i - 1 \in DOMAIN list /\ j - 1 \in DOMAIN list
          BY <3>2, <2>1
        <4>2. list[i - 1] = list[j - 1] => i - 1 = j - 1
          BY <4>1 DEF GoodList
        <4> QED BY <4>1, <4>2, <3>2, <3>0
      <3> QED BY <3>0, <3>1, <3>2, <2>1
    <2> QED BY <2>3, <2>4 DEF GoodList, l
  <1> QED BY <1>3, <1>4

\* push_free keeps the free lists right, and lists the block that was off them.
LEMMA ListsPush ==
    ASSUME NEW h \in HeapRecord, NEW out, ListsOK(h, out), NEW b \in Nat, NEW size \in Nat,
           b \in out \/ b \notin Starts(h) \/ h.blocks[b].allocated,
           NEW p, p = PushFree(h, b, size)
    PROVE  ListsOK(p, out \ {b})
  <1> DEFINE g == With(h.blocks, b, Free(size))
  <1>1. /\ p \in HeapRecord /\ p.blocks = g
        /\ \A n \in Small :
              p.classes[n] = IF n = size THEN <<b>> \o h.classes[n] ELSE h.classes[n]
        /\ p.large = IF size \in Small THEN h.large ELSE <<b>> \o h.large
    BY PushFreeType DEF Pushed
  <1>2. h.blocks \in BlockMaps /\ h.large \in Seq(Nat) /\ \A n \in Small : h.classes[n] \in Seq(Nat)
    BY DEF HeapRecord
  <1>3. DOMAIN g = Starts(h) \union {b} /\ g[b] = Free(size)
        /\ \A c \in Starts(h) \ {b} : g[c] = h.blocks[c]
    BY DEF With, Starts, g
  <1> HIDE DEF g
  <1>4. ASSUME NEW n \in Small PROVE GoodList(g, out \ {b}, p.classes[n], {n})
    <2>1. GoodList(g, out \ {b}, h.classes[n], {n})
          /\ (size = n => GoodList(g, out \ {b}, <<b>> \o h.classes[n], {n}))
      <3>1. GoodList(h.blocks, out, h.classes[n], {n}) BY DEF ListsOK
      <3> QED BY <3>1, <1>2, GoodListPush DEF g, Starts
    <2>2. p.classes[n] = IF size = n THEN <<b>> \o h.classes[n] ELSE h.classes[n]
      BY <1>1 DEF HeapRecord
    <2> QED BY <2>1, <2>2
  <1>5. GoodList(g, out \ {b}, p.large, Nat \ Small)
    <2>1. GoodList(h.blocks, out, h.large, Nat \ Small) BY DEF ListsOK
    <2>2. GoodList(g, out \ {b}, h.large, Nat \ Small)
          /\ (size \notin Small => GoodList(g, out \ {b}, <<b>> \o h.large, Nat \ Small))
      BY <2>1, <1>2, GoodListPush DEF g, Starts
    <2> QED BY <2>2, <1>1
  <1>6. ASSUME NEW c \in Starts(p) \ (out \ {b}), ~p.blocks[c].allocated
        PROVE  \E i \in DOMAIN Listed(p, c) : Listed(p, c)[i] = c
    <2>1. p.blocks[c] = g[c] /\ c \in DOMAIN g BY <1>1, <1>6 DEF Starts
    <2> DEFINE cons(s) == <<b>> \o s
    <2>0. \A s \in Seq(Nat) : /\ cons(s)[1] = b /\ 1 \in DOMAIN cons(s)
                              /\ \A i \in DOMAIN s : i + 1 \in DOMAIN cons(s) /\ cons(s)[i + 1] = s[i]
      OBVIOUS
    <2> HIDE DEF cons
    <2>2. CASE c = b
      <3>1. p.blocks[c].size = size BY <2>1, <2>2, <1>3 DEF Free
      <3>2. CASE size \in Small
        <4>1. Listed(p, c) = cons(h.classes[size])
          BY <3>1, <3>2, <1>1 DEF Listed, HeapRecord, cons
        <4>2. cons(h.classes[size])[1] = b /\ 1 \in DOMAIN cons(h.classes[size])
          BY <2>0, <1>2, <3>2
        <4> QED BY <4>1, <4>2, <2>2
      <3>3. CASE size \notin Small
        <4>1. Listed(p, c) = cons(h.large)
          BY <3>1, <3>3, <1>1 DEF Listed, cons
        <4>2. cons(h.large)[1] = b /\ 1 \in DOMAIN cons(h.large) BY <2>0, <1>2
        <4> QED BY <4>1, <4>2, <2>2
      <3> QED BY <3>2, <3>3
    <2>3. CASE c # b
      <3>1. c \in Starts(h) \ out /\ g[c] = h.blocks[c] /\ ~h.blocks[c].allocated
        BY <2>1, <2>3, <1>3, <1>6
      <3>2. PICK i \in DOMAIN Listed(h, c) : Listed(h, c)[i] = c
        BY <3>1 DEF ListsOK, Complete
      <3>3. Listed(p, c) = Listed(h, c) \/ (Listed(p, c) = cons(Listed(h, c)) /\ Listed(h, c) \in Seq(Nat))
        <4>1. p.blocks[c].size = h.blocks[c].size BY <3>1, <2>1
        <4>2. CASE h.blocks[c].size \in Small BY <4>1, <4>2, <1>1, <1>2 DEF Listed, cons
        <4>3. CASE h.blocks[c].size \notin Small BY <4>1, <4>3, <1>1, <1>2 DEF Listed, cons
        <4> QED BY <4>2, <4>3
      <3> QED BY <3>2, <3>3, <2>0
    <2> QED BY <2>2, <2>3
  <1> QED BY <1>1, <1>4, <1>5, <1>6 DEF ListsOK, Complete

\* New headers leave the lists right where the listed blocks stay free and in their class.
LEMMA ListsOfBlocks ==
    ASSUME NEW h \in HeapRecord, NEW out, ListsOK(h, out),
           NEW g \in BlockMaps, NEW new, new = [h EXCEPT !.blocks = g],
           NEW left, left \subseteq out \union (DOMAIN g \ Starts(h)),
           Starts(h) \subseteq DOMAIN g,
           \A c \in Starts(h) \ out :
               /\ g[c].allocated = h.blocks[c].allocated
               /\ g[c].size = h.blocks[c].size
                  \/ (g[c].size \notin Small /\ h.blocks[c].size \notin Small),
           \A c \in DOMAIN g \ (Starts(h) \ out) : g[c].allocated \/ c \in left
    PROVE  new \in HeapRecord /\ ListsOK(new, left)
  <1>1. new \in HeapRecord /\ new.blocks = g /\ new.classes = h.classes /\ new.large = h.large
    BY DEF HeapRecord
  <1>2. h.large \in Seq(Nat) /\ \A n \in Small : h.classes[n] \in Seq(Nat)
    BY DEF HeapRecord
  <1>3. \A c \in DOMAIN g : g[c].size \in Nat
    BY BlockMap DEF BlockRecord
  <1>4. ASSUME NEW list \in Seq(Nat), NEW sizes, GoodList(h.blocks, out, list, sizes),
               \A c \in Starts(h) \ out : h.blocks[c].size \in sizes => g[c].size \in sizes
        PROVE  GoodList(g, left, list, sizes)
    BY <1>4 DEF GoodList, Starts
  <1>5. \A n \in Small : GoodList(g, left, h.classes[n], {n})
    <2> TAKE n \in Small
    <2>1. GoodList(h.blocks, out, h.classes[n], {n}) BY DEF ListsOK
    <2>2. \A c \in Starts(h) \ out : h.blocks[c].size \in {n} => g[c].size \in {n} OBVIOUS
    <2> QED BY <1>2, <1>4, <2>1, <2>2
  <1>6. GoodList(g, left, h.large, Nat \ Small)
    <2>1. GoodList(h.blocks, out, h.large, Nat \ Small) BY DEF ListsOK
    <2>2. \A c \in Starts(h) \ out : h.blocks[c].size \in Nat \ Small => g[c].size \in Nat \ Small
      BY <1>3
    <2> QED BY <1>2, <1>4, <2>1, <2>2
  <1>7. Complete(new, left)
    <2> SUFFICES ASSUME NEW c \in DOMAIN g \ left, ~g[c].allocated
                 PROVE  \E i \in DOMAIN Listed(new, c) : Listed(new, c)[i] = c
      BY <1>1 DEF Complete, Starts
    <2>1. c \in Starts(h) \ out OBVIOUS
    <2>2. Listed(new, c) = Listed(h, c) BY <1>1, <2>1 DEF Listed
    <2>3. ~h.blocks[c].allocated BY <2>1
    <2> QED BY <2>1, <2>2, <2>3 DEF ListsOK, Complete
  <1> QED BY <1>1, <1>5, <1>6, <1>7 DEF ListsOK

\* A part of a list of addresses.
LEMMA PartOf ==
    ASSUME NEW list \in Seq(Nat), NEW m \in Nat, NEW n \in Nat, m >= 1, n <= Len(list), m <= n + 1
    PROVE  /\ SubSeq(list, m, n) \in Seq(Nat) /\ Len(SubSeq(list, m, n)) = n - m + 1
           /\ \A j \in 1 .. n - m + 1 : SubSeq(list, m, n)[j] = list[m + j - 1]
  <1>1. \A j \in m .. n : list[j] \in Nat OBVIOUS
  <1>2. /\ SubSeq(list, m, n) \in Seq(Nat)
        /\ Len(SubSeq(list, m, n)) = IF m <= n THEN n - m + 1 ELSE 0
        /\ \A j \in 1 .. n - m + 1 : SubSeq(list, m, n)[j] = list[m + j - 1]
    <2>1. m \in Int /\ n \in Int OBVIOUS
    <2> QED BY <2>1, <1>1, SubSeqProperties, SMTT(30)
  <1>3. (IF m <= n THEN n - m + 1 ELSE 0) = n - m + 1 OBVIOUS
  <1> QED BY <1>2, <1>3

\* What RemoveAt leaves of a list of addresses, place by place.
LEMMA RemovedAt ==
    ASSUME NEW list \in Seq(Nat), NEW i \in DOMAIN list,
           NEW rest, rest = RemoveAt(list, i)
    PROVE  /\ rest \in Seq(Nat) /\ DOMAIN rest = 1 .. Len(list) - 1
           /\ \A j \in 1 .. i - 1 : rest[j] = list[j] /\ j \in DOMAIN list /\ j \in DOMAIN rest
           /\ \A j \in i .. Len(list) - 1 : rest[j] = list[j + 1] /\ j + 1 \in DOMAIN list /\ j \in DOMAIN rest
  <1> DEFINE n == Len(list)
             a == SubSeq(list, 1, i - 1)
             b == SubSeq(list, i + 1, n)
  <1>1. rest = a \o b BY DEF RemoveAt
  <1>2. n \in Nat /\ DOMAIN list = 1 .. n /\ n <= Len(list) OBVIOUS
  <1>3. i \in Nat /\ i >= 1 /\ i <= n OBVIOUS
  <1>4. a \in Seq(Nat) /\ Len(a) = (i - 1) - 1 + 1
        /\ \A j \in 1 .. (i - 1) - 1 + 1 : a[j] = list[1 + j - 1]
    <2>1. i - 1 \in Nat /\ i - 1 <= Len(list) /\ 1 <= (i - 1) + 1 BY <1>3
    <2> QED BY <2>1, PartOf, SMTT(40)
  <1>5. b \in Seq(Nat) /\ Len(b) = n - (i + 1) + 1
        /\ \A j \in 1 .. n - (i + 1) + 1 : b[j] = list[i + 1 + j - 1]
    <2>1. i + 1 \in Nat /\ i + 1 >= 1 /\ i + 1 <= n + 1 BY <1>3
    <2> HIDE DEF n
    <2> QED BY <2>1, <1>2, PartOf
  <1> HIDE DEF a, b, n
  <1>6. Len(a) = i - 1 /\ Len(b) = n - i
    <2>1. Len(a) = (i - 1) - 1 + 1 /\ Len(b) = n - (i + 1) + 1 BY <1>4, <1>5
    <2> QED BY <2>1, <1>2, <1>3
  <1>7. /\ a \o b \in Seq(Nat) /\ Len(a \o b) = Len(a) + Len(b)
        /\ \A j \in 1 .. Len(a) + Len(b) : (a \o b)[j] = IF j <= Len(a) THEN a[j] ELSE b[j - Len(a)]
    BY <1>4, <1>5, ConcatProperties
  <1>8. rest \in Seq(Nat) /\ DOMAIN rest = 1 .. n - 1
    <2>1. rest \in Seq(Nat) /\ Len(rest) = Len(a) + Len(b) BY <1>1, <1>7
    <2>2. Len(a) + Len(b) = n - 1 BY <1>2, <1>3, <1>6
    <2>3. DOMAIN rest = 1 .. Len(rest) BY <2>1
    <2> QED BY <2>1, <2>2, <2>3
  <1>9. ASSUME NEW j \in 1 .. i - 1
        PROVE  rest[j] = list[j] /\ j \in 1 .. n /\ j \in 1 .. n - 1
    <2>1. j \in 1 .. (i - 1) - 1 + 1 /\ 1 + j - 1 = j BY <1>3
    <2>2. j \in 1 .. Len(a) + Len(b) /\ j <= Len(a) BY <1>2, <1>3, <1>6
    <2>3. (a \o b)[j] = a[j] BY <2>2, <1>7
    <2>4. a[j] = list[j] BY <2>1, <1>4
    <2>5. j \in 1 .. n /\ j \in 1 .. n - 1 BY <1>2, <1>3
    <2> QED BY <2>3, <2>4, <2>5, <1>1
  <1>10. ASSUME NEW j \in i .. n - 1
         PROVE  rest[j] = list[j + 1] /\ j + 1 \in 1 .. n /\ j \in 1 .. n - 1
    <2>1. j \in Nat /\ j >= i /\ j <= n - 1 BY <1>2, <1>3
    <2>2. j \in 1 .. Len(a) + Len(b) /\ ~(j <= Len(a)) /\ j - Len(a) = j - i + 1
      BY <2>1, <1>2, <1>3, <1>6
    <2>3. (a \o b)[j] = b[j - i + 1] BY <2>2, <1>7
    <2>4. j - i + 1 \in 1 .. n - (i + 1) + 1 /\ i + 1 + (j - i + 1) - 1 = j + 1
      <3>1. n - (i + 1) + 1 = n - i /\ j - i + 1 >= 1 /\ j - i + 1 <= n - i BY <2>1, <1>2, <1>3
      <3>2. i + 1 + (j - i + 1) - 1 = j + 1 BY <2>1, <1>3
      <3>3. j - i + 1 \in Nat /\ n - i \in Nat BY <2>1, <1>2, <1>3
      <3> QED BY <3>1, <3>2, <3>3
    <2>5. b[j - i + 1] = list[j + 1] BY <2>4, <1>5, SMTT(40)
    <2>6. j + 1 \in 1 .. n /\ j \in 1 .. n - 1 BY <2>1, <1>2, <1>3
    <2> QED BY <2>3, <2>5, <2>6, <1>1
  <1>11. \A j \in 1 .. i - 1 : rest[j] = list[j] /\ j \in DOMAIN list /\ j \in DOMAIN rest
    BY <1>2, <1>8, <1>9
  <1>12. \A j \in i .. n - 1 : rest[j] = list[j + 1] /\ j + 1 \in DOMAIN list /\ j \in DOMAIN rest
    BY <1>2, <1>8, <1>10
  <1> QED BY <1>8, <1>11, <1>12 DEF n

\* take_free unlinks one large block, which is then in no list.
LEMMA ListsRemoveLarge ==
    ASSUME NEW h \in HeapRecord, ListsOK(h, {}), NEW i \in DOMAIN h.large,
           NEW new, new = [h EXCEPT !.large = RemoveAt(@, i)]
    PROVE  new \in HeapRecord /\ ListsOK(new, {h.large[i]})
  <1> DEFINE b == h.large[i]
             list == h.large
  <1>0. list \in Seq(Nat) BY DEF HeapRecord
  <1> DEFINE rest == RemoveAt(list, i)
  <1>1. /\ rest \in Seq(Nat) /\ DOMAIN rest = 1 .. Len(list) - 1
        /\ \A j \in 1 .. i - 1 : rest[j] = list[j] /\ j \in DOMAIN list /\ j \in DOMAIN rest
        /\ \A j \in i .. Len(list) - 1 : rest[j] = list[j + 1] /\ j + 1 \in DOMAIN list /\ j \in DOMAIN rest
    BY <1>0, RemovedAt
  <1>2. new = [h EXCEPT !.large = rest] BY DEF HeapRecord
  <1> HIDE DEF rest
  <1>3. new \in HeapRecord /\ new.blocks = h.blocks /\ new.classes = h.classes /\ new.large = rest
    BY <1>1, <1>2 DEF HeapRecord
  <1>4. i \in Nat /\ i >= 1 /\ i <= Len(list) /\ Len(list) \in Nat /\ DOMAIN list = 1 .. Len(list)
    BY <1>0
  <1>5. GoodList(h.blocks, {}, list, Nat \ Small) BY DEF ListsOK
  <1>6. b \in Starts(h) /\ h.blocks[b].size \notin Small /\ \A j \in DOMAIN list : list[j] = b => j = i
    BY <1>5 DEF GoodList, Starts
  <1> HIDE DEF b, list
  <1>7. GoodList(h.blocks, {b}, rest, Nat \ Small)
    <2> DEFINE at(j) == IF j < i THEN j ELSE j + 1
    <2>1. \A j \in DOMAIN rest : at(j) \in DOMAIN list /\ rest[j] = list[at(j)] /\ at(j) # i
      <3> TAKE j \in DOMAIN rest
      <3>1. CASE j < i
        <4>1. j \in 1 .. i - 1 BY <3>1, <1>1, <1>4
        <4> QED BY <4>1, <3>1, <1>1, <1>4
      <3>2. CASE ~(j < i)
        <4>1. j \in i .. Len(list) - 1 BY <3>2, <1>1, <1>4
        <4>2. j + 1 # i BY <4>1, <1>4
        <4> QED BY <4>1, <4>2, <3>2, <1>1
      <3> QED BY <3>1, <3>2
    <2>2. \A j, k \in DOMAIN rest : at(j) = at(k) => j = k
      BY <1>1, <1>4, SMTT(40)
    <2> HIDE DEF at
    <2>3. \A j \in DOMAIN rest : rest[j] # b
      BY <2>1, <1>6 DEF b
    <2> QED BY <2>1, <2>2, <2>3, <1>5 DEF GoodList
  <1>8. \A n \in Small : GoodList(h.blocks, {b}, h.classes[n], {n})
    <2> TAKE n \in Small
    <2>1. GoodList(h.blocks, {}, h.classes[n], {n}) BY DEF ListsOK
    <2> QED BY <2>1, <1>6 DEF GoodList
  <1>9. Complete(new, {b})
    <2> SUFFICES ASSUME NEW c \in Starts(h) \ {b}, ~h.blocks[c].allocated
                 PROVE  \E j \in DOMAIN Listed(new, c) : Listed(new, c)[j] = c
      BY <1>3 DEF Complete, Starts
    <2>1. PICK j \in DOMAIN Listed(h, c) : Listed(h, c)[j] = c
      BY DEF ListsOK, Complete
    <2>2. CASE h.blocks[c].size \in Small
      BY <2>1, <2>2, <1>3 DEF Listed
    <2>3. CASE h.blocks[c].size \notin Small
      <3>1. Listed(h, c) = list /\ Listed(new, c) = rest
        BY <2>3, <1>3 DEF Listed, list
      <3>2. j # i /\ j \in 1 .. Len(list) BY <2>1, <3>1, <1>4 DEF b, list
      <3>3. CASE j < i
        <4>1. j \in 1 .. i - 1 BY <3>3, <3>2, <1>4
        <4>2. j \in DOMAIN rest /\ rest[j] = c BY <4>1, <1>1, <2>1, <3>1
        <4> QED BY <4>2, <3>1
      <3>4. CASE j > i
        <4>1. j - 1 \in i .. Len(list) - 1 /\ (j - 1) + 1 = j BY <3>4, <3>2, <1>4
        <4>2. j - 1 \in DOMAIN rest /\ rest[j - 1] = c BY <4>1, <1>1, <2>1, <3>1
        <4> QED BY <4>2, <3>1
      <3> QED BY <3>2, <3>3, <3>4, <1>4
    <2> QED BY <2>2, <2>3
  <1> QED BY <1>3, <1>7, <1>8, <1>9 DEF ListsOK, b

\* Marking a block allocated that is in no list leaves the lists complete.
LEMMA ListsPlace ==
    ASSUME NEW h \in HeapRecord, NEW b \in Nat, NEW size \in Nat,
           NEW out, out \subseteq {b}, ListsOK(h, out), b \in out \/ b \notin Starts(h),
           NEW new, new = [h EXCEPT !.blocks = With(@, b, Used(size))]
    PROVE  /\ new \in HeapRecord /\ ListsOK(new, {})
           /\ new.blocks = With(h.blocks, b, Used(size))
           /\ new.top = h.top /\ new.budget = h.budget /\ new.live = h.live
           /\ new.pages = h.pages /\ new.stress = h.stress /\ new.trapped = h.trapped
  <1> DEFINE g == With(h.blocks, b, Used(size))
  <1>1. h.blocks \in BlockMaps /\ Used(size) \in BlockRecord
    BY BlockType DEF HeapRecord
  <1>2. g \in BlockMaps BY <1>1, WithType
  <1>3. DOMAIN g = Starts(h) \union {b} /\ g[b] = Used(size)
        /\ \A c \in Starts(h) \ {b} : g[c] = h.blocks[c]
    BY DEF With, Starts
  <1>4. g[b].allocated BY <1>3 DEF Used
  <1>5. new = [h EXCEPT !.blocks = g] BY DEF HeapRecord
  <1> HIDE DEF g
  <1>6. /\ new.blocks = g
        /\ new.top = h.top /\ new.budget = h.budget /\ new.live = h.live
        /\ new.pages = h.pages /\ new.stress = h.stress /\ new.trapped = h.trapped
    BY <1>5 DEF HeapRecord
  <1>7. \A c \in Starts(h) \ out : c # b /\ g[c] = h.blocks[c]
    BY <1>3
  <1>8. \A c \in DOMAIN g \ (Starts(h) \ out) : g[c].allocated \/ c \in {}
    BY <1>3, <1>4
  <1>9. new \in HeapRecord /\ ListsOK(new, {})
    <2>1. Starts(h) \subseteq DOMAIN g BY <1>3
    <2>2. {} \subseteq out \union (DOMAIN g \ Starts(h)) OBVIOUS
    <2>3. \A c \in Starts(h) \ out :
               /\ g[c].allocated = h.blocks[c].allocated
               /\ g[c].size = h.blocks[c].size
                  \/ (g[c].size \notin Small /\ h.blocks[c].size \notin Small)
      BY <1>7
    <2> QED BY <1>2, <1>5, <1>8, <2>1, <2>2, <2>3, ListsOfBlocks
  <1> QED BY <1>6, <1>9 DEF g

\* No block starts inside another.
LEMMA TilesInside ==
    ASSUME NEW f \in BlockMaps, NEW top \in Nat, Tiles(f, top), NEW b \in DOMAIN f,
           NEW rest \in Nat, rest > 0, rest < f[b].size
    PROVE  b + rest \notin DOMAIN f /\ b + rest \in Nat /\ b + rest # b
  <1>1. DOMAIN f \subseteq Nat /\ f[b].size \in Nat
    BY BlockMap DEF BlockRecord
  <1> QED BY <1>1 DEF Tiles

\* The heap once what was taken is allocated; no block is marked between collections; what
\* a step leaves of the blocks it found; and a heap that is as it should be.
Placed(got) == [got.heap EXCEPT !.blocks = With(@, got.block, Used(got.size))]
Unmarked(h) == \A b \in Starts(h) : ~h.blocks[b].marked
Keeps(h, new) ==
    /\ new.top = h.top /\ new.pages = h.pages /\ new.trapped = h.trapped
    /\ \A b \in Starts(h) : b \in Starts(new) /\ (h.blocks[b].allocated => new.blocks[b].allocated)
Sane(h) == h \in HeapRecord /\ Tiles(h.blocks, h.top) /\ ListsOK(h, {}) /\ Unmarked(h)

\* What becomes of a block that is taken whole, and off its list in `c`.
LEMMA PlaceWhole ==
    ASSUME NEW h, Sane(h), NEW b \in Starts(h), NEW c \in HeapRecord, ListsOK(c, {b}),
           c.blocks = h.blocks, c.top = h.top, c.pages = h.pages, c.trapped = h.trapped,
           NEW got, got = Got(c, b, h.blocks[b].size)
    PROVE  /\ Sane(Placed(got)) /\ Keeps(h, Placed(got))
           /\ got.block \in Starts(Placed(got)) /\ Placed(got).blocks[got.block].allocated
           /\ got.block # Null
  <1> DEFINE size == h.blocks[b].size
             new == Placed(got)
             g == With(h.blocks, b, Used(size))
  <1>0. h \in HeapRecord /\ Tiles(h.blocks, h.top) /\ Unmarked(h) BY DEF Sane
  <1>4. b \in Nat /\ size \in Nat
    BY <1>0, BlockMap DEF HeapRecord, BlockRecord, Starts
  <1>5. new = [c EXCEPT !.blocks = With(@, b, Used(size))]
    BY DEF Placed, Got
  <1>6. got.block = b BY DEF Got
  <1> HIDE DEF size, new
  <1>7. /\ new \in HeapRecord /\ ListsOK(new, {}) /\ new.blocks = g
        /\ new.top = h.top /\ new.pages = h.pages /\ new.trapped = h.trapped
    BY <1>4, <1>5, ListsPlace
  <1> HIDE DEF g
  <1>8. /\ DOMAIN g = Starts(h) /\ g[b].size = size /\ g[b].allocated /\ ~g[b].marked
        /\ \A d \in Starts(h) \ {b} : g[d] = h.blocks[d]
    BY DEF g, With, Used, Starts
  <1>9. Tiles(new.blocks, new.top)
    <2>1. h.blocks \in BlockMaps /\ g \in BlockMaps /\ h.top \in Nat
      BY <1>0, <1>7 DEF HeapRecord
    <2>2. \A d \in DOMAIN h.blocks : g[d].size = h.blocks[d].size BY <1>8 DEF size, Starts
    <2>3. Tiles(g, h.top)
      BY <2>1, <2>2, <1>0, <1>8, TilesSameSizes DEF Starts
    <2> QED BY <2>3, <1>7
  <1>10. Unmarked(new) BY <1>0, <1>7, <1>8 DEF Unmarked, Starts
  <1>11. Keeps(h, new) BY <1>7, <1>8 DEF Keeps, Starts
  <1>12. b # Null BY <1>0 DEF Tiles, Start, Null, Starts
  <1> QED BY <1>6, <1>7, <1>8, <1>9, <1>10, <1>11, <1>12 DEF new, Sane, Starts

\* A large block that take_free hands out whole is off its list and allocated.
LEMMA TakeWholeLarge ==
    ASSUME NEW h, Sane(h), NEW i \in DOMAIN h.large,
           NEW got, got = Got([h EXCEPT !.large = RemoveAt(@, i)], h.large[i], h.blocks[h.large[i]].size)
    PROVE  /\ Sane(Placed(got)) /\ Keeps(h, Placed(got))
           /\ got.block \in Starts(Placed(got)) /\ Placed(got).blocks[got.block].allocated
           /\ got.block # Null
  <1> DEFINE b == h.large[i]
             c == [h EXCEPT !.large = RemoveAt(@, i)]
  <1>0. h \in HeapRecord /\ ListsOK(h, {}) BY DEF Sane
  <1>1. c \in HeapRecord /\ ListsOK(c, {b})
    BY <1>0, ListsRemoveLarge
  <1>2. c.blocks = h.blocks /\ c.top = h.top /\ c.pages = h.pages /\ c.trapped = h.trapped
    BY <1>0 DEF HeapRecord
  <1>3. b \in Starts(h) BY <1>0 DEF ListsOK, GoodList, Starts
  <1>4. got = Got(c, b, h.blocks[b].size) OBVIOUS
  <1> HIDE DEF b, c
  <1> QED BY <1>1, <1>2, <1>3, <1>4, PlaceWhole

\* The first block of the list of a size, and the heap without it there.
OffSmall(h, size) == [h EXCEPT !.classes[size] = Tail(@)]
TakenSmall(h, size, b, new) ==
    /\ b \in Starts(h) /\ h.blocks[b].size = size
    /\ new \in HeapRecord /\ ListsOK(new, {b})
    /\ new.blocks = h.blocks /\ new.top = h.top /\ new.pages = h.pages
    /\ new.trapped = h.trapped

\* The first block of a small class leaves its list and no other.
LEMMA ListsTakeSmall ==
    ASSUME NEW h \in HeapRecord, ListsOK(h, {}), NEW size \in Small, h.classes[size] # <<>>
    PROVE  TakenSmall(h, size, Head(h.classes[size]), OffSmall(h, size))
  <1> SUFFICES ASSUME NEW b, b = Head(h.classes[size]),
                      NEW new, new = [h EXCEPT !.classes[size] = Tail(@)]
               PROVE  TakenSmall(h, size, b, new)
    BY DEF OffSmall
  <1> DEFINE list == h.classes[size]
             rest == Tail(list)
  <1>0. list \in Seq(Nat) /\ list # <<>> BY DEF HeapRecord
  <1>1. /\ rest \in Seq(Nat) /\ b = list[1] /\ 1 \in DOMAIN list
        /\ \A i \in DOMAIN rest : rest[i] = list[i + 1] /\ i + 1 \in DOMAIN list /\ i \in Nat /\ i + 1 # 1
        /\ \A i \in DOMAIN list : i # 1 => i - 1 \in DOMAIN rest /\ rest[i - 1] = list[i] /\ i \in Nat
    <2>0. b = Head(list) OBVIOUS
    <2> HIDE DEF list
    <2>1. Len(list) \in Nat /\ Len(list) > 0 /\ DOMAIN list = 1 .. Len(list) /\ b = list[1]
      BY <1>0, <2>0
    <2>2. rest \in Seq(Nat) /\ Len(rest) = Len(list) - 1 BY <1>0
    <2>3. \A i \in 1 .. Len(list) - 1 : rest[i] = list[i + 1] BY <1>0
    <2> HIDE DEF rest
    <2>4. DOMAIN rest = 1 .. Len(list) - 1 BY <2>1, <2>2
    <2>5. \A i \in DOMAIN list : i # 1 => i - 1 \in DOMAIN rest /\ rest[i - 1] = list[i] /\ i \in Nat
      <3> TAKE i \in DOMAIN list
      <3> HAVE i # 1
      <3>1. i - 1 \in 1 .. Len(list) - 1 /\ (i - 1) + 1 = i /\ i \in Nat BY <2>1
      <3> QED BY <3>1, <2>3, <2>4
    <2> QED BY <2>1, <2>2, <2>3, <2>4, <2>5
  <1>2. new = [h EXCEPT !.classes = [h.classes EXCEPT ![size] = rest]] BY DEF HeapRecord
  <1> HIDE DEF list, rest
  <1>3. [h.classes EXCEPT ![size] = rest] \in [Small -> Seq(Nat)] BY <1>1 DEF HeapRecord
  <1>4. /\ new \in HeapRecord /\ new.blocks = h.blocks /\ new.large = h.large
        /\ new.classes = [h.classes EXCEPT ![size] = rest]
        /\ new.top = h.top /\ new.pages = h.pages /\ new.trapped = h.trapped
    BY <1>2, <1>3 DEF HeapRecord
  <1>5. new.classes[size] = rest /\ \A n \in Small \ {size} : new.classes[n] = h.classes[n]
    BY <1>4 DEF HeapRecord
  <1>6. \A n \in Small : GoodList(h.blocks, {}, h.classes[n], {n}) BY DEF ListsOK
  <1>7. GoodList(h.blocks, {}, list, {size}) BY <1>6 DEF list
  <1>8. b \in Starts(h) /\ h.blocks[b].size = size
    BY <1>1, <1>7 DEF GoodList, Starts
  <1>9. GoodList(h.blocks, {b}, rest, {size})
    <2>1. \A i \in DOMAIN rest : rest[i] # b BY <1>1, <1>7 DEF GoodList
    <2>2. \A i, j \in DOMAIN rest : rest[i] = rest[j] => i = j
      <3> TAKE i, j \in DOMAIN rest
      <3>1. rest[i] = list[i + 1] /\ rest[j] = list[j + 1] /\ i + 1 \in DOMAIN list
            /\ j + 1 \in DOMAIN list /\ i \in Nat /\ j \in Nat
        BY <1>1
      <3>2. list[i + 1] = list[j + 1] => i + 1 = j + 1 BY <3>1, <1>7 DEF GoodList
      <3> QED BY <3>1, <3>2
    <2> QED BY <2>1, <2>2, <1>1, <1>7 DEF GoodList
  <1>10. \A n \in Small \ {size} : GoodList(h.blocks, {b}, h.classes[n], {n})
    BY <1>6, <1>8 DEF GoodList
  <1>11. GoodList(h.blocks, {b}, h.large, Nat \ Small)
    <2>1. GoodList(h.blocks, {}, h.large, Nat \ Small) BY DEF ListsOK
    <2> QED BY <2>1, <1>8 DEF GoodList
  <1>12. Complete(new, {b})
    <2> SUFFICES ASSUME NEW c \in Starts(h) \ {b}, ~h.blocks[c].allocated
                 PROVE  \E j \in DOMAIN Listed(new, c) : Listed(new, c)[j] = c
      BY <1>4 DEF Complete, Starts
    <2>1. PICK j \in DOMAIN Listed(h, c) : Listed(h, c)[j] = c
      BY DEF ListsOK, Complete
    <2>2. CASE h.blocks[c].size = size
      <3>1. Listed(h, c) = list /\ Listed(new, c) = rest
        BY <2>2, <1>4, <1>5 DEF Listed, list
      <3>2. j # 1 BY <2>1, <3>1, <1>1
      <3>3. j - 1 \in DOMAIN rest /\ rest[j - 1] = c BY <2>1, <3>1, <3>2, <1>1
      <3> QED BY <3>1, <3>3
    <2>3. CASE h.blocks[c].size # size
      <3>1. Listed(new, c) = Listed(h, c) BY <2>3, <1>4, <1>5 DEF Listed
      <3> QED BY <3>1, <2>1
    <2> QED BY <2>2, <2>3
  <1>13. \A n \in Small : GoodList(new.blocks, {b}, new.classes[n], {n})
    BY <1>4, <1>5, <1>9, <1>10
  <1> QED BY <1>4, <1>8, <1>11, <1>12, <1>13 DEF ListsOK, TakenSmall

\* Shrinking a block changes its size and nothing else.
LEMMA ResizedBlock ==
    ASSUME NEW f \in BlockMaps, NEW b \in DOMAIN f, NEW size \in Nat,
           NEW g, g = [f EXCEPT ![b].size = size]
    PROVE  /\ g \in BlockMaps /\ DOMAIN g = DOMAIN f
           /\ g[b].size = size /\ g[b].allocated = f[b].allocated /\ g[b].marked = f[b].marked
           /\ \A c \in DOMAIN f \ {b} : g[c] = f[c]
  <1>1. f \in [DOMAIN f -> BlockRecord] /\ DOMAIN f \subseteq Nat BY BlockMap
  <1>2. [f[b] EXCEPT !.size = size] \in BlockRecord /\ f[b] \in BlockRecord
    BY <1>1 DEF BlockRecord
  <1>3. g = [f EXCEPT ![b] = [f[b] EXCEPT !.size = size]] OBVIOUS
  <1>4. DOMAIN g = DOMAIN f /\ g[b] = [f[b] EXCEPT !.size = size] /\ \A c \in DOMAIN f \ {b} : g[c] = f[c]
    BY <1>1, <1>3
  <1>5. g[b].size = size /\ g[b].allocated = f[b].allocated /\ g[b].marked = f[b].marked
    BY <1>2, <1>4 DEF BlockRecord
  <1>6. g \in [DOMAIN g -> BlockRecord] BY <1>1, <1>2, <1>3
  <1> QED BY <1>1, <1>4, <1>5, <1>6, BlockMap

\* What is carved off the end of a free block of `h`, in `c` where the block has the rest.
LEMMA PlaceCarved ==
    ASSUME NEW h, Sane(h), NEW b \in Starts(h), ~h.blocks[b].allocated,
           NEW rest \in Nat, NEW size \in Nat, rest >= Header, size >= Header,
           h.blocks[b].size = rest + size,
           NEW c \in HeapRecord, ListsOK(c, {}), Starts(c) = Starts(h),
           c.blocks[b].size = rest, ~c.blocks[b].marked,
           \A d \in Starts(h) \ {b} : c.blocks[d] = h.blocks[d],
           c.top = h.top, c.pages = h.pages, c.trapped = h.trapped,
           NEW got, got = Got(c, b + rest, size)
    PROVE  /\ Sane(Placed(got)) /\ Keeps(h, Placed(got))
           /\ got.block \in Starts(Placed(got)) /\ Placed(got).blocks[got.block].allocated
           /\ got.block # Null
  <1> DEFINE new == Placed(got)
             at == b + rest
             g == With(c.blocks, at, Used(size))
  <1>0. h \in HeapRecord /\ Tiles(h.blocks, h.top) /\ Unmarked(h) /\ h.blocks \in BlockMaps /\ h.top \in Nat
    BY DEF Sane, HeapRecord
  <1>a. Header \in Nat /\ Header > 0 BY HeaderType
  <1>1. at \notin Starts(c) /\ at \in Nat /\ at # b
    <2>1. rest > 0 /\ rest < h.blocks[b].size BY <1>a
    <2> QED BY <2>1, <1>0, TilesInside DEF Starts
  <1>2. new = [c EXCEPT !.blocks = With(@, at, Used(size))] /\ got.block = at
    BY DEF Placed, Got
  <1> HIDE DEF at, new
  <1>3. /\ new \in HeapRecord /\ ListsOK(new, {}) /\ new.blocks = g
        /\ new.top = h.top /\ new.pages = h.pages /\ new.trapped = h.trapped
    BY <1>1, <1>2, ListsPlace
  <1>4. /\ DOMAIN g = Starts(h) \union {at} /\ g[at].size = size /\ g[at].allocated /\ ~g[at].marked
        /\ \A d \in Starts(h) : g[d] = c.blocks[d]
    BY <1>1 DEF With, Used, Starts
  <1> HIDE DEF g
  <1>5. Tiles(g, h.top)
    <2>1. g \in BlockMaps BY <1>3 DEF HeapRecord
    <2>2. g[b].size = rest BY <1>4
    <2>3. \A d \in DOMAIN h.blocks \ {b} : g[d].size = h.blocks[d].size BY <1>4 DEF Starts
    <2>4. DOMAIN g = DOMAIN h.blocks \union {b + rest} /\ g[b + rest].size = size BY <1>4 DEF at, Starts
    <2>5. b \in DOMAIN h.blocks /\ h.blocks[b].size = rest + size BY DEF Starts
    <2> QED BY <2>1, <2>2, <2>3, <2>4, <2>5, <1>0, TilesSplit, ZenonT(60)
  <1>6. Unmarked(new) BY <1>0, <1>3, <1>4 DEF Unmarked, Starts
  <1>7. Keeps(h, new)
    <2>1. \A d \in Starts(h) : h.blocks[d].allocated => g[d].allocated BY <1>4
    <2> QED BY <2>1, <1>3, <1>4 DEF Keeps, Starts
  <1>8. at # Null
    <2>1. b >= Start /\ b \in Nat BY <1>0, BlockMap DEF Tiles, Starts
    <2> QED BY <2>1 DEF at, Start, Null
  <1> QED BY <1>2, <1>3, <1>4, <1>5, <1>6, <1>7, <1>8 DEF new, Sane, Starts

\* take_free serves a request from a large block: whole, or from its end, the rest staying
\* listed by its size.
LEMMA TakeLargeSane ==
    ASSUME NEW h, Sane(h), NEW i \in DOMAIN h.large, NEW size \in Nat, size >= Header,
           h.blocks[h.large[i]].size >= size, NEW got, got = TakeLarge(h, i, size)
    PROVE  /\ Sane(Placed(got)) /\ Keeps(h, Placed(got))
           /\ got.block \in Starts(Placed(got)) /\ Placed(got).blocks[got.block].allocated
           /\ got.block # Null
  <1> DEFINE b == h.large[i]
             f == h.blocks
             available == f[b].size
             rest == available - size
             out == [h EXCEPT !.large = RemoveAt(@, i)]
  <1>0. h \in HeapRecord /\ ListsOK(h, {}) /\ Tiles(h.blocks, h.top) /\ Unmarked(h) /\ f \in BlockMaps
    BY DEF Sane, HeapRecord
  <1>1. b \in Starts(h) /\ ~f[b].allocated /\ available \notin Small
    BY <1>0 DEF ListsOK, GoodList, Starts
  <1>2. b \in Nat /\ available \in Nat /\ rest \in Nat /\ available = rest + size
    BY <1>0, <1>1, BlockMap DEF BlockRecord, Starts
  <1>3. Header \in Nat /\ SmallLimit \in Nat /\ Header < SmallLimit /\ Small = Header .. SmallLimit - 1
    BY HeaderType
  <1>4. out \in HeapRecord /\ ListsOK(out, {b}) BY <1>0, ListsRemoveLarge
  <1>5. /\ out.blocks = f /\ out.top = h.top /\ out.pages = h.pages /\ out.trapped = h.trapped
    BY <1>0 DEF HeapRecord
  <1> HIDE DEF b, rest
  <1> DEFINE g == [f EXCEPT ![b].size = rest]
  <1>6. /\ g \in BlockMaps /\ DOMAIN g = Starts(h) /\ g[b].size = rest
        /\ g[b].allocated = f[b].allocated /\ g[b].marked = f[b].marked
        /\ \A c \in Starts(h) \ {b} : g[c] = f[c]
    BY <1>0, <1>1, <1>2, ResizedBlock DEF Starts
  <1>7. CASE rest < Header
    <2>1. ~StaysLarge(rest) BY <1>7, <1>3, <1>2 DEF StaysLarge
    <2>2. got = Got(out, b, available)
      BY <2>1, <1>7 DEF TakeLarge, b, rest
    <2> QED BY <2>2, TakeWholeLarge DEF b
  <1>8. CASE rest >= Header /\ rest < SmallLimit
    <2> DEFINE carved == [out EXCEPT !.blocks[b].size = rest]
               pushed == PushFree(carved, b, rest)
    <2>1. got = Got(pushed, b + rest, size)
      <3>1. ~StaysLarge(rest) /\ ~(rest < Header) BY <1>8, <1>3, <1>2 DEF StaysLarge
      <3> QED BY <3>1, <1>8 DEF TakeLarge, b, rest
    <2>2. carved = [out EXCEPT !.blocks = g] BY <1>4, <1>5 DEF HeapRecord
    <2> HIDE DEF carved, g, out, pushed
    <2>3. carved \in HeapRecord /\ ListsOK(carved, {b})
      <3>1. {b} \subseteq {b} \union (DOMAIN g \ Starts(out)) OBVIOUS
      <3>2. Starts(out) = Starts(h) BY <1>5 DEF Starts
      <3>3. \A c \in Starts(out) \ {b} :
               /\ g[c].allocated = out.blocks[c].allocated
               /\ g[c].size = out.blocks[c].size
                  \/ (g[c].size \notin Small /\ out.blocks[c].size \notin Small)
        BY <1>5, <1>6, <3>2
      <3>4. \A c \in DOMAIN g \ (Starts(out) \ {b}) : g[c].allocated \/ c \in {b} BY <3>2, <1>6
      <3> QED BY <3>1, <3>2, <3>3, <3>4, <1>4, <1>6, <2>2, ListsOfBlocks
    <2>4. carved.blocks = g /\ carved.top = h.top /\ carved.pages = h.pages /\ carved.trapped = h.trapped
      BY <2>2, <1>4, <1>5 DEF HeapRecord
    <2>5. /\ pushed \in HeapRecord
          /\ Starts(pushed) = Starts(carved) \union {b}
          /\ pushed.blocks[b].size = rest /\ ~pushed.blocks[b].marked
          /\ \A c \in Starts(carved) \ {b} : pushed.blocks[c] = carved.blocks[c]
          /\ pushed.top = carved.top /\ pushed.pages = carved.pages /\ pushed.trapped = carved.trapped
      <3>1. pushed = PushFree(carved, b, rest) BY DEF pushed
      <3>2. carved \in HeapRecord /\ b \in Nat /\ rest \in Nat BY <2>3, <1>2
      <3>3. PushedBlocks(carved, b, rest, pushed) BY <3>1, <3>2, PushFreeBlocks
      <3> QED BY <3>3 DEF PushedBlocks
    <2>6. ListsOK(pushed, {})
      <3>1. ListsOK(pushed, {b} \ {b}) BY <2>3, <1>2, ListsPush DEF pushed
      <3>2. {b} \ {b} = {} OBVIOUS
      <3> QED BY <3>1, <3>2
    <2>7. Starts(pushed) = Starts(h) /\ pushed.blocks[b].size = rest /\ ~pushed.blocks[b].marked
          /\ \A d \in Starts(h) \ {b} : pushed.blocks[d] = h.blocks[d]
      BY <2>4, <2>5, <1>1, <1>6 DEF Starts
    <2>10. pushed.top = h.top /\ pushed.pages = h.pages /\ pushed.trapped = h.trapped
      BY <2>4, <2>5
    <2>8. ~h.blocks[b].allocated /\ h.blocks[b].size = rest + size BY <1>1, <1>2
    <2>9. rest \in Nat /\ rest >= Header BY <1>2, <1>8
    <2> QED BY <2>1, <2>5, <2>6, <2>7, <2>10, <2>8, <2>9, <1>1, PlaceCarved
  <1>9. CASE rest >= SmallLimit
    <2> DEFINE carved == [h EXCEPT !.blocks[b].size = rest]
    <2>1. got = Got(carved, b + rest, size)
      <3>1. StaysLarge(rest) /\ ~(rest < Header) /\ ~(rest < SmallLimit)
        BY <1>9, <1>3, <1>2 DEF StaysLarge
      <3> QED BY <3>1 DEF TakeLarge, b, rest
    <2>2. carved = [h EXCEPT !.blocks = g] BY <1>0 DEF HeapRecord
    <2> HIDE DEF carved, g
    <2>3. carved \in HeapRecord /\ ListsOK(carved, {})
      <3>1. {} \subseteq {} \union (DOMAIN g \ Starts(h)) OBVIOUS
      <3>0. rest \notin Small BY <1>9, <1>3, <1>2
      <3>3. \A c \in Starts(h) \ {} :
               /\ g[c].allocated = h.blocks[c].allocated
               /\ g[c].size = h.blocks[c].size
                  \/ (g[c].size \notin Small /\ h.blocks[c].size \notin Small)
        BY <1>1, <1>6, <3>0
      <3>4. \A c \in DOMAIN g \ (Starts(h) \ {}) : g[c].allocated \/ c \in {} BY <1>6
      <3> QED BY <3>1, <3>3, <3>4, <1>0, <1>6, <2>2, ListsOfBlocks
    <2>4. carved.blocks = g /\ carved.top = h.top /\ carved.pages = h.pages /\ carved.trapped = h.trapped
      BY <2>2, <1>0 DEF HeapRecord
    <2>5. ~carved.blocks[b].marked BY <2>4, <1>0, <1>1, <1>6 DEF Unmarked
    <2>6. rest >= Header BY <1>9, <1>3, <1>2
    <2>7. Starts(carved) = Starts(h) BY <2>4, <1>6 DEF Starts
    <2>8. ~h.blocks[b].allocated /\ h.blocks[b].size = rest + size BY <1>1, <1>2
    <2>9. rest \in Nat /\ carved.blocks[b].size = rest
          /\ \A d \in Starts(h) \ {b} : carved.blocks[d] = h.blocks[d]
      BY <2>4, <1>2, <1>6
    <2> QED BY <2>1, <2>3, <2>4, <2>5, <2>6, <2>7, <2>8, <2>9, <1>1, PlaceCarved
  <1> QED BY <1>7, <1>8, <1>9, <1>3, <1>2

\* take_free finds nothing, or a block that was free.
LEMMA TakeFreeSane ==
    ASSUME NEW h, Sane(h), NEW size \in Nat, size >= Header, NEW got, got = TakeFree(h, size)
    PROVE  /\ got.block = Null => got.heap = h
           /\ got.block # Null =>
                 /\ Sane(Placed(got)) /\ Keeps(h, Placed(got))
                 /\ got.block \in Starts(Placed(got)) /\ Placed(got).blocks[got.block].allocated
  <1> DEFINE fitting == {i \in DOMAIN h.large : h.blocks[h.large[i]].size >= size}
             first == CHOOSE i \in fitting : \A j \in fitting : i <= j
  <1>0. h \in HeapRecord /\ ListsOK(h, {}) /\ Tiles(h.blocks, h.top) BY DEF Sane
  <1>1. CASE size \in Small /\ h.classes[size] # <<>>
    <2> DEFINE b == Head(h.classes[size])
               c == OffSmall(h, size)
    <2>1. got = Got(c, b, size) BY <1>1 DEF TakeFree, OffSmall
    <2>2. TakenSmall(h, size, b, c) BY <1>0, <1>1, ListsTakeSmall
    <2> HIDE DEF b, c
    <2>3. /\ b \in Starts(h) /\ h.blocks[b].size = size
          /\ c \in HeapRecord /\ ListsOK(c, {b})
          /\ c.blocks = h.blocks /\ c.top = h.top /\ c.pages = h.pages
          /\ c.trapped = h.trapped
      BY <2>2 DEF TakenSmall
    <2> QED BY <2>1, <2>3, PlaceWhole
  <1>2. CASE ~(size \in Small /\ h.classes[size] # <<>>) /\ fitting = {}
    <2>1. got = Got(h, Null, size) BY <1>2 DEF TakeFree
    <2> QED BY <2>1 DEF Got
  <1>3. CASE ~(size \in Small /\ h.classes[size] # <<>>) /\ fitting # {}
    <2>1. got = TakeLarge(h, first, size) BY <1>3 DEF TakeFree
    <2>2. fitting \subseteq Nat BY <1>0 DEF HeapRecord
    <2>3. \E i \in fitting : \A j \in fitting : i <= j BY <2>2, <1>3, Smallest
    <2>4. first \in fitting BY <2>3
    <2> HIDE DEF first
    <2>5. first \in DOMAIN h.large /\ h.blocks[h.large[first]].size >= size BY <2>4
    <2> QED BY <2>1, <2>5, TakeLargeSane
  <1> QED BY <1>1, <1>2, <1>3

----------------------------------------------------------------------------
\* Before the first block.
Swept0(h) == [heap |-> Cleared(h), run |-> 0, start |-> Null]

\* The function of the sweep is the one its recursive definition says: one exists up
\* to every address.
LEMMA SweepingSteps ==
    ASSUME NEW h, h.top \in Nat, h.top >= 1
    PROVE  /\ Sweeping(h)[0] = Swept0(h)
           /\ \A b \in 1 .. h.top - 1 : Sweeping(h)[b] = Swept(h, Sweeping(h)[b - 1], b)
  <1> DEFINE N == h.top - 1
             base == Swept0(h)
             Rec(f, n) == f = [b \in 0 .. n |-> IF b = 0 THEN base ELSE Swept(h, f[b - 1], b)]
             T == {n \in 0 .. N : \E f : Rec(f, n)}
  <1>0. N \in Nat OBVIOUS
  <1>9. Sweeping(h) = CHOOSE f : f = [b \in 0 .. h.top - 1 |->
            IF b = 0 THEN [heap |-> Cleared(h), run |-> 0, start |-> Null] ELSE Swept(h, f[b - 1], b)]
    BY DEF Sweeping
  <1>1. Sweeping(h) = CHOOSE f : Rec(f, N)
    BY <1>9 DEF Swept0
  <1> HIDE DEF N, base
  <1>2. 0 \in T
    <2> DEFINE g == [b \in 0 .. 0 |-> base]
    <2>1. Rec(g, 0)
      <3>1. \A b \in 0 .. 0 : b = 0 OBVIOUS
      <3> QED BY <3>1
    <2>2. \E f : Rec(f, 0) BY <2>1
    <2>3. 0 \in 0 .. N BY <1>0
    <2> HIDE DEF Rec
    <2> QED BY <2>2, <2>3
  <1>3. ASSUME NEW n \in 0 .. N - 1, n \in T PROVE n + 1 \in T
    <2>1. PICK f : Rec(f, n) BY <1>3
    <2> DEFINE g == [b \in 0 .. n + 1 |-> IF b = n + 1 THEN Swept(h, f[n], n + 1) ELSE f[b]]
    <2>2. n \in Nat /\ n + 1 \in 0 .. N BY <1>0
    <2>3. \A b \in 0 .. n : f[b] = IF b = 0 THEN base ELSE Swept(h, f[b - 1], b)
      BY <2>1
    <2>4. \A b \in 0 .. n : g[b] = f[b] BY <2>2
    <2>5. g[n + 1] = Swept(h, f[n], n + 1) BY <2>2
    <2> HIDE DEF g
    <2>6. \A b \in 0 .. n + 1 : g[b] = IF b = 0 THEN base ELSE Swept(h, g[b - 1], b)
      <3> TAKE b \in 0 .. n + 1
      <3>1. CASE b = 0 BY <3>1, <2>2, <2>3, <2>4
      <3>2. CASE b \in 1 .. n
        <4>1. b \in 0 .. n /\ b - 1 \in 0 .. n /\ b # 0 BY <3>2, <2>2
        <4> QED BY <4>1, <2>3, <2>4
      <3>3. CASE b = n + 1
        <4>1. b # 0 /\ b - 1 = n /\ n \in 0 .. n BY <3>3, <2>2
        <4> QED BY <4>1, <3>3, <2>4, <2>5
      <3> QED BY <3>1, <3>2, <3>3, <2>2
    <2>7. g = [b \in 0 .. n + 1 |-> g[b]] BY DEF g
    <2>8. Rec(g, n + 1) BY <2>6, <2>7
    <2> QED BY <2>2, <2>8
  <1>4. N \in T
    <2>1. \A n \in 0 .. N - 1 : n \in T => n + 1 \in T BY <1>3
    <2> HIDE DEF T
    <2>2. 0 .. N \subseteq T BY <1>0, <1>2, <2>1, UpTo
    <2> QED BY <2>2, <1>0
  <1>5. Rec(Sweeping(h), N) BY <1>1, <1>4
  <1> DEFINE F == Sweeping(h)
  <1> HIDE DEF F
  <1>6. F = [b \in 0 .. N |-> IF b = 0 THEN base ELSE Swept(h, F[b - 1], b)]
    BY <1>5 DEF F
  <1>7. \A b \in 0 .. N : F[b] = IF b = 0 THEN base ELSE Swept(h, F[b - 1], b)
    BY <1>6
  <1>8. F[0] = base /\ \A b \in 1 .. N : F[b] = Swept(h, F[b - 1], b)
    BY <1>0, <1>7
  <1> QED BY <1>8 DEF F, N, base

\* Where the sweep of `h` is once it has been past address `b`: all blocks that start
\* there or before end at `e`, and the run under way, if there is one, does too.
SweepRecord == [heap : HeapRecord, run : Nat, start : Nat]
Behind(s, e) == IF s.run = 0 THEN e ELSE s.start
SweepAt(h, s, b, e) ==
    /\ s \in SweepRecord
    /\ e \in Starts(h) \union {h.top} /\ b < e /\ \A c \in Starts(h) : b < c => e <= c
    /\ s.run # 0 => s.run >= Header /\ s.start >= Start /\ s.start + s.run = e
    /\ Tiles(s.heap.blocks, Behind(s, e)) /\ ListsOK(s.heap, {}) /\ Unmarked(s.heap)
    /\ s.heap.top = h.top /\ s.heap.pages = h.pages /\ s.heap.stress = h.stress /\ ~s.heap.trapped
    /\ \A c \in Starts(h) : c <= b /\ h.blocks[c].allocated /\ h.blocks[c].marked =>
           c \in Starts(s.heap) /\ s.heap.blocks[c].allocated

\* Ending a run of free blocks puts it, as one block, in the list of its size.
LEMMA FlushedAt ==
    ASSUME NEW h, h \in HeapRecord, NEW s, NEW b \in Nat, NEW e, SweepAt(h, s, b, e)
    PROVE  SweepAt(h, Flushed(s), b, e) /\ Flushed(s).run = 0
  <1>0. s \in SweepRecord /\ s.heap \in HeapRecord /\ s.run \in Nat /\ s.start \in Nat
    BY DEF SweepAt, SweepRecord
  <1>1. CASE s.run = 0
    BY <1>1 DEF Flushed
  <1>2. CASE s.run # 0
    <2> DEFINE p == PushFree(s.heap, s.start, s.run)
               f == Flushed(s)
    <2>1. f = [s EXCEPT !.heap = p, !.run = 0]
      BY <1>2, <1>0 DEF Flushed, SweepRecord
    <2>2. Pushed(s.heap, s.start, s.run, p) /\ PushedBlocks(s.heap, s.start, s.run, p)
      BY <1>0, PushFreeType, PushFreeBlocks
    <2>3. Tiles(s.heap.blocks, s.start) /\ s.run >= Header /\ s.start >= Start /\ s.start + s.run = e
      BY <1>2 DEF SweepAt, Behind
    <2>4. \A c \in Starts(s.heap) : c < s.start
      <3>1. s.heap.blocks \in BlockMaps BY <1>0 DEF HeapRecord
      <3> QED BY <3>1, <2>3, <1>0, TilesBelow DEF Starts
    <2>5. s.start \notin Starts(s.heap) BY <2>4, <1>0
    <2>6. ListsOK(p, {})
      <3>1. ListsOK(s.heap, {}) BY DEF SweepAt
      <3>2. ListsOK(p, {} \ {s.start}) BY <3>1, <2>5, <1>0, ListsPush
      <3>3. {} \ {s.start} = {} OBVIOUS
      <3> QED BY <3>2, <3>3
    <2> HIDE DEF p, f
    <2>7. p \in HeapRecord /\ p.blocks = With(s.heap.blocks, s.start, Free(s.run)) BY <2>2 DEF Pushed
    <2>8. f \in SweepRecord /\ f.heap = p /\ f.run = 0
      BY <1>0, <2>1, <2>7 DEF SweepRecord
    <2>9. Tiles(p.blocks, e)
      <3> DEFINE r == Free(s.run)
      <3>1. r \in BlockRecord /\ r.size = s.run
        BY <1>0, BlockType DEF Free
      <3> HIDE DEF r
      <3>2. s.heap.blocks \in BlockMaps BY <1>0 DEF HeapRecord
      <3>3. Tiles(With(s.heap.blocks, s.start, r), s.start + r.size)
        BY <3>1, <3>2, <2>3, <1>0, TilesGrow
      <3> QED BY <3>1, <3>3, <2>3, <2>7 DEF r
    <2>10. /\ Starts(p) = Starts(s.heap) \union {s.start} /\ ~p.blocks[s.start].marked
           /\ \A c \in Starts(s.heap) : p.blocks[c] = s.heap.blocks[c]
           /\ p.top = s.heap.top /\ p.pages = s.heap.pages /\ p.stress = s.heap.stress
           /\ p.trapped = s.heap.trapped
      BY <2>2, <2>5 DEF PushedBlocks
    <2>11. Unmarked(p) BY <2>10 DEF Unmarked, SweepAt
    <2>12. \A c \in Starts(h) : c <= b /\ h.blocks[c].allocated /\ h.blocks[c].marked =>
             c \in Starts(p) /\ p.blocks[c].allocated
      BY <2>10 DEF SweepAt
    <2>13. Behind(f, e) = e BY <2>8 DEF Behind
    <2>14. p.top = h.top /\ p.pages = h.pages /\ p.stress = h.stress /\ ~p.trapped
      BY <2>10 DEF SweepAt
    <2>15. SweepAt(h, f, b, e)
      BY <2>6, <2>8, <2>9, <2>11, <2>12, <2>13, <2>14 DEF SweepAt
    <2> QED BY <2>8, <2>15 DEF f
  <1> QED BY <1>1, <1>2

\* The lists are right whatever the other fields of the heap say.
LEMMA ListsSame ==
    ASSUME NEW h, NEW new, ListsOK(h, {}),
           new.blocks = h.blocks, new.classes = h.classes, new.large = h.large
    PROVE  ListsOK(new, {})
  <1>1. Starts(new) = Starts(h) /\ \A b : Listed(new, b) = Listed(h, b)
    BY DEF Starts, Listed
  <1>2. Complete(h, {}) BY DEF ListsOK
  <1>3. Complete(new, {}) BY <1>1, <1>2 DEF Complete
  <1> QED BY <1>3 DEF ListsOK

\* The next block ends where the one after it starts.
LEMMA NextEnd ==
    ASSUME NEW h \in HeapRecord, Tiles(h.blocks, h.top), NEW b \in Starts(h),
           NEW end, end = b + h.blocks[b].size
    PROVE  /\ b \in Nat /\ h.blocks[b].size \in Nat /\ h.blocks[b].size >= Header /\ b >= Start
           /\ end \in Nat /\ end \in Starts(h) \union {h.top} /\ b < end
           /\ \A c \in Starts(h) : b < c => end <= c
  <1>1. b \in Nat /\ h.blocks[b].size \in Nat
    BY BlockMap DEF HeapRecord, BlockRecord, Starts
  <1>2. Header \in Nat /\ Header > 0 BY HeaderType
  <1> QED BY <1>1, <1>2 DEF Tiles, Starts

\* The sweep goes past a marked block: the run before it ends, and it stays allocated.
LEMMA KeptAt ==
    ASSUME NEW h \in HeapRecord, Tiles(h.blocks, h.top), NEW b \in Starts(h),
           NEW before \in Nat, before + 1 = b, NEW s, SweepAt(h, s, before, b),
           NEW size, size = h.blocks[b].size
    PROVE  SweepAt(h, Kept(s, b, size), b, b + size)
  <1> DEFINE f == Flushed(s)
             new == Kept(s, b, size)
             live == [f.heap EXCEPT !.live = @ + size]
             placed == [live EXCEPT !.blocks = With(@, b, Used(size))]
             end == b + size
  <1>1. /\ b \in Nat /\ size \in Nat /\ size >= Header /\ b >= Start
        /\ end \in Nat /\ end \in Starts(h) \union {h.top} /\ b < end
        /\ \A c \in Starts(h) : b < c => end <= c
    BY NextEnd
  <1>2. SweepAt(h, f, before, b) /\ f.run = 0
    BY FlushedAt
  <1>3. f \in SweepRecord /\ f.heap \in HeapRecord /\ Tiles(f.heap.blocks, b) /\ ListsOK(f.heap, {})
    BY <1>2 DEF SweepAt, SweepRecord, Behind
  <1>4. new = [f EXCEPT !.heap.live = @ + size, !.heap.blocks = With(@, b, Used(size))]
    BY DEF Kept
  <1> HIDE DEF f, new
  <1>5. new = [f EXCEPT !.heap = placed]
    <2> DEFINE g == f.heap
               w == With(g.blocks, b, Used(size))
    <2>1. new = [f EXCEPT !.heap = [[g EXCEPT !.live = @ + size] EXCEPT !.blocks = w]]
      <3>1. g \in HeapRecord /\ [g EXCEPT !.live = @ + size].blocks = g.blocks
        BY <1>3 DEF HeapRecord
      <3>2. new = [[f EXCEPT !.heap = [g EXCEPT !.live = @ + size]]
                      EXCEPT !.heap = [[g EXCEPT !.live = @ + size] EXCEPT !.blocks = w]]
        BY <3>1, <1>3, <1>4 DEF SweepRecord
      <3> HIDE DEF g, w
      <3> QED BY <3>2, <1>3 DEF SweepRecord
    <2>2. [g EXCEPT !.live = @ + size].blocks = g.blocks BY <1>3 DEF HeapRecord
    <2> QED BY <2>1, <2>2
  <1>6. /\ live \in HeapRecord /\ live.blocks = f.heap.blocks /\ live.classes = f.heap.classes
        /\ live.large = f.heap.large /\ live.top = f.heap.top /\ live.pages = f.heap.pages
        /\ live.stress = f.heap.stress /\ live.trapped = f.heap.trapped
    <2> DEFINE g == f.heap
               n == g.live + size
    <2>0. g \in HeapRecord BY <1>3
    <2>1. g \in HeapRecord /\ n \in Nat
      <3> HIDE DEF g
      <3>1. g.live \in Nat BY <2>0 DEF HeapRecord
      <3> QED BY <2>0, <3>1, <1>1
    <2>2. live = [g EXCEPT !.live = n] OBVIOUS
    <2> HIDE DEF g, n, live
    <2>3. live \in HeapRecord BY <2>1, <2>2 DEF HeapRecord
    <2>4. /\ live.blocks = g.blocks /\ live.classes = g.classes /\ live.large = g.large
          /\ live.top = g.top /\ live.pages = g.pages
          /\ live.stress = g.stress /\ live.trapped = g.trapped
      BY <2>1, <2>2 DEF HeapRecord
    <2> QED BY <2>3, <2>4 DEF g
  <1> HIDE DEF live
  <1>7. ListsOK(live, {}) BY <1>3, <1>6, ListsSame
  <1>8. b \notin Starts(live)
    <2>1. f.heap.blocks \in BlockMaps BY <1>3 DEF HeapRecord
    <2>2. b \in Nat /\ Tiles(f.heap.blocks, b) BY <1>1, <1>3
    <2>3. \A c \in DOMAIN f.heap.blocks : c \in Nat /\ c < b BY <2>1, <2>2, TilesBelow
    <2> QED BY <2>2, <2>3, <1>6 DEF Starts
  <1>9. /\ placed \in HeapRecord /\ ListsOK(placed, {})
        /\ placed.blocks = With(live.blocks, b, Used(size))
        /\ placed.top = live.top /\ placed.pages = live.pages
        /\ placed.stress = live.stress /\ placed.trapped = live.trapped
    <2>1. ListsOK(live, {}) /\ {} \subseteq {b} BY <1>7
    <2>2. placed = [live EXCEPT !.blocks = With(@, b, Used(size))] OBVIOUS
    <2> HIDE DEF placed
    <2> QED BY <2>1, <2>2, <1>1, <1>6, <1>8, ListsPlace
  <1> HIDE DEF placed
  <1>10. Tiles(placed.blocks, end)
    <2> DEFINE r == Used(size)
    <2>1. r \in BlockRecord /\ r.size = size BY <1>1, BlockType DEF Used
    <2> HIDE DEF r
    <2>2. live.blocks \in BlockMaps BY <1>6 DEF HeapRecord
    <2>3. Tiles(With(live.blocks, b, r), b + r.size)
      BY <2>1, <2>2, <1>1, <1>3, <1>6, TilesGrow
    <2> QED BY <2>1, <2>3, <1>9 DEF r
  <1>11. /\ Starts(placed) = Starts(f.heap) \union {b}
         /\ placed.blocks[b].allocated /\ ~placed.blocks[b].marked
         /\ \A c \in Starts(f.heap) : placed.blocks[c] = f.heap.blocks[c]
    <2>1. /\ DOMAIN With(live.blocks, b, Used(size)) = DOMAIN live.blocks \union {b}
          /\ With(live.blocks, b, Used(size))[b] = Used(size)
          /\ \A c \in DOMAIN live.blocks \ {b} : With(live.blocks, b, Used(size))[c] = live.blocks[c]
      BY DEF With
    <2>2. placed.blocks[b] = Used(size) BY <2>1, <1>9
    <2>3. placed.blocks[b].allocated /\ ~placed.blocks[b].marked BY <2>2 DEF Used
    <2> QED BY <2>1, <2>3, <1>6, <1>8, <1>9 DEF Starts
  <1>12. new \in SweepRecord /\ new.heap = placed /\ new.run = 0
    BY <1>2, <1>3, <1>5, <1>9 DEF SweepRecord
  <1>13. Unmarked(placed) BY <1>2, <1>11 DEF SweepAt, Unmarked
  <1>14. \A c \in Starts(h) : c <= b /\ h.blocks[c].allocated /\ h.blocks[c].marked =>
             c \in Starts(placed) /\ placed.blocks[c].allocated
    <2> TAKE c \in Starts(h)
    <2>1. CASE c = b BY <2>1, <1>11
    <2>2. CASE c # b
      <3>1. c \in Nat BY BlockMap DEF HeapRecord, Starts
      <3>2. c <= b => c <= before BY <2>2, <3>1, <1>1
      <3>3. c <= before /\ h.blocks[c].allocated /\ h.blocks[c].marked =>
               c \in Starts(f.heap) /\ f.heap.blocks[c].allocated
        BY <1>2 DEF SweepAt
      <3> QED BY <3>2, <3>3, <1>11
    <2> QED BY <2>1, <2>2
  <1>15. placed.top = h.top /\ placed.pages = h.pages /\ placed.stress = h.stress /\ ~placed.trapped
    BY <1>2, <1>6, <1>9 DEF SweepAt
  <1>16. Behind(new, end) = end BY <1>12 DEF Behind
  <1>17. SweepAt(h, new, b, end)
    <2> HIDE DEF end
    <2> QED BY <1>1, <1>9, <1>10, <1>12, <1>13, <1>14, <1>15, <1>16 DEF SweepAt
  <1> QED BY <1>17 DEF new

\* The sweep goes past what is not marked: it joins the run, or starts one.
LEMMA JoinedAt ==
    ASSUME NEW h \in HeapRecord, Tiles(h.blocks, h.top), NEW b \in Starts(h),
           ~(h.blocks[b].allocated /\ h.blocks[b].marked),
           NEW before \in Nat, before + 1 = b, NEW s, SweepAt(h, s, before, b),
           NEW size, size = h.blocks[b].size
    PROVE  SweepAt(h, Joined(s, b, size), b, b + size)
  <1> DEFINE new == Joined(s, b, size)
             end == b + size
  <1>1. /\ b \in Nat /\ size \in Nat /\ size >= Header /\ b >= Start
        /\ end \in Nat /\ end \in Starts(h) \union {h.top} /\ b < end
        /\ \A c \in Starts(h) : b < c => end <= c
    BY NextEnd
  <1>2. s \in SweepRecord /\ s.run \in Nat /\ s.start \in Nat BY DEF SweepAt, SweepRecord
  <1>3. Header \in Nat /\ Header > 0 BY HeaderType
  <1>4. new = [s EXCEPT !.start = IF s.run = 0 THEN b ELSE s.start, !.run = s.run + size]
    BY <1>2 DEF Joined, SweepRecord
  <1> HIDE DEF new
  <1>5. /\ new \in SweepRecord /\ new.heap = s.heap /\ new.run = s.run + size
        /\ new.start = IF s.run = 0 THEN b ELSE s.start
    <2> DEFINE at == IF s.run = 0 THEN b ELSE s.start
               run == s.run + size
    <2>1. at \in Nat /\ run \in Nat BY <1>1, <1>2
    <2>2. new = [s EXCEPT !.start = at, !.run = run] BY <1>4
    <2> HIDE DEF at, run
    <2>3. new \in SweepRecord /\ new.heap = s.heap /\ new.run = run /\ new.start = at
      BY <2>1, <2>2, <1>2 DEF SweepRecord
    <2> QED BY <2>3 DEF at, run
  <1>6. new.run # 0 /\ new.run >= Header /\ new.start >= Start /\ new.start + new.run = end
    <2>1. s.run # 0 => s.run >= Header /\ s.start >= Start /\ s.start + s.run = b BY DEF SweepAt
    <2>2. CASE s.run = 0 BY <2>2, <1>1, <1>3, <1>5
    <2>3. CASE s.run # 0 BY <2>1, <2>3, <1>1, <1>2, <1>3, <1>5 DEF Start
    <2> QED BY <2>2, <2>3
  <1>7. Behind(new, end) = Behind(s, b) BY <1>5, <1>6 DEF Behind
  <1>8. \A c \in Starts(h) : c <= b /\ h.blocks[c].allocated /\ h.blocks[c].marked =>
             c \in Starts(s.heap) /\ s.heap.blocks[c].allocated
    <2> TAKE c \in Starts(h)
    <2>1. CASE c = b BY <2>1
    <2>2. CASE c # b
      <3>1. c \in Nat BY BlockMap DEF HeapRecord, Starts
      <3>2. c <= b => c <= before BY <2>2, <3>1, <1>1
      <3> QED BY <3>2 DEF SweepAt
    <2> QED BY <2>1, <2>2
  <1>9. SweepAt(h, new, b, end)
    <2> HIDE DEF end
    <2> QED BY <1>1, <1>5, <1>6, <1>7, <1>8 DEF SweepAt
  <1> QED BY <1>9 DEF new

\* The sweep goes past one address, where a block starts or none does.
LEMMA SweptAt ==
    ASSUME NEW h \in HeapRecord, Tiles(h.blocks, h.top), NEW before \in Nat, before + 1 < h.top,
           NEW s, NEW e, SweepAt(h, s, before, e)
    PROVE  \E end : SweepAt(h, Swept(h, s, before + 1), before + 1, end)
  <1> DEFINE b == before + 1
             size == h.blocks[b].size
  <1>0. h.top \in Nat /\ \A c \in Starts(h) : c \in Nat BY BlockMap DEF HeapRecord, Starts
  <1>1. e \in Starts(h) \union {h.top} /\ before < e /\ \A c \in Starts(h) : before < c => e <= c
    BY DEF SweepAt
  <1>2. e \in Nat BY <1>0, <1>1
  <1>3. CASE b \in Starts(h)
    <2>1. e = b BY <1>1, <1>2, <1>3
    <2>2. CASE h.blocks[b].allocated /\ h.blocks[b].marked
      <3>1. Swept(h, s, b) = Kept(s, b, size) BY <2>2, <1>3 DEF Swept
      <3>2. SweepAt(h, Kept(s, b, size), b, b + size) BY <2>1, <1>3, KeptAt
      <3> QED BY <3>1, <3>2
    <2>3. CASE ~(h.blocks[b].allocated /\ h.blocks[b].marked)
      <3>1. Swept(h, s, b) = Joined(s, b, size) BY <2>3, <1>3 DEF Swept
      <3>2. SweepAt(h, Joined(s, b, size), b, b + size) BY <2>1, <2>3, <1>3, JoinedAt
      <3> QED BY <3>1, <3>2
    <2> QED BY <2>2, <2>3
  <1>4. CASE b \notin Starts(h)
    <2>1. Swept(h, s, b) = s BY <1>4 DEF Swept
    <2>2. e # b BY <1>0, <1>1, <1>4
    <2>3. b < e BY <1>1, <1>2, <2>2
    <2>4. \A c \in Starts(h) : b < c => e <= c BY <1>0, <1>1
    <2>5. \A c \in Starts(h) : c <= b => c <= before BY <1>0, <1>4
    <2>6. SweepAt(h, s, b, e) BY <1>1, <2>3, <2>4, <2>5 DEF SweepAt
    <2> QED BY <2>1, <2>6
  <1> QED BY <1>3, <1>4

\* The sweep starts with no blocks and empty lists, and finds every block sound.
LEMMA ClearedAt ==
    ASSUME NEW h \in HeapRecord, Tiles(h.blocks, h.top)
    PROVE  SweepAt(h, Swept0(h), 0, Start)
  <1> DEFINE c == Cleared(h)
             s == Swept0(h)
  <1>1. h.top \in Nat /\ \A b \in Starts(h) : b \in Nat /\ h.blocks[b].size \in Nat
    BY BlockMap DEF HeapRecord, BlockRecord, Starts
  <1>2. \A b \in Starts(h) : Sound(h, b)
    BY <1>1, HeaderType DEF Tiles, Starts, Sound
  <1> DEFINE none == [size \in Small |-> <<>>]
  <1>3. none \in [Small -> Seq(Nat)] /\ \A n \in Small : none[n] = <<>>
    OBVIOUS
  <1>4. <<>> \in BlockMaps /\ DOMAIN <<>> = {}
    <2>1. DOMAIN <<>> = {} OBVIOUS
    <2>2. <<>> \in [{} -> BlockRecord] OBVIOUS
    <2> QED BY <2>1, <2>2, BlockMap
  <1>5. (\E b \in Starts(h) : ~Sound(h, b)) = FALSE BY <1>2
  <1>6. c = [h EXCEPT !.blocks = <<>>, !.classes = none, !.large = <<>>, !.live = 0, !.trapped = FALSE]
    BY <1>5 DEF Cleared
  <1> HIDE DEF c, none
  <1>7. c \in HeapRecord
    <2> DEFINE empty == <<>>
    <2>1. empty \in BlockMaps /\ empty \in Seq(Nat) BY <1>4
    <2>2. c = [h EXCEPT !.blocks = empty, !.classes = none, !.large = empty, !.live = 0, !.trapped = FALSE]
      BY <1>6
    <2> HIDE DEF empty
    <2> QED BY <1>3, <2>1, <2>2 DEF HeapRecord
  <1>8. /\ c.blocks = <<>> /\ c.classes = none /\ c.large = <<>> /\ ~c.trapped
        /\ c.top = h.top /\ c.pages = h.pages /\ c.stress = h.stress
    BY <1>6 DEF HeapRecord
  <1>9. Starts(c) = {} BY <1>4, <1>8 DEF Starts
  <1>10. ListsOK(c, {})
    <2>1. \A n \in Small : GoodList(c.blocks, {}, c.classes[n], {n})
      BY <1>3, <1>4, <1>8 DEF GoodList
    <2>2. GoodList(c.blocks, {}, c.large, Nat \ Small)
      BY <1>4, <1>8 DEF GoodList
    <2>3. Complete(c, {}) BY <1>9 DEF Complete
    <2> QED BY <2>1, <2>2, <2>3 DEF ListsOK
  <1>11. Tiles(c.blocks, Start) BY <1>4, <1>8 DEF Tiles, Start
  <1>12. Unmarked(c) BY <1>9 DEF Unmarked
  <1>13. s.heap = c /\ s.run = 0 /\ s \in SweepRecord
    BY <1>7 DEF Swept0, SweepRecord, c, Null
  <1>14. Start \in Starts(h) \union {h.top} /\ 0 < Start /\ \A b \in Starts(h) : 0 < b => Start <= b
    BY <1>1 DEF Tiles, Starts, Start
  <1>15. \A b \in Starts(h) : ~(b <= 0) BY <1>1 DEF Tiles, Starts, Start
  <1> HIDE DEF s
  <1>16. SweepAt(h, s, 0, Start)
    BY <1>8, <1>10, <1>11, <1>12, <1>13, <1>14, <1>15 DEF SweepAt, Behind
  <1> QED BY <1>16 DEF s

\* A sweep joins what is free, and leaves the marked blocks as they were.
LEMMA SweepSane ==
    ASSUME NEW h \in HeapRecord, Tiles(h.blocks, h.top), NEW new, new = Sweep(h)
    PROVE  /\ Sane(new) /\ new.top = h.top /\ new.pages = h.pages
           /\ new.stress = h.stress /\ ~new.trapped
           /\ \A c \in Starts(h) : h.blocks[c].allocated /\ h.blocks[c].marked =>
                  c \in Starts(new) /\ new.blocks[c].allocated
  <1> DEFINE F == Sweeping(h)
             N == h.top - 1
             T == {b \in 0 .. N : \E e : SweepAt(h, F[b], b, e)}
  <1>1. h.top \in Nat /\ h.top >= 1 /\ N \in Nat BY DEF HeapRecord, Tiles, Start
  <1>2. F[0] = Swept0(h) /\ \A b \in 1 .. h.top - 1 : F[b] = Swept(h, F[b - 1], b)
    BY <1>1, SweepingSteps
  <1>3. new = Flushed(F[N]).heap BY DEF Sweep
  <1> HIDE DEF F
  <1>4. 0 \in T
    <2>1. SweepAt(h, F[0], 0, Start) BY <1>2, ClearedAt
    <2> QED BY <2>1, <1>1
  <1>5. \A b \in 0 .. N - 1 : b \in T => b + 1 \in T
    <2> SUFFICES ASSUME NEW b \in 0 .. N - 1, b \in T PROVE b + 1 \in T
      OBVIOUS
    <2>1. PICK e : SweepAt(h, F[b], b, e) OBVIOUS
    <2>2. b \in Nat /\ b + 1 < h.top /\ b + 1 \in 1 .. h.top - 1 /\ b + 1 \in 0 .. N BY <1>1
    <2>3. \E end : SweepAt(h, Swept(h, F[b], b + 1), b + 1, end) BY <2>1, <2>2, SweptAt
    <2>4. F[b + 1] = Swept(h, F[b], b + 1)
      <3>1. (b + 1) - 1 = b BY <2>2
      <3> QED BY <3>1, <2>2, <1>2
    <2> QED BY <2>2, <2>3, <2>4
  <1>6. N \in T
    <2> HIDE DEF T, N
    <2>1. 0 .. N \subseteq T BY <1>1, <1>4, <1>5, UpTo
    <2> QED BY <2>1, <1>1
  <1>7. PICK e : SweepAt(h, F[N], N, e) BY <1>6
  <1> DEFINE s == Flushed(F[N])
  <1>8. SweepAt(h, s, N, e) /\ s.run = 0 BY <1>1, <1>7, FlushedAt
  <1> HIDE DEF s
  <1>9. \A c \in Starts(h) : c \in Nat /\ c <= N
    <2>1. \A c \in Starts(h) : c \in Nat /\ h.blocks[c].size \in Nat
      BY BlockMap DEF HeapRecord, BlockRecord, Starts
    <2> QED BY <2>1, <1>1, HeaderType DEF Tiles, Starts
  <1>10. e = h.top BY <1>1, <1>8, <1>9 DEF SweepAt
  <1>11. new = s.heap BY <1>3 DEF s
  <1>12. Sane(new)
    <2>1. new \in HeapRecord BY <1>8, <1>11 DEF SweepAt, SweepRecord
    <2> QED BY <2>1, <1>8, <1>10, <1>11 DEF SweepAt, Behind, Sane
  <1> QED BY <1>8, <1>9, <1>11, <1>12 DEF SweepAt

----------------------------------------------------------------------------
\* The inductive invariant: a sane heap, inside its memory, that has what is held.
Holds(h, reached) == reached \subseteq Starts(h) /\ \A b \in reached : h.blocks[b].allocated
Fits(h) == h.pages \in 1 .. MaxPages /\ h.top - 1 <= Memory(h)
Ready(h) == Sane(h) /\ Holds(h, held) /\ Fits(h)

\* Marking changes no block but its mark, and all that is held is marked.
LEMMA MarkedType ==
    ASSUME NEW h, Sane(h), Holds(h, held), NEW m, m = Marked(h)
    PROVE  /\ m \in HeapRecord /\ Tiles(m.blocks, m.top) /\ Starts(m) = Starts(h)
           /\ m.top = h.top /\ m.pages = h.pages /\ m.stress = h.stress
           /\ \A b \in held : m.blocks[b].allocated /\ m.blocks[b].marked
  <1> DEFINE f == h.blocks
             g == [b \in DOMAIN f |-> [f[b] EXCEPT !.marked = b \in held]]
  <1>0. h \in HeapRecord /\ f \in BlockMaps /\ Tiles(f, h.top) /\ h.top \in Nat
    BY DEF Sane, HeapRecord
  <1>1. \A b \in DOMAIN f : f[b] \in BlockRecord /\ b \in Nat BY <1>0, BlockMap
  <1>2. \A b \in DOMAIN f : /\ [f[b] EXCEPT !.marked = b \in held] \in BlockRecord
                            /\ [f[b] EXCEPT !.marked = b \in held].size = f[b].size
                            /\ [f[b] EXCEPT !.marked = b \in held].allocated = f[b].allocated
                            /\ b \in held => [f[b] EXCEPT !.marked = b \in held].marked
    <2> TAKE b \in DOMAIN f
    <2> DEFINE q == b \in held
    <2>1. q \in BOOLEAN /\ f[b] \in BlockRecord BY <1>1
    <2>2. ASSUME NEW y \in BOOLEAN
          PROVE  /\ [f[b] EXCEPT !.marked = y] \in BlockRecord
                 /\ [f[b] EXCEPT !.marked = y].size = f[b].size
                 /\ [f[b] EXCEPT !.marked = y].allocated = f[b].allocated
                 /\ [f[b] EXCEPT !.marked = y].marked = y
      BY <2>1 DEF BlockRecord
    <2> QED BY <2>1, <2>2
  <1>3. /\ DOMAIN g = DOMAIN f
        /\ \A b \in DOMAIN f : /\ g[b] \in BlockRecord /\ g[b].size = f[b].size
                               /\ g[b].allocated = f[b].allocated /\ (b \in held => g[b].marked)
    BY <1>2
  <1>4. g = [b \in DOMAIN f |-> g[b]] OBVIOUS
  <1>5. m = [h EXCEPT !.blocks = g] BY <1>0 DEF Marked
  <1> HIDE DEF g
  <1>6. g \in BlockMaps
    <2>1. g \in [DOMAIN g -> BlockRecord] /\ DOMAIN g \subseteq Nat BY <1>1, <1>3, <1>4
    <2> QED BY <2>1, BlockMap
  <1>7. m \in HeapRecord /\ m.blocks = g /\ m.top = h.top /\ m.pages = h.pages /\ m.stress = h.stress
    BY <1>0, <1>5, <1>6 DEF HeapRecord
  <1>8. Tiles(g, h.top) BY <1>0, <1>3, <1>6, TilesSameSizes
  <1> QED BY <1>3, <1>7, <1>8 DEF Holds, Starts

\* The budget has no part in the soundness of the heap.
LEMMA BudgetSane ==
    ASSUME NEW h, Sane(h), NEW n \in Int, NEW new, new = [h EXCEPT !.budget = n]
    PROVE  /\ Sane(new) /\ new.top = h.top /\ new.pages = h.pages
           /\ new.blocks = h.blocks /\ new.trapped = h.trapped
  <1>1. h \in HeapRecord BY DEF Sane
  <1>2. new \in HeapRecord BY <1>1 DEF HeapRecord
  <1>3. /\ new.blocks = h.blocks /\ new.classes = h.classes /\ new.large = h.large
        /\ new.top = h.top /\ new.pages = h.pages /\ new.trapped = h.trapped
    BY <1>1 DEF HeapRecord
  <1>4. ListsOK(new, {}) BY <1>3, ListsSame DEF Sane
  <1>5. Unmarked(new) BY <1>3 DEF Unmarked, Sane, Starts
  <1>6. Tiles(new.blocks, new.top) BY <1>3 DEF Sane
  <1> QED BY <1>2, <1>3, <1>4, <1>5, <1>6 DEF Sane

\* After a collection, wherever in an allocation, the heap is ready and has what is held.
LEMMA ReplenishedReady ==
    ASSUME NEW h, Ready(h), NEW size \in Nat, NEW new, new = Replenished(h, size)
    PROVE  Ready(new) /\ ~new.trapped
  <1> DEFINE m == Marked(h)
             w == Sweep(m)
             n == Most(w.live, MinBudget) - size
  <1>1. /\ m \in HeapRecord /\ Tiles(m.blocks, m.top) /\ Starts(m) = Starts(h)
        /\ m.top = h.top /\ m.pages = h.pages
        /\ \A b \in held : m.blocks[b].allocated /\ m.blocks[b].marked
    BY MarkedType DEF Ready
  <1>2. new = IF h.stress THEN w ELSE [w EXCEPT !.budget = n]
    BY DEF Replenished
  <1> HIDE DEF m
  <1>3. /\ Sane(w) /\ w.top = m.top /\ w.pages = m.pages /\ ~w.trapped
        /\ \A c \in Starts(m) : m.blocks[c].allocated /\ m.blocks[c].marked =>
               c \in Starts(w) /\ w.blocks[c].allocated
    BY <1>1, SweepSane
  <1> HIDE DEF w
  <1>4. n \in Int
    <2>1. w.live \in Nat /\ MinBudget \in Nat BY <1>3, HeapConstants DEF Sane, HeapRecord
    <2> QED BY <2>1 DEF Most
  <1> HIDE DEF n
  <1>5. /\ Sane(new) /\ new.top = w.top /\ new.pages = w.pages
        /\ new.blocks = w.blocks /\ new.trapped = w.trapped
    <2>1. CASE h.stress BY <2>1, <1>2, <1>3
    <2>2. CASE ~h.stress
      <3>1. new = [w EXCEPT !.budget = n] BY <2>2, <1>2
      <3> QED BY <3>1, <1>3, <1>4, BudgetSane
    <2> QED BY <2>1, <2>2
  <1>6. Holds(w, held)
    <2>1. Holds(h, held) BY DEF Ready
    <2> QED BY <2>1, <1>1, <1>3 DEF Holds
  <1>7. Holds(new, held) BY <1>5, <1>6 DEF Holds, Starts
  <1>8. Fits(new) BY <1>1, <1>3, <1>5 DEF Ready, Fits, Memory
  <1> QED BY <1>3, <1>5, <1>7, <1>8 DEF Ready

\* What a step leaves of `h` in `new`, with one block more for the program.
Grants(h, new, b) ==
    /\ Sane(new) /\ Fits(new) /\ b \in Starts(new) /\ new.blocks[b].allocated
    /\ \A c \in Starts(h) : c \in Starts(new) /\ (h.blocks[c].allocated => new.blocks[c].allocated)

\* What comes from the top of the heap is a new block inside the memory; where memory ends
\* the heap has trapped, and is as it was.
LEMMA FromTopGrants ==
    ASSUME NEW h, Ready(h), ~h.trapped, NEW size \in Nat, size >= Header,
           NEW got, got = FromTop(h, size)
    PROVE  /\ got.heap.trapped => Ready(got.heap)
           /\ ~got.heap.trapped => Grants(h, Placed(got), got.block)
  <1> DEFINE end == h.top + size
             needed == (end + PageSize - 1) \div PageSize
             pages == Most(h.pages, needed)
  <1>0. h \in HeapRecord /\ h.top \in Nat /\ h.pages \in Nat /\ Tiles(h.blocks, h.top) /\ ListsOK(h, {})
    BY DEF Ready, Sane, HeapRecord
  <1>1. PageSize \in Nat \ {0} /\ MaxPages \in Nat BY HeapConstants
  <1>2. end \in Nat /\ needed \in Nat /\ end <= needed * PageSize
    <2>1. end \in Nat BY <1>0
    <2> HIDE DEF end
    <2> QED BY <2>1, <1>1, PagesSuffice
  <1> HIDE DEF needed, end
  <1>3. pages \in Nat /\ pages >= h.pages /\ pages >= needed BY <1>0, <1>2 DEF Most
  <1> HIDE DEF pages
  <1>4. CASE pages > MaxPages
    <2> DEFINE c == [h EXCEPT !.trapped = TRUE]
    <2>1. got = Got(c, Null, size) BY <1>4 DEF FromTop, pages, needed, end
    <2>2. c \in HeapRecord /\ c.trapped BY <1>0 DEF HeapRecord
    <2>3. /\ c.blocks = h.blocks /\ c.classes = h.classes /\ c.large = h.large
          /\ c.top = h.top /\ c.pages = h.pages
      BY <1>0 DEF HeapRecord
    <2> HIDE DEF c
    <2>4. got.heap = c BY <2>1 DEF Got
    <2>5. ListsOK(c, {}) BY <1>0, <2>3, ListsSame
    <2>6. Sane(c) BY <2>2, <2>3, <2>5, <1>0 DEF Ready, Sane, Unmarked, Starts
    <2>7. Holds(c, held) /\ Fits(c) BY <2>3 DEF Ready, Holds, Fits, Memory, Starts
    <2> QED BY <2>2, <2>4, <2>6, <2>7 DEF Ready
  <1>5. CASE ~(pages > MaxPages)
    <2> DEFINE c == [h EXCEPT !.top = end, !.pages = pages]
               b == h.top
               new == Placed(got)
    <2>1. got = Got(c, b, size) BY <1>5 DEF FromTop, pages, needed, end
    <2>2. c \in HeapRecord BY <1>0, <1>2, <1>3 DEF HeapRecord
    <2>3. /\ c.blocks = h.blocks /\ c.classes = h.classes /\ c.large = h.large
          /\ c.top = end /\ c.pages = pages /\ c.trapped = h.trapped
      BY <1>0 DEF HeapRecord
    <2> HIDE DEF c
    <2>4. got.heap = c /\ got.block = b BY <2>1 DEF Got
    <2>5. ListsOK(c, {}) BY <1>0, <2>3, ListsSame
    <2>6. b \notin Starts(c)
      <3>1. \A d \in DOMAIN h.blocks : d \in Nat /\ h.blocks[d].size \in Nat
        BY <1>0, BlockMap DEF HeapRecord, BlockRecord
      <3> QED BY <3>1, <1>0, <2>3, HeaderType DEF Tiles, Starts
    <2>7. new = [c EXCEPT !.blocks = With(@, b, Used(size))] BY <2>1 DEF Placed, Got
    <2> HIDE DEF new, b
    <2>8. /\ new \in HeapRecord /\ ListsOK(new, {})
          /\ new.blocks = With(c.blocks, b, Used(size))
          /\ new.top = c.top /\ new.pages = c.pages
      <3>1. {} \subseteq {b} /\ b \in Nat BY <1>0 DEF b
      <3> QED BY <3>1, <2>2, <2>5, <2>6, <2>7, ListsPlace
    <2>9. Tiles(new.blocks, new.top)
      <3> DEFINE r == Used(size)
      <3>1. r \in BlockRecord /\ r.size = size BY BlockType DEF Used
      <3> HIDE DEF r
      <3>2. h.blocks \in BlockMaps BY <1>0 DEF HeapRecord
      <3>3. Tiles(With(h.blocks, b, r), b + r.size)
        BY <3>1, <3>2, <1>0, TilesGrow DEF b
      <3> QED BY <3>1, <3>3, <2>3, <2>8 DEF r, b, end
    <2>10. /\ Starts(new) = Starts(h) \union {b} /\ new.blocks[b] = Used(size)
           /\ \A d \in Starts(h) : new.blocks[d] = h.blocks[d]
      <3>1. /\ DOMAIN With(h.blocks, b, Used(size)) = DOMAIN h.blocks \union {b}
            /\ With(h.blocks, b, Used(size))[b] = Used(size)
            /\ \A d \in DOMAIN h.blocks \ {b} : With(h.blocks, b, Used(size))[d] = h.blocks[d]
        BY DEF With
      <3> QED BY <3>1, <2>3, <2>6, <2>8 DEF Starts
    <2>11. new.blocks[b].allocated /\ ~new.blocks[b].marked BY <2>10 DEF Used
    <2>12. Unmarked(new) BY <2>10, <2>11 DEF Unmarked, Ready, Sane
    <2>13. Fits(new)
      <3>1. pages * PageSize >= needed * PageSize
        <4>1. \A x, y, z \in Nat : x >= y => x * z >= y * z OBVIOUS
        <4> QED BY <4>1, <1>1, <1>2, <1>3
      <3>2. end <= pages * PageSize /\ pages * PageSize \in Nat BY <3>1, <1>1, <1>2, <1>3
      <3>3. pages \in 1 .. MaxPages BY <1>1, <1>3, <1>5, <1>0 DEF Ready, Fits
      <3> QED BY <3>2, <3>3, <2>3, <2>8, <1>2 DEF Fits, Memory
    <2>14. Grants(h, new, b) BY <2>8, <2>9, <2>10, <2>11, <2>12, <2>13 DEF Grants, Sane
    <2>15. ~got.heap.trapped BY <2>3, <2>4
    <2> QED BY <2>4, <2>14, <2>15 DEF new
  <1> QED BY <1>4, <1>5

\* What take_free finds serves the request, and the heap has not trapped.
LEMMA TakeFreeGrants ==
    ASSUME NEW h, Ready(h), ~h.trapped, NEW size \in Nat, size >= Header,
           NEW got, got = TakeFree(h, size), got.block # Null
    PROVE  ~got.heap.trapped /\ Grants(h, Placed(got), got.block)
  <1> DEFINE new == Placed(got)
  <1>1. /\ Sane(new) /\ Keeps(h, new)
        /\ got.block \in Starts(new) /\ new.blocks[got.block].allocated
    BY TakeFreeSane DEF Ready
  <1>2. new.trapped = got.heap.trapped
    <2> DEFINE x == With(got.heap.blocks, got.block, Used(got.size))
               k == got.heap
    <2>1. new = [k EXCEPT !.blocks = x] BY DEF Placed
    <2>2. "trapped" \in DOMAIN new BY <1>1 DEF Sane, HeapRecord
    <2> HIDE DEF x, k, new
    <2>3. new.trapped = k.trapped BY <2>1, <2>2
    <2> QED BY <2>3 DEF k
  <1>3. Fits(new) BY <1>1 DEF Ready, Fits, Memory, Keeps
  <1>4. ~got.heap.trapped BY <1>1, <1>2 DEF Keeps
  <1> QED BY <1>1, <1>3, <1>4 DEF Grants, Keeps

\* An allocation leaves the heap ready, and what it hands out is held from then on.
LEMMA AllocReady ==
    ASSUME NEW payload \in Payloads, Ready(heap), Alloc(payload)
    PROVE  Ready(heap)'
  <1> DEFINE size == payload + Header
             collects == heap.stress \/ heap.budget < size
             begun == IF collects THEN Replenished(heap, size) ELSE [heap EXCEPT !.budget = @ - size]
             first == TakeFree(begun, size)
             pressed == first.block = Null /\ ~collects /\ Memory(begun) < begun.top + size
             second == IF pressed THEN TakeFree(Replenished(begun, size), size) ELSE first
             got == IF second.block = Null THEN FromTop(second.heap, size) ELSE second
  <1>1. /\ ~heap.trapped
        /\ heap' = IF got.heap.trapped THEN got.heap ELSE Placed(got)
        /\ held' = IF got.heap.trapped THEN held ELSE held \union {got.block}
    BY DEF Alloc, Placed
  <1>2. size \in Nat /\ size >= Header BY HeaderType, HeapConstants
  <1>3. Ready(begun) /\ ~begun.trapped
    <2>1. CASE collects BY <2>1, <1>2, ReplenishedReady
    <2>2. CASE ~collects
      <3> DEFINE n == heap.budget - size
      <3>1. begun = [heap EXCEPT !.budget = n] BY <2>2
      <3>2. n \in Int BY <1>2 DEF Ready, Sane, HeapRecord
      <3> HIDE DEF begun, n, size
      <3>3. /\ Sane(begun) /\ begun.top = heap.top /\ begun.pages = heap.pages
            /\ begun.blocks = heap.blocks /\ begun.trapped = heap.trapped
        BY <3>1, <3>2, BudgetSane DEF Ready
      <3> QED BY <3>3, <1>1 DEF Ready, Holds, Fits, Memory, Starts
    <2> QED BY <2>1, <2>2
  <1> HIDE DEF size, begun
  <1>4. \E h : Ready(h) /\ ~h.trapped /\ second = TakeFree(h, size)
    <2>1. CASE pressed
      <3>1. Ready(Replenished(begun, size)) /\ ~Replenished(begun, size).trapped
        BY <1>2, <1>3, ReplenishedReady
      <3> QED BY <3>1, <2>1
    <2>2. CASE ~pressed BY <2>2, <1>3
    <2> QED BY <2>1, <2>2
  <1> HIDE DEF second
  <1>5. PICK h : Ready(h) /\ ~h.trapped /\ second = TakeFree(h, size) BY <1>4
  <1>6. /\ got.heap.trapped => Ready(got.heap)
        /\ ~got.heap.trapped => Grants(h, Placed(got), got.block)
    <2>1. CASE second.block = Null
      <3>1. second.heap = h BY <2>1, <1>2, <1>5, TakeFreeSane DEF Ready
      <3>2. got = FromTop(h, size) BY <2>1, <3>1
      <3> HIDE DEF got
      <3> QED BY <3>2, <1>2, <1>5, FromTopGrants
    <2>2. CASE second.block # Null
      <3>1. got = second BY <2>2
      <3>2. ~second.heap.trapped /\ Grants(h, Placed(second), second.block)
        BY <2>2, <1>2, <1>5, TakeFreeGrants
      <3> HIDE DEF got
      <3> QED BY <3>1, <3>2
    <2> QED BY <2>1, <2>2
  <1> HIDE DEF got
  <1>7. CASE got.heap.trapped
    <2>1. heap' = got.heap /\ held' = held BY <1>1, <1>7
    <2> QED BY <2>1, <1>6, <1>7 DEF Ready, Holds
  <1>8. CASE ~got.heap.trapped
    <2> DEFINE new == Placed(got)
    <2>1. heap' = new /\ held' = held \union {got.block} BY <1>1, <1>8
    <2>2. Grants(h, new, got.block) /\ Holds(h, held) BY <1>5, <1>6, <1>8 DEF Ready
    <2> HIDE DEF new
    <2>3. Sane(new) /\ Fits(new) BY <2>2 DEF Grants
    <2>4. Holds(new, held') BY <2>1, <2>2 DEF Grants, Holds
    <2> QED BY <2>1, <2>3, <2>4 DEF Ready
  <1> QED BY <1>7, <1>8

----------------------------------------------------------------------------
\* The heap with which the program begins is ready.
LEMMA HeapBegins == HeapInit => Ready(heap)
  <1> SUFFICES ASSUME HeapInit PROVE Ready(heap)
    OBVIOUS
  <1>1. PICK stress \in BOOLEAN : heap = Empty(stress) BY DEF HeapInit
  <1> DEFINE empty == <<>>
             none == [size \in Small |-> <<>>]
  <1>2. empty \in BlockMaps /\ empty \in Seq(Nat) /\ DOMAIN empty = {}
    <2>1. DOMAIN empty = {} OBVIOUS
    <2>2. empty \in [{} -> BlockRecord] OBVIOUS
    <2>3. empty \in Seq(Nat) OBVIOUS
    <2> HIDE DEF empty
    <2> QED BY <2>1, <2>2, <2>3, BlockMap
  <1>3. none \in [Small -> Seq(Nat)] /\ \A n \in Small : none[n] = empty
    OBVIOUS
  <1>4. heap = [blocks |-> empty, classes |-> none, large |-> empty, top |-> Start,
                budget |-> MinBudget, live |-> 0, pages |-> 1, stress |-> stress, trapped |-> FALSE]
    BY <1>1 DEF Empty
  <1> HIDE DEF empty, none
  <1>5. Start \in Nat /\ MinBudget \in Nat /\ PageSize \in Nat \ {0} /\ MaxPages \in Nat \ {0}
    BY HeapConstants DEF Start
  <1>6. heap \in HeapRecord BY <1>2, <1>3, <1>4, <1>5 DEF HeapRecord
  <1>7. /\ heap.blocks = empty /\ heap.classes = none /\ heap.large = empty
        /\ heap.top = Start /\ heap.pages = 1
    BY <1>4
  <1>8. Starts(heap) = {} BY <1>2, <1>7 DEF Starts
  <1>9. ListsOK(heap, {})
    <2>1. \A n \in Small : GoodList(heap.blocks, {}, heap.classes[n], {n})
      BY <1>2, <1>3, <1>7 DEF GoodList
    <2>2. GoodList(heap.blocks, {}, heap.large, Nat \ Small)
      BY <1>2, <1>7 DEF GoodList
    <2>3. Complete(heap, {}) BY <1>8 DEF Complete
    <2> QED BY <2>1, <2>2, <2>3 DEF ListsOK
  <1>10. Tiles(heap.blocks, heap.top) BY <1>2, <1>7 DEF Tiles, Start
  <1>11. Unmarked(heap) BY <1>8 DEF Unmarked
  <1>12. Fits(heap) BY <1>5, <1>7 DEF Fits, Memory, Start
  <1>13. Holds(heap, held) BY DEF HeapInit, Holds
  <1> QED BY <1>6, <1>9, <1>10, <1>11, <1>12, <1>13 DEF Ready, Sane

\* Every step of the program leaves the heap ready.
LEMMA HeapSteps == Ready(heap) /\ [HeapNext]_heapVars => Ready(heap)'
  <1> SUFFICES ASSUME Ready(heap), [HeapNext]_heapVars PROVE Ready(heap)'
    OBVIOUS
  <1>1. ASSUME NEW payload \in Payloads, Alloc(payload) PROVE Ready(heap)'
    BY <1>1, AllocReady
  <1>2. ASSUME NEW b \in held, Drop(b) PROVE Ready(heap)'
    <2>1. heap' = heap /\ held' \subseteq held BY <1>2 DEF Drop
    <2>2. Holds(heap, held') BY <2>1 DEF Ready, Holds
    <2> QED BY <2>1, <2>2 DEF Ready
  <1>3. CASE UNCHANGED heapVars
    BY <1>3 DEF heapVars, Ready
  <1> QED BY <1>1, <1>2, <1>3 DEF HeapNext

\* The heap is always ready: sane, within its memory, with all that is held allocated.
LEMMA HeapAlwaysReady == HeapSpec => []Ready(heap)
  <1> QED BY HeapBegins, HeapSteps, PTL DEF HeapSpec

\* A heap that is ready has the types it is declared with.
LEMMA ReadyIsTyped == Ready(heap) => HeapTypeOK
  <1> SUFFICES ASSUME Ready(heap) PROVE HeapTypeOK
    OBVIOUS
  <1>1. \A b \in Starts(heap) : heap.blocks[b] \in BlockRecord /\ heap.blocks[b].marked = FALSE
    BY BlockMap DEF Ready, Sane, HeapRecord, Starts, Unmarked, BlockRecord
  <1>2. \A b \in Starts(heap) : heap.blocks[b] \in [size : Nat, allocated : BOOLEAN, marked : {FALSE}]
    BY <1>1 DEF BlockRecord
  <1> QED BY <1>2 DEF Ready, Holds, Fits, HeapTypeOK

\* Type correctness of the heap: headers keep their shape and no block stays marked, what the
\* program holds is blocks, and the heap ends inside the memory it has (haxeon_heap_alloc).
THEOREM HeapTypeCorrect == HeapSpec => []HeapTypeOK
  BY HeapAlwaysReady, ReadyIsTyped, PTL

\* A member of a list of free blocks is of the sizes the list is for, and is there once.
LEMMA InOneList ==
    ASSUME NEW h, Sane(h), NEW list \in {h.classes[size] : size \in Small} \union {h.large},
           NEW i \in DOMAIN list
    PROVE  /\ list[i] \in Starts(h) /\ ~h.blocks[list[i]].allocated
           /\ Listed(h, list[i]) = list
           /\ Cardinality({j \in DOMAIN list : list[j] = list[i]}) = 1
  <1>0. ListsOK(h, {}) /\ h \in HeapRecord BY DEF Sane
  <1>1. PICK sizes : /\ GoodList(h.blocks, {}, list, sizes)
                     /\ \A b \in Starts(h) : h.blocks[b].size \in sizes => Listed(h, b) = list
    <2>1. CASE list = h.large
      <3>1. GoodList(h.blocks, {}, list, Nat \ Small) BY <2>1, <1>0 DEF ListsOK
      <3> QED BY <3>1, <2>1 DEF Listed
    <2>2. ASSUME NEW n \in Small, list = h.classes[n]
          PROVE  \E sizes : /\ GoodList(h.blocks, {}, list, sizes)
                            /\ \A b \in Starts(h) : h.blocks[b].size \in sizes => Listed(h, b) = list
      <3>1. GoodList(h.blocks, {}, list, {n}) BY <2>2, <1>0 DEF ListsOK
      <3>2. \A b \in Starts(h) : h.blocks[b].size \in {n} => Listed(h, b) = list
        BY <2>2 DEF Listed
      <3> QED BY <3>1, <3>2
    <2> QED BY <2>1, <2>2
  <1>2. list[i] \in Starts(h) /\ ~h.blocks[list[i]].allocated /\ h.blocks[list[i]].size \in sizes
    BY <1>1 DEF GoodList, Starts
  <1>3. {j \in DOMAIN list : list[j] = list[i]} = {i}
    BY <1>1 DEF GoodList
  <1>4. Cardinality({i}) = 1 BY FS_Singleton
  <1> QED BY <1>1, <1>2, <1>3, <1>4

\* What is ready is tiled, and its free blocks are where a request finds them.
LEMMA ReadyIsTiled == Ready(heap) => BlocksTileTheHeap
  <1> SUFFICES ASSUME Ready(heap) PROVE BlocksTileTheHeap
    OBVIOUS
  <1> DEFINE lists == {heap.classes[size] : size \in Small} \union {heap.large}
  <1>0. /\ Sane(heap) /\ Tiles(heap.blocks, heap.top) /\ ListsOK(heap, {}) /\ heap.top \in Nat
        /\ heap.blocks \in BlockMaps
    BY DEF Ready, Sane, HeapRecord
  <1>1. /\ \A b \in Starts(heap) : b + heap.blocks[b].size \in Starts(heap) \union {heap.top}
        /\ heap.top > Start => Start \in Starts(heap)
        /\ \A b, c \in Starts(heap) : b < c => b + heap.blocks[b].size <= c
    BY <1>0 DEF Tiles, Starts
  <1>2. Starts(heap) \subseteq Start .. heap.top - 1
    <2>1. \A b \in Starts(heap) : b \in Nat /\ heap.blocks[b].size \in Nat
      BY <1>0, BlockMap DEF BlockRecord, Starts
    <2> QED BY <2>1, <1>0, HeaderType DEF Tiles, Starts, Start
  <1>3. ASSUME NEW b \in Starts(heap), ~heap.blocks[b].allocated
        PROVE  Cardinality({i \in DOMAIN Listed(heap, b) : Listed(heap, b)[i] = b}) = 1
    <2>1. PICK i \in DOMAIN Listed(heap, b) : Listed(heap, b)[i] = b
      BY <1>0, <1>3 DEF ListsOK, Complete
    <2>2. Listed(heap, b) \in lists BY DEF Listed
    <2> QED BY <2>1, <2>2, <1>0, InOneList
  <1>4. \A list \in lists : \A i \in DOMAIN list :
            list[i] \in Starts(heap) /\ ~heap.blocks[list[i]].allocated
            /\ Listed(heap, list[i]) = list
    BY <1>0, InOneList
  <1>5. \A b \in held : heap.blocks[b].allocated BY DEF Ready, Holds
  <1> HIDE DEF lists
  <1> QED BY <1>1, <1>2, <1>3, <1>4, <1>5 DEF BlocksTileTheHeap, lists

\* For any sizes asked for and any limits, through carving, collecting and joining: blocks
\* follow each other without gap or overlap, each free one is in the one list of its size,
\* once, and what the program reaches stays allocated (take_free, haxeon_heap_sweep).
THEOREM BlocksAlwaysTile == HeapSpec => []BlocksTileTheHeap
  BY HeapAlwaysReady, ReadyIsTiled, PTL
============================================================================
