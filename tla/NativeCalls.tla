---------------------------- MODULE NativeCalls ----------------------------
(***************************************************************************)
(* Calls into native libraries (src/native/runtime/native_call.c): libraries  *)
(* that are counted, the cache of resolved calls, pointers that own what they *)
(* point to, and callbacks from native code into Haxe.                       *)
(*                                                                         *)
(* Main is the thread that works with pointers and callbacks; the others make *)
(* plain calls, and native code may call back on them.  The loader, native    *)
(* code and the collector, which finalizes what the program has dropped, are   *)
(* external.  Scalars, structures, text and how they are converted are left   *)
(* out, also the text a callback returned, which it keeps for its caller.    *)
(***************************************************************************)
EXTENDS Integers, Sequences, FiniteSets

CONSTANTS
    Libraries,
    Calls,          \* descriptors: library, result, its owner, and if its release symbol exists
    Threads, Main,
    MaxControls, MaxObjects, MaxNatives, MaxDepth

Results == {"plain", "pointer", "text", "bytes"}

NoLibrary == "none"

ASSUME CallsConstants ==
    /\ NoLibrary \notin Libraries
    /\ Calls \subseteq [library : Libraries, result : Results, owned : BOOLEAN, release : BOOLEAN]
    /\ Main \in Threads
    /\ \A bound \in {MaxControls, MaxObjects, MaxNatives, MaxDepth} : bound \in Nat \ {0}

VARIABLES
    loader,     \* the controls, and how often the system holds each library
    objects,    \* what the collector keeps: libraries, functions, pointers, callbacks
    natives,    \* what native code allocated, and what became of it
    cache,      \* the published calls
    resolving,  \* what each thread has resolved and not yet published
    stack,      \* of Main: native calls and the callbacks within them
    blocking    \* gc_blocking of Main

callVars == <<loader, objects, natives, cache, resolving, stack, blocking>>

None == 0
Closure == -1           \* code that calls a Haxe function
Foreign == -2           \* an address that native code keeps to itself

NoCall == [library |-> NoLibrary, result |-> "plain", owned |-> FALSE, release |-> FALSE]
NothingResolved == [call |-> NoCall, function |-> None]
NoControl == [library |-> NoLibrary, references |-> 0]
NoObject == [kind |-> "none", control |-> None, value |-> None, owns |-> FALSE,
             scoped |-> FALSE, failed |-> FALSE]
NoFrame == [at |-> "haxe", control |-> None, object |-> None, callback |-> None, call |-> NoCall]

Controls == 1 .. MaxControls
Objects == 1 .. MaxObjects
Natives == 1 .. MaxNatives
Kinds == {"none", "library", "function", "pointer", "callback"}

AnyOf(S) == CHOOSE n \in S : TRUE
FreeControls == {k \in Controls : loader.controls[k].references = 0}
FreeObjects == {o \in Objects : objects[o].kind = "none"}
FreeNatives == {r \in Natives : natives[r] = "none"}
Is(o, kind) == objects[o].kind = kind

CallsTypeOK ==
    /\ loader.controls \in [Controls -> [library : Libraries \union {NoLibrary}, references : Nat]]
    /\ loader.held \in [Libraries -> Nat]
    /\ objects \in [Objects -> [kind : Kinds, control : Controls \union {None},
                                value : Natives \union {None, Closure, Foreign},
                                owns : BOOLEAN, scoped : BOOLEAN, failed : BOOLEAN]]
    /\ natives \in [Natives -> {"none", "owned", "released", "twice", "lost"}]
    /\ cache \subseteq [call : Calls, function : Objects]
    /\ resolving \in [Threads -> {NothingResolved} \union [call : Calls, function : Objects]]
    /\ Len(stack) <= MaxDepth /\ blocking \in 0 .. MaxDepth

CallsInit ==
    /\ loader = [controls |-> [k \in Controls |-> NoControl], held |-> [l \in Libraries |-> 0]]
    /\ objects = [o \in Objects |-> NoObject]
    /\ natives = [r \in Natives |-> "none"]
    /\ cache = {}
    /\ resolving = [t \in Threads |-> NothingResolved]
    /\ stack = <<>>
    /\ blocking = 0

----------------------------------------------------------------------------
(* Controls and what holds them. *)

Open(l, k, library) ==
    [controls |-> [l.controls EXCEPT ![k] = [library |-> library, references |-> 1]],
     held |-> [l.held EXCEPT ![library] = @ + 1]]
Retain(l, k) == IF k = None THEN l ELSE [l EXCEPT !.controls[k].references = @ + 1]

(* haxeon_native_release_control: the last reference unloads. *)
Release(l, k) ==
    IF k = None THEN l
    ELSE IF l.controls[k].references > 1 THEN [l EXCEPT !.controls[k].references = @ - 1]
    ELSE [controls |-> [l.controls EXCEPT ![k] = NoControl],
          held |-> [l.held EXCEPT ![l.controls[k].library] = @ - 1]]

Function(k) == [NoObject EXCEPT !.kind = "function", !.control = k]
Pointer(value, k) == [NoObject EXCEPT !.kind = "pointer", !.value = value, !.control = k]
Owned(value, k) == [Pointer(value, k) EXCEPT !.owns = TRUE]
ReleaseNative(n, r) == [n EXCEPT ![r] = IF @ = "owned" THEN "released" ELSE "twice"]

Top == stack[Len(stack)]
InHaxe == (stack # <<>> => Top.at = "haxe") /\ resolving[Main] = NothingResolved
InNative == stack # <<>> /\ Top.at = "native"
Pop == SubSeq(stack, 1, Len(stack) - 1)

(* haxeon_native_ffi_call: the thread counts as blocked while native code runs. *)
Enter(frame) ==
    /\ Len(stack) < MaxDepth
    /\ stack' = Append(stack, [frame EXCEPT !.at = "native"])
    /\ blocking' = blocking + 1

----------------------------------------------------------------------------
(* Libraries and functions the program holds itself: native_open, native_close, *)
(* native_resolve and native_call.                                            *)

OpenLibrary ==
    /\ InHaxe /\ FreeControls # {} /\ FreeObjects # {}
    /\ \E library \in Libraries :
          LET k == AnyOf(FreeControls)
          IN  /\ loader' = Open(loader, k, library)
              /\ objects' = [objects EXCEPT ![AnyOf(FreeObjects)] =
                                 [NoObject EXCEPT !.kind = "library", !.control = k]]
    /\ UNCHANGED <<natives, cache, resolving, stack, blocking>>

CloseLibrary(o) ==
    /\ InHaxe /\ Is(o, "library") /\ objects[o].control # None
    /\ loader' = Release(loader, objects[o].control)
    /\ objects' = [objects EXCEPT ![o].control = None]
    /\ UNCHANGED <<natives, cache, resolving, stack, blocking>>

(* The function is made from the library and does not count. *)
ResolveUncounted(o) ==
    /\ InHaxe /\ Is(o, "library") /\ objects[o].control # None /\ FreeObjects # {}
    /\ objects' = [objects EXCEPT ![AnyOf(FreeObjects)] = Function(objects[o].control)]
    /\ UNCHANGED <<loader, natives, cache, resolving, stack, blocking>>
Resolve(o) ==
    /\ InHaxe /\ Is(o, "library") /\ objects[o].control # None /\ FreeObjects # {}
    /\ objects' = [objects EXCEPT ![AnyOf(FreeObjects)] = Function(objects[o].control)]
    /\ loader' = Retain(loader, objects[o].control)
    /\ UNCHANGED <<natives, cache, resolving, stack, blocking>>

CallFunction(o) ==
    /\ InHaxe /\ Is(o, "function")
    /\ Enter([NoFrame EXCEPT !.control = objects[o].control, !.object = o])
    /\ UNCHANGED <<loader, objects, natives, cache, resolving>>

----------------------------------------------------------------------------
(* haxeon_native_cached_resolve: outside the lock a library of its own is opened,  *)
(* the function resolved and the library closed; an error leaves nothing behind    *)
(* but a function for the collector.                                             *)

Cached(call) == {entry \in cache : entry.call = call}

StartResolve(t, call) ==
    /\ resolving[t] = NothingResolved /\ (t = Main => InHaxe)
    /\ Cached(call) = {} /\ FreeControls # {} /\ FreeObjects # {}
    /\ LET k == AnyOf(FreeControls)
           o == AnyOf(FreeObjects)
       IN  /\ loader' = Release(Retain(Open(loader, k, call.library), k), k)
           /\ objects' = [objects EXCEPT ![o] = Function(k)]
           /\ resolving' = [resolving EXCEPT ![t] = [call |-> call, function |-> o]]
    /\ UNCHANGED <<natives, cache, stack, blocking>>

GiveUp(t) ==
    /\ resolving[t] # NothingResolved
    /\ resolving' = [resolving EXCEPT ![t] = NothingResolved]
    /\ UNCHANGED <<loader, objects, natives, cache, stack, blocking>>

(* Under the lock: whoever comes second drops what it has resolved. *)
Publish(t) ==
    /\ resolving[t] # NothingResolved
    /\ cache' = IF Cached(resolving[t].call) = {} THEN cache \union {resolving[t]} ELSE cache
    /\ resolving' = [resolving EXCEPT ![t] = NothingResolved]
    /\ UNCHANGED <<loader, objects, natives, stack, blocking>>

----------------------------------------------------------------------------
(* Ordinary calls.  A closed callback is refused before native code is entered. *)

OpenCallback(c) == c \in Objects /\ Is(c, "callback") /\ objects[c].value # None

Invoke(call, callback) ==
    /\ InHaxe /\ Cached(call) # {} /\ (callback # None => OpenCallback(callback))
    /\ \E entry \in Cached(call) :
          Enter([NoFrame EXCEPT !.control = objects[entry.function].control,
                                !.object = entry.function, !.callback = callback, !.call = call])
    /\ UNCHANGED <<loader, objects, natives, cache, resolving>>

(* A virtual method is found through the object, a returned callback through its address. *)
InvokeThrough(o) ==
    /\ InHaxe /\ objects[o].value # None
    /\ Enter([NoFrame EXCEPT !.control = objects[o].control, !.object = o,
                             !.callback = IF objects[o].value = Closure THEN o ELSE None])
    /\ UNCHANGED <<loader, objects, natives, cache, resolving>>

Return == InNative /\ stack' = Pop /\ blocking' = blocking - 1

(* A plain result, NULL, or an error for which nothing was allocated. *)
ReturnPlain == Return /\ UNCHANGED <<loader, objects, natives, cache, resolving>>

(* What the function allocated: native_pointer_wrap_owned, or text and bytes that  *)
(* are copied and released at once.  Without its release symbol it is lost.        *)
ReturnOwned ==
    LET r == AnyOf(FreeNatives)
        kept == Top.call.result = "pointer" /\ Top.call.release
        fate == IF kept THEN "owned" ELSE IF Top.call.release THEN "released" ELSE "lost"
    IN  /\ Return /\ Top.call.owned /\ FreeNatives # {} /\ FreeObjects # {}
        /\ natives' = [natives EXCEPT ![r] = fate]
        /\ IF kept
           THEN /\ objects' = [objects EXCEPT ![AnyOf(FreeObjects)] = Owned(r, Top.control)]
                /\ loader' = Retain(loader, Top.control)
           ELSE UNCHANGED <<objects, loader>>
        /\ UNCHANGED <<cache, resolving>>

(* Also the pointer that borrowed bytes were copied from: it cannot be closed. *)
ReturnBorrowed ==
    /\ Return /\ Top.call.result \in {"pointer", "bytes"} /\ ~Top.call.owned /\ FreeObjects # {}
    /\ objects' = [objects EXCEPT ![AnyOf(FreeObjects)] = Pointer(Foreign, Top.control)]
    /\ loader' = Retain(loader, Top.control)
    /\ UNCHANGED <<natives, cache, resolving>>

----------------------------------------------------------------------------
(* Pointers: native_pointer_alloc, structGetPointer of what another pointer has, *)
(* native_pointer_close and the finalizers.                                     *)

AllocPointer ==
    /\ InHaxe /\ FreeNatives # {} /\ FreeObjects # {}
    /\ natives' = [natives EXCEPT ![AnyOf(FreeNatives)] = "owned"]
    /\ objects' = [objects EXCEPT ![AnyOf(FreeObjects)] = Owned(AnyOf(FreeNatives), None)]
    /\ UNCHANGED <<loader, cache, resolving, stack, blocking>>

FieldPointer(o) ==
    /\ InHaxe /\ Is(o, "pointer") /\ objects[o].value # None /\ FreeObjects # {}
    /\ objects' = [objects EXCEPT ![AnyOf(FreeObjects)] = Pointer(objects[o].value, None)]
    /\ UNCHANGED <<loader, natives, cache, resolving, stack, blocking>>

(* Only what owns is closed; it is released once, and so is its library. *)
ClosePointer(o) ==
    /\ InHaxe /\ Is(o, "pointer") /\ objects[o].value # None /\ objects[o].owns
    /\ natives' = ReleaseNative(natives, objects[o].value)
    /\ objects' = [objects EXCEPT ![o] = Pointer(None, None)]
    /\ loader' = Release(loader, objects[o].control)
    /\ UNCHANGED <<cache, resolving, stack, blocking>>

Pinned ==
    {entry.function : entry \in cache}
    \union {resolving[t].function : t \in {u \in Threads : resolving[u] # NothingResolved}}
    \union UNION {{stack[i].object, stack[i].callback} : i \in DOMAIN stack}

(* A variant that frees the pointer alone. *)
FinalizeAddressOnly(o) == [natives |-> natives, loader |-> Release(loader, objects[o].control)]
Finalize(o) ==
    [natives |-> IF objects[o].owns THEN ReleaseNative(natives, objects[o].value) ELSE natives,
     loader |-> Release(loader, objects[o].control)]
Collect(o) ==
    /\ ~Is(o, "none") /\ o \notin Pinned
    /\ natives' = Finalize(o).natives /\ loader' = Finalize(o).loader
    /\ objects' = [objects EXCEPT ![o] = NoObject]
    /\ UNCHANGED <<cache, resolving, stack, blocking>>

----------------------------------------------------------------------------
(* Callbacks. *)

CreateCallback ==
    /\ InHaxe /\ FreeObjects # {}
    /\ objects' = [objects EXCEPT ![AnyOf(FreeObjects)] =
                       [NoObject EXCEPT !.kind = "callback", !.value = Closure]]
    /\ UNCHANGED <<loader, natives, cache, resolving, stack, blocking>>

CallbackFromPointer(o) ==
    /\ InHaxe /\ Is(o, "pointer") /\ objects[o].value # None /\ FreeObjects # {}
    /\ objects' = [objects EXCEPT ![AnyOf(FreeObjects)] =
                       [NoObject EXCEPT !.kind = "callback", !.value = objects[o].value,
                                        !.control = objects[o].control]]
    /\ loader' = Retain(loader, objects[o].control)
    /\ UNCHANGED <<natives, cache, resolving, stack, blocking>>

CloseCallback(c) ==
    /\ InHaxe /\ OpenCallback(c)
    /\ objects' = [objects EXCEPT ![c].value = None, ![c].control = None]
    /\ loader' = Release(loader, objects[c].control)
    /\ UNCHANGED <<natives, cache, resolving, stack, blocking>>

(* A failure stays until it is taken, whatever succeeds or fails later. *)
Failed(os, c, how) == IF how = "fine" THEN os ELSE [os EXCEPT ![c].failed = TRUE]
TakeError(c) ==
    /\ InHaxe /\ Is(c, "callback") /\ objects[c].failed
    /\ objects' = [objects EXCEPT ![c].failed = FALSE]
    /\ UNCHANGED <<loader, natives, cache, resolving, stack, blocking>>

(* Native code may keep a callback it was given, and call it on a thread of its own. *)
DispatchElsewhere(c) ==
    /\ Is(c, "callback") /\ objects[c].value = Closure
    /\ objects' = Failed(objects, c, "wrong thread")
    /\ UNCHANGED <<loader, natives, cache, resolving, stack, blocking>>

(* haxeon_native_callback_dispatch: an address it was given becomes a pointer for   *)
(* as long as the callback runs, in which the thread is not blocked.              *)
Dispatch(c) ==
    /\ InNative /\ c = Top.callback /\ c # None
    /\ Is(c, "callback") /\ objects[c].value = Closure
    /\ \/ /\ objects' = Failed(objects, c, "contract") /\ UNCHANGED <<stack, blocking>>
       \/ /\ Len(stack) < MaxDepth
          /\ \E o \in {None} \union IF FreeObjects = {} THEN {} ELSE {AnyOf(FreeObjects)} :
                /\ objects' = IF o = None THEN objects
                              ELSE [objects EXCEPT ![o] =
                                        [Pointer(Foreign, None) EXCEPT !.scoped = TRUE]]
                /\ stack' = Append(stack, [NoFrame EXCEPT !.callback = c, !.object = o])
          /\ blocking' = 0
    /\ UNCHANGED <<loader, natives, cache, resolving>>

(* A variant leaves the argument as it is when the callback throws. *)
ExpiredUnlessThrown(os, o, how) ==
    IF o = None \/ how = "exception" THEN os ELSE [os EXCEPT ![o].value = None]
Expired(os, o, how) == IF o = None THEN os ELSE [os EXCEPT ![o].value = None]
DispatchReturns(how) ==
    /\ stack # <<>> /\ InHaxe
    /\ objects' = Failed(Expired(objects, Top.object, how), Top.callback, how)
    /\ stack' = Pop
    /\ blocking' = 1
    /\ UNCHANGED <<loader, natives, cache, resolving>>

CallsNext ==
    \/ OpenLibrary \/ AllocPointer \/ CreateCallback
    \/ ReturnPlain \/ ReturnOwned \/ ReturnBorrowed
    \/ \E t \in Threads : GiveUp(t) \/ Publish(t) \/ \E call \in Calls : StartResolve(t, call)
    \/ \E call \in Calls, callback \in Objects \union {None} : Invoke(call, callback)
    \/ \E o \in Objects :
          \/ CloseLibrary(o) \/ Resolve(o) \/ CallFunction(o) \/ InvokeThrough(o)
          \/ FieldPointer(o) \/ ClosePointer(o) \/ Collect(o)
          \/ CallbackFromPointer(o) \/ CloseCallback(o) \/ TakeError(o)
          \/ Dispatch(o) \/ DispatchElsewhere(o)
    \/ \E how \in {"fine", "exception", "contract"} : DispatchReturns(how)

CallsSpec == CallsInit /\ [][CallsNext]_callVars

----------------------------------------------------------------------------
(* Whatever is closed, dropped or collected in whatever order, also from within a    *)
(* callback: a library is loaded as often as it has controls, a control counts what  *)
(* holds it, and so the code of every call under way, and the code that will release  *)
(* a pointer, is loaded; of a call there is one entry (C_HEADER_FFI.md: "Prepared     *)
(* functions retain the underlying library safely").                               *)
NativeCodeStaysLoaded ==
    LET Holders(k) == {o \in Objects : objects[o].control = k}
    IN  /\ \A k \in Controls : loader.controls[k].references = Cardinality(Holders(k))
        /\ \A library \in Libraries : loader.held[library] =
               Cardinality({k \in Controls : loader.controls[k].library = library})
        /\ \A i \in DOMAIN stack : stack[i].control # None =>
               loader.controls[stack[i].control].references > 0
        /\ \A entry, other \in cache : entry.call = other.call => entry = other

(* What native code allocated for the program is owned by one pointer until it is    *)
(* released, and released once (native_pointer_close, its finalizer).               *)
OwnedPointersReleasedOnce ==
    LET Owners(r) == {o \in Objects : objects[o].owns /\ objects[o].value = r}
    IN  \A r \in Natives :
            /\ natives[r] # "twice"
            /\ Cardinality(Owners(r)) = IF natives[r] = "owned" THEN 1 ELSE 0

(* A callback's argument has an address only while the callback runs, however it      *)
(* ends, and the thread is blocked for the collector exactly while native code runs   *)
(* (C_HEADER_FFI.md: "Every non-null wrapper is invalidated immediately after the     *)
(* callback returns, including exceptional returns").                              *)
CallbackScopesEnd ==
    /\ \A o \in Objects : objects[o].scoped /\ objects[o].value # None =>
           \E i \in DOMAIN stack : stack[i].at = "haxe" /\ stack[i].object = o
    /\ blocking = IF InNative THEN 1 ELSE 0
============================================================================
