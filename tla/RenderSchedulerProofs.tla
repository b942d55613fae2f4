----------------------- MODULE RenderSchedulerProofs -----------------------
(***************************************************************************)
(* Proofs about RenderScheduler, for any number of frames, runtimes and      *)
(* backends: every open ticket has one owner, the runner is neither lost nor  *)
(* doubled, a frame is drawn with its own live backend, and frames are       *)
(* presented in the order they were acquired in.                            *)
(*                                                                         *)
(* The invariant has three parts.  Line: completions, the frame being drawn,  *)
(* the pending slot and the frame being built hold the open tickets in the    *)
(* order of their acquisition, and orphans hold the rest.  RunnerOK: the flag *)
(* is up exactly while one thread or task carries it.  BackendsOK: what is    *)
(* destroyed, or will be, is not the backend of the slot.                    *)
(***************************************************************************)
EXTENDS RenderScheduler, SequenceTheorems, FiniteSetTheorems, TLAPS

Status == {"free", "open", "presented", "cancelled"}
Completion == [frame : Frame, success : BOOLEAN]
MaybeFrame == Frame \union {NoFrame}
Building == IF platform.at = "building" THEN platform.frame ELSE NoFrame

FramesOf(q) == {q[i].frame : i \in DOMAIN q}
Rising(q) == \A i, j \in DOMAIN q : i < j => q[i].frame < q[j].frame
Ahead(f, g) == f # NoFrame /\ g # NoFrame => f < g
InLine(done, r, p, b) == done \union ({r, p, b} \ {NoFrame})

(* Tickets t, the frames done, drawn, pending and built, and the orphans.      *)
Line(t, done, r, p, b, o) ==
    /\ \A f \in done : Ahead(f, r) /\ Ahead(f, p) /\ Ahead(f, b)
    /\ Ahead(r, p) /\ Ahead(r, b) /\ Ahead(p, b)
    /\ \A f \in InLine(done, r, p, b) : f \notin o
    /\ \A f \in Frame : t[f] = "open" <=> f \in InLine(done, r, p, b) \/ f \in o
    /\ \A f \in InLine(done, r, p, b), g \in Frame : t[g] = "presented" => g < f
    /\ \A f, g \in Frame : f < g /\ t[f] = "free" => t[g] = "free"

LineOK ==
    /\ Rising(completions)
    /\ Line(ticket, FramesOf(completions), render.frame, pending, Building, orphans)
    /\ platform.at = "building" => platform.frame # NoFrame
    /\ platform.at = "dispatching" => platform.frame # NoFrame /\ platform.frame = pending
    /\ render.frame # NoFrame <=> render.at \in {"taken", "drawing", "drawn"}

HasRun(q) == \E i \in DOMAIN q : q[i] = Run
OneRun(q) == \A i, j \in DOMAIN q : q[i] = Run /\ q[j] = Run => i = j
Doomed(q) == {q[i] : i \in DOMAIN q} \ {Run}

RunnerOK ==
    /\ runner <=> HasRun(tasks) \/ platform.at = "dispatching" \/ render.at # "idle"
    /\ OneRun(tasks)
    /\ HasRun(tasks) => platform.at # "dispatching" /\ render.at = "idle"
    /\ platform.at = "dispatching" => render.at = "idle"
    /\ pending # NoFrame => runner
    /\ runner => runtime.up /\ generation = runtime.generation
    /\ platform.at # "idle" => runtime.up

BackendsOK ==
    /\ slot.active => slot.handle <= MaxBackend
    /\ platform.at = "closing" => slot.active
    /\ gone \subseteq 1..made /\ Doomed(tasks) \subseteq 1..made
    /\ slot.backend <= made /\ slot.backend \notin gone /\ slot.backend \notin Doomed(tasks)
    /\ DrawsWithLiveBackend

SchedulerOK == SchedulerTypeOK /\ LineOK /\ RunnerOK /\ BackendsOK

Cancel(t, frames) ==
    [f \in Frame |-> IF f \in frames /\ t[f] = "open" THEN "cancelled" ELSE t[f]]

----------------------------------------------------------------------------
(* Queues. *)

LEMMA Appended ==
    ASSUME NEW S, NEW q \in Seq(S), NEW e \in S
    PROVE  /\ Append(q, e) \in Seq(S)
           /\ DOMAIN Append(q, e) = DOMAIN q \union {Len(q) + 1}
           /\ \A i \in DOMAIN q : Append(q, e)[i] = q[i] /\ i < Len(q) + 1
           /\ Append(q, e)[Len(q) + 1] = e
           /\ Len(q) + 1 \notin DOMAIN q
  BY AppendProperties, LenProperties

LEMMA Shortened ==
    ASSUME NEW S, NEW q \in Seq(S), q # << >>
    PROVE  /\ Tail(q) \in Seq(S) /\ Head(q) = q[1] /\ Head(q) \in S
           /\ 1 \in DOMAIN q
           /\ \A i \in DOMAIN Tail(q) : i + 1 \in DOMAIN q /\ Tail(q)[i] = q[i + 1]
           /\ \A i \in DOMAIN q : i # 1 => i - 1 \in DOMAIN Tail(q) /\ Tail(q)[i - 1] = q[i]
           /\ DOMAIN q \subseteq Nat \ {0} /\ DOMAIN Tail(q) \subseteq Nat \ {0}
  <1>1. /\ Tail(q) \in Seq(S) /\ Head(q) = q[1] /\ Head(q) \in S
        /\ Len(q) \in Nat \ {0} /\ Len(Tail(q)) = Len(q) - 1
        /\ \A i \in 1..Len(Tail(q)) : Tail(q)[i] = q[i + 1]
    BY HeadTailProperties, LenProperties, EmptySeq
  <1>2. DOMAIN q = 1..Len(q) /\ DOMAIN Tail(q) = 1..Len(Tail(q))
    BY <1>1, LenProperties
  <1> QED
    BY <1>1, <1>2

LEMMA QueueOfCompletions ==
    ASSUME NEW q \in Seq(Completion)
    PROVE  /\ Len(q) \in Nat /\ DOMAIN q = 1..Len(q)
           /\ \A i \in DOMAIN q : i \in Nat /\ q[i].frame \in Frame
           /\ FramesOf(q) \in SUBSET Frame
  <1>1. Len(q) \in Nat /\ DOMAIN q = 1..Len(q)
    BY LenProperties
  <1>2. \A i \in 1..Len(q) : q[i] \in Completion
    BY ElementOfSeq
  <1>3. \A i \in DOMAIN q : i \in Nat /\ q[i].frame \in Frame
    BY <1>1, <1>2 DEF Completion
  <1> QED
    BY <1>1, <1>3 DEF FramesOf

LEMMA AppendedRises ==
    ASSUME NEW q \in Seq(Completion), NEW e \in Completion, Rising(q),
           \A f \in FramesOf(q) : Ahead(f, e.frame)
    PROVE  /\ Append(q, e) \in Seq(Completion) /\ Rising(Append(q, e))
           /\ FramesOf(Append(q, e)) = FramesOf(q) \union {e.frame}
  <1> DEFINE r == Append(q, e)
  <1>1. /\ r \in Seq(Completion)
        /\ DOMAIN r = DOMAIN q \union {Len(q) + 1}
        /\ \A i \in DOMAIN q : r[i] = q[i] /\ i < Len(q) + 1
        /\ r[Len(q) + 1] = e /\ Len(q) + 1 \notin DOMAIN q
    BY Appended
  <1>2. \A i \in DOMAIN q : i \in Nat /\ q[i].frame \in Frame
    BY QueueOfCompletions
  <1>3. Len(q) \in Nat /\ e.frame \in Frame
    BY QueueOfCompletions DEF Completion
  <1> HIDE DEF r
  <1>4. FramesOf(r) = FramesOf(q) \union {e.frame}
    BY <1>1 DEF FramesOf
  <1>5. Rising(r)
    <2> SUFFICES ASSUME NEW i \in DOMAIN r, NEW j \in DOMAIN r, i < j
                 PROVE  r[i].frame < r[j].frame
      BY DEF Rising
    <2>1. i \in DOMAIN q
      BY <1>1, <1>2, <1>3
    <2>2. CASE j \in DOMAIN q
      BY <1>1, <2>1, <2>2 DEF Rising
    <2>3. CASE j = Len(q) + 1
      <3>1. q[i].frame \in FramesOf(q)
        BY <2>1 DEF FramesOf
      <3> QED
        BY <1>1, <1>2, <1>3, <2>1, <2>3, <3>1, SchedulerBounds DEF Ahead, Frame, NoFrame
    <2> QED
      BY <1>1, <2>2, <2>3
  <1> QED
    BY <1>1, <1>4, <1>5 DEF r

LEMMA ShortenedRises ==
    ASSUME NEW q \in Seq(Completion), q # << >>, Rising(q)
    PROVE  /\ Head(q) \in Completion /\ Tail(q) \in Seq(Completion) /\ Rising(Tail(q))
           /\ FramesOf(q) = {Head(q).frame} \union FramesOf(Tail(q))
           /\ \A f \in FramesOf(Tail(q)) : Head(q).frame < f
  <1> DEFINE r == Tail(q)
  <1>1. /\ r \in Seq(Completion) /\ Head(q) = q[1] /\ Head(q) \in Completion
        /\ 1 \in DOMAIN q
        /\ \A i \in DOMAIN r : i + 1 \in DOMAIN q /\ r[i] = q[i + 1]
        /\ \A i \in DOMAIN q : i # 1 => i - 1 \in DOMAIN r /\ r[i - 1] = q[i]
        /\ DOMAIN q \subseteq Nat \ {0} /\ DOMAIN r \subseteq Nat \ {0}
    BY Shortened
  <1> HIDE DEF r
  <1>2. Rising(r)
    <2> SUFFICES ASSUME NEW i \in DOMAIN r, NEW j \in DOMAIN r, i < j
                 PROVE  r[i].frame < r[j].frame
      BY DEF Rising
    <2>1. i + 1 < j + 1 /\ i + 1 \in DOMAIN q /\ j + 1 \in DOMAIN q
      BY <1>1
    <2> QED
      BY <1>1, <2>1 DEF Rising
  <1>3. FramesOf(q) = {q[1].frame} \union FramesOf(r)
    <2>1. \A i \in DOMAIN q : i = 1 \/ q[i].frame \in FramesOf(r)
      BY <1>1 DEF FramesOf
    <2>2. \A i \in DOMAIN r : r[i].frame \in FramesOf(q)
      BY <1>1 DEF FramesOf
    <2>3. q[1].frame \in FramesOf(q)
      BY <1>1 DEF FramesOf
    <2> QED
      BY <2>1, <2>2, <2>3 DEF FramesOf
  <1>4. \A f \in FramesOf(r) : q[1].frame < f
    <2> SUFFICES ASSUME NEW i \in DOMAIN r PROVE q[1].frame < r[i].frame
      BY DEF FramesOf
    <2>1. 1 < i + 1 /\ i + 1 \in DOMAIN q /\ r[i] = q[i + 1]
      BY <1>1
    <2> QED
      BY <1>1, <2>1 DEF Rising
  <1> QED
    BY <1>1, <1>2, <1>3, <1>4 DEF r

(* A rising queue holds a frame at most once. *)
LEMMA CountedInQueue ==
    ASSUME NEW q \in Seq(Completion), Rising(q), NEW f
    PROVE  Cardinality({i \in DOMAIN q : q[i].frame = f}) = IF f \in FramesOf(q) THEN 1 ELSE 0
  <1> DEFINE C == {i \in DOMAIN q : q[i].frame = f}
  <1>1. CASE f \notin FramesOf(q)
    <2>1. C = {}
      BY <1>1 DEF FramesOf
    <2> QED
      BY <1>1, <2>1, FS_EmptySet
  <1>2. CASE f \in FramesOf(q)
    <2>1. PICK i \in DOMAIN q : q[i].frame = f
      BY <1>2 DEF FramesOf
    <2>2. \A j \in DOMAIN q : j \in Nat /\ q[j].frame \in Nat
      BY QueueOfCompletions, SchedulerBounds DEF Frame
    <2>3. \A j \in C : j = i
      <3> SUFFICES ASSUME NEW j \in DOMAIN q, q[j].frame = f, j # i PROVE FALSE
        OBVIOUS
      <3>1. i < j \/ j < i
        BY <2>2
      <3> QED
        BY <2>1, <2>2, <3>1 DEF Rising
    <2>4. C = {i}
      BY <2>1, <2>3
    <2> QED
      BY <1>2, <2>4, FS_Singleton
  <1> QED
    BY <1>1, <1>2

LEMMA AppendedTask ==
    ASSUME NEW q \in Seq(0..MaxBackend), NEW e \in 0..MaxBackend
    PROVE  /\ Append(q, e) \in Seq(0..MaxBackend)
           /\ HasRun(Append(q, e)) <=> HasRun(q) \/ e = Run
           /\ OneRun(q) /\ (HasRun(q) => e # Run) => OneRun(Append(q, e))
           /\ Doomed(Append(q, e)) = Doomed(q) \union ({e} \ {Run})
  <1> DEFINE r == Append(q, e)
  <1>1. /\ r \in Seq(0..MaxBackend)
        /\ DOMAIN r = DOMAIN q \union {Len(q) + 1}
        /\ \A i \in DOMAIN q : r[i] = q[i] /\ i < Len(q) + 1
        /\ r[Len(q) + 1] = e
    BY Appended
  <1> HIDE DEF r
  <1>2. HasRun(r) <=> HasRun(q) \/ e = Run
    BY <1>1 DEF HasRun
  <1>3. OneRun(q) /\ (HasRun(q) => e # Run) => OneRun(r)
    BY <1>1 DEF HasRun, OneRun
  <1>4. Doomed(r) = Doomed(q) \union ({e} \ {Run})
    BY <1>1 DEF Doomed
  <1> QED
    BY <1>1, <1>2, <1>3, <1>4 DEF r

LEMMA ShortenedTasks ==
    ASSUME NEW q \in Seq(0..MaxBackend), q # << >>
    PROVE  /\ Head(q) \in 0..MaxBackend /\ Tail(q) \in Seq(0..MaxBackend)
           /\ HasRun(q) <=> Head(q) = Run \/ HasRun(Tail(q))
           /\ OneRun(q) => OneRun(Tail(q)) /\ (Head(q) = Run => ~HasRun(Tail(q)))
           /\ Doomed(q) = Doomed(Tail(q)) \union ({Head(q)} \ {Run})
  <1> DEFINE r == Tail(q)
  <1>1. /\ r \in Seq(0..MaxBackend) /\ Head(q) = q[1] /\ Head(q) \in 0..MaxBackend
        /\ 1 \in DOMAIN q
        /\ \A i \in DOMAIN r : i + 1 \in DOMAIN q /\ r[i] = q[i + 1]
        /\ \A i \in DOMAIN q : i # 1 => i - 1 \in DOMAIN r /\ r[i - 1] = q[i]
        /\ DOMAIN q \subseteq Nat \ {0} /\ DOMAIN r \subseteq Nat \ {0}
    BY Shortened
  <1> HIDE DEF r
  <1>2. HasRun(q) <=> q[1] = Run \/ HasRun(r)
    <2>1. HasRun(q) => q[1] = Run \/ HasRun(r)
      BY <1>1 DEF HasRun
    <2>2. q[1] = Run \/ HasRun(r) => HasRun(q)
      BY <1>1 DEF HasRun
    <2> QED
      BY <2>1, <2>2
  <1>3. OneRun(q) => OneRun(r) /\ (q[1] = Run => ~HasRun(r))
    <2> HAVE OneRun(q)
    <2>1. OneRun(r)
      <3> SUFFICES ASSUME NEW i \in DOMAIN r, NEW j \in DOMAIN r, r[i] = Run, r[j] = Run
                   PROVE  i = j
        BY DEF OneRun
      <3>1. i + 1 = j + 1
        BY <1>1 DEF OneRun
      <3> QED
        BY <1>1, <3>1, SMTT(30)
    <2>2. ASSUME q[1] = Run, NEW i \in DOMAIN r, r[i] = Run PROVE FALSE
      <3>1. i + 1 = 1
        BY <1>1, <2>2 DEF OneRun
      <3> QED
        BY <1>1, <3>1
    <2> QED
      BY <2>1, <2>2 DEF HasRun
  <1>4. Doomed(q) = Doomed(r) \union ({q[1]} \ {Run})
    <2>1. \A i \in DOMAIN q : i = 1 \/ q[i] = Run \/ q[i] \in Doomed(r)
      BY <1>1 DEF Doomed
    <2>2. \A i \in DOMAIN r : r[i] = Run \/ r[i] \in Doomed(q)
      BY <1>1 DEF Doomed
    <2>3. q[1] = Run \/ q[1] \in Doomed(q)
      BY <1>1 DEF Doomed
    <2> QED
      BY <2>1, <2>2, <2>3 DEF Doomed
  <1> QED
    BY <1>1, <1>2, <1>3, <1>4 DEF r

LEMMA RunCounted ==
    ASSUME NEW q \in Seq(0..MaxBackend), OneRun(q)
    PROVE  Cardinality({i \in DOMAIN q : q[i] = Run}) = IF HasRun(q) THEN 1 ELSE 0
  <1> DEFINE C == {i \in DOMAIN q : q[i] = Run}
  <1>1. CASE ~HasRun(q)
    <2>1. C = {}
      BY <1>1 DEF HasRun
    <2> QED
      BY <1>1, <2>1, FS_EmptySet
  <1>2. CASE HasRun(q)
    <2>1. PICK i \in DOMAIN q : q[i] = Run
      BY <1>2 DEF HasRun
    <2>2. C = {i}
      BY <2>1 DEF OneRun
    <2> QED
      BY <1>2, <2>2, FS_Singleton
  <1> QED
    BY <1>1, <1>2

LEMMA NothingQueued ==
    /\ << >> \in Seq(Completion) /\ << >> \in Seq(0..MaxBackend)
    /\ Rising(<< >>) /\ FramesOf(<< >>) = {}
    /\ ~HasRun(<< >>) /\ OneRun(<< >>) /\ Doomed(<< >>) = {}
  BY DEF Rising, FramesOf, HasRun, OneRun, Doomed

----------------------------------------------------------------------------
(* What an operation does to the line. *)

LEMMA CancelIsPointwise ==
    ASSUME NEW t \in [Frame -> Status], NEW frames
    PROVE  /\ Cancel(t, frames) \in [Frame -> Status]
           /\ \A f \in Frame :
                  /\ Cancel(t, frames)[f] = "open" <=> t[f] = "open" /\ f \notin frames
                  /\ Cancel(t, frames)[f] = "presented" <=> t[f] = "presented"
                  /\ Cancel(t, frames)[f] = "free" <=> t[f] = "free"
  BY DEF Cancel, Status

LEMMA AcquiringKeepsLine ==
    ASSUME NEW t \in [Frame -> Status], NEW done \in SUBSET Frame, NEW r \in MaybeFrame,
           NEW p \in MaybeFrame, NEW o \in SUBSET Frame, Line(t, done, r, p, NoFrame, o),
           NEW f \in Frame, t[f] = "free", \A g \in Frame : g < f => t[g] # "free"
    PROVE  Line([Cancel(t, o) EXCEPT ![f] = "open"], done, r, p, f, {})
  <1> DEFINE c == Cancel(t, o)
             u == [c EXCEPT ![f] = "open"]
  <1>1. /\ c \in [Frame -> Status]
        /\ \A g \in Frame : /\ c[g] = "open" <=> t[g] = "open" /\ g \notin o
                            /\ c[g] = "presented" <=> t[g] = "presented"
                            /\ c[g] = "free" <=> t[g] = "free"
    BY CancelIsPointwise
  <1> HIDE DEF c
  <1>2. /\ u[f] = "open"
        /\ \A g \in Frame : g # f => /\ u[g] = "open" <=> t[g] = "open" /\ g \notin o
                                     /\ u[g] = "presented" <=> t[g] = "presented"
                                     /\ u[g] = "free" <=> t[g] = "free"
    BY <1>1
  <1> HIDE DEF u
  <1>3. f # NoFrame /\ \A g \in Frame : t[g] # "free" => g < f
    BY SchedulerBounds DEF Frame, NoFrame, Line
  <1>4. \A g \in InLine(done, r, p, NoFrame) : g \in Frame /\ t[g] = "open" /\ g < f /\ g \notin o
    BY <1>3 DEF InLine, MaybeFrame, Line
  <1>5. InLine(done, r, p, f) = InLine(done, r, p, NoFrame) \union {f}
    BY <1>3 DEF InLine
  <1>6. /\ \A g \in done : Ahead(g, r) /\ Ahead(g, p) /\ Ahead(g, f)
        /\ Ahead(r, p) /\ Ahead(r, f) /\ Ahead(p, f)
    BY <1>4 DEF Line, Ahead, InLine
  <1>7. \A g \in Frame : u[g] = "open" <=> g \in InLine(done, r, p, f)
    BY <1>2, <1>4, <1>5 DEF Line
  <1>8. \A h \in InLine(done, r, p, f), g \in Frame : u[g] = "presented" => g < h
    BY <1>2, <1>3, <1>4, <1>5 DEF Line
  <1>9. \A h, g \in Frame : h < g /\ u[h] = "free" => u[g] = "free"
    BY <1>2, <1>3 DEF Line, Frame
  <1> QED
    BY <1>6, <1>7, <1>8, <1>9 DEF Line, c, u

(* The line after some of its frames were cancelled, moved up, or orphaned.    *)
LEMMA CancellingKeepsLine ==
    ASSUME NEW t \in [Frame -> Status], NEW done \in SUBSET Frame, NEW r \in MaybeFrame,
           NEW p \in MaybeFrame, NEW b \in MaybeFrame, NEW o \in SUBSET Frame,
           Line(t, done, r, p, b, o),
           NEW done2 \in SUBSET Frame, NEW r2 \in MaybeFrame, NEW p2 \in MaybeFrame,
           NEW b2 \in MaybeFrame, NEW o2 \in SUBSET Frame, NEW frames,
           InLine(done2, r2, p2, b2) \subseteq InLine(done, r, p, b),
           InLine(done2, r2, p2, b2) \union o2
               = (InLine(done, r, p, b) \union o) \ frames,
           \A f \in InLine(done2, r2, p2, b2) : f \notin o2,
           \A f \in done2 : Ahead(f, r2) /\ Ahead(f, p2) /\ Ahead(f, b2),
           Ahead(r2, p2), Ahead(r2, b2), Ahead(p2, b2)
    PROVE  Line(Cancel(t, frames), done2, r2, p2, b2, o2)
  <1>1. \A g \in Frame : /\ Cancel(t, frames)[g] = "open" <=> t[g] = "open" /\ g \notin frames
                         /\ Cancel(t, frames)[g] = "presented" <=> t[g] = "presented"
                         /\ Cancel(t, frames)[g] = "free" <=> t[g] = "free"
    BY CancelIsPointwise
  <1> QED
    BY <1>1 DEF Line

LEMMA MovingKeepsLine ==
    ASSUME NEW t \in [Frame -> Status], NEW done \in SUBSET Frame, NEW r \in MaybeFrame,
           NEW p \in MaybeFrame, NEW b \in MaybeFrame, NEW o \in SUBSET Frame,
           Line(t, done, r, p, b, o),
           NEW done2 \in SUBSET Frame, NEW r2 \in MaybeFrame, NEW p2 \in MaybeFrame,
           NEW b2 \in MaybeFrame, NEW o2 \in SUBSET Frame,
           InLine(done2, r2, p2, b2) \subseteq InLine(done, r, p, b),
           InLine(done2, r2, p2, b2) \union o2 = InLine(done, r, p, b) \union o,
           \A f \in InLine(done2, r2, p2, b2) : f \notin o2,
           \A f \in done2 : Ahead(f, r2) /\ Ahead(f, p2) /\ Ahead(f, b2),
           Ahead(r2, p2), Ahead(r2, b2), Ahead(p2, b2)
    PROVE  Line(t, done2, r2, p2, b2, o2)
  BY DEF Line

(* The first of the completions is presented. *)
LEMMA PresentingKeepsLine ==
    ASSUME NEW t \in [Frame -> Status], NEW done \in SUBSET Frame, NEW r \in MaybeFrame,
           NEW p \in MaybeFrame, NEW b \in MaybeFrame, NEW o \in SUBSET Frame,
           Line(t, done, r, p, b, o), NEW rest \in SUBSET Frame, NEW f \in Frame,
           done = {f} \union rest, \A g \in rest : f < g
    PROVE  Line([t EXCEPT ![f] = "presented"], rest, r, p, b, o)
  <1> DEFINE u == [t EXCEPT ![f] = "presented"]
  <1>1. u[f] = "presented" /\ \A g \in Frame : g # f => u[g] = t[g]
    OBVIOUS
  <1> HIDE DEF u
  <1>2. f # NoFrame /\ t[f] = "open" /\ f \notin o /\ f \in InLine(done, r, p, b)
    BY SchedulerBounds DEF Line, InLine, Frame, NoFrame
  <1>3. \A g \in InLine(rest, r, p, b) : g \in Frame /\ f < g
    BY <1>2 DEF Line, InLine, Ahead, MaybeFrame
  <1>4. InLine(done, r, p, b) = {f} \union InLine(rest, r, p, b)
    BY DEF InLine
  <1>5. f \notin InLine(rest, r, p, b)
    BY <1>3 DEF Frame
  <1>6. \A g \in Frame : u[g] = "open" <=> g \in InLine(rest, r, p, b) \/ g \in o
    BY <1>1, <1>2, <1>4, <1>5 DEF Line
  <1>7. \A h \in InLine(rest, r, p, b), g \in Frame : u[g] = "presented" => g < h
    <2> SUFFICES ASSUME NEW h \in InLine(rest, r, p, b), NEW g \in Frame,
                        u[g] = "presented"
                 PROVE  g < h
      OBVIOUS
    <2>1. CASE g = f
      BY <1>3, <2>1
    <2>2. CASE g # f
      <3>1. t[g] = "presented" /\ h \in InLine(done, r, p, b)
        BY <1>1, <1>4, <2>2
      <3> QED
        BY <3>1 DEF Line
    <2> QED
      BY <2>1, <2>2
  <1>8. \A h, g \in Frame : h < g /\ u[h] = "free" => u[g] = "free"
    <2> SUFFICES ASSUME NEW h \in Frame, NEW g \in Frame, h < g, u[h] = "free"
                 PROVE  u[g] = "free"
      OBVIOUS
    <2>1. h # f /\ t[h] = "free"
      BY <1>1
    <2>2. t[g] = "free"
      BY <2>1 DEF Line
    <2> QED
      BY <1>1, <1>2, <2>2
  <1> QED
    BY <1>4, <1>6, <1>7, <1>8 DEF Line, u

----------------------------------------------------------------------------
(* The invariant holds, and every step keeps it. *)

LEMMA Shapes ==
    ASSUME SchedulerTypeOK
    PROVE  /\ ticket \in [Frame -> Status] /\ orphans \in SUBSET Frame
           /\ completions \in Seq(Completion) /\ FramesOf(completions) \in SUBSET Frame
           /\ pending \in MaybeFrame /\ Building \in MaybeFrame
           /\ render.frame \in MaybeFrame /\ render.success \in BOOLEAN
           /\ tasks \in Seq(0..MaxBackend)
           /\ NoFrame \notin Frame /\ NoFrame \in MaybeFrame
           /\ MaxBackend \in Nat /\ MaxRuntime \in Nat
  <1>1. completions \in Seq(Completion)
    BY DEF SchedulerTypeOK, Completion
  <1>2. FramesOf(completions) \in SUBSET Frame
    BY <1>1, QueueOfCompletions
  <1> QED
    BY <1>1, <1>2, SchedulerBounds
       DEF SchedulerTypeOK, Status, MaybeFrame, Building, Frame, NoFrame

LEMMA IdleThreads ==
    /\ PlatformIdle \in [at : PlatformAt, frame : Frame \union {NoFrame}]
    /\ Idle \in [at : RenderAt, frame : Frame \union {NoFrame},
                 backend : 0..MaxBackend, success : BOOLEAN]
    /\ PlatformIdle.at = "idle" /\ PlatformIdle.frame = NoFrame
    /\ Idle.at = "idle" /\ Idle.frame = NoFrame
  BY SchedulerBounds DEF PlatformIdle, Idle, PlatformAt, RenderAt, NoFrame, NoBackend

LEMMA SchedulerOKInitially == SchedulerInit => SchedulerOK
  <1> SUFFICES ASSUME SchedulerInit PROVE SchedulerOK
    OBVIOUS
  <1>1. SchedulerTypeOK
    <2>1. slot \in [handle : Handle, active : BOOLEAN, backend : 0..MaxBackend]
      BY SchedulerBounds DEF SchedulerInit, Handle, NoBackend
    <2>2. runtime \in [generation : 0..MaxRuntime, up : BOOLEAN]
      BY SchedulerBounds DEF SchedulerInit
    <2>3. /\ rendererOf \in [Frame -> Handle] /\ generation \in 0..MaxRuntime
          /\ made \in 0..MaxBackend
      BY SchedulerBounds DEF SchedulerInit, Handle, NoHandle
    <2>4. tasks \in Seq(0..MaxBackend) /\ completions \in Seq([frame : Frame, success : BOOLEAN])
      BY DEF SchedulerInit
    <2> QED
      BY <2>1, <2>2, <2>3, <2>4, IdleThreads DEF SchedulerInit, SchedulerTypeOK
  <1>2. LineOK
    BY NothingQueued, SchedulerBounds
       DEF SchedulerInit, LineOK, Line, InLine, Ahead, Building, Idle, PlatformIdle, Frame, NoFrame
  <1>3. RunnerOK
    BY NothingQueued DEF SchedulerInit, RunnerOK, Idle, PlatformIdle, NoFrame
  <1>4. BackendsOK
    BY NothingQueued DEF SchedulerInit, BackendsOK, DrawsWithLiveBackend, Idle, PlatformIdle, NoBackend
  <1> QED
    BY <1>1, <1>2, <1>3, <1>4 DEF SchedulerOK

(* Steps that only take or give back a lock, or look at nothing the invariant *)
(* reads.                                                                    *)
LEMMA LocksKeepOK ==
    ASSUME SchedulerOK, BeginDestroy \/ BeginStats \/ ReadStats
    PROVE  SchedulerOK'
  <1>1. SchedulerTypeOK'
    BY DEF SchedulerOK, SchedulerTypeOK, BeginDestroy, BeginStats, ReadStats, PlatformIdle,
           PlatformAt, NoFrame
  <1>2. Building' = Building /\ platform.at # "dispatching" /\ platform'.at # "dispatching"
        /\ platform'.at # "building"
    BY DEF Building, BeginDestroy, BeginStats, ReadStats, PlatformIdle, SchedulerOK, SchedulerTypeOK
  <1>3. LineOK'
    BY <1>2 DEF SchedulerOK, LineOK, BeginDestroy, BeginStats, ReadStats
  <1>4. RunnerOK'
    BY <1>2 DEF SchedulerOK, RunnerOK, BeginDestroy, BeginStats, ReadStats, PlatformIdle
  <1>5. BackendsOK'
    BY IdleThreads
       DEF SchedulerOK, BackendsOK, DrawsWithLiveBackend, Resolves, BeginDestroy, BeginStats,
           ReadStats
  <1> QED
    BY <1>1, <1>3, <1>4, <1>5 DEF SchedulerOK

LEMMA CreateRendererKeepsOK ==
    ASSUME SchedulerOK, CreateRenderer
    PROVE  SchedulerOK'
  <1>1. SchedulerTypeOK'
    <2>1. NoBackend \in 0..MaxBackend
      BY SchedulerBounds DEF NoBackend
    <2>2. slot' \in [handle : Handle, active : BOOLEAN, backend : 0..MaxBackend]
      BY <2>1 DEF SchedulerOK, SchedulerTypeOK, CreateRenderer
    <2> QED
      BY <2>2 DEF SchedulerOK, SchedulerTypeOK, CreateRenderer
  <1>2. LineOK'
    BY DEF SchedulerOK, LineOK, Building, CreateRenderer
  <1>3. RunnerOK'
    BY DEF SchedulerOK, RunnerOK, CreateRenderer
  <1>4. BackendsOK'
    <2>1. render.at # "drawing"
      BY DEF SchedulerOK, BackendsOK, DrawsWithLiveBackend, Resolves, CreateRenderer
    <2>2. slot'.backend = 0 /\ slot'.handle = slot.handle /\ slot.handle <= MaxBackend
      BY DEF SchedulerOK, SchedulerTypeOK, CreateRenderer, NoBackend
    <2> QED
      BY <2>1, <2>2, Shapes DEF SchedulerOK, SchedulerTypeOK, BackendsOK, DrawsWithLiveBackend,
                               CreateRenderer
  <1> QED
    BY <1>1, <1>2, <1>3, <1>4 DEF SchedulerOK

LEMMA AcquireFrameKeepsOK ==
    ASSUME SchedulerOK, AcquireFrame
    PROVE  SchedulerOK'
  <1>1. PICK f \in Frame :
            /\ ticket[f] = "free" /\ \A g \in Frame : g < f => ticket[g] # "free"
            /\ ticket' = [Cancel(ticket, orphans) EXCEPT ![f] = "open"]
            /\ platform' = [at |-> "building", frame |-> f]
            /\ rendererOf' = [rendererOf EXCEPT ![f] = slot.handle]
    BY DEF AcquireFrame, Cancelled, Cancel
  <1>2. Building = NoFrame /\ Building' = f /\ f # NoFrame
    BY <1>1, Shapes DEF Building, AcquireFrame, SchedulerOK
  <1>3. ticket' \in [Frame -> Status]
    BY <1>1, Shapes, CancelIsPointwise DEF SchedulerOK, Status
  <1>4. SchedulerTypeOK'
    BY <1>1, <1>3 DEF SchedulerOK, SchedulerTypeOK, AcquireFrame, Status, PlatformAt
  <1>5. LineOK'
    <2>1. Line(ticket, FramesOf(completions), render.frame, pending, NoFrame, orphans)
      BY <1>2 DEF SchedulerOK, LineOK
    <2>2. Line(ticket', FramesOf(completions), render.frame, pending, f, {})
      BY <1>1, <2>1, Shapes, AcquiringKeepsLine DEF SchedulerOK
    <2> QED
      BY <1>1, <1>2, <2>2 DEF SchedulerOK, LineOK, AcquireFrame
  <1>6. RunnerOK'
    BY <1>1 DEF SchedulerOK, RunnerOK, AcquireFrame
  <1>7. BackendsOK'
    <2>1. ASSUME render.at = "drawing" PROVE render.frame \in Frame /\ render.frame # f
      BY <1>1, <2>1, Shapes DEF SchedulerOK, LineOK, Line, InLine, MaybeFrame
    <2> QED
      BY <1>1, <2>1 DEF SchedulerOK, SchedulerTypeOK, BackendsOK, DrawsWithLiveBackend, Resolves,
                       AcquireFrame
  <1> QED
    BY <1>4, <1>5, <1>6, <1>7 DEF SchedulerOK

LEMMA RejectFrameKeepsOK ==
    ASSUME SchedulerOK, RejectFrame
    PROVE  SchedulerOK'
  <1>1. /\ platform.frame # NoFrame /\ platform.frame = Building /\ Building' = NoFrame
        /\ ticket' = Cancel(ticket, {Building}) /\ platform' = PlatformIdle
    BY DEF SchedulerOK, LineOK, Building, RejectFrame, Cancelled, Cancel, PlatformIdle
  <1>2. ticket' \in [Frame -> Status]
    BY <1>1, Shapes, CancelIsPointwise DEF SchedulerOK
  <1>3. SchedulerTypeOK'
    BY <1>1, <1>2, IdleThreads DEF SchedulerOK, SchedulerTypeOK, RejectFrame, Status
  <1>4. LineOK'
    <2> DEFINE done == FramesOf(completions)
               r == render.frame
    <2>1. Line(ticket, done, r, pending, Building, orphans)
      BY DEF SchedulerOK, LineOK
    <2>2. done \in SUBSET Frame /\ r \in MaybeFrame /\ pending \in MaybeFrame
          /\ Building \in MaybeFrame /\ orphans \in SUBSET Frame /\ ticket \in [Frame -> Status]
          /\ NoFrame \in MaybeFrame /\ NoFrame \notin Frame
      BY Shapes DEF SchedulerOK
    <2> HIDE DEF done, r
    <2>3. /\ Building \notin InLine(done, r, pending, NoFrame) /\ Building \notin orphans
          /\ InLine(done, r, pending, Building) = InLine(done, r, pending, NoFrame) \union {Building}
      BY <1>1, <2>1, <2>2, SchedulerBounds DEF Line, InLine, Ahead, Frame, MaybeFrame
    <2>4. /\ \A f \in InLine(done, r, pending, NoFrame) : f \notin orphans
          /\ \A f \in done : Ahead(f, r) /\ Ahead(f, pending) /\ Ahead(f, NoFrame)
          /\ Ahead(r, pending) /\ Ahead(r, NoFrame) /\ Ahead(pending, NoFrame)
      BY <2>1, <2>3 DEF Line, Ahead
    <2>5. Line(ticket', done, r, pending, NoFrame, orphans)
      BY <1>1, <2>1, <2>2, <2>3, <2>4, CancellingKeepsLine
    <2> QED
      BY <1>1, <2>5 DEF SchedulerOK, LineOK, RejectFrame, PlatformIdle, done, r
  <1>5. RunnerOK'
    BY <1>1 DEF SchedulerOK, RunnerOK, RejectFrame, PlatformIdle
  <1>6. BackendsOK'
    BY <1>1, IdleThreads DEF SchedulerOK, BackendsOK, DrawsWithLiveBackend, Resolves, RejectFrame
  <1> QED
    BY <1>3, <1>4, <1>5, <1>6 DEF SchedulerOK

LEMMA SubmitKeepsOK ==
    ASSUME SchedulerOK, Submit
    PROVE  SchedulerOK'
  <1> DEFINE done == FramesOf(completions)
             r == render.frame
             b == platform.frame
  <1>1. /\ Line(ticket, done, r, pending, b, orphans)
        /\ done \in SUBSET Frame /\ r \in MaybeFrame /\ pending \in MaybeFrame
        /\ b \in MaybeFrame /\ orphans \in SUBSET Frame /\ ticket \in [Frame -> Status]
        /\ NoFrame \in MaybeFrame /\ NoFrame \notin Frame /\ b # NoFrame
    BY Shapes DEF SchedulerOK, LineOK, Submit, Building
  <1>2. /\ ticket' = Cancel(ticket, orphans \union Some(pending))
        /\ pending' = b /\ orphans' = {} /\ runner' = TRUE
        /\ generation' = runtime.generation
        /\ \/ platform' = PlatformIdle /\ runner
           \/ /\ platform' = [at |-> "dispatching", frame |-> b]
              /\ ~runner
    BY DEF Submit, Cancelled, Cancel, SchedulerOK, RunnerOK, SchedulerTypeOK
  <1>3. ticket' \in [Frame -> Status]
    BY <1>1, <1>2, CancelIsPointwise
  <1>4. SchedulerTypeOK'
    <2>1. platform' \in [at : PlatformAt, frame : Frame \union {NoFrame}]
      BY <1>1, <1>2, IdleThreads DEF PlatformAt, MaybeFrame
    <2> QED
      BY <1>1, <1>2, <1>3, <2>1 DEF SchedulerOK, SchedulerTypeOK, Submit, Status, MaybeFrame
  <1>5. LineOK'
    <2> HIDE DEF done, r, b
    <2>1. /\ InLine(done, r, b, NoFrame) \subseteq InLine(done, r, pending, b)
          /\ \A f \in InLine(done, r, b, NoFrame) : f # pending /\ f \notin orphans /\ f \in Frame
      BY <1>1, SchedulerBounds DEF Line, InLine, Ahead, Frame, MaybeFrame
    <2>2. InLine(done, r, pending, b) = InLine(done, r, b, NoFrame) \union Some(pending)
      BY <1>1 DEF InLine, Some
    <2>3. /\ \A f \in done : Ahead(f, r) /\ Ahead(f, b) /\ Ahead(f, NoFrame)
          /\ Ahead(r, b) /\ Ahead(r, NoFrame) /\ Ahead(b, NoFrame)
      BY <1>1 DEF Line, Ahead
    <2>4. /\ InLine(done, r, b, NoFrame) \union {}
                 = (InLine(done, r, pending, b) \union orphans) \ (orphans \union Some(pending))
          /\ \A f \in InLine(done, r, b, NoFrame) : f \notin {}
      BY <2>1, <2>2 DEF Some
    <2>5. Line(ticket', done, r, b, NoFrame, {})
      BY <1>1, <1>2, <2>1, <2>3, <2>4, CancellingKeepsLine
    <2>6. /\ Building' = NoFrame /\ platform'.at # "building"
          /\ platform'.at = "dispatching" => platform'.frame # NoFrame /\ platform'.frame = pending'
      BY <1>1, <1>2, IdleThreads DEF Building
    <2> QED
      BY <1>2, <2>5, <2>6 DEF SchedulerOK, LineOK, Submit, done, r
  <1>6. RunnerOK'
    <2>1. platform.at = "building"
      BY DEF Submit
    <2> QED
      BY <1>2, <2>1, IdleThreads DEF SchedulerOK, RunnerOK, Submit
  <1>7. BackendsOK'
    BY DEF SchedulerOK, BackendsOK, DrawsWithLiveBackend, Resolves, Submit
  <1> QED
    BY <1>4, <1>5, <1>6, <1>7 DEF SchedulerOK

LEMMA DispatchRunnerKeepsOK ==
    ASSUME SchedulerOK, DispatchRunner
    PROVE  SchedulerOK'
  <1>1. /\ tasks \in Seq(0..MaxBackend) /\ Run \in 0..MaxBackend
        /\ platform.at = "dispatching" /\ platform' = PlatformIdle /\ tasks' = Append(tasks, Run)
    BY SchedulerBounds DEF SchedulerOK, SchedulerTypeOK, DispatchRunner, Run, NoBackend
  <1>2. /\ tasks' \in Seq(0..MaxBackend) /\ HasRun(tasks') /\ OneRun(tasks')
        /\ Doomed(tasks') = Doomed(tasks)
    <2> DEFINE q == Append(tasks, Run)
    <2>1. /\ q \in Seq(0..MaxBackend) /\ HasRun(q)
          /\ OneRun(tasks) /\ ~HasRun(tasks) => OneRun(q)
          /\ Doomed(q) = Doomed(tasks) \union ({Run} \ {Run})
      BY <1>1, AppendedTask
    <2>2. OneRun(tasks) /\ ~HasRun(tasks)
      BY <1>1 DEF SchedulerOK, RunnerOK
    <2> HIDE DEF q
    <2>3. OneRun(q) /\ Doomed(q) = Doomed(tasks)
      BY <2>1, <2>2
    <2> QED
      BY <1>1, <2>1, <2>3 DEF q
  <1>3. SchedulerTypeOK'
    BY <1>1, <1>2, IdleThreads DEF SchedulerOK, SchedulerTypeOK, DispatchRunner
  <1>4. LineOK'
    BY <1>1, IdleThreads DEF SchedulerOK, LineOK, Building, DispatchRunner
  <1>5. RunnerOK'
    BY <1>1, <1>2, IdleThreads DEF SchedulerOK, RunnerOK, DispatchRunner
  <1>6. BackendsOK'
    BY <1>1, <1>2, IdleThreads
       DEF SchedulerOK, BackendsOK, DrawsWithLiveBackend, Resolves, DispatchRunner
  <1> QED
    BY <1>3, <1>4, <1>5, <1>6 DEF SchedulerOK

LEMMA DispatchRefusedKeepsOK ==
    ASSUME SchedulerOK, DispatchRefused
    PROVE  SchedulerOK'
  <1> DEFINE done == FramesOf(completions)
             r == render.frame
  <1>1. /\ Line(ticket, done, r, pending, NoFrame, orphans)
        /\ done \in SUBSET Frame /\ r \in MaybeFrame /\ pending \in MaybeFrame
        /\ orphans \in SUBSET Frame /\ ticket \in [Frame -> Status]
        /\ NoFrame \in MaybeFrame /\ NoFrame \notin Frame /\ pending # NoFrame
        /\ platform.frame = pending
    BY Shapes DEF SchedulerOK, LineOK, DispatchRefused, Building
  <1>2. /\ ticket' = Cancel(ticket, {pending}) /\ pending' = NoFrame /\ runner' = FALSE
        /\ platform' = PlatformIdle
    BY <1>1 DEF DispatchRefused, Cancelled, Cancel, Some
  <1>3. ticket' \in [Frame -> Status]
    BY <1>1, <1>2, CancelIsPointwise
  <1>4. SchedulerTypeOK'
    BY <1>2, <1>3, IdleThreads DEF SchedulerOK, SchedulerTypeOK, DispatchRefused, Status
  <1>5. LineOK'
    <2> HIDE DEF done, r
    <2>1. /\ InLine(done, r, NoFrame, NoFrame) \subseteq InLine(done, r, pending, NoFrame)
          /\ \A f \in InLine(done, r, NoFrame, NoFrame) : f # pending /\ f \notin orphans
          /\ pending \notin orphans
      BY <1>1, SchedulerBounds DEF Line, InLine, Ahead, Frame, MaybeFrame
    <2>2. InLine(done, r, pending, NoFrame) = InLine(done, r, NoFrame, NoFrame) \union {pending}
      BY <1>1 DEF InLine
    <2>3. /\ \A f \in done : Ahead(f, r) /\ Ahead(f, NoFrame)
          /\ Ahead(r, NoFrame) /\ Ahead(NoFrame, NoFrame)
      BY <1>1 DEF Line, Ahead
    <2>4. InLine(done, r, NoFrame, NoFrame) \union orphans
              = (InLine(done, r, pending, NoFrame) \union orphans) \ {pending}
      BY <2>1, <2>2
    <2>5. Line(ticket', done, r, NoFrame, NoFrame, orphans)
      BY <1>1, <1>2, <2>1, <2>3, <2>4, CancellingKeepsLine
    <2> QED
      BY <1>2, <2>5, IdleThreads
         DEF SchedulerOK, LineOK, DispatchRefused, Building, done, r
  <1>6. RunnerOK'
    BY <1>2, IdleThreads DEF SchedulerOK, RunnerOK, DispatchRefused
  <1>7. BackendsOK'
    BY <1>2, IdleThreads
       DEF SchedulerOK, BackendsOK, DrawsWithLiveBackend, Resolves, DispatchRefused
  <1> QED
    BY <1>4, <1>5, <1>6, <1>7 DEF SchedulerOK

LEMMA DestroyRendererKeepsOK ==
    ASSUME SchedulerOK, DestroyRenderer
    PROVE  SchedulerOK'
  <1>1. /\ tasks \in Seq(0..MaxBackend) /\ slot.backend \in 0..MaxBackend /\ made \in 0..MaxBackend
        /\ platform.at = "closing" /\ platform' = PlatformIdle /\ render.at # "drawing"
        /\ slot' = [handle |-> slot.handle + 1, active |-> FALSE, backend |-> NoBackend]
    BY DEF SchedulerOK, SchedulerTypeOK, DestroyRenderer, MayClose, ExecutionShared
  <1>2. /\ tasks' \in Seq(0..MaxBackend)
        /\ HasRun(tasks') <=> HasRun(tasks)
        /\ OneRun(tasks) => OneRun(tasks')
        /\ Doomed(tasks') \subseteq Doomed(tasks) \union ({slot.backend} \ {NoBackend})
        /\ gone' \subseteq gone \union ({slot.backend} \ {NoBackend})
    <2>1. CASE UNCHANGED tasks
      BY <1>1, <2>1 DEF DestroyRenderer
    <2>2. CASE slot.backend # NoBackend /\ tasks' = Append(tasks, slot.backend) /\ UNCHANGED gone
      BY <1>1, <2>2, AppendedTask DEF Run
    <2> QED
      BY <2>1, <2>2 DEF DestroyRenderer
  <1>3. SchedulerTypeOK'
    <2>1. slot.handle + 1 \in Handle /\ NoBackend \in 0..MaxBackend
      BY <1>1, SchedulerBounds
         DEF SchedulerOK, SchedulerTypeOK, BackendsOK, Handle, NoBackend
    <2>2. slot' \in [handle : Handle, active : BOOLEAN, backend : 0..MaxBackend]
      BY <1>1, <2>1
    <2>3. gone' \subseteq 1..MaxBackend
      BY <1>1, <1>2 DEF SchedulerOK, SchedulerTypeOK, NoBackend
    <2> QED
      BY <1>1, <1>2, <2>2, <2>3, IdleThreads DEF SchedulerOK, SchedulerTypeOK, DestroyRenderer
  <1>4. LineOK'
    BY <1>1, IdleThreads DEF SchedulerOK, LineOK, Building, DestroyRenderer
  <1>5. RunnerOK'
    BY <1>1, <1>2, IdleThreads DEF SchedulerOK, RunnerOK, DestroyRenderer
  <1>6. BackendsOK'
    <2>1. render'.at # "drawing" /\ made' = made
      BY <1>1 DEF DestroyRenderer
    <2>2. /\ gone' \subseteq 1..made /\ Doomed(tasks') \subseteq 1..made
          /\ NoBackend \notin gone' /\ NoBackend \notin Doomed(tasks') /\ NoBackend <= made
      BY <1>1, <1>2, SchedulerBounds DEF SchedulerOK, BackendsOK, NoBackend
    <2> QED
      BY <1>1, <2>1, <2>2, IdleThreads DEF BackendsOK, DrawsWithLiveBackend
  <1> QED
    BY <1>3, <1>4, <1>5, <1>6 DEF SchedulerOK

LEMMA FinishSubmissionKeepsOK ==
    ASSUME SchedulerOK, FinishSubmission
    PROVE  SchedulerOK'
  <1> DEFINE rest == Tail(completions)
             f == Head(completions).frame
             done == FramesOf(completions)
             r == render.frame
  <1>1. /\ Head(completions) \in Completion /\ rest \in Seq(Completion) /\ Rising(rest)
        /\ done = {f} \union FramesOf(rest)
        /\ \A g \in FramesOf(rest) : f < g
    BY Shapes, ShortenedRises DEF SchedulerOK, LineOK, FinishSubmission
  <1>2. f \in Frame /\ FramesOf(rest) \in SUBSET Frame
    BY <1>1, QueueOfCompletions DEF Completion
  <1>3. /\ Line(ticket, done, r, pending, NoFrame, orphans) /\ Building = NoFrame
        /\ done \in SUBSET Frame /\ r \in MaybeFrame /\ pending \in MaybeFrame
        /\ orphans \in SUBSET Frame /\ ticket \in [Frame -> Status]
        /\ NoFrame \in MaybeFrame /\ NoFrame \notin Frame
    BY Shapes DEF SchedulerOK, LineOK, FinishSubmission, Building
  <1>4. /\ completions' = rest /\ platform' = platform /\ platform.at = "idle"
        /\ \/ ticket' = [ticket EXCEPT ![f] = "presented"]
           \/ ticket' = Cancel(ticket, {f})
    BY DEF FinishSubmission, Cancelled, Cancel
  <1> HIDE DEF rest, f, done, r
  <1>5. ticket' \in [Frame -> Status]
    BY <1>2, <1>3, <1>4, CancelIsPointwise DEF Status
  <1>6. SchedulerTypeOK'
    BY <1>1, <1>4, <1>5 DEF SchedulerOK, SchedulerTypeOK, FinishSubmission, Status, Completion
  <1>7. LineOK'
    <2>1. CASE ticket' = [ticket EXCEPT ![f] = "presented"]
      <3>1. Line(ticket', FramesOf(rest), r, pending, NoFrame, orphans)
        BY <1>1, <1>2, <1>3, <2>1, PresentingKeepsLine
      <3> QED
        BY <1>1, <1>3, <1>4, <3>1 DEF SchedulerOK, LineOK, Building, FinishSubmission, r
    <2>2. CASE ticket' = Cancel(ticket, {f})
      <3> DEFINE d == FramesOf(rest)
      <3>1. d \in SUBSET Frame /\ done = {f} \union d /\ \A g \in d : f < g
        BY <1>1, <1>2
      <3> HIDE DEF d
      <3>2. f \notin InLine(d, r, pending, NoFrame) /\ f \notin orphans
        BY <1>2, <1>3, <3>1, SchedulerBounds DEF Line, InLine, Ahead, Frame, MaybeFrame, NoFrame
      <3>3. /\ InLine(done, r, pending, NoFrame) = {f} \union InLine(d, r, pending, NoFrame)
            /\ \A g \in InLine(d, r, pending, NoFrame) : g \notin orphans
            /\ \A g \in d : Ahead(g, r) /\ Ahead(g, pending) /\ Ahead(g, NoFrame)
            /\ Ahead(r, pending) /\ Ahead(r, NoFrame) /\ Ahead(pending, NoFrame)
        BY <1>3, <3>1 DEF Line, InLine, Ahead
      <3>4. /\ InLine(d, r, pending, NoFrame) \subseteq InLine(done, r, pending, NoFrame)
            /\ InLine(d, r, pending, NoFrame) \union orphans
                   = (InLine(done, r, pending, NoFrame) \union orphans) \ {f}
        BY <3>2, <3>3
      <3>5. Line(ticket', d, r, pending, NoFrame, orphans)
        BY <1>3, <2>2, <3>1, <3>3, <3>4, CancellingKeepsLine
      <3> QED
        BY <1>1, <1>3, <1>4, <3>5 DEF SchedulerOK, LineOK, Building, FinishSubmission, r, d
    <2> QED
      BY <1>4, <2>1, <2>2
  <1>8. RunnerOK'
    BY DEF SchedulerOK, RunnerOK, FinishSubmission
  <1>9. BackendsOK'
    BY DEF SchedulerOK, BackendsOK, DrawsWithLiveBackend, Resolves, FinishSubmission
  <1> QED
    BY <1>6, <1>7, <1>8, <1>9 DEF SchedulerOK

LEMMA TakeSubmissionKeepsOK ==
    ASSUME SchedulerOK, TakeSubmission
    PROVE  SchedulerOK'
  <1> DEFINE done == FramesOf(completions)
  <1>1. /\ tasks \in Seq(0..MaxBackend) /\ tasks # << >> /\ Head(tasks) = Run
        /\ tasks' = Tail(tasks) /\ render.at = "idle" /\ render.frame = NoFrame
    BY DEF SchedulerOK, SchedulerTypeOK, LineOK, TakeSubmission
  <1>2. /\ tasks' \in Seq(0..MaxBackend) /\ HasRun(tasks) /\ ~HasRun(tasks') /\ OneRun(tasks')
        /\ Doomed(tasks') \subseteq Doomed(tasks)
    <2> DEFINE q == Tail(tasks)
    <2>1. OneRun(tasks)
      BY DEF SchedulerOK, RunnerOK
    <2>2. /\ q \in Seq(0..MaxBackend) /\ HasRun(tasks) /\ ~HasRun(q) /\ OneRun(q)
          /\ Doomed(tasks) = Doomed(q) \union ({Head(tasks)} \ {Run})
      BY <1>1, <2>1, ShortenedTasks
    <2> HIDE DEF q
    <2>3. Doomed(q) \subseteq Doomed(tasks)
      BY <2>2
    <2> QED
      BY <1>1, <2>2, <2>3 DEF q
  <1>3. /\ Line(ticket, done, NoFrame, pending, Building, orphans)
        /\ done \in SUBSET Frame /\ pending \in MaybeFrame /\ Building \in MaybeFrame
        /\ orphans \in SUBSET Frame /\ ticket \in [Frame -> Status]
        /\ NoFrame \in MaybeFrame /\ NoFrame \notin Frame
    BY <1>1, Shapes DEF SchedulerOK, LineOK
  <1>4. platform.at # "dispatching" /\ runner
    BY <1>2 DEF SchedulerOK, RunnerOK
  <1> HIDE DEF done
  <1>5. CASE pending = NoFrame
    <2>1. runner' = FALSE /\ UNCHANGED <<render, pending>>
      BY <1>5 DEF TakeSubmission
    <2>2. SchedulerTypeOK'
      BY <1>2, <2>1 DEF SchedulerOK, SchedulerTypeOK, TakeSubmission
    <2>3. LineOK'
      BY <2>1 DEF SchedulerOK, LineOK, Building, TakeSubmission
    <2>4. RunnerOK'
      BY <1>1, <1>2, <1>4, <1>5, <2>1 DEF SchedulerOK, RunnerOK, TakeSubmission
    <2>5. BackendsOK'
      BY <1>2, <2>1 DEF SchedulerOK, BackendsOK, DrawsWithLiveBackend, Resolves, TakeSubmission
    <2> QED
      BY <2>2, <2>3, <2>4, <2>5 DEF SchedulerOK
  <1>6. CASE pending # NoFrame
    <2>1. /\ render' = [Idle EXCEPT !.at = "taken", !.frame = pending]
          /\ pending' = NoFrame /\ runner' = runner
      BY <1>6 DEF TakeSubmission
    <2>2. /\ render' \in [at : RenderAt, frame : Frame \union {NoFrame},
                          backend : 0..MaxBackend, success : BOOLEAN]
          /\ render'.at = "taken" /\ render'.frame = pending
      BY <1>3, <2>1, IdleThreads DEF RenderAt, MaybeFrame
    <2>3. SchedulerTypeOK'
      BY <1>2, <2>1, <2>2 DEF SchedulerOK, SchedulerTypeOK, TakeSubmission
    <2>4. LineOK'
      <3>1. /\ InLine(done, pending, NoFrame, Building) = InLine(done, NoFrame, pending, Building)
            /\ \A f \in InLine(done, pending, NoFrame, Building) : f \notin orphans
            /\ \A f \in done : Ahead(f, pending) /\ Ahead(f, NoFrame) /\ Ahead(f, Building)
            /\ Ahead(pending, NoFrame) /\ Ahead(pending, Building) /\ Ahead(NoFrame, Building)
        BY <1>3 DEF Line, InLine, Ahead
      <3>2. Line(ticket, done, pending, NoFrame, Building, orphans)
        BY <1>3, <3>1, MovingKeepsLine
      <3> QED
        BY <1>4, <1>6, <2>1, <2>2, <3>2 DEF SchedulerOK, LineOK, Building, TakeSubmission, done
    <2>5. RunnerOK'
      BY <1>2, <1>4, <2>1, <2>2 DEF SchedulerOK, RunnerOK, TakeSubmission
    <2>6. BackendsOK'
      BY <1>2, <2>2 DEF SchedulerOK, BackendsOK, DrawsWithLiveBackend, TakeSubmission
    <2> QED
      BY <2>3, <2>4, <2>5, <2>6 DEF SchedulerOK
  <1> QED
    BY <1>5, <1>6

(* Steps of the render thread between taking a frame and reporting it. *)
LEMMA UseBackendKeepsOK ==
    ASSUME SchedulerOK, UseBackend
    PROVE  SchedulerOK'
  <1>1. PICK keep \in BOOLEAN :
           /\ keep => slot.backend # NoBackend
           /\ ~keep => made < MaxBackend
           /\ made' = IF keep THEN made ELSE made + 1
           /\ gone' = IF keep THEN gone ELSE gone \union ({slot.backend} \ {NoBackend})
           /\ slot' = [slot EXCEPT !.backend = IF keep THEN @ ELSE made + 1]
           /\ render' = [render EXCEPT !.at = "drawing", !.backend = slot'.backend]
    BY DEF UseBackend
  <1>2. /\ made \in 0..MaxBackend /\ gone \subseteq 1..MaxBackend
        /\ slot \in [handle : Handle, active : BOOLEAN, backend : 0..MaxBackend]
        /\ render \in [at : RenderAt, frame : Frame \union {NoFrame},
                       backend : 0..MaxBackend, success : BOOLEAN]
        /\ MaxBackend \in Nat /\ NoBackend = 0
    BY SchedulerBounds DEF SchedulerOK, SchedulerTypeOK, NoBackend
  <1>3. /\ made' \in 0..MaxBackend /\ made <= made' /\ slot'.backend \in 0..MaxBackend
        /\ slot' \in [handle : Handle, active : BOOLEAN, backend : 0..MaxBackend]
        /\ slot'.active = slot.active /\ slot'.handle = slot.handle
        /\ slot'.backend = IF keep THEN slot.backend ELSE made + 1
    BY <1>1, <1>2
  <1>4. /\ render' \in [at : RenderAt, frame : Frame \union {NoFrame},
                        backend : 0..MaxBackend, success : BOOLEAN]
        /\ render'.at = "drawing" /\ render'.frame = render.frame
        /\ render'.backend = slot'.backend
    BY <1>1, <1>2, <1>3 DEF RenderAt
  <1>5. gone' \subseteq 1..MaxBackend
    BY <1>1, <1>2
  <1>6. SchedulerTypeOK'
    BY <1>3, <1>4, <1>5 DEF SchedulerOK, SchedulerTypeOK, UseBackend
  <1>7. LineOK'
    BY <1>4 DEF SchedulerOK, LineOK, Building, UseBackend
  <1>8. RunnerOK'
    BY <1>4 DEF SchedulerOK, RunnerOK, UseBackend
  <1>9. BackendsOK'
    <2>1. /\ gone \subseteq 1..made /\ Doomed(tasks) \subseteq 1..made
          /\ slot.backend <= made /\ slot.backend \notin gone /\ slot.backend \notin Doomed(tasks)
      BY DEF SchedulerOK, BackendsOK
    <2> DEFINE doomed == Doomed(tasks)
    <2> HIDE DEF doomed
    <2>2. /\ gone' \subseteq 1..made' /\ doomed \subseteq 1..made'
          /\ slot'.backend <= made' /\ slot'.backend \notin gone' /\ slot'.backend \notin doomed
      BY <1>1, <1>2, <1>3, <2>1 DEF doomed
    <2> QED
      BY <1>3, <1>4, <2>2
         DEF SchedulerOK, BackendsOK, DrawsWithLiveBackend, Resolves, UseBackend, doomed
  <1> QED
    BY <1>6, <1>7, <1>8, <1>9 DEF SchedulerOK

LEMMA DrawingKeepsOK ==
    ASSUME SchedulerOK, NoBackendForFrame \/ DrawFrame
    PROVE  SchedulerOK'
  <1>1. /\ render' \in [at : RenderAt, frame : Frame \union {NoFrame},
                        backend : 0..MaxBackend, success : BOOLEAN]
        /\ render'.at = "drawn" /\ render'.frame = render.frame
        /\ render.at \in {"taken", "drawing"}
    <2>1. /\ render \in [at : RenderAt, frame : Frame \union {NoFrame},
                         backend : 0..MaxBackend, success : BOOLEAN]
          /\ NoBackend \in 0..MaxBackend /\ "drawn" \in RenderAt
      BY SchedulerBounds DEF SchedulerOK, SchedulerTypeOK, NoBackend, RenderAt
    <2>2. CASE NoBackendForFrame
      BY <2>1, <2>2 DEF NoBackendForFrame
    <2>3. CASE DrawFrame
      BY <2>1, <2>3 DEF DrawFrame
    <2> QED
      BY <2>2, <2>3
  <1>2. SchedulerTypeOK'
    BY <1>1, ZenonT(60) DEF SchedulerOK, SchedulerTypeOK, NoBackendForFrame, DrawFrame
  <1>3. LineOK'
    BY <1>1 DEF SchedulerOK, LineOK, Building, NoBackendForFrame, DrawFrame
  <1>4. RunnerOK'
    BY <1>1 DEF SchedulerOK, RunnerOK, NoBackendForFrame, DrawFrame
  <1>5. BackendsOK'
    BY <1>1 DEF SchedulerOK, BackendsOK, DrawsWithLiveBackend, NoBackendForFrame, DrawFrame
  <1> QED
    BY <1>2, <1>3, <1>4, <1>5 DEF SchedulerOK

(* A frame drawn, or refused, goes to the completions or to the orphans.       *)
LEMMA HandedBack ==
    ASSUME SchedulerOK, NEW f \in Frame, NEW success \in BOOLEAN, HandBack(f, success),
           NEW r \in MaybeFrame, NEW p \in MaybeFrame,
           \/ f = render.frame /\ r = NoFrame /\ p = pending
           \/ f = pending /\ render.frame = NoFrame /\ r = NoFrame /\ p = NoFrame
    PROVE  /\ completions' \in Seq(Completion) /\ orphans' \in SUBSET Frame
           /\ Rising(completions')
           /\ Line(ticket, FramesOf(completions'), r, p, Building, orphans')
  <1> DEFINE done == FramesOf(completions)
             r0 == render.frame
             b == Building
             e == [frame |-> f, success |-> success]
  <1>1. /\ Line(ticket, done, r0, pending, b, orphans) /\ Rising(completions)
        /\ done \in SUBSET Frame /\ r0 \in MaybeFrame /\ pending \in MaybeFrame /\ b \in MaybeFrame
        /\ orphans \in SUBSET Frame /\ ticket \in [Frame -> Status]
        /\ completions \in Seq(Completion)
        /\ NoFrame \in MaybeFrame /\ NoFrame \notin Frame
    BY Shapes DEF SchedulerOK, LineOK
  <1>2. e \in Completion /\ e.frame = f
    BY DEF Completion
  <1>3. \A g \in done : Ahead(g, f)
    BY <1>1 DEF Line
  <1> HIDE DEF done, r0, b, e
  <1>4. InLine(done \union {f}, r, p, b) = InLine(done, r0, pending, b)
    BY <1>1 DEF InLine, r0
  <1>5. /\ InLine(done, r0, pending, b) = InLine(done, r, p, b) \union {f}
        /\ f \notin InLine(done, r, p, b)
    <2>1. InLine(done, r0, pending, b) = InLine(done, r, p, b) \union {f}
      BY <1>1 DEF InLine, r0
    <2>2. f \notin done /\ f # b /\ f # p
      BY <1>1, <1>3, SchedulerBounds DEF Line, Ahead, Frame, NoFrame, r0
    <2> QED
      BY <1>1, <2>1, <2>2 DEF InLine
  <1>6. /\ \A g \in done \union {f} : Ahead(g, r) /\ Ahead(g, p) /\ Ahead(g, b)
        /\ Ahead(r, p) /\ Ahead(r, b) /\ Ahead(p, b)
    BY <1>1 DEF Line, Ahead, r0
  <1>7. CASE completions' = Append(completions, e) /\ UNCHANGED orphans
    <2> DEFINE q == Append(completions, e)
    <2>1. q \in Seq(Completion) /\ Rising(q) /\ FramesOf(q) = done \union {f}
      BY <1>1, <1>2, <1>3, AppendedRises DEF done
    <2> HIDE DEF q
    <2>2. Line(ticket, done \union {f}, r, p, b, orphans)
      <3>1. done \union {f} \in SUBSET Frame
        BY <1>1
      <3>2. \A g \in InLine(done \union {f}, r, p, b) : g \notin orphans
        BY <1>1, <1>4 DEF Line
      <3>3. /\ InLine(done \union {f}, r, p, b) \subseteq InLine(done, r0, pending, b)
            /\ InLine(done \union {f}, r, p, b) \union orphans
                   = InLine(done, r0, pending, b) \union orphans
        BY <1>4
      <3> QED
        BY <1>1, <1>6, <3>1, <3>2, <3>3, MovingKeepsLine
    <2>3. completions' = q /\ orphans' = orphans
      BY <1>7 DEF q
    <2> QED
      BY <1>1, <2>1, <2>2, <2>3 DEF b
  <1>8. CASE orphans' = orphans \union {f} /\ UNCHANGED completions
    <2> DEFINE o == orphans \union {f}
    <2>1. /\ \A g \in InLine(done, r, p, b) : g \notin o
          /\ InLine(done, r, p, b) \union o = InLine(done, r0, pending, b) \union orphans
          /\ InLine(done, r, p, b) \subseteq InLine(done, r0, pending, b)
          /\ o \in SUBSET Frame
      BY <1>1, <1>5 DEF Line
    <2> HIDE DEF o
    <2>2. Line(ticket, done, r, p, b, o)
      BY <1>1, <1>6, <2>1, MovingKeepsLine
    <2>3. completions' = completions /\ orphans' = o
      BY <1>8 DEF o
    <2> QED
      BY <1>1, <2>1, <2>2, <2>3 DEF b, done
  <1> QED
    BY <1>7, <1>8 DEF HandBack, e

LEMMA ReportKeepsOK ==
    ASSUME SchedulerOK, Report
    PROVE  SchedulerOK'
  <1>1. /\ render.at = "drawn" /\ render.frame \in Frame /\ render.success \in BOOLEAN
        /\ HandBack(render.frame, render.success)
        /\ pending \in MaybeFrame /\ NoFrame \in MaybeFrame
    BY Shapes DEF SchedulerOK, LineOK, MaybeFrame, Report
  <1>2. /\ completions' \in Seq(Completion) /\ orphans' \in SUBSET Frame
        /\ Rising(completions')
        /\ Line(ticket, FramesOf(completions'), NoFrame, pending, Building, orphans')
    BY <1>1, HandedBack
  <1>3. render' \in [at : RenderAt, frame : Frame \union {NoFrame},
                     backend : 0..MaxBackend, success : BOOLEAN]
        /\ render'.at = "reported" /\ render'.frame = NoFrame
    BY IdleThreads DEF Report, RenderAt
  <1>4. SchedulerTypeOK'
    BY <1>2, <1>3 DEF SchedulerOK, SchedulerTypeOK, Report, Completion
  <1>5. LineOK'
    BY <1>2, <1>3 DEF SchedulerOK, LineOK, Building, Report
  <1>6. RunnerOK'
    BY <1>1, <1>3 DEF SchedulerOK, RunnerOK, Report
  <1>7. BackendsOK'
    BY <1>3 DEF SchedulerOK, BackendsOK, DrawsWithLiveBackend, Report
  <1> QED
    BY <1>4, <1>5, <1>6, <1>7 DEF SchedulerOK

LEMMA RescheduleKeepsOK ==
    ASSUME SchedulerOK, Reschedule
    PROVE  SchedulerOK'
  <1>1. /\ tasks \in Seq(0..MaxBackend) /\ Run \in 0..MaxBackend /\ render.at = "reported"
        /\ render.frame = NoFrame /\ ~HasRun(tasks) /\ OneRun(tasks) /\ runner
        /\ platform.at # "dispatching"
    BY SchedulerBounds
       DEF SchedulerOK, SchedulerTypeOK, LineOK, RunnerOK, Reschedule, Run, NoBackend
  <1>2. /\ render' \in [at : RenderAt, frame : Frame \union {NoFrame},
                        backend : 0..MaxBackend, success : BOOLEAN]
        /\ render'.at \in {"idle", "refused"} /\ render'.frame = NoFrame
    BY IdleThreads DEF Reschedule, RenderAt
  <1>3. /\ tasks' \in Seq(0..MaxBackend) /\ Doomed(tasks') = Doomed(tasks) /\ OneRun(tasks')
        /\ IF pending = NoFrame
           THEN ~HasRun(tasks') /\ runner' = FALSE /\ render'.at = "idle"
           ELSE runner' = runner /\ (HasRun(tasks') <=> render'.at = "idle")
    <2>1. CASE pending = NoFrame /\ runner' = FALSE /\ render' = Idle /\ UNCHANGED tasks
      BY <1>1, <2>1, IdleThreads
    <2>2. CASE pending # NoFrame /\ tasks' = Append(tasks, Run) /\ render' = Idle /\ UNCHANGED runner
      <3> DEFINE q == Append(tasks, Run)
      <3>1. /\ q \in Seq(0..MaxBackend) /\ HasRun(q) /\ OneRun(q)
            /\ Doomed(q) = Doomed(tasks) \union ({Run} \ {Run})
        BY <1>1, AppendedTask
      <3> HIDE DEF q
      <3>2. Doomed(q) = Doomed(tasks)
        BY <3>1
      <3> QED
        BY <2>2, <3>1, <3>2, IdleThreads DEF q
    <2>3. CASE /\ pending # NoFrame /\ render' = [Idle EXCEPT !.at = "refused"]
               /\ UNCHANGED <<tasks, runner>>
      <3>1. render'.at = "refused"
        BY <2>3, IdleThreads DEF RenderAt
      <3> QED
        BY <1>1, <2>3, <3>1
    <2> QED
      BY <2>1, <2>2, <2>3 DEF Reschedule
  <1>4. SchedulerTypeOK'
    BY <1>2, <1>3 DEF SchedulerOK, SchedulerTypeOK, Reschedule
  <1>5. LineOK'
    BY <1>1, <1>2 DEF SchedulerOK, LineOK, Building, Reschedule
  <1>6. RunnerOK'
    BY <1>1, <1>2, <1>3 DEF SchedulerOK, RunnerOK, Reschedule
  <1>7. BackendsOK'
    BY <1>2, <1>3 DEF SchedulerOK, BackendsOK, DrawsWithLiveBackend, Reschedule
  <1> QED
    BY <1>4, <1>5, <1>6, <1>7 DEF SchedulerOK

LEMMA HandBackRefusedKeepsOK ==
    ASSUME SchedulerOK, HandBackRefused
    PROVE  SchedulerOK'
  <1>1. /\ render.at = "refused" /\ render.frame = NoFrame /\ pending' = NoFrame
        /\ runner' = FALSE /\ render' = Idle /\ ~HasRun(tasks) /\ platform.at # "dispatching"
        /\ pending \in MaybeFrame /\ NoFrame \in MaybeFrame
    BY Shapes DEF SchedulerOK, LineOK, RunnerOK, HandBackRefused
  <1>2. /\ completions' \in Seq(Completion) /\ orphans' \in SUBSET Frame
        /\ Rising(completions')
        /\ Line(ticket, FramesOf(completions'), NoFrame, NoFrame, Building, orphans')
    <2>1. CASE pending = NoFrame
      BY <1>1, <2>1, Shapes DEF SchedulerOK, LineOK, HandBackRefused
    <2>2. CASE pending # NoFrame
      <3>1. pending \in Frame /\ HandBack(pending, FALSE)
        BY <1>1, <2>2 DEF MaybeFrame, HandBackRefused
      <3> QED
        BY <1>1, <3>1, HandedBack
    <2> QED
      BY <2>1, <2>2
  <1>3. SchedulerTypeOK'
    BY <1>1, <1>2, IdleThreads DEF SchedulerOK, SchedulerTypeOK, HandBackRefused, Completion
  <1>4. LineOK'
    BY <1>1, <1>2, IdleThreads DEF SchedulerOK, LineOK, Building, HandBackRefused
  <1>5. RunnerOK'
    BY <1>1, IdleThreads DEF SchedulerOK, RunnerOK, HandBackRefused
  <1>6. BackendsOK'
    BY <1>1, IdleThreads DEF SchedulerOK, BackendsOK, DrawsWithLiveBackend, HandBackRefused
  <1> QED
    BY <1>3, <1>4, <1>5, <1>6 DEF SchedulerOK

LEMMA RunDestroyKeepsOK ==
    ASSUME SchedulerOK, RunDestroy
    PROVE  SchedulerOK'
  <1> DEFINE h == Head(tasks)
             q == Tail(tasks)
  <1>1. /\ tasks \in Seq(0..MaxBackend) /\ tasks # << >> /\ h # Run /\ render.at = "idle"
        /\ gone' = gone \union {h} /\ tasks' = q /\ OneRun(tasks)
    BY DEF SchedulerOK, SchedulerTypeOK, RunnerOK, RunDestroy
  <1>2. /\ h \in 0..MaxBackend /\ q \in Seq(0..MaxBackend)
        /\ HasRun(tasks) <=> h = Run \/ HasRun(q)
        /\ OneRun(q)
        /\ Doomed(tasks) = Doomed(q) \union ({h} \ {Run})
    BY <1>1, ShortenedTasks
  <1> HIDE DEF h, q
  <1>3. h \in Doomed(tasks) /\ Doomed(q) \subseteq Doomed(tasks) /\ (HasRun(tasks) <=> HasRun(q))
    BY <1>1, <1>2
  <1>4. SchedulerTypeOK'
    <2>1. h \in 1..MaxBackend
      BY <1>1, <1>2, SchedulerBounds DEF Run, NoBackend
    <2> QED
      BY <1>1, <1>2, <2>1 DEF SchedulerOK, SchedulerTypeOK, RunDestroy
  <1>5. LineOK'
    BY DEF SchedulerOK, LineOK, Building, RunDestroy
  <1>6. RunnerOK'
    BY <1>1, <1>2, <1>3 DEF SchedulerOK, RunnerOK, RunDestroy
  <1>7. BackendsOK'
    BY <1>1, <1>3 DEF SchedulerOK, BackendsOK, DrawsWithLiveBackend, Resolves, RunDestroy
  <1> QED
    BY <1>4, <1>5, <1>6, <1>7 DEF SchedulerOK

LEMMA StartRuntimeKeepsOK ==
    ASSUME SchedulerOK, StartRuntime
    PROVE  SchedulerOK'
  <1>1. SchedulerTypeOK'
    BY SchedulerBounds DEF SchedulerOK, SchedulerTypeOK, StartRuntime
  <1>2. LineOK'
    BY DEF SchedulerOK, LineOK, Building, StartRuntime
  <1>3. RunnerOK'
    BY DEF SchedulerOK, RunnerOK, StartRuntime
  <1>4. BackendsOK'
    BY DEF SchedulerOK, BackendsOK, DrawsWithLiveBackend, Resolves, StartRuntime
  <1> QED
    BY <1>1, <1>2, <1>3, <1>4 DEF SchedulerOK

LEMMA ShutdownKeepsOK ==
    ASSUME SchedulerOK, Shutdown
    PROVE  SchedulerOK'
  <1> DEFINE done == FramesOf(completions)
             all == done \union orphans \union Some(pending)
  <1>1. /\ Line(ticket, done, NoFrame, pending, NoFrame, orphans)
        /\ done \in SUBSET Frame /\ pending \in MaybeFrame
        /\ orphans \in SUBSET Frame /\ ticket \in [Frame -> Status]
        /\ NoFrame \in MaybeFrame /\ NoFrame \notin Frame
        /\ render.at = "idle" /\ render.frame = NoFrame /\ platform.at = "idle"
    BY Shapes DEF SchedulerOK, LineOK, Shutdown, Building
  <1>2. /\ ticket' = Cancel(ticket, all) /\ pending' = NoFrame /\ runner' = FALSE
        /\ tasks' = << >> /\ completions' = << >> /\ orphans' = {} /\ generation' = 0
        /\ gone' = gone \union Doomed(tasks)
        /\ UNCHANGED <<rendererOf, render, slot, made, platform>>
        /\ runtime' = [runtime EXCEPT !.up = FALSE]
    BY DEF Shutdown, Cancelled, Cancel, DroppedTasks, DroppedCompletions, Doomed, FramesOf
  <1>3. ticket' \in [Frame -> Status]
    BY <1>1, <1>2, CancelIsPointwise
  <1>4. /\ gone' \subseteq 1..made' /\ gone' \subseteq 1..MaxBackend
        /\ slot.backend \notin gone'
    <2>1. /\ gone \subseteq 1..made /\ Doomed(tasks) \subseteq 1..made
          /\ slot.backend \notin gone /\ slot.backend \notin Doomed(tasks)
          /\ made \in 0..MaxBackend
      BY DEF SchedulerOK, SchedulerTypeOK, BackendsOK
    <2> DEFINE doomed == Doomed(tasks)
    <2> HIDE DEF doomed
    <2>2. gone' = gone \union doomed /\ made' = made
      BY <1>2 DEF doomed
    <2>3. doomed \subseteq 1..made /\ slot.backend \notin doomed
      BY <2>1 DEF doomed
    <2> QED
      BY <2>1, <2>2, <2>3, SchedulerBounds
  <1>5. SchedulerTypeOK'
    <2>1. /\ tasks' \in Seq(0..MaxBackend)
          /\ completions' \in Seq([frame : Frame, success : BOOLEAN])
      BY <1>2, NothingQueued DEF Completion
    <2>2. generation' \in 0..MaxRuntime /\ runtime' \in [generation : 0..MaxRuntime, up : BOOLEAN]
      <3>1. 0 \in 0..MaxRuntime
        BY SchedulerBounds
      <3>2. runtime \in [generation : 0..MaxRuntime, up : BOOLEAN]
        BY DEF SchedulerOK, SchedulerTypeOK
      <3> QED
        BY <1>2, <3>1, <3>2
    <2> QED
      BY <1>2, <1>3, <1>4, <2>1, <2>2 DEF SchedulerOK, SchedulerTypeOK, Status
  <1>6. LineOK'
    <2> DEFINE nothing == InLine({}, NoFrame, NoFrame, NoFrame)
    <2>1. nothing = {}
      BY DEF InLine
    <2>2. InLine(done, NoFrame, pending, NoFrame) \union orphans = all
      BY <1>1 DEF InLine, Some
    <2> HIDE DEF done, all
    <2>3. /\ nothing \subseteq InLine(done, NoFrame, pending, NoFrame)
          /\ nothing \union {} = (InLine(done, NoFrame, pending, NoFrame) \union orphans) \ all
          /\ \A f \in nothing : f \notin {}
          /\ Ahead(NoFrame, NoFrame)
      BY <2>1, <2>2 DEF Ahead
    <2>4. Line(Cancel(ticket, all), {}, NoFrame, NoFrame, NoFrame, {})
      BY <1>1, <2>3, CancellingKeepsLine
    <2>5. Building' = NoFrame
      BY <1>1, <1>2 DEF Building
    <2> QED
      BY <1>1, <1>2, <2>4, <2>5, NothingQueued DEF LineOK, SchedulerOK
  <1>7. RunnerOK'
    BY <1>1, <1>2, NothingQueued DEF RunnerOK
  <1>8. BackendsOK'
    BY <1>1, <1>2, <1>4, NothingQueued DEF SchedulerOK, BackendsOK, DrawsWithLiveBackend
  <1> QED
    BY <1>5, <1>6, <1>7, <1>8 DEF SchedulerOK

LEMMA SchedulerOKIsKept == SchedulerOK /\ [SchedulerNext]_schedulerVars => SchedulerOK'
  <1> SUFFICES ASSUME SchedulerOK, [SchedulerNext]_schedulerVars PROVE SchedulerOK'
    OBVIOUS
  <1>1. CASE RenderStep
    BY <1>1, TakeSubmissionKeepsOK, UseBackendKeepsOK, DrawingKeepsOK, ReportKeepsOK,
       RescheduleKeepsOK, HandBackRefusedKeepsOK, RunDestroyKeepsOK DEF RenderStep
  <1>2. CASE PlatformStep
    BY <1>2, RejectFrameKeepsOK, SubmitKeepsOK, DispatchRunnerKeepsOK, DispatchRefusedKeepsOK,
       DestroyRendererKeepsOK, LocksKeepOK, FinishSubmissionKeepsOK DEF PlatformStep
  <1>3. CASE CreateRenderer \/ AcquireFrame \/ BeginDestroy \/ BeginStats
    BY <1>3, CreateRendererKeepsOK, AcquireFrameKeepsOK, LocksKeepOK
  <1>4. CASE StartRuntime \/ Shutdown
    BY <1>4, StartRuntimeKeepsOK, ShutdownKeepsOK
  <1>5. CASE UNCHANGED schedulerVars
    BY <1>5 DEF schedulerVars, SchedulerOK, SchedulerTypeOK, LineOK, Building, RunnerOK,
                BackendsOK, DrawsWithLiveBackend, Resolves
  <1> QED
    BY <1>1, <1>2, <1>3, <1>4, <1>5 DEF SchedulerNext

(* The line of frames, the runner and the backends are as SchedulerOK says,    *)
(* whatever the two threads, the executors and the runtime do.                *)
THEOREM SchedulerAlwaysOK == SchedulerSpec => []SchedulerOK
  BY SchedulerOKInitially, SchedulerOKIsKept, PTL DEF SchedulerSpec

----------------------------------------------------------------------------
(* The promises.                                                            *)

LEMMA OwnersCounted ==
    ASSUME SchedulerOK
    PROVE  TicketOwnedOnce
  <1> SUFFICES ASSUME NEW f \in Frame
               PROVE  Owners(f) = IF ticket[f] = "open" THEN 1 ELSE 0
    BY DEF TicketOwnedOnce
  <1> DEFINE done == FramesOf(completions)
             r == render.frame
             b == Building
             held == Cardinality({i \in DOMAIN completions : completions[i].frame = f})
  <1>1. /\ Line(ticket, done, r, pending, b, orphans)
        /\ done \in SUBSET Frame /\ r \in MaybeFrame /\ pending \in MaybeFrame /\ b \in MaybeFrame
        /\ f # NoFrame
    BY Shapes DEF SchedulerOK, LineOK
  <1>2. held = IF f \in done THEN 1 ELSE 0
    BY Shapes, CountedInQueue DEF SchedulerOK, LineOK
  <1>3. b = f <=> platform.at = "building" /\ platform.frame = f
    BY <1>1 DEF Building
  <1>4. Owners(f) = (IF b = f THEN 1 ELSE 0) + (IF pending = f THEN 1 ELSE 0)
                        + (IF r = f THEN 1 ELSE 0) + held + (IF f \in orphans THEN 1 ELSE 0)
    BY <1>3 DEF Owners
  <1> HIDE DEF done, r, b, held
  <1>5. /\ f \in done => f # r /\ f # pending /\ f # b
        /\ f = r => f # pending /\ f # b
        /\ f = pending => f # b
    BY <1>1, SchedulerBounds DEF Line, Ahead, Frame
  <1>6. /\ f \in InLine(done, r, pending, b) => f \notin orphans
        /\ ticket[f] = "open" <=> f \in InLine(done, r, pending, b) \/ f \in orphans
        /\ f \in InLine(done, r, pending, b) <=> f \in done \/ f = r \/ f = pending \/ f = b
    BY <1>1 DEF Line, InLine
  <1> QED
    BY <1>2, <1>4, <1>5, <1>6

LEMMA RunnersCounted ==
    ASSUME SchedulerOK
    PROVE  OneRunner
  <1> DEFINE queued == Cardinality({i \in DOMAIN tasks : tasks[i] = Run})
  <1>1. queued = IF HasRun(tasks) THEN 1 ELSE 0
    BY Shapes, RunCounted DEF SchedulerOK, RunnerOK
  <1>2. Runners = queued + (IF platform.at = "dispatching" THEN 1 ELSE 0)
                      + (IF render.at # "idle" THEN 1 ELSE 0)
    BY DEF Runners
  <1> HIDE DEF queued
  <1>3. runner \in BOOLEAN
    BY DEF SchedulerOK, SchedulerTypeOK
  <1> QED
    BY <1>1, <1>2, <1>3 DEF SchedulerOK, RunnerOK, OneRunner

(* Every open ticket has one owner, the runner flag one carrier, and a frame   *)
(* being drawn the live backend of its renderer (enqueue_render_submission,   *)
(* run_next_render_submission, execute_render_submission and the shutdown).   *)
THEOREM FramesAlwaysOwned == SchedulerSpec => []FramesAreOwned
  <1>1. SchedulerOK => FramesAreOwned
    BY OwnersCounted, RunnersCounted DEF FramesAreOwned, SchedulerOK, BackendsOK
  <1> QED
    BY <1>1, SchedulerAlwaysOK, PTL

(* No frame is presented behind one that was acquired later                   *)
(* (finish_render_submission runs in the order of the render thread's reports).*)
THEOREM FramesPresentedInOrder == SchedulerSpec => PresentsInOrder
  <1> DEFINE Presented(f) == ticket[f] # "presented" /\ ticket'[f] = "presented" =>
                                ticket[f] = "open" /\ \A g \in Frame : g > f => ticket[g] # "presented"
  <1>1. ASSUME SchedulerOK, [SchedulerNext]_schedulerVars, NEW f \in Frame,
               ticket[f] # "presented", ticket'[f] = "presented"
        PROVE  ticket[f] = "open" /\ \A g \in Frame : g > f => ticket[g] # "presented"
    <2>1. \A frames : Cancel(ticket, frames)[f] # "presented"
      BY <1>1, Shapes, CancelIsPointwise DEF SchedulerOK
    <2>2. \A frames : ticket' # Cancelled(frames)
      BY <1>1, <2>1 DEF Cancelled, Cancel
    <2>3. ~AcquireFrame
      <3> SUFFICES ASSUME NEW g \in Frame, ticket' = [Cancelled(orphans) EXCEPT ![g] = "open"]
                   PROVE  FALSE
        BY DEF AcquireFrame
      <3>1. Cancelled(orphans)[f] # "presented" /\ DOMAIN Cancelled(orphans) = Frame
        BY <2>1 DEF Cancelled, Cancel
      <3> QED
        BY <1>1, <3>1
    <2>4. ticket' # ticket
      BY <1>1
    <2>5. FinishSubmission
      BY <1>1, <2>2, <2>3, <2>4
         DEF SchedulerNext, schedulerVars, RenderStep, PlatformStep, CreateRenderer, RejectFrame,
             Submit, DispatchRunner, DispatchRefused, BeginDestroy, DestroyRenderer, BeginStats,
             ReadStats, TakeSubmission, UseBackend, NoBackendForFrame, DrawFrame, Report,
             Reschedule, HandBackRefused, RunDestroy, StartRuntime, Shutdown
    <2> DEFINE h == Head(completions).frame
    <2>6. ticket' = [ticket EXCEPT ![h] = "presented"]
      BY <2>2, <2>5 DEF FinishSubmission
    <2>7. h \in FramesOf(completions) /\ FramesOf(completions) \in SUBSET Frame
          /\ ticket \in [Frame -> Status]
      BY <1>1, <2>5, Shapes, ShortenedRises DEF SchedulerOK, LineOK, FinishSubmission
    <2> HIDE DEF h
    <2>8. f = h
      BY <1>1, <2>6, <2>7
    <2>9. Line(ticket, FramesOf(completions), render.frame, pending, Building, orphans)
      BY <1>1 DEF SchedulerOK, LineOK
    <2> QED
      BY <2>7, <2>8, <2>9, SchedulerBounds DEF Line, InLine, Frame, NoFrame
  <1>2. SchedulerOK /\ [SchedulerNext]_schedulerVars => [\A f \in Frame : Presented(f)]_schedulerVars
    BY <1>1
  <1> QED
    BY <1>2, SchedulerAlwaysOK, PTL DEF SchedulerSpec, PresentsInOrder
============================================================================
