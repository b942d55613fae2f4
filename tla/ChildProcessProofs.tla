------------------------ MODULE ChildProcessProofs ------------------------
(***************************************************************************)
(* Proofs about ChildProcess, for queues, buffers and pipes of any size: what *)
(* the program wrote reaches the child whole and in order, and on POSIX the   *)
(* end of the output is told after all of it.                               *)
(*                                                                         *)
(* A byte is its number, so a stretch of the input that counts on from the    *)
(* stretch before it lost nothing and kept its order.  The invariant says so   *)
(* of what the child got, the pipe, the writer's buffer and the queue, and    *)
(* that nothing is in the writer's hands while it waits.                     *)
(***************************************************************************)
EXTENDS ChildProcess, SequenceTheorems, TLAPS

Counting(s, a) == \A i \in 1..Len(s) : s[i] = a + i

Process == [platform : {"posix", "windows"}, detached : BOOLEAN, closed : BOOLEAN,
            exited : BOOLEAN, status : Int]
Stdin == [open : BOOLEAN, queue : Seq(Nat), inflight : Nat, closing : BOOLEAN, failed : BOOLEAN]
WriterThread == [at : {"waiting", "writing", "gone"}, buffer : Seq(Nat)]
Pipes == [in : Seq(Nat), out : Nat]
Child == [run : {"running", "ended", "reaped"}, status : Int, got : Seq(Nat), said : Nat]
Output == [open : BOOLEAN, heard : Nat, eof : BOOLEAN]

ChildShape ==
    /\ process \in Process /\ stdin \in Stdin /\ writer \in WriterThread
    /\ pipes \in Pipes /\ child \in Child /\ output \in Output /\ accepted \in Nat

Length(s) == Len(s)

InputOK ==
    /\ Counting(child.got, 0) /\ Counting(pipes.in, Length(child.got))
    /\ Length(pipes.in) <= PipeSize
    /\ ~stdin.failed =>
           /\ Counting(writer.buffer, Length(child.got) + Length(pipes.in))
           /\ Counting(stdin.queue,
                       Length(child.got) + Length(pipes.in) + Length(writer.buffer))
           /\ Length(child.got) + Length(pipes.in) + Length(writer.buffer) + Length(stdin.queue)
                  = accepted
    /\ Length(stdin.queue) + stdin.inflight <= QueueSize
    /\ writer.at # "writing" => stdin.inflight = 0 /\ writer.buffer = << >>
    /\ stdin.failed => writer.at = "gone"
    /\ ~Windows => writer.at = "gone" /\ stdin.queue = << >> /\ ~stdin.failed

OutputOK ==
    /\ output.heard + pipes.out = child.said
    /\ ~Windows => program # "peeked"
    /\ ~Windows /\ output.eof => Ended /\ pipes.out = 0

ChildOK == ChildShape /\ InputOK /\ OutputOK

----------------------------------------------------------------------------
(* Stretches of numbered bytes.                                             *)

LEMMA Lengths == ASSUME NEW s \in Seq(Nat) PROVE Length(s) \in Nat /\ Length(<< >>) = 0
  BY LenProperties DEF Length

LEMMA Sizes ==
    /\ QueueSize \in Nat /\ BufferSize \in Nat /\ PipeSize \in Nat
    /\ MaxIn \in Nat /\ MaxOut \in Nat
  BY ChildConstants

LEMMA NothingCounts == ASSUME NEW a PROVE << >> \in Seq(Nat) /\ Counting(<< >>, a)
  BY DEF Counting

LEMMA Joined ==
    ASSUME NEW s \in Seq(Nat), NEW t \in Seq(Nat), NEW a \in Nat,
           Counting(s, a), Counting(t, a + Length(s))
    PROVE  /\ s \o t \in Seq(Nat) /\ Length(s \o t) = Length(s) + Length(t)
           /\ Counting(s \o t, a)
  <1> DEFINE u == s \o t
  <1>1. /\ u \in Seq(Nat) /\ Len(u) = Len(s) + Len(t) /\ Len(s) \in Nat /\ Len(t) \in Nat
        /\ \A i \in 1..Len(s) + Len(t) : u[i] = IF i <= Len(s) THEN s[i] ELSE t[i - Len(s)]
    BY ConcatProperties, LenProperties
  <1> HIDE DEF u
  <1>2. ASSUME NEW i \in 1..Len(u) PROVE u[i] = a + i
    <2>1. CASE i <= Len(s)
      <3>1. i \in 1..Len(s) /\ u[i] = s[i]
        BY <1>1, <2>1
      <3> QED
        BY <3>1 DEF Counting
    <2>2. CASE ~(i <= Len(s))
      <3>1. i - Len(s) \in 1..Len(t) /\ u[i] = t[i - Len(s)]
        BY <1>1, <2>2
      <3>2. t[i - Len(s)] = a + Len(s) + (i - Len(s))
        BY <3>1 DEF Counting, Length
      <3> QED
        BY <1>1, <3>1, <3>2
    <2> QED
      BY <2>1, <2>2
  <1> QED
    BY <1>1, <1>2 DEF u, Counting, Length

LEMMA CutInTwo ==
    ASSUME NEW s \in Seq(Nat), NEW n \in 0..Length(s), NEW a \in Nat, Counting(s, a)
    PROVE  /\ First(s, n) \in Seq(Nat) /\ Length(First(s, n)) = n /\ Counting(First(s, n), a)
           /\ Rest(s, n) \in Seq(Nat) /\ Length(Rest(s, n)) = Length(s) - n
           /\ Counting(Rest(s, n), a + n)
  <1>1. Len(s) \in Nat /\ n \in 0..Len(s)
    BY LenProperties DEF Length
  <1> DEFINE f == SubSeq(s, 1, n)
             r == SubSeq(s, n + 1, Len(s))
  <1>2. /\ f \in Seq(Nat) /\ Len(f) = n
        /\ \A i \in 1..n : f[i] = s[i]
    <2>1. \A i \in 1..n : s[i] \in Nat
      BY <1>1, ElementOfSeq
    <2> QED
      BY <1>1, <2>1
  <1>3. /\ r \in Seq(Nat) /\ Len(r) = Len(s) - n
        /\ \A i \in 1..Len(s) - n : r[i] = s[n + i]
    <2>1. \A i \in n + 1..Len(s) : s[i] \in Nat
      BY <1>1, ElementOfSeq
    <2> QED
      BY <1>1, <2>1
  <1> HIDE DEF f, r
  <1>4. Counting(f, a)
    <2> SUFFICES ASSUME NEW i \in 1..n PROVE f[i] = a + i
      BY <1>2 DEF Counting
    <2>1. i \in 1..Len(s) /\ f[i] = s[i]
      BY <1>1, <1>2
    <2> QED
      BY <2>1 DEF Counting
  <1>5. Counting(r, a + n)
    <2> SUFFICES ASSUME NEW i \in 1..Len(r) PROVE r[i] = a + n + i
      BY DEF Counting
    <2>1. n + i \in 1..Len(s) /\ r[i] = s[n + i]
      BY <1>1, <1>3
    <2> QED
      BY <1>1, <1>3, <2>1 DEF Counting
  <1> QED
    BY <1>2, <1>3, <1>4, <1>5 DEF f, r, First, Rest, Length

LEMMA HeadMoved ==
    ASSUME NEW s \in Seq(Nat), NEW t \in Seq(Nat), t # << >>, NEW a \in Nat,
           Counting(s, a), Counting(t, a + Length(s))
    PROVE  /\ Append(s, Head(t)) \in Seq(Nat) /\ Tail(t) \in Seq(Nat)
           /\ Length(Append(s, Head(t))) = Length(s) + 1
           /\ Length(Tail(t)) = Length(t) - 1 /\ Length(t) > 0
           /\ Counting(Append(s, Head(t)), a)
           /\ Counting(Tail(t), a + Length(s) + 1)
  <1> DEFINE u == Append(s, Head(t))
             r == Tail(t)
  <1>1. /\ Len(t) \in Nat \ {0} /\ Head(t) = t[1] /\ Head(t) \in Nat
        /\ r \in Seq(Nat) /\ Len(r) = Len(t) - 1
        /\ \A i \in 1..Len(r) : r[i] = t[i + 1]
    BY HeadTailProperties, LenProperties, EmptySeq
  <1>2. /\ u \in Seq(Nat) /\ Len(u) = Len(s) + 1 /\ u[Len(s) + 1] = Head(t)
        /\ \A i \in 1..Len(s) : u[i] = s[i]
        /\ Len(s) \in Nat
    BY <1>1, AppendProperties, LenProperties
  <1> HIDE DEF u, r
  <1>3. t[1] = a + Len(s) + 1
    BY <1>1 DEF Counting, Length
  <1>4. Counting(u, a)
    <2> SUFFICES ASSUME NEW i \in 1..Len(u) PROVE u[i] = a + i
      BY DEF Counting
    <2>1. CASE i = Len(s) + 1
      BY <1>2, <1>1, <1>3, <2>1
    <2>2. CASE i # Len(s) + 1
      <3>1. i \in 1..Len(s) /\ u[i] = s[i]
        BY <1>2, <2>2
      <3> QED
        BY <3>1 DEF Counting
    <2> QED
      BY <2>1, <2>2
  <1>5. Counting(r, a + Len(s) + 1)
    <2> SUFFICES ASSUME NEW i \in 1..Len(r) PROVE r[i] = a + Len(s) + 1 + i
      BY DEF Counting
    <2>1. i + 1 \in 1..Len(t) /\ r[i] = t[i + 1]
      BY <1>1
    <2>2. t[i + 1] = a + Len(s) + (i + 1)
      BY <2>1 DEF Counting, Length
    <2> QED
      BY <1>2, <2>1, <2>2
  <1> QED
    BY <1>1, <1>2, <1>4, <1>5 DEF u, r, Length

LEMMA OfferedCounts ==
    ASSUME accepted \in Nat, NEW n \in Nat
    PROVE  Offered(n) \in Seq(Nat) /\ Length(Offered(n)) = n /\ Counting(Offered(n), accepted)
  BY DEF Offered, Length, Counting

----------------------------------------------------------------------------
(* The invariant holds, and every step keeps it. *)

LEMMA ChildOKInitially == ChildInit => ChildOK
  <1> SUFFICES ASSUME ChildInit PROVE ChildOK
    OBVIOUS
  <1>1. << >> \in Seq(Nat) /\ Length(<< >>) = 0 /\ Counting(<< >>, 0)
    BY NothingCounts, Lengths
  <1>2. process \in Process
    <2>1. process \in [platform : Platforms, detached : Detached, closed : {FALSE},
                       exited : {FALSE}, status : {Running}]
      BY DEF ChildInit
    <2>2. Platforms \subseteq {"posix", "windows"} /\ Detached \subseteq BOOLEAN /\ Running \in Int
      BY ChildConstants DEF Running
    <2> QED
      BY <2>1, <2>2 DEF Process
  <1>3. stdin \in Stdin /\ writer \in WriterThread
    BY <1>1 DEF ChildInit, Stdin, WriterThread
  <1>4. pipes \in Pipes /\ output \in Output /\ accepted \in Nat
    BY <1>1 DEF ChildInit, Pipes, Output
  <1>5. child \in Child
    BY <1>1 DEF ChildInit, Child, Running
  <1>6. InputOK
    BY <1>1, Sizes DEF ChildInit, InputOK, Windows
  <1>7. OutputOK
    BY DEF ChildInit, OutputOK
  <1> QED
    BY <1>2, <1>3, <1>4, <1>5, <1>6, <1>7 DEF ChildOK, ChildShape

(* What an operation replaces in a record, and what it leaves.                 *)
LEMMA PipeFilled ==
    ASSUME pipes \in Pipes, NEW s \in Seq(Nat)
    PROVE  LET new == [pipes EXCEPT !.in = s]
           IN  new \in Pipes /\ new.in = s /\ new.out = pipes.out
  BY DEF Pipes

LEMMA QueueChanged ==
    ASSUME stdin \in Stdin, NEW s \in Seq(Nat)
    PROVE  LET new == [stdin EXCEPT !.queue = s]
           IN  /\ new \in Stdin /\ new.queue = s /\ new.inflight = stdin.inflight
               /\ new.failed = stdin.failed
  BY DEF Stdin

LEMMA QueueTaken ==
    ASSUME stdin \in Stdin, NEW s \in Seq(Nat), NEW n \in Nat
    PROVE  LET new == [stdin EXCEPT !.queue = s, !.inflight = @ + n]
           IN  /\ new \in Stdin /\ new.queue = s /\ new.inflight = stdin.inflight + n
               /\ new.failed = stdin.failed
  <1> DEFINE m == stdin.inflight + n
             new == [stdin EXCEPT !.queue = s, !.inflight = m]
  <1>1. m \in Nat
    BY DEF Stdin
  <1> HIDE DEF m
  <1>2. new \in Stdin /\ new.queue = s /\ new.inflight = m /\ new.failed = stdin.failed
    BY <1>1 DEF Stdin
  <1> QED
    BY <1>2 DEF m

LEMMA BufferChanged ==
    ASSUME writer \in WriterThread, NEW s \in Seq(Nat)
    PROVE  /\ LET new == [writer EXCEPT !.buffer = s]
              IN  new \in WriterThread /\ new.buffer = s /\ new.at = writer.at
           /\ LET new == [at |-> "writing", buffer |-> s]
              IN  new \in WriterThread /\ new.buffer = s /\ new.at = "writing"
  BY DEF WriterThread

LEMMA GotMore ==
    ASSUME child \in Child, NEW s \in Seq(Nat)
    PROVE  LET new == [child EXCEPT !.got = s]
           IN  /\ new \in Child /\ new.got = s /\ new.run = child.run /\ new.said = child.said
  BY DEF Child

LEMMA Parts ==
    ASSUME ChildShape
    PROVE  /\ stdin.queue \in Seq(Nat) /\ stdin.inflight \in Nat /\ writer.buffer \in Seq(Nat)
           /\ pipes.in \in Seq(Nat) /\ pipes.out \in Nat
           /\ child.got \in Seq(Nat) /\ child.said \in Nat /\ output.heard \in Nat
           /\ accepted \in Nat
  BY DEF ChildShape, Stdin, WriterThread, Pipes, Child, Output

LEMMA PartLengths ==
    ASSUME ChildShape
    PROVE  /\ Length(stdin.queue) \in Nat /\ Length(writer.buffer) \in Nat
           /\ Length(pipes.in) \in Nat /\ Length(child.got) \in Nat /\ Length(<< >>) = 0
  BY Parts, Lengths

(* The operations on the input. *)

LEMMA RoomLeft ==
    ASSUME NEW n \in Nat, NEW room \in Nat
    PROVE  Smaller(n, room) \in Nat /\ Smaller(n, room) <= room /\ Smaller(n, room) <= n
  BY DEF Smaller

LEMMA WritePipeKeepsOK ==
    ASSUME ChildOK, NEW n \in 1..MaxIn, WritePipe(n)
    PROVE  ChildOK'
  <1> DEFINE taken == Smaller(n, PipeSize - Len(pipes.in))
             more == Offered(taken)
             joined == pipes.in \o more
  <1>1. /\ ~Windows /\ writer.buffer = << >> /\ stdin.queue = << >> /\ ~stdin.failed
        /\ Counting(pipes.in, Length(child.got)) /\ Length(pipes.in) <= PipeSize
        /\ Length(child.got) + Length(pipes.in) + Length(writer.buffer) + Length(stdin.queue)
               = accepted
    BY DEF ChildOK, InputOK, WritePipe
  <1>2. /\ Length(child.got) \in Nat /\ Length(pipes.in) \in Nat /\ Length(<< >>) = 0
        /\ accepted = Length(child.got) + Length(pipes.in)
        /\ child.got \in Seq(Nat) /\ pipes.in \in Seq(Nat) /\ accepted \in Nat
    BY <1>1, Parts, PartLengths DEF ChildOK
  <1>3. taken \in Nat /\ Length(pipes.in) + taken <= PipeSize
    <2>1. n \in Nat /\ PipeSize - Len(pipes.in) \in Nat
      BY <1>1, <1>2, Sizes DEF Length
    <2>2. taken \in Nat /\ taken <= PipeSize - Len(pipes.in)
      BY <2>1, RoomLeft
    <2> HIDE DEF taken
    <2> QED
      BY <1>2, <2>2, Sizes DEF Length
  <1>4. /\ pipes' = [pipes EXCEPT !.in = joined]
        /\ accepted' = accepted + taken
        /\ UNCHANGED <<process, program, stdin, writer, child, output>>
    BY DEF WritePipe
  <1> HIDE DEF taken
  <1>5. more \in Seq(Nat) /\ Length(more) = taken /\ Counting(more, accepted)
    BY <1>2, <1>3, OfferedCounts
  <1> HIDE DEF more
  <1>6. /\ joined \in Seq(Nat) /\ Length(joined) = Length(pipes.in) + taken
        /\ Counting(joined, Length(child.got))
    BY <1>1, <1>2, <1>5, Joined
  <1> HIDE DEF joined
  <1>7. pipes' \in Pipes /\ pipes'.in = joined /\ pipes'.out = pipes.out
    BY <1>4, <1>6, PipeFilled DEF ChildOK, ChildShape
  <1>8. InputOK'
    BY <1>1, <1>2, <1>3, <1>4, <1>6, <1>7, NothingCounts DEF ChildOK, InputOK, Windows
  <1> QED
    BY <1>2, <1>3, <1>4, <1>7, <1>8 DEF ChildOK, ChildShape, OutputOK, Windows, Ended

LEMMA WriteQueueKeepsOK ==
    ASSUME ChildOK, NEW n \in 1..MaxIn, WriteQueue(n)
    PROVE  ChildOK'
  <1> DEFINE taken == Smaller(n, QueueRoom)
             more == Offered(taken)
             joined == stdin.queue \o more
             before == Length(child.got) + Length(pipes.in) + Length(writer.buffer)
  <1>1. /\ Windows /\ ~stdin.failed /\ Counting(stdin.queue, before)
        /\ Length(stdin.queue) + stdin.inflight <= QueueSize
        /\ before + Length(stdin.queue) = accepted
    BY DEF ChildOK, InputOK, WriteQueue
  <1>2. /\ Length(stdin.queue) \in Nat /\ before \in Nat /\ stdin.queue \in Seq(Nat)
        /\ accepted \in Nat /\ stdin.inflight \in Nat
    BY Parts, PartLengths DEF ChildOK
  <1>3. taken \in Nat /\ Length(stdin.queue) + taken + stdin.inflight <= QueueSize
    <2>1. n \in Nat /\ QueueRoom \in Nat
          /\ QueueRoom = QueueSize - Length(stdin.queue) - stdin.inflight
      BY <1>1, <1>2, Sizes DEF QueueRoom, Length
    <2>2. taken \in Nat /\ taken <= QueueRoom
      BY <2>1, RoomLeft
    <2> HIDE DEF taken
    <2> QED
      BY <1>1, <1>2, <2>1, <2>2, Sizes
  <1>4. /\ stdin' = [stdin EXCEPT !.queue = joined]
        /\ accepted' = accepted + taken
        /\ UNCHANGED <<process, program, writer, pipes, child, output>>
    BY DEF WriteQueue
  <1> HIDE DEF taken
  <1>5. more \in Seq(Nat) /\ Length(more) = taken /\ Counting(more, accepted)
    BY <1>2, <1>3, OfferedCounts
  <1> HIDE DEF more, before
  <1>6. /\ joined \in Seq(Nat) /\ Length(joined) = Length(stdin.queue) + taken
        /\ Counting(joined, before)
    BY <1>1, <1>2, <1>5, Joined
  <1> HIDE DEF joined
  <1>7. /\ stdin' \in Stdin /\ stdin'.queue = joined /\ stdin'.inflight = stdin.inflight
        /\ stdin'.failed = stdin.failed /\ accepted' \in Nat
    BY <1>2, <1>3, <1>4, <1>6, QueueChanged DEF ChildOK, ChildShape
  <1>8. InputOK'
    BY <1>1, <1>2, <1>3, <1>4, <1>6, <1>7 DEF ChildOK, InputOK, Windows, before
  <1> QED
    BY <1>4, <1>7, <1>8 DEF ChildOK, ChildShape, OutputOK, Windows, Ended

LEMMA WriterTakesKeepsOK ==
    ASSUME ChildOK, WriterTakes
    PROVE  ChildOK'
  <1> DEFINE amount == Smaller(BufferSize, Len(stdin.queue))
             first == First(stdin.queue, amount)
             rest == Rest(stdin.queue, amount)
             before == Length(child.got) + Length(pipes.in)
  <1>1. /\ writer.at = "waiting" /\ ~stdin.failed /\ writer.buffer = << >> /\ stdin.inflight = 0
        /\ Counting(stdin.queue, before + Length(writer.buffer)) /\ Windows
        /\ Length(stdin.queue) <= QueueSize
        /\ before + Length(writer.buffer) + Length(stdin.queue) = accepted
    BY PartLengths DEF ChildOK, InputOK, WriterTakes
  <1>2. /\ Length(stdin.queue) \in Nat /\ before \in Nat /\ Length(<< >>) = 0
        /\ stdin.queue \in Seq(Nat)
    BY Parts, PartLengths DEF ChildOK
  <1>3. amount \in 0..Length(stdin.queue)
    <2>1. amount \in Nat /\ amount <= Len(stdin.queue)
      BY <1>2, RoomLeft, Sizes DEF Length
    <2> HIDE DEF amount
    <2> QED
      BY <1>2, <2>1 DEF Length
  <1>4. /\ writer' = [at |-> "writing", buffer |-> first]
        /\ stdin' = [stdin EXCEPT !.queue = rest, !.inflight = @ + amount]
        /\ UNCHANGED <<process, program, pipes, child, accepted, output>>
    BY DEF WriterTakes
  <1> HIDE DEF amount
  <1>5. /\ first \in Seq(Nat) /\ Length(first) = amount /\ Counting(first, before)
        /\ rest \in Seq(Nat) /\ Length(rest) = Length(stdin.queue) - amount
        /\ Counting(rest, before + amount)
    <2>1. Counting(stdin.queue, before)
      BY <1>1, <1>2
    <2> QED
      BY <1>1, <1>2, <1>3, <2>1, CutInTwo
  <1> HIDE DEF first, rest, before
  <1>6. /\ stdin' \in Stdin /\ stdin'.queue = rest /\ stdin'.inflight = amount
        /\ stdin'.failed = stdin.failed
    <2>1. /\ stdin' \in Stdin /\ stdin'.queue = rest /\ stdin'.inflight = stdin.inflight + amount
          /\ stdin'.failed = stdin.failed
      <3>1. amount \in Nat
        BY <1>2, <1>3
      <3> QED
        BY <3>1, <1>4, <1>5, QueueTaken DEF ChildOK, ChildShape
    <2> QED
      BY <1>1, <1>2, <1>3, <2>1
  <1>7. writer' \in WriterThread /\ writer'.at = "writing" /\ writer'.buffer = first
    BY <1>4, <1>5, BufferChanged DEF ChildOK, ChildShape
  <1>8. InputOK'
    BY <1>1, <1>2, <1>3, <1>4, <1>5, <1>6, <1>7 DEF ChildOK, InputOK, Windows, before
  <1> QED
    BY <1>4, <1>6, <1>7, <1>8 DEF ChildOK, ChildShape, OutputOK, Windows, Ended

LEMMA WriterWritesKeepsOK ==
    ASSUME ChildOK, WriterWrites
    PROVE  ChildOK'
  <1> DEFINE room == Smaller(PipeSize - Len(pipes.in), Len(writer.buffer))
             first == First(writer.buffer, room)
             rest == Rest(writer.buffer, room)
             joined == pipes.in \o first
             got == Length(child.got)
  <1>1. /\ writer.at = "writing" /\ ~stdin.failed /\ Windows
        /\ Counting(pipes.in, got) /\ Length(pipes.in) <= PipeSize
        /\ Counting(writer.buffer, got + Length(pipes.in))
        /\ Counting(stdin.queue, got + Length(pipes.in) + Length(writer.buffer))
        /\ got + Length(pipes.in) + Length(writer.buffer) + Length(stdin.queue) = accepted
    BY DEF ChildOK, InputOK, WriterWrites
  <1>2. /\ Length(writer.buffer) \in Nat /\ got \in Nat /\ Length(pipes.in) \in Nat
        /\ Length(stdin.queue) \in Nat /\ got + Length(pipes.in) \in Nat
        /\ writer.buffer \in Seq(Nat) /\ pipes.in \in Seq(Nat)
    BY Parts, PartLengths DEF ChildOK
  <1>3. room \in 0..Length(writer.buffer) /\ Length(pipes.in) + room <= PipeSize
    <2>1. PipeSize - Len(pipes.in) \in Nat /\ Len(writer.buffer) \in Nat
      BY <1>1, <1>2, Sizes DEF Length
    <2>2. room \in Nat /\ room <= PipeSize - Len(pipes.in) /\ room <= Len(writer.buffer)
      BY <2>1, RoomLeft
    <2> HIDE DEF room
    <2> QED
      BY <1>2, <2>2, Sizes DEF Length
  <1>4. /\ pipes' = [pipes EXCEPT !.in = joined]
        /\ writer' = [writer EXCEPT !.buffer = rest]
        /\ UNCHANGED <<process, program, stdin, child, accepted, output>>
    BY DEF WriterWrites
  <1> HIDE DEF room
  <1>5. /\ first \in Seq(Nat) /\ Length(first) = room /\ Counting(first, got + Length(pipes.in))
        /\ rest \in Seq(Nat) /\ Length(rest) = Length(writer.buffer) - room
        /\ Counting(rest, got + Length(pipes.in) + room)
    BY <1>1, <1>2, <1>3, CutInTwo
  <1> HIDE DEF first, rest, got
  <1>6. /\ joined \in Seq(Nat) /\ Length(joined) = Length(pipes.in) + room
        /\ Counting(joined, got)
    BY <1>1, <1>2, <1>5, Joined
  <1> HIDE DEF joined
  <1>7. /\ pipes' \in Pipes /\ pipes'.in = joined /\ pipes'.out = pipes.out
        /\ writer' \in WriterThread /\ writer'.at = writer.at /\ writer'.buffer = rest
    BY <1>4, <1>5, <1>6, PipeFilled, BufferChanged DEF ChildOK, ChildShape
  <1>8. /\ got + (Length(pipes.in) + room) = got + Length(pipes.in) + room
        /\ got + (Length(pipes.in) + room) + (Length(writer.buffer) - room)
               = got + Length(pipes.in) + Length(writer.buffer)
    BY <1>2, <1>3
  <1>9. InputOK'
    BY <1>1, <1>2, <1>3, <1>4, <1>5, <1>6, <1>7, <1>8 DEF ChildOK, InputOK, Windows, got
  <1> QED
    BY <1>4, <1>7, <1>9 DEF ChildOK, ChildShape, OutputOK, Windows, Ended

LEMMA ChildReadsKeepsOK ==
    ASSUME ChildOK, ChildReads
    PROVE  ChildOK'
  <1> DEFINE moved == Append(child.got, Head(pipes.in))
             rest == Tail(pipes.in)
  <1>1. /\ pipes.in # << >> /\ Counting(child.got, 0) /\ Counting(pipes.in, Length(child.got))
    BY DEF ChildOK, InputOK, ChildReads
  <1>2. /\ Length(child.got) \in Nat /\ Length(pipes.in) \in Nat
        /\ Length(child.got) = 0 + Length(child.got)
        /\ child.got \in Seq(Nat) /\ pipes.in \in Seq(Nat)
    BY Parts, PartLengths DEF ChildOK
  <1>3. /\ moved \in Seq(Nat) /\ rest \in Seq(Nat)
        /\ Length(moved) = Length(child.got) + 1
        /\ Length(rest) = Length(pipes.in) - 1 /\ Length(pipes.in) > 0
        /\ Counting(moved, 0) /\ Counting(rest, Length(child.got) + 1)
    <2>1. Counting(pipes.in, 0 + Length(child.got))
      BY <1>1, <1>2
    <2> QED
      BY <1>1, <1>2, <2>1, HeadMoved
  <1>4. /\ child' = [child EXCEPT !.got = moved] /\ pipes' = [pipes EXCEPT !.in = rest]
        /\ UNCHANGED <<process, program, stdin, writer, accepted, output>>
    BY DEF ChildReads
  <1> HIDE DEF moved, rest
  <1>5. /\ child' \in Child /\ child'.got = moved /\ child'.run = child.run
        /\ child'.said = child.said
        /\ pipes' \in Pipes /\ pipes'.in = rest /\ pipes'.out = pipes.out
    BY <1>3, <1>4, PipeFilled, GotMore DEF ChildOK, ChildShape
  <1>6. Length(moved) + Length(rest) = Length(child.got) + Length(pipes.in)
    BY <1>2, <1>3
  <1>7. Length(rest) <= PipeSize
    BY <1>2, <1>3, Sizes DEF ChildOK, InputOK
  <1>8. InputOK'
    BY <1>3, <1>4, <1>5, <1>6, <1>7 DEF ChildOK, InputOK, Windows
  <1> QED
    BY <1>4, <1>5, <1>8 DEF ChildOK, ChildShape, OutputOK, Windows, Ended

(* The input is closed, drained to the end, or cut off. *)

LEMMA CloseStdinKeepsOK == ASSUME ChildOK, CloseStdin PROVE ChildOK'
  <1>1. /\ stdin' \in Stdin /\ stdin'.queue = stdin.queue /\ stdin'.inflight = stdin.inflight
        /\ stdin'.failed = stdin.failed
    BY DEF CloseStdin, ChildOK, ChildShape, Stdin
  <1>2. UNCHANGED <<process, program, writer, pipes, child, accepted, output>>
    BY DEF CloseStdin
  <1> QED
    BY <1>1, <1>2 DEF ChildOK, ChildShape, InputOK, OutputOK, Windows, Ended

LEMMA WriterWroteKeepsOK == ASSUME ChildOK, WriterWrote PROVE ChildOK'
  <1>1. /\ stdin' \in Stdin /\ stdin'.queue = stdin.queue /\ stdin'.inflight = 0
        /\ stdin'.failed = stdin.failed
    BY DEF WriterWrote, ChildOK, ChildShape, Stdin
  <1>2. /\ writer' \in WriterThread /\ writer'.at = "waiting" /\ writer'.buffer = << >>
        /\ writer.buffer = << >>
    BY DEF WriterWrote, ChildOK, ChildShape, WriterThread
  <1>3. writer.at = "writing" /\ UNCHANGED <<process, program, pipes, child, accepted, output>>
    BY DEF WriterWrote
  <1>4. Length(stdin'.queue) + stdin'.inflight <= QueueSize
    BY <1>1, Parts, PartLengths, Sizes DEF ChildOK, InputOK
  <1>5. InputOK'
    BY <1>1, <1>2, <1>3, <1>4 DEF ChildOK, InputOK, Windows
  <1> QED
    BY <1>1, <1>2, <1>3, <1>5 DEF ChildOK, ChildShape, OutputOK, Windows, Ended

LEMMA WriterFailsKeepsOK == ASSUME ChildOK, WriterFails PROVE ChildOK'
  <1>1. /\ stdin' \in Stdin /\ stdin'.queue = stdin.queue /\ stdin'.inflight = 0
        /\ stdin'.failed
    BY DEF WriterFails, ChildOK, ChildShape, Stdin
  <1>2. writer' \in WriterThread /\ writer'.at = "gone" /\ writer'.buffer = << >>
    BY NothingCounts DEF WriterFails, WriterThread
  <1>3. writer.at = "writing" /\ UNCHANGED <<process, program, pipes, child, accepted, output>>
    BY DEF WriterFails
  <1>4. Length(stdin'.queue) + stdin'.inflight <= QueueSize
    BY <1>1, Parts, PartLengths, Sizes DEF ChildOK, InputOK
  <1>5. InputOK'
    BY <1>1, <1>2, <1>3, <1>4 DEF ChildOK, InputOK, Windows
  <1> QED
    BY <1>1, <1>2, <1>3, <1>5 DEF ChildOK, ChildShape, OutputOK, Windows, Ended

LEMMA WriterEndsKeepsOK == ASSUME ChildOK, WriterEnds PROVE ChildOK'
  <1>1. /\ stdin' \in Stdin /\ stdin'.queue = stdin.queue /\ stdin'.inflight = stdin.inflight
        /\ stdin'.failed = stdin.failed
    BY DEF WriterEnds, ChildOK, ChildShape, Stdin
  <1>2. /\ writer' \in WriterThread /\ writer'.at = "gone" /\ writer'.buffer = writer.buffer
        /\ writer.at = "waiting"
    BY DEF WriterEnds, ChildOK, ChildShape, WriterThread
  <1>3. UNCHANGED <<process, program, pipes, child, accepted, output>>
    BY DEF WriterEnds
  <1>4. InputOK'
    BY <1>1, <1>2, <1>3 DEF ChildOK, InputOK, Windows
  <1> QED
    BY <1>1, <1>2, <1>3, <1>4 DEF ChildOK, ChildShape, OutputOK, Windows, Ended

(* The output, and how the child ends. *)

LEMMA HandlePolled ==
    ASSUME ChildShape
    PROVE  Polled \in Process /\ Polled.platform = process.platform
  <1> DEFINE status == IF Ended THEN child.status ELSE process.status
             exited == Ended
  <1>1. status \in Int /\ exited \in BOOLEAN
    BY DEF ChildShape, Child, Process, Ended
  <1>2. Polled = [process EXCEPT !.exited = exited, !.status = status]
    BY DEF Polled
  <1> HIDE DEF status, exited
  <1> QED
    BY <1>1, <1>2 DEF ChildShape, Process

LEMMA ChildEnded ==
    ASSUME child \in Child, NEW status \in Int
    PROVE  LET new == [child EXCEPT !.run = "ended", !.status = status]
           IN  new \in Child /\ new.got = child.got /\ new.said = child.said /\ new.run = "ended"
  BY DEF Child

LEMMA ChildReaped ==
    ASSUME ChildShape
    PROVE  /\ Reaped \in Child /\ Reaped.got = child.got /\ Reaped.said = child.said
           /\ Reaped.run # "running" <=> Ended
  BY DEF ChildShape, Reaped, Child, Ended

(* What a step that neither touches the streams nor brings the child back keeps. *)
LEMMA StreamsUntouched ==
    ASSUME ChildOK, UNCHANGED <<stdin, writer, pipes, accepted, output>>,
           process' \in Process, process'.platform = process.platform,
           child' \in Child, child'.got = child.got, child'.said = child.said,
           Ended => Ended', program' = "peeked" => program = "peeked"
    PROVE  ChildOK'
  BY DEF ChildOK, ChildShape, InputOK, OutputOK, Windows

LEMMA PollExitKeepsOK == ASSUME ChildOK, PollExit PROVE ChildOK'
  <1>1. /\ process' = Polled /\ child' = Reaped
        /\ UNCHANGED <<program, stdin, writer, pipes, accepted, output>>
    BY DEF PollExit
  <1>2. Ended => Ended'
    BY <1>1, ChildReaped DEF ChildOK, Ended
  <1> QED
    BY <1>1, <1>2, HandlePolled, ChildReaped, StreamsUntouched DEF ChildOK

LEMMA CancelKeepsOK == ASSUME ChildOK, Cancel PROVE ChildOK'
  <1>1. process' = Polled /\ UNCHANGED <<program, stdin, writer, pipes, accepted, output>>
    BY DEF Cancel
  <1>2. process' \in Process /\ process'.platform = process.platform
    BY <1>1, HandlePolled DEF ChildOK
  <1>3. /\ child' \in Child /\ child'.got = child.got /\ child'.said = child.said
        /\ Ended => Ended'
    <2>1. CASE child' = [child EXCEPT !.run = "ended", !.status = 1]
      <3>1. child \in Child /\ 1 \in Int
        BY DEF ChildOK, ChildShape
      <3> QED
        BY <2>1, <3>1, ChildEnded DEF Ended
    <2>2. CASE child' = Reaped
      BY <2>2, ChildReaped DEF ChildOK, Ended
    <2> QED
      BY <2>1, <2>2 DEF Cancel
  <1> QED
    BY <1>1, <1>2, <1>3, StreamsUntouched

LEMMA ChildEndsKeepsOK == ASSUME ChildOK, ChildEnds PROVE ChildOK'
  <1>1. UNCHANGED <<process, program, stdin, writer, pipes, accepted, output>>
    BY DEF ChildEnds
  <1>2. PICK status \in Statuses : child' = [child EXCEPT !.run = "ended", !.status = status]
    BY DEF ChildEnds
  <1>3. status \in Int
    BY DEF Statuses
  <1>4. /\ child' \in Child /\ child'.got = child.got /\ child'.said = child.said
        /\ Ended'
    BY <1>2, <1>3, ChildEnded DEF ChildOK, ChildShape, Ended
  <1> QED
    BY <1>1, <1>4, StreamsUntouched DEF ChildOK, ChildShape

LEMMA CloseKeepsOK == ASSUME ChildOK, Close PROVE ChildOK'
  <1>1. /\ stdin' \in Stdin /\ stdin'.queue = stdin.queue /\ stdin'.inflight = stdin.inflight
        /\ stdin'.failed = stdin.failed
    BY DEF Close, ChildOK, ChildShape, Stdin
  <1>2. program' = "closing" /\ UNCHANGED <<writer, pipes, accepted, output>>
    BY DEF Close
  <1>3. /\ process' \in Process /\ process'.platform = process.platform
        /\ child' \in Child /\ child'.got = child.got /\ child'.said = child.said
        /\ Ended => Ended'
    <2>1. CASE process.detached /\ Windows
      BY <2>1 DEF Close, ChildOK, ChildShape, Ended
    <2>2. CASE process.detached /\ ~Windows
      BY <2>2, HandlePolled, ChildReaped DEF Close, ChildOK, Ended
    <2>3. CASE ~process.detached
      <3> DEFINE status == IF Ended THEN child.status ELSE IF Windows THEN 1 ELSE 137
      <3>1. /\ child' = [child EXCEPT !.run = "reaped", !.status = status]
            /\ process' = [process EXCEPT !.exited = TRUE, !.status = status]
        BY <2>3 DEF Close
      <3>2. status \in Int
        BY DEF ChildOK, ChildShape, Child
      <3> HIDE DEF status
      <3> QED
        BY <3>1, <3>2 DEF ChildOK, ChildShape, Child, Process, Ended
    <2> QED
      BY <2>1, <2>2, <2>3
  <1> QED
    BY <1>1, <1>2, <1>3 DEF ChildOK, ChildShape, InputOK, OutputOK, Windows

LEMMA CloseJoinsKeepsOK == ASSUME ChildOK, CloseJoins PROVE ChildOK'
  <1>1. /\ stdin' \in Stdin /\ stdin'.queue = stdin.queue /\ stdin'.inflight = stdin.inflight
        /\ stdin'.failed = stdin.failed
    BY DEF CloseJoins, ChildOK, ChildShape, Stdin
  <1>2. /\ process' \in Process /\ process'.platform = process.platform /\ program' = "idle"
        /\ output' \in Output /\ output'.heard = output.heard /\ output'.eof = output.eof
    BY DEF CloseJoins, ChildOK, ChildShape, Process, Output
  <1>3. UNCHANGED <<writer, pipes, child, accepted>>
    BY DEF CloseJoins
  <1> QED
    BY <1>1, <1>2, <1>3 DEF ChildOK, ChildShape, InputOK, OutputOK, Windows, Ended

LEMMA OutputEnded ==
    ASSUME ChildShape, EndOfOutput
    PROVE  output' \in Output /\ output'.heard = output.heard
  BY DEF ChildShape, EndOfOutput, Output

LEMMA ReadKeepsOK == ASSUME ChildOK, NEW n \in 1..MaxOut, Read(n) PROVE ChildOK'
  <1>1. UNCHANGED <<stdin, writer, accepted>>
    BY DEF Read
  <1>2. CASE pipes.out > 0 /\ Take(Smaller(n, pipes.out))
    <2> DEFINE taken == Smaller(n, pipes.out)
    <2>1. taken \in Nat /\ taken <= pipes.out /\ pipes.out \in Nat /\ output.heard \in Nat
          /\ child.said \in Nat
      <3>1. n \in Nat /\ pipes.out \in Nat /\ output.heard \in Nat /\ child.said \in Nat
        BY Sizes, Parts DEF ChildOK
      <3> QED
        BY <3>1, RoomLeft
    <2>2. /\ pipes' = [pipes EXCEPT !.out = @ - taken]
          /\ output' = [output EXCEPT !.heard = @ + taken]
          /\ UNCHANGED <<process, program, child>>
      BY <1>2 DEF Take
    <2> HIDE DEF taken
    <2> DEFINE left == pipes.out - taken
               heard == output.heard + taken
    <2>3. left \in Nat /\ heard \in Nat /\ heard + left = child.said
      BY <2>1 DEF ChildOK, OutputOK
    <2>4. pipes' = [pipes EXCEPT !.out = left] /\ output' = [output EXCEPT !.heard = heard]
      BY <2>2
    <2> HIDE DEF left, heard
    <2>5. /\ pipes' \in Pipes /\ pipes'.in = pipes.in /\ pipes'.out = left
          /\ output' \in Output /\ output'.heard = heard /\ output'.eof = output.eof
      BY <2>3, <2>4 DEF ChildOK, ChildShape, Pipes, Output
    <2>6. ~Windows /\ output.eof => FALSE
      BY <1>2, <2>1 DEF ChildOK, OutputOK
    <2> QED
      BY <1>1, <2>2, <2>3, <2>5, <2>6 DEF ChildOK, ChildShape, InputOK, OutputOK, Windows, Ended
  <1>3. CASE pipes.out = 0 /\ Ended /\ EndOfOutput /\ UNCHANGED <<process, program, pipes, child>>
    BY <1>1, <1>3, OutputEnded DEF ChildOK, ChildShape, InputOK, OutputOK, Windows, Ended
  <1>4. CASE Windows /\ UNCHANGED <<process, pipes, child, output>>
    BY <1>1, <1>4 DEF ChildOK, ChildShape, InputOK, OutputOK, Windows, Ended
  <1> QED
    BY <1>2, <1>3, <1>4 DEF Read

LEMMA ReadPollsKeepsOK == ASSUME ChildOK, ReadPolls PROVE ChildOK'
  <1>1. /\ process' = Polled /\ child' = Reaped /\ program = "peeked"
        /\ UNCHANGED <<stdin, writer, pipes, accepted>>
    BY DEF ReadPolls
  <1>2. /\ process' \in Process /\ process'.platform = process.platform
        /\ child' \in Child /\ child'.got = child.got /\ child'.said = child.said
    BY <1>1, HandlePolled, ChildReaped DEF ChildOK
  <1>3. Windows
    BY <1>1 DEF ChildOK, OutputOK
  <1>4. output' \in Output /\ output'.heard = output.heard
    BY OutputEnded DEF ReadPolls, ChildOK, ChildShape
  <1> QED
    BY <1>1, <1>2, <1>3, <1>4 DEF ChildOK, ChildShape, InputOK, OutputOK, Windows

LEMMA ChildWritesKeepsOK == ASSUME ChildOK, ChildWrites PROVE ChildOK'
  <1> DEFINE said == child.said + 1
             out == pipes.out + 1
  <1>1. said \in Nat /\ out \in Nat /\ output.heard + out = said
    <2>1. /\ child.said \in Nat /\ pipes.out \in Nat /\ output.heard \in Nat
          /\ output.heard + pipes.out = child.said
      BY Parts DEF ChildOK, OutputOK
    <2> QED
      BY <2>1
  <1>2. /\ child' = [child EXCEPT !.said = said] /\ pipes' = [pipes EXCEPT !.out = out]
        /\ ~Ended /\ UNCHANGED <<process, program, stdin, writer, accepted, output>>
    BY DEF ChildWrites
  <1> HIDE DEF said, out
  <1>3. /\ child' \in Child /\ child'.got = child.got /\ child'.said = said
        /\ pipes' \in Pipes /\ pipes'.in = pipes.in /\ pipes'.out = out
    BY <1>1, <1>2 DEF ChildOK, ChildShape, Child, Pipes
  <1> QED
    BY <1>1, <1>2, <1>3 DEF ChildOK, ChildShape, InputOK, OutputOK, Windows, Ended

LEMMA ChildOKIsKept == ChildOK /\ [ChildNext]_childVars => ChildOK'
  <1> SUFFICES ASSUME ChildOK, [ChildNext]_childVars PROVE ChildOK'
    OBVIOUS
  <1>1. CASE \E n \in 1..MaxIn : WritePipe(n) \/ WriteQueue(n)
    BY <1>1, WritePipeKeepsOK, WriteQueueKeepsOK
  <1>2. CASE CloseStdin \/ PollExit \/ Cancel \/ Close \/ CloseJoins
    BY <1>2, CloseStdinKeepsOK, PollExitKeepsOK, CancelKeepsOK, CloseKeepsOK, CloseJoinsKeepsOK
  <1>3. CASE (\E n \in 1..MaxOut : Read(n)) \/ ReadPolls
    BY <1>3, ReadKeepsOK, ReadPollsKeepsOK
  <1>4. CASE Writer
    BY <1>4, WriterTakesKeepsOK, WriterWritesKeepsOK, WriterWroteKeepsOK, WriterFailsKeepsOK,
       WriterEndsKeepsOK DEF Writer
  <1>5. CASE ChildReads \/ ChildWrites \/ ChildEnds
    BY <1>5, ChildReadsKeepsOK, ChildWritesKeepsOK, ChildEndsKeepsOK
  <1>6. CASE UNCHANGED childVars
    BY <1>6 DEF childVars, ChildOK, ChildShape, InputOK, OutputOK, Windows, Ended
  <1> QED
    BY <1>1, <1>2, <1>3, <1>4, <1>5, <1>6 DEF ChildNext

(* The invariant holds of every behavior (child_processes.c). *)
THEOREM ChildAlwaysOK == ChildSpec => []ChildOK
  BY ChildOKInitially, ChildOKIsKept, PTL DEF ChildSpec

----------------------------------------------------------------------------
(* What counts on from one is the numbers in their order.                     *)
LEMMA CountingIsWhole ==
    ASSUME NEW s \in Seq(Nat), NEW n \in Nat, Counting(s, 0), Length(s) = n
    PROVE  s = [i \in 1..n |-> i]
  <1>1. /\ s = [i \in 1..Len(s) |-> s[i]] /\ \A i \in 1..Len(s) : s[i] = 0 + i
    BY LenProperties DEF Counting
  <1> QED
    BY <1>1 DEF Length

(* What has reached the pipe is the first of what is under way. *)
LEMMA PrefixOfJoined ==
    ASSUME NEW s \in Seq(Nat), NEW t \in Seq(Nat), Counting(s, 0)
    PROVE  /\ s \o t \in Seq(Nat)
           /\ \A i \in 1..Len(s) : (s \o t)[i] = i
  <1>1. /\ s \o t \in Seq(Nat)
        /\ \A i \in 1..Len(s) + Len(t) : (s \o t)[i] = IF i <= Len(s) THEN s[i] ELSE t[i - Len(s)]
    BY ConcatProperties
  <1>2. Len(s) \in Nat /\ Len(t) \in Nat
    BY LenProperties
  <1>3. \A i \in 1..Len(s) : i \in 1..Len(s) + Len(t) /\ i <= Len(s) /\ s[i] = i
    BY <1>2 DEF Counting
  <1> QED
    BY <1>1, <1>3

LEMMA FirstOfThree ==
    ASSUME NEW a \in Nat, NEW b \in Nat, NEW c \in Nat
    PROVE  \A i \in 1..a : i \in 1..(a + b) + c /\ i <= a + b
  OBVIOUS

LEMMA OKIsWhole == ChildOK => StreamsArriveWhole
  <1> SUFFICES ASSUME ChildOK PROVE StreamsArriveWhole
    OBVIOUS
  <1> DEFINE reached == child.got \o pipes.in
             buffered == reached \o writer.buffer
             under_way == buffered \o stdin.queue
  <1>1. /\ child.got \in Seq(Nat) /\ pipes.in \in Seq(Nat) /\ writer.buffer \in Seq(Nat)
        /\ stdin.queue \in Seq(Nat) /\ accepted \in Nat
        /\ Length(child.got) \in Nat /\ Length(pipes.in) \in Nat
        /\ 0 + Length(child.got) = Length(child.got)
    BY Parts, PartLengths DEF ChildOK
  <1>2. /\ reached \in Seq(Nat) /\ Length(reached) = Length(child.got) + Length(pipes.in)
        /\ Counting(reached, 0)
    <2>1. Counting(child.got, 0) /\ Counting(pipes.in, 0 + Length(child.got))
      BY <1>1 DEF ChildOK, InputOK
    <2> QED
      BY <1>1, <2>1, Joined
  <1> HIDE DEF reached
  <1>3. \A i \in 1..Len(reached) : under_way[i] = i
    <2>1. /\ buffered \in Seq(Nat)
          /\ \A i \in 1..Len(reached) : buffered[i] = i
      BY <1>1, <1>2, PrefixOfJoined
    <2>2. Len(reached) \in Nat /\ Len(stdin.queue) \in Nat /\ Len(writer.buffer) \in Nat
          /\ Len(buffered) = Len(reached) + Len(writer.buffer)
      BY <1>1, <1>2, ConcatProperties, LenProperties
    <2> HIDE DEF buffered
    <2>3. \A i \in 1..Len(buffered) + Len(stdin.queue) :
            under_way[i] = IF i <= Len(buffered) THEN buffered[i] ELSE stdin.queue[i - Len(buffered)]
      BY <1>1, <2>1, ConcatProperties
    <2>4. \A i \in 1..Len(reached) : i \in 1..Len(buffered) + Len(stdin.queue) /\ i <= Len(buffered)
      BY <2>2, FirstOfThree
    <2> QED
      BY <2>1, <2>3, <2>4
  <1>4. ASSUME ~stdin.failed PROVE under_way = [i \in 1..accepted |-> i]
    <2>1. /\ Counting(writer.buffer, 0 + Length(reached))
          /\ Length(reached) + Length(writer.buffer) + Length(stdin.queue) = accepted
      BY <1>1, <1>2, <1>4 DEF ChildOK, InputOK
    <2>2. /\ buffered \in Seq(Nat) /\ Length(buffered) = Length(reached) + Length(writer.buffer)
          /\ Counting(buffered, 0)
      BY <1>1, <1>2, <2>1, Joined
    <2> HIDE DEF buffered
    <2>3. Counting(stdin.queue, 0 + Length(buffered))
      <3>1. /\ Counting(stdin.queue, Length(reached) + Length(writer.buffer))
            /\ Length(writer.buffer) \in Nat /\ Length(reached) \in Nat
        BY <1>1, <1>2, <1>4, PartLengths, SMTT(30) DEF ChildOK, InputOK
      <3> QED
        BY <2>2, <3>1
    <2>4. /\ under_way \in Seq(Nat) /\ Length(under_way) = Length(buffered) + Length(stdin.queue)
          /\ Counting(under_way, 0)
      BY <1>1, <2>2, <2>3, Joined
    <2> HIDE DEF under_way
    <2>5. Length(under_way) = accepted
      BY <2>1, <2>2, <2>4
    <2> QED
      BY <1>1, <2>4, <2>5, CountingIsWhole
  <1>5. Len(stdin.queue) + stdin.inflight <= QueueSize
    BY DEF ChildOK, InputOK, Length
  <1>6. ~Windows => OutputIsReadWhole
    <2>1. output.heard \in Nat
      BY Parts DEF ChildOK
    <2> QED
      BY <2>1 DEF ChildOK, OutputOK, OutputIsReadWhole
  <1> QED
    BY <1>3, <1>4, <1>5, <1>6 DEF reached, StreamsArriveWhole

(* What writes accepted reaches the child whole and in order, the queue keeps   *)
(* its size, and on POSIX the end of the output comes after all of it, for any  *)
(* sizes of queue, buffer and pipe (__child_write, realtime_child_writer,      *)
(* __child_read).                                                           *)
THEOREM StreamsAlwaysWhole == ChildSpec => []StreamsArriveWhole
  BY ChildAlwaysOK, OKIsWhole, PTL
============================================================================
