---------------------------- MODULE ChildProcess ----------------------------
(***************************************************************************)
(* A streaming child process (src/native/runtime/child_processes.c): the      *)
(* program's thread, the child, and on Windows the thread that drains what    *)
(* the program wrote to the child's input through a queue of its own.         *)
(*                                                                         *)
(* The two streams are counted or numbered byte by byte; pipes, threads and   *)
(* the child belong to the operating system.  On POSIX the program writes to  *)
(* the pipe itself.  Descendants of the child that keep its pipes are left out.*)
(***************************************************************************)
EXTENDS Integers, Sequences, FiniteSets

CONSTANTS
    Platforms,      \* of "posix" and "windows"
    Detached,       \* whether the child may be spawned detached
    QueueSize,      \* write_capacity
    BufferSize,     \* what the writer takes at once
    PipeSize,       \* what the system's pipe holds
    MaxIn, MaxOut   \* bytes written to the child, and by it

ASSUME ChildConstants ==
    /\ Platforms \subseteq {"posix", "windows"} /\ Detached \subseteq BOOLEAN
    /\ \A size \in {QueueSize, BufferSize, PipeSize, MaxIn, MaxOut} : size \in Nat \ {0}

VARIABLES
    process,    \* the handle: platform, detached, closed, exited and its cached status
    program,    \* where the program's thread is
    stdin,      \* the parent's end: its queue, and the flags under write_mutex
    writer,     \* realtime_child_writer: where it is, and its buffer
    pipes,      \* what the input's pipe holds, and how much the output's
    child,      \* whether it runs, how it ended, what it got and how much it said
    accepted,   \* bytes that writes accepted
    output      \* the parent's end: open, bytes read, and whether a read said EOF

childVars == <<process, program, stdin, writer, pipes, child, accepted, output>>

Windows == process.platform = "windows"
Running == -1
Smaller(a, b) == IF a < b THEN a ELSE b
First(s, n) == SubSeq(s, 1, n)
Rest(s, n) == SubSeq(s, n + 1, Len(s))
Offered(n) == [i \in 1 .. n |-> accepted + i]

(* How a child may end: a status of a byte, or on Windows any word.            *)
Statuses == IF Windows THEN {0, -1} ELSE {0, 137}
Ended == child.run # "running"

ChildTypeOK ==
    /\ process \in [platform : Platforms, detached : Detached, closed : BOOLEAN,
                    exited : BOOLEAN, status : {-1, 0, 1, 137}]
    /\ program \in {"idle", "peeked", "closing"}
    /\ stdin.open \in BOOLEAN /\ stdin.queue \in Seq(1 .. MaxIn)
    /\ stdin.inflight \in 0 .. BufferSize /\ stdin.closing \in BOOLEAN /\ stdin.failed \in BOOLEAN
    /\ writer.at \in {"waiting", "writing", "gone"} /\ writer.buffer \in Seq(1 .. MaxIn)
    /\ pipes.in \in Seq(1 .. MaxIn) /\ Len(pipes.in) <= PipeSize /\ pipes.out \in 0 .. PipeSize
    /\ child.run \in {"running", "ended", "reaped"} /\ child.got \in Seq(1 .. MaxIn)
    /\ child.said \in 0 .. MaxOut /\ accepted \in 0 .. MaxIn
    /\ output \in [open : BOOLEAN, heard : 0 .. MaxOut, eof : BOOLEAN]

ChildInit ==
    /\ process \in [platform : Platforms, detached : Detached, closed : {FALSE},
                    exited : {FALSE}, status : {Running}]
    /\ program = "idle"
    /\ stdin = [open |-> TRUE, queue |-> <<>>, inflight |-> 0, closing |-> FALSE, failed |-> FALSE]
    /\ writer = [at |-> IF Windows THEN "waiting" ELSE "gone", buffer |-> <<>>]
    /\ pipes = [in |-> <<>>, out |-> 0]
    /\ child = [run |-> "running", status |-> Running, got |-> <<>>, said |-> 0]
    /\ accepted = 0
    /\ output = [open |-> TRUE, heard |-> 0, eof |-> FALSE]

----------------------------------------------------------------------------
(* The program's calls; each of them first looks that the handle is open. *)

Calls == program = "idle" /\ ~process.closed

(* realtime_child_poll: an exit is noticed once, and its status kept. *)
Polled == [process EXCEPT !.exited = Ended, !.status = IF Ended THEN child.status ELSE @]
Reaped == [child EXCEPT !.run = IF Ended THEN "reaped" ELSE @]

(* A write to the pipe of a child that has ended throws; a full one takes none. *)
WritePipe(n) ==
    LET taken == Smaller(n, PipeSize - Len(pipes.in))
    IN  /\ Calls /\ ~Windows /\ stdin.open /\ ~Ended
        /\ accepted + n <= MaxIn
        /\ pipes' = [pipes EXCEPT !.in = @ \o Offered(taken)]
        /\ accepted' = accepted + taken
        /\ UNCHANGED <<process, program, stdin, writer, child, output>>

(* A variant that forgets what the writer has taken and not yet written. *)
QueueRoomIgnoringInflight == QueueSize - Len(stdin.queue)
QueueRoom == QueueSize - Len(stdin.queue) - stdin.inflight
WriteQueue(n) ==
    LET taken == Smaller(n, QueueRoom)
    IN  /\ Calls /\ Windows /\ stdin.open /\ ~stdin.failed /\ ~stdin.closing
        /\ accepted + n <= MaxIn
        /\ stdin' = [stdin EXCEPT !.queue = @ \o Offered(taken)]
        /\ accepted' = accepted + taken
        /\ UNCHANGED <<process, program, writer, pipes, child, output>>

CloseStdin ==
    /\ Calls
    /\ stdin' = IF Windows THEN [stdin EXCEPT !.closing = TRUE] ELSE [stdin EXCEPT !.open = FALSE]
    /\ UNCHANGED <<process, program, writer, pipes, child, accepted, output>>

Take(n) ==
    /\ pipes' = [pipes EXCEPT !.out = @ - n]
    /\ output' = [output EXCEPT !.heard = @ + n]
    /\ UNCHANGED <<process, program, child>>
EndOfOutput == output' = [output EXCEPT !.open = FALSE, !.eof = TRUE]

(* Windows asks how much there is, and only when there is nothing whether the   *)
(* child has ended: the child may write and end in between.                  *)
Read(n) ==
    /\ Calls /\ output.open
    /\ \/ pipes.out > 0 /\ Take(Smaller(n, pipes.out))
       \/ /\ pipes.out = 0 /\ Ended /\ EndOfOutput
          /\ UNCHANGED <<process, program, pipes, child>>
       \/ /\ pipes.out = 0 /\ ~Ended /\ Windows
          /\ program' = "peeked"
          /\ UNCHANGED <<process, pipes, child, output>>
    /\ UNCHANGED <<stdin, writer, accepted>>
ReadPolls ==
    /\ program = "peeked" /\ program' = "idle"
    /\ process' = Polled /\ child' = Reaped
    /\ IF process'.exited /\ process'.status >= 0 THEN EndOfOutput ELSE UNCHANGED output
    /\ UNCHANGED <<stdin, writer, pipes, accepted>>

PollExit ==
    /\ Calls /\ Ended /\ ~process.exited
    /\ process' = Polled /\ child' = Reaped
    /\ UNCHANGED <<program, stdin, writer, pipes, accepted, output>>

(* A job that is terminated ends at once; a signal only asks the child to end.  *)
Cancel ==
    /\ Calls /\ process' = Polled
    /\ \/ /\ Windows /\ ~Ended
          /\ child' = [child EXCEPT !.run = "ended", !.status = 1]
       \/ (~Windows \/ Ended) /\ child' = Reaped
    /\ UNCHANGED <<program, stdin, writer, pipes, accepted, output>>

----------------------------------------------------------------------------
(* realtime_child_cleanup: the child is killed and waited for, the writer is   *)
(* asked to end and joined, the handles are closed.                          *)

(* The writer is not told. *)
CloseUntold ==
    /\ Calls /\ program' = "closing"
    /\ child' = IF Ended \/ ~process.detached THEN [child EXCEPT !.run = "reaped"] ELSE child
    /\ UNCHANGED <<process, stdin, writer, pipes, accepted, output>>

Close ==
    /\ Calls /\ program' = "closing"
    /\ IF process.detached
       THEN IF Windows THEN UNCHANGED <<child, process>> ELSE child' = Reaped /\ process' = Polled
       ELSE LET status == IF Ended THEN child.status ELSE IF Windows THEN 1 ELSE 137
            IN  /\ child' = [child EXCEPT !.run = "reaped", !.status = status]
                /\ process' = [process EXCEPT !.exited = TRUE, !.status = status]
    /\ stdin' = IF Windows THEN [stdin EXCEPT !.closing = TRUE] ELSE stdin
    /\ UNCHANGED <<writer, pipes, accepted, output>>
CloseJoins ==
    /\ program = "closing" /\ writer.at = "gone"
    /\ program' = "idle"
    /\ process' = [process EXCEPT !.closed = TRUE]
    /\ stdin' = [stdin EXCEPT !.open = FALSE]
    /\ output' = [output EXCEPT !.open = FALSE]
    /\ UNCHANGED <<writer, pipes, child, accepted>>

----------------------------------------------------------------------------
(* realtime_child_writer *)

WriterTakes ==
    LET amount == Smaller(BufferSize, Len(stdin.queue))
    IN  /\ writer.at = "waiting" /\ amount > 0
        /\ writer' = [at |-> "writing", buffer |-> First(stdin.queue, amount)]
        /\ stdin' = [stdin EXCEPT !.queue = Rest(@, amount), !.inflight = @ + amount]
        /\ UNCHANGED <<process, program, pipes, child, accepted, output>>

(* The call returns when all of the buffer is in the pipe. *)
WriterWrites ==
    LET room == Smaller(PipeSize - Len(pipes.in), Len(writer.buffer))
    IN  /\ writer.at = "writing" /\ ~Ended /\ room > 0
        /\ pipes' = [pipes EXCEPT !.in = @ \o First(writer.buffer, room)]
        /\ writer' = [writer EXCEPT !.buffer = Rest(@, room)]
        /\ UNCHANGED <<process, program, stdin, child, accepted, output>>
WriterWrote ==
    /\ writer.at = "writing" /\ writer.buffer = <<>>
    /\ writer' = [writer EXCEPT !.at = "waiting"]
    /\ stdin' = [stdin EXCEPT !.inflight = 0]
    /\ UNCHANGED <<process, program, pipes, child, accepted, output>>
WriterFails ==
    /\ writer.at = "writing" /\ writer.buffer # <<>> /\ Ended
    /\ writer' = [at |-> "gone", buffer |-> <<>>]
    /\ stdin' = [stdin EXCEPT !.failed = TRUE, !.inflight = 0, !.open = FALSE]
    /\ UNCHANGED <<process, program, pipes, child, accepted, output>>
WriterEnds ==
    /\ writer.at = "waiting" /\ stdin.queue = <<>> /\ stdin.closing
    /\ writer' = [writer EXCEPT !.at = "gone"]
    /\ stdin' = [stdin EXCEPT !.open = FALSE]
    /\ UNCHANGED <<process, program, pipes, child, accepted, output>>
Writer == WriterTakes \/ WriterWrites \/ WriterWrote \/ WriterFails \/ WriterEnds

----------------------------------------------------------------------------
(* The child, which may be slow, deaf, or end at any time. *)

ChildReads ==
    /\ ~Ended /\ pipes.in # <<>>
    /\ child' = [child EXCEPT !.got = Append(@, Head(pipes.in))]
    /\ pipes' = [pipes EXCEPT !.in = Tail(@)]
    /\ UNCHANGED <<process, program, stdin, writer, accepted, output>>
ChildWrites ==
    /\ ~Ended /\ pipes.out < PipeSize /\ child.said < MaxOut /\ output.open
    /\ child' = [child EXCEPT !.said = @ + 1]
    /\ pipes' = [pipes EXCEPT !.out = @ + 1]
    /\ UNCHANGED <<process, program, stdin, writer, accepted, output>>
ChildEnds ==
    /\ ~Ended
    /\ \E status \in Statuses : child' = [child EXCEPT !.run = "ended", !.status = status]
    /\ UNCHANGED <<process, program, stdin, writer, pipes, accepted, output>>

ChildNext ==
    \/ \E n \in 1 .. MaxIn : WritePipe(n) \/ WriteQueue(n)
    \/ CloseStdin \/ PollExit \/ Cancel \/ Close \/ CloseJoins
    \/ (\E n \in 1 .. MaxOut : Read(n)) \/ ReadPolls
    \/ Writer
    \/ ChildReads \/ ChildWrites \/ ChildEnds

(* Threads run; the child and the program's calls owe nothing. *)
ChildFairness == WF_childVars(Writer) /\ WF_childVars(ReadPolls) /\ WF_childVars(CloseJoins)
ChildSpec == ChildInit /\ [][ChildNext]_childVars
ChildFairSpec == ChildSpec /\ ChildFairness

----------------------------------------------------------------------------
(* A read says EOF only when all the child wrote has been read                  *)
(* (ChildProcess.hx: "Reads return a positive byte count, -1 for EOF").        *)
OutputIsReadWhole == output.eof => output.heard = child.said

(* What the writes accepted reaches the child whole and in order, through the   *)
(* queue, the writer's buffer and the pipe, as far as the child lives to read   *)
(* it; what is accepted but not yet in the pipe never exceeds the queue's size; *)
(* and where the read itself tells the end, it tells it after all the output    *)
(* (__child_write, realtime_child_writer, __child_read on POSIX).              *)
StreamsArriveWhole ==
    LET under_way == child.got \o pipes.in \o writer.buffer \o stdin.queue
    IN  /\ \A i \in 1 .. Len(child.got \o pipes.in) : under_way[i] = i
        /\ ~stdin.failed => under_way = [i \in 1 .. accepted |-> i]
        /\ Len(stdin.queue) + stdin.inflight <= QueueSize
        /\ ~Windows => OutputIsReadWhole

(* Closing a child that is not detached returns, whatever the child does with   *)
(* its input, and leaves neither a live child nor a zombie                   *)
(* (realtime_child_cleanup).                                                *)
CloseEndsTheChild ==
    program = "closing" /\ ~process.detached ~> process.closed /\ child.run = "reaped"
============================================================================
