------------------------------ MODULE RpcPair ------------------------------
(***************************************************************************)
(* Two RpcConnections (stdlib/haxeon/rpc/RpcConnection.hx) over a pair of     *)
(* MemoryTransports, which hold a bounded number of messages and may lose an  *)
(* accepted one.  Both ends can call, answer, cancel and close.               *)
(*                                                                         *)
(* A poll is a sequence of steps: flush the queue, expire calls, expire       *)
(* requests, receive.  Callbacks and handlers run while it expires calls and  *)
(* receives, and may then use the connection like any other code of its owner.*)
(* A poll's budgets are left out: it may stop sending and receiving at any    *)
(* message.  A clock is the set of calls and the set of requests whose        *)
(* deadline has passed.                                                     *)
(***************************************************************************)
EXTENDS Integers, Sequences, FiniteSets

CONSTANTS
    Callers,     \* the ends that call
    MaxCalls,    \* maxCalls of each connection
    Capacity,    \* maxMessages of both transports
    MaxId,       \* bound: calls of one end
    MaxNotices,  \* bound: notifications of each end
    MaxExtras    \* bound: notifications, and messages lost or delivered twice

Side == {"client", "server"}
Peer(s) == IF s = "client" THEN "server" ELSE "client"
Id == 1..MaxId

ASSUME CallersAssumption == Callers \subseteq Side
ASSUME LimitsAssumption == MaxCalls \in [Side -> Nat \ {0}] /\ Capacity \in Nat \ {0}
ASSUME BoundsAssumption ==
    MaxId \in Nat /\ MaxNotices \in [Side -> Nat] /\ MaxExtras \in Nat

VARIABLES
    conn,      \* the connection of each end
    open,      \* whether each end's transport is open
    channel,   \* messages on their way to each end
    answer,    \* history: what became of each call, by the end that made it
    runs,      \* history: how often its handler was invoked
    faults

vars == <<conn, open, channel, answer, runs, faults>>

(* RpcEnvelope.  A Failed says whether the request may have been executed; a  *)
(* failure that the handler chose is an answer like any other.               *)
Kinds == {"request", "response", "refused", "ambiguous", "cancel", "notification"}
Message == [kind : Kinds, id : Nat]
Msg(kind, id) == [kind |-> kind, id |-> id]

Steps == {"idle", "flush", "calls", "requests", "receive"}

Connection == [open          : BOOLEAN,
               pending       : SUBSET Id,
               pendingCount  : Nat,
               lateCalls     : SUBSET Id,
               active        : SUBSET Id,
               activeCount   : Nat,
               lateRequests  : SUBSET Id,
               outgoing      : Seq(Message),
               nextId        : Nat,
               lastRequestId : Nat,
               notices       : Nat,
               step          : Steps,
               expired       : SUBSET Id]

Outcome == {"unused", "waiting", "answered", "refused", "ambiguous"}

TypeOK ==
    /\ conn \in [Side -> Connection]
    /\ open \in [Side -> BOOLEAN]
    /\ channel \in [Side -> Seq(Message)]
    /\ answer \in [Side -> [Id -> Outcome]]
    /\ runs \in [Side -> [Id -> Nat]]
    /\ faults \in Nat

NewConnection == [open |-> TRUE, pending |-> {}, pendingCount |-> 0, lateCalls |-> {},
                  active |-> {}, activeCount |-> 0, lateRequests |-> {},
                  outgoing |-> << >>, nextId |-> 1, lastRequestId |-> 0, notices |-> 0,
                  step |-> "idle", expired |-> {}]

Init ==
    /\ conn = [s \in Side |-> NewConnection]
    /\ open = [s \in Side |-> TRUE]
    /\ channel = [s \in Side |-> << >>]
    /\ answer = [s \in Side |-> [id \in Id |-> "unused"]]
    /\ runs = [s \in Side |-> [id \in Id |-> 0]]
    /\ faults = 0

----------------------------------------------------------------------------
(* The transport. *)

TransportOpen == \A s \in Side : open[s]
IsOpen(s) == conn[s].open /\ TransportOpen

HasRoom(s) == TransportOpen /\ Len(channel[Peer(s)]) < Capacity

Extras == faults + conn["client"].notices + conn["server"].notices

(* An accepted message arrives, or does not.  `flow` is what the channels hold *)
(* when it is sent.                                                          *)
Accept(s, flow, m) ==
    \/ /\ channel' = [flow EXCEPT ![Peer(s)] = Append(@, m)]
       /\ UNCHANGED faults
    \/ /\ Extras < MaxExtras
       /\ faults' = faults + 1
       /\ channel' = flow

(* A transport other than this one may deliver a message again. *)
Duplicate(s) ==
    /\ TransportOpen
    /\ Extras < MaxExtras
    /\ channel[s] # << >>
    /\ faults' = faults + 1
    /\ channel' = [channel EXCEPT ![s] = Append(@, Head(@))]
    /\ UNCHANGED <<conn, open, answer, runs>>

(* trySend may refuse what the transport would take, once a poll's budget is  *)
(* used up.                                                                 *)
MayRefuse(s) == ~HasRoom(s) \/ conn[s].step # "idle"

----------------------------------------------------------------------------
(* The connection.  An operation that ends by keeping, closing or sending is   *)
(* given the connection, its callers' answers and the channels as it has left  *)
(* them so far: c, known, flow.                                              *)

(* A callback may throw, which ends the poll it runs in. *)
AfterCallback(c) == {c, [c EXCEPT !.step = "idle", !.expired = {}]}

Kept(s, c, known) ==
    /\ conn' = [conn EXCEPT ![s] = c]
    /\ answer' = [answer EXCEPT ![s] = known]
    /\ UNCHANGED open

Unsent(s, c, known, flow) ==
    /\ Kept(s, c, known)
    /\ channel' = flow
    /\ UNCHANGED faults

(* close: every waiter learns that its call may have been executed. *)
Closed(s, c, known) ==
    /\ \E after \in AfterCallback(c) :
           conn' = [conn EXCEPT ![s] = [after EXCEPT
                        !.open = FALSE, !.outgoing = << >>,
                        !.pending = {}, !.pendingCount = 0, !.lateCalls = {},
                        !.active = {}, !.activeCount = 0, !.lateRequests = {}]]
    /\ answer' = [answer EXCEPT ![s] = [id \in Id |->
                     IF id \in c.pending THEN "ambiguous" ELSE known[id]]]
    /\ open' = [open EXCEPT ![s] = FALSE]
    /\ channel' = [side \in Side |-> << >>]
    /\ UNCHANGED faults

(* Mutant: a message that does not fit into the queue is dropped. *)
EnqueueDropping(s, c, known, flow, m) ==
    IF ~IsOpen(s)
    THEN Unsent(s, c, known, flow)
    ELSE \/ c.outgoing = << >> /\ HasRoom(s) /\ Accept(s, flow, m) /\ Kept(s, c, known)
         \/ /\ c.outgoing # << >> \/ MayRefuse(s)
            /\ Unsent(s, IF Len(c.outgoing) < MaxCalls[s]
                         THEN [c EXCEPT !.outgoing = Append(@, m)] ELSE c, known, flow)

(* enqueueBytes: a queue that is full, by messages or by bytes, closes the    *)
(* connection.                                                              *)
Enqueue(s, c, known, flow, m) ==
    IF ~IsOpen(s)
    THEN Unsent(s, c, known, flow)
    ELSE \/ c.outgoing = << >> /\ HasRoom(s) /\ Accept(s, flow, m) /\ Kept(s, c, known)
         \/ /\ c.outgoing # << >> \/ MayRefuse(s)
            /\ \/ /\ Len(c.outgoing) < MaxCalls[s]
                  /\ Unsent(s, [c EXCEPT !.outgoing = Append(@, m)], known, flow)
               \/ c.outgoing # << >> /\ Closed(s, c, known)

(* takePending *)
Taken(c, id) == [c EXCEPT !.pending = @ \ {id}, !.pendingCount = @ - 1,
                          !.lateCalls = @ \ {id}]

Dropped(c, id) == [c EXCEPT !.active = @ \ {id}, !.activeCount = @ - 1,
                            !.lateRequests = @ \ {id}]

Settled(s, id, outcome) == [answer[s] EXCEPT ![id] = outcome]

(* Mutant: the peer is not told. *)
AbandonSilently(s, c, id) ==
    Unsent(s, Taken(c, id), Settled(s, id, "ambiguous"), channel)

(* The end of a call that was not answered: the callback learns it, and the    *)
(* peer is told to stop.                                                     *)
Abandon(s, c, id) ==
    \E after \in AfterCallback(Taken(c, id)) :
        Enqueue(s, after, Settled(s, id, "ambiguous"), channel, Msg("cancel", id))

----------------------------------------------------------------------------
(* What an owner, a callback or a handler does. *)

(* call: the request is sent at once or not at all. *)
Call(s) ==
    /\ s \in Callers
    /\ IsOpen(s)
    /\ conn[s].pendingCount < MaxCalls[s]
    /\ conn[s].outgoing = << >>
    /\ conn[s].nextId <= MaxId
    /\ LET id == conn[s].nextId
           c == [conn[s] EXCEPT !.nextId = @ + 1]
       IN  \/ /\ HasRoom(s)
              /\ Accept(s, channel, Msg("request", id))
              /\ Kept(s, [c EXCEPT !.pending = @ \cup {id}, !.pendingCount = @ + 1],
                      Settled(s, id, "waiting"))
           \/ Unsent(s, c, Settled(s, id, "refused"), channel)
    /\ UNCHANGED runs

Cancel(s, id) ==
    /\ id \in conn[s].pending
    /\ Abandon(s, conn[s], id)
    /\ UNCHANGED runs

(* Mutant: the request is not forgotten. *)
FinishKeeping(s, id, kind) ==
    /\ conn[s].open
    /\ id \in conn[s].active \ conn[s].lateRequests
    /\ Enqueue(s, conn[s], answer[s], channel, Msg(kind, id))
    /\ UNCHANGED runs

(* finish: a handler answers or fails as it likes, or has thrown.  A reply     *)
(* that is too long throws instead and changes nothing.                      *)
Finish(s, id, kind) ==
    /\ conn[s].open
    /\ id \in conn[s].active \ conn[s].lateRequests
    /\ Enqueue(s, Dropped(conn[s], id), answer[s], channel, Msg(kind, id))
    /\ UNCHANGED runs

Notify(s) ==
    /\ IsOpen(s)
    /\ conn[s].notices < MaxNotices[s]
    /\ Extras < MaxExtras
    /\ Enqueue(s, [conn[s] EXCEPT !.notices = @ + 1], answer[s], channel,
               Msg("notification", 0))
    /\ UNCHANGED runs

Close(s) ==
    /\ conn[s].open
    /\ Closed(s, conn[s], answer[s])
    /\ UNCHANGED runs

CallExpires(s) ==
    /\ \E id \in conn[s].pending \ conn[s].lateCalls :
           conn' = [conn EXCEPT ![s].lateCalls = @ \cup {id}]
    /\ UNCHANGED <<open, channel, answer, runs, faults>>

RequestExpires(s) ==
    /\ \E id \in conn[s].active \ conn[s].lateRequests :
           conn' = [conn EXCEPT ![s].lateRequests = @ \cup {id}]
    /\ UNCHANGED <<open, channel, answer, runs, faults>>

----------------------------------------------------------------------------
(* poll. *)

At(s, step) == conn[s].step = step
Goto(s, step, expired) ==
    /\ conn' = [conn EXCEPT ![s].step = step, ![s].expired = expired]
    /\ UNCHANGED <<open, channel, answer, runs, faults>>

(* Mutant: a poll that finds the transport closed only returns. *)
PollReturning(s) ==
    /\ At(s, "idle")
    /\ IsOpen(s)
    /\ Goto(s, "flush", {})

Poll(s) ==
    /\ At(s, "idle")
    /\ IF IsOpen(s) THEN Goto(s, "flush", {})
       ELSE conn[s].open /\ Closed(s, conn[s], answer[s]) /\ UNCHANGED runs

Flush(s) ==
    /\ At(s, "flush")
    /\ conn[s].outgoing # << >>
    /\ HasRoom(s)
    /\ Accept(s, channel, Head(conn[s].outgoing))
    /\ conn' = [conn EXCEPT ![s].outgoing = Tail(@)]
    /\ UNCHANGED <<open, answer, runs>>

(* The calls that have expired by now are those this poll ends. *)
Flushed(s) ==
    /\ At(s, "flush")
    /\ Goto(s, "calls", conn[s].lateCalls)

(* Unless a callback has ended the call since. *)
ExpireCall(s) ==
    /\ At(s, "calls")
    /\ \E id \in conn[s].expired :
           LET c == [conn[s] EXCEPT !.expired = @ \ {id}]
           IN  IF id \in c.pending THEN Abandon(s, c, id)
               ELSE Unsent(s, c, answer[s], channel)
    /\ UNCHANGED runs

CallsExpired(s) ==
    /\ At(s, "calls")
    /\ conn[s].expired = {}
    /\ Goto(s, "requests", conn[s].lateRequests)

ExpireRequest(s) ==
    /\ At(s, "requests")
    /\ \E id \in conn[s].expired :
           LET c == [conn[s] EXCEPT !.expired = @ \ {id}]
           IN  IF id \in c.active
               THEN Enqueue(s, Dropped(c, id), answer[s], channel, Msg("ambiguous", id))
               ELSE Unsent(s, c, answer[s], channel)
    /\ UNCHANGED runs

RequestsExpired(s) ==
    /\ At(s, "requests")
    /\ conn[s].expired = {}
    /\ Goto(s, "receive", {})

(* The end of a poll, with or without messages left. *)
Polled(s) ==
    /\ At(s, "receive")
    /\ Goto(s, "idle", {})

----------------------------------------------------------------------------
(* dispatch. *)

Receives(s, kind) ==
    /\ At(s, "receive")
    /\ IsOpen(s)
    /\ channel[s] # << >>
    /\ Head(channel[s]).kind = kind

MessageId(s) == Head(channel[s]).id
Rest(s) == [channel EXCEPT ![s] = Tail(@)]

(* What the call's callback is told; nothing if nobody waits any more. *)
Answer(s, outcome) ==
    LET id == MessageId(s)
        c == conn[s]
    IN  IF id \in c.pending
        THEN \E after \in AfterCallback(Taken(c, id)) :
                Unsent(s, after, Settled(s, id, IF id \in c.lateCalls THEN "ambiguous" ELSE outcome),
                       Rest(s))
        ELSE Unsent(s, c, answer[s], Rest(s))

(* A response that cannot be decoded is no answer. *)
ReceiveResponse(s) ==
    /\ Receives(s, "response")
    /\ \E outcome \in {"answered", "ambiguous"} : Answer(s, outcome)
    /\ UNCHANGED runs

ReceiveFailed(s) ==
    /\ \E kind \in {"refused", "ambiguous"} : Receives(s, kind) /\ Answer(s, kind)
    /\ UNCHANGED runs

ReceiveCancel(s) ==
    /\ Receives(s, "cancel")
    /\ LET id == MessageId(s)
       IN  Unsent(s, IF id \in conn[s].active THEN Dropped(conn[s], id) ELSE conn[s],
                  answer[s], Rest(s))
    /\ UNCHANGED runs

(* Ids increase, so that no request is executed twice. *)
ReceiveAgain(s) ==
    /\ Receives(s, "request")
    /\ MessageId(s) <= conn[s].lastRequestId
    /\ Closed(s, conn[s], answer[s])
    /\ UNCHANGED runs

(* Mutant: ids are not compared. *)
FreshOrNot(s) == Receives(s, "request")

Fresh(s) == Receives(s, "request") /\ MessageId(s) > conn[s].lastRequestId

(* No such method, too many requests in hand, or a payload that cannot be     *)
(* decoded.                                                                 *)
ReceiveRefused(s) ==
    /\ Fresh(s)
    /\ Enqueue(s, [conn[s] EXCEPT !.lastRequestId = MessageId(s)], answer[s], Rest(s),
               Msg("refused", MessageId(s)))
    /\ UNCHANGED runs

(* Mutant: the limit is not enforced. *)
ReceiveRequestUnlimited(s) ==
    /\ Fresh(s)
    /\ LET id == MessageId(s)
           c == [conn[s] EXCEPT !.lastRequestId = id, !.active = @ \cup {id},
                                !.activeCount = @ + 1]
       IN  /\ Unsent(s, c, answer[s], Rest(s))
           /\ runs' = [runs EXCEPT ![Peer(s)][id] = @ + 1]

(* One that expires while it is decoded and found invalid does not run either, *)
(* and stays in hand until the next poll.                                     *)
ReceiveRequest(s) ==
    /\ Fresh(s)
    /\ conn[s].activeCount < MaxCalls[s]
    /\ LET id == MessageId(s)
           c == [conn[s] EXCEPT !.lastRequestId = id, !.active = @ \cup {id},
                                !.activeCount = @ + 1]
       IN  \/ /\ Unsent(s, c, answer[s], Rest(s))
              /\ runs' = [runs EXCEPT ![Peer(s)][id] = @ + 1]
           \/ /\ Unsent(s, [c EXCEPT !.lateRequests = @ \cup {id}], answer[s], Rest(s))
              /\ UNCHANGED runs

(* A handler may throw, and a payload that cannot be decoded closes the       *)
(* connection.                                                              *)
ReceiveNotification(s) ==
    /\ Receives(s, "notification")
    /\ \/ \E after \in AfterCallback(conn[s]) : Unsent(s, after, answer[s], Rest(s))
       \/ Closed(s, conn[s], answer[s])
    /\ UNCHANGED runs

----------------------------------------------------------------------------
Uses(s) ==
    /\ conn[s].step \in {"idle", "calls", "receive"}
    /\ \/ Call(s) \/ Notify(s) \/ Close(s)
       \/ \E id \in Id : Cancel(s, id)
       \/ \E id \in Id, kind \in {"response", "ambiguous"} : Finish(s, id, kind)

Polls(s) ==
    \/ Poll(s) \/ Flush(s) \/ Flushed(s)
    \/ ExpireCall(s) \/ CallsExpired(s)
    \/ ExpireRequest(s) \/ RequestsExpired(s) \/ Polled(s)

Receive(s) ==
    \/ ReceiveResponse(s) \/ ReceiveFailed(s) \/ ReceiveCancel(s)
    \/ ReceiveAgain(s) \/ ReceiveRefused(s) \/ ReceiveRequest(s)
    \/ ReceiveNotification(s)

Next ==
    \E s \in Side :
        \/ Uses(s) \/ Polls(s) \/ Receive(s)
        \/ CallExpires(s) \/ RequestExpires(s) \/ Duplicate(s)

Spec == Init /\ [][Next]_vars

(* A poll goes on until it ends, and the next one comes. *)
PollGoesOn(s) ==
    \/ Poll(s) \/ Flushed(s) \/ ExpireCall(s) \/ CallsExpired(s)
    \/ ExpireRequest(s) \/ RequestsExpired(s) \/ Polled(s)

(* An owner that has made calls keeps polling, polls end, and time passes.     *)
(* Nothing is asked of the peer, the transport or the handlers.               *)
Fairness == \A s \in Callers : WF_vars(PollGoesOn(s)) /\ WF_vars(CallExpires(s))

FairSpec == Spec /\ Fairness

----------------------------------------------------------------------------
(* The connections keep their shape; the counters that enforce the limits      *)
(* agree with what they count, and neither calls, requests in hand nor queued   *)
(* messages exceed the limit.                                                *)
WithinLimits ==
    TypeOK /\ \A s \in Side :
        /\ conn[s].pendingCount = Cardinality(conn[s].pending)
        /\ conn[s].activeCount = Cardinality(conn[s].active)
        /\ conn[s].pendingCount <= MaxCalls[s]
        /\ conn[s].activeCount <= MaxCalls[s]
        /\ Len(conn[s].outgoing) <= MaxCalls[s]

Carries(queue, kinds, id) ==
    {i \in DOMAIN queue : queue[i].kind \in kinds /\ queue[i].id = id}

(* On a transport without faults, a handler whose caller waits no longer (it   *)
(* cancelled, or its deadline passed) is going to be told so: its cancellation *)
(* is queued or on its way for as long as both ends are open.                 *)
OrphansAreCancelled ==
    faults = 0 /\ (\A s \in Side : conn[s].open) =>
        \A s \in Side : \A id \in conn[s].active :
            \/ id \in conn[Peer(s)].pending
            \/ Carries(channel[s] \o conn[Peer(s)].outgoing, {"cancel"}, id) # {}

Replies == {"response", "refused", "ambiguous"}

(* "A context completes at most once": without faults, no request has two      *)
(* replies on their way, nor one while it is in hand.                         *)
RepliesOnce ==
    faults = 0 =>
        \A s \in Side, id \in Id :
            Cardinality(Carries(channel[Peer(s)] \o conn[s].outgoing, Replies, id))
                + (IF id \in conn[s].active THEN 1 ELSE 0) <= 1

(* Nothing is dropped silently: without faults and while both ends are open, a  *)
(* call that waits has its request on its way or in hand, or its reply on its  *)
(* way or queued, however full the queues are.                                *)
WaitsForSomething ==
    faults = 0 /\ (\A s \in Side : conn[s].open) =>
        \A s \in Side : \A id \in conn[s].pending :
            \/ Carries(channel[Peer(s)], {"request"}, id) # {}
            \/ id \in conn[Peer(s)].active
            \/ Carries(channel[s] \o conn[Peer(s)].outgoing, Replies, id) # {}

Abstract == INSTANCE RemoteCalls WITH
    Calls <- Side \X Id,
    answer <- [call \in Side \X Id |-> answer[call[1]][call[2]]],
    runs <- [call \in Side \X Id |-> runs[call[1]][call[2]]]

(* The promises of docs/RPC.md, kept whatever the transport loses or repeats,   *)
(* whatever the callbacks do and however deadlines, cancellations, replies and *)
(* closes race: one answer, at most one execution, "answered" only after one   *)
(* and "refused" never after one.                                             *)
ImplementsRemoteCalls == Abstract!Spec

(* A call does not wait for ever, even if its peer has stopped: an end that has *)
(* made its calls is left without one that waits.                             *)
EveryCallSettles ==
    []<>(\A s \in Callers, id \in Id : answer[s][id] # "waiting")
============================================================================
