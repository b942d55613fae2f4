---------------------------- MODULE RpcPairProofs ----------------------------
(***************************************************************************)
(* Proofs about RpcPair, for all limits, any number of calls by either end,   *)
(* any number of faults and any interleaving, in three parts: the limits; that *)
(* RpcPair implements RemoteCalls; and what it promises while its transport    *)
(* neither loses nor repeats a message.                                      *)
(***************************************************************************)
EXTENDS RpcPair, SequenceTheorems, FiniteSetTheorems, TLAPS

----------------------------------------------------------------------------
(* The invariant of the limits.  Ids only grow, so that an id that is added to *)
(* a table is not in it; a message but for a notification carries the id of a  *)
(* call.                                                                    *)

Letter == {m \in Message : m.kind # "notification" => m.id \in Id}

ConnectionOK(s, c) ==
    /\ c \in Connection
    /\ c.outgoing \in Seq(Letter)
    /\ c.nextId > 0
    /\ \A id \in c.pending : id < c.nextId
    /\ \A id \in c.active : id <= c.lastRequestId
    /\ c.pendingCount = Cardinality(c.pending)
    /\ c.activeCount = Cardinality(c.active)
    /\ c.pendingCount <= MaxCalls[s]
    /\ c.activeCount <= MaxCalls[s]
    /\ Len(c.outgoing) <= MaxCalls[s]

InOrder ==
    /\ TypeOK
    /\ channel \in [Side -> Seq(Letter)]
    /\ \A s \in Side : ConnectionOK(s, conn[s])

(* Sets of ids are finite, and counted one by one. *)
LEMMA IdsAreCounted ==
    ASSUME NEW S \in SUBSET Id
    PROVE  /\ Cardinality(S) \in Nat
           /\ \A id \in Id \ S : Cardinality(S \cup {id}) = Cardinality(S) + 1
           /\ \A id \in S : Cardinality(S \ {id}) = Cardinality(S) - 1
           /\ Cardinality({}) = 0
  <1>1. IsFiniteSet(Id)
    BY FS_Interval, BoundsAssumption DEF Id
  <1>2. IsFiniteSet(S)
    BY <1>1, FS_Subset
  <1> QED
    BY <1>2, FS_CardinalityType, FS_AddElement, FS_RemoveElement, FS_EmptySet

LEMMA PeerIsASide ==
    ASSUME NEW s \in Side
    PROVE  Peer(s) \in Side /\ Peer(s) # s /\ Peer(Peer(s)) = s
  BY DEF Side, Peer

(* A letter is what the connection writes. *)
LEMMA MsgIsALetter ==
    ASSUME NEW kind \in Kinds, NEW id \in Nat, id \in Id \/ kind = "notification"
    PROVE  Msg(kind, id) \in Letter
  BY DEF Msg, Letter, Message

(* Taking and dropping keep a connection in order. *)
LEMMA TakenOK ==
    ASSUME NEW s \in Side, NEW c, ConnectionOK(s, c), NEW id \in c.pending
    PROVE  ConnectionOK(s, Taken(c, id))
  <1>1. Cardinality(c.pending \ {id}) = Cardinality(c.pending) - 1
        /\ Cardinality(c.pending \ {id}) \in Nat
    BY IdsAreCounted DEF ConnectionOK, Connection
  <1>2. Taken(c, id) \in Connection
    BY <1>1 DEF ConnectionOK, Connection, Taken
  <1> QED
    BY <1>1, <1>2, LimitsAssumption, SMTT(30) DEF ConnectionOK, Connection, Taken

LEMMA DroppedOK ==
    ASSUME NEW s \in Side, NEW c, ConnectionOK(s, c), NEW id \in c.active
    PROVE  ConnectionOK(s, Dropped(c, id))
  <1>1. Cardinality(c.active \ {id}) = Cardinality(c.active) - 1
        /\ Cardinality(c.active \ {id}) \in Nat
    BY IdsAreCounted DEF ConnectionOK, Connection
  <1>2. Dropped(c, id) \in Connection
    BY <1>1 DEF ConnectionOK, Connection, Dropped
  <1> QED
    BY <1>1, <1>2, LimitsAssumption, SMTT(30) DEF ConnectionOK, Connection, Dropped

(* So does a callback that throws. *)
LEMMA AfterCallbackOK ==
    ASSUME NEW s \in Side, NEW c, ConnectionOK(s, c), NEW after \in AfterCallback(c)
    PROVE  ConnectionOK(s, after)
  BY DEF ConnectionOK, Connection, AfterCallback, Steps

(* ... and the move to another step of the poll. *)
LEMMA MovedOK ==
    ASSUME NEW s \in Side, NEW c, ConnectionOK(s, c), NEW step \in Steps,
           NEW expired \in SUBSET Id
    PROVE  ConnectionOK(s, [c EXCEPT !.step = step, !.expired = expired])
  BY DEF ConnectionOK, Connection

----------------------------------------------------------------------------
(* The ends of an operation keep the connections in order.                   *)

LEMMA LettersAreMessages == Seq(Letter) \subseteq Seq(Message)
  BY SeqMonotonic DEF Letter

LEMMA KeptOK ==
    ASSUME InOrder, NEW s \in Side, NEW c, ConnectionOK(s, c),
           NEW known \in [Id -> Outcome], Kept(s, c, known),
           channel' \in [Side -> Seq(Letter)], runs' \in [Side -> [Id -> Nat]],
           faults' \in Nat
    PROVE  InOrder'
  <1>1. conn' = [conn EXCEPT ![s] = c] /\ \A t \in Side : ConnectionOK(t, conn'[t])
    BY DEF Kept, InOrder, TypeOK
  <1>2. conn' \in [Side -> Connection]
    BY <1>1 DEF ConnectionOK, InOrder, TypeOK
  <1>3. answer' \in [Side -> [Id -> Outcome]] /\ open' \in [Side -> BOOLEAN]
    BY DEF Kept, InOrder, TypeOK
  <1>4. channel' \in [Side -> Seq(Message)]
    BY LettersAreMessages
  <1> QED
    BY <1>1, <1>2, <1>3, <1>4 DEF InOrder, TypeOK, ConnectionOK

LEMMA UnsentOK ==
    ASSUME InOrder, NEW s \in Side, NEW c, ConnectionOK(s, c),
           NEW known \in [Id -> Outcome], NEW flow \in [Side -> Seq(Letter)],
           Unsent(s, c, known, flow), runs' \in [Side -> [Id -> Nat]]
    PROVE  InOrder'
  BY KeptOK DEF Unsent, InOrder, TypeOK

LEMMA AcceptOK ==
    ASSUME InOrder, NEW s \in Side, NEW flow \in [Side -> Seq(Letter)], NEW m \in Letter,
           Accept(s, flow, m)
    PROVE  channel' \in [Side -> Seq(Letter)] /\ faults' \in Nat
  <1>1. Append(flow[Peer(s)], m) \in Seq(Letter)
    BY PeerIsASide, AppendProperties
  <1>2. \A q \in Seq(Letter) : [flow EXCEPT ![Peer(s)] = q] \in [Side -> Seq(Letter)]
    BY PeerIsASide
  <1>3. faults' \in Nat
    BY DEF Accept, InOrder, TypeOK
  <1> QED
    BY <1>1, <1>2, <1>3 DEF Accept

LEMMA EmptiedOK ==
    ASSUME NEW s \in Side, NEW c, ConnectionOK(s, c)
    PROVE  ConnectionOK(s, [c EXCEPT
               !.open = FALSE, !.outgoing = << >>,
               !.pending = {}, !.pendingCount = 0, !.lateCalls = {},
               !.active = {}, !.activeCount = 0, !.lateRequests = {}])
  <1>1. << >> \in Seq(Letter) /\ << >> \in Seq(Message) /\ Len(<< >>) = 0
    BY EmptySeq
  <1>2. Cardinality({}) = 0
    BY IdsAreCounted
  <1> DEFINE e == [c EXCEPT
                     !.open = FALSE, !.outgoing = << >>,
                     !.pending = {}, !.pendingCount = 0, !.lateCalls = {},
                     !.active = {}, !.activeCount = 0, !.lateRequests = {}]
  <1>3. e \in Connection
    BY <1>1 DEF ConnectionOK, Connection
  <1>4. e.outgoing = << >> /\ e.nextId = c.nextId
        /\ e.pending = {} /\ e.pendingCount = 0 /\ e.active = {} /\ e.activeCount = 0
    BY DEF ConnectionOK, Connection
  <1> HIDE DEF e
  <1>5. ConnectionOK(s, e)
    BY <1>1, <1>2, <1>3, <1>4, LimitsAssumption DEF ConnectionOK
  <1> QED
    BY <1>5 DEF e

LEMMA ClosedOK ==
    ASSUME InOrder, NEW s \in Side, NEW c, ConnectionOK(s, c),
           NEW known \in [Id -> Outcome], Closed(s, c, known),
           runs' \in [Side -> [Id -> Nat]]
    PROVE  InOrder'
  <1>1. PICK after \in AfterCallback(c) :
            conn' = [conn EXCEPT ![s] = [after EXCEPT
                        !.open = FALSE, !.outgoing = << >>,
                        !.pending = {}, !.pendingCount = 0, !.lateCalls = {},
                        !.active = {}, !.activeCount = 0, !.lateRequests = {}]]
    BY DEF Closed
  <1>2. ConnectionOK(s, after)
    BY AfterCallbackOK
  <1>3. \A t \in Side : ConnectionOK(t, conn'[t])
    BY <1>1, <1>2, EmptiedOK DEF InOrder, TypeOK
  <1>4. conn' \in [Side -> Connection]
    BY <1>1, <1>3 DEF ConnectionOK, InOrder, TypeOK
  <1>5. answer' \in [Side -> [Id -> Outcome]]
    <2>1. [id \in Id |-> IF id \in c.pending THEN "ambiguous" ELSE known[id]]
              \in [Id -> Outcome]
      BY DEF Outcome
    <2> QED
      BY <2>1 DEF Closed, InOrder, TypeOK
  <1>6. open' \in [Side -> BOOLEAN] /\ faults' \in Nat
    BY DEF Closed, InOrder, TypeOK
  <1>7. channel' \in [Side -> Seq(Letter)] /\ channel' \in [Side -> Seq(Message)]
    BY EmptySeq DEF Closed
  <1> QED
    BY <1>3, <1>4, <1>5, <1>6, <1>7 DEF InOrder, TypeOK, ConnectionOK

LEMMA QueuedOK ==
    ASSUME NEW s \in Side, NEW c, ConnectionOK(s, c), NEW m \in Letter,
           Len(c.outgoing) < MaxCalls[s]
    PROVE  ConnectionOK(s, [c EXCEPT !.outgoing = Append(@, m)])
  <1>1. Append(c.outgoing, m) \in Seq(Letter) /\ Append(c.outgoing, m) \in Seq(Message)
        /\ Len(Append(c.outgoing, m)) = Len(c.outgoing) + 1
    BY AppendProperties, LettersAreMessages, ZenonT(60) DEF ConnectionOK
  <1>2. Len(c.outgoing) \in Nat
    BY LenProperties DEF ConnectionOK
  <1> DEFINE e == [c EXCEPT !.outgoing = Append(@, m)]
  <1>3. e \in Connection
    BY <1>1 DEF ConnectionOK, Connection
  <1>4. e.outgoing = Append(c.outgoing, m) /\ e.nextId = c.nextId
        /\ e.pending = c.pending /\ e.pendingCount = c.pendingCount
        /\ e.active = c.active /\ e.activeCount = c.activeCount
        /\ e.lastRequestId = c.lastRequestId
    BY DEF ConnectionOK, Connection
  <1> HIDE DEF e
  <1>5. ConnectionOK(s, e)
    BY <1>1, <1>2, <1>3, <1>4, LimitsAssumption DEF ConnectionOK
  <1> QED
    BY <1>5 DEF e

LEMMA EnqueueOK ==
    ASSUME InOrder, NEW s \in Side, NEW c, ConnectionOK(s, c),
           NEW known \in [Id -> Outcome], NEW flow \in [Side -> Seq(Letter)],
           NEW m \in Letter, Enqueue(s, c, known, flow, m),
           runs' \in [Side -> [Id -> Nat]]
    PROVE  InOrder'
  <1>1. CASE Unsent(s, c, known, flow)
    BY <1>1, UnsentOK
  <1>2. CASE Accept(s, flow, m) /\ Kept(s, c, known)
    BY <1>2, AcceptOK, KeptOK
  <1>3. CASE /\ Len(c.outgoing) < MaxCalls[s]
             /\ Unsent(s, [c EXCEPT !.outgoing = Append(@, m)], known, flow)
    BY <1>3, UnsentOK, QueuedOK
  <1>4. CASE Closed(s, c, known)
    BY <1>4, ClosedOK
  <1> QED
    BY <1>1, <1>2, <1>3, <1>4 DEF Enqueue

(* A call that ends unanswered, and one that is answered. *)
LEMMA AbandonOK ==
    ASSUME InOrder, NEW s \in Side, NEW c, ConnectionOK(s, c), NEW id \in c.pending,
           Abandon(s, c, id), runs' \in [Side -> [Id -> Nat]]
    PROVE  InOrder'
  <1>1. PICK after \in AfterCallback(Taken(c, id)) :
            Enqueue(s, after, Settled(s, id, "ambiguous"), channel, Msg("cancel", id))
    BY DEF Abandon
  <1>2. ConnectionOK(s, after)
    BY TakenOK, AfterCallbackOK
  <1>3. id \in Id /\ id \in Nat
    BY BoundsAssumption DEF ConnectionOK, Connection, Id
  <1>4. Settled(s, id, "ambiguous") \in [Id -> Outcome]
    BY DEF Settled, InOrder, TypeOK, Outcome
  <1>5. Msg("cancel", id) \in Letter
    BY <1>3, MsgIsALetter DEF Kinds
  <1> QED
    BY <1>1, <1>2, <1>4, <1>5, EnqueueOK DEF InOrder

(* What is left when the first message has been taken. *)
LEMMA RestOK ==
    ASSUME InOrder, NEW s \in Side, channel[s] # << >>
    PROVE  /\ Rest(s) \in [Side -> Seq(Letter)]
           /\ Head(channel[s]) \in Letter
  BY HeadTailProperties DEF Rest, InOrder

LEMMA AnswerOK ==
    ASSUME InOrder, NEW s \in Side, channel[s] # << >>, NEW outcome \in Outcome,
           Answer(s, outcome), UNCHANGED runs
    PROVE  InOrder'
  <1> DEFINE id == MessageId(s)
  <1>1. runs' \in [Side -> [Id -> Nat]]
    BY DEF InOrder, TypeOK
  <1>2. CASE id \in conn[s].pending
    <2>1. PICK after \in AfterCallback(Taken(conn[s], id)),
               known \in {Settled(s, id, "ambiguous"), Settled(s, id, outcome)} :
              Unsent(s, after, known, Rest(s))
      BY <1>2 DEF Answer
    <2>2. ConnectionOK(s, after)
      BY <1>2, TakenOK, AfterCallbackOK DEF InOrder
    <2>3. known \in [Id -> Outcome]
      BY DEF Settled, InOrder, TypeOK, Outcome
    <2> QED
      BY <1>1, <2>1, <2>2, <2>3, RestOK, UnsentOK
  <1>3. CASE id \notin conn[s].pending
    BY <1>1, <1>3, RestOK, UnsentOK DEF Answer, InOrder, TypeOK
  <1> QED
    BY <1>2, <1>3

----------------------------------------------------------------------------
(* Every action keeps the connections in order.                              *)

(* A call takes the next id, and waits under it. *)
Numbered(c) == [c EXCEPT !.nextId = @ + 1]
Waiting(c, id) == [c EXCEPT !.pending = @ \cup {id}, !.pendingCount = @ + 1]

LEMMA NumberedOK ==
    ASSUME NEW s \in Side, NEW c, ConnectionOK(s, c)
    PROVE  ConnectionOK(s, Numbered(c))
  BY DEF ConnectionOK, Connection, Numbered, Id

LEMMA WaitingOK ==
    ASSUME NEW s \in Side, NEW c, ConnectionOK(s, c), NEW id \in Id \ c.pending,
           id < c.nextId, c.pendingCount < MaxCalls[s]
    PROVE  ConnectionOK(s, Waiting(c, id))
  <1> DEFINE w == Waiting(c, id)
  <1>1. Cardinality(c.pending \cup {id}) = Cardinality(c.pending) + 1
    BY IdsAreCounted DEF ConnectionOK, Connection
  <1>2. w \in Connection
    <2>1. c.pending \cup {id} \in SUBSET Id /\ c.pendingCount + 1 \in Nat
      BY DEF ConnectionOK, Connection
    <2> QED
      BY <2>1 DEF ConnectionOK, Connection, Waiting
  <1>3. /\ w.pending = c.pending \cup {id} /\ w.pendingCount = c.pendingCount + 1
        /\ w.nextId = c.nextId /\ w.lastRequestId = c.lastRequestId
        /\ w.active = c.active /\ w.activeCount = c.activeCount /\ w.outgoing = c.outgoing
    BY DEF ConnectionOK, Connection, Waiting
  <1>4. \A other \in w.pending : other < w.nextId
    BY <1>3 DEF ConnectionOK
  <1> HIDE DEF w
  <1>5. ConnectionOK(s, w)
    BY <1>1, <1>2, <1>3, <1>4, LimitsAssumption DEF ConnectionOK, Connection
  <1> QED
    BY <1>5 DEF w

LEMMA NoticedOK ==
    ASSUME NEW s \in Side, NEW c, ConnectionOK(s, c)
    PROVE  ConnectionOK(s, [c EXCEPT !.notices = @ + 1])
  BY DEF ConnectionOK, Connection

(* A poll sends the first message, and strikes an expired id off its list. *)
Struck(c, id) == [c EXCEPT !.expired = @ \ {id}]

LEMMA StruckOK ==
    ASSUME NEW s \in Side, NEW c, ConnectionOK(s, c), NEW id
    PROVE  /\ ConnectionOK(s, Struck(c, id))
           /\ Struck(c, id).pending = c.pending
           /\ Struck(c, id).active = c.active
  BY DEF ConnectionOK, Connection, Struck

LEMMA FlushedOK ==
    ASSUME NEW s \in Side, NEW c, ConnectionOK(s, c), c.outgoing # << >>
    PROVE  /\ ConnectionOK(s, [c EXCEPT !.outgoing = Tail(@)])
           /\ Head(c.outgoing) \in Letter
  <1>1. /\ Tail(c.outgoing) \in Seq(Letter) /\ Head(c.outgoing) \in Letter
        /\ Tail(c.outgoing) \in Seq(Message)
        /\ Len(Tail(c.outgoing)) = Len(c.outgoing) - 1
    BY HeadTailProperties, LettersAreMessages DEF ConnectionOK
  <1>2. Len(c.outgoing) \in Nat
    BY LenProperties DEF ConnectionOK
  <1> DEFINE e == [c EXCEPT !.outgoing = Tail(@)]
  <1>3. e \in Connection
    BY <1>1 DEF ConnectionOK, Connection
  <1>4. e.outgoing = Tail(c.outgoing) /\ e.nextId = c.nextId
        /\ e.pending = c.pending /\ e.pendingCount = c.pendingCount
        /\ e.active = c.active /\ e.activeCount = c.activeCount
        /\ e.lastRequestId = c.lastRequestId
    BY DEF ConnectionOK, Connection
  <1> HIDE DEF e
  <1>5. ConnectionOK(s, e)
    BY <1>1, <1>2, <1>3, <1>4, LimitsAssumption DEF ConnectionOK
  <1> QED
    BY <1>1, <1>5 DEF e

LEMMA CallOK ==
    ASSUME InOrder, NEW s \in Side, Call(s)
    PROVE  InOrder'
  <1> DEFINE id == conn[s].nextId
             c == Numbered(conn[s])
             waiting == Waiting(c, id)
  <1>1. ConnectionOK(s, conn[s]) /\ conn[s] \in Connection
    BY DEF InOrder, ConnectionOK
  <1>2. id \in Id /\ id \notin conn[s].pending
    BY <1>1, BoundsAssumption DEF Call, ConnectionOK, Connection, Id
  <1>3. runs' \in [Side -> [Id -> Nat]]
    BY DEF Call, InOrder, TypeOK
  <1>4. ConnectionOK(s, c)
    BY <1>1, NumberedOK
  <1>5. /\ c.pending = conn[s].pending /\ c.pendingCount = conn[s].pendingCount
        /\ c.nextId = id + 1 /\ id \in Nat
    BY <1>1 DEF Connection, Numbered
  <1>6. ConnectionOK(s, waiting)
    BY <1>2, <1>4, <1>5, WaitingOK DEF Call
  <1>7. Settled(s, id, "waiting") \in [Id -> Outcome]
        /\ Settled(s, id, "refused") \in [Id -> Outcome]
    BY DEF Settled, InOrder, TypeOK, Outcome
  <1>8. Msg("request", id) \in Letter
    BY <1>1, <1>2, MsgIsALetter DEF Kinds, Connection
  <1>9. channel \in [Side -> Seq(Letter)]
    BY DEF InOrder
  <1>10. CASE /\ Accept(s, channel, Msg("request", id))
              /\ Kept(s, waiting, Settled(s, id, "waiting"))
    BY <1>3, <1>6, <1>7, <1>8, <1>9, <1>10, AcceptOK, KeptOK
  <1>11. CASE Unsent(s, c, Settled(s, id, "refused"), channel)
    BY <1>3, <1>4, <1>7, <1>9, <1>11, UnsentOK
  <1> QED
    BY <1>10, <1>11 DEF Call, Numbered, Waiting

LEMMA UsesOK ==
    ASSUME InOrder, NEW s \in Side, Uses(s)
    PROVE  InOrder'
  <1>1. ConnectionOK(s, conn[s]) /\ conn[s] \in Connection
        /\ answer[s] \in [Id -> Outcome] /\ channel \in [Side -> Seq(Letter)]
    BY DEF InOrder, ConnectionOK, TypeOK
  <1>2. UNCHANGED runs => runs' \in [Side -> [Id -> Nat]]
    BY DEF InOrder, TypeOK
  <1>3. CASE Call(s)
    BY <1>3, CallOK
  <1>4. CASE Notify(s)
    <2> DEFINE c == [conn[s] EXCEPT !.notices = @ + 1]
    <2>1. ConnectionOK(s, c)
      BY <1>1, NoticedOK
    <2>2. Msg("notification", 0) \in Letter
      BY MsgIsALetter DEF Kinds
    <2> QED
      BY <1>1, <1>2, <1>4, <2>1, <2>2, EnqueueOK DEF Notify
  <1>5. CASE Close(s)
    BY <1>1, <1>2, <1>5, ClosedOK DEF Close
  <1>6. ASSUME NEW id \in Id, Cancel(s, id)
        PROVE  InOrder'
    BY <1>1, <1>2, <1>6, AbandonOK DEF Cancel
  <1>7. ASSUME NEW id \in Id, NEW kind \in {"response", "ambiguous"}, Finish(s, id, kind)
        PROVE  InOrder'
    <2>1. id \in conn[s].active /\ id \in Nat
      BY <1>7, BoundsAssumption DEF Finish, Id
    <2>2. ConnectionOK(s, Dropped(conn[s], id))
      BY <1>1, <2>1, DroppedOK
    <2>3. Msg(kind, id) \in Letter
      BY <2>1, MsgIsALetter DEF Kinds
    <2> QED
      BY <1>1, <1>2, <1>7, <2>2, <2>3, EnqueueOK DEF Finish
  <1> QED
    BY <1>3, <1>4, <1>5, <1>6, <1>7 DEF Uses

LEMMA PollsOK ==
    ASSUME InOrder, NEW s \in Side, Polls(s)
    PROVE  InOrder'
  <1>1. ConnectionOK(s, conn[s]) /\ conn[s] \in Connection
        /\ answer[s] \in [Id -> Outcome] /\ channel \in [Side -> Seq(Letter)]
        /\ conn \in [Side -> Connection]
    BY DEF InOrder, ConnectionOK, TypeOK
  <1>2. UNCHANGED runs => runs' \in [Side -> [Id -> Nat]]
    BY DEF InOrder, TypeOK
  <1>3. ASSUME NEW step \in Steps, NEW expired \in SUBSET Id, Goto(s, step, expired)
        PROVE  InOrder'
    <2>1. ConnectionOK(s, [conn[s] EXCEPT !.step = step, !.expired = expired])
      BY <1>1, MovedOK
    <2>2. conn' = [conn EXCEPT ![s] = [conn[s] EXCEPT !.step = step, !.expired = expired]]
      BY <1>1, <1>3 DEF Goto
    <2>3. Kept(s, [conn[s] EXCEPT !.step = step, !.expired = expired], answer[s])
      BY <1>3, <2>2 DEF Goto, Kept, InOrder, TypeOK
    <2> QED
      BY <1>1, <1>2, <1>3, <2>1, <2>3, KeptOK DEF Goto, InOrder, TypeOK
  <1>4. CASE Poll(s)
    <2>1. CASE Goto(s, "flush", {})
      BY <1>3, <2>1 DEF Steps
    <2>2. CASE Closed(s, conn[s], answer[s]) /\ UNCHANGED runs
      BY <1>1, <1>2, <2>2, ClosedOK
    <2> QED
      BY <1>4, <2>1, <2>2 DEF Poll
  <1>5. CASE Flush(s)
    <2> DEFINE c == [conn[s] EXCEPT !.outgoing = Tail(@)]
    <2>1. Head(conn[s].outgoing) \in Letter /\ ConnectionOK(s, c)
      BY <1>1, <1>5, FlushedOK DEF Flush
    <2>2. conn' = [conn EXCEPT ![s] = c]
      BY <1>1, <1>5 DEF Flush
    <2>3. Kept(s, c, answer[s])
      BY <1>5, <2>2 DEF Flush, Kept, InOrder, TypeOK
    <2>4. channel' \in [Side -> Seq(Letter)] /\ faults' \in Nat
      BY <1>1, <1>5, <2>1, AcceptOK DEF Flush
    <2> QED
      BY <1>1, <1>2, <1>5, <2>1, <2>3, <2>4, KeptOK DEF Flush
  <1>6. CASE Flushed(s)
    BY <1>1, <1>3, <1>6 DEF Flushed, Steps, Connection
  <1>7. CASE ExpireCall(s)
    <2>1. PICK id \in conn[s].expired :
              IF id \in conn[s].pending
              THEN Abandon(s, Struck(conn[s], id), id)
              ELSE Unsent(s, Struck(conn[s], id), answer[s], channel)
      BY <1>1, <1>7, StruckOK DEF ExpireCall, Struck
    <2>2. ConnectionOK(s, Struck(conn[s], id))
          /\ Struck(conn[s], id).pending = conn[s].pending
      BY <1>1, StruckOK
    <2> QED
      BY <1>1, <1>2, <1>7, <2>1, <2>2, AbandonOK, UnsentOK DEF ExpireCall
  <1>8. CASE CallsExpired(s)
    BY <1>1, <1>3, <1>8 DEF CallsExpired, Steps, Connection
  <1>9. CASE ExpireRequest(s)
    <2>1. PICK id \in conn[s].expired :
              IF id \in conn[s].active
              THEN Enqueue(s, Dropped(Struck(conn[s], id), id), answer[s], channel,
                           Msg("ambiguous", id))
              ELSE Unsent(s, Struck(conn[s], id), answer[s], channel)
      BY <1>1, <1>9, StruckOK DEF ExpireRequest, Struck
    <2>2. ConnectionOK(s, Struck(conn[s], id))
          /\ Struck(conn[s], id).active = conn[s].active
      BY <1>1, StruckOK
    <2>3. CASE id \in conn[s].active
      <3>1. ConnectionOK(s, Dropped(Struck(conn[s], id), id))
        BY <2>2, <2>3, DroppedOK
      <3>2. Msg("ambiguous", id) \in Letter
        BY <1>1, MsgIsALetter, BoundsAssumption DEF Connection, Kinds, Id
      <3> QED
        BY <1>1, <1>2, <1>9, <2>1, <2>3, <3>1, <3>2, EnqueueOK DEF ExpireRequest
    <2> QED
      BY <1>1, <1>2, <1>9, <2>1, <2>2, <2>3, UnsentOK DEF ExpireRequest
  <1>10. CASE RequestsExpired(s)
    BY <1>1, <1>3, <1>10 DEF RequestsExpired, Steps
  <1>11. CASE Polled(s)
    BY <1>1, <1>3, <1>11 DEF Polled, Steps
  <1> QED
    BY <1>4, <1>5, <1>6, <1>7, <1>8, <1>9, <1>10, <1>11 DEF Polls

(* A request in hand. *)
InHand(c, id) ==
    [c EXCEPT !.lastRequestId = id, !.active = @ \cup {id}, !.activeCount = @ + 1]

LEMMA InHandOK ==
    ASSUME NEW s \in Side, NEW c, ConnectionOK(s, c), NEW id \in Id, id > c.lastRequestId,
           c.activeCount < MaxCalls[s]
    PROVE  /\ ConnectionOK(s, InHand(c, id))
           /\ ConnectionOK(s, [InHand(c, id) EXCEPT !.lateRequests = @ \cup {id}])
  <1> DEFINE w == InHand(c, id)
             l == [w EXCEPT !.lateRequests = @ \cup {id}]
  <1>1. id \in Nat /\ c.lastRequestId \in Nat /\ id \notin c.active
        /\ \A other \in c.active : other \in Nat
    BY BoundsAssumption DEF ConnectionOK, Connection, Id
  <1>2. Cardinality(c.active \cup {id}) = Cardinality(c.active) + 1
    BY <1>1, IdsAreCounted DEF ConnectionOK, Connection
  <1>3. w \in Connection /\ l \in Connection
    <2>1. /\ c.active \cup {id} \in SUBSET Id /\ c.lateRequests \cup {id} \in SUBSET Id
          /\ c.activeCount + 1 \in Nat
      BY DEF ConnectionOK, Connection
    <2>2. w \in Connection /\ w.lateRequests = c.lateRequests
      BY <1>1, <2>1 DEF ConnectionOK, Connection, InHand
    <2> QED
      BY <2>1, <2>2 DEF ConnectionOK, Connection
  <1>4. \A x \in {w, l} :
            /\ x.pending = c.pending /\ x.pendingCount = c.pendingCount
            /\ x.nextId = c.nextId /\ x.lastRequestId = id /\ x.outgoing = c.outgoing
            /\ x.active = c.active \cup {id} /\ x.activeCount = c.activeCount + 1
    BY DEF ConnectionOK, Connection, InHand
  <1> HIDE DEF w, l
  <1>5. \A other \in c.active \cup {id} : other <= id
    BY <1>1 DEF ConnectionOK, Connection
  <1>6. ASSUME NEW x \in {w, l}
        PROVE  ConnectionOK(s, x)
    <2>0. /\ c.activeCount = Cardinality(c.active) /\ c.activeCount \in Nat
          /\ MaxCalls[s] \in Nat
      BY LimitsAssumption DEF ConnectionOK, Connection
    <2>1. x.active = c.active \cup {id} /\ x.activeCount = c.activeCount + 1
      BY <1>4
    <2>2. Cardinality(x.active) = c.activeCount + 1
      BY <1>2, <2>0, <2>1, Zenon
    <2>3. x.activeCount <= MaxCalls[s]
      BY <2>0, <2>1
    <2>4. \A other \in x.active : other <= x.lastRequestId
      BY <1>4, <1>5
    <2> QED
      BY <1>3, <1>4, <2>1, <2>2, <2>3, <2>4 DEF ConnectionOK
  <1> QED
    BY <1>6 DEF w, l

LEMMA RefusedOK ==
    ASSUME NEW s \in Side, NEW c, ConnectionOK(s, c), NEW id \in Nat, id > c.lastRequestId
    PROVE  ConnectionOK(s, [c EXCEPT !.lastRequestId = id])
  <1>1. \A other \in c.active : other \in Nat /\ other <= id
    BY BoundsAssumption DEF ConnectionOK, Connection, Id
  <1> QED
    BY <1>1 DEF ConnectionOK, Connection

LEMMA ReceiveOK ==
    ASSUME InOrder, NEW s \in Side, Receive(s)
    PROVE  InOrder'
  <1>1. ConnectionOK(s, conn[s]) /\ conn[s] \in Connection
        /\ answer[s] \in [Id -> Outcome] /\ channel \in [Side -> Seq(Letter)]
        /\ conn \in [Side -> Connection]
    BY DEF InOrder, ConnectionOK, TypeOK
  <1>2. UNCHANGED runs => runs' \in [Side -> [Id -> Nat]]
    BY DEF InOrder, TypeOK
  <1>3. channel[s] # << >> /\ Rest(s) \in [Side -> Seq(Letter)]
        /\ Head(channel[s]) \in Letter
    <2>1. channel[s] # << >>
      BY DEF Receive, ReceiveResponse, ReceiveFailed, ReceiveCancel, ReceiveAgain,
             ReceiveRefused, ReceiveRequest, ReceiveNotification, Fresh, Receives
    <2> QED
      BY <2>1, RestOK
  <1>4. CASE ReceiveResponse(s)
    BY <1>3, <1>4, AnswerOK DEF ReceiveResponse, Outcome
  <1>5. CASE ReceiveFailed(s)
    BY <1>3, <1>5, AnswerOK DEF ReceiveFailed, Outcome
  <1>6. CASE ReceiveCancel(s)
    <2>1. CASE MessageId(s) \in conn[s].active
      BY <1>1, <1>2, <1>3, <1>6, <2>1, DroppedOK, UnsentOK DEF ReceiveCancel
    <2>2. CASE MessageId(s) \notin conn[s].active
      BY <1>1, <1>2, <1>3, <1>6, <2>2, UnsentOK DEF ReceiveCancel
    <2> QED
      BY <2>1, <2>2
  <1>7. CASE ReceiveAgain(s)
    BY <1>1, <1>2, <1>7, ClosedOK DEF ReceiveAgain
  <1>8. Fresh(s) => /\ MessageId(s) \in Id /\ MessageId(s) \in Nat
                    /\ MessageId(s) > conn[s].lastRequestId
    BY <1>3, BoundsAssumption DEF Fresh, Receives, MessageId, Letter, Message
  <1>9. CASE ReceiveRefused(s)
    <2>1. ConnectionOK(s, [conn[s] EXCEPT !.lastRequestId = MessageId(s)])
      BY <1>1, <1>8, <1>9, RefusedOK DEF ReceiveRefused
    <2>2. Msg("refused", MessageId(s)) \in Letter
      BY <1>8, <1>9, MsgIsALetter DEF ReceiveRefused, Kinds
    <2> QED
      BY <1>1, <1>2, <1>3, <1>9, <2>1, <2>2, EnqueueOK DEF ReceiveRefused
  <1>10. CASE ReceiveRequest(s)
    <2> DEFINE id == MessageId(s)
               c == InHand(conn[s], id)
               late == [c EXCEPT !.lateRequests = @ \cup {id}]
    <2>1. ConnectionOK(s, c) /\ ConnectionOK(s, late)
      BY <1>1, <1>8, <1>10, InHandOK DEF ReceiveRequest
    <2>2. CASE /\ Unsent(s, c, answer[s], Rest(s))
               /\ runs' = [runs EXCEPT ![Peer(s)][id] = @ + 1]
      <3>1. runs' \in [Side -> [Id -> Nat]]
        BY <1>8, <1>10, <2>2, PeerIsASide DEF ReceiveRequest, InOrder, TypeOK
      <3> QED
        BY <1>1, <1>3, <2>1, <2>2, <3>1, UnsentOK
    <2>3. CASE Unsent(s, late, answer[s], Rest(s)) /\ UNCHANGED runs
      BY <1>1, <1>2, <1>3, <2>1, <2>3, UnsentOK
    <2> QED
      BY <1>10, <2>2, <2>3 DEF ReceiveRequest, InHand
  <1>11. CASE ReceiveNotification(s)
    BY <1>1, <1>2, <1>3, <1>11, AfterCallbackOK, UnsentOK, ClosedOK DEF ReceiveNotification
  <1> QED
    BY <1>4, <1>5, <1>6, <1>7, <1>9, <1>10, <1>11 DEF Receive

(* A deadline passes. *)
LEMMA LateOK ==
    ASSUME NEW s \in Side, NEW c, ConnectionOK(s, c), NEW id \in Id
    PROVE  /\ ConnectionOK(s, [c EXCEPT !.lateCalls = @ \cup {id}])
           /\ ConnectionOK(s, [c EXCEPT !.lateRequests = @ \cup {id}])
  BY DEF ConnectionOK, Connection

LEMMA TimePassesOK ==
    ASSUME InOrder, NEW s \in Side, CallExpires(s) \/ RequestExpires(s)
    PROVE  InOrder'
  <1>1. ConnectionOK(s, conn[s]) /\ conn[s] \in Connection /\ conn \in [Side -> Connection]
    BY DEF InOrder, ConnectionOK, TypeOK
  <1>2. PICK c : ConnectionOK(s, c) /\ conn' = [conn EXCEPT ![s] = c]
    <2>1. \A id \in Id :
              /\ ConnectionOK(s, [conn[s] EXCEPT !.lateCalls = @ \cup {id}])
              /\ ConnectionOK(s, [conn[s] EXCEPT !.lateRequests = @ \cup {id}])
      BY <1>1, LateOK
    <2>2. CASE CallExpires(s)
      <3>1. PICK id \in conn[s].pending : conn' = [conn EXCEPT ![s].lateCalls = @ \cup {id}]
        BY <2>2 DEF CallExpires
      <3> QED
        BY <1>1, <2>1, <3>1 DEF Connection
    <2>3. CASE RequestExpires(s)
      <3>1. PICK id \in conn[s].active : conn' = [conn EXCEPT ![s].lateRequests = @ \cup {id}]
        BY <2>3 DEF RequestExpires
      <3> QED
        BY <1>1, <2>1, <3>1 DEF Connection
    <2> QED
      BY <2>2, <2>3
  <1>3. Kept(s, c, answer[s])
    BY <1>2 DEF CallExpires, RequestExpires, Kept, InOrder, TypeOK
  <1> QED
    BY <1>2, <1>3, KeptOK DEF CallExpires, RequestExpires, InOrder, TypeOK

LEMMA DuplicateOK ==
    ASSUME InOrder, NEW s \in Side, Duplicate(s)
    PROVE  InOrder'
  <1>1. Append(channel[s], Head(channel[s])) \in Seq(Letter)
    BY HeadTailProperties, AppendProperties DEF Duplicate, InOrder
  <1>2. channel' \in [Side -> Seq(Letter)]
    BY <1>1 DEF Duplicate, InOrder
  <1>3. Kept(s, conn[s], answer[s])
    BY DEF Duplicate, Kept, InOrder, TypeOK
  <1> QED
    BY <1>2, <1>3, KeptOK DEF Duplicate, InOrder, TypeOK

----------------------------------------------------------------------------
(* The limits hold, always: whatever is lost or repeated, and however polls,   *)
(* callbacks and closes interleave.                                         *)

LEMMA InOrderInitially == Init => InOrder
  <1> SUFFICES ASSUME Init PROVE InOrder
    OBVIOUS
  <1>1. << >> \in Seq(Letter) /\ << >> \in Seq(Message) /\ Len(<< >>) = 0
    BY EmptySeq
  <1>2. Cardinality({}) = 0
    BY IdsAreCounted
  <1>3. NewConnection \in Connection
    BY <1>1 DEF NewConnection, Connection, Steps
  <1>4. \A s \in Side : ConnectionOK(s, NewConnection)
    BY <1>1, <1>2, <1>3, LimitsAssumption DEF ConnectionOK, NewConnection
  <1>5. TypeOK
    BY <1>1, <1>3 DEF Init, TypeOK, Outcome
  <1> QED
    BY <1>1, <1>4, <1>5 DEF Init, InOrder

LEMMA InOrderIsKept == InOrder /\ [Next]_vars => InOrder'
  <1> SUFFICES ASSUME InOrder, [Next]_vars PROVE InOrder'
    OBVIOUS
  <1>1. ASSUME NEW s \in Side, Uses(s) PROVE InOrder'
    BY <1>1, UsesOK
  <1>2. ASSUME NEW s \in Side, Polls(s) PROVE InOrder'
    BY <1>2, PollsOK
  <1>3. ASSUME NEW s \in Side, Receive(s) PROVE InOrder'
    BY <1>3, ReceiveOK
  <1>4. ASSUME NEW s \in Side, CallExpires(s) \/ RequestExpires(s) PROVE InOrder'
    BY <1>4, TimePassesOK
  <1>5. ASSUME NEW s \in Side, Duplicate(s) PROVE InOrder'
    BY <1>5, DuplicateOK
  <1>6. CASE UNCHANGED vars
    BY <1>6 DEF vars, InOrder, TypeOK
  <1> QED
    BY <1>1, <1>2, <1>3, <1>4, <1>5, <1>6 DEF Next

(* The tables, counters, ids and queues of both ends agree, always: every id   *)
(* in a table or on its way is one RpcConnection.call or accept gave out, and  *)
(* no table or queue exceeds its limit (see InOrder).                          *)
THEOREM AlwaysInOrder == Spec => []InOrder
  BY InOrderInitially, InOrderIsKept, PTL DEF Spec

(* The counters agree with the tables, and neither calls, requests in hand nor  *)
(* queued messages exceed the limits (RpcConnection.call, dispatch and          *)
(* enqueueBytes).                                                            *)
THEOREM LimitsHold == Spec => []WithinLimits
  <1>1. InOrder => WithinLimits
    BY DEF InOrder, WithinLimits, ConnectionOK
  <1> QED
    BY <1>1, AlwaysInOrder, PTL

----------------------------------------------------------------------------
(***************************************************************************)
(* Second part: RpcPair implements RemoteCalls.  On any pair of transports,    *)
(* each call is answered once and runs at most once, an answer comes from a   *)
(* run, and a call that was said not to run never does.                      *)
(***************************************************************************)

(* The inductive invariant.                                                  *)

Messages(queue) == {queue[i] : i \in 1..Len(queue)}

(* A caller's table and what its callers know agree. *)
CallsOK(c, known) ==
    \A id \in Id :
        /\ id < c.nextId <=> known[id] # "unused"
        /\ id \in c.pending <=> known[id] = "waiting"

(* A request beyond the last one has not run; one in hand has, unless it was   *)
(* late before it did.                                                       *)
HandlersOK(c, ran) ==
    \A id \in Id :
        /\ id > c.lastRequestId => ran[id] = 0
        /\ id \in c.active \ c.lateRequests => ran[id] = 1

(* What a message between a caller and the one it calls may be relied on for:   *)
(* the caller has made the call and was not refused it unless the request was  *)
(* seen; what answered has run; what was refused has not, and will not.        *)
Asked(m, nextId, known, last) ==
    m.kind = "request" => m.id < nextId /\ (m.id > last => known[m.id] # "refused")

Replied(m, ran, last) ==
    /\ m.kind = "response" => ran[m.id] = 1
    /\ m.kind = "refused" => ran[m.id] = 0 /\ m.id <= last

Honest ==
    /\ InOrder
    /\ \A s \in Side :
           /\ CallsOK(conn[s], answer[s])
           /\ HandlersOK(conn[s], runs[Peer(s)])
           /\ \A m \in Messages(channel[s]) :
                  /\ Asked(m, conn[Peer(s)].nextId, answer[Peer(s)], conn[s].lastRequestId)
                  /\ Replied(m, runs[s], conn[Peer(s)].lastRequestId)
           /\ \A m \in Messages(conn[s].outgoing) :
                  /\ m.kind # "request"
                  /\ Replied(m, runs[Peer(s)], conn[s].lastRequestId)

(* What a queue holds. *)
LEMMA MessagesOfQueues ==
    ASSUME NEW q \in Seq(Letter)
    PROVE  /\ Messages(q) \subseteq Letter
           /\ Messages(<< >>) = {}
           /\ \A m \in Letter : Messages(Append(q, m)) = Messages(q) \cup {m}
           /\ q # << >> => Head(q) \in Messages(q) /\ Messages(Tail(q)) \subseteq Messages(q)
  <1>1. Len(q) \in Nat
    BY LenProperties
  <1>2. Messages(q) \subseteq Letter
    BY ElementOfSeq DEF Messages
  <1>3. Messages(<< >>) = {}
    BY EmptySeq DEF Messages
  <1>4. ASSUME NEW m \in Letter
        PROVE  Messages(Append(q, m)) = Messages(q) \cup {m}
    <2>1. /\ Len(Append(q, m)) = Len(q) + 1
          /\ \A i \in 1..Len(q) : Append(q, m)[i] = q[i]
          /\ Append(q, m)[Len(q) + 1] = m
      BY AppendProperties
    <2>2. 1..(Len(q) + 1) = 1..Len(q) \cup {Len(q) + 1}
      BY <1>1
    <2> QED
      BY <2>1, <2>2 DEF Messages
  <1>5. ASSUME q # << >>
        PROVE  Head(q) \in Messages(q) /\ Messages(Tail(q)) \subseteq Messages(q)
    <2>1. Len(q) > 0 /\ Head(q) = q[1]
      BY <1>5, EmptySeq
    <2>2. /\ Len(Tail(q)) = Len(q) - 1
          /\ \A i \in 1..Len(Tail(q)) : Tail(q)[i] = q[i + 1]
      BY <1>5, HeadTailProperties
    <2>3. \A i \in 1..Len(Tail(q)) : i + 1 \in 1..Len(q)
      BY <1>1, <2>2
    <2> QED
      BY <1>1, <2>1, <2>2, <2>3 DEF Messages
  <1> QED
    BY <1>2, <1>3, <1>4, <1>5

----------------------------------------------------------------------------
(* How an operation of an end ends.  It has left its connection as c, what its *)
(* callers know as `known` and the channels as `flow`, and sends the messages  *)
(* in `sent`; unless it is closed, that is all.                               *)

ClosedAnswers(c, known) ==
    [id \in Id |-> IF id \in c.pending THEN "ambiguous" ELSE known[id]]

Ended(s, c, known, flow, sent, d, k) ==
    /\ conn' = [conn EXCEPT ![s] = d]
    /\ answer' = [answer EXCEPT ![s] = k]
    /\ d.nextId = c.nextId /\ d.lastRequestId = c.lastRequestId
    /\ \/ /\ d.pending = c.pending /\ d.active = c.active
          /\ d.lateRequests = c.lateRequests /\ k = known
       \/ /\ d.pending = {} /\ d.active = {} /\ k = ClosedAnswers(c, known)
    /\ Messages(d.outgoing) \subseteq Messages(c.outgoing) \cup {m \in sent : m.kind # "request"}
    /\ Messages(channel'[s]) \subseteq Messages(flow[s])
    /\ Messages(channel'[Peer(s)]) \subseteq Messages(flow[Peer(s)]) \cup sent

Ends(s, c, known, flow, sent) == \E d, k : Ended(s, c, known, flow, sent, d, k)

LEMMA KeptEnds ==
    ASSUME NEW s \in Side, NEW c, NEW known, NEW flow, NEW sent, Kept(s, c, known),
           Messages(channel'[s]) \subseteq Messages(flow[s]),
           Messages(channel'[Peer(s)]) \subseteq Messages(flow[Peer(s)]) \cup sent
    PROVE  Ends(s, c, known, flow, sent)
  <1>1. Ended(s, c, known, flow, sent, c, known)
    BY DEF Ended, Kept
  <1> QED
    BY <1>1 DEF Ends

LEMMA UnsentEnds ==
    ASSUME NEW s \in Side, NEW c, NEW known, NEW flow, NEW sent, Unsent(s, c, known, flow)
    PROVE  Ends(s, c, known, flow, sent)
  BY KeptEnds DEF Unsent

LEMMA AcceptedEnds ==
    ASSUME NEW s \in Side, NEW c, NEW known, NEW flow \in [Side -> Seq(Letter)],
           NEW m \in Letter, Accept(s, flow, m), Kept(s, c, known)
    PROVE  Ends(s, c, known, flow, {m})
  <1>1. Peer(s) \in Side /\ Peer(s) # s
    BY PeerIsASide
  <1>2. Messages(Append(flow[Peer(s)], m)) = Messages(flow[Peer(s)]) \cup {m}
    BY <1>1, MessagesOfQueues
  <1>3. /\ channel'[s] = flow[s]
        /\ channel'[Peer(s)] \in {flow[Peer(s)], Append(flow[Peer(s)], m)}
    BY <1>1 DEF Accept
  <1>4. /\ Messages(channel'[s]) \subseteq Messages(flow[s])
        /\ Messages(channel'[Peer(s)]) \subseteq Messages(flow[Peer(s)]) \cup {m}
    BY <1>2, <1>3
  <1> QED
    BY <1>4, KeptEnds

LEMMA ClosedEnds ==
    ASSUME NEW s \in Side, NEW c, ConnectionOK(s, c), NEW known, NEW flow, NEW sent,
           Closed(s, c, known)
    PROVE  Ends(s, c, known, flow, sent)
  <1>1. PICK after \in AfterCallback(c) :
            conn' = [conn EXCEPT ![s] = [after EXCEPT
                        !.open = FALSE, !.outgoing = << >>,
                        !.pending = {}, !.pendingCount = 0, !.lateCalls = {},
                        !.active = {}, !.activeCount = 0, !.lateRequests = {}]]
    BY DEF Closed
  <1>2. ConnectionOK(s, after) /\ after.nextId = c.nextId
        /\ after.lastRequestId = c.lastRequestId
    BY AfterCallbackOK, ZenonT(60) DEF AfterCallback, ConnectionOK, Connection
  <1> DEFINE d == [after EXCEPT
                     !.open = FALSE, !.outgoing = << >>,
                     !.pending = {}, !.pendingCount = 0, !.lateCalls = {},
                     !.active = {}, !.activeCount = 0, !.lateRequests = {}]
  <1>3. /\ d.nextId = c.nextId /\ d.lastRequestId = c.lastRequestId
        /\ d.pending = {} /\ d.active = {} /\ d.outgoing = << >>
    BY <1>2 DEF ConnectionOK, Connection
  <1>4. answer' = [answer EXCEPT ![s] = ClosedAnswers(c, known)]
    BY DEF Closed, ClosedAnswers
  <1>5. channel'[s] = << >> /\ channel'[Peer(s)] = << >>
    BY PeerIsASide DEF Closed
  <1>6. Messages(<< >>) = {}
    BY EmptySeq DEF Messages
  <1>7. conn' = [conn EXCEPT ![s] = d]
    BY <1>1
  <1> HIDE DEF d
  <1>8. Ended(s, c, known, flow, sent, d, ClosedAnswers(c, known))
    BY <1>3, <1>4, <1>5, <1>6, <1>7 DEF Ended
  <1> QED
    BY <1>8 DEF Ends

LEMMA QueuedEnds ==
    ASSUME NEW s \in Side, NEW c, ConnectionOK(s, c), NEW known, NEW flow,
           NEW m \in Letter, m.kind # "request",
           Unsent(s, [c EXCEPT !.outgoing = Append(@, m)], known, flow)
    PROVE  Ends(s, c, known, flow, {m})
  <1> DEFINE d == [c EXCEPT !.outgoing = Append(@, m)]
  <1>1. /\ d.nextId = c.nextId /\ d.lastRequestId = c.lastRequestId
        /\ d.pending = c.pending /\ d.active = c.active /\ d.lateRequests = c.lateRequests
        /\ d.outgoing = Append(c.outgoing, m)
    BY DEF ConnectionOK, Connection
  <1>2. Messages(d.outgoing) = Messages(c.outgoing) \cup {m}
    BY <1>1, MessagesOfQueues DEF ConnectionOK
  <1>3. conn' = [conn EXCEPT ![s] = d] /\ answer' = [answer EXCEPT ![s] = known]
        /\ channel' = flow
    BY DEF Unsent, Kept
  <1> HIDE DEF d
  <1>4. Ended(s, c, known, flow, {m}, d, known)
    BY <1>1, <1>2, <1>3 DEF Ended
  <1> QED
    BY <1>4 DEF Ends

LEMMA EnqueueEnds ==
    ASSUME NEW s \in Side, NEW c, ConnectionOK(s, c), NEW known,
           NEW flow \in [Side -> Seq(Letter)], NEW m \in Letter, m.kind # "request",
           Enqueue(s, c, known, flow, m)
    PROVE  Ends(s, c, known, flow, {m})
  <1>1. CASE Unsent(s, c, known, flow)
    BY <1>1, UnsentEnds
  <1>2. CASE Accept(s, flow, m) /\ Kept(s, c, known)
    BY <1>2, AcceptedEnds
  <1>3. CASE Unsent(s, [c EXCEPT !.outgoing = Append(@, m)], known, flow)
    BY <1>3, QueuedEnds
  <1>4. CASE Closed(s, c, known)
    BY <1>4, ClosedEnds
  <1> QED
    BY <1>1, <1>2, <1>3, <1>4 DEF Enqueue

----------------------------------------------------------------------------
(* What an operation has to do for the invariant to be kept.                  *)

Sayable(s, c, known, m) ==
    /\ Asked(m, c.nextId, known, conn[Peer(s)].lastRequestId)
    /\ Replied(m, runs'[Peer(s)], c.lastRequestId)

Careful(s, c, known, flow, sent) ==
    /\ CallsOK(c, known)
    /\ HandlersOK(c, runs'[Peer(s)])
    /\ c.nextId \in Nat /\ c.nextId >= conn[s].nextId
    /\ c.lastRequestId \in Nat /\ c.lastRequestId >= conn[s].lastRequestId
    /\ runs' \in [Side -> [Id -> Nat]] /\ runs'[s] = runs[s]
    /\ \A id \in Id : id <= conn[s].lastRequestId => runs'[Peer(s)][id] = runs[Peer(s)][id]
    /\ \A id \in Id : known[id] = "refused" /\ answer[s][id] # "refused" =>
           id >= conn[s].nextId \/ id <= conn[Peer(s)].lastRequestId
    /\ \A t \in Side : Messages(flow[t]) \subseteq Messages(channel[t])
    /\ Messages(c.outgoing) \subseteq Messages(conn[s].outgoing)
    /\ sent \subseteq Letter
    /\ \A m \in sent : Sayable(s, c, known, m)

LEMMA EndsHonest ==
    ASSUME Honest, InOrder', NEW s \in Side, NEW c, NEW known \in [Id -> Outcome], NEW flow,
           NEW sent, Ends(s, c, known, flow, sent), Careful(s, c, known, flow, sent)
    PROVE  Honest'
  <1>1. PICK d, k : Ended(s, c, known, flow, sent, d, k)
    BY DEF Ends
  <1> DEFINE p == Peer(s)
  <1>2. p \in Side /\ p # s /\ Peer(p) = s /\ Side = {s, p}
    BY PeerIsASide DEF Side, Peer
  <1>3. /\ conn'[s] = d /\ conn'[p] = conn[p] /\ answer'[s] = k /\ answer'[p] = answer[p]
    BY <1>1, <1>2 DEF Ended, Honest, InOrder, TypeOK
  <1>4. d.nextId = c.nextId /\ d.lastRequestId = c.lastRequestId
    BY <1>1 DEF Ended
  <1>5. CallsOK(d, k)
    BY <1>1, <1>4 DEF Ended, Careful, CallsOK, ClosedAnswers
  <1>6. HandlersOK(d, runs'[p])
    BY <1>1, <1>4 DEF Ended, Careful, HandlersOK
  <1>7. CallsOK(conn[p], answer[p]) /\ HandlersOK(conn[p], runs'[s])
    BY <1>2 DEF Honest, Careful
  <1>8. \A id \in Id : k[id] = "refused" => known[id] = "refused"
    BY <1>1 DEF Ended, ClosedAnswers
  <1>9. /\ conn[s].nextId \in Nat /\ conn[s].lastRequestId \in Nat
        /\ conn[p].nextId \in Nat /\ conn[p].lastRequestId \in Nat
        /\ channel[s] \in Seq(Letter) /\ channel[p] \in Seq(Letter)
        /\ conn[s].outgoing \in Seq(Letter) /\ conn[p].outgoing \in Seq(Letter)
    BY <1>2 DEF Honest, InOrder, ConnectionOK, Connection
  <1>10. ASSUME NEW m \in Letter,
                Asked(m, conn[s].nextId, answer[s], conn[p].lastRequestId)
         PROVE  Asked(m, d.nextId, k, conn[p].lastRequestId)
    <2> SUFFICES ASSUME m.kind = "request"
                 PROVE  /\ m.id < d.nextId
                        /\ m.id > conn[p].lastRequestId => k[m.id] # "refused"
      BY DEF Asked
    <2>1. m.id \in Id /\ m.id \in Nat
      BY DEF Letter, Message
    <2>2. m.id < conn[s].nextId
          /\ (m.id > conn[p].lastRequestId => answer[s][m.id] # "refused")
      BY <1>10 DEF Asked
    <2>3. m.id < d.nextId
      BY <1>4, <1>9, <2>1, <2>2 DEF Careful
    <2>4. known[m.id] = "refused" /\ answer[s][m.id] # "refused" =>
              m.id >= conn[s].nextId \/ m.id <= conn[p].lastRequestId
      BY <2>1 DEF Careful
    <2>5. m.id > conn[p].lastRequestId => k[m.id] # "refused"
      BY <1>8, <1>9, <2>1, <2>2, <2>4
    <2> QED
      BY <2>3, <2>5
  <1>11. ASSUME NEW m \in Letter, Replied(m, runs[p], conn[s].lastRequestId)
         PROVE  Replied(m, runs'[p], d.lastRequestId)
    <2>1. CASE m.kind \notin {"response", "refused"}
      BY <2>1 DEF Replied
    <2>2. CASE m.kind \in {"response", "refused"}
      <3>1. m.id \in Id /\ m.id \in Nat
        BY <2>2 DEF Letter, Message
      <3>2. HandlersOK(conn[s], runs[p])
        BY DEF Honest
      <3>3. m.id <= conn[s].lastRequestId
        BY <1>9, <1>11, <2>2, <3>1, <3>2 DEF Replied, HandlersOK
      <3>4. runs'[p][m.id] = runs[p][m.id]
        BY <3>1, <3>3 DEF Careful
      <3> QED
        BY <1>4, <1>9, <1>11, <3>1, <3>3, <3>4 DEF Careful, Replied
    <2> QED
      BY <2>1, <2>2
  <1>12. ASSUME NEW m \in Letter, Asked(m, conn[p].nextId, answer[p], conn[s].lastRequestId)
         PROVE  Asked(m, conn[p].nextId, answer[p], d.lastRequestId)
    BY <1>4, <1>9, <1>12 DEF Asked, Careful, Letter, Message
  <1>13. \A m \in Messages(channel'[s]) :
             /\ Asked(m, conn[p].nextId, answer[p], d.lastRequestId)
             /\ Replied(m, runs'[s], conn[p].lastRequestId)
    <2> SUFFICES ASSUME NEW m \in Messages(channel'[s])
                 PROVE  /\ Asked(m, conn[p].nextId, answer[p], d.lastRequestId)
                        /\ Replied(m, runs'[s], conn[p].lastRequestId)
      OBVIOUS
    <2>1. m \in Messages(channel[s]) /\ m \in Letter
      BY <1>1, <1>9, MessagesOfQueues DEF Ended, Careful
    <2>2. /\ Asked(m, conn[p].nextId, answer[p], conn[s].lastRequestId)
          /\ Replied(m, runs[s], conn[p].lastRequestId)
      BY <2>1 DEF Honest
    <2> QED
      BY <1>12, <2>1, <2>2 DEF Careful
  <1>14. \A m \in Messages(channel'[p]) :
             /\ Asked(m, d.nextId, k, conn[p].lastRequestId)
             /\ Replied(m, runs'[p], d.lastRequestId)
    <2> SUFFICES ASSUME NEW m \in Messages(channel'[p])
                 PROVE  /\ Asked(m, d.nextId, k, conn[p].lastRequestId)
                        /\ Replied(m, runs'[p], d.lastRequestId)
      OBVIOUS
    <2>1. m \in Letter /\ (m \in Messages(channel[p]) \/ m \in sent)
      BY <1>1, <1>2, <1>9, MessagesOfQueues DEF Ended, Careful
    <2>2. CASE m \in Messages(channel[p])
      <3>1. /\ Asked(m, conn[s].nextId, answer[s], conn[p].lastRequestId)
            /\ Replied(m, runs[p], conn[s].lastRequestId)
        BY <1>2, <2>2 DEF Honest
      <3> QED
        BY <1>10, <1>11, <2>1, <3>1
    <2>3. CASE m \in sent
      <3>1. Sayable(s, c, known, m)
        BY <2>3 DEF Careful
      <3>2. m.kind = "request" => m.id \in Id
        BY <2>1 DEF Letter
      <3> QED
        BY <1>4, <1>8, <3>1, <3>2 DEF Sayable, Asked
    <2> QED
      BY <2>1, <2>2, <2>3
  <1>15. \A m \in Messages(d.outgoing) :
             m.kind # "request" /\ Replied(m, runs'[p], d.lastRequestId)
    <2> SUFFICES ASSUME NEW m \in Messages(d.outgoing)
                 PROVE  m.kind # "request" /\ Replied(m, runs'[p], d.lastRequestId)
      OBVIOUS
    <2>1. \/ m \in Messages(conn[s].outgoing)
          \/ m \in sent /\ m.kind # "request"
      BY <1>1 DEF Ended, Careful
    <2>2. CASE m \in Messages(conn[s].outgoing)
      <3>1. m \in Letter
        BY <1>9, <2>2, MessagesOfQueues
      <3>2. m.kind # "request" /\ Replied(m, runs[p], conn[s].lastRequestId)
        BY <2>2 DEF Honest
      <3> QED
        BY <1>11, <3>1, <3>2
    <2>3. CASE m \in sent /\ m.kind # "request"
      BY <1>4, <2>3 DEF Careful, Sayable
    <2> QED
      BY <2>1, <2>2, <2>3
  <1>16. \A m \in Messages(conn[p].outgoing) :
             m.kind # "request" /\ Replied(m, runs'[s], conn[p].lastRequestId)
    BY <1>2 DEF Honest, Careful
  <1> HIDE DEF p
  <1>17. \A t \in Side :
           /\ CallsOK(conn'[t], answer'[t])
           /\ HandlersOK(conn'[t], runs'[Peer(t)])
           /\ \A m \in Messages(channel'[t]) :
                  /\ Asked(m, conn'[Peer(t)].nextId, answer'[Peer(t)], conn'[t].lastRequestId)
                  /\ Replied(m, runs'[t], conn'[Peer(t)].lastRequestId)
           /\ \A m \in Messages(conn'[t].outgoing) :
                  /\ m.kind # "request"
                  /\ Replied(m, runs'[Peer(t)], conn'[t].lastRequestId)
    <2>1. ASSUME NEW t \in Side, t = s
          PROVE  <1>17!(t)
      BY <1>3, <1>5, <1>6, <1>13, <1>15, <2>1 DEF p
    <2>2. ASSUME NEW t \in Side, t = p
          PROVE  <1>17!(t)
      BY <1>2, <1>3, <1>7, <1>14, <1>16, <2>2
    <2> QED
      BY <1>2, <2>1, <2>2
  <1> QED
    BY <1>17 DEF Honest

----------------------------------------------------------------------------
(* Most operations run nothing, make no call, and only settle calls: a call is  *)
(* answered when it has run, and refused when the request was seen but not run. *)

Settling(s, known) ==
    \A id \in Id : known[id] # answer[s][id] =>
        /\ answer[s][id] = "waiting"
        /\ \/ known[id] = "answered" /\ runs[s][id] = 1
           \/ known[id] = "refused" /\ runs[s][id] = 0 /\ id <= conn[Peer(s)].lastRequestId
           \/ known[id] = "ambiguous"

Orderly(s) ==
    \E c, known, flow, sent :
        /\ known \in [Id -> Outcome]
        /\ Ends(s, c, known, flow, sent)
        /\ Careful(s, c, known, flow, sent)
        /\ Settling(s, known)
        /\ UNCHANGED runs

(* It makes no call and forgets no request, runs nothing, and sends what it had *)
(* to send, and replies that are true.                                       *)
Follows(c, d) ==
    /\ c.nextId = d.nextId /\ c.lastRequestId >= d.lastRequestId
    /\ c.active \ c.lateRequests \subseteq d.active \ d.lateRequests
    /\ Messages(c.outgoing) \subseteq Messages(d.outgoing)

AddsNothing(flow) == \A t \in Side : Messages(flow[t]) \subseteq Messages(channel[t])

RepliesTruly(s, c, sent) ==
    /\ sent \subseteq Letter
    /\ \A m \in sent : m.kind # "request" /\ Replied(m, runs[Peer(s)], c.lastRequestId)

LEMMA OrderlySuffices ==
    ASSUME Honest, NEW s \in Side, NEW c, ConnectionOK(s, c), NEW known \in [Id -> Outcome],
           NEW flow, NEW sent, Ends(s, c, known, flow, sent), UNCHANGED runs,
           Follows(c, conn[s]), AddsNothing(flow), RepliesTruly(s, c, sent),
           CallsOK(c, known), Settling(s, known)
    PROVE  Orderly(s)
  <1> USE DEF Follows, AddsNothing, RepliesTruly
  <1>1. /\ c.nextId \in Nat /\ c.lastRequestId \in Nat
        /\ conn[s].nextId \in Nat /\ conn[s].lastRequestId \in Nat
        /\ runs \in [Side -> [Id -> Nat]]
    BY DEF Honest, InOrder, TypeOK, ConnectionOK, Connection
  <1>2. HandlersOK(c, runs'[Peer(s)])
    <2>1. HandlersOK(conn[s], runs[Peer(s)])
      BY DEF Honest
    <2>2. \A id \in Id : id > c.lastRequestId => id > conn[s].lastRequestId
      BY <1>1, BoundsAssumption DEF Id
    <2> QED
      BY <2>1, <2>2 DEF HandlersOK
  <1>3. \A m \in sent : Sayable(s, c, known, m)
    BY DEF Sayable, Asked
  <1>4. \A id \in Id : known[id] = "refused" /\ answer[s][id] # "refused" =>
            id >= conn[s].nextId \/ id <= conn[Peer(s)].lastRequestId
    BY DEF Settling
  <1>5. c.nextId >= conn[s].nextId
    BY <1>1
  <1>6. runs' \in [Side -> [Id -> Nat]] /\ runs'[s] = runs[s]
        /\ \A id \in Id : runs'[Peer(s)][id] = runs[Peer(s)][id]
    BY <1>1
  <1>7. Careful(s, c, known, flow, sent)
    BY <1>1, <1>2, <1>3, <1>4, <1>5, <1>6, Zenon DEF Careful
  <1> QED
    BY <1>7, Zenon DEF Orderly

(* Connections that differ in nothing the invariant is about. *)
Alike(c, d) ==
    /\ c.nextId = d.nextId /\ c.lastRequestId = d.lastRequestId
    /\ c.pending = d.pending /\ c.active = d.active
    /\ c.lateRequests = d.lateRequests /\ c.outgoing = d.outgoing

LEMMA AfterCallbackAlike ==
    ASSUME NEW s \in Side, NEW c, ConnectionOK(s, c), NEW after \in AfterCallback(c)
    PROVE  Alike(after, c)
  BY DEF ConnectionOK, Connection, AfterCallback, Alike

LEMMA AlikeFollows ==
    ASSUME NEW s \in Side, NEW c, ConnectionOK(s, c), NEW d, Alike(c, d)
    PROVE  Follows(c, d)
  BY DEF Follows, Alike, ConnectionOK, Connection

(* The rest of a channel holds nothing new, nor does the channel itself. *)
LEMMA RestMessages ==
    ASSUME InOrder, NEW s \in Side
    PROVE  /\ AddsNothing(channel)
           /\ channel[s] # << >> =>
                  AddsNothing(Rest(s)) /\ Head(channel[s]) \in Messages(channel[s])
  BY MessagesOfQueues DEF Rest, InOrder, AddsNothing

LEMMA NothingSent ==
    ASSUME NEW s, NEW c
    PROVE  RepliesTruly(s, c, {})
  BY DEF RepliesTruly

(* Ids that are known to have been settled by nobody. *)
LEMMA NothingSettled ==
    ASSUME NEW s \in Side
    PROVE  Settling(s, answer[s])
  BY DEF Settling

(* An operation that leaves the calls alone. *)
LEMMA LeavesCalls ==
    ASSUME Honest, NEW s \in Side, NEW c, ConnectionOK(s, c), NEW flow, NEW sent,
           Ends(s, c, answer[s], flow, sent), UNCHANGED runs,
           Follows(c, conn[s]), c.pending = conn[s].pending,
           AddsNothing(flow), RepliesTruly(s, c, sent)
    PROVE  Orderly(s)
  <1>1. CallsOK(c, answer[s])
    BY DEF Honest, CallsOK, Follows
  <1>2. answer[s] \in [Id -> Outcome]
    BY DEF Honest, InOrder, TypeOK
  <1> QED
    BY <1>1, <1>2, NothingSettled, OrderlySuffices

LEMMA LeavesTables ==
    ASSUME Honest, NEW s \in Side, NEW c, ConnectionOK(s, c), Alike(c, conn[s]),
           NEW flow, Ends(s, c, answer[s], flow, {}), UNCHANGED runs, AddsNothing(flow)
    PROVE  Orderly(s)
  <1>1. c.pending = conn[s].pending
    BY DEF Alike
  <1> QED
    BY <1>1, AlikeFollows, NothingSent, LeavesCalls

(* A call is taken out of the table as it is settled. *)
LEMMA TakenSettled ==
    ASSUME Honest, NEW s \in Side, NEW c, ConnectionOK(s, c), Alike(c, conn[s]),
           NEW id \in c.pending, NEW outcome \in {"answered", "refused", "ambiguous"}
    PROVE  /\ CallsOK(Taken(c, id), Settled(s, id, outcome))
           /\ Settled(s, id, outcome) \in [Id -> Outcome]
           /\ id \in Id /\ answer[s][id] = "waiting"
  <1>1. CallsOK(conn[s], answer[s]) /\ answer[s] \in [Id -> Outcome]
    BY DEF Honest, InOrder, TypeOK
  <1>2. id \in Id /\ id \in conn[s].pending
    BY DEF Alike, ConnectionOK, Connection
  <1>3. /\ Taken(c, id).pending = conn[s].pending \ {id}
        /\ Taken(c, id).nextId = conn[s].nextId
    BY DEF Taken, Alike, ConnectionOK, Connection
  <1>4. answer[s][id] = "waiting"
    BY <1>1, <1>2 DEF CallsOK
  <1>5. CallsOK(Taken(c, id), Settled(s, id, outcome))
    <2>1. \A other \in Id : Settled(s, id, outcome)[other] =
              IF other = id THEN outcome ELSE answer[s][other]
      BY <1>1 DEF Settled
    <2>2. outcome # "unused" /\ outcome # "waiting"
      OBVIOUS
    <2> QED
      BY <1>1, <1>3, <1>4, <2>1, <2>2 DEF CallsOK
  <1> QED
    BY <1>1, <1>2, <1>4, <1>5 DEF Settled, Outcome

LEMMA TakenAlike ==
    ASSUME NEW s \in Side, NEW c, ConnectionOK(s, c), NEW id
    PROVE  /\ Taken(c, id).nextId = c.nextId /\ Taken(c, id).lastRequestId = c.lastRequestId
           /\ Taken(c, id).active = c.active /\ Taken(c, id).lateRequests = c.lateRequests
           /\ Taken(c, id).outgoing = c.outgoing
  BY DEF Taken, ConnectionOK, Connection

LEMMA AbandonOrderly ==
    ASSUME Honest, NEW s \in Side, NEW c, ConnectionOK(s, c), Alike(c, conn[s]),
           NEW id \in c.pending, Abandon(s, c, id), UNCHANGED runs
    PROVE  Orderly(s)
  <1> DEFINE known == Settled(s, id, "ambiguous")
             m == Msg("cancel", id)
  <1>1. PICK after \in AfterCallback(Taken(c, id)) : Enqueue(s, after, known, channel, m)
    BY DEF Abandon
  <1>2. /\ CallsOK(Taken(c, id), known) /\ known \in [Id -> Outcome]
        /\ id \in Id /\ answer[s][id] = "waiting"
    BY TakenSettled
  <1>3. ConnectionOK(s, after) /\ Alike(after, Taken(c, id))
    BY TakenOK, AfterCallbackOK, AfterCallbackAlike
  <1>4. m \in Letter /\ m.kind = "cancel"
    BY <1>2, MsgIsALetter, BoundsAssumption DEF Kinds, Id, Msg
  <1>5. channel \in [Side -> Seq(Letter)]
    BY DEF Honest, InOrder
  <1>6. Ends(s, after, known, channel, {m})
    BY <1>1, <1>3, <1>4, <1>5, EnqueueEnds
  <1>7. CallsOK(after, known)
    BY <1>2, <1>3 DEF Alike, CallsOK
  <1>8. Settling(s, known)
    BY <1>2 DEF Settling, Settled, Honest, InOrder, TypeOK
  <1>9. Follows(after, conn[s])
    <2>1. Alike(after, Taken(c, id)) /\ Alike(c, conn[s])
      BY <1>3
    <2>2. /\ after.nextId = conn[s].nextId /\ after.lastRequestId = conn[s].lastRequestId
          /\ after.active = conn[s].active /\ after.lateRequests = conn[s].lateRequests
          /\ after.outgoing = conn[s].outgoing
      BY <2>1, TakenAlike DEF Alike
    <2> QED
      BY <1>3, <2>2 DEF Follows, ConnectionOK, Connection
  <1>10. RepliesTruly(s, after, {m})
    BY <1>4 DEF RepliesTruly, Replied
  <1>11. AddsNothing(channel)
    BY DEF AddsNothing
  <1> HIDE DEF known, m
  <1> QED
    BY <1>2, <1>3, <1>6, <1>7, <1>8, <1>9, <1>10, <1>11, OrderlySuffices

(* What a reply settles. *)
Tells(m, outcome) ==
    \/ outcome = "answered" /\ m.kind = "response"
    \/ outcome = "refused" /\ m.kind = "refused"
    \/ outcome = "ambiguous"

LEMMA AnswerOrderly ==
    ASSUME Honest, NEW s \in Side, channel[s] # << >>, NEW outcome,
           Tells(Head(channel[s]), outcome), Answer(s, outcome), UNCHANGED runs
    PROVE  Orderly(s)
  <1> DEFINE id == MessageId(s)
             c == conn[s]
             m == Head(channel[s])
  <1>1. ConnectionOK(s, c) /\ InOrder
    BY DEF Honest, InOrder
  <1>2. AddsNothing(Rest(s)) /\ m \in Messages(channel[s])
    BY <1>1, RestMessages
  <1>3. CASE id \in c.pending
    <2>1. PICK after \in AfterCallback(Taken(c, id)), told \in {outcome, "ambiguous"} :
              Unsent(s, after, Settled(s, id, told), Rest(s))
      BY <1>3 DEF Answer
    <2> DEFINE known == Settled(s, id, told)
    <2>2. Tells(m, told)
      BY DEF Tells
    <2>3. told \in {"answered", "refused", "ambiguous"}
      BY <2>2 DEF Tells
    <2>4. Alike(c, conn[s])
      BY DEF Alike
    <2>5. /\ CallsOK(Taken(c, id), known) /\ known \in [Id -> Outcome]
          /\ id \in Id /\ answer[s][id] = "waiting"
      BY <1>1, <1>3, <2>3, <2>4, TakenSettled
    <2>6. ConnectionOK(s, after) /\ Alike(after, Taken(c, id))
      BY <1>1, <1>3, TakenOK, AfterCallbackOK, AfterCallbackAlike
    <2>7. Ends(s, after, known, Rest(s), {})
      BY <2>1, UnsentEnds
    <2>8. CallsOK(after, known)
      BY <2>5, <2>6 DEF Alike, CallsOK
    <2>9. Settling(s, known)
      <3>1. Replied(m, runs[s], conn[Peer(s)].lastRequestId)
        BY <1>2 DEF Honest
      <3>2. \A other \in Id : known[other] = IF other = id THEN told ELSE answer[s][other]
        BY <1>1 DEF Settled, InOrder, TypeOK
      <3> QED
        BY <2>2, <2>5, <3>1, <3>2 DEF Settling, Replied, Tells, MessageId
    <2>10. Follows(after, conn[s])
      <3>1. /\ after.nextId = conn[s].nextId /\ after.lastRequestId = conn[s].lastRequestId
            /\ after.active = conn[s].active /\ after.lateRequests = conn[s].lateRequests
            /\ after.outgoing = conn[s].outgoing
        BY <1>1, <2>6, TakenAlike DEF Alike
      <3> QED
        BY <2>6, <3>1 DEF Follows, ConnectionOK, Connection
    <2> HIDE DEF known, id, c, m
    <2> QED
      BY <1>2, <2>5, <2>6, <2>7, <2>8, <2>9, <2>10, NothingSent, OrderlySuffices
  <1>4. CASE id \notin c.pending
    <2>1. Ends(s, c, answer[s], Rest(s), {})
      BY <1>4, UnsentEnds DEF Answer
    <2>2. Alike(c, conn[s])
      BY DEF Alike
    <2> HIDE DEF id, m, c
    <2> QED
      BY <1>1, <1>2, <2>1, <2>2, LeavesTables
  <1> QED
    BY <1>3, <1>4

(* Operations that end by sending one message, and by closing. *)
LEMMA EnqueueOrderly ==
    ASSUME Honest, NEW s \in Side, NEW c, ConnectionOK(s, c),
           NEW flow \in [Side -> Seq(Letter)], AddsNothing(flow), NEW m \in Letter,
           Enqueue(s, c, answer[s], flow, m), UNCHANGED runs,
           Follows(c, conn[s]), c.pending = conn[s].pending,
           m.kind # "request", Replied(m, runs[Peer(s)], c.lastRequestId)
    PROVE  Orderly(s)
  <1>1. Ends(s, c, answer[s], flow, {m})
    BY EnqueueEnds
  <1>2. RepliesTruly(s, c, {m})
    BY DEF RepliesTruly
  <1> QED
    BY <1>1, <1>2, LeavesCalls

LEMMA ClosedOrderly ==
    ASSUME Honest, NEW s \in Side, Closed(s, conn[s], answer[s]), UNCHANGED runs
    PROVE  Orderly(s)
  <1>1. ConnectionOK(s, conn[s])
    BY DEF Honest, InOrder
  <1>2. Ends(s, conn[s], answer[s], channel, {})
    BY <1>1, ClosedEnds
  <1>3. Alike(conn[s], conn[s]) /\ AddsNothing(channel)
    BY DEF Alike, AddsNothing
  <1> QED
    BY <1>1, <1>2, <1>3, LeavesTables

(* A step of the poll, or a clock, moves. *)
LEMMA MovesOrderly ==
    ASSUME Honest, NEW s \in Side, NEW c, ConnectionOK(s, c),
           c.nextId = conn[s].nextId, c.lastRequestId = conn[s].lastRequestId,
           c.pending = conn[s].pending, c.active = conn[s].active,
           conn[s].lateRequests \subseteq c.lateRequests, c.outgoing = conn[s].outgoing,
           conn' = [conn EXCEPT ![s] = c], UNCHANGED <<open, channel, answer, runs, faults>>
    PROVE  Orderly(s)
  <1>1. Kept(s, c, answer[s])
    BY DEF Kept, Honest, InOrder, TypeOK
  <1>2. Ends(s, c, answer[s], channel, {})
    BY <1>1, KeptEnds
  <1>3. Follows(c, conn[s]) /\ AddsNothing(channel)
    BY DEF Follows, AddsNothing, ConnectionOK, Connection
  <1> QED
    BY <1>2, <1>3, NothingSent, LeavesCalls

LEMMA GotoOrderly ==
    ASSUME Honest, NEW s \in Side, NEW step \in Steps, NEW expired \in SUBSET Id,
           Goto(s, step, expired)
    PROVE  Orderly(s)
  <1> DEFINE c == [conn[s] EXCEPT !.step = step, !.expired = expired]
  <1>1. ConnectionOK(s, conn[s]) /\ conn[s] \in Connection /\ conn \in [Side -> Connection]
    BY DEF Honest, InOrder, TypeOK
  <1>2. ConnectionOK(s, c)
    BY <1>1, MovedOK
  <1>3. conn' = [conn EXCEPT ![s] = c]
    BY <1>1 DEF Goto
  <1>4. /\ c.nextId = conn[s].nextId /\ c.lastRequestId = conn[s].lastRequestId
        /\ c.pending = conn[s].pending /\ c.active = conn[s].active
        /\ conn[s].lateRequests \subseteq c.lateRequests /\ c.outgoing = conn[s].outgoing
    BY <1>1 DEF Connection
  <1> HIDE DEF c
  <1> QED
    BY <1>2, <1>3, <1>4, MovesOrderly DEF Goto

LEMMA TimePassesOrderly ==
    ASSUME Honest, NEW s \in Side, CallExpires(s) \/ RequestExpires(s)
    PROVE  Orderly(s)
  <1>1. ConnectionOK(s, conn[s]) /\ conn[s] \in Connection /\ conn \in [Side -> Connection]
    BY DEF Honest, InOrder, TypeOK
  <1>2. CASE CallExpires(s)
    <2>1. PICK id \in conn[s].pending : conn' = [conn EXCEPT ![s].lateCalls = @ \cup {id}]
      BY <1>2 DEF CallExpires
    <2> DEFINE c == [conn[s] EXCEPT !.lateCalls = @ \cup {id}]
    <2>2. ConnectionOK(s, c)
      BY <1>1, LateOK DEF Connection
    <2>3. conn' = [conn EXCEPT ![s] = c]
      BY <1>1, <2>1
    <2>4. /\ c.nextId = conn[s].nextId /\ c.lastRequestId = conn[s].lastRequestId
          /\ c.pending = conn[s].pending /\ c.active = conn[s].active
          /\ conn[s].lateRequests \subseteq c.lateRequests /\ c.outgoing = conn[s].outgoing
      BY <1>1 DEF Connection
    <2> HIDE DEF c
    <2> QED
      BY <1>2, <2>2, <2>3, <2>4, MovesOrderly DEF CallExpires
  <1>3. CASE RequestExpires(s)
    <2>1. PICK id \in conn[s].active : conn' = [conn EXCEPT ![s].lateRequests = @ \cup {id}]
      BY <1>3 DEF RequestExpires
    <2> DEFINE c == [conn[s] EXCEPT !.lateRequests = @ \cup {id}]
    <2>2. ConnectionOK(s, c)
      BY <1>1, LateOK DEF Connection
    <2>3. conn' = [conn EXCEPT ![s] = c]
      BY <1>1, <2>1
    <2>4. /\ c.nextId = conn[s].nextId /\ c.lastRequestId = conn[s].lastRequestId
          /\ c.pending = conn[s].pending /\ c.active = conn[s].active
          /\ conn[s].lateRequests \subseteq c.lateRequests /\ c.outgoing = conn[s].outgoing
      BY <1>1 DEF Connection
    <2> HIDE DEF c
    <2> QED
      BY <1>3, <2>2, <2>3, <2>4, MovesOrderly DEF RequestExpires
  <1> QED
    BY <1>2, <1>3

LEMMA DuplicateOrderly ==
    ASSUME Honest, NEW s \in Side, Duplicate(s)
    PROVE  Orderly(s)
  <1>1. ConnectionOK(s, conn[s]) /\ InOrder /\ channel \in [Side -> Seq(Letter)]
    BY DEF Honest, InOrder
  <1>2. Kept(s, conn[s], answer[s])
    BY <1>1 DEF Duplicate, Kept, InOrder, TypeOK
  <1>3. /\ Head(channel[s]) \in Messages(channel[s]) /\ Head(channel[s]) \in Letter
        /\ Messages(Append(channel[s], Head(channel[s])))
               = Messages(channel[s]) \cup {Head(channel[s])}
    BY <1>1, MessagesOfQueues DEF Duplicate
  <1>4. channel' = [channel EXCEPT ![s] = Append(channel[s], Head(channel[s]))]
    BY DEF Duplicate
  <1>5. Messages(channel'[s]) = Messages(channel[s])
        /\ channel'[Peer(s)] = channel[Peer(s)]
    BY <1>1, <1>3, <1>4, PeerIsASide
  <1>6. Ends(s, conn[s], answer[s], channel, {})
    BY <1>2, <1>5, KeptEnds
  <1>7. Alike(conn[s], conn[s]) /\ AddsNothing(channel)
    BY DEF Alike, AddsNothing
  <1> QED
    BY <1>1, <1>6, <1>7, LeavesTables DEF Duplicate

----------------------------------------------------------------------------
(* The operations, but for a call and a request that is run.                  *)

(* A reply that was in hand. *)
LEMMA DroppedFollows ==
    ASSUME NEW s \in Side, NEW c, ConnectionOK(s, c), NEW id
    PROVE  Follows(Dropped(c, id), c) /\ Dropped(c, id).pending = c.pending
  BY DEF Follows, Dropped, ConnectionOK, Connection

LEMMA FinishOrderly ==
    ASSUME Honest, NEW s \in Side, NEW id \in Id, NEW kind \in {"response", "ambiguous"},
           Finish(s, id, kind)
    PROVE  Orderly(s)
  <1> DEFINE c == Dropped(conn[s], id)
             m == Msg(kind, id)
  <1>1. ConnectionOK(s, conn[s]) /\ channel \in [Side -> Seq(Letter)]
    BY DEF Honest, InOrder
  <1>2. id \in conn[s].active \ conn[s].lateRequests /\ id \in Nat
    BY BoundsAssumption DEF Finish, Id
  <1>3. ConnectionOK(s, c) /\ Follows(c, conn[s]) /\ c.pending = conn[s].pending
    BY <1>1, <1>2, DroppedOK, DroppedFollows
  <1>4. m \in Letter /\ m.kind = kind /\ m.id = id
    BY <1>2, MsgIsALetter DEF Kinds, Msg
  <1>5. runs[Peer(s)][id] = 1
    BY <1>2 DEF Honest, HandlersOK
  <1>6. m.kind # "request" /\ Replied(m, runs[Peer(s)], c.lastRequestId)
    BY <1>4, <1>5 DEF Replied
  <1>7. Enqueue(s, c, answer[s], channel, m) /\ UNCHANGED runs
    BY DEF Finish
  <1>8. AddsNothing(channel)
    BY DEF AddsNothing
  <1> HIDE DEF c, m
  <1> QED
    BY <1>1, <1>3, <1>4, <1>6, <1>7, <1>8, EnqueueOrderly

LEMMA NotifyOrderly ==
    ASSUME Honest, NEW s \in Side, Notify(s)
    PROVE  Orderly(s)
  <1> DEFINE c == [conn[s] EXCEPT !.notices = @ + 1]
             m == Msg("notification", 0)
  <1>1. ConnectionOK(s, conn[s]) /\ channel \in [Side -> Seq(Letter)]
    BY DEF Honest, InOrder
  <1>2. ConnectionOK(s, c)
    BY <1>1, NoticedOK
  <1>3. Follows(c, conn[s]) /\ c.pending = conn[s].pending
    BY <1>1 DEF Follows, ConnectionOK, Connection
  <1>4. m \in Letter /\ m.kind = "notification"
    BY MsgIsALetter DEF Kinds, Msg
  <1>5. m.kind # "request" /\ Replied(m, runs[Peer(s)], c.lastRequestId)
    BY <1>4 DEF Replied
  <1>6. Enqueue(s, c, answer[s], channel, m) /\ UNCHANGED runs
    BY DEF Notify
  <1>7. AddsNothing(channel)
    BY DEF AddsNothing
  <1> HIDE DEF c, m
  <1> QED
    BY <1>1, <1>2, <1>3, <1>4, <1>5, <1>6, <1>7, EnqueueOrderly

LEMMA UsesOrderly ==
    ASSUME Honest, NEW s \in Side, Uses(s), ~Call(s)
    PROVE  Orderly(s)
  <1>1. CASE Notify(s)
    BY <1>1, NotifyOrderly
  <1>2. CASE Close(s)
    BY <1>2, ClosedOrderly DEF Close
  <1>3. ASSUME NEW id \in Id, Cancel(s, id)
        PROVE  Orderly(s)
    <2>1. ConnectionOK(s, conn[s]) /\ Alike(conn[s], conn[s])
      BY DEF Honest, InOrder, Alike
    <2> QED
      BY <1>3, <2>1, AbandonOrderly DEF Cancel
  <1>4. ASSUME NEW id \in Id, NEW kind \in {"response", "ambiguous"}, Finish(s, id, kind)
        PROVE  Orderly(s)
    BY <1>4, FinishOrderly
  <1> QED
    BY <1>1, <1>2, <1>3, <1>4 DEF Uses

LEMMA StruckAlike ==
    ASSUME NEW s \in Side, NEW c, ConnectionOK(s, c), NEW id
    PROVE  Alike(Struck(c, id), c)
  BY DEF Alike, Struck, ConnectionOK, Connection

LEMMA FlushOrderly ==
    ASSUME Honest, NEW s \in Side, Flush(s)
    PROVE  Orderly(s)
  <1> DEFINE c == [conn[s] EXCEPT !.outgoing = Tail(@)]
             m == Head(conn[s].outgoing)
  <1>1. /\ ConnectionOK(s, conn[s]) /\ conn[s] \in Connection /\ conn \in [Side -> Connection]
        /\ conn[s].outgoing \in Seq(Letter) /\ conn[s].outgoing # << >>
        /\ channel \in [Side -> Seq(Letter)]
    BY DEF Honest, InOrder, TypeOK, ConnectionOK, Flush
  <1>2. ConnectionOK(s, c) /\ m \in Letter
    BY <1>1, FlushedOK
  <1>3. m \in Messages(conn[s].outgoing)
        /\ Messages(Tail(conn[s].outgoing)) \subseteq Messages(conn[s].outgoing)
    BY <1>1, MessagesOfQueues
  <1>4. Follows(c, conn[s]) /\ c.pending = conn[s].pending
        /\ c.lastRequestId = conn[s].lastRequestId
    BY <1>1, <1>3 DEF Follows, Connection
  <1>5. RepliesTruly(s, c, {m})
    BY <1>2, <1>3, <1>4 DEF RepliesTruly, Honest
  <1>6. conn' = [conn EXCEPT ![s] = c]
    BY <1>1 DEF Flush
  <1>7. Kept(s, c, answer[s]) /\ Accept(s, channel, m)
    BY <1>6 DEF Flush, Kept, Honest, InOrder, TypeOK
  <1>8. AddsNothing(channel)
    BY DEF AddsNothing
  <1> HIDE DEF c, m
  <1>9. Ends(s, c, answer[s], channel, {m})
    BY <1>1, <1>2, <1>7, AcceptedEnds
  <1> QED
    BY <1>2, <1>4, <1>5, <1>8, <1>9, LeavesCalls DEF Flush

LEMMA ExpireCallOrderly ==
    ASSUME Honest, NEW s \in Side, ExpireCall(s)
    PROVE  Orderly(s)
  <1>1. ConnectionOK(s, conn[s])
    BY DEF Honest, InOrder
  <1>2. PICK id \in conn[s].expired :
            IF id \in Struck(conn[s], id).pending
            THEN Abandon(s, Struck(conn[s], id), id)
            ELSE Unsent(s, Struck(conn[s], id), answer[s], channel)
    BY DEF ExpireCall, Struck
  <1> DEFINE c == Struck(conn[s], id)
  <1>3. ConnectionOK(s, c) /\ Alike(c, conn[s])
    BY <1>1, StruckOK, StruckAlike
  <1>4. AddsNothing(channel)
    BY DEF AddsNothing
  <1>5. UNCHANGED runs
    BY DEF ExpireCall
  <1>6. CASE id \in c.pending
    BY <1>2, <1>3, <1>5, <1>6, AbandonOrderly
  <1>7. CASE id \notin c.pending
    <2>1. Ends(s, c, answer[s], channel, {})
      BY <1>2, <1>7, UnsentEnds
    <2> HIDE DEF c
    <2> QED
      BY <1>3, <1>4, <1>5, <2>1, LeavesTables
  <1> QED
    BY <1>6, <1>7

LEMMA ExpireRequestOrderly ==
    ASSUME Honest, NEW s \in Side, ExpireRequest(s)
    PROVE  Orderly(s)
  <1>1. ConnectionOK(s, conn[s]) /\ channel \in [Side -> Seq(Letter)]
    BY DEF Honest, InOrder
  <1>2. PICK id \in conn[s].expired :
            IF id \in Struck(conn[s], id).active
            THEN Enqueue(s, Dropped(Struck(conn[s], id), id), answer[s], channel,
                         Msg("ambiguous", id))
            ELSE Unsent(s, Struck(conn[s], id), answer[s], channel)
    BY DEF ExpireRequest, Struck
  <1> DEFINE c == Struck(conn[s], id)
  <1>3. ConnectionOK(s, c) /\ Alike(c, conn[s])
    BY <1>1, StruckOK, StruckAlike
  <1>4. AddsNothing(channel)
    BY DEF AddsNothing
  <1>5. UNCHANGED runs
    BY DEF ExpireRequest
  <1>6. CASE id \in c.active
    <2> DEFINE e == Dropped(c, id)
               m == Msg("ambiguous", id)
    <2>1. ConnectionOK(s, e) /\ Follows(e, c) /\ e.pending = c.pending
      BY <1>3, <1>6, DroppedOK, DroppedFollows
    <2>2. Follows(e, conn[s]) /\ e.pending = conn[s].pending
      BY <1>3, <2>1 DEF Follows, Alike
    <2>3. id \in Id /\ id \in Nat
      BY <1>3, <1>6, BoundsAssumption DEF ConnectionOK, Connection, Id
    <2>4. m \in Letter /\ m.kind = "ambiguous"
      BY <2>3, MsgIsALetter DEF Kinds, Msg
    <2>5. m.kind # "request" /\ Replied(m, runs[Peer(s)], e.lastRequestId)
      BY <2>4 DEF Replied
    <2>6. Enqueue(s, e, answer[s], channel, m)
      BY <1>2, <1>6
    <2> HIDE DEF e, m
    <2> QED
      BY <1>1, <1>4, <1>5, <2>1, <2>2, <2>4, <2>5, <2>6, EnqueueOrderly
  <1>7. CASE id \notin c.active
    <2>1. Ends(s, c, answer[s], channel, {})
      BY <1>2, <1>7, UnsentEnds
    <2> HIDE DEF c
    <2> QED
      BY <1>3, <1>4, <1>5, <2>1, LeavesTables
  <1> QED
    BY <1>6, <1>7

LEMMA PollsOrderly ==
    ASSUME Honest, NEW s \in Side, Polls(s)
    PROVE  Orderly(s)
  <1>1. conn[s] \in Connection
    BY DEF Honest, InOrder, TypeOK
  <1>2. CASE Poll(s)
    BY <1>2, GotoOrderly, ClosedOrderly DEF Poll, Steps
  <1>3. CASE Flush(s)
    BY <1>3, FlushOrderly
  <1>4. CASE Flushed(s)
    BY <1>1, <1>4, GotoOrderly DEF Flushed, Steps, Connection
  <1>5. CASE ExpireCall(s)
    BY <1>5, ExpireCallOrderly
  <1>6. CASE CallsExpired(s)
    BY <1>1, <1>6, GotoOrderly DEF CallsExpired, Steps, Connection
  <1>7. CASE ExpireRequest(s)
    BY <1>7, ExpireRequestOrderly
  <1>8. CASE RequestsExpired(s)
    BY <1>8, GotoOrderly DEF RequestsExpired, Steps
  <1>9. CASE Polled(s)
    BY <1>9, GotoOrderly DEF Polled, Steps
  <1> QED
    BY <1>2, <1>3, <1>4, <1>5, <1>6, <1>7, <1>8, <1>9 DEF Polls

(* What an end that receives starts from. *)
LEMMA Received ==
    ASSUME Honest, NEW s \in Side, channel[s] # << >>
    PROVE  /\ ConnectionOK(s, conn[s]) /\ conn[s] \in Connection
           /\ Rest(s) \in [Side -> Seq(Letter)] /\ AddsNothing(Rest(s))
           /\ Head(channel[s]) \in Letter /\ Head(channel[s]) \in Messages(channel[s])
           /\ Head(channel[s]).kind = "request" =>
                  MessageId(s) \in Id /\ MessageId(s) \in Nat
  BY RestOK, RestMessages, BoundsAssumption
     DEF Honest, InOrder, TypeOK, Letter, Message, MessageId

LEMMA ReceiveCancelOrderly ==
    ASSUME Honest, NEW s \in Side, ReceiveCancel(s)
    PROVE  Orderly(s)
  <1> DEFINE id == MessageId(s)
             c == Dropped(conn[s], id)
  <1>1. channel[s] # << >> /\ UNCHANGED runs
    BY DEF ReceiveCancel, Receives
  <1>2. ConnectionOK(s, conn[s]) /\ AddsNothing(Rest(s))
    BY <1>1, Received
  <1>3. CASE id \in conn[s].active
    <2>1. ConnectionOK(s, c) /\ Follows(c, conn[s]) /\ c.pending = conn[s].pending
      BY <1>2, <1>3, DroppedOK, DroppedFollows
    <2>2. Ends(s, c, answer[s], Rest(s), {})
      BY <1>3, UnsentEnds DEF ReceiveCancel
    <2> HIDE DEF c
    <2> QED
      BY <1>1, <1>2, <2>1, <2>2, NothingSent, LeavesCalls
  <1>4. CASE id \notin conn[s].active
    <2>1. Ends(s, conn[s], answer[s], Rest(s), {})
      BY <1>4, UnsentEnds DEF ReceiveCancel
    <2>2. Alike(conn[s], conn[s])
      BY DEF Alike
    <2> QED
      BY <1>1, <1>2, <2>1, <2>2, LeavesTables
  <1> QED
    BY <1>3, <1>4

LEMMA ReceiveRefusedOrderly ==
    ASSUME Honest, NEW s \in Side, ReceiveRefused(s)
    PROVE  Orderly(s)
  <1> DEFINE id == MessageId(s)
             c == [conn[s] EXCEPT !.lastRequestId = id]
             m == Msg("refused", id)
  <1>1. channel[s] # << >> /\ UNCHANGED runs /\ Head(channel[s]).kind = "request"
        /\ id > conn[s].lastRequestId
    BY DEF ReceiveRefused, Receives, Fresh
  <1>2. /\ ConnectionOK(s, conn[s]) /\ AddsNothing(Rest(s)) /\ Rest(s) \in [Side -> Seq(Letter)]
        /\ id \in Id /\ id \in Nat
    BY <1>1, Received
  <1>3. ConnectionOK(s, c)
    BY <1>1, <1>2, RefusedOK
  <1>4. Follows(c, conn[s]) /\ c.pending = conn[s].pending /\ c.lastRequestId = id
    BY <1>1, <1>2 DEF Follows, ConnectionOK, Connection
  <1>5. m \in Letter /\ m.kind = "refused" /\ m.id = id
    BY <1>2, MsgIsALetter DEF Kinds, Msg
  <1>6. runs[Peer(s)][id] = 0
    BY <1>1, <1>2 DEF Honest, HandlersOK
  <1>7. m.kind # "request" /\ Replied(m, runs[Peer(s)], c.lastRequestId)
    BY <1>2, <1>4, <1>5, <1>6 DEF Replied
  <1>8. Enqueue(s, c, answer[s], Rest(s), m)
    BY DEF ReceiveRefused
  <1> HIDE DEF c, m
  <1> QED
    BY <1>1, <1>2, <1>3, <1>4, <1>5, <1>7, <1>8, EnqueueOrderly

LEMMA ReceiveNotificationOrderly ==
    ASSUME Honest, NEW s \in Side, ReceiveNotification(s)
    PROVE  Orderly(s)
  <1>1. channel[s] # << >> /\ UNCHANGED runs
    BY DEF ReceiveNotification, Receives
  <1>2. ConnectionOK(s, conn[s]) /\ AddsNothing(Rest(s))
    BY <1>1, Received
  <1>3. ASSUME NEW after \in AfterCallback(conn[s]), Unsent(s, after, answer[s], Rest(s))
        PROVE  Orderly(s)
    <2>1. ConnectionOK(s, after) /\ Alike(after, conn[s])
      BY <1>2, AfterCallbackOK, AfterCallbackAlike
    <2>2. Ends(s, after, answer[s], Rest(s), {})
      BY <1>3, UnsentEnds
    <2> QED
      BY <1>1, <1>2, <2>1, <2>2, LeavesTables
  <1>4. CASE Closed(s, conn[s], answer[s])
    BY <1>1, <1>4, ClosedOrderly
  <1> QED
    BY <1>3, <1>4 DEF ReceiveNotification

(* A request is in hand: one that runs, and one that was late. *)
Runs(s) ==
    /\ ReceiveRequest(s)
    /\ Unsent(s, InHand(conn[s], MessageId(s)), answer[s], Rest(s))
    /\ runs' = [runs EXCEPT ![Peer(s)][MessageId(s)] = @ + 1]

LEMMA InHandFields ==
    ASSUME NEW s \in Side, NEW c, ConnectionOK(s, c), NEW id
    PROVE  /\ InHand(c, id).nextId = c.nextId /\ InHand(c, id).lastRequestId = id
           /\ InHand(c, id).pending = c.pending /\ InHand(c, id).active = c.active \cup {id}
           /\ InHand(c, id).lateRequests = c.lateRequests
           /\ InHand(c, id).outgoing = c.outgoing
  BY DEF InHand, ConnectionOK, Connection

LEMMA LateFields ==
    ASSUME NEW s \in Side, NEW c, ConnectionOK(s, c), NEW id, NEW d,
           d = [c EXCEPT !.lateRequests = @ \cup {id}]
    PROVE  /\ d.nextId = c.nextId /\ d.lastRequestId = c.lastRequestId
           /\ d.pending = c.pending /\ d.active = c.active
           /\ d.lateRequests = c.lateRequests \cup {id} /\ d.outgoing = c.outgoing
  BY DEF ConnectionOK, Connection

LEMMA ReceiveLateOrderly ==
    ASSUME Honest, NEW s \in Side, ReceiveRequest(s), ~Runs(s)
    PROVE  Orderly(s)
  <1> DEFINE id == MessageId(s)
             c == [InHand(conn[s], id) EXCEPT !.lateRequests = @ \cup {id}]
  <1>1. channel[s] # << >> /\ Head(channel[s]).kind = "request"
        /\ id > conn[s].lastRequestId /\ conn[s].activeCount < MaxCalls[s]
    BY DEF ReceiveRequest, Receives, Fresh
  <1>2. /\ ConnectionOK(s, conn[s]) /\ AddsNothing(Rest(s))
        /\ id \in Id /\ id \in Nat
    BY <1>1, Received
  <1>3. ConnectionOK(s, InHand(conn[s], id)) /\ ConnectionOK(s, c)
    BY <1>1, <1>2, InHandOK
  <1>4. Unsent(s, c, answer[s], Rest(s)) /\ UNCHANGED runs
    BY DEF ReceiveRequest, Runs, InHand
  <1>5. /\ c.nextId = conn[s].nextId /\ c.lastRequestId = id /\ c.pending = conn[s].pending
        /\ c.active = conn[s].active \cup {id}
        /\ c.lateRequests = conn[s].lateRequests \cup {id} /\ c.outgoing = conn[s].outgoing
    <2> HIDE DEF c
    <2>1. c = [InHand(conn[s], id) EXCEPT !.lateRequests = @ \cup {id}]
      BY DEF c
    <2> QED
      BY <1>2, <1>3, <2>1, InHandFields, LateFields
  <1> HIDE DEF c
  <1>6. Follows(c, conn[s])
    BY <1>1, <1>2, <1>5 DEF Follows, ConnectionOK, Connection
  <1>7. Ends(s, c, answer[s], Rest(s), {})
    BY <1>4, UnsentEnds
  <1> QED
    BY <1>2, <1>3, <1>4, <1>5, <1>6, <1>7, NothingSent, LeavesCalls

LEMMA ReceiveOrderly ==
    ASSUME Honest, NEW s \in Side, Receive(s), ~Runs(s)
    PROVE  Orderly(s)
  <1>1. CASE ReceiveResponse(s)
    BY <1>1, AnswerOrderly DEF ReceiveResponse, Receives, Tells
  <1>2. CASE ReceiveFailed(s)
    BY <1>2, AnswerOrderly DEF ReceiveFailed, Receives, Tells
  <1>3. CASE ReceiveCancel(s)
    BY <1>3, ReceiveCancelOrderly
  <1>4. CASE ReceiveAgain(s)
    BY <1>4, ClosedOrderly DEF ReceiveAgain
  <1>5. CASE ReceiveRefused(s)
    BY <1>5, ReceiveRefusedOrderly
  <1>6. CASE ReceiveRequest(s)
    BY <1>6, ReceiveLateOrderly
  <1>7. CASE ReceiveNotification(s)
    BY <1>7, ReceiveNotificationOrderly
  <1> QED
    BY <1>1, <1>2, <1>3, <1>4, <1>5, <1>6, <1>7 DEF Receive

----------------------------------------------------------------------------
(* The request that runs has been asked for, and has not run. *)
LEMMA RunsOnce ==
    ASSUME Honest, InOrder', NEW s \in Side, Runs(s)
    PROVE  /\ Honest'
           /\ MessageId(s) \in Id
           /\ answer[Peer(s)][MessageId(s)] \notin {"unused", "refused"}
           /\ runs[Peer(s)][MessageId(s)] = 0
           /\ runs' = [runs EXCEPT ![Peer(s)][MessageId(s)] = 1]
           /\ UNCHANGED answer
  <1> DEFINE p == Peer(s)
             id == MessageId(s)
             c == InHand(conn[s], id)
             m == Head(channel[s])
  <1>1. channel[s] # << >> /\ m.kind = "request" /\ m.id = id
        /\ id > conn[s].lastRequestId /\ conn[s].activeCount < MaxCalls[s]
    BY DEF Runs, ReceiveRequest, Receives, Fresh, MessageId
  <1>2. /\ ConnectionOK(s, conn[s]) /\ AddsNothing(Rest(s))
        /\ id \in Id /\ id \in Nat /\ m \in Messages(channel[s])
        /\ p \in Side /\ p # s
        /\ runs \in [Side -> [Id -> Nat]] /\ answer \in [Side -> [Id -> Outcome]]
    BY <1>1, Received, PeerIsASide DEF Honest, InOrder, TypeOK
  <1>3. ConnectionOK(s, c)
    BY <1>1, <1>2, InHandOK
  <1>4. /\ c.nextId = conn[s].nextId /\ c.lastRequestId = id /\ c.pending = conn[s].pending
        /\ c.active = conn[s].active \cup {id}
        /\ c.lateRequests = conn[s].lateRequests /\ c.outgoing = conn[s].outgoing
    BY <1>2, InHandFields
  <1>5. HandlersOK(conn[s], runs[p]) /\ CallsOK(conn[s], answer[s])
        /\ CallsOK(conn[p], answer[p])
    BY <1>2 DEF Honest
  <1>6. Asked(m, conn[p].nextId, answer[p], conn[s].lastRequestId)
    BY <1>2 DEF Honest
  <1>7. answer[p][id] \notin {"unused", "refused"}
    BY <1>1, <1>2, <1>5, <1>6 DEF Asked, CallsOK
  <1>8. runs[p][id] = 0
    BY <1>1, <1>2, <1>5 DEF HandlersOK
  <1>9. runs' = [runs EXCEPT ![p][id] = 1]
    BY <1>2, <1>8 DEF Runs
  <1>10. UNCHANGED answer
    BY <1>2 DEF Runs, Unsent, Kept
  <1>11. HandlersOK(c, runs'[p])
    <2> SUFFICES ASSUME NEW other \in Id
                 PROVE  /\ other > c.lastRequestId => runs'[p][other] = 0
                        /\ other \in c.active \ c.lateRequests => runs'[p][other] = 1
      BY DEF HandlersOK
    <2>1. other \in Nat /\ conn[s].lastRequestId \in Nat
      BY <1>2, BoundsAssumption DEF Id, ConnectionOK, Connection
    <2>2. runs'[p][other] = IF other = id THEN 1 ELSE runs[p][other]
      BY <1>2, <1>9
    <2> QED
      BY <1>1, <1>2, <1>4, <1>5, <2>1, <2>2 DEF HandlersOK
  <1> HIDE DEF c
  <1>12. Ends(s, c, answer[s], Rest(s), {})
    BY UnsentEnds DEF Runs, c
  <1>13. Careful(s, c, answer[s], Rest(s), {})
    <2>1. CallsOK(c, answer[s])
      BY <1>4, <1>5 DEF CallsOK
    <2>2. /\ c.nextId \in Nat /\ c.nextId >= conn[s].nextId
          /\ c.lastRequestId \in Nat /\ c.lastRequestId >= conn[s].lastRequestId
      BY <1>1, <1>2, <1>4 DEF ConnectionOK, Connection
    <2>3. runs' \in [Side -> [Id -> Nat]] /\ runs'[s] = runs[s]
      BY <1>2, <1>9
    <2>4. \A other \in Id : other <= conn[s].lastRequestId => runs'[p][other] = runs[p][other]
      <3> DEFINE last == conn[s].lastRequestId
      <3>1. last \in Nat
        BY <1>2 DEF ConnectionOK, Connection
      <3>2. id > last
        BY <1>1
      <3>3. \A other \in Id : other \in Nat
        BY BoundsAssumption DEF Id
      <3> HIDE DEF last
      <3>4. \A other \in Id : other <= last => other # id
        BY <1>2, <3>1, <3>2, <3>3
      <3> QED
        BY <1>2, <1>9, <3>4 DEF last
    <2>5. Messages(c.outgoing) \subseteq Messages(conn[s].outgoing)
      BY <1>4
    <2> QED
      BY <1>2, <1>11, <2>1, <2>2, <2>3, <2>4, <2>5 DEF Careful, AddsNothing
  <1>14. answer[s] \in [Id -> Outcome]
    BY <1>2
  <1>15. Honest'
    BY <1>12, <1>13, <1>14, EndsHonest
  <1> QED
    BY <1>2, <1>7, <1>8, <1>9, <1>10, <1>15

(* A call is made with an id nobody has used. *)
LEMMA CallsOnce ==
    ASSUME Honest, InOrder', NEW s \in Side, Call(s)
    PROVE  /\ Honest'
           /\ UNCHANGED runs
           /\ conn[s].nextId \in Id
           /\ answer[s][conn[s].nextId] = "unused"
           /\ \E a \in {"waiting", "refused"} :
                  answer' = [answer EXCEPT ![s][conn[s].nextId] = a]
  <1> DEFINE id == conn[s].nextId
             c == Numbered(conn[s])
             w == Waiting(c, id)
             m == Msg("request", id)
  <1>1. /\ ConnectionOK(s, conn[s]) /\ conn[s] \in Connection
        /\ answer \in [Side -> [Id -> Outcome]] /\ runs \in [Side -> [Id -> Nat]]
        /\ channel \in [Side -> Seq(Letter)] /\ UNCHANGED runs
    BY DEF Call, Honest, InOrder, TypeOK
  <1>2. id \in Id /\ id \in Nat
    BY <1>1, BoundsAssumption DEF Call, ConnectionOK, Connection, Id
  <1>3. CallsOK(conn[s], answer[s]) /\ HandlersOK(conn[s], runs[Peer(s)])
    BY DEF Honest
  <1>4. answer[s][id] = "unused"
    BY <1>2, <1>3 DEF CallsOK
  <1>5. /\ c.nextId = id + 1 /\ c.pending = conn[s].pending
        /\ w.nextId = id + 1 /\ w.pending = conn[s].pending \cup {id}
        /\ \A x \in {c, w} : /\ x.active = conn[s].active /\ x.outgoing = conn[s].outgoing
                             /\ x.lateRequests = conn[s].lateRequests
                             /\ x.lastRequestId = conn[s].lastRequestId
    BY <1>1 DEF Numbered, Waiting, Connection
  <1>6. m \in Letter /\ m.kind = "request" /\ m.id = id
    BY <1>2, MsgIsALetter DEF Kinds, Msg
  <1> DEFINE k(a) == Settled(s, id, a)
  <1>7. \A a \in {"waiting", "refused"} :
            /\ k(a) \in [Id -> Outcome]
            /\ \A other \in Id : k(a)[other] = IF other = id THEN a ELSE answer[s][other]
    BY <1>1, <1>2 DEF Settled, Outcome
  <1>8. \A other \in Id : other < id + 1 <=> other < id \/ other = id
    BY <1>2, BoundsAssumption DEF Id
  <1>9. CallsOK(w, k("waiting")) /\ CallsOK(c, k("refused"))
    <2> HIDE DEF c, w, k
    <2>1. CallsOK(w, k("waiting"))
      BY <1>3, <1>4, <1>5, <1>7, <1>8 DEF CallsOK
    <2>2. CallsOK(c, k("refused"))
      BY <1>3, <1>4, <1>5, <1>7, <1>8 DEF CallsOK
    <2> QED
      BY <2>1, <2>2
  <1>10. AddsNothing(channel)
    BY DEF AddsNothing
  <1>11. ASSUME NEW x \in {c, w}, NEW a \in {"waiting", "refused"}, CallsOK(x, k(a)),
                NEW sent \in SUBSET {m}, sent = {} \/ (x = w /\ a = "waiting")
         PROVE  Careful(s, x, k(a), channel, sent)
    <2>1. /\ x.nextId = id + 1 /\ x.active = conn[s].active /\ x.outgoing = conn[s].outgoing
          /\ x.lateRequests = conn[s].lateRequests /\ x.lastRequestId = conn[s].lastRequestId
      BY <1>5
    <2> HIDE DEF c, w, k, m
    <2>2. HandlersOK(x, runs'[Peer(s)])
      BY <1>1, <1>3, <2>1 DEF HandlersOK
    <2>3. /\ x.nextId \in Nat /\ x.nextId >= conn[s].nextId
          /\ x.lastRequestId \in Nat /\ x.lastRequestId >= conn[s].lastRequestId
      BY <1>1, <1>2, <2>1 DEF Connection
    <2>4. /\ runs' \in [Side -> [Id -> Nat]] /\ runs'[s] = runs[s]
          /\ \A other \in Id : runs'[Peer(s)][other] = runs[Peer(s)][other]
      BY <1>1
    <2>5. \A other \in Id : k(a)[other] = "refused" /\ answer[s][other] # "refused" =>
              other >= conn[s].nextId \/ other <= conn[Peer(s)].lastRequestId
      BY <1>2, <1>7
    <2>6. sent \subseteq Letter
      BY <1>6
    <2>7. \A message \in sent : Sayable(s, x, k(a), message)
      <3> SUFFICES ASSUME sent # {} PROVE Sayable(s, x, k(a), m)
        OBVIOUS
      <3>1. x.nextId = id + 1 /\ k(a)[id] = "waiting"
        BY <1>2, <1>7, <1>11, <2>1
      <3>2. m.id < x.nextId
        BY <1>2, <1>6, <3>1
      <3> QED
        BY <1>6, <3>1, <3>2 DEF Sayable, Asked, Replied
    <2> QED
      BY <1>10, <1>11, <2>1, <2>2, <2>3, <2>4, <2>5, <2>6, <2>7 DEF Careful, AddsNothing
  <1>12. CASE Accept(s, channel, m) /\ Kept(s, w, k("waiting"))
    <2>1. Ends(s, w, k("waiting"), channel, {m})
      BY <1>1, <1>6, <1>12, AcceptedEnds
    <2>2. Careful(s, w, k("waiting"), channel, {m})
      BY <1>9, <1>11
    <2>3. answer' = [answer EXCEPT ![s] = k("waiting")]
      BY <1>12 DEF Kept
    <2>4. answer' = [answer EXCEPT ![s][id] = "waiting"]
      BY <1>1, <2>3 DEF Settled
    <2> HIDE DEF k, w
    <2>5. Honest'
      BY <1>7, <2>1, <2>2, EndsHonest
    <2> QED
      BY <1>1, <1>2, <1>4, <2>4, <2>5
  <1>13. CASE Unsent(s, c, k("refused"), channel)
    <2>1. Ends(s, c, k("refused"), channel, {})
      BY <1>13, UnsentEnds
    <2>2. Careful(s, c, k("refused"), channel, {})
      BY <1>9, <1>11
    <2>3. answer' = [answer EXCEPT ![s] = k("refused")]
      BY <1>13 DEF Unsent, Kept
    <2>4. answer' = [answer EXCEPT ![s][id] = "refused"]
      BY <1>1, <2>3 DEF Settled
    <2> HIDE DEF k, c
    <2>5. Honest'
      BY <1>7, <2>1, <2>2, EndsHonest
    <2> QED
      BY <1>1, <1>2, <1>4, <2>4, <2>5
  <1> QED
    BY <1>12, <1>13 DEF Call, Numbered, Waiting

----------------------------------------------------------------------------
(* The invariant holds, always. *)

LEMMA OrderlyHonest ==
    ASSUME Honest, InOrder', NEW s \in Side, Orderly(s)
    PROVE  Honest'
  BY EndsHonest DEF Orderly

(* A step makes a call, runs a request, or is orderly. *)
LEMMA StepsAreOrderly ==
    ASSUME Honest, [Next]_vars
    PROVE  \/ \E s \in Side : Call(s) \/ Runs(s) \/ Orderly(s)
           \/ UNCHANGED vars
  <1>1. ASSUME NEW s \in Side, Uses(s)
        PROVE  Call(s) \/ Orderly(s)
    BY <1>1, UsesOrderly
  <1>2. ASSUME NEW s \in Side, Polls(s)
        PROVE  Orderly(s)
    BY <1>2, PollsOrderly
  <1>3. ASSUME NEW s \in Side, Receive(s)
        PROVE  Runs(s) \/ Orderly(s)
    BY <1>3, ReceiveOrderly
  <1>4. ASSUME NEW s \in Side, CallExpires(s) \/ RequestExpires(s)
        PROVE  Orderly(s)
    BY <1>4, TimePassesOrderly
  <1>5. ASSUME NEW s \in Side, Duplicate(s)
        PROVE  Orderly(s)
    BY <1>5, DuplicateOrderly
  <1> QED
    BY <1>1, <1>2, <1>3, <1>4, <1>5 DEF Next

LEMMA HonestInitially == Init => Honest
  <1> SUFFICES ASSUME Init PROVE Honest
    OBVIOUS
  <1>1. InOrder
    BY InOrderInitially
  <1>2. \A s \in Side : conn[s] = NewConnection /\ channel[s] = << >>
                        /\ answer[s] = [id \in Id |-> "unused"]
                        /\ runs[Peer(s)] = [id \in Id |-> 0]
    BY PeerIsASide DEF Init
  <1>3. CallsOK(NewConnection, [id \in Id |-> "unused"])
        /\ HandlersOK(NewConnection, [id \in Id |-> 0])
    BY BoundsAssumption DEF CallsOK, HandlersOK, NewConnection, Id
  <1>4. Messages(<< >>) = {}
    BY EmptySeq DEF Messages
  <1>5. NewConnection.outgoing = << >>
    BY DEF NewConnection
  <1> QED
    BY <1>1, <1>2, <1>3, <1>4, <1>5 DEF Honest

LEMMA HonestIsKept == Honest /\ [Next]_vars => Honest'
  <1> SUFFICES ASSUME Honest, [Next]_vars PROVE Honest'
    OBVIOUS
  <1>1. InOrder'
    BY InOrderIsKept DEF Honest
  <1>2. CASE UNCHANGED vars
    BY <1>1, <1>2 DEF vars, Honest
  <1> QED
    BY <1>1, <1>2, StepsAreOrderly, CallsOnce, RunsOnce, OrderlyHonest

(* Each end's calls, its requests in hand, what its caller knows and what is on *)
(* its way agree, whatever is lost or repeated (see Honest).                   *)
THEOREM AlwaysHonest == Spec => []Honest
  BY HonestInitially, HonestIsKept, PTL DEF Spec

----------------------------------------------------------------------------
(* The refinement.                                                          *)

(* What two indices say of a call, by the pair of them. *)
Paired(f) == [call \in Side \X Id |-> f[call[1]][call[2]]]

Answers == Paired(answer)
Executions == Paired(runs)

Entered(f, s, id, v) == [f EXCEPT ![s][id] = v]
EnteredFor(f, call, v) == [f EXCEPT ![call] = v]

LEMMA PairsAreUpdated ==
    ASSUME NEW S, NEW f \in [Side -> [Id -> S]],
           NEW s \in Side, NEW id \in Id, NEW v
    PROVE  Paired(Entered(f, s, id, v)) = EnteredFor(Paired(f), <<s, id>>, v)
  <1> DEFINE call == <<s, id>>
             g == Entered(f, s, id, v)
  <1>1. ASSUME NEW other \in Side \X Id
        PROVE  g[other[1]][other[2]] = IF other = call THEN v ELSE f[other[1]][other[2]]
    <2>1. PICK t \in Side, k \in Id : other = <<t, k>>
      OBVIOUS
    <2>2. g[t][k] = IF t = s /\ k = id THEN v ELSE f[t][k]
      BY DEF Entered
    <2> QED
      BY <2>1, <2>2
  <1> HIDE DEF call, g
  <1>2. Paired(g) = EnteredFor(Paired(f), call, v)
    BY <1>1 DEF Paired, EnteredFor
  <1> QED
    BY <1>2 DEF call, g

LEMMA RefinesInit == Init => Abstract!Init
  BY DEF Init, Abstract!Init

LEMMA CallDispatches ==
    ASSUME Honest, InOrder', NEW s \in Side, Call(s)
    PROVE  Abstract!Next
  <1> DEFINE id == conn[s].nextId
             call == <<s, id>>
  <1>1. PICK a \in {"waiting", "refused"} : answer' = [answer EXCEPT ![s][id] = a]
    BY CallsOnce
  <1>2. id \in Id /\ answer[s][id] = "unused" /\ UNCHANGED runs
    BY CallsOnce
  <1> HIDE DEF id
  <1>3. answer \in [Side -> [Id -> Outcome]]
    BY DEF Honest, InOrder, TypeOK
  <1>4. Answers' = [Answers EXCEPT ![call] = a]
    <2>1. answer' = Entered(answer, s, id, a)
      BY <1>1 DEF Entered
    <2>2. Paired(answer') = EnteredFor(Paired(answer), <<s, id>>, a)
      BY <1>2, <1>3, <2>1, PairsAreUpdated
    <2> QED
      BY <2>2, Zenon DEF Answers, EnteredFor
  <1>5. Answers[call] = "unused" /\ Executions' = Executions /\ call \in Side \X Id
    BY <1>2 DEF Answers, Executions, Paired
  <1> HIDE DEF call
  <1>6. Abstract!Dispatch(call)
    BY <1>4, <1>5 DEF Abstract!Dispatch, Answers, Executions, Paired
  <1> QED
    BY <1>4, <1>5 DEF Abstract!Next, Abstract!Dispatch, Answers, Executions, Paired

LEMMA RunsRuns ==
    ASSUME Honest, InOrder', NEW s \in Side, Runs(s)
    PROVE  Abstract!Next
  <1> DEFINE id == MessageId(s)
             p == Peer(s)
             call == <<p, id>>
  <1>1. /\ id \in Id /\ p \in Side
        /\ answer[p][id] \notin {"unused", "refused"} /\ runs[p][id] = 0
        /\ runs' = [runs EXCEPT ![p][id] = 1] /\ UNCHANGED answer
    BY RunsOnce, PeerIsASide
  <1> HIDE DEF id, p
  <1>2. runs \in [Side -> [Id -> Nat]]
    BY DEF Honest, InOrder, TypeOK
  <1>3. Executions' = [Executions EXCEPT ![call] = 1]
    <2>1. runs' = Entered(runs, p, id, 1)
      BY <1>1 DEF Entered
    <2>2. \A v : Paired(Entered(runs, p, id, v))
                   = EnteredFor(Paired(runs), <<p, id>>, v)
      BY <1>1, <1>2, PairsAreUpdated
    <2>3. Paired(runs') = EnteredFor(Paired(runs), <<p, id>>, 1)
      BY <2>1, <2>2, Zenon
    <2> QED
      BY <2>3, Zenon DEF Executions, EnteredFor
  <1>4. /\ Answers[call] \notin {"unused", "refused"} /\ Executions[call] = 0
        /\ Answers' = Answers /\ call \in Side \X Id
    BY <1>1 DEF Answers, Executions, Paired
  <1> HIDE DEF call
  <1>5. Abstract!Run(call)
    BY <1>3, <1>4 DEF Abstract!Run, Answers, Executions, Paired
  <1> QED
    BY <1>3, <1>4 DEF Abstract!Next, Abstract!Run, Answers, Executions, Paired

LEMMA OrderlySettles ==
    ASSUME Honest, InOrder', NEW s \in Side, Orderly(s)
    PROVE  Abstract!Next
  <1>1. PICK c, known, flow, sent :
            /\ known \in [Id -> Outcome]
            /\ Ends(s, c, known, flow, sent)
            /\ Careful(s, c, known, flow, sent)
            /\ Settling(s, known)
            /\ UNCHANGED runs
    BY DEF Orderly
  <1>2. PICK d, k : Ended(s, c, known, flow, sent, d, k)
    BY <1>1 DEF Ends
  <1>3. answer' = [answer EXCEPT ![s] = k] /\ answer \in [Side -> [Id -> Outcome]]
        /\ answer' \in [Side -> [Id -> Outcome]]
    BY <1>2 DEF Ended, Honest, InOrder, TypeOK
  <1>4. ASSUME NEW id \in Id, k[id] # answer[s][id]
        PROVE  /\ answer[s][id] = "waiting"
               /\ \/ k[id] = "answered" /\ runs[s][id] = 1
                  \/ k[id] = "refused" /\ runs[s][id] = 0
                  \/ k[id] = "ambiguous"
    <2>1. CASE k[id] = known[id]
      BY <1>1, <1>4, <2>1 DEF Settling
    <2>2. CASE k[id] # known[id]
      <3>1. id \in c.pending /\ k[id] = "ambiguous"
        BY <1>2, <2>2 DEF Ended, ClosedAnswers
      <3>2. known[id] = "waiting"
        BY <1>1, <3>1 DEF Careful, CallsOK
      <3> QED
        BY <1>1, <3>1, <3>2 DEF Settling
    <2> QED
      BY <2>1, <2>2
  <1>5. ASSUME NEW call \in Side \X Id, Answers'[call] # Answers[call]
        PROVE  /\ Answers[call] = "waiting"
               /\ \/ Answers'[call] = "answered" /\ Executions[call] = 1
                  \/ Answers'[call] = "refused" /\ Executions[call] = 0
                  \/ Answers'[call] = "ambiguous"
    <2>1. PICK t \in Side, id \in Id : call = <<t, id>>
      OBVIOUS
    <2>2. /\ Answers[call] = answer[t][id] /\ Answers'[call] = answer'[t][id]
          /\ Executions[call] = runs[t][id]
      BY <2>1 DEF Answers, Executions, Paired
    <2>3. t = s /\ answer'[t][id] = k[id]
      BY <1>3, <1>5, <2>2
    <2> QED
      BY <1>4, <1>5, <2>2, <2>3
  <1>6. Answers' \in [Side \X Id -> Outcome]
    BY <1>3 DEF Answers, Paired
  <1>7. Executions' = Executions
    BY <1>1 DEF Executions, Paired
  <1>8. Abstract!Settle
    BY <1>5, <1>6, <1>7 DEF Abstract!Settle, Abstract!Outcome, Outcome, Answers, Executions, Paired
  <1> QED
    BY <1>8 DEF Abstract!Next

(* Every step of a pair of connections is a step of RemoteCalls, or leaves the  *)
(* calls alone.                                                             *)
LEMMA RefinesNext ==
    ASSUME Honest, InOrder', [Next]_vars
    PROVE  [Abstract!Next]_<<Answers, Executions>>
  <1>1. CASE UNCHANGED vars
    BY <1>1 DEF vars, Answers, Executions
  <1> QED
    BY <1>1, StepsAreOrderly, CallDispatches, RunsRuns, OrderlySettles

(* The promises of docs/RPC.md, "Failure semantics", kept by RpcConnection for  *)
(* all limits, any number of calls, losses and repetitions.                   *)
THEOREM RefinesRemoteCalls == Spec => ImplementsRemoteCalls
  <1>1. Honest /\ Honest' /\ [Next]_vars => [Abstract!Next]_<<Answers, Executions>>
    BY RefinesNext DEF Honest
  <1> QED
    BY RefinesInit, <1>1, AlwaysHonest, PTL
       DEF Spec, ImplementsRemoteCalls, Abstract!Spec, Answers, Executions, Paired

----------------------------------------------------------------------------
(***************************************************************************)
(* Third part: what RpcPair promises while its transport neither loses nor    *)
(* repeats a message.  A request has one reply, a call that waits has         *)
(* something to wait for, and a handler nobody waits for is told.            *)
(***************************************************************************)

(* Where a queue carries messages of some kinds about a call.                 *)

Has(q, kinds, id) == Carries(q, kinds, id) # {}
Once(q, kinds, id) == \A i, j \in Carries(q, kinds, id) : i = j
Before(q, id) ==
    \A i \in Carries(q, {"request"}, id), j \in Carries(q, {"cancel"}, id) : i < j

(* r is what is left of q when some of its first messages are gone. *)
Shifted(r, q) ==
    \E n \in Nat : /\ Len(q) = Len(r) + n
                   /\ \A i \in 1..Len(r) : r[i] = q[i + n]

LEMMA CarriesAt ==
    ASSUME NEW q \in Seq(Letter), NEW kinds, NEW id
    PROVE  Carries(q, kinds, id) = {i \in 1..Len(q) : q[i].kind \in kinds /\ q[i].id = id}
  BY LenProperties DEF Carries

LEMMA CarriedByRest ==
    ASSUME NEW q \in Seq(Letter), NEW r \in Seq(Letter), Shifted(r, q), NEW kinds, NEW id
    PROVE  /\ Has(r, kinds, id) => Has(q, kinds, id)
           /\ Once(q, kinds, id) => Once(r, kinds, id)
           /\ Before(q, id) => Before(r, id)
  <1>1. PICK n \in Nat : /\ Len(q) = Len(r) + n
                         /\ \A i \in 1..Len(r) : r[i] = q[i + n]
    BY DEF Shifted
  <1>2. Len(r) \in Nat /\ Len(q) \in Nat
    BY LenProperties
  <1>3. ASSUME NEW K
        PROVE  \A i \in Carries(r, K, id) : i \in Nat /\ i + n \in Carries(q, K, id)
    <2>1. \A i \in 1..Len(r) : i \in Nat /\ i + n \in 1..Len(q)
      BY <1>1, <1>2
    <2>2. Carries(r, K, id) = {i \in 1..Len(r) : r[i].kind \in K /\ r[i].id = id}
      BY CarriesAt
    <2>3. Carries(q, K, id) = {i \in 1..Len(q) : q[i].kind \in K /\ q[i].id = id}
      BY CarriesAt
    <2> QED
      BY <1>1, <2>1, <2>2, <2>3
  <1>4. Has(r, kinds, id) => Has(q, kinds, id)
    BY <1>3 DEF Has
  <1>5. Once(q, kinds, id) => Once(r, kinds, id)
    <2> SUFFICES ASSUME Once(q, kinds, id),
                        NEW i \in Carries(r, kinds, id), NEW j \in Carries(r, kinds, id)
                 PROVE  i = j
      BY DEF Once
    <2>1. i + n = j + n /\ i \in Nat /\ j \in Nat
      BY <1>3 DEF Once
    <2> QED
      BY <2>1
  <1>6. Before(q, id) => Before(r, id)
    <2> SUFFICES ASSUME Before(q, id), NEW i \in Carries(r, {"request"}, id),
                        NEW j \in Carries(r, {"cancel"}, id)
                 PROVE  i < j
      BY DEF Before
    <2>1. i + n < j + n /\ i \in Nat /\ j \in Nat
      BY <1>3 DEF Before
    <2> QED
      BY <2>1
  <1> QED
    BY <1>4, <1>5, <1>6

LEMMA CarriedByLonger ==
    ASSUME NEW q \in Seq(Letter), NEW m \in Letter, NEW kinds, NEW id
    PROVE  /\ Has(Append(q, m), kinds, id) <=> Has(q, kinds, id) \/ (m.kind \in kinds /\ m.id = id)
           /\ Once(q, kinds, id) /\ (Has(q, kinds, id) => ~(m.kind \in kinds /\ m.id = id))
                  => Once(Append(q, m), kinds, id)
           /\ Before(q, id) /\ (Has(q, {"cancel"}, id) => ~(m.kind = "request" /\ m.id = id))
                  => Before(Append(q, m), id)
  <1> DEFINE l == Append(q, m)
             n == Len(q) + 1
  <1>1. /\ l \in Seq(Letter) /\ Len(l) = n /\ l[n] = m
        /\ \A i \in 1..Len(q) : l[i] = q[i]
    BY AppendProperties
  <1>2. Len(q) \in Nat
    BY LenProperties
  <1> HIDE DEF l
  <1>3. ASSUME NEW K
        PROVE  /\ Carries(l, K, id) = Carries(q, K, id)
                      \cup (IF m.kind \in K /\ m.id = id THEN {n} ELSE {})
               /\ \A i \in Carries(q, K, id) : i < n
    <2>1. 1..n = 1..Len(q) \cup {n} /\ \A i \in 1..Len(q) : i < n
      BY <1>2
    <2>2. Carries(l, K, id) = {i \in 1..n : l[i].kind \in K /\ l[i].id = id}
      BY <1>1, CarriesAt
    <2>3. Carries(q, K, id) = {i \in 1..Len(q) : q[i].kind \in K /\ q[i].id = id}
      BY CarriesAt
    <2> QED
      BY <1>1, <2>1, <2>2, <2>3
  <1>4. Has(l, kinds, id) <=> Has(q, kinds, id) \/ (m.kind \in kinds /\ m.id = id)
    BY <1>3 DEF Has
  <1>5. ASSUME Once(q, kinds, id), Has(q, kinds, id) => ~(m.kind \in kinds /\ m.id = id)
        PROVE  Once(l, kinds, id)
    BY <1>3, <1>5 DEF Once, Has
  <1>6. ASSUME Before(q, id), Has(q, {"cancel"}, id) => ~(m.kind = "request" /\ m.id = id)
        PROVE  Before(l, id)
    <2> SUFFICES ASSUME NEW i \in Carries(l, {"request"}, id),
                        NEW j \in Carries(l, {"cancel"}, id)
                 PROVE  i < j
      BY DEF Before
    <2>1. i \in Carries(q, {"request"}, id) \/ (m.kind = "request" /\ m.id = id /\ i = n)
      BY <1>3
    <2>2. j \in Carries(q, {"cancel"}, id) \/ (m.kind = "cancel" /\ j = n)
      BY <1>3
    <2> QED
      BY <1>3, <1>6, <2>1, <2>2 DEF Before, Has
  <1> QED
    BY <1>4, <1>5, <1>6 DEF l

LEMMA CarriedByTail ==
    ASSUME NEW q \in Seq(Letter), q # << >>, NEW kinds, NEW id
    PROVE  LET about == Head(q).kind \in kinds /\ Head(q).id = id
           IN  /\ Has(q, kinds, id) <=> Has(Tail(q), kinds, id) \/ about
               /\ Once(q, kinds, id) /\ about => ~Has(Tail(q), kinds, id)
               /\ Before(q, id) /\ Head(q).kind = "cancel" /\ Head(q).id = id
                      => ~Has(q, {"request"}, id)
  <1> DEFINE r == Tail(q)
  <1>1. /\ r \in Seq(Letter) /\ Len(r) = Len(q) - 1
        /\ \A i \in 1..Len(r) : r[i] = q[i + 1]
        /\ Len(q) \in Nat \ {0} /\ Head(q) = q[1]
    BY HeadTailProperties, EmptySeq
  <1> HIDE DEF r
  <1>2. ASSUME NEW K, NEW i
        PROVE  i \in Carries(q, K, id) <=>
                   \/ i = 1 /\ Head(q).kind \in K /\ Head(q).id = id
                   \/ i \in Nat /\ i > 1 /\ i - 1 \in Carries(r, K, id)
    <2>1. i \in 1..Len(q) <=> i = 1 \/ (i \in Nat /\ i > 1 /\ i - 1 \in 1..Len(r))
      BY <1>1
    <2>2. ASSUME i \in Nat, i > 1, i - 1 \in 1..Len(r) PROVE r[i - 1] = q[i]
      BY <1>1, <2>2
    <2> QED
      BY <1>1, <2>1, <2>2, CarriesAt
  <1>3. ASSUME NEW K, NEW j \in Carries(r, K, id)
        PROVE  j \in Nat /\ j > 0 /\ j + 1 \in Carries(q, K, id)
    <2>1. j \in Nat /\ j > 0
      BY <1>1, <1>3, CarriesAt
    <2>2. (j + 1) - 1 = j /\ j + 1 \in Nat /\ j + 1 > 1
      BY <2>1
    <2> QED
      BY <1>2, <1>3, <2>1, <2>2
  <1>4. Has(q, kinds, id) <=> Has(r, kinds, id) \/ (Head(q).kind \in kinds /\ Head(q).id = id)
    BY <1>2, <1>3 DEF Has
  <1>5. Once(q, kinds, id) /\ Head(q).kind \in kinds /\ Head(q).id = id => ~Has(r, kinds, id)
    <2> SUFFICES ASSUME Once(q, kinds, id), Head(q).kind \in kinds, Head(q).id = id,
                        NEW j \in Carries(r, kinds, id)
                 PROVE  FALSE
      BY DEF Has
    <2>1. j \in Nat /\ j > 0 /\ j + 1 \in Carries(q, kinds, id)
      BY <1>3
    <2>2. 1 \in Carries(q, kinds, id)
      BY <1>2
    <2>3. j + 1 = 1
      BY <2>1, <2>2 DEF Once
    <2> QED
      BY <2>1, <2>3
  <1>6. Before(q, id) /\ Head(q).kind = "cancel" /\ Head(q).id = id => ~Has(q, {"request"}, id)
    <2> SUFFICES ASSUME Before(q, id), Head(q).kind = "cancel", Head(q).id = id,
                        NEW i \in Carries(q, {"request"}, id)
                 PROVE  FALSE
      BY DEF Has
    <2>1. 1 \in Carries(q, {"cancel"}, id)
      BY <1>2
    <2>2. i \in 1..Len(q)
      BY CarriesAt
    <2>3. i < 1
      BY <2>1 DEF Before
    <2> QED
      BY <1>1, <2>2, <2>3
  <1> QED
    BY <1>4, <1>5, <1>6 DEF r

----------------------------------------------------------------------------
(* What is between a caller and the end it calls: the messages that are queued *)
(* or on their way to either, the calls that wait, the requests in hand, the   *)
(* caller's next id, and whether both ends are open.                          *)

(* A request is sent once and goes from its way into the handler's hands and   *)
(* from there into a reply; its cancellation follows it.                      *)
Clear(asked, told, waits, hand, next, id) ==
    /\ Has(asked, {"request"}, id) => id < next /\ id \notin hand /\ ~Has(told, Replies, id)
    /\ Has(asked, {"cancel"}, id) => id < next /\ id \notin waits
    /\ Has(told, Replies, id) => id < next /\ id \notin hand
    /\ id \in hand => id < next
    /\ Once(asked, {"request"}, id) /\ Once(told, Replies, id) /\ Before(asked, id)

(* A call that waits is on one of these three, and a handler at work is waited *)
(* for or will be told.                                                      *)
Awaited(asked, told, waits, hand, id) ==
    /\ id \in waits => id \in hand \/ Has(asked, {"request"}, id) \/ Has(told, Replies, id)
    /\ id \in hand \/ Has(asked, {"request"}, id) => id \in waits \/ Has(asked, {"cancel"}, id)

Exchange(asked, told, waits, hand, next, both) ==
    \A id \in Id : /\ Clear(asked, told, waits, hand, next, id)
                   /\ both => Awaited(asked, told, waits, hand, id)

(* Calls and requests are forgotten and messages are lost when an end closes. *)
LEMMA ExchangeShrinks ==
    ASSUME NEW asked \in Seq(Letter), NEW told \in Seq(Letter), NEW waits, NEW hand,
           NEW next \in Nat, NEW both, Exchange(asked, told, waits, hand, next, both),
           NEW asked2 \in Seq(Letter), Shifted(asked2, asked),
           NEW told2 \in Seq(Letter), Shifted(told2, told),
           NEW waits2, waits2 \subseteq waits, NEW hand2, hand2 \subseteq hand,
           NEW next2 \in Nat, next2 >= next
    PROVE  Exchange(asked2, told2, waits2, hand2, next2, FALSE)
  <1> SUFFICES ASSUME NEW id \in Id
               PROVE  Clear(asked2, told2, waits2, hand2, next2, id)
    BY DEF Exchange
  <1>1. id \in Nat
    BY BoundsAssumption DEF Id
  <1>2. Clear(asked, told, waits, hand, next, id)
    BY DEF Exchange
  <1>3. /\ Has(asked2, {"request"}, id) => Has(asked, {"request"}, id)
        /\ Has(asked2, {"cancel"}, id) => Has(asked, {"cancel"}, id)
        /\ Has(told2, Replies, id) => Has(told, Replies, id)
        /\ Once(asked, {"request"}, id) => Once(asked2, {"request"}, id)
        /\ Once(told, Replies, id) => Once(told2, Replies, id)
        /\ Before(asked, id) => Before(asked2, id)
    BY CarriedByRest
  <1> QED
    BY <1>1, <1>2, <1>3 DEF Clear

(* A call is refused before it is sent. *)
LEMMA ExchangeNumbers ==
    ASSUME NEW asked, NEW told, NEW waits, NEW hand, NEW next \in Nat, NEW both,
           Exchange(asked, told, waits, hand, next, both)
    PROVE  Exchange(asked, told, waits, hand, next + 1, both)
  <1> SUFFICES ASSUME NEW id \in Id
               PROVE  /\ Clear(asked, told, waits, hand, next + 1, id)
                      /\ both => Awaited(asked, told, waits, hand, id)
    BY DEF Exchange
  <1>1. id \in Nat
    BY BoundsAssumption DEF Id
  <1>2. id < next => id < next + 1
    BY <1>1
  <1> QED
    BY <1>2 DEF Exchange, Clear

LEMMA ExchangeAsks ==
    ASSUME NEW asked \in Seq(Letter), NEW told, NEW waits, NEW hand, NEW next \in Id,
           NEW both, Exchange(asked, told, waits, hand, next, both)
    PROVE  Exchange(Append(asked, Msg("request", next)), told, waits \cup {next}, hand,
                    next + 1, both)
  <1> DEFINE m == Msg("request", next)
             longer == Append(asked, m)
  <1> SUFFICES ASSUME NEW id \in Id
               PROVE  /\ Clear(longer, told, waits \cup {next}, hand, next + 1, id)
                      /\ both => Awaited(longer, told, waits \cup {next}, hand, id)
    BY DEF Exchange
  <1>1. id \in Nat /\ next \in Nat
    BY BoundsAssumption DEF Id
  <1>2. /\ Clear(asked, told, waits, hand, next, id)
        /\ both => Awaited(asked, told, waits, hand, id)
    BY DEF Exchange
  <1>3. m \in Letter /\ m.kind = "request" /\ m.id = next
    BY <1>1, MsgIsALetter DEF Kinds, Msg
  <1> HIDE DEF m
  <1>4. /\ Has(longer, {"request"}, id) <=> Has(asked, {"request"}, id) \/ next = id
        /\ Has(longer, {"cancel"}, id) <=> Has(asked, {"cancel"}, id)
        /\ Once(asked, {"request"}, id) /\ (Has(asked, {"request"}, id) => next # id)
               => Once(longer, {"request"}, id)
        /\ Before(asked, id) /\ (Has(asked, {"cancel"}, id) => next # id)
               => Before(longer, id)
    BY <1>3, CarriedByLonger
  <1> HIDE DEF longer
  <1>5. ~(id < id) /\ (id < next => id < next + 1) /\ id < id + 1
    BY <1>1
  <1> QED
    BY <1>2, <1>4, <1>5 DEF Clear, Awaited

(* A call is given up; the peer is told. *)
LEMMA ExchangeCancels ==
    ASSUME NEW asked \in Seq(Letter), NEW told, NEW waits, NEW hand, NEW next \in Nat,
           NEW both, Exchange(asked, told, waits, hand, next, both),
           NEW call \in Id, call < next
    PROVE  Exchange(Append(asked, Msg("cancel", call)), told, waits \ {call}, hand, next, both)
  <1> DEFINE m == Msg("cancel", call)
             longer == Append(asked, m)
  <1> SUFFICES ASSUME NEW id \in Id
               PROVE  /\ Clear(longer, told, waits \ {call}, hand, next, id)
                      /\ both => Awaited(longer, told, waits \ {call}, hand, id)
    BY DEF Exchange
  <1>2. /\ Clear(asked, told, waits, hand, next, id)
        /\ both => Awaited(asked, told, waits, hand, id)
    BY DEF Exchange
  <1>3. m \in Letter /\ m.kind = "cancel" /\ m.id = call
    BY MsgIsALetter, BoundsAssumption DEF Kinds, Msg, Id
  <1> HIDE DEF m
  <1>4. /\ Has(longer, {"request"}, id) <=> Has(asked, {"request"}, id)
        /\ Has(longer, {"cancel"}, id) <=> Has(asked, {"cancel"}, id) \/ call = id
        /\ Once(asked, {"request"}, id) => Once(longer, {"request"}, id)
        /\ Before(asked, id) => Before(longer, id)
    BY <1>3, CarriedByLonger
  <1> HIDE DEF longer
  <1> QED
    BY <1>2, <1>4 DEF Clear, Awaited

(* A request in hand is answered. *)
LEMMA ExchangeReplies ==
    ASSUME NEW asked, NEW told \in Seq(Letter), NEW waits, NEW hand, NEW next \in Nat,
           NEW both, Exchange(asked, told, waits, hand, next, both),
           NEW call \in Id, call \in hand, NEW kind \in Replies
    PROVE  Exchange(asked, Append(told, Msg(kind, call)), waits, hand \ {call}, next, both)
  <1> DEFINE m == Msg(kind, call)
             longer == Append(told, m)
  <1> SUFFICES ASSUME NEW id \in Id
               PROVE  /\ Clear(asked, longer, waits, hand \ {call}, next, id)
                      /\ both => Awaited(asked, longer, waits, hand \ {call}, id)
    BY DEF Exchange
  <1>2. /\ Clear(asked, told, waits, hand, next, id)
        /\ both => Awaited(asked, told, waits, hand, id)
    BY DEF Exchange
  <1>3. m \in Letter /\ m.kind \in Replies /\ m.id = call
    BY MsgIsALetter, BoundsAssumption DEF Kinds, Msg, Id, Replies
  <1> HIDE DEF m
  <1>4. /\ Has(longer, Replies, id) <=> Has(told, Replies, id) \/ call = id
        /\ Once(told, Replies, id) /\ (Has(told, Replies, id) => call # id)
               => Once(longer, Replies, id)
    BY <1>3, CarriedByLonger
  <1> HIDE DEF longer
  <1> QED
    BY <1>2, <1>4 DEF Clear, Awaited

(* What is said in the other direction does not matter. *)
LEMMA ExchangeIgnores ==
    ASSUME NEW asked \in Seq(Letter), NEW told \in Seq(Letter), NEW waits, NEW hand,
           NEW next, NEW both, Exchange(asked, told, waits, hand, next, both), NEW m \in Letter
    PROVE  /\ m.kind \notin {"request", "cancel"} =>
                  Exchange(Append(asked, m), told, waits, hand, next, both)
           /\ m.kind \notin Replies =>
                  Exchange(asked, Append(told, m), waits, hand, next, both)
  <1>1. ASSUME NEW id \in Id
        PROVE  /\ Clear(asked, told, waits, hand, next, id)
               /\ both => Awaited(asked, told, waits, hand, id)
    BY DEF Exchange
  <1>2. ASSUME NEW id \in Id, m.kind \notin {"request", "cancel"}
        PROVE  /\ Clear(Append(asked, m), told, waits, hand, next, id)
               /\ both => Awaited(Append(asked, m), told, waits, hand, id)
    <2>1. /\ Has(Append(asked, m), {"request"}, id) <=> Has(asked, {"request"}, id)
          /\ Has(Append(asked, m), {"cancel"}, id) <=> Has(asked, {"cancel"}, id)
          /\ Once(asked, {"request"}, id) => Once(Append(asked, m), {"request"}, id)
          /\ Before(asked, id) => Before(Append(asked, m), id)
      BY <1>2, CarriedByLonger
    <2> QED
      BY <1>1, <2>1 DEF Clear, Awaited
  <1>3. ASSUME NEW id \in Id, m.kind \notin Replies
        PROVE  /\ Clear(asked, Append(told, m), waits, hand, next, id)
               /\ both => Awaited(asked, Append(told, m), waits, hand, id)
    <2>1. /\ Has(Append(told, m), Replies, id) <=> Has(told, Replies, id)
          /\ Once(told, Replies, id) => Once(Append(told, m), Replies, id)
      BY <1>3, CarriedByLonger
    <2> QED
      BY <1>1, <2>1 DEF Clear, Awaited
  <1> QED
    BY <1>2, <1>3 DEF Exchange

----------------------------------------------------------------------------
(* The first message is taken.                                               *)

LEMMA TailIsShifted ==
    ASSUME NEW q \in Seq(Letter), q # << >>
    PROVE  Tail(q) \in Seq(Letter) /\ Shifted(Tail(q), q)
  <1>1. /\ Tail(q) \in Seq(Letter) /\ Len(Tail(q)) = Len(q) - 1
        /\ \A i \in 1..Len(Tail(q)) : Tail(q)[i] = q[i + 1]
        /\ Len(q) \in Nat
    BY HeadTailProperties, LenProperties
  <1> QED
    BY <1>1 DEF Shifted

LEMMA ExchangeSkips ==
    ASSUME NEW asked \in Seq(Letter), NEW told \in Seq(Letter), NEW waits, NEW hand,
           NEW next, NEW both, Exchange(asked, told, waits, hand, next, both)
    PROVE  /\ asked # << >> /\ Head(asked).kind \notin {"request", "cancel"} =>
                  Exchange(Tail(asked), told, waits, hand, next, both)
           /\ told # << >> /\ Head(told).kind \notin Replies =>
                  Exchange(asked, Tail(told), waits, hand, next, both)
  <1>1. ASSUME NEW id \in Id
        PROVE  /\ Clear(asked, told, waits, hand, next, id)
               /\ both => Awaited(asked, told, waits, hand, id)
    BY DEF Exchange
  <1>2. ASSUME NEW id \in Id, asked # << >>, Head(asked).kind \notin {"request", "cancel"}
        PROVE  /\ Clear(Tail(asked), told, waits, hand, next, id)
               /\ both => Awaited(Tail(asked), told, waits, hand, id)
    <2>1. /\ Has(Tail(asked), {"request"}, id) <=> Has(asked, {"request"}, id)
          /\ Has(Tail(asked), {"cancel"}, id) <=> Has(asked, {"cancel"}, id)
      BY <1>2, CarriedByTail
    <2>2. /\ Once(asked, {"request"}, id) => Once(Tail(asked), {"request"}, id)
          /\ Before(asked, id) => Before(Tail(asked), id)
      BY <1>2, CarriedByRest, TailIsShifted
    <2> QED
      BY <1>1, <2>1, <2>2 DEF Clear, Awaited
  <1>3. ASSUME NEW id \in Id, told # << >>, Head(told).kind \notin Replies
        PROVE  /\ Clear(asked, Tail(told), waits, hand, next, id)
               /\ both => Awaited(asked, Tail(told), waits, hand, id)
    <2>1. Has(Tail(told), Replies, id) <=> Has(told, Replies, id)
      BY <1>3, CarriedByTail
    <2>2. Once(told, Replies, id) => Once(Tail(told), Replies, id)
      BY <1>3, CarriedByRest, TailIsShifted
    <2> QED
      BY <1>1, <2>1, <2>2 DEF Clear, Awaited
  <1> QED
    BY <1>2, <1>3 DEF Exchange

(* A reply arrives: nobody waits for it any more. *)
LEMMA ExchangeAnswers ==
    ASSUME NEW asked \in Seq(Letter), NEW told \in Seq(Letter), NEW waits, NEW hand,
           NEW next, NEW both, Exchange(asked, told, waits, hand, next, both),
           told # << >>, Head(told).kind \in Replies
    PROVE  Exchange(asked, Tail(told), waits \ {Head(told).id}, hand, next, both)
  <1> DEFINE call == Head(told).id
  <1> SUFFICES ASSUME NEW id \in Id
               PROVE  /\ Clear(asked, Tail(told), waits \ {call}, hand, next, id)
                      /\ both => Awaited(asked, Tail(told), waits \ {call}, hand, id)
    BY DEF Exchange
  <1>1. /\ Clear(asked, told, waits, hand, next, id)
        /\ both => Awaited(asked, told, waits, hand, id)
    BY DEF Exchange
  <1>2. Has(told, Replies, id) <=> Has(Tail(told), Replies, id) \/ call = id
    BY CarriedByTail
  <1>3. Once(told, Replies, id) => Once(Tail(told), Replies, id)
    BY CarriedByRest, TailIsShifted
  <1> HIDE DEF call
  <1> QED
    BY <1>1, <1>2, <1>3 DEF Clear, Awaited

(* A cancellation arrives: the handler's work is forgotten. *)
LEMMA ExchangeForgets ==
    ASSUME NEW asked \in Seq(Letter), NEW told \in Seq(Letter), NEW waits, NEW hand,
           NEW next, NEW both, Exchange(asked, told, waits, hand, next, both),
           asked # << >>, Head(asked).kind = "cancel"
    PROVE  Exchange(Tail(asked), told, waits, hand \ {Head(asked).id}, next, both)
  <1> DEFINE call == Head(asked).id
  <1> SUFFICES ASSUME NEW id \in Id
               PROVE  /\ Clear(Tail(asked), told, waits, hand \ {call}, next, id)
                      /\ both => Awaited(Tail(asked), told, waits, hand \ {call}, id)
    BY DEF Exchange
  <1>1. /\ Clear(asked, told, waits, hand, next, id)
        /\ both => Awaited(asked, told, waits, hand, id)
    BY DEF Exchange
  <1>2. /\ Has(asked, {"request"}, id) <=> Has(Tail(asked), {"request"}, id)
        /\ Has(asked, {"cancel"}, id) <=> Has(Tail(asked), {"cancel"}, id) \/ call = id
        /\ Before(asked, id) /\ call = id => ~Has(asked, {"request"}, id)
    BY CarriedByTail
  <1>3. /\ Once(asked, {"request"}, id) => Once(Tail(asked), {"request"}, id)
        /\ Before(asked, id) => Before(Tail(asked), id)
    BY CarriedByRest, TailIsShifted
  <1> HIDE DEF call
  <1> QED
    BY <1>1, <1>2, <1>3 DEF Clear, Awaited

(* A request arrives, and is refused or taken in hand. *)
LEMMA ExchangeMeets ==
    ASSUME NEW asked \in Seq(Letter), NEW told \in Seq(Letter), NEW waits, NEW hand,
           NEW next, NEW both, Exchange(asked, told, waits, hand, next, both),
           asked # << >>, Head(asked).kind = "request"
    PROVE  LET call == Head(asked).id
           IN  /\ Exchange(Tail(asked), told, waits, hand \cup {call}, next, both)
               /\ Exchange(Tail(asked), Append(told, Msg("refused", call)), waits, hand,
                           next, both)
  <1> DEFINE call == Head(asked).id
             m == Msg("refused", call)
             longer == Append(told, m)
  <1> SUFFICES ASSUME NEW id \in Id
               PROVE  /\ Clear(Tail(asked), told, waits, hand \cup {call}, next, id)
                      /\ both => Awaited(Tail(asked), told, waits, hand \cup {call}, id)
                      /\ Clear(Tail(asked), longer, waits, hand, next, id)
                      /\ both => Awaited(Tail(asked), longer, waits, hand, id)
    BY DEF Exchange
  <1>1. /\ Clear(asked, told, waits, hand, next, id)
        /\ both => Awaited(asked, told, waits, hand, id)
    BY DEF Exchange
  <1>2. /\ Has(asked, {"request"}, id) <=> Has(Tail(asked), {"request"}, id) \/ call = id
        /\ Has(asked, {"cancel"}, id) <=> Has(Tail(asked), {"cancel"}, id)
        /\ Once(asked, {"request"}, id) /\ call = id => ~Has(Tail(asked), {"request"}, id)
    BY CarriedByTail
  <1>3. /\ Once(asked, {"request"}, id) => Once(Tail(asked), {"request"}, id)
        /\ Before(asked, id) => Before(Tail(asked), id)
    BY CarriedByRest, TailIsShifted
  <1>4. Head(asked) \in Letter
    BY HeadTailProperties
  <1>5. call \in Id /\ call \in Nat
    BY <1>4, BoundsAssumption DEF Letter, Id
  <1>6. m \in Letter /\ m.kind = "refused" /\ m.id = call
    BY <1>5, MsgIsALetter DEF Kinds, Msg
  <1> HIDE DEF call, m
  <1>7. "refused" \in Replies
    BY DEF Replies
  <1>8. /\ Has(longer, Replies, id) <=> Has(told, Replies, id) \/ call = id
        /\ Once(told, Replies, id) /\ (Has(told, Replies, id) => call # id)
               => Once(longer, Replies, id)
    BY <1>6, <1>7, CarriedByLonger
  <1> HIDE DEF longer
  <1> QED
    BY <1>1, <1>2, <1>3, <1>8 DEF Clear, Awaited

----------------------------------------------------------------------------
(* The inductive invariant.                                                  *)

BothOpen == \A s \in Side : conn[s].open

(* All that is queued for an end, or on its way to it. *)
Toward(s) == channel[s] \o conn[Peer(s)].outgoing

Delivers ==
    /\ Honest
    /\ \A s \in Side : open[s] = conn[s].open
    /\ faults = 0 => \A s \in Side :
           Exchange(Toward(s), Toward(Peer(s)), conn[Peer(s)].pending, conn[s].active,
                    conn[Peer(s)].nextId, BothOpen)

(* Both exchanges of an end, whose connection is c, with its peer. *)
Between(s, c, incoming, sent, both) ==
    /\ Exchange(incoming, sent, conn[Peer(s)].pending, c.active, conn[Peer(s)].nextId, both)
    /\ Exchange(sent, incoming, c.pending, conn[Peer(s)].active, c.nextId, both)

LEMMA DeliversBetween ==
    ASSUME Delivers, faults = 0, NEW s \in Side
    PROVE  Between(s, conn[s], Toward(s), Toward(Peer(s)), BothOpen)
  BY PeerIsASide DEF Delivers, Between

LEMMA QueuesOfLetters ==
    ASSUME Honest, NEW s \in Side
    PROVE  /\ Toward(s) \in Seq(Letter) /\ channel \in [Side -> Seq(Letter)]
           /\ ConnectionOK(s, conn[s]) /\ conn[s] \in Connection
           /\ conn[s].outgoing \in Seq(Letter) /\ conn \in [Side -> Connection]
           /\ conn[Peer(s)].outgoing \in Seq(Letter) /\ conn[Peer(s)].nextId \in Nat
           /\ open \in [Side -> BOOLEAN] /\ faults \in Nat
           /\ conn[s].nextId \in Nat
  <1>1. Peer(s) \in Side
    BY PeerIsASide
  <1>2. /\ channel \in [Side -> Seq(Letter)] /\ conn \in [Side -> Connection]
        /\ open \in [Side -> BOOLEAN] /\ faults \in Nat
        /\ \A t \in Side : ConnectionOK(t, conn[t])
    BY DEF Honest, InOrder, TypeOK
  <1>3. \A t \in Side : /\ conn[t] \in Connection /\ conn[t].outgoing \in Seq(Letter)
                        /\ conn[t].nextId \in Nat
    BY <1>2 DEF ConnectionOK, Connection
  <1>4. Toward(s) \in Seq(Letter)
    BY <1>1, <1>2, <1>3, ConcatProperties DEF Toward
  <1> QED
    BY <1>1, <1>2, <1>3, <1>4

(* What an end does shows in its own queue and in the two channels. *)
LEMMA BetweenDelivers ==
    ASSUME Delivers, Honest', NEW s \in Side, NEW d, NEW both,
           conn' = [conn EXCEPT ![s] = d],
           \A t \in Side : open'[t] = conn'[t].open,
           BothOpen' => both,
           faults' = 0 => Between(s, d, channel'[s] \o conn[Peer(s)].outgoing,
                                  channel'[Peer(s)] \o d.outgoing, both)
    PROVE  Delivers'
  <1> DEFINE p == Peer(s)
  <1>1. p \in Side /\ p # s /\ Peer(p) = s /\ Side = {s, p}
    BY PeerIsASide DEF Side, Peer
  <1>2. conn'[s] = d /\ conn'[p] = conn[p]
    BY <1>1 DEF Delivers, Honest, InOrder, TypeOK
  <1>3. Toward(s)' = channel'[s] \o conn[p].outgoing /\ Toward(p)' = channel'[p] \o d.outgoing
    BY <1>1, <1>2 DEF Toward
  <1>4. ASSUME faults' = 0, NEW t \in Side
        PROVE  Exchange(Toward(t)', Toward(Peer(t))', conn'[Peer(t)].pending,
                        conn'[t].active, conn'[Peer(t)].nextId, BothOpen')
    <2>1. Between(s, d, Toward(s)', Toward(p)', both)
      BY <1>3, <1>4
    <2>2. Exchange(Toward(t)', Toward(Peer(t))', conn'[Peer(t)].pending,
                   conn'[t].active, conn'[Peer(t)].nextId, both)
      <3>1. CASE t = s
        BY <1>1, <1>2, <2>1, <3>1 DEF Between
      <3>2. CASE t = p
        BY <1>1, <1>2, <2>1, <3>2 DEF Between
      <3> QED
        BY <1>1, <3>1, <3>2
    <2> QED
      BY <2>2 DEF Exchange
  <1> QED
    BY <1>4 DEF Delivers

----------------------------------------------------------------------------
(* How an operation ends, before it is known what it does. *)

(* It has only taken the first message, or none, and forgotten calls and       *)
(* requests.                                                                *)
Less(s, c, flow) ==
    /\ c.open = conn[s].open /\ c.outgoing = conn[s].outgoing /\ c.nextId = conn[s].nextId
    /\ c.pending \subseteq conn[s].pending /\ c.active \subseteq conn[s].active
    /\ flow = channel \/ (channel[s] # << >> /\ flow = Rest(s))

Arriving(s, flow) == flow[s] \o conn[Peer(s)].outgoing

LEMMA RestOfToward ==
    ASSUME Honest, NEW s \in Side, channel[s] # << >>
    PROVE  /\ Arriving(s, Rest(s)) = Tail(Toward(s)) /\ Toward(s) # << >>
           /\ Head(Toward(s)) = Head(channel[s])
           /\ Rest(s)[s] = Tail(channel[s]) /\ Rest(s)[Peer(s)] = channel[Peer(s)]
           /\ Rest(s) \in [Side -> Seq(Letter)]
  <1> DEFINE q == channel[s]
             r == conn[Peer(s)].outgoing
  <1>1. q \in Seq(Letter) /\ r \in Seq(Letter) /\ q # << >>
        /\ channel \in [Side -> Seq(Letter)]
    BY QueuesOfLetters
  <1>2. /\ Tail(q) \in Seq(Letter) /\ Len(Tail(q)) = Len(q) - 1 /\ Head(q) = q[1]
        /\ \A i \in 1..Len(Tail(q)) : Tail(q)[i] = q[i + 1]
        /\ Len(q) \in Nat \ {0} /\ Len(r) \in Nat
    BY <1>1, HeadTailProperties, EmptySeq, LenProperties
  <1>3. Rest(s)[s] = Tail(q) /\ Rest(s)[Peer(s)] = channel[Peer(s)]
        /\ Rest(s) \in [Side -> Seq(Letter)]
    BY <1>1, <1>2, PeerIsASide DEF Rest
  <1> HIDE DEF q, r
  <1>4. /\ q \o r \in Seq(Letter) /\ Len(q \o r) = Len(q) + Len(r)
        /\ \A i \in 1..Len(q) + Len(r) :
               (q \o r)[i] = IF i <= Len(q) THEN q[i] ELSE r[i - Len(q)]
    BY <1>1, ConcatProperties
  <1>5. /\ Tail(q) \o r \in Seq(Letter) /\ Len(Tail(q) \o r) = Len(q) - 1 + Len(r)
        /\ \A i \in 1..Len(q) - 1 + Len(r) :
               (Tail(q) \o r)[i] = IF i <= Len(q) - 1 THEN Tail(q)[i] ELSE r[i - (Len(q) - 1)]
    BY <1>1, <1>2, ConcatProperties
  <1>6. q \o r # << >>
    BY <1>2, <1>4, EmptySeq
  <1>7. /\ Tail(q \o r) \in Seq(Letter) /\ Len(Tail(q \o r)) = Len(q) + Len(r) - 1
        /\ \A i \in 1..Len(q) + Len(r) - 1 : Tail(q \o r)[i] = (q \o r)[i + 1]
        /\ Head(q \o r) = (q \o r)[1]
    BY <1>4, <1>6, HeadTailProperties
  <1>8. Head(q \o r) = Head(q)
    BY <1>2, <1>4, <1>7
  <1>9. ASSUME NEW i \in 1..Len(q) - 1 + Len(r)
        PROVE  (Tail(q) \o r)[i] = Tail(q \o r)[i]
    <2>1. i + 1 \in 1..Len(q) + Len(r) /\ i \in 1..Len(q) + Len(r) - 1
      BY <1>2
    <2>2. CASE i <= Len(q) - 1
      BY <1>2, <1>4, <1>5, <1>7, <2>1, <2>2
    <2>3. CASE ~(i <= Len(q) - 1)
      <3>1. i - (Len(q) - 1) = (i + 1) - Len(q) /\ ~(i + 1 <= Len(q))
        BY <1>2, <2>3
      <3> QED
        BY <1>4, <1>5, <1>7, <2>1, <2>3, <3>1
    <2> QED
      BY <2>2, <2>3
  <1>10. Tail(q) \o r = Tail(q \o r)
    BY <1>2, <1>5, <1>7, <1>9, SeqEqual
  <1> QED
    BY <1>3, <1>6, <1>8, <1>10 DEF Arriving, Toward, q, r

LEMMA LessArrives ==
    ASSUME Honest, NEW s \in Side, NEW c, NEW flow, Less(s, c, flow)
    PROVE  /\ Arriving(s, flow) \in Seq(Letter) /\ Shifted(Arriving(s, flow), Toward(s))
           /\ flow[Peer(s)] = channel[Peer(s)] /\ flow \in [Side -> Seq(Letter)]
           /\ flow[s] \in Seq(Letter)
  <1>1. Toward(s) \in Seq(Letter) /\ channel \in [Side -> Seq(Letter)]
    BY QueuesOfLetters
  <1>2. CASE flow = channel
    <2>1. Shifted(Toward(s), Toward(s))
      <3>1. Len(Toward(s)) \in Nat
        BY <1>1, LenProperties
      <3>2. 0 \in Nat /\ Len(Toward(s)) = Len(Toward(s)) + 0
            /\ \A i \in 1..Len(Toward(s)) : Toward(s)[i] = Toward(s)[i + 0]
        BY <3>1
      <3> QED
        BY <3>2 DEF Shifted
    <2> QED
      BY <1>1, <1>2, <2>1 DEF Arriving, Toward
  <1>3. CASE channel[s] # << >> /\ flow = Rest(s)
    BY <1>1, <1>3, RestOfToward, TailIsShifted
  <1> QED
    BY <1>2, <1>3 DEF Less

(* When an end is not open, little is promised. *)
LEMMA LessBetween ==
    ASSUME Delivers, faults = 0, NEW s \in Side, NEW c, NEW flow, Less(s, c, flow)
    PROVE  Between(s, c, Arriving(s, flow), Toward(Peer(s)), FALSE)
  <1>1. Peer(s) \in Side
    BY PeerIsASide
  <1>2. Honest
    BY DEF Delivers
  <1>3. /\ Toward(s) \in Seq(Letter) /\ Toward(Peer(s)) \in Seq(Letter)
        /\ conn[Peer(s)].nextId \in Nat /\ conn[s].nextId \in Nat
    BY <1>1, <1>2, QueuesOfLetters
  <1>4. Arriving(s, flow) \in Seq(Letter) /\ Shifted(Arriving(s, flow), Toward(s))
    BY <1>2, LessArrives
  <1>5. Shifted(Toward(Peer(s)), Toward(Peer(s)))
    <2> DEFINE q == Toward(Peer(s))
    <2>1. Len(q) \in Nat
      BY <1>3, LenProperties
    <2> HIDE DEF q
    <2>2. 0 \in Nat /\ Len(q) = Len(q) + 0 /\ \A i \in 1..Len(q) : q[i] = q[i + 0]
      BY <2>1
    <2> QED
      BY <2>2 DEF Shifted, q
  <1>6. Between(s, conn[s], Toward(s), Toward(Peer(s)), BothOpen)
    BY DeliversBetween
  <1>7. /\ c.pending \subseteq conn[s].pending /\ c.active \subseteq conn[s].active
        /\ c.nextId = conn[s].nextId /\ conn[Peer(s)].nextId >= conn[Peer(s)].nextId
        /\ conn[s].nextId >= conn[s].nextId
        /\ conn[Peer(s)].pending \subseteq conn[Peer(s)].pending
        /\ conn[Peer(s)].active \subseteq conn[Peer(s)].active
    BY <1>3 DEF Less
  <1>8. Exchange(Arriving(s, flow), Toward(Peer(s)), conn[Peer(s)].pending, c.active,
                 conn[Peer(s)].nextId, FALSE)
    BY <1>3, <1>4, <1>5, <1>6, <1>7, ExchangeShrinks DEF Between
  <1>9. Exchange(Toward(Peer(s)), Arriving(s, flow), c.pending, conn[Peer(s)].active,
                 c.nextId, FALSE)
    BY <1>3, <1>4, <1>5, <1>6, <1>7, ExchangeShrinks DEF Between
  <1> QED
    BY <1>8, <1>9 DEF Between

LEMMA KeptDelivers ==
    ASSUME Delivers, Honest', NEW s \in Side, NEW c, NEW known, Kept(s, c, known),
           c.open = conn[s].open, NEW both, BothOpen => both,
           faults' = 0 => Between(s, c, channel'[s] \o conn[Peer(s)].outgoing,
                                  channel'[Peer(s)] \o c.outgoing, both)
    PROVE  Delivers'
  <1>1. conn' = [conn EXCEPT ![s] = c] /\ open' = open
    BY DEF Kept
  <1>2. conn \in [Side -> Connection] /\ \A t \in Side : open[t] = conn[t].open
    BY DEF Delivers, Honest, InOrder, TypeOK
  <1>3. \A t \in Side : conn'[t].open = conn[t].open
    BY <1>1, <1>2
  <1>4. \A t \in Side : open'[t] = conn'[t].open
    BY <1>1, <1>2, <1>3
  <1>5. BothOpen' => both
    BY <1>3 DEF BothOpen
  <1> QED
    BY <1>1, <1>4, <1>5, BetweenDelivers

LEMMA UnsentDelivers ==
    ASSUME Delivers, Honest', NEW s \in Side, NEW c, NEW known, NEW flow,
           Unsent(s, c, known, flow),
           c.open = conn[s].open, c.outgoing = conn[s].outgoing,
           flow[Peer(s)] = channel[Peer(s)], NEW both, BothOpen => both,
           faults = 0 => Between(s, c, Arriving(s, flow), Toward(Peer(s)), both)
    PROVE  Delivers'
  <1>1. Kept(s, c, known) /\ channel' = flow /\ faults' = faults
    BY DEF Unsent
  <1>2. Toward(Peer(s)) = channel'[Peer(s)] \o c.outgoing
    BY <1>1, PeerIsASide DEF Toward
  <1>3. Arriving(s, flow) = channel'[s] \o conn[Peer(s)].outgoing
    BY <1>1 DEF Arriving
  <1> QED
    BY <1>1, <1>2, <1>3, KeptDelivers

LEMMA AcceptDelivers ==
    ASSUME Delivers, Honest', NEW s \in Side, NEW c, NEW known, NEW m \in Letter,
           NEW flow \in [Side -> Seq(Letter)], Accept(s, flow, m), Kept(s, c, known),
           c.open = conn[s].open, c.outgoing = conn[s].outgoing, c.outgoing = << >>,
           flow[Peer(s)] = channel[Peer(s)],
           faults = 0 => Between(s, c, Arriving(s, flow), Append(Toward(Peer(s)), m), BothOpen)
    PROVE  Delivers'
  <1> DEFINE p == Peer(s)
  <1>1. p \in Side /\ p # s /\ Peer(p) = s
    BY PeerIsASide
  <1>2. channel[p] \in Seq(Letter) /\ faults \in Nat
    BY <1>1, QueuesOfLetters DEF Delivers
  <1>3. ASSUME faults' = 0
        PROVE  Between(s, c, channel'[s] \o conn[p].outgoing, channel'[p] \o c.outgoing,
                       BothOpen)
    <2>1. channel' = [flow EXCEPT ![p] = Append(@, m)] /\ faults = 0
      BY <1>2, <1>3 DEF Accept
    <2>2. channel'[s] = flow[s] /\ channel'[p] = Append(channel[p], m)
      BY <1>1, <2>1
    <2>3. Toward(p) = channel[p]
      BY <1>1, <1>2, ConcatEmptySeq DEF Toward
    <2>4. Append(channel[p], m) \in Seq(Letter)
      BY <1>2, AppendProperties
    <2>5. channel'[p] \o c.outgoing = Append(Toward(p), m)
      BY <2>2, <2>3, <2>4, ConcatEmptySeq
    <2> QED
      BY <2>1, <2>2, <2>5 DEF Arriving
  <1> QED
    BY <1>3, KeptDelivers

LEMMA ConcatAppended ==
    ASSUME NEW q \in Seq(Letter), NEW r \in Seq(Letter), NEW m \in Letter
    PROVE  q \o Append(r, m) = Append(q \o r, m)
  <1>1. /\ Append(r, m) \in Seq(Letter) /\ Len(Append(r, m)) = Len(r) + 1
        /\ Append(r, m)[Len(r) + 1] = m
        /\ \A i \in 1..Len(r) : Append(r, m)[i] = r[i]
        /\ Len(q) \in Nat /\ Len(r) \in Nat
    BY AppendProperties, LenProperties
  <1>2. /\ q \o r \in Seq(Letter) /\ Len(q \o r) = Len(q) + Len(r)
        /\ \A i \in 1..Len(q) + Len(r) :
               (q \o r)[i] = IF i <= Len(q) THEN q[i] ELSE r[i - Len(q)]
    BY ConcatProperties
  <1> DEFINE longer == Append(r, m)
  <1> HIDE DEF longer
  <1>3. /\ q \o longer \in Seq(Letter) /\ Len(q \o longer) = Len(q) + Len(r) + 1
        /\ \A i \in 1..Len(q) + Len(r) + 1 :
               (q \o longer)[i] = IF i <= Len(q) THEN q[i] ELSE longer[i - Len(q)]
    <2>1. longer \in Seq(Letter) /\ Len(longer) = Len(r) + 1
      BY <1>1 DEF longer
    <2>2. /\ q \o longer \in Seq(Letter) /\ Len(q \o longer) = Len(q) + Len(longer)
          /\ \A i \in 1..Len(q) + Len(longer) :
                 (q \o longer)[i] = IF i <= Len(q) THEN q[i] ELSE longer[i - Len(q)]
      BY <2>1, ConcatProperties
    <2>3. Len(q) \in Nat /\ Len(r) \in Nat
      BY <1>1
    <2>4. Len(q) + Len(longer) = Len(q) + Len(r) + 1
      BY <2>1, <2>3
    <2> QED
      BY <2>2, <2>4
  <1> DEFINE both == q \o r
  <1>4. both \in Seq(Letter) /\ Len(both) = Len(q) + Len(r)
    BY <1>2
  <1> HIDE DEF both
  <1>5. /\ Append(both, m) \in Seq(Letter) /\ Len(Append(both, m)) = Len(q) + Len(r) + 1
        /\ Append(both, m)[Len(q) + Len(r) + 1] = m
        /\ \A i \in 1..Len(q) + Len(r) : Append(both, m)[i] = both[i]
    BY <1>4, AppendProperties
  <1>6. ASSUME NEW i \in 1..Len(q) + Len(r) + 1
        PROVE  (q \o longer)[i] = Append(both, m)[i]
    <2>1. CASE i <= Len(q)
      BY <1>1, <1>2, <1>3, <1>5, <2>1 DEF both
    <2>2. CASE ~(i <= Len(q)) /\ i <= Len(q) + Len(r)
      <3>1. i - Len(q) \in 1..Len(r) /\ i \in 1..Len(q) + Len(r)
        BY <1>1, <2>2
      <3> QED
        BY <1>1, <1>2, <1>3, <1>5, <2>2, <3>1 DEF both, longer
    <2>3. CASE i = Len(q) + Len(r) + 1
      <3>1. i - Len(q) = Len(r) + 1 /\ ~(i <= Len(q))
        BY <1>1, <2>3
      <3> QED
        BY <1>1, <1>3, <1>5, <2>3, <3>1 DEF longer
    <2>4. Len(q) \in Nat /\ Len(r) \in Nat
      BY <1>1
    <2>5. i <= Len(q) \/ (~(i <= Len(q)) /\ i <= Len(q) + Len(r)) \/ i = Len(q) + Len(r) + 1
      BY <2>4
    <2> QED
      BY <2>1, <2>2, <2>3, <2>5
  <1>7. q \o longer = Append(both, m)
    BY <1>3, <1>5, <1>6, SeqEqual
  <1> QED
    BY <1>7 DEF both, longer

LEMMA QueuedDelivers ==
    ASSUME Delivers, Honest', NEW s \in Side, NEW c, ConnectionOK(s, c), NEW known,
           NEW m \in Letter, NEW flow,
           Unsent(s, [c EXCEPT !.outgoing = Append(@, m)], known, flow),
           c.open = conn[s].open, c.outgoing = conn[s].outgoing,
           flow[Peer(s)] = channel[Peer(s)],
           faults = 0 => Between(s, c, Arriving(s, flow), Append(Toward(Peer(s)), m), BothOpen)
    PROVE  Delivers'
  <1> DEFINE p == Peer(s)
             d == [c EXCEPT !.outgoing = Append(@, m)]
  <1>1. p \in Side /\ Peer(p) = s
    BY PeerIsASide
  <1>2. channel[p] \in Seq(Letter) /\ c.outgoing \in Seq(Letter)
    BY <1>1, QueuesOfLetters DEF Delivers, ConnectionOK
  <1>3. Kept(s, d, known) /\ channel' = flow /\ faults' = faults
    BY DEF Unsent
  <1>4. /\ d.open = c.open /\ d.pending = c.pending /\ d.active = c.active
        /\ d.nextId = c.nextId /\ d.outgoing = Append(c.outgoing, m)
    BY DEF ConnectionOK, Connection
  <1> HIDE DEF d
  <1>5. channel'[p] \o d.outgoing = Append(Toward(p), m)
    <2>1. Toward(p) = channel[p] \o c.outgoing
      BY <1>1 DEF Toward
    <2>2. channel'[p] = channel[p]
      BY <1>3
    <2>3. channel[p] \o Append(c.outgoing, m) = Append(channel[p] \o c.outgoing, m)
      BY <1>2, ConcatAppended
    <2> QED
      BY <1>4, <2>1, <2>2, <2>3
  <1>6. channel'[s] \o conn[p].outgoing = Arriving(s, flow)
    BY <1>3 DEF Arriving
  <1>7. faults' = 0 => Between(s, d, channel'[s] \o conn[p].outgoing,
                               channel'[p] \o d.outgoing, BothOpen)
    BY <1>3, <1>4, <1>5, <1>6 DEF Between
  <1> QED
    BY <1>3, <1>4, <1>7, KeptDelivers

LEMMA ClosedDelivers ==
    ASSUME Delivers, Honest', NEW s \in Side, NEW c, ConnectionOK(s, c), NEW known,
           c.nextId = conn[s].nextId, Closed(s, c, known)
    PROVE  Delivers'
  <1> DEFINE p == Peer(s)
  <1>1. p \in Side /\ p # s /\ Peer(p) = s /\ Side = {s, p}
    BY PeerIsASide DEF Side, Peer
  <1>2. PICK after \in AfterCallback(c) :
            conn' = [conn EXCEPT ![s] = [after EXCEPT
                        !.open = FALSE, !.outgoing = << >>,
                        !.pending = {}, !.pendingCount = 0, !.lateCalls = {},
                        !.active = {}, !.activeCount = 0, !.lateRequests = {}]]
    BY DEF Closed
  <1> DEFINE d == [after EXCEPT
                     !.open = FALSE, !.outgoing = << >>,
                     !.pending = {}, !.pendingCount = 0, !.lateCalls = {},
                     !.active = {}, !.activeCount = 0, !.lateRequests = {}]
  <1>3. ConnectionOK(s, after) /\ after.nextId = c.nextId
    BY AfterCallbackOK, ZenonT(60) DEF AfterCallback, ConnectionOK, Connection
  <1>4. /\ d.open = FALSE /\ d.outgoing = << >> /\ d.pending = {} /\ d.active = {}
        /\ d.nextId = conn[s].nextId
    BY <1>3 DEF ConnectionOK, Connection
  <1>5. conn' = [conn EXCEPT ![s] = d]
    BY <1>2
  <1> HIDE DEF d
  <1>6. /\ channel'[s] = << >> /\ channel'[p] = << >> /\ faults' = faults
        /\ open' = [open EXCEPT ![s] = FALSE]
    BY <1>1 DEF Closed
  <1>7. Honest
    BY DEF Delivers
  <1>8. /\ Toward(s) \in Seq(Letter) /\ Toward(p) \in Seq(Letter)
        /\ channel[s] \in Seq(Letter) /\ conn[p].outgoing \in Seq(Letter)
        /\ conn[s].nextId \in Nat /\ conn[p].nextId \in Nat
        /\ conn \in [Side -> Connection] /\ open \in [Side -> BOOLEAN]
    BY <1>1, <1>7, QueuesOfLetters
  <1>9. \A t \in Side : open'[t] = conn'[t].open
    BY <1>1, <1>4, <1>5, <1>6, <1>8 DEF Delivers
  <1>10. ~BothOpen'
    BY <1>4, <1>5, <1>8 DEF BothOpen
  <1>11. << >> \o conn[p].outgoing = conn[p].outgoing /\ << >> \o << >> = << >>
         /\ << >> \in Seq(Letter)
    BY <1>8, ConcatEmptySeq, EmptySeq
  <1>12. Shifted(conn[p].outgoing, Toward(s))
    <2> DEFINE r == conn[p].outgoing
               q == channel[s]
    <2>1. /\ Len(q \o r) = Len(q) + Len(r) /\ Len(q) \in Nat /\ Len(r) \in Nat
          /\ \A i \in 1..Len(q) + Len(r) :
                 (q \o r)[i] = IF i <= Len(q) THEN q[i] ELSE r[i - Len(q)]
      BY <1>8, ConcatProperties, LenProperties
    <2> HIDE DEF r, q
    <2>2. \A i \in 1..Len(r) : r[i] = (q \o r)[i + Len(q)]
      BY <2>1
    <2>3. Len(q) \in Nat /\ Len(q \o r) = Len(r) + Len(q)
      BY <2>1
    <2>4. Shifted(r, q \o r)
      BY <2>2, <2>3 DEF Shifted
    <2> QED
      BY <2>4 DEF Toward, r, q
  <1>13. Shifted(<< >>, Toward(p))
    <2> DEFINE q == Toward(p)
    <2>1. Len(q) \in Nat /\ Len(<< >>) = 0
      BY <1>8, LenProperties, EmptySeq
    <2> HIDE DEF q
    <2>2. Len(q) = Len(<< >>) + Len(q) /\ \A i \in 1..Len(<< >>) : << >>[i] = q[i + Len(q)]
      BY <2>1
    <2> QED
      BY <2>1, <2>2 DEF Shifted, q
  <1>14. ASSUME faults = 0
         PROVE  Between(s, d, conn[p].outgoing, << >>, FALSE)
    <2>1. Between(s, conn[s], Toward(s), Toward(p), BothOpen)
      BY <1>14, DeliversBetween
    <2>2. /\ conn[p].nextId >= conn[p].nextId /\ conn[s].nextId >= conn[s].nextId
          /\ conn[p].pending \subseteq conn[p].pending
          /\ conn[p].active \subseteq conn[p].active
          /\ d.pending \subseteq conn[s].pending /\ d.active \subseteq conn[s].active
      BY <1>4, <1>8
    <2>3. /\ Exchange(Toward(s), Toward(p), conn[p].pending, conn[s].active,
                      conn[p].nextId, BothOpen)
          /\ Exchange(Toward(p), Toward(s), conn[s].pending, conn[p].active,
                      conn[s].nextId, BothOpen)
      BY <2>1 DEF Between
    <2> DEFINE none == << >>
               queue == conn[p].outgoing
               waiting == conn[p].pending
               working == conn[p].active
    <2>4. /\ none \in Seq(Letter) /\ Shifted(none, Toward(p))
          /\ queue \in Seq(Letter) /\ Shifted(queue, Toward(s))
          /\ conn[s].nextId \in Nat /\ conn[s].nextId >= conn[s].nextId
          /\ conn[p].nextId \in Nat /\ conn[p].nextId >= conn[p].nextId
          /\ Toward(s) \in Seq(Letter) /\ Toward(p) \in Seq(Letter)
      BY <1>8, <1>11, <1>12, <1>13
    <2>5. /\ waiting \subseteq waiting /\ d.active \subseteq conn[s].active
          /\ Exchange(Toward(s), Toward(p), waiting, conn[s].active, conn[p].nextId, BothOpen)
      BY <2>2, <2>3
    <2>6. /\ working \subseteq working /\ d.pending \subseteq conn[s].pending
          /\ Exchange(Toward(p), Toward(s), conn[s].pending, working, conn[s].nextId, BothOpen)
      BY <2>2, <2>3
    <2> HIDE DEF none, queue, p, waiting, working
    <2>7. Exchange(queue, none, waiting, d.active, conn[p].nextId, FALSE)
      BY <2>4, <2>5, ExchangeShrinks
    <2>8. Exchange(none, queue, d.pending, working, conn[s].nextId, FALSE)
      BY <2>4, <2>6, ExchangeShrinks
    <2> QED
      BY <1>4, <2>7, <2>8 DEF Between, none, queue, p, waiting, working
  <1>15. faults' = 0 => Between(s, d, channel'[s] \o conn[Peer(s)].outgoing,
                                channel'[Peer(s)] \o d.outgoing, FALSE)
    BY <1>4, <1>6, <1>11, <1>14
  <1> HIDE DEF p
  <1> QED
    BY <1>5, <1>9, <1>10, <1>15, BetweenDelivers

LEMMA EnqueueDelivers ==
    ASSUME Delivers, Honest', NEW s \in Side, NEW c, ConnectionOK(s, c), NEW known,
           NEW flow, NEW m \in Letter, Enqueue(s, c, known, flow, m), Less(s, c, flow),
           faults = 0 => Between(s, c, Arriving(s, flow), Append(Toward(Peer(s)), m), BothOpen)
    PROVE  Delivers'
  <1>1. c.open = conn[s].open /\ c.outgoing = conn[s].outgoing /\ c.nextId = conn[s].nextId
    BY DEF Less
  <1>2. flow[Peer(s)] = channel[Peer(s)] /\ flow \in [Side -> Seq(Letter)]
    BY LessArrives DEF Delivers
  <1>3. CASE ~IsOpen(s) /\ Unsent(s, c, known, flow)
    <2>1. ~BothOpen
      BY <1>3 DEF IsOpen, TransportOpen, BothOpen, Delivers
    <2>2. BothOpen => FALSE
      BY <2>1
    <2>3. faults = 0 => Between(s, c, Arriving(s, flow), Toward(Peer(s)), FALSE)
      BY LessBetween
    <2> QED
      BY <1>1, <1>2, <1>3, <2>2, <2>3, UnsentDelivers
  <1>4. CASE c.outgoing = << >> /\ Accept(s, flow, m) /\ Kept(s, c, known)
    BY <1>1, <1>2, <1>4, AcceptDelivers
  <1>5. CASE Unsent(s, [c EXCEPT !.outgoing = Append(@, m)], known, flow)
    BY <1>1, <1>2, <1>5, QueuedDelivers
  <1>6. CASE Closed(s, c, known)
    BY <1>1, <1>6, ClosedDelivers
  <1> QED
    BY <1>3, <1>4, <1>5, <1>6 DEF Enqueue

----------------------------------------------------------------------------
(* What an operation does to the two exchanges of its end: d is the connection *)
(* it leaves.                                                               *)

LEMMA BetweenCancels ==
    ASSUME NEW s \in Side, NEW c, NEW incoming \in Seq(Letter), NEW sent \in Seq(Letter),
           NEW both, Between(s, c, incoming, sent, both), c.nextId \in Nat,
           NEW id \in Id, id < c.nextId, NEW d,
           d.nextId = c.nextId, d.pending = c.pending \ {id}, d.active = c.active
    PROVE  Between(s, d, incoming, Append(sent, Msg("cancel", id)), both)
  <1>1. Msg("cancel", id) \in Letter /\ Msg("cancel", id).kind \notin Replies
    BY MsgIsALetter, BoundsAssumption DEF Kinds, Id, Msg, Replies
  <1>2. Exchange(incoming, Append(sent, Msg("cancel", id)), conn[Peer(s)].pending, c.active,
                 conn[Peer(s)].nextId, both)
    BY <1>1, ExchangeIgnores DEF Between
  <1>3. Exchange(Append(sent, Msg("cancel", id)), incoming, c.pending \ {id},
                 conn[Peer(s)].active, c.nextId, both)
    BY ExchangeCancels DEF Between
  <1> QED
    BY <1>2, <1>3 DEF Between

LEMMA BetweenReplies ==
    ASSUME Honest, NEW s \in Side, NEW c, NEW incoming \in Seq(Letter),
           NEW sent \in Seq(Letter), NEW both, Between(s, c, incoming, sent, both),
           NEW id \in Id, id \in c.active, NEW kind \in Replies, NEW d,
           d.nextId = c.nextId, d.pending = c.pending, d.active = c.active \ {id}
    PROVE  Between(s, d, incoming, Append(sent, Msg(kind, id)), both)
  <1>1. Msg(kind, id) \in Letter /\ Msg(kind, id).kind \notin {"request", "cancel"}
    BY MsgIsALetter, BoundsAssumption DEF Kinds, Id, Msg, Replies
  <1>2. conn[Peer(s)].nextId \in Nat
    BY QueuesOfLetters
  <1>3. Exchange(incoming, Append(sent, Msg(kind, id)), conn[Peer(s)].pending,
                 c.active \ {id}, conn[Peer(s)].nextId, both)
    BY <1>2, ExchangeReplies DEF Between
  <1>4. Exchange(Append(sent, Msg(kind, id)), incoming, c.pending, conn[Peer(s)].active,
                 c.nextId, both)
    BY <1>1, ExchangeIgnores DEF Between
  <1> QED
    BY <1>3, <1>4 DEF Between

LEMMA BetweenAsks ==
    ASSUME NEW s \in Side, NEW c, NEW incoming \in Seq(Letter), NEW sent \in Seq(Letter),
           NEW both, Between(s, c, incoming, sent, both), c.nextId \in Id, NEW d,
           d.nextId = c.nextId + 1, d.pending = c.pending \cup {c.nextId},
           d.active = c.active
    PROVE  Between(s, d, incoming, Append(sent, Msg("request", c.nextId)), both)
  <1> DEFINE m == Msg("request", c.nextId)
  <1>1. m \in Letter /\ m.kind \notin Replies
    BY MsgIsALetter, BoundsAssumption DEF Kinds, Id, Msg, Replies
  <1>2. Exchange(incoming, Append(sent, m), conn[Peer(s)].pending, c.active,
                 conn[Peer(s)].nextId, both)
    BY <1>1, ExchangeIgnores DEF Between
  <1>3. Exchange(Append(sent, m), incoming, c.pending \cup {c.nextId},
                 conn[Peer(s)].active, c.nextId + 1, both)
    BY ExchangeAsks DEF Between
  <1> QED
    BY <1>2, <1>3 DEF Between

LEMMA BetweenNotices ==
    ASSUME NEW s \in Side, NEW c, NEW incoming \in Seq(Letter), NEW sent \in Seq(Letter),
           NEW both, Between(s, c, incoming, sent, both), NEW d,
           d.nextId = c.nextId, d.pending = c.pending, d.active = c.active
    PROVE  Between(s, d, incoming, Append(sent, Msg("notification", 0)), both)
  <1> DEFINE m == Msg("notification", 0)
  <1>1. m \in Letter /\ m.kind \notin Replies /\ m.kind \notin {"request", "cancel"}
    BY MsgIsALetter DEF Kinds, Msg, Replies
  <1> HIDE DEF m
  <1>2. Exchange(incoming, Append(sent, m), conn[Peer(s)].pending, c.active,
                 conn[Peer(s)].nextId, both)
    BY <1>1, ExchangeIgnores DEF Between
  <1>3. Exchange(Append(sent, m), incoming, c.pending, conn[Peer(s)].active, c.nextId, both)
    BY <1>1, ExchangeIgnores DEF Between
  <1> QED
    BY <1>2, <1>3 DEF Between, m

(* What an operation leaves alone, if it does nothing to the exchanges.        *)
Unmoved(c, d) ==
    /\ c.open = d.open /\ c.outgoing = d.outgoing /\ c.nextId = d.nextId
    /\ c.pending = d.pending /\ c.active = d.active

LEMMA UnmovedIsLess ==
    ASSUME NEW s \in Side, NEW c, Unmoved(c, conn[s])
    PROVE  Less(s, c, channel) /\ (channel[s] # << >> => Less(s, c, Rest(s)))
  BY DEF Unmoved, Less

LEMMA AfterCallbackUnmoved ==
    ASSUME NEW s \in Side, NEW c, ConnectionOK(s, c), NEW after \in AfterCallback(c)
    PROVE  Unmoved(after, c)
  BY DEF ConnectionOK, Connection, AfterCallback, Unmoved

LEMMA TakenFields ==
    ASSUME NEW s \in Side, NEW c, ConnectionOK(s, c), NEW id
    PROVE  /\ Taken(c, id).open = c.open /\ Taken(c, id).outgoing = c.outgoing
           /\ Taken(c, id).nextId = c.nextId /\ Taken(c, id).active = c.active
           /\ Taken(c, id).pending = c.pending \ {id}
  BY DEF ConnectionOK, Connection, Taken

LEMMA DroppedFields ==
    ASSUME NEW s \in Side, NEW c, ConnectionOK(s, c), NEW id
    PROVE  /\ Dropped(c, id).open = c.open /\ Dropped(c, id).outgoing = c.outgoing
           /\ Dropped(c, id).nextId = c.nextId /\ Dropped(c, id).pending = c.pending
           /\ Dropped(c, id).active = c.active \ {id}
  BY DEF ConnectionOK, Connection, Dropped

LEMMA UnmovedDelivers ==
    ASSUME Delivers, Honest', NEW s \in Side, NEW c, NEW known, Kept(s, c, known),
           Unmoved(c, conn[s]), channel' = channel, faults' = faults
    PROVE  Delivers'
  <1>1. Toward(Peer(s)) = channel[Peer(s)] \o conn[s].outgoing
    BY PeerIsASide DEF Toward
  <1>2. ASSUME faults' = 0
        PROVE  Between(s, c, channel'[s] \o conn[Peer(s)].outgoing,
                       channel'[Peer(s)] \o c.outgoing, BothOpen)
    <2>1. Between(s, conn[s], Toward(s), Toward(Peer(s)), BothOpen)
      BY <1>2, DeliversBetween
    <2> QED
      BY <1>1, <2>1 DEF Between, Unmoved, Toward
  <1> QED
    BY <1>2, KeptDelivers DEF Unmoved

----------------------------------------------------------------------------
(* What owners, callbacks and handlers do.                                   *)

LEMMA AbandonDelivers ==
    ASSUME Delivers, Honest', NEW s \in Side, NEW c, ConnectionOK(s, c),
           Unmoved(c, conn[s]), NEW id \in c.pending, Abandon(s, c, id)
    PROVE  Delivers'
  <1> DEFINE m == Msg("cancel", id)
  <1>1. PICK after \in AfterCallback(Taken(c, id)) :
            Enqueue(s, after, Settled(s, id, "ambiguous"), channel, m)
    BY DEF Abandon
  <1>2. ConnectionOK(s, Taken(c, id)) /\ ConnectionOK(s, after)
        /\ Unmoved(after, Taken(c, id))
    BY TakenOK, AfterCallbackOK, AfterCallbackUnmoved
  <1>3. /\ after.open = conn[s].open /\ after.outgoing = conn[s].outgoing
        /\ after.nextId = conn[s].nextId /\ after.active = conn[s].active
        /\ after.pending = conn[s].pending \ {id}
    BY <1>2, TakenFields DEF Unmoved
  <1>4. id \in Id /\ id < conn[s].nextId /\ conn[s].nextId \in Nat /\ id \in Nat
    BY BoundsAssumption DEF ConnectionOK, Connection, Id, Unmoved
  <1>5. m \in Letter
    BY <1>4, MsgIsALetter DEF Kinds
  <1>6. Less(s, after, channel)
    BY <1>3 DEF Less
  <1>7. /\ Toward(s) \in Seq(Letter) /\ Toward(Peer(s)) \in Seq(Letter)
        /\ Arriving(s, channel) = Toward(s)
    BY QueuesOfLetters, PeerIsASide DEF Delivers, Arriving, Toward
  <1>8. ASSUME faults = 0
        PROVE  Between(s, after, Arriving(s, channel), Append(Toward(Peer(s)), m), BothOpen)
    <2>1. Between(s, conn[s], Toward(s), Toward(Peer(s)), BothOpen)
      BY <1>8, DeliversBetween
    <2> QED
      BY <1>3, <1>4, <1>7, <2>1, BetweenCancels
  <1> HIDE DEF m
  <1> QED
    BY <1>1, <1>2, <1>5, <1>6, <1>8, EnqueueDelivers

(* A request in hand is answered: by its handler or because it is late. *)
LEMMA ReplyDelivers ==
    ASSUME Delivers, Honest', NEW s \in Side, NEW c, ConnectionOK(s, c),
           Unmoved(c, conn[s]), NEW id \in c.active, NEW kind \in Replies, NEW known,
           Enqueue(s, Dropped(c, id), known, channel, Msg(kind, id))
    PROVE  Delivers'
  <1> DEFINE m == Msg(kind, id)
             d == Dropped(c, id)
  <1>1. ConnectionOK(s, d)
    BY DroppedOK
  <1>2. /\ d.open = conn[s].open /\ d.outgoing = conn[s].outgoing
        /\ d.nextId = conn[s].nextId /\ d.pending = conn[s].pending
        /\ d.active = conn[s].active \ {id}
    BY DroppedFields DEF Unmoved
  <1>3. id \in Id /\ id \in Nat /\ id \in conn[s].active
    BY BoundsAssumption DEF ConnectionOK, Connection, Id, Unmoved
  <1>4. m \in Letter
    BY <1>3, MsgIsALetter DEF Kinds, Replies
  <1> HIDE DEF d
  <1>5. Less(s, d, channel)
    BY <1>2 DEF Less
  <1>6. /\ Toward(s) \in Seq(Letter) /\ Toward(Peer(s)) \in Seq(Letter)
        /\ Arriving(s, channel) = Toward(s) /\ Honest
    BY QueuesOfLetters, PeerIsASide DEF Delivers, Arriving, Toward
  <1>7. ASSUME faults = 0
        PROVE  Between(s, d, Arriving(s, channel), Append(Toward(Peer(s)), m), BothOpen)
    <2>1. Between(s, conn[s], Toward(s), Toward(Peer(s)), BothOpen)
      BY <1>7, DeliversBetween
    <2> QED
      BY <1>2, <1>3, <1>6, <2>1, BetweenReplies
  <1>8. Enqueue(s, d, known, channel, m)
    BY DEF d
  <1> HIDE DEF m
  <1> QED
    BY <1>1, <1>4, <1>5, <1>7, <1>8, EnqueueDelivers

LEMMA NumberedFields ==
    ASSUME NEW s \in Side, NEW c, ConnectionOK(s, c), NEW id
    PROVE  /\ Numbered(c).open = c.open /\ Numbered(c).outgoing = c.outgoing
           /\ Numbered(c).nextId = c.nextId + 1 /\ Numbered(c).active = c.active
           /\ Numbered(c).pending = c.pending
           /\ Waiting(c, id).open = c.open /\ Waiting(c, id).outgoing = c.outgoing
           /\ Waiting(c, id).nextId = c.nextId /\ Waiting(c, id).active = c.active
           /\ Waiting(c, id).pending = c.pending \cup {id}
  BY DEF ConnectionOK, Connection, Numbered, Waiting

LEMMA CallDelivers ==
    ASSUME Delivers, Honest', NEW s \in Side, Call(s)
    PROVE  Delivers'
  <1> DEFINE id == conn[s].nextId
             c == Numbered(conn[s])
             w == Waiting(c, id)
             m == Msg("request", id)
  <1>1. ConnectionOK(s, conn[s]) /\ channel \in [Side -> Seq(Letter)]
        /\ Toward(s) \in Seq(Letter) /\ Toward(Peer(s)) \in Seq(Letter)
        /\ conn[s].nextId \in Nat
    BY QueuesOfLetters, PeerIsASide DEF Delivers
  <1>2. id \in Id /\ conn[s].outgoing = << >>
    BY <1>1, BoundsAssumption DEF Call, ConnectionOK, Id
  <1>3. m \in Letter
    BY <1>1, <1>2, MsgIsALetter DEF Kinds
  <1>4. /\ c.open = conn[s].open /\ c.outgoing = conn[s].outgoing
        /\ c.nextId = id + 1 /\ c.active = conn[s].active /\ c.pending = conn[s].pending
        /\ w.open = conn[s].open /\ w.outgoing = conn[s].outgoing
        /\ w.nextId = id + 1 /\ w.active = conn[s].active
        /\ w.pending = conn[s].pending \cup {id}
    BY <1>1, NumberedOK, NumberedFields
  <1>5. Arriving(s, channel) = Toward(s)
    BY DEF Arriving, Toward
  <1>6. faults = 0 => Between(s, conn[s], Toward(s), Toward(Peer(s)), BothOpen)
    BY DeliversBetween
  <1>7. CASE /\ Accept(s, channel, m)
             /\ Kept(s, w, Settled(s, id, "waiting"))
    <2> HIDE DEF w
    <2>1. faults = 0 =>
              Between(s, w, Arriving(s, channel), Append(Toward(Peer(s)), m), BothOpen)
      BY <1>1, <1>2, <1>4, <1>5, <1>6, BetweenAsks
    <2> HIDE DEF m, id
    <2> QED
      BY <1>1, <1>2, <1>3, <1>4, <1>7, <2>1, AcceptDelivers
  <1>8. CASE Unsent(s, c, Settled(s, id, "refused"), channel)
    <2> HIDE DEF c
    <2>1. faults = 0 => Between(s, c, Arriving(s, channel), Toward(Peer(s)), BothOpen)
      BY <1>1, <1>4, <1>5, <1>6, ExchangeNumbers DEF Between
    <2>2. BothOpen => BothOpen
      OBVIOUS
    <2> QED
      BY <1>4, <1>8, <2>1, <2>2, UnsentDelivers
  <1> QED
    BY <1>7, <1>8 DEF Call, Numbered, Waiting

LEMMA UsesDelivers ==
    ASSUME Delivers, Honest', NEW s \in Side, Uses(s)
    PROVE  Delivers'
  <1>1. ConnectionOK(s, conn[s]) /\ conn[s] \in Connection
        /\ Toward(s) \in Seq(Letter) /\ Toward(Peer(s)) \in Seq(Letter)
        /\ Unmoved(conn[s], conn[s])
    BY QueuesOfLetters, PeerIsASide DEF Delivers, Unmoved
  <1>2. CASE Call(s)
    BY <1>2, CallDelivers
  <1>3. CASE Notify(s)
    <2> DEFINE c == [conn[s] EXCEPT !.notices = @ + 1]
               m == Msg("notification", 0)
    <2>1. ConnectionOK(s, c)
      BY <1>1, NoticedOK
    <2>2. Unmoved(c, conn[s])
      BY <1>1 DEF Connection, Unmoved
    <2>3. m \in Letter
      BY MsgIsALetter DEF Kinds
    <2>4. Enqueue(s, c, answer[s], channel, m)
      BY <1>3 DEF Notify
    <2> HIDE DEF c
    <2>5. faults = 0 =>
              Between(s, c, Arriving(s, channel), Append(Toward(Peer(s)), m), BothOpen)
      <3>1. Arriving(s, channel) = Toward(s)
        BY DEF Arriving, Toward
      <3> QED
        BY <1>1, <2>2, <3>1, DeliversBetween, BetweenNotices DEF Unmoved
    <2> HIDE DEF m
    <2> QED
      BY <2>1, <2>2, <2>3, <2>4, <2>5, UnmovedIsLess, EnqueueDelivers
  <1>4. CASE Close(s)
    BY <1>1, <1>4, ClosedDelivers DEF Close
  <1>5. ASSUME NEW id \in Id, Cancel(s, id)
        PROVE  Delivers'
    BY <1>1, <1>5, AbandonDelivers DEF Cancel
  <1>6. ASSUME NEW id \in Id, NEW kind \in {"response", "ambiguous"}, Finish(s, id, kind)
        PROVE  Delivers'
    BY <1>1, <1>6, ReplyDelivers DEF Finish, Replies
  <1> QED
    BY <1>2, <1>3, <1>4, <1>5, <1>6 DEF Uses

----------------------------------------------------------------------------
(* A poll.                                                                  *)

LEMMA GotoDelivers ==
    ASSUME Delivers, Honest', NEW s \in Side, NEW step, NEW expired, Goto(s, step, expired)
    PROVE  Delivers'
  <1> DEFINE c == [conn[s] EXCEPT !.step = step, !.expired = expired]
  <1>1. conn[s] \in Connection /\ conn \in [Side -> Connection]
    BY QueuesOfLetters DEF Delivers
  <1>2. conn' = [conn EXCEPT ![s] = c]
    BY <1>1 DEF Goto
  <1>3. Unmoved(c, conn[s])
    BY <1>1 DEF Connection, Unmoved
  <1> HIDE DEF c
  <1>4. answer' = [answer EXCEPT ![s] = answer[s]]
    BY DEF Goto, Delivers, Honest, InOrder, TypeOK
  <1>5. Kept(s, c, answer[s]) /\ channel' = channel /\ faults' = faults
    BY <1>2, <1>4 DEF Goto, Kept
  <1> QED
    BY <1>3, <1>5, UnmovedDelivers

(* The first message of the queue goes on its way: the peer is still sent the  *)
(* same messages.                                                           *)
LEMMA FlushDelivers ==
    ASSUME Delivers, Honest', NEW s \in Side, Flush(s)
    PROVE  Delivers'
  <1> DEFINE p == Peer(s)
             q == conn[s].outgoing
             c == [conn[s] EXCEPT !.outgoing = Tail(@)]
  <1>1. p \in Side /\ p # s /\ Peer(p) = s
    BY PeerIsASide
  <1>2. /\ conn[s] \in Connection /\ conn \in [Side -> Connection] /\ q \in Seq(Letter)
        /\ channel \in [Side -> Seq(Letter)] /\ faults \in Nat /\ q # << >>
    BY QueuesOfLetters DEF Delivers, Flush
  <1>3. conn' = [conn EXCEPT ![s] = c]
    BY <1>2 DEF Flush
  <1>4. /\ c.open = conn[s].open /\ c.nextId = conn[s].nextId
        /\ c.pending = conn[s].pending /\ c.active = conn[s].active
        /\ c.outgoing = Tail(q)
    BY <1>2 DEF Connection
  <1> HIDE DEF c
  <1>5. answer' = [answer EXCEPT ![s] = answer[s]]
    BY DEF Flush, Delivers, Honest, InOrder, TypeOK
  <1>6. Kept(s, c, answer[s])
    BY <1>3, <1>5 DEF Flush, Kept
  <1>7. ASSUME faults' = 0
        PROVE  Between(s, c, channel'[s] \o conn[p].outgoing,
                       channel'[p] \o c.outgoing, BothOpen)
    <2>1. channel' = [channel EXCEPT ![p] = Append(@, Head(q))] /\ faults = 0
      BY <1>2, <1>7 DEF Flush, Accept
    <2>2. channel'[s] = channel[s] /\ channel'[p] = Append(channel[p], Head(q))
      BY <1>1, <1>2, <2>1
    <2>3. Append(channel[p], Head(q)) \o Tail(q) = channel[p] \o q
      <3> DEFINE front == channel[p]
                 first == <<Head(q)>>
      <3>1. front \in Seq(Letter) /\ first \in Seq(Letter) /\ Tail(q) \in Seq(Letter)
            /\ Head(q) \in Letter
        BY <1>1, <1>2, HeadTailProperties
      <3>2. Append(front, Head(q)) = front \o first
        BY <3>1, AppendProperties
      <3>3. first \o Tail(q) = q
        BY <1>2, <3>1, HeadTailProperties, EmptySeq, LenProperties, ConcatProperties, SeqEqual
      <3> HIDE DEF front, first, q
      <3>4. (front \o first) \o Tail(q) = front \o (first \o Tail(q))
        BY <3>1, ConcatAssociative
      <3> QED
        BY <3>2, <3>3, <3>4 DEF front
    <2>4. Between(s, conn[s], Toward(s), Toward(p), BothOpen)
      BY <2>1, DeliversBetween
    <2>5. Toward(p) = channel'[p] \o c.outgoing /\ Toward(s) = channel'[s] \o conn[p].outgoing
      BY <1>1, <1>4, <2>2, <2>3 DEF Toward
    <2> QED
      BY <1>4, <2>4, <2>5 DEF Between
  <1> HIDE DEF p
  <1> QED
    BY <1>4, <1>6, <1>7, KeptDelivers DEF p

LEMMA StruckUnmoved ==
    ASSUME NEW s \in Side, NEW c, ConnectionOK(s, c), NEW id
    PROVE  ConnectionOK(s, Struck(c, id)) /\ Unmoved(Struck(c, id), c)
  BY StruckOK DEF ConnectionOK, Connection, Struck, Unmoved

LEMMA PollsDelivers ==
    ASSUME Delivers, Honest', NEW s \in Side, Polls(s)
    PROVE  Delivers'
  <1>1. ConnectionOK(s, conn[s]) /\ conn[s] \in Connection
    BY QueuesOfLetters DEF Delivers
  <1>2. CASE Poll(s)
    BY <1>1, <1>2, GotoDelivers, ClosedDelivers DEF Poll
  <1>3. CASE Flush(s)
    BY <1>3, FlushDelivers
  <1>4. CASE Flushed(s) \/ CallsExpired(s) \/ RequestsExpired(s) \/ Polled(s)
    BY <1>4, GotoDelivers DEF Flushed, CallsExpired, RequestsExpired, Polled
  <1>5. CASE ExpireCall(s)
    <2>1. PICK id \in conn[s].expired :
              IF id \in Struck(conn[s], id).pending
              THEN Abandon(s, Struck(conn[s], id), id)
              ELSE Unsent(s, Struck(conn[s], id), answer[s], channel)
      BY <1>5 DEF ExpireCall, Struck
    <2> DEFINE c == Struck(conn[s], id)
    <2>2. ConnectionOK(s, c) /\ Unmoved(c, conn[s])
      BY <1>1, StruckUnmoved
    <2> HIDE DEF c
    <2>3. CASE id \in c.pending
      <3>1. Abandon(s, c, id)
        BY <2>1, <2>3 DEF c
      <3> QED
        BY <2>2, <2>3, <3>1, AbandonDelivers
    <2>4. CASE id \notin c.pending
      <3>1. Unsent(s, c, answer[s], channel)
        BY <2>1, <2>4 DEF c
      <3> QED
        BY <2>2, <3>1, UnmovedDelivers DEF Unsent
    <2> QED
      BY <2>3, <2>4
  <1>6. CASE ExpireRequest(s)
    <2>1. PICK id \in conn[s].expired :
              IF id \in Struck(conn[s], id).active
              THEN Enqueue(s, Dropped(Struck(conn[s], id), id), answer[s], channel,
                           Msg("ambiguous", id))
              ELSE Unsent(s, Struck(conn[s], id), answer[s], channel)
      BY <1>6 DEF ExpireRequest, Struck
    <2> DEFINE c == Struck(conn[s], id)
    <2>2. ConnectionOK(s, c) /\ Unmoved(c, conn[s])
      BY <1>1, StruckUnmoved
    <2> HIDE DEF c
    <2>3. CASE id \in c.active
      <3>1. Enqueue(s, Dropped(c, id), answer[s], channel, Msg("ambiguous", id))
        BY <2>1, <2>3 DEF c
      <3>2. "ambiguous" \in Replies
        BY DEF Replies
      <3> QED
        BY <2>2, <2>3, <3>1, <3>2, ReplyDelivers
    <2>4. CASE id \notin c.active
      <3>1. Unsent(s, c, answer[s], channel)
        BY <2>1, <2>4 DEF c
      <3> QED
        BY <2>2, <3>1, UnmovedDelivers DEF Unsent
    <2> QED
      BY <2>3, <2>4
  <1> QED
    BY <1>2, <1>3, <1>4, <1>5, <1>6 DEF Polls

----------------------------------------------------------------------------
(* What arrives.                                                            *)

LEMMA RestDelivers ==
    ASSUME Delivers, Honest', NEW s \in Side, channel[s] # << >>, NEW c, NEW known,
           Unsent(s, c, known, Rest(s)),
           c.open = conn[s].open, c.outgoing = conn[s].outgoing,
           faults = 0 => Between(s, c, Tail(Toward(s)), Toward(Peer(s)), BothOpen)
    PROVE  Delivers'
  <1>1. Arriving(s, Rest(s)) = Tail(Toward(s)) /\ Rest(s)[Peer(s)] = channel[Peer(s)]
    BY RestOfToward DEF Delivers
  <1>2. BothOpen => BothOpen
    OBVIOUS
  <1> QED
    BY <1>1, <1>2, UnsentDelivers

(* A reply: nobody waits for it any more, whether anybody did or not. *)
LEMMA AnswerDelivers ==
    ASSUME Delivers, Honest', NEW s \in Side, channel[s] # << >>,
           Head(channel[s]).kind \in Replies, NEW outcome, Answer(s, outcome)
    PROVE  Delivers'
  <1> DEFINE id == MessageId(s)
  <1>1. /\ ConnectionOK(s, conn[s]) /\ Honest
        /\ Toward(s) \in Seq(Letter) /\ Toward(Peer(s)) \in Seq(Letter)
    BY QueuesOfLetters, PeerIsASide DEF Delivers
  <1>2. Toward(s) # << >> /\ Head(Toward(s)) = Head(channel[s])
    BY <1>1, RestOfToward
  <1>3. Head(Toward(s)).kind \notin {"request", "cancel"} /\ id = Head(Toward(s)).id
    BY <1>2 DEF Replies, MessageId
  <1> HIDE DEF id
  <1>4. ASSUME faults = 0, NEW c, c.nextId = conn[s].nextId, c.active = conn[s].active,
               c.pending = conn[s].pending \ {id}
        PROVE  Between(s, c, Tail(Toward(s)), Toward(Peer(s)), BothOpen)
    <2>1. Between(s, conn[s], Toward(s), Toward(Peer(s)), BothOpen)
      BY <1>4, DeliversBetween
    <2>2. Exchange(Tail(Toward(s)), Toward(Peer(s)), conn[Peer(s)].pending, conn[s].active,
                   conn[Peer(s)].nextId, BothOpen)
      BY <1>1, <1>2, <1>3, <2>1, ExchangeSkips DEF Between
    <2>3. Exchange(Toward(Peer(s)), Tail(Toward(s)), conn[s].pending \ {id},
                   conn[Peer(s)].active, conn[s].nextId, BothOpen)
      BY <1>1, <1>2, <1>3, <2>1, ExchangeAnswers DEF Between
    <2> QED
      BY <1>4, <2>2, <2>3 DEF Between
  <1>5. CASE id \in conn[s].pending
    <2>1. PICK after \in AfterCallback(Taken(conn[s], id)) :
              \E known : Unsent(s, after, known, Rest(s))
      BY <1>5 DEF Answer, id
    <2>2. ConnectionOK(s, Taken(conn[s], id)) /\ Unmoved(after, Taken(conn[s], id))
      BY <1>1, <1>5, TakenOK, AfterCallbackUnmoved
    <2>3. /\ after.open = conn[s].open /\ after.outgoing = conn[s].outgoing
          /\ after.nextId = conn[s].nextId /\ after.active = conn[s].active
          /\ after.pending = conn[s].pending \ {id}
      BY <1>1, <2>2, TakenFields DEF Unmoved
    <2> QED
      BY <1>4, <2>1, <2>3, RestDelivers
  <1>6. CASE id \notin conn[s].pending
    <2>1. Unsent(s, conn[s], answer[s], Rest(s))
      BY <1>6 DEF Answer, id
    <2>2. conn[s].pending = conn[s].pending \ {id}
      BY <1>6
    <2> QED
      BY <1>4, <2>1, <2>2, RestDelivers
  <1> QED
    BY <1>5, <1>6

LEMMA ReceiveCancelDelivers ==
    ASSUME Delivers, Honest', NEW s \in Side, ReceiveCancel(s)
    PROVE  Delivers'
  <1> DEFINE id == MessageId(s)
  <1>1. /\ ConnectionOK(s, conn[s]) /\ Honest
        /\ Toward(s) \in Seq(Letter) /\ Toward(Peer(s)) \in Seq(Letter)
    BY QueuesOfLetters, PeerIsASide DEF Delivers
  <1>2. channel[s] # << >> /\ Head(channel[s]).kind = "cancel"
    BY DEF ReceiveCancel, Receives
  <1>3. Toward(s) # << >> /\ Head(Toward(s)) = Head(channel[s])
    BY <1>1, <1>2, RestOfToward
  <1>4. Head(Toward(s)).kind = "cancel" /\ Head(Toward(s)).kind \notin Replies
        /\ id = Head(Toward(s)).id
    BY <1>2, <1>3 DEF Replies, MessageId
  <1> HIDE DEF id
  <1>5. ASSUME faults = 0, NEW c, c.nextId = conn[s].nextId, c.pending = conn[s].pending,
               c.active = conn[s].active \ {id}
        PROVE  Between(s, c, Tail(Toward(s)), Toward(Peer(s)), BothOpen)
    <2>1. Between(s, conn[s], Toward(s), Toward(Peer(s)), BothOpen)
      BY <1>5, DeliversBetween
    <2>2. Exchange(Tail(Toward(s)), Toward(Peer(s)), conn[Peer(s)].pending,
                   conn[s].active \ {id}, conn[Peer(s)].nextId, BothOpen)
      BY <1>1, <1>3, <1>4, <2>1, ExchangeForgets DEF Between
    <2>3. Exchange(Toward(Peer(s)), Tail(Toward(s)), conn[s].pending, conn[Peer(s)].active,
                   conn[s].nextId, BothOpen)
      BY <1>1, <1>3, <1>4, <2>1, ExchangeSkips DEF Between
    <2> QED
      BY <1>5, <2>2, <2>3 DEF Between
  <1>6. CASE id \in conn[s].active
    <2> DEFINE c == Dropped(conn[s], id)
    <2>1. /\ c.open = conn[s].open /\ c.outgoing = conn[s].outgoing
          /\ c.nextId = conn[s].nextId /\ c.pending = conn[s].pending
          /\ c.active = conn[s].active \ {id}
      BY <1>1, DroppedFields
    <2>2. Unsent(s, c, answer[s], Rest(s))
      BY <1>6 DEF ReceiveCancel, id
    <2> HIDE DEF c
    <2> QED
      BY <1>2, <1>5, <2>1, <2>2, RestDelivers
  <1>7. CASE id \notin conn[s].active
    <2>1. Unsent(s, conn[s], answer[s], Rest(s))
      BY <1>7 DEF ReceiveCancel, id
    <2>2. conn[s].active = conn[s].active \ {id}
      BY <1>7
    <2> QED
      BY <1>2, <1>5, <2>1, <2>2, RestDelivers
  <1> QED
    BY <1>6, <1>7

(* A request, that is taken in hand or refused. *)
LEMMA MeetsBetween ==
    ASSUME Delivers, NEW s \in Side, channel[s] # << >>, Head(channel[s]).kind = "request",
           faults = 0, NEW c, c.nextId = conn[s].nextId, c.pending = conn[s].pending
    PROVE  /\ c.active = conn[s].active \cup {MessageId(s)} =>
                  Between(s, c, Tail(Toward(s)), Toward(Peer(s)), BothOpen)
           /\ c.active = conn[s].active =>
                  Between(s, c, Tail(Toward(s)),
                          Append(Toward(Peer(s)), Msg("refused", MessageId(s))), BothOpen)
  <1> DEFINE id == MessageId(s)
             m == Msg("refused", id)
  <1>1. /\ Honest /\ Toward(s) \in Seq(Letter) /\ Toward(Peer(s)) \in Seq(Letter)
    BY QueuesOfLetters, PeerIsASide DEF Delivers
  <1>2. Toward(s) # << >> /\ Head(Toward(s)) = Head(channel[s])
    BY <1>1, RestOfToward
  <1>3. Head(Toward(s)).kind = "request" /\ Head(Toward(s)).kind \notin Replies
        /\ id = Head(Toward(s)).id
    BY <1>2 DEF Replies, MessageId
  <1>4. id \in Id /\ id \in Nat
    BY <1>1, Received
  <1>5. m \in Letter /\ m.kind \notin {"request", "cancel"}
    BY <1>4, MsgIsALetter DEF Kinds, Msg
  <1>6. Between(s, conn[s], Toward(s), Toward(Peer(s)), BothOpen)
    BY DeliversBetween
  <1> HIDE DEF id
  <1>7. /\ Exchange(Tail(Toward(s)), Toward(Peer(s)), conn[Peer(s)].pending,
                    conn[s].active \cup {id}, conn[Peer(s)].nextId, BothOpen)
        /\ Exchange(Tail(Toward(s)), Append(Toward(Peer(s)), m), conn[Peer(s)].pending,
                    conn[s].active, conn[Peer(s)].nextId, BothOpen)
    BY <1>1, <1>2, <1>3, <1>6, ExchangeMeets DEF Between
  <1>8. Exchange(Toward(Peer(s)), Tail(Toward(s)), conn[s].pending, conn[Peer(s)].active,
                 conn[s].nextId, BothOpen)
    BY <1>1, <1>2, <1>3, <1>6, ExchangeSkips DEF Between
  <1> HIDE DEF m
  <1>9. Tail(Toward(s)) \in Seq(Letter)
    BY <1>1, <1>2, HeadTailProperties
  <1>10. Exchange(Append(Toward(Peer(s)), m), Tail(Toward(s)), conn[s].pending,
                  conn[Peer(s)].active, conn[s].nextId, BothOpen)
    BY <1>1, <1>5, <1>8, <1>9, ExchangeIgnores
  <1> QED
    BY <1>7, <1>8, <1>10 DEF Between, m, id

LEMMA ReceiveRefusedDelivers ==
    ASSUME Delivers, Honest', NEW s \in Side, ReceiveRefused(s)
    PROVE  Delivers'
  <1> DEFINE id == MessageId(s)
             c == [conn[s] EXCEPT !.lastRequestId = id]
             m == Msg("refused", id)
  <1>1. /\ channel[s] # << >> /\ Head(channel[s]).kind = "request"
        /\ id > conn[s].lastRequestId /\ Honest
    BY DEF ReceiveRefused, Receives, Fresh, Delivers
  <1>2. /\ ConnectionOK(s, conn[s]) /\ conn[s] \in Connection
        /\ id \in Id /\ id \in Nat
    BY <1>1, Received
  <1>3. ConnectionOK(s, c)
    BY <1>1, <1>2, RefusedOK
  <1>4. Unmoved(c, conn[s])
    BY <1>2 DEF Connection, Unmoved
  <1>5. m \in Letter
    BY <1>2, MsgIsALetter DEF Kinds
  <1>6. Enqueue(s, c, answer[s], Rest(s), m)
    BY DEF ReceiveRefused
  <1> HIDE DEF c
  <1>7. Less(s, c, Rest(s)) /\ Arriving(s, Rest(s)) = Tail(Toward(s))
    BY <1>1, <1>4, UnmovedIsLess, RestOfToward
  <1>8. faults = 0 =>
            Between(s, c, Arriving(s, Rest(s)), Append(Toward(Peer(s)), m), BothOpen)
    BY <1>1, <1>4, <1>7, MeetsBetween DEF Unmoved
  <1> HIDE DEF m
  <1> QED
    BY <1>3, <1>5, <1>6, <1>7, <1>8, EnqueueDelivers

LEMMA ReceiveRequestDelivers ==
    ASSUME Delivers, Honest', NEW s \in Side, ReceiveRequest(s)
    PROVE  Delivers'
  <1> DEFINE id == MessageId(s)
             late == [InHand(conn[s], id) EXCEPT !.lateRequests = @ \cup {id}]
  <1>1. /\ channel[s] # << >> /\ Head(channel[s]).kind = "request" /\ Honest
    BY DEF ReceiveRequest, Receives, Fresh, Delivers
  <1>2. ConnectionOK(s, conn[s]) /\ conn[s] \in Connection
    BY <1>1, Received
  <1>3. PICK c \in {InHand(conn[s], id), late} : Unsent(s, c, answer[s], Rest(s))
    BY DEF ReceiveRequest, InHand
  <1>4. /\ c.open = conn[s].open /\ c.outgoing = conn[s].outgoing
        /\ c.nextId = conn[s].nextId /\ c.pending = conn[s].pending
        /\ c.active = conn[s].active \cup {id}
    BY <1>2, <1>3 DEF InHand, Connection
  <1> HIDE DEF late
  <1> QED
    BY <1>1, <1>3, <1>4, MeetsBetween, RestDelivers

LEMMA ReceiveNotificationDelivers ==
    ASSUME Delivers, Honest', NEW s \in Side, ReceiveNotification(s)
    PROVE  Delivers'
  <1>1. /\ ConnectionOK(s, conn[s]) /\ Honest
        /\ Toward(s) \in Seq(Letter) /\ Toward(Peer(s)) \in Seq(Letter)
    BY QueuesOfLetters, PeerIsASide DEF Delivers
  <1>2. channel[s] # << >> /\ Head(channel[s]).kind = "notification"
    BY DEF ReceiveNotification, Receives
  <1>3. Toward(s) # << >> /\ Head(Toward(s)) = Head(channel[s])
    BY <1>1, <1>2, RestOfToward
  <1>4. Head(Toward(s)).kind \notin Replies /\ Head(Toward(s)).kind \notin {"request", "cancel"}
    BY <1>2, <1>3 DEF Replies
  <1>5. ASSUME NEW after \in AfterCallback(conn[s]), Unsent(s, after, answer[s], Rest(s))
        PROVE  Delivers'
    <2>1. Unmoved(after, conn[s])
      BY <1>1, AfterCallbackUnmoved
    <2>2. ASSUME faults = 0
          PROVE  Between(s, after, Tail(Toward(s)), Toward(Peer(s)), BothOpen)
      <3>1. Between(s, conn[s], Toward(s), Toward(Peer(s)), BothOpen)
        BY <2>2, DeliversBetween
      <3>2. Exchange(Tail(Toward(s)), Toward(Peer(s)), conn[Peer(s)].pending, conn[s].active,
                     conn[Peer(s)].nextId, BothOpen)
        BY <1>1, <1>3, <1>4, <3>1, ExchangeSkips DEF Between
      <3>3. Exchange(Toward(Peer(s)), Tail(Toward(s)), conn[s].pending, conn[Peer(s)].active,
                     conn[s].nextId, BothOpen)
        BY <1>1, <1>3, <1>4, <3>1, ExchangeSkips DEF Between
      <3> QED
        BY <2>1, <3>2, <3>3 DEF Between, Unmoved
    <2> QED
      BY <1>2, <1>5, <2>1, <2>2, RestDelivers DEF Unmoved
  <1>6. CASE Closed(s, conn[s], answer[s])
    BY <1>1, <1>6, ClosedDelivers
  <1> QED
    BY <1>5, <1>6 DEF ReceiveNotification

LEMMA ReceiveDelivers ==
    ASSUME Delivers, Honest', NEW s \in Side, Receive(s)
    PROVE  Delivers'
  <1>1. CASE ReceiveResponse(s)
    BY <1>1, AnswerDelivers DEF ReceiveResponse, Receives, Replies
  <1>2. CASE ReceiveFailed(s)
    BY <1>2, AnswerDelivers DEF ReceiveFailed, Receives, Replies
  <1>3. CASE ReceiveAgain(s)
    BY <1>3, QueuesOfLetters, ClosedDelivers DEF ReceiveAgain, Delivers
  <1> QED
    BY <1>1, <1>2, <1>3, ReceiveCancelDelivers, ReceiveRefusedDelivers,
       ReceiveRequestDelivers, ReceiveNotificationDelivers DEF Receive

----------------------------------------------------------------------------
(* The invariant holds, always.                                              *)

(* A deadline that has passed changes nothing yet. *)
LEMMA TimePassesDelivers ==
    ASSUME Delivers, Honest', NEW s \in Side, CallExpires(s) \/ RequestExpires(s)
    PROVE  Delivers'
  <1>1. conn[s] \in Connection /\ conn \in [Side -> Connection]
    BY QueuesOfLetters DEF Delivers
  <1>2. PICK c : Unmoved(c, conn[s]) /\ conn' = [conn EXCEPT ![s] = c]
    <2>1. \A id \in Id :
              /\ Unmoved([conn[s] EXCEPT !.lateCalls = @ \cup {id}], conn[s])
              /\ Unmoved([conn[s] EXCEPT !.lateRequests = @ \cup {id}], conn[s])
      BY <1>1 DEF Unmoved, Connection
    <2>2. CASE CallExpires(s)
      <3>1. PICK id \in conn[s].pending : conn' = [conn EXCEPT ![s].lateCalls = @ \cup {id}]
        BY <2>2 DEF CallExpires
      <3> QED
        BY <1>1, <2>1, <3>1 DEF Connection
    <2>3. CASE RequestExpires(s)
      <3>1. PICK id \in conn[s].active : conn' = [conn EXCEPT ![s].lateRequests = @ \cup {id}]
        BY <2>3 DEF RequestExpires
      <3> QED
        BY <1>1, <2>1, <3>1 DEF Connection
    <2> QED
      BY <2>2, <2>3
  <1>3. Kept(s, c, answer[s]) /\ channel' = channel /\ faults' = faults
    BY <1>2 DEF CallExpires, RequestExpires, Kept, Delivers, Honest, InOrder, TypeOK
  <1> QED
    BY <1>2, <1>3, UnmovedDelivers

(* A message that arrives twice is a fault. *)
LEMMA DuplicateDelivers ==
    ASSUME Delivers, Honest', NEW s \in Side, Duplicate(s)
    PROVE  Delivers'
  <1>1. faults' # 0
    BY QueuesOfLetters DEF Duplicate, Delivers
  <1> QED
    BY <1>1 DEF Duplicate, Delivers

LEMMA DeliversInitially == Init => Delivers
  <1> SUFFICES ASSUME Init PROVE Delivers
    OBVIOUS
  <1>1. Honest
    BY HonestInitially
  <1>2. \A s \in Side : conn[s] = NewConnection /\ channel[s] = << >> /\ open[s] = TRUE
    BY DEF Init
  <1>3. /\ NewConnection.outgoing = << >> /\ NewConnection.pending = {}
        /\ NewConnection.active = {} /\ NewConnection.nextId = 1
        /\ NewConnection.open = TRUE
    BY DEF NewConnection
  <1>4. << >> \in Seq(Letter) /\ << >> \o << >> = << >>
    BY EmptySeq, ConcatEmptySeq
  <1>5. \A s \in Side : Toward(s) = << >>
    BY <1>2, <1>3, <1>4, PeerIsASide DEF Toward
  <1>6. \A kinds, id : Carries(<< >>, kinds, id) = {}
    <2>1. Len(<< >>) = 0
      BY EmptySeq
    <2>2. 1..0 = {}
      OBVIOUS
    <2> QED
      BY <1>4, <2>1, <2>2, CarriesAt, ZenonT(60)
  <1>7. \A both : Exchange(<< >>, << >>, {}, {}, 1, both)
    BY <1>6 DEF Exchange, Clear, Awaited, Has, Once, Before
  <1> QED
    BY <1>1, <1>2, <1>3, <1>5, <1>7, PeerIsASide DEF Delivers

LEMMA DeliversIsKept == Delivers /\ [Next]_vars => Delivers'
  <1> SUFFICES ASSUME Delivers, [Next]_vars PROVE Delivers'
    OBVIOUS
  <1>1. Honest'
    BY HonestIsKept DEF Delivers
  <1>2. ASSUME NEW s \in Side, Uses(s) PROVE Delivers'
    BY <1>1, <1>2, UsesDelivers
  <1>3. ASSUME NEW s \in Side, Polls(s) PROVE Delivers'
    BY <1>1, <1>3, PollsDelivers
  <1>4. ASSUME NEW s \in Side, Receive(s) PROVE Delivers'
    BY <1>1, <1>4, ReceiveDelivers
  <1>5. ASSUME NEW s \in Side, CallExpires(s) \/ RequestExpires(s) PROVE Delivers'
    BY <1>1, <1>5, TimePassesDelivers
  <1>6. ASSUME NEW s \in Side, Duplicate(s) PROVE Delivers'
    BY <1>1, <1>6, DuplicateDelivers
  <1>7. CASE UNCHANGED vars
    BY <1>1, <1>7 DEF vars, Delivers, Toward, BothOpen
  <1> QED
    BY <1>2, <1>3, <1>4, <1>5, <1>6, <1>7 DEF Next

(* Without faults, every message, table entry and id of a call has the one     *)
(* place it may have (see Exchange).                                          *)
THEOREM AlwaysDelivers == Spec => []Delivers
  BY DeliversInitially, DeliversIsKept, PTL DEF Spec

----------------------------------------------------------------------------
(* The promises.                                                            *)

(* A handler nobody waits for will be told: RpcConnection.finishPending sends  *)
(* a cancel for every call that ends unanswered, and nothing overtakes it.     *)
THEOREM CancelsReachOrphans == Spec => []OrphansAreCancelled
  <1>1. Delivers => OrphansAreCancelled
    <2> SUFFICES ASSUME Delivers, faults = 0, BothOpen, NEW s \in Side,
                        NEW id \in conn[s].active
                 PROVE  \/ id \in conn[Peer(s)].pending
                        \/ Carries(channel[s] \o conn[Peer(s)].outgoing, {"cancel"}, id) # {}
      BY DEF OrphansAreCancelled, BothOpen
    <2>1. id \in Id
      BY QueuesOfLetters DEF Delivers, Connection
    <2>2. Awaited(Toward(s), Toward(Peer(s)), conn[Peer(s)].pending, conn[s].active, id)
      BY <2>1 DEF Delivers, Exchange
    <2> QED
      BY <2>2 DEF Awaited, Has, Toward
  <1> QED
    BY <1>1, AlwaysDelivers, PTL

(* A context completes at most once: of a request in hand and its replies      *)
(* there is one.                                                            *)
THEOREM RepliesAreSingle == Spec => []RepliesOnce
  <1>1. Delivers => RepliesOnce
    <2> SUFFICES ASSUME Delivers, faults = 0, NEW s \in Side, NEW id \in Id
                 PROVE  Cardinality(Carries(channel[Peer(s)] \o conn[s].outgoing, Replies, id))
                            + (IF id \in conn[s].active THEN 1 ELSE 0) <= 1
      BY DEF RepliesOnce
    <2> DEFINE C == Carries(Toward(Peer(s)), Replies, id)
    <2>1. Toward(Peer(s)) = channel[Peer(s)] \o conn[s].outgoing
      BY PeerIsASide DEF Toward
    <2>2. Clear(Toward(s), Toward(Peer(s)), conn[Peer(s)].pending, conn[s].active,
                conn[Peer(s)].nextId, id)
      BY DEF Delivers, Exchange
    <2>3. /\ \A i, j \in C : i = j
          /\ C # {} => id \notin conn[s].active
      BY <2>2 DEF Clear, Once, Has
    <2> HIDE DEF C
    <2>4. CASE C = {}
      <3>1. Cardinality(C) = 0
        BY <2>4, FS_EmptySet
      <3> QED
        BY <2>1, <3>1 DEF C
    <2>5. CASE C # {}
      <3> PICK i : i \in C
        BY <2>5
      <3>1. C = {i}
        BY <2>3
      <3>2. Cardinality(C) = 1
        BY <3>1, FS_Singleton
      <3> QED
        BY <2>1, <2>3, <2>5, <3>2 DEF C
    <2> QED
      BY <2>4, <2>5
  <1> QED
    BY <1>1, AlwaysDelivers, PTL

(* A call that waits has its request on its way or in hand, or its reply on    *)
(* its way or queued: RpcConnection drops nothing silently.                    *)
THEOREM WaitersWaitForSomething == Spec => []WaitsForSomething
  <1>1. Delivers => WaitsForSomething
    <2> SUFFICES ASSUME Delivers, faults = 0, BothOpen, NEW s \in Side,
                        NEW id \in conn[s].pending
                 PROVE  \/ Carries(channel[Peer(s)], {"request"}, id) # {}
                        \/ id \in conn[Peer(s)].active
                        \/ Carries(channel[s] \o conn[Peer(s)].outgoing, Replies, id) # {}
      BY DEF WaitsForSomething, BothOpen
    <2> DEFINE p == Peer(s)
    <2>1. p \in Side /\ Peer(p) = s /\ Honest
      BY PeerIsASide DEF Delivers
    <2>2. id \in Id
      BY QueuesOfLetters DEF Delivers, Connection
    <2>3. Awaited(Toward(p), Toward(s), conn[s].pending, conn[p].active, id)
      BY <2>1, <2>2 DEF Delivers, Exchange
    <2>4. ASSUME Has(Toward(p), {"request"}, id)
          PROVE  Carries(channel[p], {"request"}, id) # {}
      <3> DEFINE q == channel[p]
                 r == conn[s].outgoing
      <3>1. q \in Seq(Letter) /\ r \in Seq(Letter)
        BY <2>1, QueuesOfLetters
      <3>2. \A m \in Messages(r) : m.kind # "request"
        BY DEF Delivers, Honest
      <3>3. Toward(p) = q \o r
        BY <2>1 DEF Toward
      <3> HIDE DEF q, r
      <3>4. /\ q \o r \in Seq(Letter) /\ Len(q \o r) = Len(q) + Len(r)
            /\ \A i \in 1..Len(q) + Len(r) :
                   (q \o r)[i] = IF i <= Len(q) THEN q[i] ELSE r[i - Len(q)]
            /\ Len(q) \in Nat /\ Len(r) \in Nat
        BY <3>1, ConcatProperties, LenProperties
      <3>5. PICK i \in 1..Len(q) + Len(r) : (q \o r)[i].kind = "request" /\ (q \o r)[i].id = id
        <4> DEFINE all == q \o r
        <4>1. all \in Seq(Letter) /\ Len(all) = Len(q) + Len(r)
          BY <3>4
        <4>2. PICK i : i \in Carries(all, {"request"}, id)
          BY <2>4, <3>3 DEF Has
        <4> HIDE DEF all
        <4>3. Carries(all, {"request"}, id)
                  = {j \in 1..Len(all) : all[j].kind \in {"request"} /\ all[j].id = id}
          BY <4>1, CarriesAt
        <4>4. i \in 1..Len(q) + Len(r) /\ all[i].kind = "request" /\ all[i].id = id
          BY <4>1, <4>2, <4>3
        <4> QED
          BY <4>4 DEF all
      <3>6. i <= Len(q)
        <4> SUFFICES ASSUME ~(i <= Len(q)) PROVE FALSE
          OBVIOUS
        <4>1. i - Len(q) \in 1..Len(r) /\ (q \o r)[i] = r[i - Len(q)]
          BY <3>4
        <4> QED
          BY <3>2, <3>5, <4>1 DEF Messages
      <3>7. i \in 1..Len(q) /\ (q \o r)[i] = q[i]
        BY <3>4, <3>6
      <3>8. Carries(q, {"request"}, id)
                = {j \in 1..Len(q) : q[j].kind \in {"request"} /\ q[j].id = id}
        BY <3>1, CarriesAt
      <3>9. i \in Carries(q, {"request"}, id)
        BY <3>5, <3>7, <3>8
      <3> QED
        BY <3>9 DEF q
    <2> QED
      BY <2>3, <2>4 DEF Awaited, Has, Toward
  <1> QED
    BY <1>1, AlwaysDelivers, PTL
============================================================================
