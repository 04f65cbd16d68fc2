------------------------------ MODULE Delivery ------------------------------
(***************************************************************************)
(* The events of one channel, from the transaction that stores a message   *)
(* to the WebSockets of its readers:                                       *)
(*                                                                         *)
(*   messenger/service/message_service.py stores the message and a row of  *)
(*     message_outbox in one transaction;                                  *)
(*   messenger/dispatcher.py: dispatchers, one per web process, publish    *)
(*     the rows on Redis and delete them;                                  *)
(*   rt-relay (transport/ws.go, session/, dispatch/, bus/redis.go) sends   *)
(*     what is published to the connections subscribed to the channel.     *)
(*                                                                         *)
(* Transactions, publications and the goroutines of the relay interleave,  *)
(* and a dispatcher may die between any two of its steps.                  *)
(***************************************************************************)
EXTENDS Integers, FiniteSets, Sequences

CONSTANTS
  Dispatchers,         \* OutboxDispatcher tasks, one per web process
  BatchSize,           \* dispatch_one_batch(batch_size)
  Conns,               \* WebSocket connections, by connID: none is used twice
  MaxMessages,         \* bound: messages posted
  MaxFaults            \* bound: deaths, failed publications, lost events,
                       \* connections that break

ASSUME DeliveryAssumption ==
  BatchSize \in Nat \ {0} /\ MaxMessages \in Nat /\ MaxFaults \in Nat

VARIABLES
  stored,              \* messages of the channel, by ts_seq 1..stored
  outbox,              \* message_outbox: ts_seq of the events not yet deleted
  disp,                \* where each dispatcher is in its batch
  bus,                 \* events between Redis and the relay's subscription
  fan,                 \* the relay's dispatch: event and connections to go
  conn,                \* where each connection's read loop is
  subs,                \* Subscription: connections subscribed to the channel
  broken,              \* connections whose WebSocket no longer works
  published,           \* history: how often each event was published
  acked,               \* history: working connections that have been told that
                       \* they are subscribed
  owed,                \* history: events published while a connection was in
                       \* acked that have not been sent to it
  faults               \* what is left of MaxFaults

relayVars == <<fan, conn, subs, broken, acked>>
vars == <<stored, outbox, disp, bus, relayVars, published, owed, faults>>

None == 0
Seqs == 1..MaxMessages

Resting == [at |-> "fetch", lock |-> {}, rows |-> {}, done |-> {}]
Parked == [Resting EXCEPT !.at = "parked"]
Quiet == [event |-> None, to |-> {}]

Init ==
  /\ stored = 0 /\ outbox = {}
  /\ disp = [d \in Dispatchers |-> Resting]
  /\ bus = <<>> /\ fan = Quiet
  /\ conn = [c \in Conns |-> "new"] /\ subs = {} /\ broken = {} /\ acked = {}
  /\ published = [n \in Seqs |-> 0]
  /\ owed = [c \in Conns |-> {}]
  /\ faults = MaxFaults

-----------------------------------------------------------------------------
(* post_message: ts_seq, the message and its outbox row in one transaction  *)

Post ==
  /\ stored < MaxMessages
  /\ stored' = stored + 1
  /\ outbox' = outbox \cup {stored'}
  /\ UNCHANGED <<disp, bus, relayVars, published, owed, faults>>

-----------------------------------------------------------------------------
(* OutboxDispatcher *)

dispOnly == <<stored, relayVars>>

\* A row stays locked until the transaction ends, published or not.
Locked == UNION {disp[d].lock : d \in Dispatchers}

\* The first BatchSize rows of S.
IsBatch(R, S) ==
  /\ R \subseteq S /\ \A n \in R : \A k \in S \ R : n < k
  /\ Cardinality(R) <= BatchSize
  /\ Cardinality(R) < BatchSize => R = S

Batch(d, R) ==
  disp' = [disp EXCEPT ![d] = IF R = {} THEN Parked
                              ELSE [at |-> "publish", lock |-> R, rows |-> R, done |-> {}]]

\* Faulty: plain SELECT, no FOR UPDATE SKIP LOCKED.
FetchUnlocked(d) ==
  /\ disp[d].at = "fetch"
  /\ \E R \in SUBSET outbox : IsBatch(R, outbox) /\ Batch(d, R)
  /\ UNCHANGED <<dispOnly, outbox, bus, published, owed, faults>>

\* SELECT ... ORDER BY created_at FOR UPDATE SKIP LOCKED LIMIT batch_size
Fetch(d) ==
  /\ disp[d].at = "fetch"
  /\ \E R \in SUBSET (outbox \ Locked) : IsBatch(R, outbox \ Locked) /\ Batch(d, R)
  /\ UNCHANGED <<dispOnly, outbox, bus, published, owed, faults>>

\* The row whose turn it is: the batch is published in order.
Turn(d, n) ==
  disp[d].at = "publish" /\ n \in disp[d].rows /\ \A k \in disp[d].rows : n <= k

Publish(d) ==
  /\ \E n \in disp[d].rows :
       /\ Turn(d, n)
       /\ bus' = Append(bus, n)
       /\ published' = [published EXCEPT ![n] = @ + 1]
       /\ owed' = [c \in Conns |-> IF c \in acked THEN owed[c] \cup {n} ELSE owed[c]]
       /\ disp' = [disp EXCEPT ![d].rows = @ \ {n}, ![d].done = @ \cup {n}]
  /\ UNCHANGED <<dispOnly, outbox, faults>>

\* Faulty: the rows whose publication failed are deleted with the others.
PublishFailsDropped(d) ==
  /\ faults > 0 /\ faults' = faults - 1
  /\ \E n \in disp[d].rows :
       Turn(d, n) /\ disp' = [disp EXCEPT ![d].rows = @ \ {n}, ![d].done = @ \cup {n}]
  /\ UNCHANGED <<dispOnly, outbox, bus, published, owed>>

PublishFails(d) ==
  /\ faults > 0 /\ faults' = faults - 1
  /\ \E n \in disp[d].rows :
       Turn(d, n) /\ disp' = [disp EXCEPT ![d].rows = @ \ {n}]
  /\ UNCHANGED <<dispOnly, outbox, bus, published, owed>>

\* DELETE and COMMIT; a batch that published nothing counts as idle.
Commit(d) ==
  /\ disp[d].at = "publish" /\ disp[d].rows = {}
  /\ outbox' = outbox \ disp[d].done
  /\ disp' = [disp EXCEPT ![d] = IF disp[d].done = {} THEN Parked
                                 ELSE Resting]
  /\ UNCHANGED <<dispOnly, bus, published, owed, faults>>

\* Faulty: no safety tick, and the NOTIFY is missed.
WakeMissed(d) == FALSE /\ UNCHANGED vars

\* NOTIFY outbox_new, or the safety tick.
Wake(d) ==
  /\ disp[d].at = "parked"
  /\ disp' = [disp EXCEPT ![d] = Resting]
  /\ UNCHANGED <<dispOnly, outbox, bus, published, owed, faults>>

\* The process dies or the connection breaks: the transaction rolls back.
Rollback(d) ==
  /\ disp[d].at = "publish"
  /\ faults > 0 /\ faults' = faults - 1
  /\ disp' = [disp EXCEPT ![d] = Parked]
  /\ UNCHANGED <<dispOnly, outbox, bus, published, owed>>

Dispatch(d) == Fetch(d) \/ Publish(d) \/ Commit(d) \/ Wake(d)

-----------------------------------------------------------------------------
(* rt-relay *)

relayOnly == <<stored, outbox, disp, published>>

\* Registry: from Add until Remove.
Registered == {c \in Conns : conn[c] \notin {"new", "closed"}}

\* ToSubscribers reads the subscribers of the channel, then sends to each.
Receive ==
  /\ fan = Quiet /\ bus # <<>>
  /\ bus' = Tail(bus)
  /\ fan' = IF subs = {} THEN Quiet ELSE [event |-> Head(bus), to |-> subs]
  /\ UNCHANGED <<relayOnly, conn, subs, broken, acked, owed, faults>>

NextInFan(c) == fan' = IF fan.to = {c} THEN Quiet ELSE [fan EXCEPT !.to = @ \ {c}]

\* Faulty: no timeout in Send, which waits for a client that does not read.
FanOutWaits ==
  /\ \E c \in fan.to \ broken :
       /\ owed' = [owed EXCEPT ![c] = @ \ {fan.event}]
       /\ NextInFan(c)
  /\ UNCHANGED <<relayOnly, bus, conn, subs, broken, acked, faults>>

\* One of the connections read before: it is skipped if it is no longer
\* registered, and the error of Send is ignored, so what a broken connection
\* does not get nobody sends again.
FanOut ==
  /\ \E c \in fan.to :
       /\ owed' = IF c \in Registered \ broken
                  THEN [owed EXCEPT ![c] = @ \ {fan.event}] ELSE owed
       /\ NextInFan(c)
  /\ UNCHANGED <<relayOnly, bus, conn, subs, broken, acked, faults>>

\* Redis pub/sub keeps nothing for a subscriber that is reconnecting.
LoseEvent ==
  /\ bus # <<>>
  /\ faults > 0 /\ faults' = faults - 1
  /\ bus' = Tail(bus)
  /\ owed' = [c \in Conns |-> owed[c] \ {Head(bus)}]
  /\ UNCHANGED <<relayOnly, relayVars>>

\* ServeHTTP up to the read loop.
Connect(c) ==
  /\ conn[c] = "new"
  /\ conn' = [conn EXCEPT ![c] = "idle"]
  /\ UNCHANGED <<relayOnly, bus, fan, subs, broken, acked, owed, faults>>

\* TypeSubscribe: the backfill since the client's last event is read and sent
\* (which events it holds is not tracked: nothing depends on them; for a
\* connection that is subscribed already nothing else would happen),
Resume(c) ==
  /\ conn[c] = "idle" /\ c \notin broken \cup subs
  /\ conn' = [conn EXCEPT ![c] = "subscribe"]
  /\ UNCHANGED <<relayOnly, bus, fan, subs, broken, acked, owed, faults>>

\* Faulty: acknowledged before it is registered.
SubscribeLate(c) ==
  /\ \/ conn[c] = "subscribe" /\ UNCHANGED subs /\ conn' = [conn EXCEPT ![c] = "ack"]
     \/ conn[c] = "idle" /\ c \in acked /\ subs' = subs \cup {c} /\ UNCHANGED conn
  /\ UNCHANGED <<relayOnly, bus, fan, broken, acked, owed, faults>>

\* then the connection is registered,
Subscribe(c) ==
  /\ conn[c] = "subscribe"
  /\ subs' = subs \cup {c}
  /\ conn' = [conn EXCEPT ![c] = "ack"]
  /\ UNCHANGED <<relayOnly, bus, fan, broken, acked, owed, faults>>

\* then the subscription is acknowledged, if the connection still works.
Ack(c) ==
  /\ conn[c] = "ack"
  /\ conn' = [conn EXCEPT ![c] = "idle"]
  /\ acked' = IF c \in broken THEN acked ELSE acked \cup {c}
  /\ UNCHANGED <<relayOnly, bus, fan, subs, broken, owed, faults>>

Unsubscribe(c) ==
  /\ conn[c] = "idle" /\ c \in subs \ broken
  /\ subs' = subs \ {c}
  /\ acked' = acked \ {c} /\ owed' = [owed EXCEPT ![c] = {}]
  /\ UNCHANGED <<relayOnly, bus, fan, conn, broken, faults>>

\* The WebSocket stops working: the client has closed it or is gone, or a Send
\* has timed out after 5 s, whereupon the library closes it.  The read loop
\* finds out at its next read; from now on nothing is read from it and every
\* Send to it fails.
Break(c) ==
  /\ c \in Registered \ broken
  /\ faults > 0 /\ faults' = faults - 1
  /\ broken' = broken \cup {c}
  /\ acked' = acked \ {c} /\ owed' = [owed EXCEPT ![c] = {}]
  /\ UNCHANGED <<relayOnly, bus, fan, conn, subs>>

\* The read fails and the deferred function takes one lock after the other; a
\* fan-out under way keeps the id.
RemoveAll(c) ==
  /\ conn[c] = "idle" /\ c \in broken
  /\ subs' = subs \ {c}
  /\ conn' = [conn EXCEPT ![c] = "removing"]
  /\ UNCHANGED <<relayOnly, bus, fan, broken, acked, owed, faults>>

Remove(c) ==
  /\ conn[c] = "removing"
  /\ conn' = [conn EXCEPT ![c] = "closed"]
  /\ UNCHANGED <<relayOnly, bus, fan, subs, broken, acked, owed, faults>>

ReadLoop(c) == Subscribe(c) \/ Ack(c) \/ RemoveAll(c) \/ Remove(c)

Client(c) == Connect(c) \/ Resume(c) \/ Unsubscribe(c) \/ Break(c)

Next ==
  \/ Post
  \/ \E d \in Dispatchers : Dispatch(d) \/ PublishFails(d) \/ Rollback(d)
  \/ \E c \in Conns : ReadLoop(c) \/ Client(c)
  \/ Receive \/ FanOut \/ LoseEvent

\* Every dispatcher goes on: the safety tick wakes it if no NOTIFY does.  The
\* relay's subscription goes on: a Send ends after 5 s, whatever the client
\* does.  Nothing is assumed of clients, read loops or faults.
Fairness ==
  /\ \A d \in Dispatchers : WF_vars(Dispatch(d))
  /\ WF_vars(Receive \/ FanOut)

Spec == Init /\ [][Next]_vars

FairSpec == Spec /\ Fairness

-----------------------------------------------------------------------------
(* Properties *)

\* The tables, the queues and the loops stay in the ranges of the code.
TypeOK ==
  /\ stored \in 0..MaxMessages /\ outbox \subseteq 1..stored
  /\ disp \in [Dispatchers -> [at : {"fetch", "publish", "parked"},
                               lock : SUBSET Seqs, rows : SUBSET Seqs, done : SUBSET Seqs]]
  /\ bus \in Seq(Seqs) /\ fan \in [event : Seqs \cup {None}, to : SUBSET Conns]
  /\ conn \in [Conns -> {"new", "idle", "subscribe", "ack", "removing", "closed"}]
  /\ subs \subseteq Conns /\ broken \subseteq Conns
  /\ acked \subseteq Conns /\ owed \in [Conns -> SUBSET Seqs]
  /\ published \in [Seqs -> Nat] /\ faults \in 0..MaxFaults

\* An event leaves the outbox only after it was published.
NothingDropped == \A n \in 1..stored : n \in outbox \/ published[n] > 0

\* Dispatchers that share the table publish no event twice unless one of them
\* failed in between.
DuplicatesNeedAFault ==
  faults = MaxFaults => \A n \in Seqs : published[n] <= 1

\* From the acknowledgement of its subscription on, and as long as it works, no
\* connection falls out of a fan-out: an event published for it is sent, or is
\* still on its way to the relay or waits for its turn, unless Redis lost it.
AckedMissesNothing ==
  \A c \in Conns : \A n \in owed[c] :
    n \in {bus[i] : i \in DOMAIN bus} \/ (fan.event = n /\ c \in fan.to)

\* No connection is kept behind for ever: one that goes on working is sent all
\* that it is owed, although others break, close or are gone while the fan-out
\* holds their ids, since it skips them or its Send to them ends.
OwedIsSent == \A c \in Conns : owed[c] # {} ~> owed[c] = {}

\* A message that was stored is published, whatever died on the way.
StoredIsPublished ==
  \A n \in Seqs : n <= stored ~> published[n] > 0

=============================================================================
