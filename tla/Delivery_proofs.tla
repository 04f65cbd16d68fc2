--------------------------- MODULE Delivery_proofs --------------------------
(***************************************************************************)
(* Proofs about Delivery for any number of dispatchers, connections and    *)
(* messages, any batch size and any number of faults.                      *)
(***************************************************************************)
EXTENDS Delivery, SequenceTheorems, TLAPS

USE DeliveryAssumption

-----------------------------------------------------------------------------
(* Types.  TypeOK is inductive as it stands. *)

Batches == [at : {"fetch", "publish", "parked"},
            lock : SUBSET Seqs, rows : SUBSET Seqs, done : SUBSET Seqs]

LEMMA RestingIsBatch ==
  /\ Resting \in Batches /\ Parked \in Batches
  /\ Resting.lock = {} /\ Resting.rows = {} /\ Resting.done = {} /\ Resting.at = "fetch"
  /\ Parked.lock = {} /\ Parked.rows = {} /\ Parked.done = {} /\ Parked.at = "parked"
BY DEF Resting, Parked, Batches

\* How the record of a dispatcher changes, for each of its actions.
LEMMA BatchOf ==
  ASSUME TypeOK, NEW d \in Dispatchers, NEW R \in SUBSET outbox, Batch(d, R)
  PROVE  /\ disp' \in [Dispatchers -> Batches]
         /\ \A e \in Dispatchers \ {d} : disp'[e] = disp[e]
         /\ disp'[d].lock = R /\ disp'[d].rows = R /\ disp'[d].done = {}
         /\ R # {} => disp'[d].at = "publish"
<1>1. disp \in [Dispatchers -> Batches] /\ R \subseteq Seqs
  BY DEF TypeOK, Batches, Seqs
<1>2. CASE R = {}
  BY <1>1, <1>2, RestingIsBatch DEF Batch
<1>3. CASE R # {}
  <2>1. [at |-> "publish", lock |-> R, rows |-> R, done |-> {}] \in Batches
    BY <1>1 DEF Batches
  <2> QED
    BY <1>1, <1>3, <2>1 DEF Batch
<1> QED
  BY <1>2, <1>3

LEMMA PublishOf ==
  ASSUME TypeOK, NEW d \in Dispatchers, NEW n \in disp[d].rows, Turn(d, n),
         NEW D \in {{}, {n}},
         disp' = [disp EXCEPT ![d].rows = @ \ {n}, ![d].done = @ \cup D]
           \/ (D = {} /\ disp' = [disp EXCEPT ![d].rows = @ \ {n}])
  PROVE  /\ disp' \in [Dispatchers -> Batches] /\ n \in Seqs
         /\ \A e \in Dispatchers \ {d} : disp'[e] = disp[e]
         /\ disp'[d].lock = disp[d].lock /\ disp'[d].rows = disp[d].rows \ {n}
         /\ disp'[d].done = disp[d].done \cup D /\ disp'[d].at = "publish"
<1>1. disp \in [Dispatchers -> Batches] /\ disp[d] \in Batches /\ n \in Seqs
  BY DEF TypeOK, Batches
<1> QED
  BY <1>1 DEF Batches, Turn

LEMMA TypeInit == Init => TypeOK
<1> SUFFICES ASSUME Init PROVE TypeOK
  OBVIOUS
<1>1. disp \in [Dispatchers -> Batches]
  BY RestingIsBatch DEF Init
<1>2. bus \in Seq(Seqs) /\ fan \in [event : Seqs \cup {None}, to : SUBSET Conns]
  BY DEF Init, Quiet
<1> QED
  BY <1>1, <1>2 DEF Init, TypeOK, Batches

LEMMA DispatchTypes ==
  ASSUME TypeOK, NEW d \in Dispatchers, Dispatch(d) \/ PublishFails(d) \/ Rollback(d)
  PROVE  TypeOK'
<1>1. UNCHANGED <<stored, fan, conn, subs, broken, acked>>
  BY DEF Dispatch, PublishFails, Rollback, Fetch, Publish, Commit, Wake, dispOnly, relayVars
<1>2. disp \in [Dispatchers -> Batches]
  BY DEF TypeOK, Batches
<1>3. CASE Fetch(d)
  <2>1. \E R \in SUBSET outbox : Batch(d, R)
    BY <1>3 DEF Fetch
  <2>2. disp' \in [Dispatchers -> Batches]
    BY <2>1, BatchOf
  <2> QED
    BY <1>1, <1>3, <2>2 DEF Fetch, TypeOK, Batches
<1>4. CASE Publish(d)
  <2>1. PICK n \in disp[d].rows :
          /\ Turn(d, n) /\ bus' = Append(bus, n)
          /\ published' = [published EXCEPT ![n] = @ + 1]
          /\ owed' = [c \in Conns |-> IF c \in acked THEN owed[c] \cup {n} ELSE owed[c]]
          /\ disp' = [disp EXCEPT ![d].rows = @ \ {n}, ![d].done = @ \cup {n}]
    BY <1>4 DEF Publish
  <2>2. disp' \in [Dispatchers -> Batches] /\ n \in Seqs
    BY <2>1, PublishOf
  <2>3. bus' \in Seq(Seqs) /\ published' \in [Seqs -> Nat] /\ owed' \in [Conns -> SUBSET Seqs]
    BY <2>1, <2>2, AppendProperties DEF TypeOK
  <2> QED
    BY <1>1, <1>4, <2>2, <2>3 DEF Publish, TypeOK, Batches
<1>5. CASE PublishFails(d)
  <2>1. PICK n \in disp[d].rows : Turn(d, n) /\ disp' = [disp EXCEPT ![d].rows = @ \ {n}]
    BY <1>5 DEF PublishFails
  <2>2. disp' \in [Dispatchers -> Batches]
    BY <2>1, PublishOf
  <2>3. faults' \in 0..MaxFaults
    BY <1>5 DEF PublishFails, TypeOK
  <2> QED
    BY <1>1, <1>5, <2>2, <2>3 DEF PublishFails, TypeOK, Batches
<1>6. CASE Commit(d)
  <2>1. disp' \in [Dispatchers -> Batches]
    BY <1>2, <1>6, RestingIsBatch DEF Commit
  <2> QED
    BY <1>1, <1>6, <2>1 DEF Commit, TypeOK, Batches
<1>7. CASE Wake(d) \/ Rollback(d)
  <2>1. disp' \in [Dispatchers -> Batches]
    BY <1>2, <1>7, RestingIsBatch DEF Wake, Rollback
  <2>2. faults' \in 0..MaxFaults
    BY <1>7 DEF Wake, Rollback, TypeOK
  <2> QED
    BY <1>1, <1>7, <2>1, <2>2 DEF Wake, Rollback, TypeOK, Batches
<1> QED
  BY <1>3, <1>4, <1>5, <1>6, <1>7 DEF Dispatch

LEMMA RelayTypes ==
  ASSUME TypeOK,
         \/ Receive \/ FanOut \/ LoseEvent
         \/ \E c \in Conns : ReadLoop(c) \/ Client(c)
  PROVE  TypeOK'
<1>1. UNCHANGED <<stored, outbox, disp, published>>
  BY DEF Receive, FanOut, LoseEvent, ReadLoop, Client, Subscribe, Ack, Connect, Resume,
         Unsubscribe, Break, RemoveAll, Remove, relayOnly
<1>2. Quiet \in [event : Seqs \cup {None}, to : SUBSET Conns]
  BY DEF Quiet
<1>3. bus # <<>> => Head(bus) \in Seqs /\ Tail(bus) \in Seq(Seqs)
  BY HeadTailProperties DEF TypeOK
<1>4. CASE Receive
  <2>1. bus' \in Seq(Seqs) /\ fan' \in [event : Seqs \cup {None}, to : SUBSET Conns]
    BY <1>2, <1>3, <1>4 DEF Receive, TypeOK
  <2> QED
    BY <1>1, <1>4, <2>1 DEF Receive, TypeOK
<1>5. CASE FanOut
  <2>1. PICK c \in fan.to :
          /\ owed' = IF c \in Registered \ broken
                     THEN [owed EXCEPT ![c] = @ \ {fan.event}] ELSE owed
          /\ fan' = IF fan.to = {c} THEN Quiet ELSE [fan EXCEPT !.to = @ \ {c}]
    BY <1>5 DEF FanOut, NextInFan
  <2>2. fan \in [event : Seqs \cup {None}, to : SUBSET Conns] /\ c \in Conns
    BY <2>1 DEF TypeOK
  <2>3. owed' \in [Conns -> SUBSET Seqs]
    BY <2>1, <2>2 DEF TypeOK
  <2>4. fan' \in [event : Seqs \cup {None}, to : SUBSET Conns]
    BY <1>2, <2>1, <2>2
  <2> QED
    BY <1>1, <1>5, <2>3, <2>4 DEF FanOut, TypeOK
<1>6. CASE LoseEvent
  <2>1. /\ bus' \in Seq(Seqs) /\ faults' \in 0..MaxFaults
        /\ owed' \in [Conns -> SUBSET Seqs]
    BY <1>3, <1>6 DEF LoseEvent, TypeOK
  <2> QED
    BY <1>1, <1>6, <2>1 DEF LoseEvent, relayVars, TypeOK
<1>7. ASSUME NEW c \in Conns, Subscribe(c) \/ Ack(c) \/ Connect(c) \/ Resume(c) \/ Unsubscribe(c)
      PROVE  TypeOK'
  BY <1>1, <1>7 DEF Subscribe, Ack, Connect, Resume, Unsubscribe, TypeOK
<1>8. ASSUME NEW c \in Conns, Break(c) \/ RemoveAll(c) \/ Remove(c) PROVE TypeOK'
  <2>1. UNCHANGED <<bus, fan>> /\ subs' \subseteq subs /\ acked' \subseteq acked
    BY <1>8 DEF Break, RemoveAll, Remove
  <2>2. conn' \in [Conns -> {"new", "idle", "subscribe", "ack", "removing", "closed"}]
    BY <1>8 DEF Break, RemoveAll, Remove, TypeOK
  <2>3. broken' \subseteq Conns /\ owed' \in [Conns -> SUBSET Seqs] /\ faults' \in 0..MaxFaults
    BY <1>8 DEF Break, RemoveAll, Remove, TypeOK
  <2> QED
    BY <1>1, <2>1, <2>2, <2>3 DEF TypeOK
<1> QED
  BY <1>4, <1>5, <1>6, <1>7, <1>8 DEF ReadLoop, Client

LEMMA TypeStep == TypeOK /\ [Next]_vars => TypeOK'
<1> SUFFICES ASSUME TypeOK, [Next]_vars PROVE TypeOK'
  OBVIOUS
<1>1. CASE Post
  BY <1>1 DEF Post, relayVars, TypeOK
<1>2. CASE UNCHANGED vars
  BY <1>2 DEF vars, relayVars, TypeOK
<1> QED
  BY <1>1, <1>2, DispatchTypes, RelayTypes DEF Next

\* The tables, queues and loops stay in the ranges of the code
\* (message_service.py, dispatcher.py, ws.go).
THEOREM TypeCorrect == Spec => []TypeOK
BY TypeInit, TypeStep, PTL DEF Spec

-----------------------------------------------------------------------------
(* The outbox.  A batch holds rows nobody else holds; what it will delete was  *)
(* published; and as long as nothing has failed, what is still in the outbox   *)
(* was published only by the batch that is about to delete it.                 *)

Dropless ==
  /\ NothingDropped
  /\ \A d \in Dispatchers : \A n \in disp[d].done : published[n] > 0

Once ==
  faults = MaxFaults =>
    /\ \A n \in Seqs : published[n] <= 1
    /\ \A n \in Seqs : n > stored => published[n] = 0
    /\ \A n \in outbox \ Locked : published[n] = 0
    /\ \A d \in Dispatchers :
         /\ disp[d].lock = disp[d].rows \cup disp[d].done
         /\ \A n \in disp[d].rows : published[n] = 0

Apart ==
  \A d \in Dispatchers :
    /\ disp[d].at # "publish" => disp[d].lock = {}
    /\ disp[d].rows \subseteq disp[d].lock /\ disp[d].done \subseteq disp[d].lock
    /\ disp[d].lock \subseteq outbox
    /\ \A e \in Dispatchers \ {d} : disp[d].lock \cap disp[e].lock = {}

OutboxInv == TypeOK /\ Dropless /\ Apart /\ Once

LEMMA OutboxInit == Init => OutboxInv
<1> SUFFICES ASSUME Init PROVE OutboxInv
  OBVIOUS
<1>1. Dropless /\ Apart /\ Once
  BY RestingIsBatch DEF Init, Dropless, NothingDropped, Apart, Once, Locked
<1> QED
  BY <1>1, TypeInit DEF OutboxInv

LEMMA FetchOutbox ==
  ASSUME OutboxInv, NEW d \in Dispatchers, Fetch(d)
  PROVE  Dropless' /\ Apart' /\ Once'
<1>1. UNCHANGED <<stored, outbox, published, faults>>
  BY DEF Fetch, dispOnly
<1>2. PICK R \in SUBSET (outbox \ Locked) : Batch(d, R)
  BY DEF Fetch
<1>3. TypeOK /\ disp[d].at = "fetch" /\ disp[d].lock = {}
  BY DEF Fetch, OutboxInv, Apart
<1>4. /\ \A e \in Dispatchers \ {d} : disp'[e] = disp[e]
      /\ disp'[d].lock = R /\ disp'[d].rows = R /\ disp'[d].done = {}
      /\ R # {} => disp'[d].at = "publish"
  BY <1>2, <1>3, BatchOf
<1>5. \A e \in Dispatchers : disp[e].lock \cap R = {}
  BY <1>2 DEF Locked
<1>6. Dropless'
  BY <1>1, <1>4 DEF OutboxInv, Dropless, NothingDropped
<1>7. Apart'
  BY <1>1, <1>2, <1>4, <1>5 DEF OutboxInv, Apart
<1>8. Locked' = Locked \cup R
  BY <1>3, <1>4 DEF Locked
<1>9. Once'
  BY <1>1, <1>2, <1>4, <1>8 DEF OutboxInv, Once
<1> QED
  BY <1>6, <1>7, <1>9

LEMMA PublishOutbox ==
  ASSUME OutboxInv, NEW d \in Dispatchers, Publish(d)
  PROVE  Dropless' /\ Apart' /\ Once'
<1>1. UNCHANGED <<stored, outbox, faults>> /\ TypeOK
  BY DEF Publish, dispOnly, OutboxInv
<1>2. PICK n \in disp[d].rows :
        /\ Turn(d, n) /\ published' = [published EXCEPT ![n] = @ + 1]
        /\ disp' = [disp EXCEPT ![d].rows = @ \ {n}, ![d].done = @ \cup {n}]
  BY DEF Publish
<1>3. /\ n \in Seqs /\ \A e \in Dispatchers \ {d} : disp'[e] = disp[e]
      /\ disp'[d].lock = disp[d].lock /\ disp'[d].rows = disp[d].rows \ {n}
      /\ disp'[d].done = disp[d].done \cup {n} /\ disp'[d].at = "publish"
  BY <1>1, <1>2, PublishOf
<1>4. /\ published'[n] = published[n] + 1 /\ published[n] \in Nat
      /\ \A k \in Seqs \ {n} : published'[k] = published[k]
  BY <1>1, <1>2, <1>3 DEF TypeOK
<1>5. n \in disp[d].lock /\ n \in outbox /\ n \in 1..stored
      /\ \A e \in Dispatchers \ {d} : n \notin disp[e].lock
  BY <1>1, <1>2 DEF OutboxInv, Apart, TypeOK
<1>6. \A e \in Dispatchers : disp[e].done \subseteq Seqs /\ disp[e].rows \subseteq disp[e].lock
  BY <1>1 DEF OutboxInv, Apart, TypeOK
<1>7. Dropless'
  <2>1. \A k \in 1..stored : k \in Seqs
    BY <1>1 DEF TypeOK, Seqs
  <2>2. NothingDropped'
    BY <1>1, <1>4, <1>5, <2>1 DEF OutboxInv, Dropless, NothingDropped
  <2>3. \A e \in Dispatchers : \A k \in disp'[e].done : published'[k] > 0
    BY <1>3, <1>4, <1>6 DEF OutboxInv, Dropless
  <2> QED
    BY <2>2, <2>3 DEF Dropless
<1>8. Apart'
  BY <1>1, <1>3, <1>5 DEF OutboxInv, Apart
<1>9. Locked' = Locked
  BY <1>3 DEF Locked
<1>10. Once'
  <2> SUFFICES ASSUME faults' = MaxFaults
               PROVE  /\ \A k \in Seqs : published'[k] <= 1
                      /\ \A k \in Seqs : k > stored' => published'[k] = 0
                      /\ \A k \in outbox' \ Locked' : published'[k] = 0
                      /\ \A e \in Dispatchers :
                           /\ disp'[e].lock = disp'[e].rows \cup disp'[e].done
                           /\ \A k \in disp'[e].rows : published'[k] = 0
    BY DEF Once
  <2>1. /\ \A k \in Seqs : published[k] <= 1
        /\ \A k \in Seqs : k > stored => published[k] = 0
        /\ \A k \in outbox \ Locked : published[k] = 0
        /\ \A e \in Dispatchers :
             /\ disp[e].lock = disp[e].rows \cup disp[e].done
             /\ \A k \in disp[e].rows : published[k] = 0
    BY <1>1 DEF OutboxInv, Once
  <2>2. n \in Locked /\ published[n] = 0 /\ outbox \subseteq Seqs
    BY <1>1, <1>2, <1>5, <2>1 DEF Locked, TypeOK, Seqs
  <2>3. \A k \in Seqs : published'[k] <= 1
    BY <1>4, <2>1, <2>2
  <2>4. \A k \in Seqs : k > stored' => published'[k] = 0
    BY <1>1, <1>4, <1>5, <2>1 DEF TypeOK
  <2>5. \A k \in outbox' \ Locked' : published'[k] = 0
    BY <1>1, <1>4, <1>9, <2>1, <2>2
  <2>6. ASSUME NEW e \in Dispatchers
        PROVE  /\ disp'[e].lock = disp'[e].rows \cup disp'[e].done
               /\ \A k \in disp'[e].rows : published'[k] = 0
    <3>1. disp[e].rows \subseteq Seqs
      BY <1>1 DEF TypeOK
    <3>2. CASE e = d
      <4>1. disp[d].lock = disp[d].rows \cup disp[d].done
        BY <2>1
      <4>2. disp'[e].lock = disp'[e].rows \cup disp'[e].done
        BY <1>3, <3>2, <4>1
      <4>3. \A k \in disp'[e].rows : k \in disp[e].rows /\ k \in Seqs \ {n}
        BY <1>3, <3>1, <3>2
      <4>4. \A k \in disp'[e].rows : published'[k] = 0
        BY <1>4, <2>1, <4>3
      <4> QED
        BY <4>2, <4>4
    <3>3. CASE e # d
      <4>1. disp'[e] = disp[e] /\ n \notin disp[e].rows
        BY <1>3, <1>5, <1>6, <3>3
      <4>2. \A k \in disp[e].rows : k \in Seqs \ {n}
        BY <3>1, <4>1
      <4>3. \A k \in disp[e].rows : published'[k] = 0
        BY <1>4, <2>1, <4>2
      <4> QED
        BY <2>1, <4>1, <4>3
    <3> QED
      BY <3>2, <3>3
  <2> QED
    BY <2>3, <2>4, <2>5, <2>6
<1> QED
  BY <1>7, <1>8, <1>10

\* A failed step leaves the outbox alone and makes Once vacuous.
LEMMA FaultOutbox ==
  ASSUME OutboxInv, NEW d \in Dispatchers, PublishFails(d) \/ Rollback(d)
  PROVE  Dropless' /\ Apart' /\ Once'
<1>1. /\ UNCHANGED <<stored, outbox, published>>
      /\ faults' # MaxFaults /\ TypeOK
  BY DEF PublishFails, Rollback, dispOnly, OutboxInv, TypeOK
<1>2. /\ \A e \in Dispatchers \ {d} : disp'[e] = disp[e]
      /\ disp'[d].lock \subseteq disp[d].lock
      /\ disp'[d].rows \subseteq disp'[d].lock /\ disp'[d].done \subseteq disp'[d].lock
      /\ disp'[d].done \subseteq disp[d].done
      /\ disp'[d].at # "publish" => disp'[d].lock = {}
  <2>1. CASE PublishFails(d)
    <3>1. PICK n \in disp[d].rows : Turn(d, n) /\ disp' = [disp EXCEPT ![d].rows = @ \ {n}]
      BY <2>1 DEF PublishFails
    <3>2. /\ \A e \in Dispatchers \ {d} : disp'[e] = disp[e]
          /\ disp'[d].lock = disp[d].lock /\ disp'[d].rows = disp[d].rows \ {n}
          /\ disp'[d].done = disp[d].done \cup {} /\ disp'[d].at = "publish"
      BY <1>1, <3>1, PublishOf
    <3> QED
      BY <3>2 DEF OutboxInv, Apart
  <2>2. CASE Rollback(d)
    BY <1>1, <2>2, RestingIsBatch DEF Rollback, TypeOK
  <2> QED
    BY <2>1, <2>2
<1>3. Dropless'
  BY <1>1, <1>2 DEF OutboxInv, Dropless, NothingDropped
<1>4. Apart'
  BY <1>1, <1>2 DEF OutboxInv, Apart
<1> QED
  BY <1>1, <1>3, <1>4 DEF Once

\* The transaction ends, or the loop starts over: nothing is held any more.
LEMMA CommitOutbox ==
  ASSUME OutboxInv, NEW d \in Dispatchers, Commit(d) \/ Wake(d)
  PROVE  Dropless' /\ Apart' /\ Once'
<1>1. UNCHANGED <<stored, published, faults>> /\ TypeOK
  BY DEF Commit, Wake, dispOnly, OutboxInv
<1>2. /\ \A e \in Dispatchers \ {d} : disp'[e] = disp[e]
      /\ disp'[d].lock = {} /\ disp'[d].rows = {} /\ disp'[d].done = {}
  BY <1>1, RestingIsBatch DEF Commit, Wake, TypeOK
<1>3. /\ outbox' = outbox \ disp[d].done
      /\ disp[d].rows = {}
  BY DEF Commit, Wake, OutboxInv, Apart
<1>4. Dropless'
  BY <1>1, <1>2, <1>3 DEF OutboxInv, Dropless, NothingDropped
<1>5. Apart'
  BY <1>2, <1>3 DEF OutboxInv, Apart
<1>6. Once'
  <2> SUFFICES ASSUME faults = MaxFaults
               PROVE  /\ \A n \in outbox' \ Locked' : published[n] = 0
                      /\ \A e \in Dispatchers :
                           /\ disp'[e].lock = disp'[e].rows \cup disp'[e].done
                           /\ \A n \in disp'[e].rows : published[n] = 0
    BY <1>1 DEF OutboxInv, Once
  <2>1. /\ \A n \in outbox \ Locked : published[n] = 0
        /\ \A e \in Dispatchers :
             /\ disp[e].lock = disp[e].rows \cup disp[e].done
             /\ \A n \in disp[e].rows : published[n] = 0
    BY DEF OutboxInv, Once
  <2>2. outbox' \ Locked' \subseteq outbox \ Locked
    BY <1>2, <1>3, <2>1 DEF Locked
  <2> QED
    BY <1>2, <2>1, <2>2
<1> QED
  BY <1>4, <1>5, <1>6

LEMMA OutboxStep == OutboxInv /\ [Next]_vars => OutboxInv'
<1> SUFFICES ASSUME OutboxInv, [Next]_vars PROVE Dropless' /\ Apart' /\ Once'
  BY TypeStep DEF OutboxInv
<1>1. CASE Post
  <2>1. /\ stored' = stored + 1 /\ stored \in Nat /\ outbox' = outbox \cup {stored + 1}
        /\ UNCHANGED <<disp, published, faults>> /\ stored + 1 \in Seqs
        /\ outbox \subseteq 1..stored /\ published \in [Seqs -> Nat]
    BY <1>1 DEF Post, OutboxInv, TypeOK, Seqs
  <2>2. Dropless'
    BY <2>1 DEF OutboxInv, Dropless, NothingDropped
  <2>3. Apart'
    BY <2>1 DEF OutboxInv, Apart
  <2>4. Locked' = Locked
    BY <2>1 DEF Locked
  <2>5. \A n \in Seqs : n > stored' => n > stored
    BY <2>1 DEF Seqs
  <2>6. Once'
    BY <2>1, <2>4, <2>5 DEF OutboxInv, Once
  <2> QED
    BY <2>2, <2>3, <2>6
<1>2. ASSUME NEW d \in Dispatchers, Dispatch(d) \/ PublishFails(d) \/ Rollback(d)
      PROVE  Dropless' /\ Apart' /\ Once'
  BY <1>2, FetchOutbox, PublishOutbox, FaultOutbox, CommitOutbox DEF Dispatch
<1>3. CASE \/ Receive \/ FanOut \/ LoseEvent \/ UNCHANGED vars
           \/ \E c \in Conns : ReadLoop(c) \/ Client(c)
  <2>1. UNCHANGED <<stored, outbox, disp, published>>
    BY <1>3 DEF Receive, FanOut, LoseEvent, ReadLoop, Client, Subscribe, Ack, Connect, Resume,
                Unsubscribe, Break, RemoveAll, Remove, relayOnly, vars
  <2>2. faults' = faults \/ faults' # MaxFaults
    BY <1>3 DEF Receive, FanOut, LoseEvent, ReadLoop, Client, Subscribe, Ack, Connect, Resume,
                Unsubscribe, Break, RemoveAll, Remove, vars, OutboxInv, TypeOK
  <2>3. Locked' = Locked
    BY <2>1 DEF Locked
  <2> QED
    BY <2>1, <2>2, <2>3 DEF OutboxInv, Dropless, NothingDropped, Apart, Once
<1> QED
  BY <1>1, <1>2, <1>3 DEF Next

\* dispatch_one_batch deletes only what it has published: no event leaves the
\* outbox unpublished, whatever fails or dies.
THEOREM NothingIsDropped == Spec => []NothingDropped
<1>1. OutboxInv => NothingDropped
  BY DEF OutboxInv, Dropless
<1> QED
  BY <1>1, OutboxInit, OutboxStep, PTL DEF Spec

\* FOR UPDATE SKIP LOCKED: any number of dispatchers publish an event at most
\* once as long as nothing fails.
THEOREM NoDuplicateWithoutFault == Spec => []DuplicatesNeedAFault
<1>1. OutboxInv => DuplicatesNeedAFault
  BY DEF OutboxInv, Once, DuplicatesNeedAFault
<1> QED
  BY <1>1, OutboxInit, OutboxStep, PTL DEF Spec

-----------------------------------------------------------------------------
(* The relay.  A connection is subscribed when it is told so, and stays so and *)
(* registered as long as it works, since only a broken one is removed; so an   *)
(* event that is owed to a connection is still on its way to the relay or in   *)
(* the fan-out under way, which sends it when its turn comes.                  *)

On(s) == {s[i] : i \in DOMAIN s}

LEMMA AppendOn ==
  ASSUME NEW S, NEW s \in Seq(S), NEW n \in S
  PROVE  On(Append(s, n)) = On(s) \cup {n}
<1>1. /\ Append(s, n) \in Seq(S) /\ Len(Append(s, n)) = Len(s) + 1
      /\ Append(s, n)[Len(s) + 1] = n
      /\ \A i \in 1..Len(s) : Append(s, n)[i] = s[i]
  BY AppendProperties
<1>2. DOMAIN s = 1..Len(s) /\ DOMAIN Append(s, n) = 1..(Len(s) + 1) /\ Len(s) \in Nat
  BY <1>1, LenProperties
<1> QED
  BY <1>1, <1>2 DEF On

LEMMA TailOn ==
  ASSUME NEW S, NEW s \in Seq(S), s # <<>>
  PROVE  On(s) \subseteq On(Tail(s)) \cup {Head(s)}
<1>1. /\ Tail(s) \in Seq(S) /\ Len(Tail(s)) = Len(s) - 1 /\ Head(s) = s[1]
      /\ \A i \in 1..Len(Tail(s)) : Tail(s)[i] = s[i + 1]
  BY HeadTailProperties
<1>2. DOMAIN s = 1..Len(s) /\ DOMAIN Tail(s) = 1..(Len(s) - 1) /\ Len(s) \in Nat
  BY <1>1, LenProperties
<1>3. ASSUME NEW i \in DOMAIN s PROVE s[i] \in On(Tail(s)) \cup {Head(s)}
  <2>1. CASE i = 1
    BY <1>1, <2>1
  <2>2. CASE i # 1
    <3>1. i - 1 \in DOMAIN Tail(s) /\ Tail(s)[i - 1] = s[i]
      BY <1>1, <1>2, <2>2
    <3> QED
      BY <3>1 DEF On
  <2> QED
    BY <2>1, <2>2
<1> QED
  BY <1>3 DEF On

Subscribed ==
  /\ acked \subseteq (subs \cap Registered) \ broken
  /\ \A c \in Conns :
       /\ conn[c] = "ack" => c \in subs
       /\ conn[c] = "removing" => c \in broken
       /\ owed[c] # {} => c \in acked

RelayInv == TypeOK /\ Subscribed /\ AckedMissesNothing

LEMMA RelayInit == Init => RelayInv
<1> SUFFICES ASSUME Init PROVE RelayInv
  OBVIOUS
<1>1. Subscribed /\ AckedMissesNothing
  BY DEF Init, Subscribed, AckedMissesNothing, Quiet
<1> QED
  BY <1>1, TypeInit DEF RelayInv

LEMMA OwedOn ==
  RelayInv <=> /\ TypeOK /\ Subscribed
               /\ \A c \in Conns : \A n \in owed[c] :
                    n \in On(bus) \/ (fan.event = n /\ c \in fan.to)
BY DEF RelayInv, AckedMissesNothing, On

LEMMA BusStep ==
  ASSUME RelayInv, TypeOK', \/ \E d \in Dispatchers : Publish(d)
                            \/ Receive \/ FanOut \/ LoseEvent
  PROVE  RelayInv'
<1>1. /\ TypeOK /\ Subscribed /\ UNCHANGED <<conn, subs, broken, acked>>
      /\ \A c \in Conns : \A n \in owed[c] :
           n \in On(bus) \/ (fan.event = n /\ c \in fan.to)
  BY OwedOn DEF Publish, Receive, FanOut, LoseEvent, dispOnly, relayVars
<1> SUFFICES Subscribed' /\ \A c \in Conns : \A n \in owed'[c] :
               n \in On(bus') \/ (fan'.event = n /\ c \in fan'.to)
  BY DEF RelayInv, AckedMissesNothing, On
<1>2. ASSUME NEW d \in Dispatchers, Publish(d)
      PROVE  Subscribed' /\ \A c \in Conns : \A n \in owed'[c] :
               n \in On(bus') \/ (fan'.event = n /\ c \in fan'.to)
  <2>1. PICK n \in disp[d].rows :
          /\ bus' = Append(bus, n)
          /\ owed' = [c \in Conns |-> IF c \in acked THEN owed[c] \cup {n} ELSE owed[c]]
    BY <1>2 DEF Publish
  <2>2. fan' = fan /\ n \in Seqs /\ bus \in Seq(Seqs)
    BY <1>1, <1>2 DEF Publish, dispOnly, relayVars, TypeOK
  <2>3. On(bus') = On(bus) \cup {n}
    BY <2>1, <2>2, AppendOn
  <2>4. Subscribed'
    BY <1>1, <2>1, <2>2 DEF Subscribed, Registered
  <2> QED
    BY <1>1, <2>1, <2>2, <2>3, <2>4
<1>3. CASE Receive
  <2>1. /\ fan = Quiet /\ bus # <<>> /\ bus' = Tail(bus) /\ owed' = owed
        /\ fan' = IF subs = {} THEN Quiet ELSE [event |-> Head(bus), to |-> subs]
    BY <1>3 DEF Receive
  <2>2. On(bus) \subseteq On(bus') \cup {Head(bus)}
    BY <1>1, <2>1, TailOn DEF TypeOK
  <2>3. Subscribed'
    BY <1>1, <2>1 DEF Subscribed, Registered, Quiet
  <2>4. ASSUME NEW c \in Conns, NEW n \in owed[c]
        PROVE  n \in On(bus') \/ (fan'.event = n /\ c \in fan'.to)
    <3>1. c \in subs /\ n \in On(bus)
      BY <1>1, <2>1 DEF Subscribed, Quiet
    <3> QED
      BY <2>1, <2>2, <3>1
  <2> QED
    BY <2>1, <2>3, <2>4
<1>4. CASE FanOut
  <2>1. PICK c \in fan.to :
          /\ owed' = IF c \in Registered \ broken
                     THEN [owed EXCEPT ![c] = @ \ {fan.event}] ELSE owed
          /\ fan' = IF fan.to = {c} THEN Quiet ELSE [fan EXCEPT !.to = @ \ {c}]
    BY <1>4 DEF FanOut, NextInFan
  <2>2. /\ fan \in [event : Seqs \cup {None}, to : SUBSET Conns] /\ bus' = bus
        /\ owed \in [Conns -> SUBSET Seqs]
    BY <1>1, <1>4 DEF FanOut, TypeOK
  <2>3. fan'.to = fan.to \ {c} /\ (fan'.to # {} => fan'.event = fan.event)
    BY <2>1, <2>2 DEF Quiet
  <2>4. Subscribed'
    BY <1>1, <2>1, <2>2, <2>3 DEF Subscribed, Registered
  <2>5. c \in Conns /\ \A e \in Conns \ {c} : owed'[e] = owed[e]
    BY <2>1, <2>2
  <2>6. \A n \in owed'[c] : n \in owed[c] /\ n # fan.event
    <3>1. c \notin Registered \ broken => owed[c] = {}
      BY <1>1, <2>5 DEF Subscribed
    <3> QED
      BY <2>1, <2>2, <2>5, <3>1
  <2> QED
    BY <1>1, <2>2, <2>3, <2>4, <2>5, <2>6
<1>5. CASE LoseEvent
  <2>1. /\ bus # <<>> /\ bus' = Tail(bus) /\ fan' = fan
        /\ owed' = [c \in Conns |-> owed[c] \ {Head(bus)}]
    BY <1>5 DEF LoseEvent, relayVars
  <2>2. On(bus) \subseteq On(bus') \cup {Head(bus)}
    BY <1>1, <2>1, TailOn DEF TypeOK
  <2>3. Subscribed'
    BY <1>1, <2>1 DEF Subscribed, Registered
  <2> QED
    BY <1>1, <2>1, <2>2, <2>3
<1> QED
  BY <1>2, <1>3, <1>4, <1>5

LEMMA ConnStep ==
  ASSUME RelayInv, TypeOK', NEW c \in Conns, ReadLoop(c) \/ Client(c)
  PROVE  RelayInv'
<1>1. TypeOK /\ Subscribed /\ AckedMissesNothing /\ UNCHANGED <<bus, fan>>
  BY DEF RelayInv, ReadLoop, Client, Subscribe, Ack, Connect, Resume, Unsubscribe,
         Break, RemoveAll, Remove
<1>2. CASE ReadLoop(c) \/ Connect(c) \/ Resume(c)
  <2>1. owed' = owed
    BY <1>2 DEF ReadLoop, Subscribe, Ack, RemoveAll, Remove, Connect, Resume
  <2>2. CASE Subscribe(c) \/ Ack(c) \/ Connect(c) \/ Resume(c)
    BY <1>1, <2>1, <2>2 DEF Subscribe, Ack, Connect, Resume, Subscribed, Registered, TypeOK,
                            RelayInv, AckedMissesNothing
  <2>3. CASE RemoveAll(c) \/ Remove(c)
    <3>1. c \notin acked
      BY <1>1, <2>3 DEF RemoveAll, Remove, Subscribed, Registered, TypeOK, RelayInv
    <3>2. Subscribed'
      BY <1>1, <2>1, <2>3, <3>1 DEF RemoveAll, Remove, Subscribed, Registered, TypeOK
    <3> QED
      BY <1>1, <2>1, <3>2 DEF RelayInv, AckedMissesNothing
  <2> QED
    BY <1>2, <2>2, <2>3 DEF ReadLoop
<1>3. CASE Unsubscribe(c) \/ Break(c)
  <2>1. Subscribed'
    <3>1. CASE Unsubscribe(c)
      BY <1>1, <3>1 DEF Unsubscribe, Subscribed, Registered, TypeOK
    <3>2. CASE Break(c)
      BY <1>1, <3>2 DEF Break, Subscribed, Registered, TypeOK
    <3> QED
      BY <1>3, <3>1, <3>2
  <2>2. AckedMissesNothing'
    <3>1. owed' = [owed EXCEPT ![c] = {}]
      BY <1>3 DEF Unsubscribe, Break
    <3>2. owed'[c] = {} /\ \A e \in Conns \ {c} : owed'[e] = owed[e]
      BY <1>1, <3>1 DEF TypeOK
    <3> QED
      BY <1>1, <3>2 DEF AckedMissesNothing
  <2> QED
    BY <2>1, <2>2 DEF RelayInv
<1> QED
  BY <1>2, <1>3 DEF Client

LEMMA RelayStep == RelayInv /\ [Next]_vars => RelayInv'
<1> SUFFICES ASSUME RelayInv, [Next]_vars PROVE RelayInv'
  OBVIOUS
<1>1. TypeOK'
  BY TypeStep DEF RelayInv
<1>2. CASE \/ Post \/ UNCHANGED vars
           \/ \E d \in Dispatchers : \/ Fetch(d) \/ Commit(d) \/ Wake(d)
                                     \/ PublishFails(d) \/ Rollback(d)
  <2>1. UNCHANGED <<bus, fan, conn, subs, broken, acked, owed>>
    BY <1>2 DEF Post, Fetch, Commit, Wake, PublishFails, Rollback, dispOnly, relayVars, vars
  <2> QED
    BY <1>1, <2>1 DEF RelayInv, Subscribed, Registered, AckedMissesNothing
<1> QED
  BY <1>1, <1>2, BusStep, ConnStep DEF Next, Dispatch

\* ws.go registers a connection before it acknowledges the subscription, and
\* ToSubscribers reads the subscribers when an event arrives: as long as it
\* works, an acknowledged connection falls out of no fan-out, whichever others
\* are removed meanwhile, and is sent every event that Redis delivers.
THEOREM NothingIsMissed == Spec => []AckedMissesNothing
<1>1. RelayInv => AckedMissesNothing
  BY DEF RelayInv
<1> QED
  BY <1>1, RelayInit, RelayStep, PTL DEF Spec
=============================================================================
