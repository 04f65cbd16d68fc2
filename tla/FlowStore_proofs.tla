--------------------------- MODULE FlowStore_proofs -------------------------
(***************************************************************************)
(* Proofs about FlowStore for any number of writers, any events and a log  *)
(* of any length.                                                          *)
(***************************************************************************)
EXTENDS FlowStore, SequenceTheorems, TLAPS

\* The largest seq of a log numbered from 1 is its length.
LEMMA MaxSeqIsLen ==
  ASSUME NEW S, NEW r \in Seq(S)
  PROVE  MaxSeq(r) = Len(r) /\ DOMAIN r = 1 .. Len(r)
<1>1. Len(r) \in Nat /\ DOMAIN r = 1 .. Len(r)
  BY LenProperties
<1>2. CASE Len(r) = 0
  BY <1>1, <1>2 DEF MaxSeq
<1>3. CASE Len(r) # 0
  <2>1. Len(r) \in DOMAIN r /\ \A m \in DOMAIN r : m <= Len(r)
    BY <1>1, <1>3
  <2>2. \A n \in DOMAIN r : (\A m \in DOMAIN r : m <= n) => n = Len(r)
    BY <1>1, <2>1
  <2> QED
    BY <1>1, <2>1, <2>2 DEF MaxSeq
<1> QED
  BY <1>1, <1>2, <1>3

-----------------------------------------------------------------------------
(* The inductive invariant: only the holder of the lock is in a transaction, *)
(* and its number is the next one.  Both are needed: the number is right     *)
(* only because no other writer can commit before the holder.                *)

StoreType ==
  /\ rows \in Seq(Entries) /\ lastSeq \in Nat
  /\ lock \in Writers \cup {Nobody}
  /\ phase \in [Writers -> Phases]
  /\ entry \in [Writers -> Entries]
  /\ seq \in [Writers -> Nat] /\ touched \in [Writers -> Nat]
  /\ seen \in Seq(Entries)

HolderInv == \A w \in Writers : phase[w] # "idle" <=> lock = w

NumberInv ==
  \A w \in Writers :
    /\ phase[w] \in {"numbered", "inserted", "projected"} => seq[w] = Len(rows) + 1
    /\ phase[w] = "projected" => touched[w] = seq[w]

PrefixInv == Len(seen) <= Len(rows) /\ \A n \in 1 .. Len(seen) : seen[n] = rows[n]

StoreInv == StoreType /\ HolderInv /\ NumberInv /\ PrefixInv

\* A commit appends the writer's event and publishes its number.
LEMMA CommitAppends ==
  ASSUME StoreInv, NEW w \in Writers, Commit(w)
  PROVE  /\ rows' = Append(rows, entry[w]) /\ lastSeq' = Len(rows) + 1
         /\ Len(rows') = Len(rows) + 1 /\ rows' \in Seq(Entries)
         /\ \A n \in 1 .. Len(rows) : rows'[n] = rows[n]
<1>1. rows \in Seq(Entries) /\ entry[w] \in Entries /\ seq[w] = Len(rows) + 1
  BY DEF StoreInv, StoreType, NumberInv, Commit
<1>2. DOMAIN rows = 1 .. Len(rows) /\ Len(rows) \in Nat
  BY <1>1, LenProperties
<1>3. rows' = [n \in 1 .. Len(rows) + 1 |->
                 IF n = Len(rows) + 1 THEN entry[w] ELSE rows[n]]
  <2>1. 1 .. Len(rows) + 1 = DOMAIN rows \cup {seq[w]}
    BY <1>1, <1>2
  <2> QED
    BY <1>1, <2>1 DEF Commit
<1>4. rows' = Append(rows, entry[w])
  BY <1>1, <1>2, <1>3
<1>5. lastSeq' = Len(rows) + 1
  BY <1>1 DEF Commit, StoreInv, NumberInv
<1> QED
  BY <1>1, <1>2, <1>4, <1>5, AppendProperties

\* A reader's next replay brings it to the end of the log.
LEMMA ReplayCatchesUp ==
  ASSUME StoreInv, Replay
  PROVE  seen' \in Seq(Entries) /\ PrefixInv'
<1>1. /\ rows \in Seq(Entries) /\ seen \in Seq(Entries) /\ rows' = rows
      /\ MaxSeq(rows) = Len(rows) /\ Len(rows) \in Nat /\ Len(seen) \in Nat
      /\ Len(seen) < Len(rows)
  BY MaxSeqIsLen, LenProperties DEF StoreInv, StoreType, Replay
<1> DEFINE rest == SubSeq(rows, Len(seen) + 1, Len(rows))
<1>2. /\ rest \in Seq(Entries) /\ Len(rest) = Len(rows) - Len(seen)
      /\ \A i \in 1 .. Len(rest) : rest[i] = rows[Len(seen) + i]
  BY <1>1, SubSeqProperties
<1>3. seen' = seen \o rest
  BY <1>1 DEF Replay
<1>4. /\ seen' \in Seq(Entries) /\ Len(seen') = Len(seen) + Len(rest)
      /\ \A i \in 1 .. Len(seen) + Len(rest) :
           seen'[i] = IF i <= Len(seen) THEN seen[i] ELSE rest[i - Len(seen)]
  BY <1>1, <1>2, <1>3, ConcatProperties
<1>5. \A i \in 1 .. Len(seen') : seen'[i] = rows[i]
  <2> SUFFICES ASSUME NEW i \in 1 .. Len(seen')
               PROVE  seen'[i] = rows[i]
    OBVIOUS
  <2>1. CASE i <= Len(seen)
    BY <1>1, <1>2, <1>4, <2>1 DEF StoreInv, PrefixInv
  <2>2. CASE i > Len(seen)
    <3>1. i - Len(seen) \in 1 .. Len(rest)
      BY <1>1, <1>2, <1>4, <2>2
    <3> QED
      BY <1>1, <1>2, <1>4, <2>2, <3>1
  <2> QED
    BY <1>1, <2>1, <2>2
<1> QED
  BY <1>1, <1>2, <1>4, <1>5 DEF PrefixInv

\* The invariant holds initially.
LEMMA InitStore == Init => StoreInv
<1> SUFFICES ASSUME Init PROVE StoreInv
  OBVIOUS
<1>1. StoreType
  BY DEF Init, StoreType, Phases
<1>2. HolderInv
  BY StoreAssumption DEF Init, HolderInv
<1> QED
  BY <1>1, <1>2 DEF Init, StoreInv, NumberInv, PrefixInv

\* Every step preserves it.
LEMMA NextStore == StoreInv /\ [Next]_vars => StoreInv'
<1> SUFFICES ASSUME StoreInv, [Next]_vars
             PROVE  StoreInv'
  OBVIOUS
<1>1. ASSUME NEW w \in Writers, NEW e \in Entries, LockTail(w, e)
      PROVE  StoreInv'
  <2>1. StoreType'
    BY <1>1 DEF StoreInv, StoreType, LockTail, Phases
  <2>2. HolderInv'
    BY <1>1, StoreAssumption DEF StoreInv, StoreType, HolderInv, LockTail
  <2>3. NumberInv' /\ PrefixInv'
    BY <1>1 DEF StoreInv, StoreType, NumberInv, PrefixInv, LockTail
  <2> QED
    BY <2>1, <2>2, <2>3 DEF StoreInv
<1>2. ASSUME NEW w \in Writers, ReadMax(w)
      PROVE  StoreInv'
  <2>1. MaxSeq(rows) = Len(rows) /\ Len(rows) \in Nat
    BY MaxSeqIsLen, LenProperties DEF StoreInv, StoreType
  <2>2. StoreType'
    BY <1>2, <2>1 DEF StoreInv, StoreType, ReadMax, Phases
  <2>3. HolderInv'
    BY <1>2 DEF StoreInv, StoreType, HolderInv, ReadMax
  <2>4. NumberInv' /\ PrefixInv'
    BY <1>2, <2>1 DEF StoreInv, StoreType, NumberInv, PrefixInv, ReadMax
  <2> QED
    BY <2>2, <2>3, <2>4 DEF StoreInv
<1>3. ASSUME NEW w \in Writers, Insert(w)
      PROVE  StoreInv'
  <2>1. StoreType'
    BY <1>3 DEF StoreInv, StoreType, Insert, Phases
  <2>2. HolderInv'
    BY <1>3 DEF StoreInv, StoreType, HolderInv, Insert
  <2>3. NumberInv' /\ PrefixInv'
    BY <1>3 DEF StoreInv, StoreType, NumberInv, PrefixInv, Insert
  <2> QED
    BY <2>1, <2>2, <2>3 DEF StoreInv
<1>4. ASSUME NEW w \in Writers, Project(w)
      PROVE  StoreInv'
  <2>1. StoreType'
    BY <1>4 DEF StoreInv, StoreType, Project, Phases
  <2>2. HolderInv'
    BY <1>4 DEF StoreInv, StoreType, HolderInv, Project
  <2>3. NumberInv' /\ PrefixInv'
    BY <1>4 DEF StoreInv, StoreType, NumberInv, PrefixInv, Project
  <2> QED
    BY <2>1, <2>2, <2>3 DEF StoreInv
<1>5. ASSUME NEW w \in Writers, Commit(w) \/ Rollback(w)
      PROVE  StoreInv'
  <2>1. lock = w /\ \A v \in Writers : v # w => phase[v] = "idle"
    BY <1>5 DEF StoreInv, HolderInv, Commit, Rollback
  <2>2. /\ lock' = Nobody /\ phase' = [phase EXCEPT ![w] = "idle"]
        /\ UNCHANGED <<entry, seq, touched, seen>>
    BY <1>5, <2>1 DEF Commit, Rollback, EndTransaction
  <2>3. \A v \in Writers : phase'[v] = "idle"
    BY <2>1, <2>2 DEF StoreInv, StoreType
  <2>4. /\ rows' \in Seq(Entries) /\ lastSeq' \in Nat /\ Len(rows) <= Len(rows')
        /\ \A n \in 1 .. Len(rows) : rows'[n] = rows[n]
    <3>1. rows \in Seq(Entries) /\ Len(rows) \in Nat /\ lastSeq \in Nat
      BY LenProperties DEF StoreInv, StoreType
    <3> QED
      BY <1>5, <3>1, CommitAppends DEF Rollback
  <2>5. StoreType'
    BY <2>2, <2>4 DEF StoreInv, StoreType, Phases
  <2>6. HolderInv' /\ NumberInv'
    BY <2>2, <2>3, StoreAssumption DEF HolderInv, NumberInv
  <2>7. PrefixInv'
    <3>1. Len(rows) \in Nat /\ Len(seen) \in Nat /\ Len(rows') \in Nat
      BY <2>4, LenProperties DEF StoreInv, StoreType
    <3> QED
      BY <2>2, <2>4, <3>1 DEF StoreInv, PrefixInv
  <2> QED
    BY <2>5, <2>6, <2>7 DEF StoreInv
<1>6. CASE Replay
  <2>1. seen' \in Seq(Entries) /\ PrefixInv'
    BY <1>6, ReplayCatchesUp
  <2> QED
    BY <1>6, <2>1 DEF StoreInv, StoreType, HolderInv, NumberInv, Replay
<1>7. CASE UNCHANGED vars
  BY <1>7 DEF StoreInv, StoreType, HolderInv, NumberInv, PrefixInv, vars
<1> QED
  BY <1>1, <1>2, <1>3, <1>4, <1>5, <1>6, <1>7 DEF Next

\* StoreInv is an invariant of the store.
LEMMA StoreSafe == Spec => []StoreInv
  BY InitStore, NextStore, PTL DEF Spec

-----------------------------------------------------------------------------
\* The rows of a flow are numbered from 1 without gaps, in every state.
THEOREM StoreTypeCorrect == Spec => []TypeOK
<1>1. StoreInv => TypeOK
  <2> SUFFICES ASSUME StoreInv PROVE TypeOK
    OBVIOUS
  <2>1. DOMAIN rows = 1 .. MaxSeq(rows) /\ \A n \in DOMAIN rows : rows[n] \in Entries
    BY MaxSeqIsLen, ElementOfSeq DEF StoreInv, StoreType
  <2> QED
    BY <2>1 DEF StoreInv, StoreType, TypeOK
<1> QED
  BY <1>1, StoreSafe, PTL

\* With the advisory lock no append meets the UNIQUE (flow_id, seq) constraint.
THEOREM NumbersNeverClash == Spec => []NoConflict
<1>1. StoreInv => NoConflict
  <2> SUFFICES ASSUME StoreInv, NEW w \in Writers, phase[w] = "numbered"
               PROVE  seq[w] \notin DOMAIN rows
    BY DEF NoConflict
  <2>1. DOMAIN rows = 1 .. Len(rows) /\ Len(rows) \in Nat
    BY LenProperties DEF StoreInv, StoreType
  <2> QED
    BY <2>1 DEF StoreInv, NumberInv
<1> QED
  BY <1>1, StoreSafe, PTL

\* A reader resuming from its last seq has read exactly the log's beginning.
THEOREM ReplayIsPrefix == Spec => []ReaderSeesPrefix
<1>1. StoreInv => ReaderSeesPrefix
  BY MaxSeqIsLen DEF StoreInv, StoreType, PrefixInv, ReaderSeesPrefix
<1> QED
  BY <1>1, StoreSafe, PTL

\* A step of the store is an atomic append of one event or changes nothing that
\* is committed.
LEMMA StoreStepRefines ==
  StoreInv /\ [Next]_vars => [Log!LogNext]_<<rows, lastSeq>>
<1> SUFFICES ASSUME StoreInv, [Next]_vars
             PROVE  [Log!LogNext]_<<rows, lastSeq>>
  OBVIOUS
<1>1. ASSUME NEW w \in Writers, Commit(w)
      PROVE  Log!LogNext
  <2>1. entry[w] \in Entries
    BY DEF StoreInv, StoreType
  <2>2. Log!LogAppend(entry[w])
    BY <1>1, CommitAppends DEF Log!LogAppend
  <2> QED
    BY <2>1, <2>2 DEF Log!LogNext
<1>2. CASE \A w \in Writers : ~Commit(w)
  BY <1>2 DEF Next, LockTail, ReadMax, Insert, Project, Rollback, Replay, vars
<1> QED
  BY <1>1, <1>2

\* FlowEventStore implements the atomic append-only log.
THEOREM StoreImplementsLog == Spec => AppendsAreAtomic
<1>1. Init => Log!LogInit
  BY DEF Init, Log!LogInit
<1> QED
  BY <1>1, StoreSafe, StoreStepRefines, PTL DEF Spec, AppendsAreAtomic, Log!LogSpec
=============================================================================
