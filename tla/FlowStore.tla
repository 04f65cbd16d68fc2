------------------------------ MODULE FlowStore -----------------------------
(***************************************************************************)
(* flow/store.py: append() and replay() of one flow, statement by          *)
(* statement.                                                              *)
(*                                                                         *)
(* Several processes append at the same time, each in a transaction of its *)
(* own connection (READ COMMITTED): what a transaction wrote is seen by    *)
(* others when it commits, and is gone when it rolls back.  The advisory   *)
(* lock is per flow and is held until the transaction ends.                *)
(***************************************************************************)
EXTENDS Integers, Sequences

CONSTANTS
  Writers,                         \* connections that append
  Entries,                         \* the events they append
  MaxEvents                        \* bound: length of the flow's log

Nobody == "nobody"

ASSUME StoreAssumption ==
  /\ MaxEvents \in Nat
  /\ Nobody \notin Writers

VARIABLES
  rows,            \* committed rows of flow_events: seq -> event, UNIQUE(seq)
  lastSeq,         \* committed flows.last_event_seq
  lock,            \* who holds the advisory lock of the flow
  phase,           \* the statement each writer has reached
  entry,           \* the event it appends
  seq,             \* next_seq
  touched,         \* the last_event_seq its transaction has written
  seen             \* what a reader has got from replay(), event by event

vars == <<rows, lastSeq, lock, phase, entry, seq, touched, seen>>

\* COALESCE(MAX(seq), 0)
MaxSeq(r) ==
  IF DOMAIN r = {} THEN 0 ELSE CHOOSE n \in DOMAIN r : \A m \in DOMAIN r : m <= n

Init ==
  /\ rows = <<>> /\ lastSeq = 0
  /\ lock = Nobody
  /\ phase = [w \in Writers |-> "idle"]
  /\ entry \in [Writers -> Entries]
  /\ seq = [w \in Writers |-> 0]
  /\ touched = [w \in Writers |-> 0]
  /\ seen = <<>>

-----------------------------------------------------------------------------
(* append() *)

\* pg_advisory_xact_lock: waits until nobody holds the lock.
LockTail(w, e) ==
  /\ phase[w] = "idle"
  /\ Len(rows) < MaxEvents
  /\ lock = Nobody
  /\ lock' = w
  /\ phase' = [phase EXCEPT ![w] = "locked"]
  /\ entry' = [entry EXCEPT ![w] = e]
  /\ UNCHANGED <<rows, lastSeq, seq, touched, seen>>

ReadMax(w) ==
  /\ phase[w] = "locked"
  /\ seq' = [seq EXCEPT ![w] = MaxSeq(rows) + 1]
  /\ phase' = [phase EXCEPT ![w] = "numbered"]
  /\ UNCHANGED <<rows, lastSeq, lock, entry, touched, seen>>

\* A duplicate seq raises UniqueViolation instead, and the writer rolls back.
Insert(w) ==
  /\ phase[w] = "numbered"
  /\ seq[w] \notin DOMAIN rows
  /\ phase' = [phase EXCEPT ![w] = "inserted"]
  /\ UNCHANGED <<rows, lastSeq, lock, entry, seq, touched, seen>>

\* Faulty: the projection counts the events before this one.
ProjectStale(w) ==
  /\ phase[w] = "inserted"
  /\ touched' = [touched EXCEPT ![w] = seq[w] - 1]
  /\ phase' = [phase EXCEPT ![w] = "projected"]
  /\ UNCHANGED <<rows, lastSeq, lock, entry, seq, seen>>

\* _apply_projection(): whatever the event, last_event_seq becomes its seq.
Project(w) ==
  /\ phase[w] = "inserted"
  /\ touched' = [touched EXCEPT ![w] = seq[w]]
  /\ phase' = [phase EXCEPT ![w] = "projected"]
  /\ UNCHANGED <<rows, lastSeq, lock, entry, seq, seen>>

EndTransaction(w) ==
  /\ lock' = IF lock = w THEN Nobody ELSE lock
  /\ phase' = [phase EXCEPT ![w] = "idle"]

Commit(w) ==
  /\ phase[w] = "projected"
  /\ rows' = [n \in DOMAIN rows \cup {seq[w]} |->
                IF n = seq[w] THEN entry[w] ELSE rows[n]]
  /\ lastSeq' = touched[w]
  /\ EndTransaction(w)
  /\ UNCHANGED <<entry, seq, touched, seen>>

\* Any statement raises, the task is cancelled, or the connection is lost.
Rollback(w) ==
  /\ phase[w] # "idle"
  /\ EndTransaction(w)
  /\ UNCHANGED <<rows, lastSeq, entry, seq, touched, seen>>

-----------------------------------------------------------------------------
(* replay() *)

\* Faulty: >= for > in the query.
ReplayInclusive ==
  /\ \E n \in DOMAIN rows : n > Len(seen)
  /\ seen' = seen \o SubSeq(rows, IF seen = <<>> THEN 1 ELSE Len(seen), MaxSeq(rows))
  /\ UNCHANGED <<rows, lastSeq, lock, phase, entry, seq, touched>>

\* A reader that remembers the last seq it got asks for what follows.  The
\* rows it gets are numbered without gaps (rows is a sequence).
Replay ==
  /\ \E n \in DOMAIN rows : n > Len(seen)
  /\ seen' = seen \o SubSeq(rows, Len(seen) + 1, MaxSeq(rows))
  /\ UNCHANGED <<rows, lastSeq, lock, phase, entry, seq, touched>>

Next ==
  \/ \E w \in Writers :
       \/ \E e \in Entries : LockTail(w, e)
       \/ ReadMax(w) \/ Insert(w) \/ Project(w) \/ Commit(w) \/ Rollback(w)
  \/ Replay

Spec == Init /\ [][Next]_vars

-----------------------------------------------------------------------------
(* Properties *)

Phases == {"idle", "locked", "numbered", "inserted", "projected"}

\* The committed rows are numbered 1, 2, ... without gaps: they are a sequence.
TypeOK ==
  /\ DOMAIN rows = 1 .. MaxSeq(rows)
  /\ \A n \in DOMAIN rows : rows[n] \in Entries
  /\ lastSeq \in Nat
  /\ lock \in Writers \cup {Nobody}
  /\ phase \in [Writers -> Phases]
  /\ entry \in [Writers -> Entries]
  /\ seq \in [Writers -> Nat] /\ touched \in [Writers -> Nat]
  /\ seen \in Seq(Entries)

\* Thanks to the lock an append never loses its number to another one: no
\* transaction meets the UNIQUE (flow_id, seq) constraint.
NoConflict ==
  \A w \in Writers : phase[w] = "numbered" => seq[w] \notin DOMAIN rows

\* A reader that resumes from the last seq it has seen misses nothing and gets
\* nothing twice, though appends overlap and some roll back.
ReaderSeesPrefix ==
  /\ Len(seen) <= MaxSeq(rows)
  /\ \A n \in 1 .. Len(seen) : seen[n] = rows[n]

Log == INSTANCE FlowLog WITH log <- rows, tip <- lastSeq

\* Appends are atomic: every step of the store is an append of one event, with
\* its number in the projection, or changes nothing that is committed.
AppendsAreAtomic == Log!LogSpec
=============================================================================
