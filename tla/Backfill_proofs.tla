--------------------------- MODULE Backfill_proofs --------------------------
(***************************************************************************)
(* Proofs about Backfill for any number of items and runs, any costs,      *)
(* budget and cadence.                                                     *)
(***************************************************************************)
EXTENDS Backfill, FiniteSetTheorems, TLAPS

USE BackfillAssumption

-----------------------------------------------------------------------------
(* The inductive invariant of one run: its counts partition what it has      *)
(* discovered, but for the item that it is storing.  That bounds each count  *)
(* by the number of items, which the types alone do not.                     *)

Sum(s) == s.filtered + s.dropped + s.halted + s.errors + s.stored + s.existing

RunOK(s) ==
  /\ s.discovered <= s.item
  /\ s.pc \in {"store", "cite"} => s.discovered = Sum(s) + 1
  /\ s.pc \notin {"store", "cite", "killed"} => s.discovered = Sum(s)
  /\ Sum(s) <= s.discovered
  /\ s.pc \in {"new", "loop", "store", "cite", "cp"} => s.halted = 0

RunsOK == \A r \in Runs : RunOK(run[r])

\* What a step of run r must establish.
RunStep(r) ==
  /\ run' = [run EXCEPT ![r] = run'[r]]
  /\ run'[r] \in RunState /\ RunOK(run'[r])

LEMMA StartStep ==
  ASSUME TypeOK, RunsOK, NEW r \in Runs, NEW e \in 0..N, StartTo(r, e)
  PROVE  RunStep(r)
<1>1. run \in [Runs -> RunState]
  BY DEF TypeOK
<1>2. run'[r] = [Idle EXCEPT !.pc = "loop", !.end = e, !.status = "running"]
  BY <1>1 DEF StartTo
<1>3. e \in Counts /\ 0 \in Counts /\ 0 \in 0..(TokenBudget - 1)
  BY DEF Counts
<1>4. run'[r] \in RunState
  <2>1. Idle \in RunState
    BY <1>3 DEF Idle, RunState
  <2> DEFINE t == [Idle EXCEPT !.pc = "loop", !.end = e]
  <2>2. t \in RunState
    <3> HIDE DEF Idle
    <3> QED
      BY <1>3, <2>1 DEF RunState
  <2>3. run'[r] = [t EXCEPT !.status = "running"]
    BY <1>2
  <2> HIDE DEF t
  <2> QED
    BY <2>2, <2>3 DEF RunState
<1>5. /\ run'[r].item = 0 /\ run'[r].discovered = 0 /\ run'[r].pc = "loop"
      /\ run'[r].halted = 0 /\ Sum(run'[r]) = 0
  BY <1>2 DEF Idle, Sum
<1>6. RunOK(run'[r])
  BY <1>5 DEF RunOK
<1> QED
  BY <1>1, <1>4, <1>6 DEF RunStep, StartTo

\* The counts of a run are numbers, and 0..N is closed under what stays below N.
LEMMA CountsAreNumbers ==
  ASSUME NEW s \in RunState
  PROVE  /\ s.item \in Nat /\ s.discovered \in Nat /\ s.filtered \in Nat
         /\ s.dropped \in Nat /\ s.halted \in Nat /\ s.errors \in Nat
         /\ s.stored \in Nat /\ s.existing \in Nat /\ s.tokens \in Nat
         /\ s.item <= N
BY DEF RunState, Counts

\* A run that has discovered an item and not counted it yet.
Open(s) ==
  s \in RunState /\ s.discovered <= s.item /\ s.discovered = Sum(s) + 1 /\ s.halted = 0

\* Whatever the item is counted as, the count stays in range.
LEMMA RoomToCount ==
  ASSUME NEW s, Open(s)
  PROVE  /\ s.filtered + 1 \in Counts /\ s.dropped + 1 \in Counts
         /\ s.halted + 1 \in Counts /\ s.errors + 1 \in Counts
         /\ s.stored + 1 \in Counts /\ s.existing + 1 \in Counts
         /\ s.item \in Items
<1>1. s \in RunState /\ s.discovered <= s.item /\ s.discovered = Sum(s) + 1
  BY DEF Open
<1>2. /\ s.filtered + 1 <= N /\ s.dropped + 1 <= N /\ s.halted + 1 <= N
      /\ s.errors + 1 <= N /\ s.stored + 1 <= N /\ s.existing + 1 <= N
      /\ s.item >= 1
  BY <1>1, CountsAreNumbers DEF Sum
<1>3. /\ s.filtered \in Nat /\ s.dropped \in Nat /\ s.halted \in Nat
      /\ s.errors \in Nat /\ s.stored \in Nat /\ s.existing \in Nat
      /\ s.item \in 1..N
  BY <1>1, <1>2, CountsAreNumbers
<1>4. \A k \in Nat : k + 1 <= N => k + 1 \in Counts
  BY DEF Counts
<1>5. /\ s.filtered + 1 \in Counts /\ s.dropped + 1 \in Counts
      /\ s.halted + 1 \in Counts /\ s.errors + 1 \in Counts
      /\ s.stored + 1 \in Counts /\ s.existing + 1 \in Counts
  BY <1>2, <1>3, <1>4
<1> QED
  BY <1>3, <1>5 DEF Items

LEMMA EndInRange ==
  ASSUME TypeOK, NEW r \in Runs, run[r].item < run[r].end
  PROVE  run[r].item < N
BY DEF TypeOK, RunState, Counts

LEMMA DiscoverOpens ==
  ASSUME TypeOK, RunsOK, NEW r \in Runs, run[r].pc = "loop", run[r].item < N
  PROVE  /\ Open(Discover(run[r]))
         /\ Discover(run[r]).item = run[r].item + 1
<1>1. run[r] \in RunState /\ RunOK(run[r])
  BY DEF TypeOK, RunsOK
<1>2. run[r].item + 1 \in Counts /\ run[r].discovered + 1 \in Counts
  BY <1>1, CountsAreNumbers DEF RunOK, Counts
<1>3. Discover(run[r]) \in RunState
  BY <1>1, <1>2 DEF RunState, Discover
<1> QED
  BY <1>1, <1>3, CountsAreNumbers DEF RunState, Discover, RunOK, Sum, Open

LEMMA ErroredStep ==
  ASSUME NEW s, Open(s)
  PROVE  Errored(s) \in RunState /\ RunOK(Errored(s))
<1>1. s \in RunState /\ s.errors + 1 \in Counts
  BY RoomToCount DEF Open
<1>2. Errored(s) \in RunState
  <2> DEFINE t == [s EXCEPT !.errors = @ + 1]
  <2>1. t \in RunState
    BY <1>1 DEF RunState
  <2>2. \/ Errored(s) = [t EXCEPT !.pc = "final", !.why = "abort"]
        \/ Errored(s) = [t EXCEPT !.pc = "cp"]
    BY DEF Errored
  <2> HIDE DEF t
  <2>3. CASE Errored(s) = [t EXCEPT !.pc = "final", !.why = "abort"]
    BY <2>1, <2>3 DEF RunState
  <2>4. CASE Errored(s) = [t EXCEPT !.pc = "cp"]
    BY <2>1, <2>4 DEF RunState
  <2> QED
    BY <2>2, <2>3, <2>4
<1> QED
  BY <1>1, <1>2, CountsAreNumbers DEF RunState, Errored, RunOK, Sum, Open

LEMMA LoopStep ==
  ASSUME TypeOK, RunsOK, NEW r \in Runs,
         Filter(r) \/ Halt(r) \/ DropSecret(r) \/ Embed(r)
  PROVE  RunStep(r)
<1> DEFINE s == Discover(run[r])
<1>1. run \in [Runs -> RunState] /\ run[r].pc = "loop" /\ run[r].item < N
  BY EndInRange DEF TypeOK, Filter, Halt, DropSecret, Embed
<1>2. Open(s)
  BY <1>1, DiscoverOpens
<1> HIDE DEF s
<1>3. s \in RunState /\ s.item \in Items
  BY <1>2, RoomToCount DEF Open
<1>4. CASE Filter(r)
  <2>1. run' = [run EXCEPT ![r] = [s EXCEPT !.filtered = @ + 1, !.pc = "cp"]]
    BY <1>4 DEF Filter, s
  <2>2. s.filtered + 1 \in Counts
    BY <1>2, RoomToCount
  <2>3. run'[r] \in RunState
    BY <1>1, <1>3, <2>1, <2>2 DEF RunState
  <2>4. RunOK(run'[r])
    BY <1>1, <1>2, <1>3, <2>1, CountsAreNumbers DEF RunState, RunOK, Sum, Open
  <2> QED
    BY <1>1, <2>1, <2>3, <2>4 DEF RunStep
<1>5. CASE Halt(r)
  <2>1. run' = [run EXCEPT ![r] = Halted(s)]
    BY <1>5 DEF Halt, s
  <2>2. s.halted + 1 \in Counts
    BY <1>2, RoomToCount
  <2>3. run'[r] \in RunState
    BY <1>1, <1>3, <2>1, <2>2 DEF Halted, RunState
  <2>4. RunOK(run'[r])
    BY <1>1, <1>2, <1>3, <2>1, CountsAreNumbers DEF Halted, RunState, RunOK, Sum, Open
  <2> QED
    BY <1>1, <2>1, <2>3, <2>4 DEF RunStep
<1>6. CASE DropSecret(r)
  <2>1. run' = [run EXCEPT ![r] = [s EXCEPT !.dropped = @ + 1, !.pc = "cp"]]
    BY <1>6 DEF DropSecret, s
  <2>2. s.dropped + 1 \in Counts
    BY <1>2, RoomToCount
  <2>3. run'[r] \in RunState
    BY <1>1, <1>3, <2>1, <2>2 DEF RunState
  <2>4. RunOK(run'[r])
    BY <1>1, <1>2, <1>3, <2>1, CountsAreNumbers DEF RunState, RunOK, Sum, Open
  <2> QED
    BY <1>1, <2>1, <2>3, <2>4 DEF RunStep
<1>7. CASE Embed(r)
  <2>1. run' = [run EXCEPT ![r] = [s EXCEPT !.tokens = @ + Cost[s.item], !.pc = "store"]]
    BY <1>7 DEF Embed, s
  <2>2. s.tokens + Cost[s.item] \in 0..(TokenBudget - 1)
    BY <1>3, <1>7, CountsAreNumbers DEF Embed, s, OverBudget
  <2>3. run'[r] \in RunState
    BY <1>1, <1>3, <2>1, <2>2 DEF RunState
  <2>4. RunOK(run'[r])
    BY <1>1, <1>2, <1>3, <2>1, CountsAreNumbers DEF RunState, RunOK, Sum, Open
  <2> QED
    BY <1>1, <2>1, <2>3, <2>4 DEF RunStep
<1> QED
  BY <1>4, <1>5, <1>6, <1>7

LEMMA EmbedFailsStep ==
  ASSUME TypeOK, RunsOK, NEW r \in Runs, EmbedFails(r)
  PROVE  RunStep(r) /\ Discover(run[r]).item \in Items
<1> DEFINE s == Discover(run[r])
           u == [s EXCEPT !.tokens = @ + Cost[s.item]]
<1>1. run \in [Runs -> RunState] /\ run[r].pc = "loop" /\ run[r].item < N
  BY EndInRange DEF TypeOK, EmbedFails
<1>2. Open(s)
  BY <1>1, DiscoverOpens
<1>3. s \in RunState /\ s.item \in Items
  BY <1>2, RoomToCount DEF Open
<1>4. run' = [run EXCEPT ![r] = Errored(s)] \/ run' = [run EXCEPT ![r] = Errored(u)]
  BY DEF EmbedFails
<1>5. ~OverBudget(s)
  BY DEF EmbedFails
<1> HIDE DEF s
<1>6. s.tokens + Cost[s.item] \in 0..(TokenBudget - 1)
  BY <1>3, <1>5, CountsAreNumbers DEF OverBudget
<1>7. Open(u)
  BY <1>2, <1>3, <1>6 DEF Open, Sum, RunState
<1> HIDE DEF u
<1>8. Errored(s) \in RunState /\ RunOK(Errored(s)) /\ Errored(u) \in RunState /\ RunOK(Errored(u))
  BY <1>2, <1>7, ErroredStep
<1>9. RunStep(r)
  BY <1>1, <1>4, <1>8 DEF RunStep
<1> QED
  BY <1>3, <1>9 DEF s

\* A run that is storing has an item that it has not counted yet.
LEMMA StoringIsOpen ==
  ASSUME TypeOK, RunsOK, NEW r \in Runs, run[r].pc \in {"store", "cite"}
  PROVE  Open(run[r]) /\ run[r].item \in Items
<1>1. run[r] \in RunState /\ RunOK(run[r])
  BY DEF TypeOK, RunsOK
<1>2. Open(run[r])
  BY <1>1 DEF Open, RunOK
<1> QED
  BY <1>2, RoomToCount

LEMMA StoreStep ==
  ASSUME TypeOK, RunsOK, NEW r \in Runs, Store(r) \/ Cite(r) \/ StoreFails(r)
  PROVE  RunStep(r)
<1> DEFINE s == run[r]
<1>1. run \in [Runs -> RunState] /\ s \in RunState /\ s.pc \in {"store", "cite"}
  BY DEF TypeOK, Store, Cite, StoreFails
<1>2. Open(s) /\ s.item \in Counts
  BY <1>1, StoringIsOpen DEF RunState
<1>3. s.stored + 1 \in Counts /\ s.existing + 1 \in Counts
  BY <1>2, RoomToCount
<1>4. CASE Store(r)
  <2>1. CASE run' = [run EXCEPT ![r].pc = "cite"]
    <3>1. run' = [run EXCEPT ![r] = [s EXCEPT !.pc = "cite"]]
      BY <1>1, <2>1
    <3> HIDE DEF s
    <3>2. [s EXCEPT !.pc = "cite"] \in RunState /\ RunOK([s EXCEPT !.pc = "cite"])
      BY <1>1, <1>2, CountsAreNumbers DEF RunState, RunOK, Sum, Open
    <3> QED
      BY <1>1, <3>1, <3>2 DEF RunStep
  <2>2. CASE run' = [run EXCEPT ![r] = [s EXCEPT !.existing = @ + 1,
                                                 !.last = s.item, !.pc = "cp"]]
    <3> DEFINE t == [s EXCEPT !.existing = @ + 1, !.last = s.item, !.pc = "cp"]
    <3> HIDE DEF s
    <3>1. t \in RunState
      BY <1>1, <1>2, <1>3 DEF RunState
    <3>2. RunOK(t)
      BY <1>1, <1>2, CountsAreNumbers DEF RunState, RunOK, Sum, Open
    <3> QED
      BY <1>1, <2>2, <3>1, <3>2 DEF RunStep
  <2> QED
    BY <1>4, <2>1, <2>2 DEF Store
<1>5. CASE Cite(r)
  <2> DEFINE t == [s EXCEPT !.stored = @ + 1, !.last = s.item, !.pc = "cp"]
  <2>1. run' = [run EXCEPT ![r] = t]
    BY <1>5 DEF Cite
  <2> HIDE DEF s
  <2>2. t \in RunState
    BY <1>1, <1>2, <1>3 DEF RunState
  <2>3. RunOK(t)
    BY <1>1, <1>2, CountsAreNumbers DEF RunState, RunOK, Sum, Open
  <2> QED
    BY <1>1, <2>1, <2>2, <2>3 DEF RunStep
<1>6. CASE StoreFails(r)
  <2>1. run' = [run EXCEPT ![r] = Errored(s)]
    BY <1>6 DEF StoreFails
  <2>2. Errored(s) \in RunState /\ RunOK(Errored(s))
    BY <1>2, ErroredStep
  <2> QED
    BY <1>1, <2>1, <2>2 DEF RunStep
<1> QED
  BY <1>4, <1>5, <1>6

\* A step that only moves a run that is not storing, or writes its row.
LEMMA RowStep ==
  ASSUME TypeOK, RunsOK, NEW r \in Runs,
         Checkpoint(r) \/ EndOfItems(r) \/ Raise(r) \/ Final(r) \/ Finish(r)
           \/ Kill(r) \/ Cancel(r)
  PROVE  RunStep(r)
<1> DEFINE s == run[r]
<1>1. run \in [Runs -> RunState] /\ s \in RunState /\ RunOK(s)
  BY DEF TypeOK, RunsOK
<1>2. s.last \in Counts /\ s.discovered \in Counts
  BY <1>1 DEF RunState
<1>3. CASE Checkpoint(r)
  <2>1. CASE run' = [run EXCEPT ![r].pc = "loop"]
    <3>1. run' = [run EXCEPT ![r] = [s EXCEPT !.pc = "loop"]] /\ s.pc = "cp"
      BY <1>1, <1>3, <2>1 DEF Checkpoint
    <3> HIDE DEF s
    <3>2. [s EXCEPT !.pc = "loop"] \in RunState /\ RunOK([s EXCEPT !.pc = "loop"])
      BY <1>1, <3>1 DEF RunState, RunOK, Sum
    <3> QED
      BY <1>1, <3>1, <3>2 DEF RunStep
  <2>2. CASE run' = [run EXCEPT ![r] = [s EXCEPT !.cursor = s.last,
                                          !.cp = s.discovered, !.pc = "loop"]]
    <3> DEFINE t == [s EXCEPT !.cursor = s.last, !.cp = s.discovered, !.pc = "loop"]
    <3>1. s.pc = "cp"
      BY <1>3 DEF Checkpoint
    <3> HIDE DEF s
    <3>2. t \in RunState /\ RunOK(t)
      BY <1>1, <1>2, <3>1 DEF RunState, RunOK, Sum
    <3> QED
      BY <1>1, <2>2, <3>2 DEF RunStep
  <2> QED
    BY <1>3, <2>1, <2>2 DEF Checkpoint
<1>4. CASE EndOfItems(r)
  <2> DEFINE t == [s EXCEPT !.pc = "final"]
  <2>1. run' = [run EXCEPT ![r] = t] /\ s.pc = "loop"
    BY <1>1, <1>4 DEF EndOfItems
  <2> HIDE DEF s
  <2>2. t \in RunState /\ RunOK(t)
    BY <1>1, <2>1, CountsAreNumbers DEF RunState, RunOK, Sum
  <2> QED
    BY <1>1, <2>1, <2>2 DEF RunStep
<1>5. CASE Raise(r)
  <2> DEFINE t == [s EXCEPT !.pc = "final", !.why = "raised"]
  <2>1. run' = [run EXCEPT ![r] = t] /\ s.pc \in {"loop", "cp"}
    BY <1>1, <1>5 DEF Raise
  <2> HIDE DEF s
  <2>2. t \in RunState /\ RunOK(t)
    BY <1>1, <2>1, CountsAreNumbers DEF RunState, RunOK, Sum
  <2> QED
    BY <1>1, <2>1, <2>2 DEF RunStep
<1>6. CASE Kill(r)
  <2> DEFINE t == [s EXCEPT !.pc = "killed"]
  <2>1. run' = [run EXCEPT ![r] = t]
    BY <1>1, <1>6 DEF Kill
  <2> HIDE DEF s
  <2>2. t \in RunState /\ RunOK(t)
    BY <1>1, <2>1, CountsAreNumbers DEF RunState, RunOK, Sum
  <2> QED
    BY <1>1, <2>1, <2>2 DEF RunStep
<1>7. CASE Cancel(r)
  <2> DEFINE t == [s EXCEPT !.status = "cancelled"]
  <2>1. run' = [run EXCEPT ![r] = t]
    BY <1>1, <1>7 DEF Cancel
  <2> HIDE DEF s
  <2>2. t \in RunState /\ RunOK(t)
    BY <1>1, <2>1, CountsAreNumbers DEF RunState, RunOK, Sum
  <2> QED
    BY <1>1, <2>1, <2>2 DEF RunStep
<1>8. CASE Finish(r)
  <2> DEFINE t == [s EXCEPT !.pc = "ended", !.status = Verdict(s.why)]
  <2>1. run' = [run EXCEPT ![r] = t] /\ s.pc = "finish"
    BY <1>1, <1>8 DEF Finish
  <2> HIDE DEF s
  <2>2. t \in RunState /\ RunOK(t)
    BY <1>1, <2>1, CountsAreNumbers DEF RunState, RunOK, Sum, Verdict
  <2> QED
    BY <1>1, <2>1, <2>2 DEF RunStep
<1>9. CASE Final(r)
  <2> DEFINE t == [s EXCEPT !.pc = "finish", !.cursor = s.last]
             u == [s EXCEPT !.pc = "finish", !.cursor = s.last, !.why = "abort"]
  <2>1. (run' = [run EXCEPT ![r] = t] \/ run' = [run EXCEPT ![r] = u]) /\ s.pc = "final"
    BY <1>1, <1>9 DEF Final
  <2> HIDE DEF s
  <2>2. t \in RunState /\ RunOK(t) /\ u \in RunState /\ RunOK(u)
    BY <1>1, <1>2, <2>1 DEF RunState, RunOK, Sum
  <2> HIDE DEF t, u
  <2> QED
    BY <1>1, <2>1, <2>2 DEF RunStep
<1> QED
  BY <1>3, <1>4, <1>5, <1>6, <1>7, <1>8, <1>9

LEMMA ResumeStarts ==
  ASSUME TypeOK, NEW r \in Runs, NEW q \in Runs, Resume(r, q)
  PROVE  \E e \in 0..N : StartTo(r, e)
<1>1. run[q].cursor \in Counts
  BY DEF TypeOK, RunState
<1>2. CASE run[q].cursor = 0 /\ StartTo(r, N)
  BY <1>2
<1>3. CASE /\ run[q].cursor > 0
           /\ \E e \in {Stamp[run[q].cursor] - 1, Stamp[run[q].cursor]} : StartTo(r, e)
  <2>1. run[q].cursor \in Items /\ Stamp[run[q].cursor] \in 1..N
    BY <1>1, <1>3 DEF Counts, Items
  <2> QED
    BY <1>3, <2>1
<1> QED
  BY <1>2, <1>3 DEF Resume

\* Every step of a run preserves what RunStep says.
LEMMA EveryStep ==
  ASSUME TypeOK, RunsOK, NEW r \in Runs, Step(r)
  PROVE  RunStep(r)
<1>1. CASE Start(r)
  BY <1>1, StartStep DEF Start
<1>2. CASE \E q \in Runs : Resume(r, q)
  BY <1>2, ResumeStarts, StartStep
<1> QED
  BY <1>1, <1>2, LoopStep, EmbedFailsStep, StoreStep, RowStep DEF Step

\* The variables that are not a run's own.
LEMMA SharedStep ==
  ASSUME TypeOK, RunsOK, NEW r \in Runs, Step(r)
  PROVE  /\ kind' = kind /\ failed \subseteq failed' /\ failed' \in SUBSET Items
         /\ knowledge' \in [Items -> {"absent", "bare", "cited"}]
         /\ \A i \in Items : knowledge[i] # "absent" => knowledge'[i] # "absent"
         /\ faults' \in 0..MaxFaults
<1>1. CASE Store(r) \/ Cite(r)
  BY <1>1 DEF Store, Cite, TypeOK
<1>2. CASE EmbedFails(r)
  <2>1. /\ UNCHANGED <<kind, knowledge>> /\ faults > 0 /\ faults' = faults - 1
        /\ failed \subseteq failed'
    BY <1>2 DEF EmbedFails
  <2>2. Discover(run[r]).item \in Items /\ failed' = failed \cup {Discover(run[r]).item}
    BY <1>2, EmbedFailsStep DEF EmbedFails
  <2> QED
    BY <2>1, <2>2 DEF TypeOK
<1>3. CASE StoreFails(r)
  <2>1. run[r].item \in Items
    BY <1>3, StoringIsOpen DEF StoreFails
  <2> QED
    BY <1>3, <2>1 DEF StoreFails, TypeOK
<1>4. CASE Final(r) \/ Kill(r) \/ Raise(r)
  BY <1>4 DEF Final, Kill, Raise, TypeOK
<1>5. CASE UNCHANGED <<kind, knowledge, failed, faults>>
  BY <1>5 DEF TypeOK
<1> QED
  BY <1>1, <1>2, <1>3, <1>4, <1>5
     DEF Step, Start, StartTo, Resume, Filter, Halt, DropSecret, Embed, Checkpoint,
         EndOfItems, Finish, Cancel

LEMMA TypeInit == Init => TypeOK /\ RunsOK
<1> SUFFICES ASSUME Init PROVE TypeOK /\ RunsOK
  OBVIOUS
<1>1. 0 \in Counts /\ 0 \in 0..(TokenBudget - 1)
  BY DEF Counts
<1>2. Idle \in RunState
  BY <1>1 DEF Idle, RunState
<1>3. RunOK(Idle)
  BY DEF Idle, RunOK, Sum
<1> QED
  BY <1>2, <1>3 DEF Init, TypeOK, RunsOK

LEMMA TypeStep == TypeOK /\ RunsOK /\ [Next]_vars => TypeOK' /\ RunsOK'
<1> SUFFICES ASSUME TypeOK, RunsOK, [Next]_vars PROVE TypeOK' /\ RunsOK'
  OBVIOUS
<1>1. CASE Next
  <2>1. PICK r \in Runs : Step(r)
    BY <1>1 DEF Next
  <2>2. RunStep(r)
    BY <2>1, EveryStep
  <2>3. run' \in [Runs -> RunState] /\ RunsOK'
    BY <2>2 DEF RunStep, TypeOK, RunsOK
  <2> QED
    BY <2>1, <2>3, SharedStep DEF TypeOK
<1>2. CASE UNCHANGED vars
  BY <1>2 DEF vars, TypeOK, RunsOK
<1> QED
  BY <1>1, <1>2

\* The types hold and no run charges more than its budget or counts more items
\* than the source has (runner.py: the counts of JobProgress and skipped).
THEOREM TypeCorrect == Spec => []TypeOK
<1>1. Spec => [](TypeOK /\ RunsOK)
  BY TypeInit, TypeStep, PTL DEF Spec
<1> QED
  BY <1>1, PTL

\* The report of a run adds up at every item, whatever the errors, halts and
\* overlapping runs (runner.py: estimated_count against indexed_count).
THEOREM ReportsAddUp == Spec => []ReportAddsUp
<1>1. TypeOK /\ RunsOK => ReportAddsUp
  <2> SUFFICES ASSUME TypeOK, RunsOK, NEW r \in Runs,
                      run[r].pc \notin {"store", "cite", "killed"}
               PROVE  run[r].discovered - run[r].filtered - run[r].errors
                        - run[r].dropped - run[r].halted
                        = run[r].stored + run[r].existing
    BY DEF ReportAddsUp
  <2>1. run[r] \in RunState /\ run[r].discovered = Sum(run[r])
    BY DEF TypeOK, RunsOK, RunOK
  <2> QED
    BY <2>1, CountsAreNumbers DEF Sum
<1>2. Spec => [](TypeOK /\ RunsOK)
  BY TypeInit, TypeStep, PTL DEF Spec
<1> QED
  BY <1>1, <1>2, PTL

-----------------------------------------------------------------------------
(* What was passed is settled.  The cursor that a run leaves is an item up to  *)
(* which everything is settled, and what is settled stays so; a run, resumed   *)
(* or not, begins with the newest item.                                        *)

Clear(n) == \A i \in 1..n : Settled(i)

\* The same of the next state, of a number that is not primed itself.
SettledNext(n) == knowledge'[n] # "absent" \/ kind'[n] # "plain" \/ n \in failed'

ClearNext(n) == \A i \in 1..n : SettledNext(i)

LEMMA SettledStays ==
  ASSUME TypeOK, RunsOK, NEW r \in Runs, Step(r), NEW n \in Int, n <= N, Clear(n)
  PROVE  ClearNext(n)
<1> SUFFICES ASSUME NEW i \in 1..n PROVE SettledNext(i)
  BY DEF ClearNext
<1>1. i \in Items /\ Settled(i)
  BY DEF Items, Clear
<1> QED
  BY <1>1, SharedStep DEF Settled, SettledNext

LEMMA FrontierInRange ==
  ASSUME NEW s \in RunState
  PROVE  /\ Frontier(s) \in Int /\ Frontier(s) <= N
         /\ s.last \in Int /\ s.last <= N /\ s.cursor \in Int /\ s.cursor <= N
BY DEF Frontier, RunState, Counts

\* What a step of run r must show about its own positions.
Advance(r) ==
  ClearNext(Frontier(run'[r])) /\ ClearNext(run'[r].last) /\ ClearNext(run'[r].cursor)

\* Reaching one more settled item.
LEMMA OneMore ==
  ASSUME NEW n \in Nat, ClearNext(n), SettledNext(n + 1)
  PROVE  ClearNext(n + 1)
<1> SUFFICES ASSUME NEW i \in 1..(n + 1) PROVE SettledNext(i)
  BY DEF ClearNext
<1>1. CASE i \in 1..n
  BY <1>1 DEF ClearNext
<1>2. CASE i = n + 1
  BY <1>2
<1> QED
  BY <1>1, <1>2

LEMMA ClearZero == ClearNext(0)
BY DEF ClearNext

LEMMA LoopAdvance ==
  ASSUME TypeOK, RunsOK, PassedIsSettled, NEW r \in Runs, Step(r),
         Filter(r) \/ Halt(r) \/ DropSecret(r) \/ Embed(r) \/ EmbedFails(r)
  PROVE  Advance(r)
<1> DEFINE s == Discover(run[r])
           n == run[r].item
<1>1. /\ run \in [Runs -> RunState] /\ run[r] \in RunState
      /\ run[r].pc = "loop" /\ n < N /\ run[r].halted = 0
  BY EndInRange DEF TypeOK, RunsOK, RunOK, Filter, Halt, DropSecret, Embed, EmbedFails
<1>2. Open(s) /\ s.item = n + 1 /\ n \in Nat
  BY <1>1, DiscoverOpens, CountsAreNumbers
<1>3. s.last = run[r].last /\ s.cursor = run[r].cursor
  BY <1>1 DEF Discover, RunState
<1>4. Clear(n) /\ Clear(run[r].last) /\ Clear(run[r].cursor)
  BY <1>1 DEF PassedIsSettled, Frontier, Clear
<1>5. ClearNext(n) /\ ClearNext(run[r].last) /\ ClearNext(run[r].cursor)
  BY <1>1, <1>2, <1>4, FrontierInRange, SettledStays
<1>6. s \in RunState /\ s.halted = 0 /\ s.item \in Items
  BY <1>2, RoomToCount DEF Open
<1>7. CASE Filter(r) \/ DropSecret(r)
  <2>1. /\ run'[r].pc = "cp" /\ run'[r].halted = 0 /\ run'[r].item = n + 1
        /\ run'[r].last = run[r].last /\ run'[r].cursor = run[r].cursor
    <3> HIDE DEF s, n
    <3>1. \/ run' = [run EXCEPT ![r] = [s EXCEPT !.filtered = @ + 1, !.pc = "cp"]]
          \/ run' = [run EXCEPT ![r] = [s EXCEPT !.dropped = @ + 1, !.pc = "cp"]]
      BY <1>7 DEF Filter, DropSecret, s
    <3>2. \/ run'[r] = [s EXCEPT !.filtered = @ + 1, !.pc = "cp"]
          \/ run'[r] = [s EXCEPT !.dropped = @ + 1, !.pc = "cp"]
      BY <1>1, <3>1
    <3>3. CASE run'[r] = [s EXCEPT !.filtered = @ + 1, !.pc = "cp"]
      BY <1>2, <1>3, <1>6, <3>3 DEF RunState
    <3>4. CASE run'[r] = [s EXCEPT !.dropped = @ + 1, !.pc = "cp"]
      BY <1>2, <1>3, <1>6, <3>4 DEF RunState
    <3> QED
      BY <3>2, <3>3, <3>4
  <2>2. SettledNext(n + 1)
    BY <1>2, <1>7 DEF SettledNext, Filter, DropSecret
  <2>3. ClearNext(n + 1)
    BY <1>2, <1>5, <2>2, OneMore
  <2>4. Frontier(run'[r]) = n + 1
    BY <2>1 DEF Frontier
  <2> QED
    BY <1>5, <2>1, <2>3, <2>4 DEF Advance
<1>8. CASE Halt(r) \/ Embed(r)
  <2>1. /\ run'[r].pc = "store" \/ run'[r].halted = 1
        /\ run'[r].item = n + 1
        /\ run'[r].last = run[r].last /\ run'[r].cursor = run[r].cursor
    <3> HIDE DEF s, n
    <3>1. \/ run' = [run EXCEPT ![r] = Halted(s)]
          \/ run' = [run EXCEPT ![r] = [s EXCEPT !.tokens = @ + Cost[s.item],
                                                  !.pc = "store"]]
      BY <1>8 DEF Halt, Embed, s
    <3>2. \/ run'[r] = Halted(s)
          \/ run'[r] = [s EXCEPT !.tokens = @ + Cost[s.item], !.pc = "store"]
      BY <1>1, <3>1
    <3>3. CASE run'[r] = Halted(s)
      BY <1>2, <1>3, <1>6, <3>3 DEF RunState, Halted
    <3>4. CASE run'[r] = [s EXCEPT !.tokens = @ + Cost[s.item], !.pc = "store"]
      BY <1>2, <1>3, <1>6, <3>4 DEF RunState
    <3> QED
      BY <3>2, <3>3, <3>4
  <2>2. Frontier(run'[r]) = n
    BY <1>2, <2>1 DEF Frontier
  <2> QED
    BY <1>5, <2>1, <2>2 DEF Advance
<1>9. CASE EmbedFails(r)
  <2>1. /\ run'[r].pc \in {"cp", "final"} /\ run'[r].halted = 0 /\ run'[r].item = n + 1
        /\ run'[r].last = run[r].last /\ run'[r].cursor = run[r].cursor
    <3> HIDE DEF s, n
    <3>1. \/ run' = [run EXCEPT ![r] = Errored(s)]
          \/ run' = [run EXCEPT ![r] = Errored([s EXCEPT !.tokens = @ + Cost[s.item]])]
      BY <1>9 DEF EmbedFails, s
    <3>2. \/ run'[r] = Errored(s)
          \/ run'[r] = Errored([s EXCEPT !.tokens = @ + Cost[s.item]])
      BY <1>1, <3>1
    <3> DEFINE u == [s EXCEPT !.tokens = @ + Cost[s.item]]
    <3>3. CASE run'[r] = Errored(s)
      BY <1>2, <1>3, <1>6, <3>3 DEF RunState, Errored
    <3>4. CASE run'[r] = Errored(u)
      <4>1. /\ u.item = s.item /\ u.last = s.last /\ u.cursor = s.cursor
            /\ u.halted = s.halted /\ u.errors = s.errors
            /\ DOMAIN u = DOMAIN s
        BY <1>6 DEF RunState
      <4> HIDE DEF u
      <4> QED
        BY <1>2, <1>3, <1>6, <3>4, <4>1 DEF RunState, Errored
    <3> QED
      BY <3>2, <3>3, <3>4
  <2>2. SettledNext(n + 1)
    BY <1>2, <1>9 DEF SettledNext, EmbedFails
  <2>3. ClearNext(n + 1)
    BY <1>2, <1>5, <2>2, OneMore
  <2>4. Frontier(run'[r]) = n + 1
    BY <2>1 DEF Frontier
  <2> QED
    BY <1>5, <2>1, <2>3, <2>4 DEF Advance
<1> QED
  BY <1>7, <1>8, <1>9

LEMMA StoreAdvance ==
  ASSUME TypeOK, RunsOK, PassedIsSettled, NEW r \in Runs, Step(r),
         Store(r) \/ Cite(r) \/ StoreFails(r)
  PROVE  Advance(r)
<1> DEFINE s == run[r]
           n == s.item - 1
<1>1. run \in [Runs -> RunState] /\ s \in RunState /\ s.pc \in {"store", "cite"}
  BY DEF TypeOK, Store, Cite, StoreFails
<1>2. Open(s) /\ s.item \in Items /\ n \in Nat /\ n <= N /\ s.item = n + 1
  <2>1. Open(s) /\ s.item \in Items
    BY <1>1, StoringIsOpen
  <2>2. \A i \in Items : i - 1 \in Nat /\ i - 1 <= N /\ i = (i - 1) + 1
    BY DEF Items
  <2> QED
    BY <2>1, <2>2
<1>3. s.halted = 0
  BY <1>2 DEF Open
<1>4. Clear(n) /\ Clear(s.last) /\ Clear(s.cursor)
  BY <1>1 DEF PassedIsSettled, Frontier, Clear
<1>5. ClearNext(n) /\ ClearNext(s.last) /\ ClearNext(s.cursor)
  BY <1>1, <1>2, <1>4, FrontierInRange, SettledStays
<1>6. CASE run' = [run EXCEPT ![r].pc = "cite"]
  <2>1. /\ run'[r].pc = "cite" /\ run'[r].item = s.item
        /\ run'[r].last = s.last /\ run'[r].cursor = s.cursor
    BY <1>1, <1>6 DEF RunState
  <2>2. Frontier(run'[r]) = n
    BY <2>1 DEF Frontier
  <2> QED
    BY <1>5, <2>1, <2>2 DEF Advance
<1>7. CASE ~(run' = [run EXCEPT ![r].pc = "cite"])
  <2>1. /\ run'[r].pc \in {"cp", "final"} /\ run'[r].halted = 0 /\ run'[r].item = s.item
        /\ run'[r].last \in {s.last, s.item} /\ run'[r].cursor = s.cursor
    <3>1. \/ run' = [run EXCEPT ![r] = Errored(s)]
          \/ run' = [run EXCEPT ![r] = [s EXCEPT !.existing = @ + 1,
                                                  !.last = s.item, !.pc = "cp"]]
          \/ run' = [run EXCEPT ![r] = [s EXCEPT !.stored = @ + 1,
                                                  !.last = s.item, !.pc = "cp"]]
      BY <1>7 DEF Store, Cite, StoreFails
    <3>2. \/ run'[r] = Errored(s)
          \/ run'[r] = [s EXCEPT !.existing = @ + 1, !.last = s.item, !.pc = "cp"]
          \/ run'[r] = [s EXCEPT !.stored = @ + 1, !.last = s.item, !.pc = "cp"]
      BY <1>1, <3>1
    <3> HIDE DEF s, n
    <3>3. CASE run'[r] = Errored(s)
      BY <1>1, <1>3, <3>3 DEF RunState, Errored
    <3>4. CASE run'[r] = [s EXCEPT !.existing = @ + 1, !.last = s.item, !.pc = "cp"]
      BY <1>1, <1>3, <3>4 DEF RunState
    <3>5. CASE run'[r] = [s EXCEPT !.stored = @ + 1, !.last = s.item, !.pc = "cp"]
      BY <1>1, <1>3, <3>5 DEF RunState
    <3> QED
      BY <3>2, <3>3, <3>4, <3>5
  <2>2. SettledNext(s.item)
    BY <1>2, <1>7 DEF SettledNext, Store, Cite, StoreFails, TypeOK
  <2>3. ClearNext(s.item)
    BY <1>2, <1>5, <2>2, OneMore
  <2>4. Frontier(run'[r]) = s.item
    BY <2>1 DEF Frontier
  <2> QED
    BY <1>5, <2>1, <2>3, <2>4 DEF Advance
<1> QED
  BY <1>6, <1>7

\* Steps that move no position but the cursor.
LEMMA RowAdvance ==
  ASSUME TypeOK, RunsOK, PassedIsSettled, NEW r \in Runs, Step(r),
         Checkpoint(r) \/ EndOfItems(r) \/ Raise(r) \/ Final(r) \/ Finish(r)
           \/ Kill(r) \/ Cancel(r)
  PROVE  Advance(r)
<1> DEFINE s == run[r]
<1>1. run \in [Runs -> RunState] /\ s \in RunState /\ RunOK(s)
  BY DEF TypeOK, RunsOK
<1>2. Clear(Frontier(s)) /\ Clear(s.last) /\ Clear(s.cursor)
  BY DEF PassedIsSettled, Clear
<1>3. ClearNext(Frontier(s)) /\ ClearNext(s.last) /\ ClearNext(s.cursor)
  BY <1>1, <1>2, FrontierInRange, SettledStays
<1>4. /\ run'[r].item = s.item /\ run'[r].halted = s.halted
      /\ run'[r].last = s.last /\ run'[r].cursor \in {s.last, s.cursor}
      /\ \/ run'[r].pc = "killed" \/ run'[r].pc = s.pc
         \/ s.pc \notin {"store", "cite", "killed"} /\ run'[r].pc \notin {"store", "cite"}
  <2>1. CASE Checkpoint(r)
    <3>1. \/ run'[r] = [s EXCEPT !.pc = "loop"]
          \/ run'[r] = [s EXCEPT !.cursor = s.last, !.cp = s.discovered, !.pc = "loop"]
      BY <1>1, <2>1 DEF Checkpoint
    <3>2. s.pc = "cp"
      BY <2>1 DEF Checkpoint
    <3> HIDE DEF s
    <3>3. CASE run'[r] = [s EXCEPT !.pc = "loop"]
      BY <1>1, <3>2, <3>3 DEF RunState
    <3>4. CASE run'[r] = [s EXCEPT !.cursor = s.last, !.cp = s.discovered, !.pc = "loop"]
      BY <1>1, <3>2, <3>4 DEF RunState
    <3> QED
      BY <3>1, <3>3, <3>4
  <2>2. CASE EndOfItems(r) \/ Raise(r)
    BY <1>1, <2>2 DEF EndOfItems, Raise, RunState
  <2>3. CASE Final(r)
    BY <1>1, <2>3 DEF Final, RunState
  <2>4. CASE Finish(r) \/ Kill(r) \/ Cancel(r)
    BY <1>1, <2>4 DEF Finish, Kill, Cancel, RunState
  <2> QED
    BY <2>1, <2>2, <2>3, <2>4
<1>5. Frontier(run'[r]) <= Frontier(s) /\ Frontier(run'[r]) \in Int /\ Frontier(s) \in Int
  BY <1>1, <1>4, CountsAreNumbers DEF Frontier
<1>6. ClearNext(Frontier(run'[r]))
  BY <1>3, <1>5 DEF ClearNext
<1> QED
  BY <1>3, <1>4, <1>6 DEF Advance

LEMMA StartAdvance ==
  ASSUME TypeOK, NEW r \in Runs, Start(r) \/ \E q \in Runs : Resume(r, q)
  PROVE  Advance(r)
<1>1. PICK e : StartTo(r, e)
  BY ResumeStarts DEF Start
<1>2. run'[r] = [Idle EXCEPT !.pc = "loop", !.end = e, !.status = "running"]
  BY <1>1 DEF StartTo, TypeOK
<1>3. /\ run'[r].pc = "loop" /\ run'[r].halted = 0 /\ run'[r].item = 0
      /\ run'[r].last = 0 /\ run'[r].cursor = 0
  BY <1>2 DEF Idle
<1> QED
  BY <1>3, ClearZero DEF Advance, Frontier

LEMMA SkipStep ==
  ASSUME TypeOK, RunsOK, PassedIsSettled, [Next]_vars
  PROVE  PassedIsSettled'
<1>1. CASE Next
  <2>1. PICK r \in Runs : Step(r)
    BY <1>1 DEF Next
  <2>2. Advance(r)
    BY <2>1, StartAdvance, LoopAdvance, StoreAdvance, RowAdvance DEF Step
  <2>3. RunStep(r) /\ run \in [Runs -> RunState]
    BY <2>1, EveryStep DEF TypeOK
  <2>4. ASSUME NEW q \in Runs
        PROVE  /\ ClearNext(Frontier(run'[q])) /\ ClearNext(run'[q].last)
               /\ ClearNext(run'[q].cursor)
    <3>1. CASE q = r
      BY <2>2, <3>1 DEF Advance
    <3>2. CASE q # r
      <4>1. run'[q] = run[q] /\ run[q] \in RunState
        BY <2>3, <3>2 DEF RunStep
      <4>2. Clear(Frontier(run[q])) /\ Clear(run[q].last) /\ Clear(run[q].cursor)
        BY DEF PassedIsSettled, Clear
      <4>3. ClearNext(Frontier(run[q])) /\ ClearNext(run[q].last) /\ ClearNext(run[q].cursor)
        BY <2>1, <4>1, <4>2, FrontierInRange, SettledStays
      <4> QED
        BY <4>1, <4>3
    <3> QED
      BY <3>1, <3>2
  <2> QED
    BY <2>4 DEF PassedIsSettled, ClearNext, SettledNext, Settled, Frontier
<1>2. CASE UNCHANGED vars
  BY <1>2 DEF vars, PassedIsSettled, Settled, Frontier
<1> QED
  BY <1>1, <1>2

\* Whatever runs are killed, halted, resumed or overlap, every item newer than
\* a run's position or than a stored cursor is stored, dropped or reported as an
\* error (runner.py: last_item and the checkpoints).
THEOREM PassedItemsSettled == Spec => []PassedIsSettled
<1>1. Init => PassedIsSettled
  BY DEF Init, PassedIsSettled, Idle, Frontier
<1>2. PassedIsSettled /\ TypeOK /\ RunsOK /\ [Next]_vars => PassedIsSettled'
  BY SkipStep
<1>3. Spec => [](TypeOK /\ RunsOK)
  BY TypeInit, TypeStep, PTL DEF Spec
<1> QED
  BY <1>1, <1>2, <1>3, PTL DEF Spec

-----------------------------------------------------------------------------
(* Indexed once.  Only the run whose INSERT found no row goes on to cite the  *)
(* item, so while it does, the row is bare and no other run is there; a run   *)
(* that is killed in between leaves a row that no run will cite.              *)

CiteInv ==
  /\ \A r \in Runs : run[r].pc = "new" => run[r].stored = 0
  /\ \A r \in Runs : run[r].pc = "cite" => knowledge[run[r].item] = "bare"
  /\ \A r, q \in Runs :
       run[r].pc = "cite" /\ run[q].pc = "cite" /\ run[r].item = run[q].item => r = q

\* What a step of run r does to the knowledge and to the count.
Inserts(r) ==
  /\ run[r].pc = "store" /\ knowledge[run[r].item] = "absent"
  /\ knowledge' = [knowledge EXCEPT ![run[r].item] = "bare"]
  /\ run'[r].pc = "cite" /\ run'[r].item = run[r].item /\ run'[r].stored = run[r].stored

Cites(r) ==
  /\ run[r].pc = "cite"
  /\ knowledge' = [knowledge EXCEPT ![run[r].item] = "cited"]
  /\ run'[r].pc = "cp" /\ run'[r].stored = run[r].stored + 1

Elsewhere(r) ==
  /\ knowledge' = knowledge /\ run'[r].stored = run[r].stored
  /\ run'[r].pc = "cite" => run[r].pc = "cite" /\ run'[r].item = run[r].item
  /\ run'[r].pc = "new" => run[r].pc = "new"

LEMMA ErroredFields ==
  ASSUME NEW s \in RunState
  PROVE  Errored(s).stored = s.stored /\ Errored(s).pc \in {"final", "cp"}
<1> DEFINE t == [s EXCEPT !.errors = @ + 1]
<1>1. /\ DOMAIN t = DOMAIN s /\ t.stored = s.stored
      /\ "pc" \in DOMAIN s /\ "why" \in DOMAIN s /\ "stored" \in DOMAIN s
  BY DEF RunState
<1> HIDE DEF t
<1>2. /\ [t EXCEPT !.pc = "final", !.why = "abort"].stored = t.stored
      /\ [t EXCEPT !.pc = "final", !.why = "abort"].pc = "final"
      /\ [t EXCEPT !.pc = "cp"].stored = t.stored
      /\ [t EXCEPT !.pc = "cp"].pc = "cp"
  BY <1>1
<1>3. Errored(s) = IF Abort(t) THEN [t EXCEPT !.pc = "final", !.why = "abort"]
                   ELSE [t EXCEPT !.pc = "cp"]
  BY DEF Errored, t
<1> QED
  BY <1>1, <1>2, <1>3

LEMMA IndexStep ==
  ASSUME TypeOK, CiteInv, NEW r \in Runs, Step(r)
  PROVE  Inserts(r) \/ Cites(r) \/ Elsewhere(r)
<1>1. run \in [Runs -> RunState] /\ run[r] \in RunState
  BY DEF TypeOK
<1>2. CASE Store(r)
  <2>1. CASE knowledge[run[r].item] = "absent"
    <3>1. /\ knowledge' = [knowledge EXCEPT ![run[r].item] = "bare"] /\ run[r].pc = "store"
          /\ run'[r] = [run[r] EXCEPT !.pc = "cite"]
      BY <1>1, <1>2, <2>1 DEF Store
    <3> QED
      BY <1>1, <2>1, <3>1 DEF Inserts, RunState
  <2>2. CASE knowledge[run[r].item] # "absent"
    <3>1. knowledge' = knowledge /\ run' = [run EXCEPT ![r] = [run[r] EXCEPT !.existing = @ + 1,
                                                   !.last = run[r].item, !.pc = "cp"]]
      BY <1>2, <2>2 DEF Store
    <3>2. run'[r] = [run[r] EXCEPT !.existing = @ + 1, !.last = run[r].item, !.pc = "cp"]
      BY <1>1, <3>1
    <3>3. run'[r].stored = run[r].stored /\ run'[r].pc = "cp"
      BY <1>1, <3>2 DEF RunState
    <3> QED
      BY <3>1, <3>3 DEF Elsewhere
  <2> QED
    BY <2>1, <2>2
<1>3. CASE Cite(r)
  BY <1>1, <1>3 DEF Cite, Cites, RunState
<1>4. CASE \E e : StartTo(r, e)
  <2>1. PICK e : StartTo(r, e)
    BY <1>4
  <2>2. run'[r] = [Idle EXCEPT !.pc = "loop", !.end = e, !.status = "running"]
    BY <1>1, <2>1 DEF StartTo
  <2>3. run'[r].stored = 0 /\ run'[r].pc = "loop"
    BY <2>2 DEF Idle
  <2>4. run[r].stored = 0 /\ knowledge' = knowledge
    BY <2>1 DEF StartTo, CiteInv
  <2> QED
    BY <2>3, <2>4 DEF Elsewhere
<1>5. CASE StoreFails(r)
  <2>1. run'[r] = Errored(run[r]) /\ knowledge' = knowledge
    BY <1>1, <1>5 DEF StoreFails
  <2> QED
    BY <1>1, <2>1, ErroredFields DEF Elsewhere
<1>6. CASE EmbedFails(r)
  <2> DEFINE s == Discover(run[r])
  <2> DEFINE t == [s EXCEPT !.tokens = @ + Cost[s.item]]
  <2>1. /\ knowledge' = knowledge
        /\ run'[r] = Errored(s) \/ run'[r] = Errored(t)
    BY <1>1, <1>6 DEF EmbedFails
  <2>2. s.stored = run[r].stored /\ t.stored = run[r].stored
    BY <1>1 DEF Discover, RunState
  <2>3. ASSUME NEW x, x = s \/ x = t
        PROVE  Errored(x).stored = x.stored /\ Errored(x).pc \in {"final", "cp"}
    <3>1. "pc" \in DOMAIN x /\ "why" \in DOMAIN x /\ "stored" \in DOMAIN x
      BY <1>1, <2>3 DEF Discover, RunState
    <3> DEFINE y == [x EXCEPT !.errors = @ + 1]
    <3>2. DOMAIN y = DOMAIN x /\ y.stored = x.stored
      BY <3>1
    <3> HIDE DEF y
    <3>3. /\ [y EXCEPT !.pc = "final", !.why = "abort"].stored = y.stored
          /\ [y EXCEPT !.pc = "final", !.why = "abort"].pc = "final"
          /\ [y EXCEPT !.pc = "cp"].stored = y.stored
          /\ [y EXCEPT !.pc = "cp"].pc = "cp"
      BY <3>1, <3>2
    <3>4. Errored(x) = IF Abort(y) THEN [y EXCEPT !.pc = "final", !.why = "abort"]
                       ELSE [y EXCEPT !.pc = "cp"]
      BY DEF Errored, y
    <3> QED
      BY <3>2, <3>3, <3>4
  <2> HIDE DEF s, t
  <2> QED
    BY <2>1, <2>2, <2>3 DEF Elsewhere
<1>7. CASE Filter(r) \/ Halt(r) \/ DropSecret(r) \/ Embed(r)
  <2> DEFINE s == Discover(run[r])
  <2>1. s.stored = run[r].stored /\ {"pc", "stored", "filtered", "why", "halted", "dropped", "tokens"} \subseteq DOMAIN s
    BY <1>1 DEF Discover, RunState
  <2>2. /\ knowledge' = knowledge
        /\ \/ run'[r] = [s EXCEPT !.filtered = @ + 1, !.pc = "cp"]
           \/ run'[r] = [s EXCEPT !.pc = "final", !.why = "budget", !.halted = @ + 1]
           \/ run'[r] = [s EXCEPT !.dropped = @ + 1, !.pc = "cp"]
           \/ run'[r] = [s EXCEPT !.tokens = @ + Cost[s.item], !.pc = "store"]
    BY <1>1, <1>7 DEF Filter, Halt, DropSecret, Embed, Halted
  <2> HIDE DEF s
  <2>3. run'[r].stored = s.stored /\ run'[r].pc \in {"cp", "final", "store"}
    BY <2>1, <2>2
  <2> QED
    BY <2>1, <2>2, <2>3 DEF Elsewhere
<1>8. CASE Checkpoint(r) \/ EndOfItems(r) \/ Raise(r) \/ Final(r) \/ Finish(r) \/ Kill(r)
  <2>1. knowledge' = knowledge
    BY <1>8 DEF Checkpoint, EndOfItems, Raise, Final, Finish, Kill
  <2>2. run'[r].stored = run[r].stored /\ run'[r].pc \in {"loop", "final", "finish", "ended", "killed"}
    <3>1. CASE Checkpoint(r)
      <4>1. \/ run'[r] = [run[r] EXCEPT !.pc = "loop"]
            \/ run'[r] = [run[r] EXCEPT !.cursor = run[r].last, !.cp = run[r].discovered, !.pc = "loop"]
        BY <1>1, <3>1 DEF Checkpoint
      <4> QED
        BY <1>1, <4>1 DEF RunState
    <3>2. CASE EndOfItems(r) \/ Raise(r)
      BY <1>1, <3>2 DEF EndOfItems, Raise, RunState
    <3>3. CASE Final(r)
      BY <1>1, <3>3 DEF Final, RunState
    <3>4. CASE Finish(r) \/ Kill(r)
      BY <1>1, <3>4 DEF Finish, Kill, RunState
    <3> QED
      BY <1>8, <3>1, <3>2, <3>3, <3>4
  <2> QED
    BY <2>1, <2>2 DEF Elsewhere
<1>9. CASE Cancel(r)
  BY <1>1, <1>9 DEF Cancel, Elsewhere, RunState
<1> QED
  BY <1>2, <1>3, <1>4, <1>5, <1>6, <1>7, <1>8, <1>9 DEF Step, Start, Resume

LEMMA CiteStep ==
  ASSUME TypeOK, RunsOK, CiteInv, [Next]_vars
  PROVE  CiteInv'
<1>1. CASE UNCHANGED vars
  BY <1>1 DEF vars, CiteInv
<1>2. ASSUME NEW r \in Runs, Step(r) PROVE CiteInv'
  <2>1. run'[r] = run'[r] /\ \A q \in Runs \ {r} : run'[q] = run[q]
    BY <1>2, EveryStep DEF RunStep, TypeOK
  <2>2. \A q \in Runs : run[q].pc \in {"store", "cite"} => run[q].item \in Items
    BY StoringIsOpen
  <2>3. knowledge = [i \in Items |-> knowledge[i]]
    BY DEF TypeOK
  <2>4. CASE Inserts(r)
    <3>1. knowledge'[run[r].item] = "bare" /\ \A i \in Items \ {run[r].item} : knowledge'[i] = knowledge[i]
      BY <2>2, <2>3, <2>4 DEF Inserts
    <3>2. \A q \in Runs \ {r} : run[q].pc = "cite" => run[q].item # run[r].item
      BY <2>4 DEF Inserts, CiteInv
    <3> QED
      BY <2>1, <2>2, <2>4, <3>1, <3>2 DEF Inserts, CiteInv
  <2>5. CASE Cites(r)
    <3>1. \A i \in Items \ {run[r].item} : knowledge'[i] = knowledge[i]
      BY <2>2, <2>3, <2>5 DEF Cites
    <3>2. \A q \in Runs \ {r} : run[q].pc = "cite" => run[q].item # run[r].item
      BY <2>5 DEF Cites, CiteInv
    <3> QED
      BY <2>1, <2>2, <2>5, <3>1, <3>2 DEF Cites, CiteInv
  <2>6. CASE Elsewhere(r)
    BY <2>1, <2>6 DEF Elsewhere, CiteInv
  <2> QED
    BY <1>2, <2>4, <2>5, <2>6, IndexStep
<1> QED
  BY <1>1, <1>2 DEF Next

Cited == {i \in Items : knowledge[i] = "cited"}

LEMMA IndexFinite == IsFiniteSet(Indexed) /\ IsFiniteSet(Cited)
<1>1. IsFiniteSet(Items)
  BY FS_Interval DEF Items
<1>2. IsFiniteSet(Runs \X Items)
  BY <1>1, FS_Product
<1> QED
  BY <1>1, <1>2, FS_Subset DEF Indexed, Cited

LEMMA IndexedStep ==
  ASSUME TypeOK, TypeOK', RunsOK, CiteInv, IndexedOnce, [Next]_vars
  PROVE  IndexedOnce'
<1>1. CASE UNCHANGED vars
  BY <1>1 DEF vars, IndexedOnce, Indexed
<1>2. ASSUME NEW r \in Runs, Step(r) PROVE IndexedOnce'
  <2>1. \A q \in Runs \ {r} : run'[q] = run[q]
    BY <1>2, EveryStep DEF RunStep, TypeOK
  <2>2. \A q \in Runs : run[q].pc \in {"store", "cite"} => run[q].item \in Items
    BY StoringIsOpen
  <2>3. knowledge = [i \in Items |-> knowledge[i]]
    BY DEF TypeOK
  <2>4. CASE Inserts(r) \/ Elsewhere(r)
    <3>1. \A q \in Runs : run'[q].stored = run[q].stored
      BY <2>1, <2>4 DEF Inserts, Elsewhere
    <3>2. Indexed' = Indexed
      BY <3>1 DEF Indexed
    <3>3. \A i \in Items : knowledge'[i] = "cited" <=> knowledge[i] = "cited"
      BY <2>2, <2>3, <2>4 DEF Inserts, Elsewhere
    <3>4. {i \in Items : knowledge'[i] = "cited"} = {i \in Items : knowledge[i] = "cited"}
      BY <3>3
    <3> QED
      BY <3>2, <3>4, Zenon DEF IndexedOnce
  <2>5. CASE Cites(r)
    <3>1. run[r].item \in Items /\ knowledge[run[r].item] = "bare"
      BY <2>2, <2>5 DEF Cites, CiteInv
    <3>2. Cited' = Cited \cup {run[r].item} /\ run[r].item \notin Cited
      BY <2>3, <2>5, <3>1 DEF Cited, Cites
    <3> DEFINE n == run[r].stored + 1
    <3>3. n \in Items /\ run[r].stored \in Nat
      <4>1. run[r].stored \in Counts /\ run'[r].stored \in Counts
        BY DEF TypeOK, RunState
      <4>2. run'[r].stored = run[r].stored + 1
        BY <2>5 DEF Cites
      <4> QED
        BY <4>1, <4>2 DEF Counts, Items
    <3>4. \A k \in Items : k <= n <=> (k <= run[r].stored \/ k = n)
      <4>1. \A m \in Nat, k \in Items : k <= m + 1 <=> (k <= m \/ k = m + 1)
        BY DEF Items
      <4> QED
        BY <3>3, <4>1
    <3>5. run'[r].stored = n /\ ~(n <= run[r].stored)
      BY <2>5, <3>3 DEF Cites
    <3> HIDE DEF n
    <3>6. Indexed' = Indexed \cup {<<r, n>>} /\ <<r, n>> \notin Indexed
      <4>1. \A q \in Runs, k \in Items :
              k <= run'[q].stored <=> (k <= run[q].stored \/ (q = r /\ k = n))
        BY <2>1, <3>4, <3>5
      <4>2. \A q \in Runs, k \in Items : <<q, k>> \in Indexed <=> k <= run[q].stored
        BY DEF Indexed
      <4>3. \A q \in Runs, k \in Items : <<q, k>> \in Indexed' <=> k <= run'[q].stored
        BY DEF Indexed
      <4>4. Indexed \subseteq Runs \X Items /\ Indexed' \subseteq Runs \X Items
        BY DEF Indexed
      <4>5. <<r, n>> \in Runs \X Items
        BY <3>3
      <4>6. ASSUME NEW q \in Runs, NEW k \in Items
            PROVE  <<q, k>> \in Indexed' <=> <<q, k>> \in Indexed \cup {<<r, n>>}
        BY <4>1, <4>2, <4>3
      <4>7. Indexed' = Indexed \cup {<<r, n>>}
        BY <4>4, <4>5, <4>6
      <4> QED
        BY <3>3, <3>5, <4>2, <4>7
    <3>7. Cardinality(Indexed') = Cardinality(Indexed) + 1 /\ Cardinality(Cited') = Cardinality(Cited) + 1
      BY <3>2, <3>6, IndexFinite, FS_AddElement
    <3>8. Cardinality(Indexed) = Cardinality(Cited)
      BY DEF IndexedOnce, Cited
    <3> QED
      BY <3>7, <3>8 DEF IndexedOnce, Cited
  <2> QED
    BY <1>2, <2>4, <2>5, IndexStep
<1> QED
  BY <1>1, <1>2 DEF Next

\* Overlapping runs, and runs that import the same items again, never count an
\* item twice: the counts of indexed items add up to the items that have their
\* source (runner.py: _store and indexed_count).
THEOREM CountedOnce == Spec => []IndexedOnce
<1>1. Init => CiteInv /\ IndexedOnce
  <2> SUFFICES ASSUME Init PROVE CiteInv /\ IndexedOnce
    OBVIOUS
  <2>1. Idle.pc = "new" /\ Idle.stored = 0
    BY DEF Idle
  <2>2. Indexed = {}
    <3>1. \A r \in Runs : run[r].stored = 0
      BY <2>1 DEF Init
    <3>2. \A i \in Items : ~(i <= 0)
      BY DEF Items
    <3> QED
      BY <3>1, <3>2 DEF Indexed
  <2>3. {i \in Items : knowledge[i] = "cited"} = {}
    BY DEF Init
  <2>4. IndexedOnce
    BY <2>2, <2>3, Zenon DEF IndexedOnce
  <2> QED
    BY <2>1, <2>4 DEF Init, CiteInv
<1>2. TypeOK /\ TypeOK' /\ RunsOK /\ CiteInv /\ IndexedOnce /\ [Next]_vars
        => CiteInv' /\ IndexedOnce'
  BY CiteStep, IndexedStep
<1>3. Spec => [](TypeOK /\ RunsOK)
  BY TypeInit, TypeStep, PTL DEF Spec
<1> QED
  BY <1>1, <1>2, <1>3, PTL DEF Spec


==============================================================================
