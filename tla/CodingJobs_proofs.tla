-------------------------- MODULE CodingJobs_proofs --------------------------
(***************************************************************************)
(* What is proved of CodingJobs, for any number of phases, streams, lines  *)
(* and events and any limit of the queue, the batches and the buffer.      *)
(***************************************************************************)
EXTENDS CodingJobs, TLAPS, FiniteSetTheorems, SequenceTheorems

LEMMA Constants ==
  /\ IsFiniteSet(Streams) /\ MaxPhases \in Nat /\ MaxLines \in Nat
  /\ QueueMax \in Nat /\ QueueMax > 0 /\ Cap \in Nat /\ Cap > 0 /\ MaxEvents \in Nat
  BY CodingAssumption

-----------------------------------------------------------------------------
(* JobDbWriter.schedule() and LogBuffer.append() *)

\* The queue is extended by a beginning of ws, by all of it if nothing is
\* dropped, and keeps to its limit.
LEMMA ScheduleFacts ==
  ASSUME TypeOK, NEW ws \in Seq(Writes), Schedule(ws)
  PROVE  /\ queue' \in Seq(Writes) /\ Len(queue') <= QueueMax
         /\ Len(queue) <= Len(queue')
         /\ dropped' \in BOOLEAN /\ (dropped => dropped')
         /\ ~dropped' => Len(queue') = Len(queue) + Len(ws)
         /\ \A j \in 1..Len(queue) : queue'[j] = queue[j]
         /\ \A j \in (Len(queue) + 1)..Len(queue') :
              j - Len(queue) \in 1..Len(ws) /\ queue'[j] = ws[j - Len(queue)]
<1> DEFINE room == QueueMax - Len(queue)
           m == IF Len(ws) <= room THEN Len(ws) ELSE room
           t == SubSeq(ws, 1, m)
<1>1. queue' = queue \o t /\ dropped' = (dropped \/ Len(ws) > room)
  BY DEF Schedule
<1>2. /\ queue \in Seq(Writes) /\ Len(queue) \in Nat /\ room \in Nat /\ Len(ws) \in Nat
      /\ m \in 0..Len(ws) /\ m <= room /\ dropped \in BOOLEAN
  BY Constants DEF TypeOK
<1>3. ~(Len(ws) > room) => m = Len(ws)
  BY <1>2
<1> HIDE DEF m
<1>4. t \in Seq(Writes) /\ Len(t) = m /\ \A i \in 1..m : t[i] = ws[i]
  BY <1>2
<1> HIDE DEF t
<1>5. /\ queue \o t \in Seq(Writes) /\ Len(queue \o t) = Len(queue) + m
      /\ \A j \in 1..Len(queue) : (queue \o t)[j] = queue[j]
      /\ \A j \in (Len(queue) + 1)..(Len(queue) + m) : (queue \o t)[j] = t[j - Len(queue)]
  BY <1>2, <1>4
<1>6. \A j \in (Len(queue) + 1)..(Len(queue) + m) : j - Len(queue) \in 1..m /\ j - Len(queue) \in 1..Len(ws)
  BY <1>2
<1>7. dropped' \in BOOLEAN /\ (dropped => dropped') /\ (~dropped' => m = Len(ws))
  BY <1>1, <1>2, <1>3
<1>8. Len(queue) + m <= QueueMax /\ Len(queue) <= Len(queue) + m
  BY <1>2, Constants
<1> QED
  BY <1>1, <1>4, <1>5, <1>6, <1>7, <1>8

\* The batch of phase p gets the line and loses at most its first one: nothing
\* is lost that is not counted.
LEMMA BufferFacts ==
  ASSUME TypeOK, NEW p \in Steps, NEW n \in 1..MaxLines, Buffer(p, n)
  PROVE  /\ buffer' = [buffer EXCEPT ![p] = buffer'[p]] /\ gone' = [gone EXCEPT ![p] = gone'[p]]
         /\ buffer'[p] \in Seq(1..MaxLines) /\ Len(buffer'[p]) <= Cap /\ gone'[p] \in Nat
         /\ Len(buffer'[p]) + gone'[p] = Len(buffer[p]) + gone[p] + 1
         /\ \E e \in {0, 1} :
              /\ Len(buffer'[p]) = Len(buffer[p]) + 1 - e
              /\ \A i \in 1..Len(buffer'[p]) :
                   i + e \in 1..(Len(buffer[p]) + 1) /\ buffer'[p][i] = Append(buffer[p], n)[i + e]
<1> DEFINE b == Append(buffer[p], n)
           e == IF Len(b) > Cap THEN Len(b) - Cap ELSE 0
<1>1. /\ buffer' = [buffer EXCEPT ![p] = SubSeq(b, e + 1, Len(b))]
      /\ gone' = [gone EXCEPT ![p] = @ + e]
  BY DEF Buffer
<1>2. /\ buffer[p] \in Seq(1..MaxLines) /\ Len(buffer[p]) \in Nat /\ Len(buffer[p]) <= Cap
      /\ gone[p] \in Nat
  BY DEF TypeOK
<1>3. b \in Seq(1..MaxLines) /\ Len(b) = Len(buffer[p]) + 1
  BY <1>2
<1> HIDE DEF b
<1>4. e \in {0, 1} /\ Len(b) - e <= Cap /\ e <= Len(b)
  BY <1>2, <1>3, Constants
<1> HIDE DEF e
<1> DEFINE t == SubSeq(b, e + 1, Len(b))
<1>5. /\ t \in Seq(1..MaxLines) /\ Len(t) = Len(b) - e
      /\ \A i \in 1..(Len(b) - e) : t[i] = b[i + e]
  <2>0. e + 1 \in Int /\ Len(b) \in Nat /\ \A i \in (e + 1)..Len(b) : i \in 1..Len(b)
    BY <1>3, <1>4
  <2>1. e + 1 \in Int /\ Len(b) \in Int /\ \A i \in (e + 1)..Len(b) : b[i] \in 1..MaxLines
    <3>1. \A i \in 1..Len(b) : b[i] \in 1..MaxLines
      BY <1>3, ElementOfSeq, Zenon
    <3>2. \A i \in (e + 1)..Len(b) : b[i] \in 1..MaxLines
      BY <2>0, <3>1, Zenon
    <3> QED
      BY <2>0, <3>2
  <2>2. /\ t \in Seq(1..MaxLines)
        /\ Len(t) = IF e + 1 <= Len(b) THEN Len(b) - (e + 1) + 1 ELSE 0
        /\ \A i \in 1..(Len(b) - (e + 1) + 1) : t[i] = b[(e + 1) + i - 1]
    BY <2>1, SubSeqProperties
  <2>3. Len(b) - (e + 1) + 1 = Len(b) - e /\ \A i \in 1..(Len(b) - e) : (e + 1) + i - 1 = i + e
    BY <1>3, <1>4
  <2> HIDE DEF t
  <2> QED
    BY <1>3, <1>4, <2>2, <2>3
<1> HIDE DEF t
<1>6. buffer'[p] = t /\ gone'[p] = gone[p] + e
  BY <1>1 DEF TypeOK, t
<1>7. /\ buffer' = [buffer EXCEPT ![p] = buffer'[p]]
      /\ gone' = [gone EXCEPT ![p] = gone'[p]]
  BY <1>1, <1>6 DEF t
<1>8. /\ Len(t) <= Cap /\ gone[p] + e \in Nat
      /\ Len(t) + (gone[p] + e) = Len(buffer[p]) + gone[p] + 1
      /\ Len(t) = Len(buffer[p]) + 1 - e
      /\ \A i \in 1..Len(t) : i + e \in 1..(Len(buffer[p]) + 1) /\ i \in 1..(Len(b) - e)
  <2>1. e \in Nat /\ Len(t) \in Nat /\ Len(t) = Len(b) - e
    BY <1>4, <1>5
  <2>2. Len(t) <= Cap /\ gone[p] + e \in Nat
    <3>1. Len(t) <= Cap
      BY <1>4, <2>1
    <3>2. gone[p] + e \in Nat
      BY <1>2, <2>1
    <3> QED
      BY <3>1, <3>2
  <2>3. Len(t) + (gone[p] + e) = Len(buffer[p]) + gone[p] + 1 /\ Len(t) = Len(buffer[p]) + 1 - e
    <3>1. Len(t) = Len(buffer[p]) + 1 - e /\ Len(buffer[p]) \in Nat /\ gone[p] \in Nat /\ e \in Nat
      BY <1>2, <1>3, <2>1
    <3>2. \A l, g, f, m \in Nat : m = l + 1 - f => m + (g + f) = l + g + 1
      OBVIOUS
    <3> QED
      BY <2>1, <3>1, <3>2
  <2>4. ASSUME NEW i \in 1..Len(t)
        PROVE  i + e \in 1..(Len(buffer[p]) + 1) /\ i \in 1..(Len(b) - e)
    BY <1>2, <1>3, <2>1
  <2> QED
    BY <2>2, <2>3, <2>4
<1>9. \E f \in {0, 1} :
        /\ Len(t) = Len(buffer[p]) + 1 - f
        /\ \A i \in 1..Len(t) : i + f \in 1..(Len(buffer[p]) + 1) /\ t[i] = b[i + f]
  BY <1>4, <1>5, <1>8
<1> QED
  BY <1>4, <1>5, <1>6, <1>7, <1>8, <1>9 DEF b

-----------------------------------------------------------------------------
(* Types.  That the numbers of lines and losses stay within MaxLines needs   *)
(* that a phase never has more lines, wherever they are, than were printed.  *)

\* A phase is under way; only a phase that was started has readers, and the
\* lines they hold have a number.
Shape ==
  /\ at \in {"setup", "streaming"} => current \in Steps
  /\ at = "new" => current = 0
  /\ \A r \in dead : at # "new" /\ r[1] <= current
  /\ \A r \in Readers : waiting[r] # NoLine => at # "new" /\ r[1] <= current /\ waiting[r].no > 0

\* A task reads only for a phase that was started.
LEMMA ReadingFacts ==
  ASSUME TypeOK, Shape, NEW r \in Readers, Reading(r)
  PROVE  at # "new" /\ r[1] \in Steps /\ r[1] <= current /\ current \in Nat
<1>1. r[1] \in Steps /\ current \in Nat
  BY DEF Readers, TypeOK
<1>2. CASE at = "streaming" /\ current = r[1]
  BY <1>1, <1>2, Constants DEF Steps
<1>3. CASE DeadOf(r[1]) # {}
  BY <1>1, <1>3 DEF DeadOf, Shape
<1> QED
  BY <1>1, <1>2, <1>3 DEF Reading

Places(p) == Cardinality(Held(p)) + Len(buffer[p]) + Len(flushing[p]) + gone[p]

Room == \A p \in Steps : counter[p] <= printed /\ Places(p) <= printed

LEMMA HeldFinite == \A p : IsFiniteSet(Held(p)) /\ Cardinality(Held(p)) \in Nat
<1> TAKE p
<1>1. Held(p) \in SUBSET Readers
  BY DEF Held
<1>2. IsFiniteSet(Readers)
  <2>1. IsFiniteSet(Steps)
    BY Constants, FS_Interval DEF Steps
  <2>2. IsFiniteSet(Steps \X Streams)
    BY <2>1, Constants, FS_Product, Zenon
  <2> QED
    BY <2>2 DEF Readers
<1> QED
  BY <1>1, <1>2, FS_Subset, FS_CardinalityType

LEMMA HeldNone ==
  ASSUME \A s \in Readers : waiting[s] = NoLine
  PROVE  \A p : Held(p) = {} /\ Cardinality(Held(p)) = 0
<1>1. \A p : Held(p) = {}
  BY DEF Held
<1> QED
  BY <1>1, FS_EmptySet

\* The numbers that Places adds up.
LEMMA Counts ==
  ASSUME TypeOK, Room, NEW p \in Steps
  PROVE  /\ Cardinality(Held(p)) \in Nat /\ Len(buffer[p]) \in Nat /\ Len(flushing[p]) \in Nat
         /\ gone[p] \in Nat /\ printed \in Nat /\ printed <= MaxLines
         /\ Cardinality(Held(p)) + Len(buffer[p]) + Len(flushing[p]) + gone[p] <= printed
<1>1. Cardinality(Held(p)) \in Nat
  BY HeldFinite
<1>2. /\ Len(buffer[p]) \in Nat /\ Len(flushing[p]) \in Nat
      /\ gone[p] \in Nat /\ printed \in Nat /\ printed <= MaxLines
  BY Constants DEF TypeOK
<1> QED
  BY <1>1, <1>2 DEF Room, Places

LEMMA InitTypes == Init => TypeOK /\ Shape /\ Room
<1> SUFFICES ASSUME Init PROVE TypeOK /\ Shape /\ Room
  OBVIOUS
<1>1. <<>> \in Seq(Writes) /\ <<>> \in Seq(1..MaxLines) /\ Len(<<>>) = 0
  OBVIOUS
<1>2. /\ current \in 0..MaxPhases /\ printed \in 0..MaxLines /\ events \in 0..MaxEvents
      /\ counter \in [Steps -> 0..MaxLines] /\ gone \in [Steps -> 0..MaxLines]
  BY Constants DEF Init
<1>3. waiting \in [Readers -> [no : 0..MaxLines, ready : BOOLEAN]]
  BY Constants DEF Init, NoLine
<1>4. /\ buffer \in [Steps -> Seq(1..MaxLines)] /\ \A p \in Steps : Len(buffer[p]) <= Cap
      /\ flushing \in [Steps -> Seq(1..MaxLines)] /\ queue \in Seq(Writes) /\ Len(queue) <= QueueMax
  BY <1>1, Constants DEF Init
<1>5. TypeOK
  BY <1>2, <1>3, <1>4 DEF Init, TypeOK, NoWrite
<1>6. Shape
  BY DEF Init, Shape
<1>7. \A p \in Steps : Cardinality(Held(p)) = 0
  BY HeldNone DEF Init
<1>8. Room
  BY <1>1, <1>7 DEF Init, Room, Places
<1> QED
  BY <1>5, <1>6, <1>8

\* A step that leaves the lines where they are; counters may start again.
LEMMA LinesStay ==
  ASSUME TypeOK, Room, UNCHANGED <<printed, buffer, flushing, gone>>,
         \A p \in Steps : counter'[p] = counter[p] \/ counter'[p] = 0,
         \A p \in Steps : Held(p)' = Held(p)
  PROVE  Room'
<1>1. \A p \in Steps : Places(p)' = Places(p)
  BY DEF Places
<1>2. printed \in Nat
  BY DEF TypeOK
<1> QED
  BY <1>1, <1>2 DEF Room

\* The writes that the tracker schedules are writes.
LEMMA WriteTypes ==
  /\ InsertJob \in Writes /\ OtherWrite \in Writes
  /\ \A to \in Active \cup Terminal : UpdateJob(to) \in Writes
  /\ \A n \in Steps : InsertPhases(n) \in Writes
  /\ \A p \in Steps, to \in PhaseStatuses : UpdatePhase(p, to) \in Writes
  BY DEF InsertJob, UpdateJob, InsertPhases, UpdatePhase, Writes, Active, Terminal

\* A plan is no longer than MaxPhases.
LEMMA PlanFits == PlanLength \in Nat /\ PlanLength <= MaxPhases
<1> DEFINE S == {p \in Steps : phases[p] # "none"}
<1>1. S \in SUBSET (1..MaxPhases)
  BY DEF Steps
<1>2. IsFiniteSet(1..MaxPhases) /\ Cardinality(1..MaxPhases) = MaxPhases
  BY Constants, FS_Interval
<1> HIDE DEF S
<1>3. IsFiniteSet(S) /\ Cardinality(S) <= MaxPhases /\ Cardinality(S) \in Nat
  BY <1>1, <1>2, FS_Subset, FS_CardinalityType
<1> QED
  BY <1>3 DEF S, PlanLength

LEMMA AppendPair ==
  ASSUME NEW a \in Writes, NEW b \in Writes
  PROVE  /\ Append(<<a>>, b) \in Seq(Writes) /\ Len(Append(<<a>>, b)) = 2
         /\ Append(<<a>>, b)[1] = a /\ Append(<<a>>, b)[2] = b
  OBVIOUS

\* complete_phase() and what follows it, whether the process ended or could
\* not be started.
LEMMA PhaseDoneTypes ==
  ASSUME TypeOK, Shape, Room, at \in {"setup", "streaming"},
         NEW success \in BOOLEAN, NextPhase(success) \/ LastPhase(success)
  PROVE  TypeOK' /\ Shape' /\ Room'
<1> DEFINE to == IF success THEN "completed" ELSE "failed"
<1>1. current \in Steps /\ current \in Nat /\ to \in PhaseStatuses /\ to \in Active \cup Terminal
  BY Constants DEF Shape, Steps, PhaseStatuses, Terminal
<1>2. /\ UNCHANGED <<inflight, row, phaseRow, waiting, dead, printed, buffer, flushing, logs, gone, events>>
      /\ good' \in BOOLEAN
  BY DEF NextPhase, LastPhase, lineVars, bufferVars, CompleteJob, TypeOK
<1>3. \A p \in Steps : Held(p)' = Held(p)
  BY <1>2 DEF Held
<1>n. at # "new" /\ \A r \in Readers : r[1] \in Nat /\ (r[1] <= current => r[1] <= current + 1)
  BY <1>1 DEF Readers, Steps
<1>d. dead \subseteq Readers
  BY DEF TypeOK
<1>4. CASE NextPhase(success)
  <2>1. current + 1 \in Steps /\ current' = current + 1 /\ current' \in 0..MaxPhases
        /\ at' = "setup" /\ status' = status
    BY <1>1, <1>4, PlanFits, Constants DEF NextPhase, Steps
  <2>2. CASE Tracked
    <3> DEFINE ws == <<UpdatePhase(current, to), UpdatePhase(current + 1, "running")>>
    <3>1. UpdatePhase(current, to) \in Writes /\ UpdatePhase(current + 1, "running") \in Writes
      BY <1>1, <2>1, WriteTypes DEF PhaseStatuses
    <3>2. ws \in Seq(Writes) /\ Schedule(ws)
      BY <1>4, <2>2, <3>1 DEF NextPhase
    <3> HIDE DEF ws
    <3>3. queue' \in Seq(Writes) /\ Len(queue') <= QueueMax /\ dropped' \in BOOLEAN
      BY <3>2, ScheduleFacts
    <3>4. /\ phases' = [phases EXCEPT ![current] = to, ![current + 1] = "running"]
          /\ counter' = [counter EXCEPT ![current + 1] = 0]
          /\ force' = force \cup {current}
      BY <1>4, <2>2 DEF NextPhase
    <3>5. phases' \in [Steps -> PhaseStatuses \cup {"none"}] /\ force' \subseteq Steps
      BY <1>1, <2>1, <3>4 DEF TypeOK, PhaseStatuses
    <3>6. counter' \in [Steps -> 0..MaxLines] /\ \A p \in Steps : counter'[p] = counter[p] \/ counter'[p] = 0
      BY <2>1, <3>4, Constants DEF TypeOK
    <3>7. Room'
      BY <1>2, <1>3, <3>6, LinesStay
    <3>8. Shape'
      BY <1>2, <1>n, <1>d, <2>1 DEF Shape
    <3> QED
      BY <1>2, <2>1, <3>3, <3>5, <3>6, <3>7, <3>8 DEF TypeOK
  <2>3. CASE ~Tracked
    <3>1. UNCHANGED <<phases, counter, force, queue, dropped>>
      BY <1>4, <2>3 DEF NextPhase
    <3>2. Room'
      BY <1>2, <1>3, <3>1, LinesStay
    <3>3. Shape'
      BY <1>2, <1>n, <1>d, <2>1 DEF Shape
    <3> QED
      BY <1>2, <2>1, <3>1, <3>2, <3>3 DEF TypeOK
  <2> QED
    BY <2>2, <2>3
<1>5. CASE LastPhase(success)
  <2>1. at' = "done" /\ UNCHANGED <<current, counter>>
    BY <1>5 DEF LastPhase, CompleteJob, lineVars
  <2>2. Room'
    BY <1>2, <1>3, <2>1, LinesStay
  <2>3. Shape'
    BY <1>2, <1>n, <2>1 DEF Shape
  <2>4. CASE Tracked
    <3> DEFINE end == IF good /\ success THEN "completed" ELSE "failed"
               ws == Append(<<UpdatePhase(current, to)>>, UpdateJob(end))
    <3>1. UpdatePhase(current, to) \in Writes /\ UpdateJob(end) \in Writes /\ end \in Terminal
      BY <1>1, WriteTypes DEF Terminal
    <3>2. ws \in Seq(Writes)
      BY <3>1, AppendPair
    <3>3. status' = end /\ Schedule(ws)
      BY <1>5, <2>4 DEF LastPhase, CompleteJob
    <3> HIDE DEF ws, end
    <3>5. queue' \in Seq(Writes) /\ Len(queue') <= QueueMax /\ dropped' \in BOOLEAN
      BY <3>2, <3>3, ScheduleFacts
    <3>6. phases' = [phases EXCEPT ![current] = to] /\ force' = force \cup {current}
      BY <1>5, <2>4 DEF LastPhase
    <3>7. phases' \in [Steps -> PhaseStatuses \cup {"none"}] /\ force' \subseteq Steps
      BY <1>1, <3>6 DEF TypeOK
    <3> QED
      BY <1>2, <2>1, <2>2, <2>3, <3>1, <3>3, <3>5, <3>7 DEF TypeOK
  <2>5. CASE ~Tracked
    <3>1. UNCHANGED <<phases, force, status, queue, dropped>>
      BY <1>5, <2>5 DEF LastPhase
    <3> QED
      BY <1>2, <2>1, <2>2, <2>3, <3>1 DEF TypeOK
  <2> QED
    BY <2>4, <2>5
<1> QED
  BY <1>4, <1>5

\* The worker's queue and the waiting lines after a write.
LEMMA NextWriteTypes ==
  ASSUME TypeOK, NextWrite
  PROVE  /\ queue' \in Seq(Writes) /\ Len(queue') <= QueueMax
         /\ inflight' \in Writes \cup {NoWrite}
<1>1. CASE queue = <<>>
  BY <1>1 DEF NextWrite, TypeOK
<1>2. CASE queue # <<>>
  <2>1. queue' = Tail(queue) /\ inflight' = Head(queue)
    BY <1>2 DEF NextWrite
  <2>2. queue \in Seq(Writes) /\ Head(queue) \in Writes /\ Tail(queue) \in Seq(Writes)
        /\ Len(Tail(queue)) = Len(queue) - 1
    BY <1>2 DEF TypeOK
  <2> QED
    BY <2>1, <2>2, Constants DEF TypeOK
<1> QED
  BY <1>1, <1>2

LEMMA TaskDoneTypes ==
  ASSUME TypeOK, Shape, Room, TaskDone, UNCHANGED <<execVars, counter, dead, printed, buffer, flushing, gone>>
  PROVE  /\ queue' \in Seq(Writes) /\ Len(queue') <= QueueMax
         /\ inflight' \in Writes \cup {NoWrite}
         /\ waiting' \in [Readers -> [no : 0..MaxLines, ready : BOOLEAN]]
         /\ \A s \in Readers : waiting'[s].no = waiting[s].no
         /\ \A s \in Readers : (waiting'[s] = NoLine) <=> (waiting[s] = NoLine)
         /\ Shape' /\ Room'
<1>1. \A s \in Readers : waiting'[s] = waiting[s] \/ waiting'[s] = [no |-> waiting[s].no, ready |-> waiting[s].no > 0]
  BY DEF TaskDone
<1>2. \A s \in Readers : waiting[s] \in [no : 0..MaxLines, ready : BOOLEAN]
  BY DEF TypeOK
<1>3. ASSUME NEW s \in Readers
      PROVE  /\ waiting'[s] \in [no : 0..MaxLines, ready : BOOLEAN]
             /\ waiting'[s].no = waiting[s].no
             /\ (waiting'[s] = NoLine) <=> (waiting[s] = NoLine)
  <2>1. CASE waiting'[s] = waiting[s]
    BY <1>2, <2>1
  <2>2. CASE waiting'[s] = [no |-> waiting[s].no, ready |-> waiting[s].no > 0]
    <3> DEFINE b == waiting[s].no > 0
    <3>1. waiting[s].no \in 0..MaxLines /\ b \in BOOLEAN /\ waiting'[s] = [no |-> waiting[s].no, ready |-> b]
      BY <1>2, <2>2
    <3>2. CASE waiting[s] = NoLine
      <4>1. waiting[s].no = 0 /\ b = FALSE
        BY <3>2 DEF NoLine
      <4> HIDE DEF b
      <4>2. waiting'[s] = NoLine
        BY <3>1, <4>1 DEF NoLine
      <4> QED
        BY <1>2, <3>2, <4>2
    <3>3. CASE waiting[s] # NoLine
      <4>1. waiting[s].no # 0
        BY <3>3 DEF Shape
      <4> HIDE DEF b
      <4> QED
        BY <3>1, <3>3, <4>1 DEF NoLine
    <3> QED
      BY <3>2, <3>3
  <2> QED
    BY <1>1, <2>1, <2>2
<1>4. waiting' \in [Readers -> [no : 0..MaxLines, ready : BOOLEAN]]
  <2>1. waiting' = [s \in Readers |-> waiting'[s]]
    BY DEF TaskDone, TypeOK
  <2> QED
    BY <1>3, <2>1
<1>6. Shape'
  BY <1>3 DEF Shape, execVars
<1>7. \A p \in Steps : Held(p)' = Held(p)
  BY <1>3 DEF Held, execVars
<1>8. Room'
  BY <1>7, LinesStay
<1>9. /\ queue' \in Seq(Writes) /\ Len(queue') <= QueueMax
      /\ inflight' \in Writes \cup {NoWrite}
  BY NextWriteTypes DEF TaskDone
<1> QED
  BY <1>3, <1>4, <1>6, <1>8, <1>9

\* What the writes of a plan's beginning are.
LEMMA StartWrites ==
  ASSUME NEW n \in Steps
  PROVE  /\ <<InsertJob, UpdateJob("decomposing"), InsertPhases(n),
              UpdateJob("running"), UpdatePhase(1, "running")>> \in Seq(Writes)
         /\ <<InsertJob, UpdateJob("decomposing"), InsertPhases(n),
              UpdateJob("running")>> \in Seq(Writes)
         /\ Append(<<InsertJob>>, UpdateJob("failed")) \in Seq(Writes)
         /\ <<UpdateJob("cancelled")>> \in Seq(Writes)
<1>1. 1 \in Steps
  BY Constants DEF Steps
<1>2. /\ InsertJob \in Writes /\ UpdateJob("decomposing") \in Writes
      /\ InsertPhases(n) \in Writes /\ UpdateJob("running") \in Writes
      /\ UpdatePhase(1, "running") \in Writes /\ UpdateJob("failed") \in Writes
      /\ UpdateJob("cancelled") \in Writes
  BY <1>1, WriteTypes DEF Active, Terminal, PhaseStatuses
<1> QED
  BY <1>2, AppendPair

\* A step of the tracker that schedules ws and leaves lines and streams alone.
LEMMA ScheduleTypes ==
  ASSUME TypeOK, Shape, Room, NEW ws \in Seq(Writes), Schedule(ws),
         \/ UNCHANGED <<at, current>>
         \/ /\ at = "new" /\ at' \in {"setup", "done"}
            /\ current' \in 0..MaxPhases /\ (at' = "setup" => current' \in Steps),
         UNCHANGED <<good, inflight, row, phaseRow, waiting, dead, printed, bufferVars, force>>,
         status' \in Active \cup Terminal,
         phases' \in [Steps -> PhaseStatuses \cup {"none"}],
         counter' \in [Steps -> 0..MaxLines],
         \A p \in Steps : counter'[p] = counter[p] \/ counter'[p] = 0,
         events' \in 0..MaxEvents
  PROVE  TypeOK' /\ Shape' /\ Room'
<1>1. /\ queue' \in Seq(Writes) /\ Len(queue') <= QueueMax /\ dropped' \in BOOLEAN
  BY ScheduleFacts
<1>2. Shape'
  BY DEF Shape
<1>3. \A p \in Steps : Held(p)' = Held(p)
  BY DEF Held
<1>4. Room'
  BY <1>3, LinesStay DEF bufferVars
<1>5. TypeOK'
  BY <1>1 DEF TypeOK, bufferVars
<1> QED
  BY <1>2, <1>4, <1>5

LEMMA TypeStep ==
  ASSUME TypeOK, Shape, Room, Next
  PROVE  TypeOK' /\ Shape' /\ Room'
<1> USE DEF execVars, memVars, writerVars, lineVars, bufferVars
<1> DEFINE Goal == TypeOK' /\ Shape' /\ Room'
<1>0. events \in 0..MaxEvents /\ (events > 0 => events - 1 \in 0..MaxEvents) /\ status \in Active \cup Terminal \cup {"none"}
  BY Constants DEF TypeOK
<1>1. ASSUME NEW n \in Steps, StartPlan(n) PROVE Goal
  <2> DEFINE ws == <<InsertJob, UpdateJob("decomposing"), InsertPhases(n),
                     UpdateJob("running"), UpdatePhase(1, "running")>>
  <2>1. ws \in Seq(Writes) /\ Schedule(ws)
    BY <1>1, StartWrites DEF StartPlan
  <2> HIDE DEF ws
  <2>2. 1 \in Steps /\ current' = 1 /\ current' \in 0..MaxPhases /\ at' = "setup" /\ status' = "running"
    BY <1>1, Constants DEF StartPlan, Steps
  <2>3. at = "new"
    BY <1>1 DEF StartPlan
  <2>4. phases' \in [Steps -> PhaseStatuses \cup {"none"}]
    BY <1>1 DEF StartPlan, PhaseStatuses
  <2>5. counter' \in [Steps -> 0..MaxLines] /\ \A p \in Steps : counter'[p] = counter[p] \/ counter'[p] = 0
    BY <1>1, <2>2, Constants DEF StartPlan, TypeOK
  <2>6. UNCHANGED <<good, inflight, row, phaseRow, waiting, dead, printed, bufferVars, force, events>>
    BY <1>1 DEF StartPlan
  <2>7. status' \in Active \cup Terminal
    BY <2>2 DEF Active
  <2> QED
    BY <1>0, <2>1, <2>2, <2>3, <2>4, <2>5, <2>6, <2>7, ScheduleTypes
<1>2. ASSUME NEW n \in Steps, StartUnknownAgent(n) PROVE Goal
  <2> DEFINE ws == <<InsertJob, UpdateJob("decomposing"), InsertPhases(n), UpdateJob("running")>>
  <2>1. ws \in Seq(Writes) /\ Schedule(ws)
    BY <1>2, StartWrites DEF StartUnknownAgent
  <2> HIDE DEF ws
  <2>2. at' = "done" /\ current' \in 0..MaxPhases /\ status' = "running" /\ counter' = counter
    BY <1>2 DEF StartUnknownAgent, TypeOK
  <2>3. at = "new"
    BY <1>2 DEF StartUnknownAgent
  <2>4. phases' \in [Steps -> PhaseStatuses \cup {"none"}]
    BY <1>2 DEF StartUnknownAgent, PhaseStatuses
  <2>5. counter' \in [Steps -> 0..MaxLines]
    BY <2>2 DEF TypeOK
  <2>6. UNCHANGED <<good, inflight, row, phaseRow, waiting, dead, printed, bufferVars, force, events>>
    BY <1>2 DEF StartUnknownAgent
  <2>7. status' \in Active \cup Terminal
    BY <2>2 DEF Active
  <2> QED
    BY <1>0, <2>1, <2>2, <2>3, <2>4, <2>5, <2>6, <2>7, ScheduleTypes
<1>3. CASE StartEmpty
  <2> DEFINE ws == Append(<<InsertJob>>, UpdateJob("failed"))
  <2>1. ws \in Seq(Writes)
    BY WriteTypes, AppendPair DEF Terminal
  <2>2. Schedule(ws) /\ at' = "done" /\ status' = "failed"
    BY <1>3 DEF StartEmpty, CompleteJob
  <2> HIDE DEF ws
  <2>3. at = "new"
    BY <1>3 DEF StartEmpty
  <2>4. UNCHANGED <<current, good, phases, inflight, row, phaseRow, counter, waiting, dead, printed,
                    bufferVars, force, events>>
    BY <1>3 DEF StartEmpty
  <2>5. /\ status' \in Active \cup Terminal /\ phases' \in [Steps -> PhaseStatuses \cup {"none"}]
        /\ counter' \in [Steps -> 0..MaxLines] /\ current' \in 0..MaxPhases
    BY <2>2, <2>4 DEF Terminal, TypeOK
  <2> QED
    BY <1>0, <2>1, <2>2, <2>3, <2>4, <2>5, ScheduleTypes
<1>4. CASE Cancel
  <2> DEFINE ws == <<UpdateJob("cancelled")>>
  <2>1. ws \in Seq(Writes)
    BY WriteTypes DEF Terminal
  <2>2. Schedule(ws) /\ status' = "cancelled" /\ events' = events - 1 /\ events > 0
    BY <1>4 DEF Cancel
  <2> HIDE DEF ws
  <2>3. UNCHANGED <<at, current, good, phases, inflight, row, phaseRow, counter, waiting, dead, printed,
                    bufferVars, force>>
    BY <1>4 DEF Cancel
  <2>4. /\ status' \in Active \cup Terminal /\ phases' \in [Steps -> PhaseStatuses \cup {"none"}]
        /\ counter' \in [Steps -> 0..MaxLines]
    BY <2>2, <2>3 DEF Terminal, TypeOK
  <2> QED
    BY <1>0, <2>1, <2>2, <2>3, <2>4, ScheduleTypes
<1>5. CASE RunPhase
  <2>1. at = "setup" /\ at' = "streaming"
        /\ UNCHANGED <<current, good, memVars, writerVars, lineVars, bufferVars, force, events>>
    BY <1>5 DEF RunPhase
  <2>2. \A p \in Steps : Held(p)' = Held(p)
    BY <2>1 DEF Held
  <2>3. Room'
    BY <2>1, <2>2, LinesStay
  <2> QED
    BY <2>1, <2>3 DEF TypeOK, Shape
<1>6. CASE PhaseRaises
  <2>1. at = "setup" /\ (NextPhase(FALSE) \/ LastPhase(FALSE)) /\ FALSE \in BOOLEAN
    BY <1>6 DEF PhaseRaises
  <2> QED
    BY <2>1, PhaseDoneTypes
<1>g. CASE GatherRaises
  <2>1. at = "streaming" /\ (NextPhase(FALSE) \/ LastPhase(FALSE)) /\ FALSE \in BOOLEAN
    BY <1>g DEF GatherRaises
  <2> QED
    BY <2>1, PhaseDoneTypes
<1>7. ASSUME NEW success \in BOOLEAN, EndPhase(success) PROVE Goal
  BY <1>7, PhaseDoneTypes DEF EndPhase
<1>8. CASE CleanupHistory
  <2>1. /\ status' = "none" /\ counter' = [p \in Steps |-> 0]
        /\ UNCHANGED <<execVars, phases, writerVars, waiting, dead, printed, bufferVars, force, events>>
    BY <1>8 DEF CleanupHistory
  <2>2. \A p \in Steps : Held(p)' = Held(p)
    BY <2>1 DEF Held
  <2>3. Room'
    BY <2>1, <2>2, LinesStay
  <2>4. counter' \in [Steps -> 0..MaxLines]
    BY <2>1, Constants
  <2> QED
    BY <2>1, <2>3, <2>4 DEF TypeOK, Shape
<1>9. CASE OtherJobWrites
  <2>1. /\ queue' = (IF Len(queue) < QueueMax THEN Append(queue, OtherWrite) ELSE queue)
        /\ events' = events - 1 /\ events > 0
        /\ UNCHANGED <<execVars, memVars, inflight, row, phaseRow, dropped, lineVars, bufferVars, force>>
    BY <1>9 DEF OtherJobWrites
  <2>2. queue' \in Seq(Writes) /\ Len(queue') <= QueueMax
    BY <2>1, WriteTypes, Constants DEF TypeOK
  <2>3. \A p \in Steps : Held(p)' = Held(p)
    BY <2>1 DEF Held
  <2>4. Room'
    BY <2>1, <2>3, LinesStay
  <2> QED
    <3>1. TypeOK'
      <4>1. events' \in 0..MaxEvents
        BY <1>0, <2>1
      <4> QED
        BY <2>1, <2>2, <4>1 DEF TypeOK
    <3>2. Shape'
      BY <2>1 DEF Shape
    <3> QED
      BY <2>4, <3>1, <3>2
<1>10. CASE Get
  <2>1. UNCHANGED <<execVars, memVars, row, phaseRow, dropped, lineVars, bufferVars, force, events>>
        /\ NextWrite
    BY <1>10 DEF Get
  <2>2. \A p \in Steps : Held(p)' = Held(p)
    BY <2>1 DEF Held
  <2>3. Room'
    BY <2>1, <2>2, LinesStay
  <2> QED
    <3>1. TypeOK'
      BY <2>1, NextWriteTypes DEF TypeOK
    <3>2. Shape'
      BY <2>1, NextWriteTypes DEF Shape
    <3> QED
      BY <2>3, <3>1, <3>2
<1>11. CASE Write
  <2>1. /\ TaskDone /\ inflight # NoWrite
        /\ UNCHANGED <<execVars, memVars, dropped, counter, dead, printed, bufferVars, force, events>>
        /\ row' = UpdateJobRow(inflight) /\ phaseRow' = UpdatePhaseRows(inflight)
    BY <1>11 DEF Write
  <2>2. inflight \in Writes
    BY <2>1 DEF TypeOK
  <2>3. row' \in Active \cup Terminal \cup {"none"}
    BY <2>1, <2>2 DEF UpdateJobRow, TypeOK, Writes, OtherWrite
  <2>4. phaseRow' \in [Steps -> PhaseStatuses \cup {"none"}]
    <3>1. inflight.op = "update_phase" => inflight.to \in PhaseStatuses
      BY <2>2 DEF Writes, OtherWrite
    <3>2. ASSUME NEW p \in Steps PROVE UpdatePhaseRows(inflight)[p] \in PhaseStatuses \cup {"none"}
      <4>1. phaseRow[p] \in PhaseStatuses \cup {"none"}
        BY DEF TypeOK
      <4> QED
        BY <3>1, <4>1 DEF UpdatePhaseRows, PhaseStatuses
    <3> QED
      BY <2>1, <3>2 DEF UpdatePhaseRows
  <2> QED
    BY <2>1, <2>3, <2>4, TaskDoneTypes DEF TypeOK
<1>12. CASE WriteFails
  <2>1. /\ TaskDone /\ dropped' \in BOOLEAN /\ events' \in 0..MaxEvents
        /\ UNCHANGED <<execVars, memVars, row, phaseRow, counter, dead, printed, bufferVars, force>>
    BY <1>0, <1>12 DEF WriteFails, TypeOK
  <2> QED
    BY <2>1, TaskDoneTypes DEF TypeOK
<1>13. ASSUME NEW s \in Readers, AppendLog(s) PROVE Goal
  <2>c. PICK c \in Steps : c = s[1]
    BY DEF Readers
  <2> DEFINE n == counter[c] + 1
  <2>1. /\ printed \in Nat /\ printed < MaxLines /\ counter[c] \in Nat
        /\ counter[c] <= printed /\ waiting[s] = NoLine /\ at # "new" /\ s[1] <= current
    BY <1>13, ReadingFacts DEF AppendLog, TypeOK, Room
  <2>2. n \in 1..MaxLines /\ n <= printed + 1
    BY <2>1, Constants
  <2>3. /\ printed' = printed + 1 /\ counter' = [counter EXCEPT ![c] = n]
        /\ UNCHANGED <<execVars, memVars, writerVars, dead, flushing, logs, force, events>>
    BY <1>13, <2>c DEF AppendLog
  <2>4. /\ printed' \in 0..MaxLines /\ printed <= printed' /\ counter' \in [Steps -> 0..MaxLines]
        /\ \A p \in Steps : counter'[p] <= printed'
    <3>1. printed' \in 0..MaxLines /\ printed <= printed'
      BY <2>1, <2>3, Constants
    <3>2. counter' \in [Steps -> 0..MaxLines]
      BY <2>1, <2>2, <2>3 DEF TypeOK
    <3>3. \A p \in Steps : counter'[p] = n \/ counter'[p] = counter[p]
      BY <2>3 DEF TypeOK
    <3>4. \A p \in Steps : counter[p] \in Nat /\ counter[p] <= printed
      BY DEF TypeOK, Room
    <3> QED
      BY <2>1, <2>2, <2>3, <3>1, <3>2, <3>3, <3>4
  <2> HIDE DEF n
  <2> DEFINE Space(q) == /\ Cardinality(Held(q)) \in Nat /\ Len(buffer[q]) \in Nat
                         /\ Len(flushing[q]) \in Nat /\ gone[q] \in Nat
                         /\ Cardinality(Held(q)) + Len(buffer[q]) + Len(flushing[q]) + gone[q] <= printed
  <2>s. \A q \in Steps : Space(q)
    BY Counts
  <2>5. CASE Buffer(c, n) /\ UNCHANGED waiting
    <3>1. /\ buffer' = [buffer EXCEPT ![c] = buffer'[c]] /\ gone' = [gone EXCEPT ![c] = gone'[c]]
          /\ buffer'[c] \in Seq(1..MaxLines) /\ Len(buffer'[c]) <= Cap /\ gone'[c] \in Nat
          /\ Len(buffer'[c]) + gone'[c] = Len(buffer[c]) + gone[c] + 1
      BY <2>2, <2>5, <2>c, BufferFacts
    <3>2. \A q \in Steps : Held(q)' = Held(q)
      BY <2>3, <2>5 DEF Held
    <3>3. Len(buffer'[c]) \in Nat
      BY <3>1
    <3>4. /\ Cardinality(Held(c)) + Len(buffer'[c]) + Len(flushing[c]) + gone'[c] <= printed + 1
          /\ gone'[c] <= printed + 1
      <4>1. Space(c)
        BY <2>s
      <4>2. PICK h \in Nat, b \in Nat, f \in Nat, g \in Nat, b2 \in Nat, g2 \in Nat :
              /\ h = Cardinality(Held(c)) /\ b = Len(buffer[c]) /\ f = Len(flushing[c])
              /\ g = gone[c] /\ b2 = Len(buffer'[c]) /\ g2 = gone'[c]
        BY <3>1, <3>3, <4>1, Zenon
      <4>3. h + b + f + g <= printed /\ b2 + g2 = b + g + 1
        BY <3>1, <4>1, <4>2, Zenon
      <4>4. h + b2 + f + g2 <= printed + 1 /\ g2 <= printed + 1
        BY <2>1, <4>3
      <4> QED
        BY <4>2, <4>4, Zenon
    <3>5. gone'[c] \in 0..MaxLines
      BY <2>1, <3>1, <3>4, Constants
    <3>6. Places(c)' <= printed'
      BY <2>3, <3>2, <3>4 DEF Places
    <3>7. \A q \in Steps : q # c => Places(q)' <= printed'
      <4>1. \A q \in Steps : q # c => Places(q)' = Places(q)
        BY <2>3, <3>1, <3>2 DEF Places, TypeOK
      <4>2. \A q \in Steps : Places(q) \in Nat /\ Places(q) <= printed
        BY <2>s DEF Places
      <4> QED
        BY <2>1, <2>3, <4>1, <4>2
    <3>8. Room'
      BY <2>4, <3>6, <3>7 DEF Room
    <3>9. /\ buffer' \in [Steps -> Seq(1..MaxLines)] /\ \A p \in Steps : Len(buffer'[p]) <= Cap
          /\ gone' \in [Steps -> 0..MaxLines]
      BY <3>1, <3>5 DEF TypeOK
    <3>10. TypeOK'
      <4>1. UNCHANGED <<at, current, good, status, phases, queue, inflight, row, phaseRow, dropped,
                        waiting, dead, force, flushing, logs, events>>
        BY <2>3, <2>5 DEF execVars, memVars, writerVars
      <4> QED
        BY <2>4, <3>9, <4>1 DEF TypeOK
    <3>11. Shape'
      BY <2>3, <2>4, <2>5 DEF Shape
    <3> QED
      BY <2>4, <3>8, <3>10, <3>11
  <2>6. CASE waiting' = [waiting EXCEPT ![s] = [no |-> n, ready |-> FALSE]] /\ UNCHANGED <<buffer, gone>>
    <3>1. waiting' \in [Readers -> [no : 0..MaxLines, ready : BOOLEAN]]
      BY <2>2, <2>6 DEF TypeOK
    <3>2. waiting'[s] # NoLine /\ waiting'[s].no > 0
      BY <2>2, <2>6 DEF TypeOK, NoLine
    <3>3. Held(c)' = Held(c) \cup {s} /\ s \notin Held(c)
      BY <2>1, <2>3, <2>6, <2>c, <3>2 DEF Held, TypeOK
    <3>4. \A p \in Steps : p # c => Held(p)' = Held(p)
      BY <2>6, <2>c DEF Held, TypeOK
    <3>5. Cardinality(Held(c)') = Cardinality(Held(c)) + 1
      BY <3>3, HeldFinite, FS_AddElement
    <3>6. Places(c)' <= printed'
      <4>1. Space(c)
        BY <2>s
      <4>2. Cardinality(Held(c)') + Len(buffer[c]) + Len(flushing[c]) + gone[c] <= printed + 1
        <5>1. PICK h \in Nat, b \in Nat, f \in Nat, g \in Nat :
                /\ h = Cardinality(Held(c)) /\ b = Len(buffer[c]) /\ f = Len(flushing[c])
                /\ g = gone[c]
          BY <4>1, Zenon
        <5>2. h + b + f + g <= printed
          BY <4>1, <5>1, Zenon
        <5>3. (h + 1) + b + f + g <= printed + 1
          BY <2>1, <5>2
        <5> QED
          BY <3>5, <5>1, <5>3, Zenon
      <4> QED
        BY <2>3, <2>6, <4>2 DEF Places
    <3>7. \A q \in Steps : q # c => Places(q)' <= printed'
      <4>1. \A q \in Steps : q # c => Places(q)' = Places(q)
        BY <2>3, <2>6, <3>4 DEF Places
      <4>2. \A q \in Steps : Places(q) \in Nat /\ Places(q) <= printed
        BY <2>s DEF Places
      <4> QED
        BY <2>1, <2>3, <4>1, <4>2
    <3>8. Room'
      BY <2>4, <3>6, <3>7 DEF Room
    <3>9. Shape'
      BY <2>1, <2>3, <2>6, <3>2 DEF Shape, TypeOK
    <3> QED
      BY <2>3, <2>4, <2>6, <3>1, <3>8, <3>9 DEF TypeOK
  <2> QED
    BY <1>13, <2>c, <2>5, <2>6 DEF AppendLog, n
<1>14. ASSUME NEW s \in Readers, Joined(s) PROVE Goal
  <2> DEFINE n == waiting[s].no
  <2>1. waiting[s] # NoLine /\ n \in 1..MaxLines
    <3>1. waiting[s] # NoLine
      BY <1>14 DEF Joined, NoLine
    <3>2. n > 0 /\ n \in 0..MaxLines
      BY <3>1 DEF Shape, TypeOK
    <3> QED
      BY <3>1, <3>2, Constants
  <2>c. PICK c \in Steps : c = s[1]
    BY DEF Readers
  <2>2. /\ Buffer(c, n) /\ waiting' = [waiting EXCEPT ![s] = NoLine]
        /\ UNCHANGED <<execVars, memVars, writerVars, counter, dead, printed, flushing, logs, force, events>>
    BY <1>14, <2>c DEF Joined
  <2> HIDE DEF n
  <2>3. /\ buffer' = [buffer EXCEPT ![c] = buffer'[c]] /\ gone' = [gone EXCEPT ![c] = gone'[c]]
        /\ buffer'[c] \in Seq(1..MaxLines) /\ Len(buffer'[c]) <= Cap /\ gone'[c] \in Nat
        /\ Len(buffer'[c]) + gone'[c] = Len(buffer[c]) + gone[c] + 1
    BY <2>1, <2>2, <2>c, BufferFacts
  <2>4. waiting' \in [Readers -> [no : 0..MaxLines, ready : BOOLEAN]]
    <3>1. NoLine \in [no : 0..MaxLines, ready : BOOLEAN]
      BY Constants DEF NoLine
    <3> QED
      BY <2>2, <3>1 DEF TypeOK
  <2>5. Shape'
    BY <2>1, <2>2 DEF TypeOK, Shape
  <2>6. Held(c)' = Held(c) \ {s} /\ s \in Held(c)
    BY <2>1, <2>2, <2>c DEF Held, TypeOK
  <2>7. \A p \in Steps : p # c => Held(p)' = Held(p)
    BY <2>2, <2>c DEF Held, TypeOK
  <2>8. Cardinality(Held(c)') = Cardinality(Held(c)) - 1 /\ Cardinality(Held(c)') \in Nat
    <3>1. IsFiniteSet(Held(c) \ {s}) /\ Cardinality(Held(c) \ {s}) = Cardinality(Held(c)) - 1
      BY <2>6, HeldFinite, FS_RemoveElement
    <3> QED
      BY <2>6, <3>1, FS_CardinalityType
  <2>9. /\ Cardinality(Held(c)) \in Nat /\ Len(buffer[c]) \in Nat /\ Len(flushing[c]) \in Nat
        /\ gone[c] \in Nat /\ printed \in Nat /\ printed <= MaxLines /\ Len(buffer'[c]) \in Nat
        /\ Cardinality(Held(c)) + Len(buffer[c]) + Len(flushing[c]) + gone[c] <= printed
    BY <2>3, Counts
  <2>10. /\ Cardinality(Held(c)') + Len(buffer'[c]) + Len(flushing[c]) + gone'[c] <= printed
         /\ gone'[c] <= printed
    <3>1. PICK h \in Nat, b \in Nat, f \in Nat, g \in Nat, h2 \in Nat, b2 \in Nat, g2 \in Nat :
            /\ h = Cardinality(Held(c)) /\ b = Len(buffer[c]) /\ f = Len(flushing[c])
            /\ g = gone[c] /\ h2 = Cardinality(Held(c)') /\ b2 = Len(buffer'[c]) /\ g2 = gone'[c]
      BY <2>3, <2>8, <2>9, Zenon
    <3>2. h + b + f + g <= printed /\ b2 + g2 = b + g + 1 /\ h2 = h - 1
      BY <2>3, <2>8, <2>9, <3>1, Zenon
    <3>3. h2 + b2 + f + g2 <= printed /\ g2 <= printed
      BY <2>9, <3>2
    <3> QED
      BY <3>1, <3>3, Zenon
  <2>11. gone'[c] \in 0..MaxLines
    BY <2>3, <2>9, <2>10, Constants
  <2>12. Places(c)' <= printed'
    BY <2>2, <2>10 DEF Places
  <2>13. \A q \in Steps : q # c => Places(q)' = Places(q)
    BY <2>2, <2>3, <2>7 DEF Places, TypeOK
  <2>14. Room'
    BY <2>2, <2>12, <2>13 DEF Room
  <2>15. /\ buffer' \in [Steps -> Seq(1..MaxLines)] /\ \A p \in Steps : Len(buffer'[p]) <= Cap
         /\ gone' \in [Steps -> 0..MaxLines]
    BY <2>3, <2>11 DEF TypeOK
  <2> QED
    BY <2>2, <2>4, <2>5, <2>14, <2>15 DEF TypeOK
<1>15. ASSUME NEW B \in SUBSET Steps, Drain(B) PROVE Goal
  <2>1. /\ \A p \in Steps : flushing[p] = <<>>
        /\ flushing' = [p \in Steps |-> IF p \in B THEN buffer[p] ELSE <<>>]
        /\ buffer' = [p \in Steps |-> IF p \in B THEN <<>> ELSE buffer[p]]
        /\ force' = force \ B
        /\ UNCHANGED <<execVars, memVars, writerVars, lineVars, logs, gone, events>>
    BY <1>15 DEF Drain
  <2>2. <<>> \in Seq(1..MaxLines) /\ Len(<<>>) = 0
    OBVIOUS
  <2>3. \A p \in Steps : buffer[p] \in Seq(1..MaxLines) /\ Len(buffer[p]) <= Cap /\ Len(buffer[p]) \in Nat
                         /\ gone[p] \in Nat /\ Cardinality(Held(p)) \in Nat
    BY HeldFinite DEF TypeOK
  <2>4. /\ flushing' \in [Steps -> Seq(1..MaxLines)] /\ buffer' \in [Steps -> Seq(1..MaxLines)]
        /\ \A p \in Steps : Len(buffer'[p]) <= Cap
    <3>1. \A p \in Steps : flushing'[p] \in Seq(1..MaxLines) /\ buffer'[p] \in Seq(1..MaxLines)
      BY <2>1, <2>2, <2>3, Zenon
    <3>2. \A p \in Steps : Len(buffer'[p]) <= Cap
      BY <2>1, <2>2, <2>3, Constants
    <3> QED
      BY <2>1, <3>1, <3>2
  <2>5. \A p \in Steps : Held(p)' = Held(p)
    BY <2>1 DEF Held
  <2>6. ASSUME NEW p \in Steps PROVE Places(p)' = Places(p)
    BY <2>1, <2>2, <2>3, <2>5 DEF Places
  <2>7. Room'
    BY <2>1, <2>6 DEF Room
  <2> QED
    BY <2>1, <2>4, <2>7 DEF TypeOK, Shape
<1>16. ASSUME NEW p \in Steps, Flush(p) \/ FlushFails(p) PROVE Goal
  <2>1. /\ flushing' = [flushing EXCEPT ![p] = <<>>] /\ events' \in 0..MaxEvents
        /\ UNCHANGED <<execVars, memVars, writerVars, lineVars, buffer, force>>
    BY <1>0, <1>16 DEF Flush, FlushFails
  <2>2. gone' = gone \/ gone' = [gone EXCEPT ![p] = @ + Len(flushing[p])]
    BY <1>16 DEF Flush, FlushFails
  <2>3. \A q \in Steps : /\ Cardinality(Held(q)) \in Nat /\ Len(buffer[q]) \in Nat /\ gone[q] \in Nat
                         /\ Len(flushing[q]) \in Nat /\ Places(q) <= printed /\ printed \in 0..MaxLines
    BY HeldFinite DEF TypeOK, Room
  <2>4. \A q \in Steps : Held(q)' = Held(q)
    BY <2>1 DEF Held
  <2>5. flushing' \in [Steps -> Seq(1..MaxLines)] /\ Len(flushing'[p]) = 0
    BY <2>1 DEF TypeOK
  <2>p. PICK h \in Nat, b \in Nat, f \in Nat, g \in Nat, m \in Nat :
          /\ h = Cardinality(Held(p)) /\ b = Len(buffer[p]) /\ f = Len(flushing[p])
          /\ g = gone[p] /\ m = printed
          /\ m <= MaxLines /\ h + b + f + g <= m
    BY Counts, Zenon
  <2>6. gone[p] + Len(flushing[p]) \in 0..MaxLines
    <3>1. \A x, y, z, w, t \in Nat : x + y + z + w <= t /\ t <= MaxLines => w + z \in 0..MaxLines
      BY Constants
    <3>2. g + f \in 0..MaxLines
      BY <2>p, <3>1, Zenon
    <3> QED
      BY <2>p, <3>2, Zenon
  <2>7. gone' \in [Steps -> 0..MaxLines] /\ (gone'[p] = gone[p] \/ gone'[p] = gone[p] + Len(flushing[p]))
        /\ \A q \in Steps : q # p => gone'[q] = gone[q]
    <3>1. gone \in [Steps -> 0..MaxLines]
      BY DEF TypeOK
    <3> QED
      BY <2>2, <2>6, <3>1
  <2>8. ASSUME NEW q \in Steps PROVE Places(q)' <= printed'
    <3>1. CASE q = p
      <4>1. PICK g2 \in Nat : g2 = gone'[p] /\ (g2 = g \/ g2 = g + f)
        BY <2>p, <2>7
      <4>2. h + b + 0 + g2 <= m
        <5>1. /\ h \in Nat /\ b \in Nat /\ f \in Nat /\ g \in Nat /\ m \in Nat /\ g2 \in Nat
              /\ h + b + f + g <= m /\ (g2 = g \/ g2 = g + f)
          BY <2>p, <4>1, Zenon
        <5> QED
          BY <5>1
      <4>3. Places(p)' = h + b + 0 + g2
        BY <2>1, <2>4, <2>5, <2>p, <4>1, Zenon DEF Places
      <4>4. printed' = m
        BY <2>1, <2>p DEF lineVars
      <4> QED
        BY <3>1, <4>2, <4>3, <4>4
    <3>2. CASE q # p
      <4>1. Places(q)' = Places(q)
        BY <2>1, <2>4, <2>7, <3>2 DEF Places, TypeOK
      <4> QED
        BY <2>1, <2>3, <4>1
    <3> QED
      BY <3>1, <3>2
  <2>9. Room'
    BY <2>1, <2>8 DEF Room
  <2>10. logs' \in [Steps -> SUBSET (1..MaxLines)]
    <3>1. flushing[p] \in Seq(1..MaxLines)
      BY DEF TypeOK
    <3>2. {flushing[p][i] : i \in DOMAIN flushing[p]} \subseteq 1..MaxLines
      <4>1. \A i \in 1..Len(flushing[p]) : flushing[p][i] \in 1..MaxLines
        BY <3>1, ElementOfSeq, Zenon
      <4>2. DOMAIN flushing[p] = 1..Len(flushing[p])
        BY <3>1
      <4> QED
        BY <4>1, <4>2, Zenon
    <3>3. logs' = logs \/ logs' = [logs EXCEPT ![p] = @ \cup {flushing[p][i] : i \in DOMAIN flushing[p]}]
      BY <1>16 DEF Flush, FlushFails
    <3>4. logs \in [Steps -> SUBSET (1..MaxLines)]
      BY DEF TypeOK
    <3>5. logs[p] \cup {flushing[p][i] : i \in DOMAIN flushing[p]} \in SUBSET (1..MaxLines)
      BY <3>2, <3>4
    <3> QED
      BY <3>3, <3>4, <3>5
  <2>11. Shape'
    BY <2>1 DEF Shape
  <2>12. TypeOK'
    BY <2>1, <2>5, <2>7, <2>10 DEF TypeOK
  <2> QED
    BY <2>9, <2>11, <2>12
<1>17. ASSUME NEW r \in Readers, LineTooLong(r) PROVE Goal
  <2>1. /\ dead' = dead \cup {r} /\ events' = events - 1 /\ events > 0
        /\ UNCHANGED <<execVars, memVars, writerVars, counter, waiting, printed, bufferVars, force>>
    BY <1>17 DEF LineTooLong
  <2>2. at # "new" /\ r[1] <= current
    BY <1>17, ReadingFacts DEF LineTooLong
  <2>3. \A p \in Steps : Held(p)' = Held(p)
    BY <2>1 DEF Held
  <2>4. Room'
    BY <2>1, <2>3, LinesStay
  <2>5. Shape'
    BY <2>1, <2>2 DEF Shape
  <2>6. events' \in 0..MaxEvents /\ dead' \subseteq Readers
    BY <1>0, <2>1 DEF TypeOK
  <2>7. TypeOK'
    BY <2>1, <2>6 DEF TypeOK
  <2> QED
    BY <2>4, <2>5, <2>7
<1> QED
  BY <1>1, <1>2, <1>3, <1>4, <1>5, <1>6, <1>g, <1>7, <1>8, <1>9, <1>10, <1>11, <1>12, <1>13,
     <1>14, <1>15, <1>16, <1>17 DEF Next, Executor, Worker

LEMMA TypesHold == Spec => [](TypeOK /\ Shape /\ Room)
<1>1. ASSUME TypeOK, Shape, Room, UNCHANGED vars PROVE (TypeOK /\ Shape /\ Room)'
  <2> USE <1>1 DEF vars, execVars, memVars, writerVars, lineVars, bufferVars
  <2>1. TypeOK' /\ Shape'
    BY DEF TypeOK, Shape
  <2>2. \A p \in Steps : Held(p)' = Held(p)
    BY DEF Held
  <2>3. Room'
    BY <2>2, LinesStay
  <2> QED
    BY <2>1, <2>3
<1>2. TypeOK /\ Shape /\ Room /\ [Next]_vars => (TypeOK /\ Shape /\ Room)'
  BY <1>1, TypeStep
<1> QED
  BY <1>2, InitTypes, PTL DEF Spec

\* Every variable keeps its type: the queue of JobDbWriter and the batches of
\* LogBuffer keep to their limits whatever the jobs of the process do.
THEOREM TypeCorrect == Spec => []TypeOK
  BY TypesHold, PTL

-----------------------------------------------------------------------------
(* The order of the writes.  The writes that create the job and make it      *)
(* active are the first the tracker queues; what ends it comes after them.   *)

Opens(w)   == w.op = "update_job" /\ w.to \in Active
Closes(w)  == w.op = "update_job" /\ w.to \in Terminal
Creates(w) == w.op = "insert_job"

\* Before the job starts the writer knows nothing of it.
Unknown ==
  at = "new" => /\ status = "none" /\ row = "none" /\ inflight \in {NoWrite, OtherWrite}
                /\ \A i \in 1..Len(queue) : queue[i] = OtherWrite

\* No write that makes the row active follows one that ends the job.
InOrder ==
  /\ Creates(inflight) => inflight = InsertJob
  /\ \A i \in 1..Len(queue) : Creates(queue[i]) => queue[i] = InsertJob
  /\ row \in Terminal => ~Opens(inflight)
  /\ row \in Terminal \/ Closes(inflight) => \A i \in 1..Len(queue) : ~Opens(queue[i])
  /\ \A i, j \in 1..Len(queue) : i < j /\ Closes(queue[i]) => ~Opens(queue[j])

\* A started job has its row, or the writer still has the write that creates
\* it, or a write was lost.
Announced ==
  at # "new" => \/ dropped \/ row # "none" \/ inflight = InsertJob
                \/ \E i \in 1..Len(queue) : queue[i] = InsertJob

\* The stretch of code that starts the job schedules ws.
Begins(ws) ==
  /\ at = "new" /\ at' # "new" /\ Schedule(ws) /\ UNCHANGED <<inflight, row>>
  /\ Len(ws) > 0 /\ ws[1] = InsertJob
  /\ \A i \in 1..Len(ws) : Creates(ws[i]) => ws[i] = InsertJob
  /\ \A i, j \in 1..Len(ws) : i < j /\ Closes(ws[i]) => ~Opens(ws[j])

\* A later stretch of code, of the executor or of cancel_job().
Reports(ws) ==
  /\ at # "new" /\ at' # "new" /\ Schedule(ws) /\ UNCHANGED <<inflight, row>>
  /\ \A i \in 1..Len(ws) : ~Opens(ws[i]) /\ ~Creates(ws[i])

\* A step that the writer does not notice.
Elsewhere ==
  /\ at = "new" <=> at' = "new"
  /\ at = "new" => status' = status
  /\ UNCHANGED <<queue, inflight, row, dropped>>

LEMMA Kinds ==
  /\ Creates(InsertJob) /\ ~Opens(InsertJob) /\ ~Closes(InsertJob)
  /\ \A to \in Active : Opens(UpdateJob(to)) /\ ~Closes(UpdateJob(to)) /\ ~Creates(UpdateJob(to))
  /\ \A to \in Terminal : Closes(UpdateJob(to)) /\ ~Opens(UpdateJob(to)) /\ ~Creates(UpdateJob(to))
  /\ \A n : ~Opens(InsertPhases(n)) /\ ~Closes(InsertPhases(n)) /\ ~Creates(InsertPhases(n))
  /\ \A p, to : /\ ~Opens(UpdatePhase(p, to)) /\ ~Closes(UpdatePhase(p, to))
                /\ ~Creates(UpdatePhase(p, to))
  /\ \A w \in {NoWrite, OtherWrite} : ~Opens(w) /\ ~Closes(w) /\ ~Creates(w)
  BY DEF Creates, Opens, Closes, InsertJob, UpdateJob, InsertPhases, UpdatePhase, NoWrite,
         OtherWrite, Active, Terminal

\* complete_phase() and what follows it, as the writer sees it.
LEMMA PhaseDoneWrites ==
  ASSUME TypeOK, Shape, at \in {"setup", "streaming"},
         NEW success \in BOOLEAN, NextPhase(success) \/ LastPhase(success)
  PROVE  (\E ws \in Seq(Writes) : Reports(ws)) \/ Elsewhere
<1> DEFINE to == IF success THEN "completed" ELSE "failed"
<1>1. current \in Steps /\ current \in Nat /\ to \in PhaseStatuses
  BY Constants DEF Shape, Steps, PhaseStatuses
<1>2. at # "new" /\ at' # "new" /\ UNCHANGED <<inflight, row>>
  BY DEF NextPhase, LastPhase, CompleteJob
<1>3. CASE ~Tracked
  <2>1. UNCHANGED <<queue, dropped>>
    BY <1>3 DEF NextPhase, LastPhase
  <2> QED
    BY <1>2, <2>1 DEF Elsewhere
<1>4. CASE Tracked /\ NextPhase(success)
  <2> DEFINE ws == <<UpdatePhase(current, to), UpdatePhase(current + 1, "running")>>
  <2>1. current + 1 \in Steps
    BY <1>1, <1>4, PlanFits, Constants DEF NextPhase, Steps
  <2>2. UpdatePhase(current, to) \in Writes /\ UpdatePhase(current + 1, "running") \in Writes
    BY <1>1, <2>1, WriteTypes DEF PhaseStatuses
  <2>3. ws \in Seq(Writes) /\ Schedule(ws)
    BY <1>4, <2>2 DEF NextPhase
  <2>4. \A i \in 1..Len(ws) : ~Opens(ws[i]) /\ ~Creates(ws[i])
    BY Kinds
  <2> QED
    BY <1>2, <2>3, <2>4 DEF Reports
<1>5. CASE Tracked /\ LastPhase(success)
  <2> DEFINE end == IF good /\ success THEN "completed" ELSE "failed"
             ws == Append(<<UpdatePhase(current, to)>>, UpdateJob(end))
  <2>1. UpdatePhase(current, to) \in Writes /\ UpdateJob(end) \in Writes /\ end \in Terminal
    BY <1>1, WriteTypes DEF Terminal
  <2>2. Schedule(ws)
    BY <1>5 DEF LastPhase, CompleteJob
  <2>3. /\ ~Opens(UpdatePhase(current, to)) /\ ~Creates(UpdatePhase(current, to))
        /\ ~Opens(UpdateJob(end)) /\ ~Creates(UpdateJob(end))
    BY <2>1, Kinds
  <2> HIDE DEF end
  <2>4. ws \in Seq(Writes) /\ Len(ws) = 2 /\ ws[1] = UpdatePhase(current, to) /\ ws[2] = UpdateJob(end)
    BY <2>1, AppendPair
  <2> HIDE DEF ws
  <2>5. \A i \in 1..Len(ws) : ~Opens(ws[i]) /\ ~Creates(ws[i])
    BY <2>3, <2>4
  <2> QED
    BY <1>2, <2>2, <2>4, <2>5 DEF Reports
<1> QED
  BY <1>3, <1>4, <1>5

\* Every step, as the writer sees it.
LEMMA WriterStep ==
  ASSUME TypeOK, Shape, Unknown, Next
  PROVE  \/ \E ws \in Seq(Writes) : Begins(ws) \/ Reports(ws)
         \/ OtherJobWrites \/ Get \/ Write \/ WriteFails \/ Elsewhere
<1> USE DEF execVars, memVars, writerVars, lineVars, bufferVars
<1>1. ASSUME NEW n \in Steps, StartPlan(n) PROVE \E ws \in Seq(Writes) : Begins(ws)
  <2> DEFINE ws == <<InsertJob, UpdateJob("decomposing"), InsertPhases(n),
                     UpdateJob("running"), UpdatePhase(1, "running")>>
  <2>1. ws \in Seq(Writes)
    BY StartWrites
  <2>2. \A i \in 1..Len(ws) : ~Closes(ws[i]) /\ (Creates(ws[i]) => ws[i] = InsertJob)
    BY Kinds DEF Active
  <2>3. Len(ws) > 0 /\ ws[1] = InsertJob
    OBVIOUS
  <2>4. at = "new" /\ at' # "new" /\ Schedule(ws) /\ UNCHANGED <<inflight, row>>
    BY <1>1 DEF StartPlan
  <2> HIDE DEF ws
  <2> QED
    BY <2>1, <2>2, <2>3, <2>4 DEF Begins
<1>2. ASSUME NEW n \in Steps, StartUnknownAgent(n) PROVE \E ws \in Seq(Writes) : Begins(ws)
  <2> DEFINE ws == <<InsertJob, UpdateJob("decomposing"), InsertPhases(n), UpdateJob("running")>>
  <2>1. ws \in Seq(Writes)
    BY StartWrites
  <2>2. \A i \in 1..Len(ws) : ~Closes(ws[i]) /\ (Creates(ws[i]) => ws[i] = InsertJob)
    BY Kinds DEF Active
  <2>3. Len(ws) > 0 /\ ws[1] = InsertJob
    OBVIOUS
  <2>4. at = "new" /\ at' # "new" /\ Schedule(ws) /\ UNCHANGED <<inflight, row>>
    BY <1>2 DEF StartUnknownAgent
  <2> HIDE DEF ws
  <2> QED
    BY <2>1, <2>2, <2>3, <2>4 DEF Begins
<1>3. CASE StartEmpty
  <2> DEFINE ws == Append(<<InsertJob>>, UpdateJob("failed"))
  <2>1. ws \in Seq(Writes) /\ Len(ws) = 2 /\ ws[1] = InsertJob /\ ws[2] = UpdateJob("failed")
    BY WriteTypes, AppendPair DEF Terminal
  <2>2. at = "new" /\ at' # "new" /\ Schedule(ws) /\ UNCHANGED <<inflight, row>>
    BY <1>3 DEF StartEmpty, CompleteJob
  <2> HIDE DEF ws
  <2>3. ~Creates(UpdateJob("failed")) /\ ~Opens(UpdateJob("failed"))
    BY Kinds DEF Terminal
  <2>4. /\ \A i \in 1..Len(ws) : Creates(ws[i]) => ws[i] = InsertJob
        /\ \A i, j \in 1..Len(ws) : i < j => ~Opens(ws[j])
    BY <2>1, <2>3
  <2> QED
    BY <2>1, <2>2, <2>4 DEF Begins
<1>4. CASE Cancel
  <2> DEFINE ws == <<UpdateJob("cancelled")>>
  <2>1. ws \in Seq(Writes)
    BY WriteTypes DEF Terminal
  <2>2. at # "new" /\ at' # "new" /\ Schedule(ws) /\ UNCHANGED <<inflight, row>>
    BY <1>4 DEF Cancel, Unknown
  <2>3. \A i \in 1..Len(ws) : ~Opens(ws[i]) /\ ~Creates(ws[i])
    BY Kinds DEF Terminal
  <2> QED
    BY <2>1, <2>2, <2>3 DEF Reports
<1>5. CASE PhaseRaises \/ GatherRaises
  BY <1>5, PhaseDoneWrites DEF PhaseRaises, GatherRaises
<1>6. ASSUME NEW success \in BOOLEAN, EndPhase(success)
      PROVE  (\E ws \in Seq(Writes) : Reports(ws)) \/ Elsewhere
  BY <1>6, PhaseDoneWrites DEF EndPhase
<1>7. CASE RunPhase \/ CleanupHistory
  BY <1>7 DEF RunPhase, CleanupHistory, Elsewhere, Unknown, Terminal
<1>8. ASSUME NEW s \in Readers, AppendLog(s) \/ Joined(s) \/ LineTooLong(s) PROVE Elsewhere
  BY <1>8 DEF AppendLog, Joined, LineTooLong, Elsewhere
<1>9. ASSUME NEW B \in SUBSET Steps, Drain(B) PROVE Elsewhere
  BY <1>9 DEF Drain, Elsewhere
<1>10. ASSUME NEW p \in Steps, Flush(p) \/ FlushFails(p) PROVE Elsewhere
  BY <1>10 DEF Flush, FlushFails, Elsewhere
<1> QED
  BY <1>1, <1>2, <1>3, <1>4, <1>5, <1>6, <1>7, <1>8, <1>9, <1>10 DEF Next, Executor, Worker

\* The queue after get().
LEMMA NextWriteFacts ==
  ASSUME TypeOK, NextWrite
  PROVE  \/ queue = <<>> /\ queue' = <<>> /\ inflight' = NoWrite
         \/ /\ Len(queue) \in Nat /\ Len(queue) > 0 /\ Len(queue') = Len(queue) - 1
            /\ inflight' = queue[1]
            /\ \A i \in 1..Len(queue') : i + 1 \in 1..Len(queue) /\ queue'[i] = queue[i + 1]
<1>1. CASE queue = <<>>
  BY <1>1 DEF NextWrite
<1>2. CASE queue # <<>>
  <2>1. queue' = Tail(queue) /\ inflight' = Head(queue) /\ queue \in Seq(Writes)
    BY <1>2 DEF NextWrite, TypeOK
  <2>2. /\ Len(queue) \in Nat /\ Len(queue) > 0 /\ Len(Tail(queue)) = Len(queue) - 1
        /\ Head(queue) = queue[1]
        /\ \A i \in 1..Len(Tail(queue)) : Tail(queue)[i] = queue[i + 1]
    BY <1>2, <2>1
  <2> QED
    BY <2>1, <2>2
<1> QED
  BY <1>1, <1>2

\* The job starts: behind writes of others, the writer gets the job's first.
LEMMA BeginsKeeps ==
  ASSUME TypeOK, Unknown, InOrder, NEW ws \in Seq(Writes), Begins(ws)
  PROVE  Unknown' /\ InOrder' /\ Announced'
<1> DEFINE l == Len(queue)
<1>1. /\ at = "new" /\ at' # "new" /\ Schedule(ws) /\ inflight' = inflight /\ row' = row
      /\ row = "none" /\ inflight \in {NoWrite, OtherWrite}
      /\ \A i \in 1..Len(queue) : queue[i] = OtherWrite
  BY DEF Begins, Unknown
<1>2. /\ Len(queue') \in Nat /\ l \in Nat /\ l <= Len(queue')
      /\ ~dropped' => Len(queue') = l + Len(ws)
      /\ \A j \in 1..l : queue'[j] = queue[j]
      /\ \A j \in (l + 1)..Len(queue') : j - l \in 1..Len(ws) /\ queue'[j] = ws[j - l]
  <2>1. queue' \in Seq(Writes) /\ queue \in Seq(Writes)
    BY <1>1, ScheduleFacts DEF TypeOK
  <2> QED
    BY <1>1, <2>1, ScheduleFacts
<1>3. /\ Len(ws) \in Nat /\ Len(ws) > 0 /\ ws[1] = InsertJob
      /\ \A i \in 1..Len(ws) : Creates(ws[i]) => ws[i] = InsertJob
      /\ \A i, j \in 1..Len(ws) : i < j /\ Closes(ws[i]) => ~Opens(ws[j])
  BY DEF Begins
<1>4. ~Opens(OtherWrite) /\ ~Closes(OtherWrite) /\ ~Creates(OtherWrite) /\ ~Creates(inflight)
      /\ ~Closes(inflight) /\ row' \notin Terminal
  BY <1>1, Kinds DEF Terminal
<1> HIDE DEF l
<1>5. \A j \in 1..Len(queue') : j \in 1..l \/ j \in (l + 1)..Len(queue')
  BY <1>2
<1>6. \A j \in 1..l : queue'[j] = OtherWrite
  BY <1>1, <1>2 DEF l
<1>7. Unknown'
  BY <1>1 DEF Unknown
<1>8. \A i \in 1..Len(queue') : Creates(queue'[i]) => queue'[i] = InsertJob
  BY <1>2, <1>3, <1>4, <1>5, <1>6
<1>9. ASSUME NEW i \in 1..Len(queue'), NEW j \in 1..Len(queue'), i < j, Closes(queue'[i])
      PROVE  ~Opens(queue'[j])
  <2>1. i \in (l + 1)..Len(queue')
    BY <1>4, <1>5, <1>6, <1>9
  <2>2. j \in (l + 1)..Len(queue') /\ i - l < j - l
    BY <1>2, <1>9, <2>1
  <2>3. i - l \in 1..Len(ws) /\ j - l \in 1..Len(ws) /\ Closes(ws[i - l]) /\ queue'[j] = ws[j - l]
    BY <1>2, <1>9, <2>1, <2>2
  <2> QED
    BY <1>3, <2>2, <2>3
<1>10. InOrder'
  BY <1>1, <1>4, <1>8, <1>9 DEF InOrder, Opens, Closes, Creates
<1>11. ~dropped' => l + 1 \in 1..Len(queue') /\ queue'[l + 1] = InsertJob
  <2>1. ~dropped' => l + 1 \in (l + 1)..Len(queue') /\ (l + 1) - l = 1
    BY <1>2, <1>3
  <2> QED
    BY <1>2, <1>3, <2>1
<1> QED
  BY <1>7, <1>10, <1>11 DEF Announced

\* The executor or cancel_job() reports: nothing that opens the job.
LEMMA ReportsKeeps ==
  ASSUME TypeOK, InOrder, Announced, NEW ws \in Seq(Writes), Reports(ws)
  PROVE  Unknown' /\ InOrder' /\ Announced'
<1> DEFINE l == Len(queue)
<1>1. /\ at # "new" /\ at' # "new" /\ Schedule(ws) /\ inflight' = inflight /\ row' = row
      /\ \A i \in 1..Len(ws) : ~Opens(ws[i]) /\ ~Creates(ws[i])
  BY DEF Reports
<1>2. /\ Len(queue') \in Nat /\ l \in Nat /\ l <= Len(queue')
      /\ dropped => dropped'
      /\ \A j \in 1..l : queue'[j] = queue[j]
      /\ \A j \in (l + 1)..Len(queue') : j - l \in 1..Len(ws) /\ queue'[j] = ws[j - l]
  <2>1. queue' \in Seq(Writes) /\ queue \in Seq(Writes)
    BY <1>1, ScheduleFacts DEF TypeOK
  <2> QED
    BY <1>1, <2>1, ScheduleFacts
<1> HIDE DEF l
<1>3. \A j \in 1..Len(queue') : j \in 1..l \/ j \in (l + 1)..Len(queue')
  BY <1>2
<1>4. \A j \in (l + 1)..Len(queue') : ~Opens(queue'[j]) /\ ~Creates(queue'[j])
  BY <1>1, <1>2
<1>5. \A i \in 1..Len(queue') : Creates(queue'[i]) => queue'[i] = InsertJob
  BY <1>2, <1>3, <1>4 DEF InOrder, l
<1>6. row \in Terminal \/ Closes(inflight) => \A i \in 1..Len(queue') : ~Opens(queue'[i])
  BY <1>2, <1>3, <1>4 DEF InOrder, l
<1>7. ASSUME NEW i \in 1..Len(queue'), NEW j \in 1..Len(queue'), i < j, Closes(queue'[i])
      PROVE  ~Opens(queue'[j])
  <2>1. CASE j \in (l + 1)..Len(queue')
    BY <1>4, <2>1
  <2>2. CASE j \in 1..l
    <3>1. i \in 1..l
      BY <1>2, <1>7, <2>2
    <3> QED
      BY <1>2, <1>7, <2>2, <3>1 DEF InOrder, l
  <2> QED
    BY <1>3, <2>1, <2>2
<1>8. InOrder'
  BY <1>1, <1>5, <1>6, <1>7 DEF InOrder, Opens, Closes, Creates
<1>9. Unknown'
  BY <1>1 DEF Unknown
<1>10. Announced'
  <2>1. \A i \in 1..l : i \in 1..Len(queue') /\ queue'[i] = queue[i]
    BY <1>2
  <2> QED
    BY <1>1, <1>2, <2>1 DEF Announced, l
<1> QED
  BY <1>8, <1>9, <1>10

\* Another job's write takes a place in the queue.
LEMMA OtherKeeps ==
  ASSUME TypeOK, Unknown, InOrder, Announced, OtherJobWrites
  PROVE  Unknown' /\ InOrder' /\ Announced'
<1> DEFINE l == Len(queue)
<1>1. /\ queue' = (IF Len(queue) < QueueMax THEN Append(queue, OtherWrite) ELSE queue)
      /\ UNCHANGED <<at, status, inflight, row, dropped>>
  BY DEF OtherJobWrites, execVars, memVars
<1>2. queue \in Seq(Writes) /\ l \in Nat
  BY DEF TypeOK
<1>3. /\ \A j \in 1..l : j \in 1..Len(queue') /\ queue'[j] = queue[j]
      /\ \A j \in 1..Len(queue') : j \in 1..l \/ (j = l + 1 /\ queue'[j] = OtherWrite)
  <2>1. CASE queue' = queue
    BY <2>1
  <2>2. CASE queue' = Append(queue, OtherWrite)
    <3>1. /\ Len(queue') = l + 1 /\ queue'[l + 1] = OtherWrite
          /\ \A j \in 1..l : queue'[j] = queue[j]
      BY <1>2, <2>2, WriteTypes
    <3> QED
      BY <1>2, <3>1
  <2> QED
    BY <1>1, <2>1, <2>2
<1> HIDE DEF l
<1>4. ~Opens(OtherWrite) /\ ~Closes(OtherWrite) /\ ~Creates(OtherWrite)
  BY Kinds
<1>5. Unknown'
  BY <1>1, <1>3 DEF Unknown, l
<1>6. \A i \in 1..Len(queue') : Creates(queue'[i]) => queue'[i] = InsertJob
  BY <1>3, <1>4 DEF InOrder, l
<1>7. row \in Terminal \/ Closes(inflight) => \A i \in 1..Len(queue') : ~Opens(queue'[i])
  BY <1>3, <1>4 DEF InOrder, l
<1>8. ASSUME NEW i \in 1..Len(queue'), NEW j \in 1..Len(queue'), i < j, Closes(queue'[i])
      PROVE  ~Opens(queue'[j])
  <2>1. i \in 1..l
    BY <1>3, <1>4, <1>8
  <2>2. CASE j \in 1..l
    BY <1>3, <1>8, <2>1, <2>2 DEF InOrder, l
  <2> QED
    BY <1>3, <1>4, <2>2
<1>9. InOrder'
  BY <1>1, <1>6, <1>7, <1>8 DEF InOrder, Opens, Closes, Creates
<1>10. Announced'
  BY <1>1, <1>3 DEF Announced, l
<1> QED
  BY <1>5, <1>9, <1>10

\* What a statement does to the row of the job.
LEMMA RowFacts ==
  ASSUME TypeOK, InOrder, inflight # NoWrite, row' = UpdateJobRow(inflight)
  PROVE  /\ row \in Terminal => row' \in Terminal
         /\ row' \in Terminal => row \in Terminal \/ Closes(inflight)
         /\ row # "none" => row' # "none"
         /\ inflight = InsertJob => row' # "none"
         /\ inflight = OtherWrite => row' = row
<1>1. inflight \in Writes
  BY DEF TypeOK
<1>2. inflight.op = "update_job" => inflight.to \in Active \cup Terminal
  BY <1>1 DEF Writes, OtherWrite
<1> QED
  BY <1>2 DEF UpdateJobRow, InOrder, Opens, Closes, Creates, InsertJob, OtherWrite, Active, Terminal

\* The worker takes the next write, the one before it done or failed.
LEMMA WorkerKeeps ==
  ASSUME TypeOK, Unknown, InOrder, Announced, NextWrite, UNCHANGED <<at, status>>,
         dropped => dropped',
         row \in Terminal => row' \in Terminal,
         row' \in Terminal => row \in Terminal \/ Closes(inflight),
         row # "none" => row' # "none",
         inflight = InsertJob => row' # "none" \/ dropped',
         inflight \in {NoWrite, OtherWrite} => row' = row
  PROVE  Unknown' /\ InOrder' /\ Announced'
<1>1. CASE queue = <<>> /\ queue' = <<>> /\ inflight' = NoWrite
  <2>1. Len(queue') = 0 /\ Len(queue) = 0 /\ \A i : i \notin 1..0
    BY <1>1
  <2>2. ~Opens(inflight') /\ ~Closes(inflight') /\ ~Creates(inflight')
    BY <1>1, Kinds
  <2>3. Unknown'
    BY <1>1, <2>1 DEF Unknown
  <2>4. InOrder'
    BY <2>1, <2>2 DEF InOrder, Opens, Closes, Creates
  <2>5. Announced'
    BY <2>1 DEF Announced
  <2> QED
    BY <2>3, <2>4, <2>5
<1>2. CASE /\ Len(queue) \in Nat /\ Len(queue) > 0 /\ Len(queue') = Len(queue) - 1
           /\ inflight' = queue[1]
           /\ \A i \in 1..Len(queue') : i + 1 \in 1..Len(queue) /\ queue'[i] = queue[i + 1]
  <2>1. 1 \in 1..Len(queue) /\ \A i \in 1..Len(queue') : i \in Nat /\ 1 < i + 1
    BY <1>2
  <2>2. Unknown'
    BY <1>2, <2>1 DEF Unknown
  <2>3. Creates(queue[1]) => queue[1] = InsertJob
    BY <2>1 DEF InOrder
  <2>4. \A i \in 1..Len(queue') : Creates(queue'[i]) => queue'[i] = InsertJob
    BY <1>2 DEF InOrder
  <2>5. row' \in Terminal => ~Opens(queue[1]) /\ \A i \in 1..Len(queue') : ~Opens(queue'[i])
    BY <1>2, <2>1 DEF InOrder
  <2>6. Closes(queue[1]) => \A i \in 1..Len(queue') : ~Opens(queue'[i])
    BY <1>2, <2>1 DEF InOrder
  <2>7. \A i, j \in 1..Len(queue') : i < j /\ Closes(queue'[i]) => ~Opens(queue'[j])
    <3> SUFFICES ASSUME NEW i \in 1..Len(queue'), NEW j \in 1..Len(queue'), i < j, Closes(queue'[i])
                 PROVE  ~Opens(queue'[j])
      OBVIOUS
    <3>1. /\ i + 1 \in 1..Len(queue) /\ queue'[i] = queue[i + 1]
          /\ j + 1 \in 1..Len(queue) /\ queue'[j] = queue[j + 1]
      BY <1>2, Zenon
    <3>2. i + 1 < j + 1
      OBVIOUS
    <3> QED
      BY <3>1, <3>2 DEF InOrder
  <2>8. InOrder'
    BY <1>2, <2>3, <2>4, <2>5, <2>6, <2>7 DEF InOrder, Opens, Closes, Creates
  <2>9. ASSUME NEW i \in 1..Len(queue), queue[i] = InsertJob
        PROVE  inflight' = InsertJob \/ \E j \in 1..Len(queue') : queue'[j] = InsertJob
    <3>1. CASE i = 1
      BY <1>2, <2>9, <3>1
    <3>2. CASE i # 1
      <4>1. i - 1 \in 1..Len(queue') /\ (i - 1) + 1 = i
        BY <1>2, <3>2
      <4> QED
        BY <1>2, <2>9, <4>1
    <3> QED
      BY <3>1, <3>2
  <2>10. Announced'
    BY <2>9 DEF Announced
  <2> QED
    BY <2>2, <2>8, <2>10
<1> QED
  BY <1>1, <1>2, NextWriteFacts

\* One step keeps the order, and the row of an ended job.
LEMMA OrderStep ==
  ASSUME TypeOK, Shape, Unknown, InOrder, Announced, [Next]_vars
  PROVE  /\ Unknown' /\ InOrder' /\ Announced'
         /\ row \in Terminal => row' \in Terminal
         /\ row # "none" => row' # "none"
         /\ dropped => dropped'
<1> DEFINE Goal == /\ Unknown' /\ InOrder' /\ Announced'
                   /\ row \in Terminal => row' \in Terminal
                   /\ row # "none" => row' # "none"
                   /\ dropped => dropped'
<1> USE DEF execVars, memVars
<1>1. ASSUME NEW ws \in Seq(Writes), Begins(ws) PROVE Goal
  <2>1. row' = row /\ (dropped => dropped')
    BY <1>1, ScheduleFacts DEF Begins
  <2> QED
    BY <1>1, <2>1, BeginsKeeps
<1>2. ASSUME NEW ws \in Seq(Writes), Reports(ws) PROVE Goal
  <2>1. row' = row /\ (dropped => dropped')
    BY <1>2, ScheduleFacts DEF Reports
  <2> QED
    BY <1>2, <2>1, ReportsKeeps
<1>3. CASE OtherJobWrites
  <2>1. row' = row /\ dropped' = dropped
    BY <1>3 DEF OtherJobWrites
  <2> QED
    BY <1>3, <2>1, OtherKeeps
<1>4. CASE Get
  <2>1. NextWrite /\ UNCHANGED <<at, status, row, dropped>> /\ inflight = NoWrite
    BY <1>4 DEF Get
  <2>2. inflight # InsertJob
    BY <2>1 DEF NoWrite, InsertJob
  <2> QED
    BY <2>1, <2>2, WorkerKeeps
<1>5. CASE Write
  <2>1. NextWrite /\ UNCHANGED <<at, status, dropped>> /\ inflight # NoWrite /\ row' = UpdateJobRow(inflight)
    BY <1>5 DEF Write, TaskDone
  <2> QED
    BY <2>1, RowFacts, WorkerKeeps
<1>6. CASE WriteFails
  <2>1. NextWrite /\ UNCHANGED <<at, status, row>> /\ dropped' = (dropped \/ inflight # OtherWrite)
    BY <1>6 DEF WriteFails, TaskDone
  <2>2. (dropped => dropped') /\ (inflight = InsertJob => dropped')
    <3>1. InsertJob # OtherWrite
      BY DEF InsertJob, OtherWrite
    <3> QED
      BY <2>1, <3>1, Zenon
  <2> QED
    BY <2>1, <2>2, WorkerKeeps
<1>7. CASE Elsewhere
  BY <1>7 DEF Elsewhere, Unknown, InOrder, Announced, Opens, Closes, Creates
<1>8. CASE UNCHANGED vars
  BY <1>8 DEF vars, writerVars, Unknown, InOrder, Announced, Opens, Closes, Creates
<1> QED
  BY <1>1, <1>2, <1>3, <1>4, <1>5, <1>6, <1>7, <1>8, WriterStep

LEMMA OrderHolds == Spec => [](TypeOK /\ Shape /\ Unknown /\ InOrder /\ Announced)
<1>1. Init => Unknown /\ InOrder /\ Announced
  <2> SUFFICES ASSUME Init PROVE Unknown /\ InOrder /\ Announced
    OBVIOUS
  <2>1. Len(queue) = 0 /\ \A i : i \notin 1..0
    BY DEF Init
  <2>2. ~Opens(inflight) /\ ~Closes(inflight) /\ ~Creates(inflight)
    BY Kinds DEF Init
  <2> QED
    BY <2>1, <2>2 DEF Init, Unknown, InOrder, Announced, Terminal
<1>2. TypeOK /\ Shape /\ Unknown /\ InOrder /\ Announced /\ [Next]_vars
        => (Unknown /\ InOrder /\ Announced)'
  BY OrderStep
<1> QED
  BY <1>1, <1>2, TypesHold, PTL DEF Spec

\* The row of a job that has ended never becomes active again: the writer is
\* FIFO and the tracker opens the job before anything can end it.
THEOREM EndedStaysEnded == Spec => RowNeverReopens
<1>1. TypeOK /\ Shape /\ Unknown /\ InOrder /\ Announced /\ [Next]_vars
        => [(row \in Terminal) => (row' \in Terminal)]_vars
  BY OrderStep
<1> QED
  BY <1>1, OrderHolds, PTL DEF Spec, RowNeverReopens

-----------------------------------------------------------------------------
(* append() awaits the writer: what join() lets through finds the row.       *)

\* A stream whose join() has returned may write: the row is there.
ReadyLines == \A s \in Readers : waiting[s].ready => row # "none" \/ dropped

\* With nothing unfinished, a started job has its row.
LEMMA QuietFacts ==
  ASSUME Announced, at # "new", queue = <<>>
  PROVE  dropped \/ row # "none" \/ inflight = InsertJob
<1>1. Len(queue) = 0 /\ \A i : i \notin 1..0
  OBVIOUS
<1> QED
  BY <1>1 DEF Announced

\* The last write is done: those who waited for it may go on.
LEMMA JoinReturns ==
  ASSUME TypeOK, Shape, Room, Announced, ReadyLines, TaskDone,
         UNCHANGED <<execVars, counter, dead, printed, buffer, flushing, gone>>,
         row # "none" => row' # "none", dropped => dropped',
         inflight = InsertJob => row' # "none" \/ dropped'
  PROVE  ReadyLines'
<1>1. CASE queue # <<>>
  <2>1. waiting' = waiting
    BY <1>1 DEF TaskDone
  <2> QED
    BY <2>1 DEF ReadyLines
<1>2. CASE at # "new" /\ queue = <<>>
  <2>1. row' # "none" \/ dropped'
    BY <1>2, QuietFacts
  <2> QED
    BY <2>1 DEF ReadyLines
<1>3. CASE at = "new"
  <2>1. \A s \in Readers : waiting'[s] = NoLine
    BY <1>3, TaskDoneTypes DEF Shape
  <2>2. \A s \in Readers : ~waiting'[s].ready
    BY <2>1 DEF NoLine
  <2> QED
    BY <2>2 DEF ReadyLines
<1> QED
  BY <1>1, <1>2, <1>3

LEMMA FollowStep ==
  ASSUME TypeOK, Shape, Room, Unknown, InOrder, Announced, ReadyLines, LinesFollowTheirJob, [Next]_vars
  PROVE  ReadyLines' /\ LinesFollowTheirJob'
<1> USE DEF execVars, memVars, writerVars, lineVars, bufferVars
<1> DEFINE Goal == ReadyLines' /\ LinesFollowTheirJob'
<1>0. (row # "none" => row' # "none") /\ (dropped => dropped')
  BY OrderStep
<1>1. CASE row # "none" \/ dropped
  BY <1>0, <1>1 DEF ReadyLines, LinesFollowTheirJob
<1>2. CASE UNCHANGED <<waiting, buffer, flushing>>
  BY <1>0, <1>2 DEF ReadyLines, LinesFollowTheirJob
<1>3. CASE Write
  <2>1. /\ TaskDone /\ inflight # NoWrite /\ row' = UpdateJobRow(inflight)
        /\ UNCHANGED <<execVars, counter, dead, printed, buffer, flushing, gone>>
    BY <1>3 DEF Write
  <2>2. inflight = InsertJob => row' # "none"
    BY <2>1, RowFacts
  <2>3. ReadyLines'
    BY <1>0, <2>1, <2>2, JoinReturns
  <2> QED
    BY <1>0, <2>1, <2>3 DEF LinesFollowTheirJob
<1>4. CASE WriteFails
  <2>1. /\ TaskDone /\ dropped' = (dropped \/ inflight # OtherWrite)
        /\ UNCHANGED <<execVars, counter, dead, printed, buffer, flushing, gone>>
    BY <1>4 DEF WriteFails
  <2>2. inflight = InsertJob => dropped'
    <3>1. InsertJob # OtherWrite
      BY DEF InsertJob, OtherWrite
    <3> QED
      BY <2>1, <3>1, Zenon
  <2>3. ReadyLines'
    BY <1>0, <2>1, <2>2, JoinReturns
  <2> QED
    BY <1>0, <2>1, <2>3 DEF LinesFollowTheirJob
<1>5. ASSUME NEW s \in Readers, AppendLog(s), ~(row # "none" \/ dropped) PROVE Goal
  <2>1. at # "new" /\ UNCHANGED <<row, dropped, flushing>>
    BY <1>5, ReadingFacts DEF AppendLog
  <2>2. ~Quiet
    <3>1. inflight = NoWrite => inflight # InsertJob
      BY DEF NoWrite, InsertJob
    <3> QED
      BY <1>5, <2>1, <3>1, QuietFacts DEF Quiet
  <2>3. buffer' = buffer /\ waiting' = [waiting EXCEPT ![s] = [no |-> counter[s[1]] + 1, ready |-> FALSE]]
    BY <1>5, <2>2 DEF AppendLog
  <2>4. \A t \in Readers : waiting'[t].ready => waiting[t].ready
    BY <2>3 DEF TypeOK
  <2> QED
    BY <2>1, <2>3, <2>4 DEF ReadyLines, LinesFollowTheirJob
<1>6. ASSUME NEW s \in Readers, Joined(s) PROVE row # "none" \/ dropped
  BY <1>6 DEF Joined, ReadyLines
<1>7. ASSUME NEW B \in SUBSET Steps, Drain(B) PROVE Goal
  <2>1. /\ UNCHANGED <<waiting, row, dropped>>
        /\ flushing' = [p \in Steps |-> IF p \in B THEN buffer[p] ELSE <<>>]
        /\ buffer' = [p \in Steps |-> IF p \in B THEN <<>> ELSE buffer[p]]
    BY <1>7 DEF Drain
  <2>2. \A p \in Steps : buffer'[p] # <<>> \/ flushing'[p] # <<>> => buffer[p] # <<>>
    BY <2>1, Zenon
  <2> QED
    BY <2>1, <2>2 DEF ReadyLines, LinesFollowTheirJob
<1>8. ASSUME NEW p \in Steps, Flush(p) \/ FlushFails(p) PROVE Goal
  <2>1. UNCHANGED <<waiting, row, dropped, buffer>> /\ flushing' = [flushing EXCEPT ![p] = <<>>]
    BY <1>8 DEF Flush, FlushFails
  <2>2. \A q \in Steps : flushing'[q] # <<>> => flushing[q] # <<>>
    BY <2>1 DEF TypeOK
  <2> QED
    BY <2>1, <2>2 DEF ReadyLines, LinesFollowTheirJob
<1>9. CASE \/ \E n \in Steps : StartPlan(n) \/ StartUnknownAgent(n)
           \/ StartEmpty \/ Executor \/ GatherRaises \/ Cancel \/ CleanupHistory \/ OtherJobWrites
           \/ Get \/ UNCHANGED vars \/ \E r \in Readers : LineTooLong(r)
  <2>1. UNCHANGED <<waiting, buffer, flushing>>
    BY <1>9 DEF StartPlan, StartUnknownAgent, StartEmpty, Executor, RunPhase, PhaseRaises, EndPhase,
                GatherRaises, LineTooLong, NextPhase, LastPhase, Cancel, CleanupHistory, OtherJobWrites, Get, vars
  <2> QED
    BY <1>2, <2>1
<1> QED
  BY <1>1, <1>3, <1>4, <1>5, <1>6, <1>7, <1>8, <1>9 DEF Next, Worker

\* A line is buffered only when the row its log refers to is there, or a write
\* of the job was lost: join() waits for the write that creates the row.
THEOREM LinesHaveTheirJob == Spec => []LinesFollowTheirJob
<1>1. Init => ReadyLines /\ LinesFollowTheirJob
  <2> SUFFICES ASSUME Init PROVE ReadyLines /\ LinesFollowTheirJob
    OBVIOUS
  <2>1. \A s \in Readers : ~waiting[s].ready
    BY DEF Init, NoLine
  <2>2. \A p \in Steps : buffer[p] = <<>> /\ flushing[p] = <<>>
    BY DEF Init
  <2> QED
    BY <2>1, <2>2 DEF ReadyLines, LinesFollowTheirJob
<1>2. TypeOK /\ Shape /\ Room /\ Unknown /\ InOrder /\ Announced
        /\ ReadyLines /\ LinesFollowTheirJob /\ [Next]_vars => (ReadyLines /\ LinesFollowTheirJob)'
  BY FollowStep
<1> QED
  BY <1>1, <1>2, TypesHold, OrderHolds, PTL DEF Spec

-----------------------------------------------------------------------------
(* Every line at one place.  The numbers of the lines that wait, are         *)
(* buffered, are being flushed and are stored split the numbers given so far *)
(* (less what was lost), and no place has a number twice.                    *)

Of(q)      == {q[i] : i \in 1..Len(q)}
Once(q)    == \A i, j \in 1..Len(q) : q[i] = q[j] => i = j
HeldNos(p) == {waiting[s].no : s \in Held(p)}

Split(h, b, f, l, c) ==
  /\ h \cap b = {} /\ h \cap f = {} /\ h \cap l = {}
  /\ b \cap f = {} /\ b \cap l = {} /\ f \cap l = {}
  /\ h \cup b \cup f \cup l \subseteq 1..c

Apart(p) ==
  /\ \A s, t \in Held(p) : waiting[s].no = waiting[t].no => s = t
  /\ Once(buffer[p]) /\ Once(flushing[p])
  /\ Split(HeldNos(p), Of(buffer[p]), Of(flushing[p]), logs[p], counter[p])
  /\ Places(p) + Cardinality(logs[p]) = counter[p]

\* While the tracker knows the job; a phase that was not started has no line.
Numbered ==
  Tracked \/ at = "new" =>
    \A p \in Steps : Apart(p) /\ (p > current => counter[p] = 0)

\* The values of a function that is one-to-one on S.
LEMMA OneToOne ==
  ASSUME NEW S, IsFiniteSet(S), NEW f, \A x, y \in S : f[x] = f[y] => x = y
  PROVE  IsFiniteSet({f[x] : x \in S}) /\ Cardinality({f[x] : x \in S}) = Cardinality(S)
<1> DEFINE T == {f[x] : x \in S}
           g == [x \in S |-> f[x]]
<1>1. g \in [S -> T]
  OBVIOUS
<1>2. \A x, y \in S : g[x] = g[y] => x = y
  OBVIOUS
<1>3. \A t \in T : \E x \in S : g[x] = t
  OBVIOUS
<1>4. g \in Bijection(S, T)
  BY <1>1, <1>2, <1>3 DEF Bijection, Injection, Surjection, IsInjective
<1>5. ExistsBijection(S, T)
  BY <1>4 DEF ExistsBijection
<1> QED
  BY <1>5, FS_Bijection

LEMMA OnceCount ==
  ASSUME NEW q \in Seq(1..MaxLines), Once(q)
  PROVE  /\ IsFiniteSet(Of(q)) /\ Cardinality(Of(q)) = Len(q)
         /\ Of(q) \subseteq 1..MaxLines
         /\ {q[i] : i \in DOMAIN q} = Of(q)
<1>1. Len(q) \in Nat /\ DOMAIN q = 1..Len(q) /\ \A i \in 1..Len(q) : q[i] \in 1..MaxLines
  <2>1. \A i \in 1..Len(q) : q[i] \in 1..MaxLines
    BY ElementOfSeq, Zenon
  <2>2. Len(q) \in Nat /\ DOMAIN q = 1..Len(q)
    BY LenProperties, Zenon
  <2> QED
    BY <2>1, <2>2, Zenon
<1>2. IsFiniteSet(1..Len(q)) /\ Cardinality(1..Len(q)) = Len(q)
  BY <1>1, FS_Interval
<1>3. IsFiniteSet({q[i] : i \in 1..Len(q)}) /\ Cardinality({q[i] : i \in 1..Len(q)}) = Cardinality(1..Len(q))
  BY <1>2, OneToOne DEF Once
<1> QED
  BY <1>1, <1>2, <1>3 DEF Of

LEMMA HeldCount ==
  ASSUME NEW p \in Steps, \A s, t \in Held(p) : waiting[s].no = waiting[t].no => s = t
  PROVE  IsFiniteSet(HeldNos(p)) /\ Cardinality(HeldNos(p)) = Cardinality(Held(p))
<1> DEFINE f == [s \in Held(p) |-> waiting[s].no]
<1>1. \A x, y \in Held(p) : f[x] = f[y] => x = y
  OBVIOUS
<1>2. {f[x] : x \in Held(p)} = HeldNos(p)
  BY DEF HeldNos
<1> HIDE DEF f
<1>3. IsFiniteSet({f[x] : x \in Held(p)}) /\ Cardinality({f[x] : x \in Held(p)}) = Cardinality(Held(p))
  BY <1>1, HeldFinite, OneToOne
<1> QED
  BY <1>2, <1>3

LEMMA DisjointUnion ==
  ASSUME NEW S, NEW T, IsFiniteSet(S), IsFiniteSet(T), S \cap T = {}
  PROVE  /\ IsFiniteSet(S \cup T) /\ Cardinality(S \cup T) = Cardinality(S) + Cardinality(T)
         /\ Cardinality(S) \in Nat /\ Cardinality(T) \in Nat
<1>1. /\ IsFiniteSet(S \cup T)
      /\ Cardinality(S \cup T) = Cardinality(S) + Cardinality(T) - Cardinality(S \cap T)
  BY FS_Union
<1>2. Cardinality(S \cap T) = 0 /\ Cardinality(S) \in Nat /\ Cardinality(T) \in Nat
  BY FS_EmptySet, FS_CardinalityType
<1> QED
  BY <1>1, <1>2

\* What Apart means for the number of different lines.
LEMMA ApartCounts ==
  ASSUME TypeOK, NEW p \in Steps, Apart(p)
  PROVE  Cardinality(HeldNos(p) \cup Of(buffer[p]) \cup Of(flushing[p]) \cup logs[p]) + gone[p]
           = counter[p]
<1> DEFINE h == HeldNos(p)
           b == Of(buffer[p])
           f == Of(flushing[p])
           l == logs[p]
<1>1. IsFiniteSet(h) /\ Cardinality(h) = Cardinality(Held(p))
  BY HeldCount DEF Apart
<1>2. IsFiniteSet(b) /\ Cardinality(b) = Len(buffer[p])
  BY OnceCount DEF Apart, TypeOK
<1>3. IsFiniteSet(f) /\ Cardinality(f) = Len(flushing[p])
  BY OnceCount DEF Apart, TypeOK
<1>4. IsFiniteSet(l)
  <2>1. l \in SUBSET (1..MaxLines) /\ IsFiniteSet(1..MaxLines)
    BY Constants, FS_Interval DEF TypeOK
  <2> QED
    BY <2>1, FS_Subset
<1>5. /\ h \cap b = {} /\ (h \cup b) \cap f = {} /\ (h \cup b \cup f) \cap l = {}
  BY DEF Apart, Split
<1>6. Places(p) + Cardinality(l) = counter[p]
  BY DEF Apart
<1> HIDE DEF h, b, f, l
<1>7. IsFiniteSet(h \cup b) /\ Cardinality(h \cup b) = Cardinality(h) + Cardinality(b)
  BY <1>1, <1>2, <1>5, DisjointUnion
<1>8. IsFiniteSet(h \cup b \cup f) /\ Cardinality(h \cup b \cup f) = Cardinality(h \cup b) + Cardinality(f)
  BY <1>3, <1>5, <1>7, DisjointUnion
<1>9. Cardinality(h \cup b \cup f \cup l) = Cardinality(h \cup b \cup f) + Cardinality(l)
  BY <1>4, <1>5, <1>8, DisjointUnion
<1>10. /\ Cardinality(h) \in Nat /\ Cardinality(b) \in Nat /\ Cardinality(f) \in Nat
       /\ Cardinality(l) \in Nat /\ gone[p] \in Nat
  BY <1>1, <1>2, <1>3, <1>4, FS_CardinalityType DEF TypeOK
<1>11. Cardinality(h \cup b \cup f \cup l) + gone[p]
         = Cardinality(h) + Cardinality(b) + Cardinality(f) + gone[p] + Cardinality(l)
  BY <1>7, <1>8, <1>9, <1>10
<1> QED
  BY <1>1, <1>2, <1>3, <1>6, <1>11 DEF Places, h, b, f, l

LEMMA NumberedCounts ==
  ASSUME TypeOK, Numbered
  PROVE  EveryLineOnce
<1> SUFFICES ASSUME Tracked, NEW p \in Steps
             PROVE  /\ Cardinality(Held(p)) + Len(buffer[p]) + Len(flushing[p])
                         + Cardinality(logs[p]) + gone[p] = counter[p]
                    /\ Cardinality({waiting[s].no : s \in Held(p)} \cup {buffer[p][i] : i \in DOMAIN buffer[p]}
                         \cup {flushing[p][i] : i \in DOMAIN flushing[p]} \cup logs[p]) + gone[p] = counter[p]
  BY DEF EveryLineOnce
<1>1. Apart(p)
  BY DEF Numbered
<1>2. /\ {buffer[p][i] : i \in DOMAIN buffer[p]} = Of(buffer[p])
      /\ {flushing[p][i] : i \in DOMAIN flushing[p]} = Of(flushing[p])
  BY <1>1, OnceCount DEF Apart, TypeOK
<1>3. /\ Cardinality(Held(p)) \in Nat /\ Len(buffer[p]) \in Nat /\ Len(flushing[p]) \in Nat
      /\ gone[p] \in Nat /\ Cardinality(logs[p]) \in Nat
  <2>1. logs[p] \in SUBSET (1..MaxLines) /\ IsFiniteSet(1..MaxLines)
    BY Constants, FS_Interval DEF TypeOK
  <2>2. Cardinality(logs[p]) \in Nat
    BY <2>1, FS_Subset, FS_CardinalityType
  <2> QED
    BY <2>2, HeldFinite DEF TypeOK
<1>4. Cardinality(Held(p)) + Len(buffer[p]) + Len(flushing[p]) + Cardinality(logs[p]) + gone[p] = counter[p]
  <2>1. Cardinality(Held(p)) + Len(buffer[p]) + Len(flushing[p]) + gone[p] + Cardinality(logs[p]) = counter[p]
    BY <1>1 DEF Apart, Places
  <2> QED
    BY <1>3, <2>1
<1>5. Cardinality({waiting[s].no : s \in Held(p)} \cup {buffer[p][i] : i \in DOMAIN buffer[p]}
        \cup {flushing[p][i] : i \in DOMAIN flushing[p]} \cup logs[p]) + gone[p] = counter[p]
  BY <1>1, <1>2, ApartCounts, Zenon DEF HeldNos
<1> QED
  BY <1>4, <1>5

\* The line that enters a batch, and perhaps the one that leaves it.
LEMMA BufferOnce ==
  ASSUME TypeOK, NEW p \in Steps, NEW n \in 1..MaxLines, Buffer(p, n),
         Once(buffer[p]), n \notin Of(buffer[p])
  PROVE  Once(buffer'[p]) /\ Of(buffer'[p]) \subseteq Of(buffer[p]) \cup {n}
<1> DEFINE b == Append(buffer[p], n)
           l == Len(buffer[p])
<1>1. /\ l \in Nat /\ Len(b) = l + 1 /\ b[l + 1] = n
      /\ \A i \in 1..l : b[i] = buffer[p][i]
  BY DEF TypeOK
<1>2. PICK e \in {0, 1} :
        /\ Len(buffer'[p]) = l + 1 - e
        /\ \A i \in 1..Len(buffer'[p]) : i + e \in 1..(l + 1) /\ buffer'[p][i] = b[i + e]
  BY BufferFacts
<1>3. \A i \in 1..l : buffer[p][i] \in Of(buffer[p])
  BY DEF Of
<1> HIDE DEF b, l
<1>4. \A i \in 1..(l + 1) : i \in 1..l \/ i = l + 1
  BY <1>1
<1>5. \A i, j \in 1..(l + 1) : b[i] = b[j] => i = j
  <2>1. \A i, j \in 1..l : buffer[p][i] = buffer[p][j] => i = j
    BY DEF Once, l
  <2>2. \A i \in 1..l : b[i] # n
    BY <1>1, <1>3
  <2> QED
    BY <1>1, <1>4, <2>1, <2>2
<1>6. \A i \in 1..(l + 1) : b[i] \in Of(buffer[p]) \cup {n}
  BY <1>1, <1>3, <1>4
<1>7. \A i, j \in 1..Len(buffer'[p]) : buffer'[p][i] = buffer'[p][j] => i = j
  <2> SUFFICES ASSUME NEW i \in 1..Len(buffer'[p]), NEW j \in 1..Len(buffer'[p]),
                      buffer'[p][i] = buffer'[p][j]
               PROVE  i = j
    OBVIOUS
  <2>1. /\ i + e \in 1..(l + 1) /\ j + e \in 1..(l + 1) /\ b[i + e] = b[j + e]
    BY <1>2
  <2>2. i + e = j + e
    BY <1>5, <2>1
  <2> QED
    BY <2>2
<1>8. \A i \in 1..Len(buffer'[p]) : buffer'[p][i] \in Of(buffer[p]) \cup {n}
  BY <1>2, <1>6
<1> QED
  BY <1>7, <1>8 DEF Once, Of

\* The numbers of the lines of a phase, as sums.
LEMMA ApartSum ==
  ASSUME TypeOK, NEW p \in Steps
  PROVE  /\ Cardinality(Held(p)) \in Nat /\ Len(buffer[p]) \in Nat /\ Len(flushing[p]) \in Nat
         /\ gone[p] \in Nat /\ IsFiniteSet(logs[p]) /\ Cardinality(logs[p]) \in Nat /\ counter[p] \in Nat
<1>1. logs[p] \in SUBSET (1..MaxLines) /\ IsFiniteSet(1..MaxLines)
  BY Constants, FS_Interval DEF TypeOK
<1>2. IsFiniteSet(logs[p]) /\ Cardinality(logs[p]) \in Nat
  BY <1>1, FS_Subset, FS_CardinalityType
<1> QED
  BY <1>2, HeldFinite DEF TypeOK

\* What Apart says of the next state of a phase.
LEMMA ApartNext ==
  ASSUME NEW p \in Steps, NEW H, NEW h, NEW b, NEW f, NEW l, NEW c, NEW g,
         Held(p)' = H, HeldNos(p)' = h, buffer'[p] = b, flushing'[p] = f, logs'[p] = l,
         counter'[p] = c, gone'[p] = g,
         \A s, t \in H : waiting'[s].no = waiting'[t].no => s = t,
         Once(b), Once(f), Split(h, Of(b), Of(f), l, c),
         Cardinality(H) + Len(b) + Len(f) + g + Cardinality(l) = c
  PROVE  Apart(p)'
<1>1. \A s, t \in Held(p)' : waiting'[s].no = waiting'[t].no => s = t
  OBVIOUS
<1>2. Once(buffer'[p]) /\ Once(flushing'[p])
  OBVIOUS
<1>3. Split(HeldNos(p)', Of(buffer'[p]), Of(flushing'[p]), logs'[p], counter'[p])
  OBVIOUS
<1>4. Places(p)' + Cardinality(logs'[p]) = counter'[p]
  BY DEF Places
<1> QED
  BY <1>1, <1>2, <1>3, <1>4 DEF Apart

\* A phase whose lines stay where they are.
LEMMA ApartStays ==
  ASSUME NEW p \in Steps, Apart(p), Held(p)' = Held(p), \A s \in Held(p) : waiting'[s].no = waiting[s].no,
         buffer'[p] = buffer[p], flushing'[p] = flushing[p], logs'[p] = logs[p],
         counter'[p] = counter[p], gone'[p] = gone[p]
  PROVE  Apart(p)'
<1>1. HeldNos(p)' = HeldNos(p)
  <2>1. HeldNos(p)' = {waiting'[s].no : s \in Held(p)}
    BY DEF HeldNos
  <2> QED
    BY <2>1 DEF HeldNos
<1>2. /\ \A s, t \in Held(p) : waiting'[s].no = waiting'[t].no => s = t
      /\ Once(buffer[p]) /\ Once(flushing[p])
      /\ Split(HeldNos(p), Of(buffer[p]), Of(flushing[p]), logs[p], counter[p])
      /\ Cardinality(Held(p)) + Len(buffer[p]) + Len(flushing[p]) + gone[p] + Cardinality(logs[p]) = counter[p]
  BY DEF Apart, Places
<1> QED
  BY <1>1, <1>2, ApartNext

\* How lines move between the places.
LEMMA SplitMoves ==
  ASSUME NEW c \in Nat, NEW h, NEW b, NEW f, NEW l, Split(h, b, f, l, c)
  PROVE  /\ Split(h \cup {c + 1}, b, f, l, c + 1)
         /\ \A b2 : b2 \subseteq b \cup {c + 1} => Split(h, b2, f, l, c + 1)
         /\ \A b2, n : n \in h /\ b2 \subseteq b \cup {n} => Split(h \ {n}, b2, f, l, c)
         /\ f = {} => Split(h, {}, b, l, c)
         /\ Split(h, b, {}, l \cup f, c) /\ Split(h, b, {}, l, c)
         /\ c + 1 \notin h \cup b \cup f \cup l
<1>1. /\ \A x \in 1..c : x \in 1..(c + 1)
      /\ c + 1 \in 1..(c + 1) /\ c + 1 \notin 1..c
  OBVIOUS
<1>2. Split(h \cup {c + 1}, b, f, l, c + 1)
  BY <1>1 DEF Split
<1>3. \A b2 : b2 \subseteq b \cup {c + 1} => Split(h, b2, f, l, c + 1)
  BY <1>1 DEF Split
<1>4. \A b2, n : n \in h /\ b2 \subseteq b \cup {n} => Split(h \ {n}, b2, f, l, c)
  BY DEF Split
<1>5. f = {} => Split(h, {}, b, l, c)
  BY DEF Split
<1>6. Split(h, b, {}, l \cup f, c) /\ Split(h, b, {}, l, c)
  BY DEF Split
<1>7. c + 1 \notin h \cup b \cup f \cup l
  BY <1>1 DEF Split
<1> QED
  BY <1>2, <1>3, <1>4, <1>5, <1>6, <1>7

LEMMA NoLines == Of(<<>>) = {} /\ Once(<<>>) /\ Len(<<>>) = 0
  BY DEF Of, Once

\* A step that moves no line.
LEMMA StayStep ==
  ASSUME TypeOK, Numbered, UNCHANGED <<buffer, flushing, logs, gone>>,
         \A p \in Steps : Held(p)' = Held(p),
         \A p \in Steps : \A s \in Held(p) : waiting'[s].no = waiting[s].no,
         Tracked' \/ at' = "new" =>
           /\ Tracked \/ at = "new"
           /\ current' \in Nat /\ current <= current'
           /\ \A p \in Steps : counter'[p] = counter[p]
  PROVE  Numbered'
<1> SUFFICES ASSUME Tracked' \/ at' = "new", NEW p \in Steps
             PROVE  Apart(p)' /\ (p > current' => counter'[p] = 0)
  BY DEF Numbered
<1>1. Apart(p) /\ (p > current => counter[p] = 0)
  BY DEF Numbered
<1>2. Apart(p)'
  BY <1>1, ApartStays
<1>3. current \in Nat /\ p \in Nat
  BY DEF TypeOK, Steps
<1> QED
  BY <1>1, <1>2, <1>3

\* append_log(): the next number, buffered or held.
LEMMA AppendStep ==
  ASSUME TypeOK, Shape, Room, Numbered, NEW s \in Readers, AppendLog(s)
  PROVE  Numbered'
<1> USE DEF execVars, memVars, writerVars
<1>1. PICK c \in Steps : c = s[1]
  BY DEF Readers
<1>0. at # "new" /\ c <= current /\ current \in Nat
  BY <1>1, ReadingFacts DEF AppendLog
<1> DEFINE n == counter[c] + 1
<1>2. /\ waiting[s] = NoLine /\ counter' = [counter EXCEPT ![c] = n]
      /\ UNCHANGED <<at, current, status, flushing, logs>>
      /\ \/ Buffer(c, n) /\ UNCHANGED waiting
         \/ waiting' = [waiting EXCEPT ![s] = [no |-> n, ready |-> FALSE]] /\ UNCHANGED <<buffer, gone>>
  BY <1>1 DEF AppendLog
<1>3. n \in 1..MaxLines /\ counter[c] \in Nat
  <2>1. printed \in Nat /\ printed < MaxLines /\ counter[c] \in Nat /\ counter[c] <= printed
    BY DEF AppendLog, TypeOK, Room
  <2> QED
    BY <2>1, Constants
<1> HIDE DEF n
<1> SUFFICES ASSUME Tracked, NEW p \in Steps
             PROVE  Apart(p)' /\ (p > current' => counter'[p] = 0)
  BY <1>0, <1>2 DEF Numbered, Tracked
<1>4. Apart(p) /\ Apart(c) /\ (p > current => counter[p] = 0)
  BY DEF Numbered
<1>5. p # c => counter'[p] = counter[p]
  BY <1>2 DEF TypeOK
<1>6. p > current' => counter'[p] = 0
  BY <1>0, <1>2, <1>4, <1>5 DEF Steps
<1>7. counter'[c] = n
  BY <1>2 DEF TypeOK
<1>8. /\ Split(HeldNos(c), Of(buffer[c]), Of(flushing[c]), logs[c], counter[c])
      /\ Once(buffer[c]) /\ Once(flushing[c])
      /\ \A t, u \in Held(c) : waiting[t].no = waiting[u].no => t = u
      /\ Cardinality(Held(c)) + Len(buffer[c]) + Len(flushing[c]) + gone[c] + Cardinality(logs[c]) = counter[c]
  BY <1>4 DEF Apart, Places
<1>9. n \notin HeldNos(c) \cup Of(buffer[c]) \cup Of(flushing[c]) \cup logs[c]
  BY <1>3, <1>8, SplitMoves DEF n
<1>10. /\ Cardinality(Held(c)) \in Nat /\ Len(buffer[c]) \in Nat /\ Len(flushing[c]) \in Nat
       /\ gone[c] \in Nat /\ Cardinality(logs[c]) \in Nat
  BY ApartSum
<1>11. CASE Buffer(c, n) /\ UNCHANGED waiting
  <2>1. \A q \in Steps : Held(q)' = Held(q)
    BY <1>2, <1>11 DEF Held
  <2>2. /\ buffer' = [buffer EXCEPT ![c] = buffer'[c]] /\ gone' = [gone EXCEPT ![c] = gone'[c]]
        /\ buffer'[c] \in Seq(1..MaxLines) /\ gone'[c] \in Nat
        /\ Len(buffer'[c]) + gone'[c] = Len(buffer[c]) + gone[c] + 1
    BY <1>3, <1>11, BufferFacts
  <2>3. Once(buffer'[c]) /\ Of(buffer'[c]) \subseteq Of(buffer[c]) \cup {n}
    BY <1>3, <1>8, <1>9, <1>11, BufferOnce
  <2>4. CASE p = c
    <3>1. Split(HeldNos(c), Of(buffer'[c]), Of(flushing[c]), logs[c], n)
      BY <1>3, <1>8, <2>3, SplitMoves DEF n
    <3>2. HeldNos(c)' = HeldNos(c)
      BY <1>11, <2>1 DEF HeldNos
    <3>3. Cardinality(Held(c)) + Len(buffer'[c]) + Len(flushing[c]) + gone'[c] + Cardinality(logs[c]) = n
      <4>1. PICK h \in Nat, b \in Nat, f \in Nat, g \in Nat, l \in Nat, b2 \in Nat, g2 \in Nat :
              /\ h = Cardinality(Held(c)) /\ b = Len(buffer[c]) /\ f = Len(flushing[c])
              /\ g = gone[c] /\ l = Cardinality(logs[c]) /\ b2 = Len(buffer'[c]) /\ g2 = gone'[c]
        <5>1. Len(buffer'[c]) \in Nat
          BY <2>2
        <5> QED
          BY <1>10, <2>2, <5>1, Zenon
      <4>2. h + b + f + g + l = counter[c] /\ b2 + g2 = b + g + 1
        BY <1>8, <2>2, <4>1, Zenon
      <4>3. h + b2 + f + g2 + l = n
        BY <1>3, <4>2 DEF n
      <4> QED
        BY <4>1, <4>3, Zenon
    <3>4. \A t, u \in Held(c) : waiting'[t].no = waiting'[u].no => t = u
      BY <1>8, <1>11
    <3>5. Apart(c)'
      BY <1>2, <1>7, <1>8, <2>1, <2>3, <3>1, <3>2, <3>3, <3>4, ApartNext
    <3> QED
      BY <1>6, <2>4, <3>5
  <2>5. CASE p # c
    <3>1. buffer'[p] = buffer[p] /\ gone'[p] = gone[p]
      BY <2>2, <2>5 DEF TypeOK
    <3>2. Apart(p)'
      BY <1>2, <1>4, <1>5, <1>11, <2>1, <2>5, <3>1, ApartStays
    <3> QED
      BY <1>6, <3>2
  <2> QED
    BY <2>4, <2>5
<1>12. CASE waiting' = [waiting EXCEPT ![s] = [no |-> n, ready |-> FALSE]] /\ UNCHANGED <<buffer, gone>>
  <2>1. waiting'[s] # NoLine /\ waiting'[s].no = n /\ \A t \in Readers : t # s => waiting'[t] = waiting[t]
    BY <1>3, <1>12 DEF TypeOK, NoLine
  <2>2. Held(c)' = Held(c) \cup {s} /\ s \notin Held(c)
    BY <1>1, <1>2, <2>1 DEF Held
  <2>3. CASE p = c
    <3>1. Cardinality(Held(c) \cup {s}) = Cardinality(Held(c)) + 1
      BY <2>2, HeldFinite, FS_AddElement
    <3>2. \A t \in Held(c) : t \in Readers /\ t # s /\ waiting'[t].no = waiting[t].no /\ waiting[t].no \in HeldNos(c)
      BY <2>1, <2>2 DEF Held, HeldNos
    <3>3. HeldNos(c)' = HeldNos(c) \cup {n}
      <4>1. HeldNos(c)' = {waiting'[t].no : t \in Held(c) \cup {s}}
        BY <2>2 DEF HeldNos
      <4>2. {waiting'[t].no : t \in Held(c) \cup {s}} = {waiting[t].no : t \in Held(c)} \cup {n}
        BY <2>1, <3>2
      <4> QED
        BY <4>1, <4>2 DEF HeldNos
    <3>4. Split(HeldNos(c) \cup {n}, Of(buffer[c]), Of(flushing[c]), logs[c], n)
      BY <1>3, <1>8, SplitMoves DEF n
    <3>5. \A t, u \in Held(c) \cup {s} : waiting'[t].no = waiting'[u].no => t = u
      <4>1. \A t \in Held(c) : waiting'[t].no # n
        BY <1>9, <3>2
      <4>2. \A t, u \in Held(c) : waiting'[t].no = waiting'[u].no => t = u
        BY <1>8, <3>2
      <4> QED
        BY <2>1, <4>1, <4>2, Zenon
    <3>6. Cardinality(Held(c) \cup {s}) + Len(buffer[c]) + Len(flushing[c]) + gone[c] + Cardinality(logs[c]) = n
      <4>1. PICK h \in Nat, b \in Nat, f \in Nat, g \in Nat, l \in Nat :
              /\ h = Cardinality(Held(c)) /\ b = Len(buffer[c]) /\ f = Len(flushing[c])
              /\ g = gone[c] /\ l = Cardinality(logs[c])
        BY <1>10, Zenon
      <4>2. h + b + f + g + l = counter[c] /\ Cardinality(Held(c) \cup {s}) = h + 1
        BY <1>8, <3>1, <4>1, Zenon
      <4>3. (h + 1) + b + f + g + l = n
        BY <1>3, <4>2 DEF n
      <4> QED
        BY <4>1, <4>2, <4>3, Zenon
    <3>7. buffer'[c] = buffer[c] /\ flushing'[c] = flushing[c] /\ logs'[c] = logs[c] /\ gone'[c] = gone[c]
      BY <1>2, <1>12
    <3>8. Apart(c)'
      BY <1>7, <1>8, <2>2, <3>3, <3>4, <3>5, <3>6, <3>7, ApartNext, Zenon
    <3> QED
      BY <1>6, <2>3, <3>8
  <2>4. CASE p # c
    <3>1. Held(p)' = Held(p) /\ \A t \in Held(p) : waiting'[t].no = waiting[t].no
      BY <1>1, <2>1, <2>4 DEF Held
    <3>2. Apart(p)'
      BY <1>2, <1>4, <1>5, <1>12, <2>4, <3>1, ApartStays
    <3> QED
      BY <1>6, <3>2
  <2> QED
    BY <2>3, <2>4
<1> QED
  BY <1>2, <1>11, <1>12

\* join() returned: the held line is buffered.
LEMMA JoinedStep ==
  ASSUME TypeOK, Shape, Numbered, NEW s \in Readers, Joined(s)
  PROVE  Numbered'
<1> USE DEF execVars, memVars, writerVars
<1>1. waiting[s] # NoLine /\ at # "new"
  <2>1. waiting[s] # NoLine
    BY DEF Joined, NoLine
  <2> QED
    BY <2>1 DEF Shape
<1>2. PICK c \in Steps : c = s[1]
  BY DEF Readers
<1> DEFINE n == waiting[s].no
<1>3. /\ Buffer(c, n) /\ waiting' = [waiting EXCEPT ![s] = NoLine]
      /\ UNCHANGED <<at, current, status, counter, flushing, logs>>
  BY <1>2 DEF Joined
<1>4. n \in 1..MaxLines
  <2>1. n > 0 /\ n \in 0..MaxLines
    BY <1>1 DEF Shape, TypeOK
  <2> QED
    BY <2>1, Constants
<1> HIDE DEF n
<1> SUFFICES ASSUME Tracked, NEW p \in Steps
             PROVE  Apart(p)' /\ (p > current' => counter'[p] = 0)
  BY <1>1, <1>3 DEF Numbered, Tracked
<1>5. Apart(p) /\ Apart(c) /\ (p > current' => counter'[p] = 0)
  BY <1>3 DEF Numbered
<1>6. /\ Split(HeldNos(c), Of(buffer[c]), Of(flushing[c]), logs[c], counter[c])
      /\ Once(buffer[c]) /\ Once(flushing[c])
      /\ \A t, u \in Held(c) : waiting[t].no = waiting[u].no => t = u
      /\ Cardinality(Held(c)) + Len(buffer[c]) + Len(flushing[c]) + gone[c] + Cardinality(logs[c]) = counter[c]
  BY <1>5 DEF Apart, Places
<1>7. /\ Cardinality(Held(c)) \in Nat /\ Len(buffer[c]) \in Nat /\ Len(flushing[c]) \in Nat
      /\ gone[c] \in Nat /\ Cardinality(logs[c]) \in Nat /\ counter[c] \in Nat
  BY ApartSum
<1>8. waiting'[s] = NoLine /\ \A t \in Readers : t # s => waiting'[t] = waiting[t]
  BY <1>3 DEF TypeOK
<1>9. Held(c)' = Held(c) \ {s} /\ s \in Held(c)
  BY <1>1, <1>2, <1>3, <1>8 DEF Held
<1>10. /\ buffer' = [buffer EXCEPT ![c] = buffer'[c]] /\ gone' = [gone EXCEPT ![c] = gone'[c]]
       /\ buffer'[c] \in Seq(1..MaxLines) /\ gone'[c] \in Nat
       /\ Len(buffer'[c]) + gone'[c] = Len(buffer[c]) + gone[c] + 1
  BY <1>3, <1>4, BufferFacts
<1>11. CASE p = c
  <2>1. n \in HeldNos(c) /\ n \notin Of(buffer[c])
    <3>1. n \in HeldNos(c)
      BY <1>9 DEF HeldNos, n
    <3> QED
      BY <1>6, <3>1 DEF Split
  <2>2. Once(buffer'[c]) /\ Of(buffer'[c]) \subseteq Of(buffer[c]) \cup {n}
    BY <1>3, <1>4, <1>6, <2>1, BufferOnce
  <2>3. \A t \in Held(c) \ {s} : t \in Readers /\ waiting'[t].no = waiting[t].no /\ waiting[t].no # n
    <3>1. \A t \in Held(c) \ {s} : t \in Readers /\ waiting'[t].no = waiting[t].no
      BY <1>8 DEF Held
    <3>2. \A t \in Held(c) \ {s} : waiting[t].no # n
      BY <1>6, <1>9 DEF n
    <3> QED
      BY <3>1, <3>2
  <2>4. HeldNos(c)' = HeldNos(c) \ {n}
    <3>1. HeldNos(c)' = {waiting'[t].no : t \in Held(c) \ {s}}
      BY <1>9 DEF HeldNos
    <3>2. {waiting'[t].no : t \in Held(c) \ {s}} = {waiting[t].no : t \in Held(c) \ {s}}
      BY <2>3
    <3>3. {waiting[t].no : t \in Held(c) \ {s}} = {waiting[t].no : t \in Held(c)} \ {n}
      BY <2>3 DEF n
    <3> QED
      BY <3>1, <3>2, <3>3 DEF HeldNos
  <2>5. Split(HeldNos(c) \ {n}, Of(buffer'[c]), Of(flushing[c]), logs[c], counter[c])
    BY <1>6, <1>7, <2>1, <2>2, SplitMoves
  <2>6. \A t, u \in Held(c) \ {s} : waiting'[t].no = waiting'[u].no => t = u
    BY <1>6, <2>3
  <2>7. Cardinality(Held(c) \ {s}) = Cardinality(Held(c)) - 1 /\ Cardinality(Held(c) \ {s}) \in Nat
    <3>1. IsFiniteSet(Held(c) \ {s}) /\ Cardinality(Held(c) \ {s}) = Cardinality(Held(c)) - 1
      BY <1>9, HeldFinite, FS_RemoveElement
    <3> QED
      BY <3>1, FS_CardinalityType
  <2>8. Cardinality(Held(c) \ {s}) + Len(buffer'[c]) + Len(flushing[c]) + gone'[c] + Cardinality(logs[c])
          = counter[c]
    <3>1. PICK h \in Nat, b \in Nat, f \in Nat, g \in Nat, l \in Nat, b2 \in Nat, g2 \in Nat, h2 \in Nat :
            /\ h = Cardinality(Held(c)) /\ b = Len(buffer[c]) /\ f = Len(flushing[c])
            /\ g = gone[c] /\ l = Cardinality(logs[c]) /\ b2 = Len(buffer'[c]) /\ g2 = gone'[c]
            /\ h2 = Cardinality(Held(c) \ {s})
      <4>1. Len(buffer'[c]) \in Nat
        BY <1>10
      <4> QED
        BY <1>7, <1>10, <2>7, <4>1, Zenon
    <3>2. h + b + f + g + l = counter[c] /\ b2 + g2 = b + g + 1 /\ h2 = h - 1
      BY <1>6, <1>10, <2>7, <3>1, Zenon
    <3>3. h2 + b2 + f + g2 + l = counter[c]
      BY <1>7, <3>2
    <3> QED
      BY <3>1, <3>3, Zenon
  <2>9. flushing'[c] = flushing[c] /\ logs'[c] = logs[c] /\ counter'[c] = counter[c]
    BY <1>3
  <2>10. Apart(c)'
    BY <1>6, <1>9, <2>2, <2>4, <2>5, <2>6, <2>8, <2>9, ApartNext, Zenon
  <2> QED
    BY <1>5, <1>11, <2>10
<1>12. CASE p # c
  <2>1. buffer'[p] = buffer[p] /\ gone'[p] = gone[p]
    BY <1>10, <1>12 DEF TypeOK
  <2>2. Held(p)' = Held(p) /\ \A t \in Held(p) : waiting'[t].no = waiting[t].no
    BY <1>2, <1>8, <1>12 DEF Held
  <2>3. Apart(p)'
    BY <1>3, <1>5, <2>1, <2>2, ApartStays
  <2> QED
    BY <1>5, <2>3
<1> QED
  BY <1>11, <1>12

\* _drain_once() moves whole batches.
LEMMA DrainStep ==
  ASSUME TypeOK, Numbered, NEW B \in SUBSET Steps, Drain(B)
  PROVE  Numbered'
<1> USE DEF execVars, memVars, writerVars, lineVars
<1>1. /\ \A p \in Steps : flushing[p] = <<>>
      /\ flushing' = [p \in Steps |-> IF p \in B THEN buffer[p] ELSE <<>>]
      /\ buffer' = [p \in Steps |-> IF p \in B THEN <<>> ELSE buffer[p]]
      /\ UNCHANGED <<at, current, status, counter, waiting, logs, gone>>
  BY DEF Drain
<1> SUFFICES ASSUME Tracked \/ at = "new", NEW p \in Steps
             PROVE  Apart(p)' /\ (p > current' => counter'[p] = 0)
  BY <1>1 DEF Numbered, Tracked
<1>2. Apart(p) /\ (p > current' => counter'[p] = 0)
  BY <1>1 DEF Numbered
<1>3. Held(p)' = Held(p) /\ HeldNos(p)' = HeldNos(p)
  BY <1>1 DEF Held, HeldNos
<1>4. CASE p \notin B
  <2>1. buffer'[p] = buffer[p] /\ flushing'[p] = flushing[p]
    BY <1>1, <1>4
  <2> QED
    BY <1>1, <1>2, <1>3, <2>1, ApartStays
<1>5. CASE p \in B
  <2>1. buffer'[p] = <<>> /\ flushing'[p] = buffer[p] /\ flushing[p] = <<>>
    BY <1>1, <1>5
  <2>2. /\ Split(HeldNos(p), Of(buffer[p]), {}, logs[p], counter[p])
        /\ Once(buffer[p]) /\ \A t, u \in Held(p) : waiting'[t].no = waiting'[u].no => t = u
        /\ Cardinality(Held(p)) + Len(buffer[p]) + 0 + gone[p] + Cardinality(logs[p]) = counter[p]
    BY <1>1, <1>2, <2>1, NoLines DEF Apart, Places
  <2>3. Split(HeldNos(p), Of(<<>>), Of(buffer[p]), logs[p], counter[p])
    <3>1. Split(HeldNos(p), {}, Of(buffer[p]), logs[p], counter[p])
      BY <2>2, SplitMoves, ApartSum
    <3> QED
      BY <3>1, NoLines, Zenon
  <2>4. Cardinality(Held(p)) + Len(<<>>) + Len(buffer[p]) + gone[p] + Cardinality(logs[p]) = counter[p]
    <3>1. PICK h \in Nat, b \in Nat, g \in Nat, l \in Nat :
            /\ h = Cardinality(Held(p)) /\ b = Len(buffer[p]) /\ g = gone[p] /\ l = Cardinality(logs[p])
      BY ApartSum, Zenon
    <3>2. h + b + 0 + g + l = counter[p]
      BY <2>2, <3>1, Zenon
    <3>3. h + 0 + b + g + l = counter[p]
      BY <3>2, ApartSum
    <3> QED
      BY <3>1, <3>3, NoLines, Zenon
  <2>5. logs'[p] = logs[p] /\ counter'[p] = counter[p] /\ gone'[p] = gone[p]
    BY <1>1
  <2>6. Apart(p)'
    BY <1>3, <2>1, <2>2, <2>3, <2>4, <2>5, NoLines, ApartNext, Zenon
  <2> QED
    BY <1>2, <2>6
<1> QED
  BY <1>4, <1>5

\* A batch is stored, or lost.
LEMMA FlushStep ==
  ASSUME TypeOK, Numbered, NEW p \in Steps, Flush(p) \/ FlushFails(p)
  PROVE  Numbered'
<1> USE DEF execVars, memVars, writerVars, lineVars
<1>1. /\ flushing' = [flushing EXCEPT ![p] = <<>>]
      /\ UNCHANGED <<at, current, status, counter, waiting, buffer>>
      /\ \/ /\ logs' = [logs EXCEPT ![p] = @ \cup {flushing[p][i] : i \in DOMAIN flushing[p]}]
            /\ gone' = gone
         \/ logs' = logs /\ gone' = [gone EXCEPT ![p] = @ + Len(flushing[p])]
  BY DEF Flush, FlushFails
<1> SUFFICES ASSUME Tracked \/ at = "new", NEW q \in Steps
             PROVE  Apart(q)' /\ (q > current' => counter'[q] = 0)
  BY <1>1 DEF Numbered, Tracked
<1>2. Apart(q) /\ Apart(p) /\ (q > current' => counter'[q] = 0)
  BY <1>1 DEF Numbered
<1>3. \A r \in Steps : Held(r)' = Held(r) /\ HeldNos(r)' = HeldNos(r)
  BY <1>1 DEF Held, HeldNos
<1>4. CASE q # p
  <2>1. flushing'[q] = flushing[q] /\ logs'[q] = logs[q] /\ gone'[q] = gone[q]
    BY <1>1, <1>4 DEF TypeOK
  <2> QED
    BY <1>1, <1>2, <1>3, <2>1, ApartStays
<1>5. CASE q = p
  <2>1. flushing'[p] = <<>> /\ buffer'[p] = buffer[p] /\ counter'[p] = counter[p]
    BY <1>1 DEF TypeOK
  <2>2. /\ Split(HeldNos(p), Of(buffer[p]), Of(flushing[p]), logs[p], counter[p])
        /\ Once(buffer[p]) /\ Once(flushing[p])
        /\ \A t, u \in Held(p) : waiting'[t].no = waiting'[u].no => t = u
        /\ Cardinality(Held(p)) + Len(buffer[p]) + Len(flushing[p]) + gone[p] + Cardinality(logs[p]) = counter[p]
    BY <1>1, <1>2 DEF Apart, Places
  <2>3. /\ Cardinality(Held(p)) \in Nat /\ Len(buffer[p]) \in Nat /\ Len(flushing[p]) \in Nat
        /\ gone[p] \in Nat /\ IsFiniteSet(logs[p]) /\ Cardinality(logs[p]) \in Nat /\ counter[p] \in Nat
    BY ApartSum
  <2>4. CASE logs' = [logs EXCEPT ![p] = @ \cup {flushing[p][i] : i \in DOMAIN flushing[p]}] /\ gone' = gone
    <3>1. /\ IsFiniteSet(Of(flushing[p])) /\ Cardinality(Of(flushing[p])) = Len(flushing[p])
          /\ {flushing[p][i] : i \in DOMAIN flushing[p]} = Of(flushing[p])
      BY <2>2, OnceCount DEF TypeOK
    <3>2. logs'[p] = logs[p] \cup Of(flushing[p]) /\ gone'[p] = gone[p]
      BY <2>4, <3>1 DEF TypeOK
    <3>3. Cardinality(logs[p] \cup Of(flushing[p])) = Cardinality(logs[p]) + Len(flushing[p])
      <4>1. logs[p] \cap Of(flushing[p]) = {}
        BY <2>2 DEF Split
      <4> QED
        BY <2>3, <3>1, <4>1, DisjointUnion
    <3>4. Split(HeldNos(p), Of(buffer[p]), Of(<<>>), logs[p] \cup Of(flushing[p]), counter[p])
      <4>1. Split(HeldNos(p), Of(buffer[p]), {}, logs[p] \cup Of(flushing[p]), counter[p])
        BY <2>2, <2>3, SplitMoves
      <4> QED
        BY <4>1, NoLines, Zenon
    <3>5. Cardinality(Held(p)) + Len(buffer[p]) + Len(<<>>) + gone[p] + Cardinality(logs[p] \cup Of(flushing[p]))
            = counter[p]
      <4>1. PICK h \in Nat, b \in Nat, f \in Nat, g \in Nat, l \in Nat :
              /\ h = Cardinality(Held(p)) /\ b = Len(buffer[p]) /\ f = Len(flushing[p])
              /\ g = gone[p] /\ l = Cardinality(logs[p])
        BY <2>3, Zenon
      <4>2. h + b + f + g + l = counter[p] /\ Cardinality(logs[p] \cup Of(flushing[p])) = l + f
        BY <2>2, <3>3, <4>1, Zenon
      <4>3. h + b + 0 + g + (l + f) = counter[p]
        BY <2>3, <4>2
      <4> QED
        BY <4>1, <4>2, <4>3, NoLines, Zenon
    <3>6. Apart(p)'
      BY <1>3, <2>1, <2>2, <3>2, <3>4, <3>5, NoLines, ApartNext, Zenon
    <3> QED
      BY <1>2, <1>5, <3>6
  <2>5. CASE logs' = logs /\ gone' = [gone EXCEPT ![p] = @ + Len(flushing[p])]
    <3>1. logs'[p] = logs[p] /\ gone'[p] = gone[p] + Len(flushing[p])
      BY <2>5 DEF TypeOK
    <3>2. Split(HeldNos(p), Of(buffer[p]), Of(<<>>), logs[p], counter[p])
      <4>1. Split(HeldNos(p), Of(buffer[p]), {}, logs[p], counter[p])
        BY <2>2, <2>3, SplitMoves
      <4> QED
        BY <4>1, NoLines, Zenon
    <3>3. Cardinality(Held(p)) + Len(buffer[p]) + Len(<<>>) + (gone[p] + Len(flushing[p])) + Cardinality(logs[p])
            = counter[p]
      <4>1. PICK h \in Nat, b \in Nat, f \in Nat, g \in Nat, l \in Nat :
              /\ h = Cardinality(Held(p)) /\ b = Len(buffer[p]) /\ f = Len(flushing[p])
              /\ g = gone[p] /\ l = Cardinality(logs[p])
        BY <2>3, Zenon
      <4>2. h + b + f + g + l = counter[p]
        BY <2>2, <4>1, Zenon
      <4>3. h + b + 0 + (g + f) + l = counter[p]
        BY <2>3, <4>2
      <4> QED
        BY <4>1, <4>3, NoLines, Zenon
    <3>4. Apart(p)'
      BY <1>3, <2>1, <2>2, <3>1, <3>2, <3>3, NoLines, ApartNext, Zenon
    <3> QED
      BY <1>2, <1>5, <3>4
  <2> QED
    BY <1>1, <2>4, <2>5
<1> QED
  BY <1>4, <1>5

\* Steps of the tracker, the executor and the writer move no line; only the
\* tracker's cleanup forgets how many there were.
LEMMA TrackerStep ==
  ASSUME TypeOK, Shape, Room, Unknown, Numbered,
         \/ \E n \in Steps : StartPlan(n) \/ StartUnknownAgent(n)
         \/ StartEmpty \/ Executor \/ GatherRaises \/ Cancel \/ CleanupHistory \/ OtherJobWrites
         \/ Worker \/ \E r \in Readers : LineTooLong(r)
  PROVE  Numbered'
<1> USE DEF execVars, memVars, writerVars, lineVars, bufferVars
<1> DEFINE Lines == /\ UNCHANGED <<buffer, flushing, logs, gone>>
                    /\ \A p \in Steps : Held(p)' = Held(p)
                    /\ \A p \in Steps : \A s \in Held(p) : waiting'[s].no = waiting[s].no
           Known == /\ Tracked \/ at = "new"
                    /\ current' \in Nat /\ current <= current'
                    /\ \A p \in Steps : counter'[p] = counter[p]
<1>0. current \in Nat
  BY DEF TypeOK
<1>1. ASSUME NEW n \in Steps, StartPlan(n) PROVE Numbered'
  <2>1. /\ at = "new" /\ current = 0 /\ current' = 1 /\ waiting' = waiting
        /\ UNCHANGED <<buffer, flushing, logs, gone>> /\ counter' = [counter EXCEPT ![1] = 0]
    BY <1>1 DEF StartPlan, Shape
  <2>3. Lines
    BY <2>1 DEF Held
  <2>4. 1 \in Steps /\ counter[1] = 0
    <3>1. 1 \in Steps /\ 1 > 0
      BY Constants DEF Steps
    <3> QED
      BY <2>1, <3>1 DEF Numbered
  <2>5. \A p \in Steps : counter'[p] = counter[p]
    BY <2>1, <2>4 DEF TypeOK
  <2>6. Known
    BY <2>1, <2>5
  <2> QED
    BY <2>3, <2>6, StayStep
<1>2. ASSUME \/ \E n \in Steps : StartUnknownAgent(n)
             \/ StartEmpty \/ Cancel \/ RunPhase \/ OtherJobWrites \/ Get
             \/ \E r \in Readers : LineTooLong(r)
      PROVE  Numbered'
  <2>1. UNCHANGED <<buffer, flushing, logs, gone, waiting, counter, current>>
    BY <1>2 DEF StartUnknownAgent, StartEmpty, Cancel, RunPhase, OtherJobWrites, Get,
                LineTooLong
  <2>2. Lines
    BY <2>1 DEF Held
  <2>3. Tracked' \/ at' = "new" => Tracked \/ at = "new"
    BY <1>2 DEF StartUnknownAgent, StartEmpty, Cancel, RunPhase, OtherJobWrites, Get,
                LineTooLong, Tracked
  <2> QED
    BY <1>0, <2>1, <2>2, <2>3, StayStep
<1>3. CASE Write \/ WriteFails
  <2>1. TaskDone /\ UNCHANGED <<at, current, good, status, counter, dead, printed, buffer, flushing, logs, gone>>
    BY <1>3 DEF Write, WriteFails
  <2>2. \A s \in Readers : waiting'[s].no = waiting[s].no /\ ((waiting'[s] = NoLine) <=> (waiting[s] = NoLine))
    BY <2>1, TaskDoneTypes
  <2>3. Lines
    BY <2>1, <2>2 DEF Held
  <2>4. Tracked' = Tracked
    BY <2>1 DEF Tracked
  <2> QED
    BY <1>0, <2>1, <2>3, <2>4, StayStep
<1>4. CASE CleanupHistory
  <2>1. status \in Terminal /\ status' = "none" /\ at' = at
    BY <1>4 DEF CleanupHistory
  <2>2. at # "new"
    BY <2>1 DEF Unknown, Terminal
  <2> QED
    BY <2>1, <2>2 DEF Numbered, Tracked
<1>5. ASSUME NEW success \in BOOLEAN, NextPhase(success) \/ LastPhase(success),
             at \in {"setup", "streaming"}
      PROVE  Numbered'
  <2>1. UNCHANGED <<buffer, flushing, logs, gone, waiting>> /\ at' # "new" /\ current \in Steps
    BY <1>5 DEF NextPhase, LastPhase, CompleteJob, Shape
  <2>2. Lines
    BY <1>5, <2>1 DEF Held
  <2>3. Tracked' => Tracked
    BY <1>5 DEF NextPhase, LastPhase, Tracked
  <2>4. ASSUME Tracked PROVE current' \in Nat /\ current <= current' /\ \A p \in Steps : counter'[p] = counter[p]
    <3>1. CASE LastPhase(success)
      BY <1>0, <3>1 DEF LastPhase
    <3>2. CASE NextPhase(success)
      <4>1. current' = current + 1 /\ counter' = [counter EXCEPT ![current + 1] = 0]
        BY <2>4, <3>2 DEF NextPhase
      <4>2. current + 1 \in Steps /\ current + 1 > current
        BY <1>0, <2>1, <3>2, PlanFits, Constants DEF NextPhase, Steps
      <4>3. counter[current + 1] = 0
        BY <2>4, <4>2 DEF Numbered
      <4>4. \A p \in Steps : counter'[p] = counter[p]
        BY <4>1, <4>2, <4>3 DEF TypeOK
      <4> QED
        BY <1>0, <4>1, <4>4
    <3> QED
      BY <1>5, <3>1, <3>2
  <2> QED
    BY <2>1, <2>2, <2>3, <2>4, StayStep
<1>6. CASE PhaseRaises \/ GatherRaises
  <2>1. at \in {"setup", "streaming"} /\ (NextPhase(FALSE) \/ LastPhase(FALSE)) /\ FALSE \in BOOLEAN
    BY <1>6 DEF PhaseRaises, GatherRaises
  <2> QED
    BY <1>5, <2>1
<1>7. ASSUME NEW success \in BOOLEAN, EndPhase(success) PROVE Numbered'
  BY <1>5, <1>7 DEF EndPhase
<1> QED
  BY <1>1, <1>2, <1>3, <1>4, <1>6, <1>7 DEF Executor, Worker

LEMMA NumberedStep ==
  ASSUME TypeOK, Shape, Room, Unknown, Numbered, [Next]_vars
  PROVE  Numbered'
<1>1. CASE UNCHANGED vars
  <2>1. /\ UNCHANGED <<at, current, status, counter, waiting, buffer, flushing, logs, gone>>
    BY <1>1 DEF vars, execVars, memVars, lineVars, bufferVars
  <2>2. \A p \in Steps : Held(p)' = Held(p)
    BY <2>1 DEF Held
  <2>3. current \in Nat /\ Tracked' = Tracked
    BY <2>1 DEF TypeOK, Tracked
  <2> QED
    BY <2>1, <2>2, <2>3, StayStep
<1>2. CASE Next
  BY <1>2, AppendStep, JoinedStep, DrainStep, FlushStep, TrackerStep DEF Next
<1> QED
  BY <1>1, <1>2

LEMMA InitNumbered == Init => Numbered
<1> SUFFICES ASSUME Init, NEW p \in Steps PROVE Apart(p) /\ counter[p] = 0
  BY DEF Numbered
<1>1. /\ buffer[p] = <<>> /\ flushing[p] = <<>> /\ logs[p] = {} /\ gone[p] = 0 /\ counter[p] = 0
      /\ \A s \in Readers : waiting[s] = NoLine
  BY DEF Init
<1>2. Held(p) = {} /\ Cardinality(Held(p)) = 0 /\ Cardinality({}) = 0
  BY <1>1, HeldNone, FS_EmptySet
<1>3. HeldNos(p) = {}
  BY <1>2 DEF HeldNos
<1>4. Split(HeldNos(p), Of(buffer[p]), Of(flushing[p]), logs[p], counter[p])
  BY <1>1, <1>3, NoLines DEF Split
<1>5. Places(p) + Cardinality(logs[p]) = counter[p]
  BY <1>1, <1>2, NoLines DEF Places
<1> QED
  BY <1>1, <1>2, <1>4, <1>5, NoLines DEF Apart

\* While the tracker knows the job, every line that a phase printed has a
\* number of its own and is at exactly one place, or was lost to the cap of
\* LogBuffer or to a failed flush and counted there.
THEOREM LinesCounted == Spec => []EveryLineOnce
<1>1. TypeOK /\ Shape /\ Room /\ Unknown /\ Numbered /\ [Next]_vars => Numbered'
  BY NumberedStep
<1>2. TypeOK /\ Numbered => EveryLineOnce
  BY NumberedCounts
<1> QED
  BY <1>1, <1>2, InitNumbered, TypesHold, OrderHolds, PTL DEF Spec

==============================================================================
