----------------------------- MODULE CodingJobs -----------------------------
(***************************************************************************)
(* coding/: one long-running coding job, in a process that runs others.    *)
(*                                                                         *)
(* The executor (job_executor.py) runs the phases of a plan and reports to *)
(* the JobTracker, which keeps the jobs in memory, queues every change for *)
(* the database in JobDbWriter (one FIFO queue with one worker, bounded,   *)
(* best effort), and numbers the lines that a phase prints in JobLogStream *)
(* before LogBuffer flushes them in batches.                               *)
(*                                                                         *)
(* All of it runs on one event loop: what the code does between two awaits *)
(* is one action.  The phases of a plan are numbered 1, 2, ...  The other  *)
(* jobs of the process use the same writer and the same history.           *)
(***************************************************************************)
EXTENDS Integers, Sequences, FiniteSets

CONSTANTS
  Streams,        \* the streams of a phase's process (stdout, stderr)
  MaxPhases,      \* bound: phases of a plan
  MaxLines,       \* bound: lines the job prints
  QueueMax,       \* JobDbWriter._max_queue_size
  SizeThreshold,  \* LogBuffer._size_threshold
  Cap,            \* LogBuffer._per_phase_cap
  MaxEvents       \* bound: requests to cancel, writes of the other jobs, lines
                  \* that are too long and statements that fail, together

ASSUME CodingAssumption ==
  /\ IsFiniteSet(Streams) /\ MaxPhases \in Nat /\ MaxLines \in Nat
  /\ QueueMax \in Nat \ {0} /\ SizeThreshold \in Nat \ {0} /\ Cap \in Nat \ {0}
  /\ MaxEvents \in Nat

VARIABLES
  at,             \* the executor: new, setup, streaming, done
  current,        \* the phase it is at
  good,           \* did every phase so far succeed?
  status,         \* JobInfo.status; "none" when the job is not in _jobs
  phases,         \* PhaseInfo.status of its phases; "none" beyond the plan
  queue,          \* JobDbWriter: the coroutines waiting for the worker
  inflight,       \* the one it awaits, or NoWrite
  row,            \* coding_jobs.status; "none" without a row
  phaseRow,       \* coding_phases.status
  dropped,        \* was a write of the job lost (queue full, statement failed)?
  counter,        \* JobLogStream._line_counters, per phase
  waiting,        \* per reader, the line whose append() awaits join()
  dead,           \* readers that raised: nobody drains their pipe any more
  buffer,         \* LogBuffer._buffers, per phase
  force,          \* LogBuffer._force_keys
  flushing,       \* batches handed to flush_fn
  logs,           \* coding_phase_logs: the line numbers of a phase
  gone,           \* lines lost to the cap or to a failed flush
  printed,        \* lines printed so far, up to MaxLines
  events          \* what is left of MaxEvents

execVars   == <<at, current, good>>
memVars    == <<status, phases>>
writerVars == <<queue, inflight, row, phaseRow, dropped>>
lineVars   == <<counter, waiting, dead, printed>>
bufferVars == <<buffer, flushing, logs, gone>>
vars == <<execVars, memVars, writerVars, lineVars, bufferVars, force, events>>

Steps == 1..MaxPhases
Active == {"pending", "decomposing", "running"}
Terminal == {"completed", "failed", "cancelled"}
PhaseStatuses == {"pending", "running", "completed", "failed"}

NoWrite == [op |-> "none"]
OtherWrite == [op |-> "other"]
Writes ==
  [op : {"insert_job", "update_job"}, to : Active \cup Terminal]
    \cup [op : {"insert_phases"}, n : Steps]
    \cup [op : {"update_phase"}, step : Steps, to : PhaseStatuses]
    \cup {OtherWrite}

\* The tasks that read a stream of a phase's process: a task may outlive its
\* phase.
Readers == Steps \X Streams
NoLine == [no |-> 0, ready |-> FALSE]

Init ==
  /\ at = "new" /\ current = 0 /\ good = TRUE
  /\ status = "none"
  /\ phases = [p \in Steps |-> "none"]
  /\ queue = <<>> /\ inflight = NoWrite
  /\ row = "none"
  /\ phaseRow = [p \in Steps |-> "none"]
  /\ dropped = FALSE
  /\ counter = [p \in Steps |-> 0]
  /\ waiting = [r \in Readers |-> NoLine] /\ dead = {}
  /\ buffer = [p \in Steps |-> <<>>]
  /\ force = {}
  /\ flushing = [p \in Steps |-> <<>>]
  /\ logs = [p \in Steps |-> {}]
  /\ gone = [p \in Steps |-> 0]
  /\ printed = 0
  /\ events = MaxEvents

-----------------------------------------------------------------------------
(* JobDbWriter: what the tracker's operations put on the queue *)

InsertJob          == [op |-> "insert_job", to |-> "pending"]
UpdateJob(to)      == [op |-> "update_job", to |-> to]
InsertPhases(n)    == [op |-> "insert_phases", n |-> n]
UpdatePhase(p, to) == [op |-> "update_phase", step |-> p, to |-> to]

\* Faulty: the queue has no limit.
ScheduleUnbounded(ws) ==
  queue' = queue \o ws /\ UNCHANGED dropped

\* schedule(), for the writes of one synchronous stretch of code: the worker
\* cannot run in between, so once the queue is full the rest is dropped.
Schedule(ws) ==
  LET room == QueueMax - Len(queue)
  IN  /\ queue' = queue \o SubSeq(ws, 1, IF Len(ws) <= room THEN Len(ws) ELSE room)
      /\ dropped' = (dropped \/ Len(ws) > room)

\* Another job of the process writes.
OtherJobWrites ==
  /\ events > 0 /\ events' = events - 1
  /\ queue' = IF Len(queue) < QueueMax THEN Append(queue, OtherWrite) ELSE queue
  /\ UNCHANGED <<execVars, memVars, inflight, row, phaseRow, dropped, lineVars,
                 bufferVars, force>>

\* No unfinished write: join() returns at once.
Quiet == queue = <<>> /\ inflight = NoWrite

\* q.get() of the worker: it does not wait while there is something to get.
NextWrite ==
  /\ inflight' = IF queue = <<>> THEN NoWrite ELSE Head(queue)
  /\ queue' = IF queue = <<>> THEN <<>> ELSE Tail(queue)

\* The idle worker wakes up.
Get ==
  /\ inflight = NoWrite /\ queue # <<>>
  /\ NextWrite
  /\ UNCHANGED <<execVars, memVars, row, phaseRow, dropped, lineVars,
                 bufferVars, force, events>>

\* task_done() of the last unfinished write wakes every join(); a woken
\* append() does not look at the queue again.  The worker goes on at once.
TaskDone ==
  /\ NextWrite
  /\ waiting' = IF queue # <<>> THEN waiting
                ELSE [r \in Readers |-> [no |-> waiting[r].no, ready |-> waiting[r].no > 0]]

\* Does the statement satisfy the foreign key of coding_phases?
Referenced(w) == w.op = "insert_phases" => row # "none"

\* Faulty: a job that is no longer active keeps its status.
UpdateJobRowIfActive(w) ==
  IF \/ row = "none" /\ w.op = "insert_job"
     \/ row \in Active /\ w.op = "update_job"
  THEN w.to ELSE row

\* INSERT ... ON CONFLICT DO NOTHING, and UPDATE ... WHERE id = ..., which
\* touches nothing when there is no row.
UpdateJobRow(w) ==
  IF \/ row = "none" /\ w.op = "insert_job"
     \/ row # "none" /\ w.op = "update_job"
  THEN w.to ELSE row

UpdatePhaseRows(w) ==
  [p \in Steps |->
     CASE w.op = "insert_phases" /\ p <= w.n /\ phaseRow[p] = "none" -> "pending"
       [] w.op = "update_phase" /\ p = w.step /\ phaseRow[p] # "none" -> w.to
       [] OTHER -> phaseRow[p]]

Write ==
  /\ inflight # NoWrite /\ Referenced(inflight)
  /\ TaskDone
  /\ row' = UpdateJobRow(inflight)
  /\ phaseRow' = UpdatePhaseRows(inflight)
  /\ UNCHANGED <<execVars, memVars, dropped, counter, dead, printed, bufferVars,
                 force, events>>

\* Faulty: task_done() is not called for a statement that failed.
WriteFailsSilently ==
  /\ inflight # NoWrite
  /\ \/ ~Referenced(inflight) /\ UNCHANGED events
     \/ events > 0 /\ events' = events - 1
  /\ NextWrite
  /\ dropped' = (dropped \/ inflight # OtherWrite)
  /\ UNCHANGED <<execVars, memVars, row, phaseRow, lineVars, bufferVars, force>>

\* The statement raises: counted, logged and forgotten.
WriteFails ==
  /\ inflight # NoWrite
  /\ \/ ~Referenced(inflight) /\ UNCHANGED events
     \/ events > 0 /\ events' = events - 1
  /\ TaskDone
  /\ dropped' = (dropped \/ inflight # OtherWrite)
  /\ UNCHANGED <<execVars, memVars, row, phaseRow, counter, dead, printed,
                 bufferVars, force>>

-----------------------------------------------------------------------------
(* JobTracker and the executor: one action per stretch between two awaits.  *)
(* An operation on a job that is no longer in _jobs does nothing.           *)

Tracked == status # "none"

\* complete_job(), after the writes ws of the same stretch.  The newest job of
\* the history is never one of those that _cleanup_history() removes.
CompleteJob(success, ws) ==
  LET to == IF success THEN "completed" ELSE "failed"
  IN  /\ status' = to
      /\ Schedule(Append(ws, UpdateJob(to)))
      /\ at' = "done"

\* execute_plan() up to its first await, for a plan of n phases: create_job,
\* set_decomposing, set_phases and start_phase of the first phase.
StartPlan(n) ==
  /\ at = "new"
  /\ at' = "setup"
  /\ current' = 1
  /\ status' = "running"
  /\ phases' = [p \in Steps |-> IF p = 1 THEN "running"
                                ELSE IF p <= n THEN "pending" ELSE "none"]
  /\ counter' = [counter EXCEPT ![1] = 0]
  /\ Schedule(<<InsertJob, UpdateJob("decomposing"), InsertPhases(n),
                UpdateJob("running"), UpdatePhase(1, "running")>>)
  /\ UNCHANGED <<good, inflight, row, phaseRow, waiting, dead, printed, bufferVars,
                 force, events>>

\* A plan without phases: the job is created and fails at once.
StartEmpty ==
  /\ at = "new"
  /\ CompleteJob(FALSE, <<InsertJob>>)
  /\ UNCHANGED <<current, good, phases, inflight, row, phaseRow, lineVars,
                 bufferVars, force, events>>

\* get_adapter() raises: execute_plan() returns and leaves the job running.
StartUnknownAgent(n) ==
  /\ at = "new"
  /\ at' = "done"
  /\ status' = "running"
  /\ phases' = [p \in Steps |-> IF p <= n THEN "pending" ELSE "none"]
  /\ Schedule(<<InsertJob, UpdateJob("decomposing"), InsertPhases(n),
                UpdateJob("running")>>)
  /\ UNCHANGED <<current, good, inflight, row, phaseRow, lineVars, bufferVars,
                 force, events>>

\* The supervisor is set up (or not) and the process of the phase started.
RunPhase ==
  /\ at = "setup"
  /\ at' = "streaming"
  /\ UNCHANGED <<current, good, memVars, writerVars, lineVars, bufferVars,
                 force, events>>

PlanLength == Cardinality({p \in Steps : phases[p] # "none"})

\* Faulty: the next phase is reported with a status of the job.
NextPhaseReopens(success) ==
  LET to == IF success THEN "completed" ELSE "failed"
  IN  /\ current < PlanLength
      /\ at' = "setup"
      /\ current' = current + 1
      /\ good' = (good /\ success)
      /\ IF Tracked
         THEN /\ phases' = [phases EXCEPT ![current] = to, ![current + 1] = "running"]
              /\ counter' = [counter EXCEPT ![current + 1] = 0]
              /\ force' = force \cup {current}
              /\ Schedule(<<UpdatePhase(current, to), UpdateJob("running"),
                            UpdatePhase(current + 1, "running")>>)
         ELSE UNCHANGED <<phases, counter, force, queue, dropped>>
      /\ UNCHANGED <<status, inflight, row, phaseRow, waiting, dead, printed, bufferVars,
                     events>>

\* complete_phase(), then start_phase() of the next phase.
NextPhase(success) ==
  LET to == IF success THEN "completed" ELSE "failed"
  IN  /\ current < PlanLength
      /\ at' = "setup"
      /\ current' = current + 1
      /\ good' = (good /\ success)
      /\ IF Tracked
         THEN /\ phases' = [phases EXCEPT ![current] = to, ![current + 1] = "running"]
              /\ counter' = [counter EXCEPT ![current + 1] = 0]
              /\ force' = force \cup {current}
              /\ Schedule(<<UpdatePhase(current, to), UpdatePhase(current + 1, "running")>>)
         ELSE UNCHANGED <<phases, counter, force, queue, dropped>>
      /\ UNCHANGED <<status, inflight, row, phaseRow, waiting, dead, printed, bufferVars,
                     events>>

\* complete_phase() of the last phase, then complete_job().
LastPhase(success) ==
  LET to == IF success THEN "completed" ELSE "failed"
  IN  /\ current = PlanLength
      /\ good' = (good /\ success)
      /\ IF Tracked
         THEN /\ phases' = [phases EXCEPT ![current] = to]
              /\ force' = force \cup {current}
              /\ CompleteJob(good /\ success, <<UpdatePhase(current, to)>>)
         ELSE /\ at' = "done"
              /\ UNCHANGED <<phases, force, status, queue, dropped>>
      /\ UNCHANGED <<current, inflight, row, phaseRow, lineVars, bufferVars, events>>

DeadOf(p) == {r \in dead : r[1] = p}

\* The process has exited and both streams were read to their end.
EndPhase(success) ==
  /\ at = "streaming"
  /\ DeadOf(current) = {}
  /\ \A s \in Streams : waiting[<<current, s>>] = NoLine
  /\ NextPhase(success) \/ LastPhase(success)

\* The process has exited and gather() raises what a reader raised.  It does
\* not wait for the other reader, which goes on.
GatherRaises ==
  /\ at = "streaming"
  /\ DeadOf(current) # {}
  /\ NextPhase(FALSE) \/ LastPhase(FALSE)

\* The process could not be started.
PhaseRaises ==
  /\ at = "setup"
  /\ NextPhase(FALSE) \/ LastPhase(FALSE)

\* cancel_job(), from the web API: the executor is not told.
Cancel ==
  /\ events > 0
  /\ status \notin {"none", "completed", "failed"}
  /\ events' = events - 1
  /\ status' = "cancelled"
  /\ Schedule(<<UpdateJob("cancelled")>>)
  /\ UNCHANGED <<execVars, phases, inflight, row, phaseRow, lineVars, bufferVars,
                 force>>

\* _cleanup_history(), once _max_history other jobs have finished after this
\* one: it leaves _jobs and loses its line counters, whether its executor is
\* still running (after a cancel_job) or not.
CleanupHistory ==
  /\ status \in Terminal
  /\ status' = "none"
  /\ counter' = [p \in Steps |-> 0]
  /\ UNCHANGED <<execVars, phases, writerVars, waiting, dead, printed, bufferVars,
                 force, events>>

-----------------------------------------------------------------------------
(* JobLogStream and LogBuffer *)

\* LogBuffer.append(): beyond the cap the first lines of the batch are lost.
Buffer(p, n) ==
  LET b == Append(buffer[p], n)
      excess == IF Len(b) > Cap THEN Len(b) - Cap ELSE 0
  IN  /\ buffer' = [buffer EXCEPT ![p] = SubSeq(b, excess + 1, Len(b))]
      /\ gone' = [gone EXCEPT ![p] = @ + excess]

\* The task reads: its phase goes on, or was given up with the task still there.
Reading(r) ==
  /\ r \notin dead
  /\ (at = "streaming" /\ current = r[1]) \/ DeadOf(r[1]) # {}

\* Faulty: the line is buffered without waiting for the writer.
AppendLogNoJoin(r) ==
  LET n == counter[r[1]] + 1
  IN  /\ Reading(r) /\ waiting[r] = NoLine /\ printed < MaxLines
      /\ printed' = printed + 1
      /\ counter' = [counter EXCEPT ![r[1]] = n]
      /\ Buffer(r[1], n)
      /\ UNCHANGED <<execVars, memVars, writerVars, waiting, dead, flushing, logs,
                     force, events>>

\* append_log(): the line gets its number before append() awaits join().
AppendLog(r) ==
  LET n == counter[r[1]] + 1
  IN  /\ Reading(r) /\ waiting[r] = NoLine /\ printed < MaxLines
      /\ printed' = printed + 1
      /\ counter' = [counter EXCEPT ![r[1]] = n]
      /\ \/ Quiet /\ Buffer(r[1], n) /\ UNCHANGED waiting
         \/ ~Quiet /\ waiting' = [waiting EXCEPT ![r] = [no |-> n, ready |-> FALSE]]
                   /\ UNCHANGED <<buffer, gone>>
      /\ UNCHANGED <<execVars, memVars, writerVars, dead, flushing, logs, force, events>>

\* join() has returned.
Joined(r) ==
  /\ waiting[r].ready
  /\ Buffer(r[1], waiting[r].no)
  /\ waiting' = [waiting EXCEPT ![r] = NoLine]
  /\ UNCHANGED <<execVars, memVars, writerVars, counter, dead, printed, flushing,
                 logs, force, events>>

\* A line above the limit of the StreamReader: readline() raises outside any
\* try, the line is lost and the task is over.
LineTooLong(r) ==
  /\ Reading(r) /\ waiting[r] = NoLine
  /\ events > 0 /\ events' = events - 1
  /\ dead' = dead \cup {r}
  /\ UNCHANGED <<execVars, memVars, writerVars, counter, waiting, printed,
                 bufferVars, force>>

Filled == {p \in Steps : buffer[p] # <<>>}

\* Batches that must go now: full, or of a phase that has ended.
Due == {p \in Filled : Len(buffer[p]) >= SizeThreshold \/ p \in force}

\* Faulty: the batches are not removed from the buffer.
DrainKeeping(B) ==
  /\ \A p \in Steps : flushing[p] = <<>>
  /\ B # {} /\ Due \subseteq B /\ B \subseteq Filled
  /\ flushing' = [p \in Steps |-> IF p \in B THEN buffer[p] ELSE <<>>]
  /\ force' = force \ B
  /\ UNCHANGED <<execVars, memVars, writerVars, lineVars, buffer, logs, gone, events>>

\* _drain_once(): the due batches, and those old enough (any may be), leave
\* the buffer together; the next drain waits until all of them are flushed.
Drain(B) ==
  /\ \A p \in Steps : flushing[p] = <<>>
  /\ B # {} /\ Due \subseteq B /\ B \subseteq Filled
  /\ flushing' = [p \in Steps |-> IF p \in B THEN buffer[p] ELSE <<>>]
  /\ buffer' = [p \in Steps |-> IF p \in B THEN <<>> ELSE buffer[p]]
  /\ force' = force \ B
  /\ UNCHANGED <<execVars, memVars, writerVars, lineVars, logs, gone, events>>

\* _flush_payload(): insert_log_batch() in one transaction; the rows refer to
\* the job's row.
Flush(p) ==
  /\ flushing[p] # <<>> /\ row # "none"
  /\ logs' = [logs EXCEPT ![p] = @ \cup {flushing[p][i] : i \in DOMAIN flushing[p]}]
  /\ flushing' = [flushing EXCEPT ![p] = <<>>]
  /\ UNCHANGED <<execVars, memVars, writerVars, lineVars, buffer, gone, force, events>>

\* The insert raises: the batch is lost.
FlushFails(p) ==
  /\ flushing[p] # <<>>
  /\ \/ row = "none" /\ UNCHANGED events
     \/ events > 0 /\ events' = events - 1
  /\ gone' = [gone EXCEPT ![p] = @ + Len(flushing[p])]
  /\ flushing' = [flushing EXCEPT ![p] = <<>>]
  /\ UNCHANGED <<execVars, memVars, writerVars, lineVars, buffer, logs, force>>

-----------------------------------------------------------------------------
Executor ==
  RunPhase \/ PhaseRaises \/ \E success \in BOOLEAN : EndPhase(success)

Worker == Get \/ Write \/ WriteFails

DrainOf(p) == \E B \in SUBSET Steps : p \in B /\ Drain(B)

Next ==
  \/ \E n \in Steps : StartPlan(n) \/ StartUnknownAgent(n)
  \/ StartEmpty \/ Executor \/ GatherRaises \/ Cancel \/ CleanupHistory
  \/ \E r \in Readers : AppendLog(r) \/ Joined(r) \/ LineTooLong(r)
  \/ OtherJobWrites \/ Worker
  \/ \E B \in SUBSET Steps : Drain(B)
  \/ \E p \in Steps : Flush(p) \/ FlushFails(p)

Spec == Init /\ [][Next]_vars

\* The event loop runs every ready task, the database answers, and the process
\* of a phase ends as long as both its pipes are drained (proc.wait() has no
\* timeout).  With a dead reader it may block on a full pipe: GatherRaises is
\* not fair.  Nobody need start the job, print a line or cancel.
Fairness ==
  /\ WF_vars(Worker) /\ WF_vars(Executor)
  /\ \A r \in Readers : WF_vars(Joined(r))
  /\ \A p \in Steps : WF_vars(DrainOf(p)) /\ WF_vars(Flush(p) \/ FlushFails(p))

FairSpec == Spec /\ Fairness

-----------------------------------------------------------------------------
(* Properties *)

\* The types of the tracker, the writer and the buffer; both queues keep to
\* their limits.
TypeOK ==
  /\ at \in {"new", "setup", "streaming", "done"}
  /\ current \in 0..MaxPhases
  /\ good \in BOOLEAN
  /\ status \in Active \cup Terminal \cup {"none"}
  /\ phases \in [Steps -> PhaseStatuses \cup {"none"}]
  /\ queue \in Seq(Writes) /\ Len(queue) <= QueueMax
  /\ inflight \in Writes \cup {NoWrite}
  /\ row \in Active \cup Terminal \cup {"none"}
  /\ phaseRow \in [Steps -> PhaseStatuses \cup {"none"}]
  /\ dropped \in BOOLEAN
  /\ counter \in [Steps -> 0..MaxLines]
  /\ waiting \in [Readers -> [no : 0..MaxLines, ready : BOOLEAN]]
  /\ dead \subseteq Readers
  /\ buffer \in [Steps -> Seq(1..MaxLines)] /\ \A p \in Steps : Len(buffer[p]) <= Cap
  /\ force \subseteq Steps
  /\ flushing \in [Steps -> Seq(1..MaxLines)]
  /\ logs \in [Steps -> SUBSET (1..MaxLines)]
  /\ gone \in [Steps -> 0..MaxLines]
  /\ printed \in 0..MaxLines
  /\ events \in 0..MaxEvents

\* "prevents status='running' from committing after status='completed'": the
\* row of a finished job never becomes active again.
RowNeverReopens == [][(row \in Terminal) => (row' \in Terminal)]_vars

\* A line is buffered only when the row its log refers to is there, unless a
\* write of the job was lost: append() awaits the writer.
LinesFollowTheirJob ==
  \A p \in Steps :
    (buffer[p] # <<>> \/ flushing[p] # <<>>) => (row # "none" \/ dropped)

\* The readers whose line of phase p is numbered and not yet buffered.
Held(p) == {r \in Readers : r[1] = p /\ waiting[r] # NoLine}

\* "assigns monotonically increasing line numbers": while the tracker knows
\* the job, every line a phase printed is at exactly one place - waiting for
\* the writer, buffered, being flushed, stored - or was lost to the cap or to
\* a failed flush.
EveryLineOnce ==
  Tracked => \A p \in Steps :
    LET held == {waiting[r].no : r \in Held(p)}
        buf  == {buffer[p][i] : i \in DOMAIN buffer[p]}
        fl   == {flushing[p][i] : i \in DOMAIN flushing[p]}
    IN  /\ Cardinality(Held(p)) + Len(buffer[p]) + Len(flushing[p])
             + Cardinality(logs[p]) + gone[p] = counter[p]
        /\ Cardinality(held \cup buf \cup fl \cup logs[p]) + gone[p] = counter[p]

\* The executor waits for a process whose output nobody reads any more.
Stuck == at = "streaming" /\ DeadOf(current) # {}

\* The job comes to its end, and its last lines do not stay in the buffer: the
\* streams wait for the writer and the executor for the streams, and nobody
\* waits for ever, unless a reader died of a line that was too long and the
\* process waits for it.
JobEnds ==
  at = "setup" ~>
    \/ at = "done" /\ \A p \in Steps : buffer[p] = <<>> /\ flushing[p] = <<>>
    \/ []Stuck

\* If no write of a finished job was lost, the database ends up with what the
\* tracker says of the job and its phases, or said before it forgot the job.
RowCatchesUp ==
  at = "done" ~> \/ dropped
                 \/ ~Tracked /\ row \in Terminal
                 \/ row = status /\ phaseRow = phases

=============================================================================
