------------------------------- MODULE BgJobs -------------------------------
(***************************************************************************)
(* tasks/manager.py, tasks/worker.py, storage/bg_jobs_store.py: background *)
(* jobs.                                                                   *)
(*                                                                         *)
(* The web process runs the manager's operations (create, pause, resume,   *)
(* cancel, delete, recovery at startup) as coroutines; Celery workers in   *)
(* other processes run the jobs.  They share the table bg_jobs and no      *)
(* lock: each SQL statement is one step here, and whatever was read may    *)
(* have changed when the next statement runs.  A job is a plan of Steps    *)
(* tool calls or a monitor that loops until it is told to stop.            *)
(***************************************************************************)
EXTENDS Integers, FiniteSets, Sequences

CONSTANTS
  Single, Monitors,    \* jobs by job_type
  Steps,               \* len(execution_plan) of a single job
  MaxMonitors,         \* BackgroundJobManager(max_monitors)
  Operators,           \* coroutines of the web process
  Workers,             \* Celery worker processes
  MaxEvents            \* bound: requests of the users and faults together

ASSUME JobsAssumption ==
  /\ Single \cap Monitors = {} /\ IsFiniteSet(Monitors)
  /\ Steps \in Nat /\ MaxMonitors \in Nat /\ MaxEvents \in Nat

Jobs == Single \cup Monitors

Terminal == {"completed", "failed", "cancelled"}
Statuses == Terminal \cup {"pending", "running", "paused"}

VARIABLES
  row,                 \* bg_jobs: status, progress.last_completed_step, task
  gone,                \* jobs whose row has been deleted
  tasks,               \* the job of every task sent; a task's id is its index
  queue,               \* ids of the messages at the broker
  revoked,             \* ids revoked with terminate=True
  worker,              \* where each worker is in its loop
  op,                  \* where each manager coroutine is
  ran,                 \* history: the plan steps whose tool call has returned
  broken,              \* history: jobs for which a statement has raised
  lost,                \* history: jobs whose task died with its process
  clash,               \* history: jobs two requests were under way for at once
  faults,              \* history: how many things have failed
  left                 \* what is left of the bound

vars == <<row, gone, tasks, queue, revoked, worker, op, ran, broken,
          lost, clash, faults, left>>
broker == <<tasks, queue, revoked>>
history == <<broken, lost, clash>>

NoTask == 0            \* celery_task_id IS NULL
Idle == [at |-> "idle", task |-> NoTask, i |-> 0]
NoOp == [verb |-> "none", at |-> "idle", job |-> {}, task |-> NoTask, todo |-> {}]

Rows == [status : Statuses, step : 0..Steps, task : Nat]
NoRow == [status |-> "none", step |-> 0, task |-> NoTask]

Exists(j) == row[j] # NoRow
Busy(w) == worker[w].at # "idle"
JobOf(w) == tasks[worker[w].task]

\* A loop that works on the job.
Active(j) == \E w \in Workers : Busy(w) /\ JobOf(w) = j

Init ==
  /\ row = [j \in Jobs |-> NoRow]
  /\ gone = {}
  /\ tasks = <<>> /\ queue = {} /\ revoked = {}
  /\ worker = [w \in Workers |-> Idle]
  /\ op = [o \in Operators |-> NoOp]
  /\ ran = [j \in Jobs |-> {}] /\ broken = {} /\ lost = {} /\ clash = {}
  /\ faults = 0 /\ left = MaxEvents

-----------------------------------------------------------------------------
(* BgJobsStore.  An UPDATE of a row that is gone changes nothing.           *)

UpdateStatus(j, status) ==
  row' = IF Exists(j) THEN [row EXCEPT ![j].status = status] ELSE row

UpdateStatusAndTask(j, status, t) ==
  row' = IF Exists(j) THEN [row EXCEPT ![j].status = status, ![j].task = t]
                      ELSE row

UpdateProgress(j, step) ==
  row' = IF Exists(j) THEN [row EXCEPT ![j].step = step] ELSE row

Delete(J) ==
  /\ row' = [j \in Jobs |-> IF j \in J THEN NoRow ELSE row[j]]
  /\ gone' = gone \cup J

-----------------------------------------------------------------------------
(* BackgroundJobManager *)

RunningMonitors == {j \in Monitors : row[j].status = "running"}

\* Another request, or the recovery, has the job in hand.
Underway(j) == \E p \in Operators : j \in op[p].job \cup op[p].todo

Asked(o, verb, at, j) ==
  /\ op[o] = NoOp /\ left > 0 /\ left' = left - 1
  /\ op' = [op EXCEPT ![o] = [NoOp EXCEPT !.verb = verb, !.at = at, !.job = {j}]]
  /\ clash' = IF Underway(j) THEN clash \cup {j} ELSE clash

\* create_job up to the INSERT.  The limit is compared with the monitors that
\* are running now.
AskCreate(o, j) ==
  /\ ~Exists(j) /\ j \notin gone /\ \A p \in Operators : j \notin op[p].job
  /\ j \in Monitors => Cardinality(RunningMonitors) < MaxMonitors
  /\ Asked(o, "create", "insert", j)
  /\ UNCHANGED <<row, gone, broker, worker, ran, broken, lost, faults>>

\* pause_job and cancel_job up to the revocation: the read decides, and the
\* task of the row that was read is revoked.
ReadAndRevoke(o, verb, j) ==
  /\ Asked(o, verb, "write", j)
  /\ revoked' = IF row[j].task = NoTask THEN revoked
                ELSE revoked \cup {row[j].task}
  /\ UNCHANGED <<row, gone, tasks, queue, worker, ran, broken, lost, faults>>

\* Faulty: a paused job keeps its task.
AskPauseNoRevoke(o, j) ==
  /\ row[j].status = "running"
  /\ Asked(o, "pause", "write", j)
  /\ UNCHANGED <<row, gone, broker, worker, ran, broken, lost, faults>>

AskPause(o, j) == row[j].status = "running" /\ ReadAndRevoke(o, "pause", j)

\* Faulty: the running task is left alone.
AskCancelNoRevoke(o, j) ==
  /\ Exists(j) /\ row[j].status \notin Terminal
  /\ Asked(o, "cancel", "write", j)
  /\ UNCHANGED <<row, gone, broker, worker, ran, broken, lost, faults>>

AskCancel(o, j) ==
  /\ Exists(j) /\ row[j].status \notin Terminal
  /\ ReadAndRevoke(o, "cancel", j)

AskResume(o, j) ==
  /\ row[j].status = "paused"
  /\ Asked(o, "resume", "send", j)
  /\ UNCHANGED <<row, gone, broker, worker, ran, broken, lost, faults>>

AskDelete(o, j) ==
  /\ row[j].status \in Terminal
  /\ Asked(o, "delete", "delete", j)
  /\ UNCHANGED <<row, gone, broker, worker, ran, broken, lost, faults>>

Insert(o) ==
  /\ op[o].at = "insert"
  /\ \E j \in op[o].job :
       row' = [row EXCEPT ![j] = [status |-> "pending", step |-> 0, task |-> NoTask]]
  /\ op' = [op EXCEPT ![o].at = "send"]
  /\ UNCHANGED <<gone, broker, worker, ran, history, faults, left>>

\* celery_app.send_task of create_job, resume_job and recover_on_startup.
Send(o) ==
  /\ op[o].at = "send"
  /\ \E j \in op[o].job : tasks' = Append(tasks, j)
  /\ queue' = queue \cup {Len(tasks')}
  /\ op' = [op EXCEPT ![o].at = "write", ![o].task = Len(tasks')]
  /\ lost' = lost \ op[o].job
  /\ UNCHANGED <<row, gone, revoked, worker, ran, broken, clash, faults, left>>

\* The status each operation writes last, without looking at the row again.
NewStatus == [create |-> "pending", resume |-> "running", recover |-> "running",
              pause |-> "paused", cancel |-> "cancelled"]

Write(o) ==
  /\ op[o].at = "write"
  /\ \E j \in op[o].job :
       IF op[o].task = NoTask
       THEN UpdateStatus(j, NewStatus[op[o].verb])
       ELSE UpdateStatusAndTask(j, NewStatus[op[o].verb], op[o].task)
  /\ op' = [op EXCEPT ![o] = IF @.verb # "recover" THEN NoOp
                             ELSE [@ EXCEPT !.at = "next", !.task = NoTask]]
  /\ UNCHANGED <<gone, broker, worker, ran, history, faults, left>>

\* The DELETE checks the status again.
DeleteJob(o) ==
  /\ op[o].at = "delete"
  /\ Delete({j \in op[o].job : row[j].status \in Terminal})
  /\ op' = [op EXCEPT ![o] = NoOp]
  /\ UNCHANGED <<broker, worker, ran, history, faults, left>>

\* recover_on_startup: the jobs listed as running are sent again, one by one;
\* cleanup_old_jobs then deletes finished jobs that are old enough.
RecoverNext(o) ==
  /\ op[o].at = "next" /\ op[o].todo # {}
  /\ \E j \in op[o].todo :
       op' = [op EXCEPT ![o].at = "send", ![o].job = {j}, ![o].todo = @ \ {j}]
  /\ UNCHANGED <<row, gone, broker, worker, ran, history, faults, left>>

Cleanup(o) ==
  /\ op[o].at = "next" /\ op[o].todo = {}
  /\ \E J \in SUBSET {j \in Jobs : row[j].status \in Terminal} : Delete(J)
  /\ op' = [op EXCEPT ![o] = NoOp]
  /\ UNCHANGED <<broker, worker, ran, history, faults, left>>

ManagerStep(o) ==
  Insert(o) \/ Send(o) \/ Write(o) \/ DeleteJob(o) \/ RecoverNext(o) \/ Cleanup(o)

\* Something fails, as far as the bound allows.
Fails == left > 0 /\ left' = left - 1 /\ faults' = faults + 1

\* The web process stops: its coroutines end where they are, and the new one
\* starts with recover_on_startup.
Restart(o) ==
  /\ Fails
  /\ op' = [p \in Operators |->
              IF p # o THEN NoOp
              ELSE [NoOp EXCEPT !.verb = "recover", !.at = "next",
                      !.todo = {j \in Jobs : row[j].status = "running"}]]
  /\ UNCHANGED <<row, gone, broker, worker, ran, history>>

-----------------------------------------------------------------------------
(* A worker: one task at a time (prefetch 1, acknowledged when it ends)     *)

Goto(w, at) == worker' = [worker EXCEPT ![w].at = at]
EndTask(w) == worker' = [worker EXCEPT ![w] = Idle]

\* The message is taken and the row read; without a row the task fails, and
\* there is no row to mark.
Receive(w) ==
  /\ ~Busy(w)
  /\ \E t \in queue :
       /\ queue' = queue \ {t}
       /\ worker' = IF ~Exists(tasks[t]) THEN worker
                    ELSE [worker EXCEPT ![w] = [at |-> "mark", task |-> t,
                                                i |-> row[tasks[t]].step]]
  /\ UNCHANGED <<row, gone, tasks, revoked, op, ran, history, faults, left>>

MarkRunning(w) ==
  /\ worker[w].at = "mark"
  /\ UpdateStatus(JobOf(w), "running")
  /\ Goto(w, "check")
  /\ UNCHANGED <<gone, broker, op, ran, history, faults, left>>

\* Faulty: only a running job goes on.
StoppedUnlessRunning(j) == row[j].status # "running"

Stopped(j) == ~Exists(j) \/ row[j].status \in {"cancelled", "paused"}

\* The top of both loops: a single job with steps left, or a monitor.
Check(w) ==
  /\ worker[w].at = "check" /\ (JobOf(w) \in Single => worker[w].i < Steps)
  /\ IF Stopped(JobOf(w)) THEN EndTask(w)
     ELSE Goto(w, IF JobOf(w) \in Monitors THEN "tool" ELSE "begin")
  /\ UNCHANGED <<row, gone, broker, op, ran, history, faults, left>>

\* Faulty: the step is recorded as completed before its tool has run.
BeginStepEarly(w) ==
  /\ worker[w].at = "begin"
  /\ UpdateProgress(JobOf(w), worker[w].i + 1)
  /\ Goto(w, "tool")
  /\ UNCHANGED <<gone, broker, op, ran, history, faults, left>>

BeginStep(w) ==
  /\ worker[w].at = "begin"
  /\ UpdateProgress(JobOf(w), worker[w].i)
  /\ Goto(w, "tool")
  /\ UNCHANGED <<gone, broker, op, ran, history, faults, left>>

\* The tool returns or raises: either way the loop goes on.  A monitor then
\* sleeps and checks again; the iteration number it stores is left out.
RunTool(w) ==
  /\ worker[w].at = "tool"
  /\ IF JobOf(w) \in Monitors
     THEN Goto(w, "check") /\ UNCHANGED ran
     ELSE /\ ran' = [ran EXCEPT ![JobOf(w)] = @ \cup {worker[w].i + 1}]
          /\ Goto(w, "end")
  /\ UNCHANGED <<row, gone, broker, op, history, faults, left>>

EndStep(w) ==
  /\ worker[w].at = "end"
  /\ UpdateProgress(JobOf(w), worker[w].i + 1)
  /\ worker' = [worker EXCEPT ![w].at = "check", ![w].i = @ + 1]
  /\ UNCHANGED <<gone, broker, op, ran, history, faults, left>>

Complete(w) ==
  /\ worker[w].at = "check" /\ JobOf(w) \in Single /\ worker[w].i = Steps
  /\ UpdateStatus(JobOf(w), "completed")
  /\ Goto(w, "final")
  /\ UNCHANGED <<gone, broker, op, ran, history, faults, left>>

FinalProgress(w) ==
  /\ worker[w].at = "final"
  /\ UpdateProgress(JobOf(w), Steps)
  /\ EndTask(w)
  /\ UNCHANGED <<gone, broker, op, ran, history, faults, left>>

WorkerStep(w) ==
  \/ Receive(w) \/ MarkRunning(w) \/ Check(w) \/ BeginStep(w) \/ RunTool(w)
  \/ EndStep(w) \/ Complete(w) \/ FinalProgress(w)

\* A statement raises: _mark_failed, which may raise as well.
SqlError(w) ==
  /\ Busy(w) /\ worker[w].at # "tool"
  /\ Fails
  /\ UpdateStatus(JobOf(w), "failed") \/ UNCHANGED row
  /\ broken' = broken \cup {JobOf(w)}
  /\ EndTask(w)
  /\ UNCHANGED <<gone, broker, op, ran, lost, clash>>

-----------------------------------------------------------------------------
(* Celery and its Redis broker *)

\* A revoked task is dropped, from the queue or, with terminate, while it runs.
Discard(t) ==
  /\ t \in queue \cap revoked
  /\ queue' = queue \ {t}
  /\ UNCHANGED <<row, gone, tasks, revoked, worker, op, ran, history, faults, left>>

Terminate(w) ==
  /\ Busy(w) /\ worker[w].task \in revoked
  /\ EndTask(w)
  /\ UNCHANGED <<row, gone, broker, op, ran, history, faults, left>>

\* task_acks_late: the whole worker dies, nothing is acknowledged and the task
\* is delivered again.
Crash(w) ==
  /\ Busy(w) /\ Fails
  /\ queue' = queue \cup {worker[w].task}
  /\ EndTask(w)
  /\ UNCHANGED <<row, gone, tasks, revoked, op, ran, history>>

\* Without task_reject_on_worker_lost: only the pool process dies, the worker
\* acknowledges the task and no one works on the job any more.
Killed(w) ==
  /\ Busy(w) /\ Fails
  /\ lost' = lost \cup {JobOf(w)}
  /\ EndTask(w)
  /\ UNCHANGED <<row, gone, broker, op, ran, broken, clash>>

\* A task that has run for longer than the visibility timeout is delivered
\* again while it runs.
Redeliver(w) ==
  /\ Busy(w) /\ Fails
  /\ queue' = queue \cup {worker[w].task}
  /\ UNCHANGED <<row, gone, tasks, revoked, worker, op, ran, history>>

Ask(o, j) ==
  AskCreate(o, j) \/ AskPause(o, j) \/ AskResume(o, j) \/ AskCancel(o, j) \/ AskDelete(o, j)

Fault ==
  \/ \E o \in Operators : Restart(o)
  \/ \E w \in Workers : SqlError(w) \/ Crash(w) \/ Killed(w) \/ Redeliver(w)

Next ==
  \/ \E o \in Operators : ManagerStep(o) \/ \E j \in Jobs : Ask(o, j)
  \/ \E w \in Workers : WorkerStep(w) \/ Terminate(w)
  \/ \E t \in queue : Discard(t)
  \/ Fault

\* Coroutines and workers go on, a message is delivered to an idle worker and
\* a revocation reaches the worker it is for.  Nothing is assumed of users.
Fairness ==
  /\ \A o \in Operators : WF_vars(ManagerStep(o))
  /\ \A w \in Workers : WF_vars(WorkerStep(w)) /\ WF_vars(Terminate(w))

Spec == Init /\ [][Next]_vars

FairSpec == Spec /\ Fairness

-----------------------------------------------------------------------------
(* Properties *)

\* The rows, the messages and the loops stay in the ranges of the code.
TypeOK ==
  /\ row \in [Jobs -> Rows \cup {NoRow}]
  /\ gone \in SUBSET Jobs
  /\ tasks \in Seq(Jobs)
  /\ queue \subseteq DOMAIN tasks /\ revoked \subseteq DOMAIN tasks
  /\ worker \in [Workers ->
       [at : {"idle", "mark", "check", "begin", "tool", "end", "final"},
        task : Nat, i : 0..Steps]]
  /\ \A w \in Workers : Busy(w) => worker[w].task \in DOMAIN tasks
  /\ op \in [Operators ->
       [verb : DOMAIN NewStatus \cup {"none", "delete"},
        at : {"idle", "insert", "send", "write", "delete", "next"},
        job : SUBSET Jobs, task : Nat, todo : SUBSET Jobs]]
  /\ \A o \in Operators :
       op[o].at \in {"send", "write"} => op[o].verb \in DOMAIN NewStatus
  /\ ran \in [Jobs -> SUBSET (1..Steps)]
  /\ broken \in SUBSET Jobs /\ lost \in SUBSET Jobs /\ clash \in SUBSET Jobs
  /\ faults \in Nat /\ left \in 0..MaxEvents

\* Whatever pauses, restarts, crashes and doubled tasks do to a job, the
\* progress in its row never runs ahead of the tools, so a loop that resumes
\* from last_completed_step skips no step; and a job marked completed has had
\* every step of its plan run.
NoStepSkipped ==
  \A j \in Single :
    /\ 1..row[j].step \subseteq ran[j]
    /\ row[j].status = "completed" => 1..Steps \subseteq ran[j]

\* The ids a worker may still act on for the job, other than revoked ones.
LiveTasks(j) ==
  {t \in DOMAIN tasks \ revoked :
     tasks[t] = j /\ (t \in queue \/ \E w \in Workers : worker[w].task = t)}

\* The requests of the users interleave at their awaits, for any number of
\* jobs.  While nothing has failed, a job for which no request began before
\* the last one had ended has at most one task that may act for it, and it is
\* the one in the row: revoking it, as pause and cancel do, leaves no other
\* loop behind.  (Two requests at once for one job, say two resumes, do leave
\* two tasks: the manager has no lock.)
RowNamesTheTask ==
  faults = 0 =>
    \A j \in Jobs \ clash :
      /\ Cardinality(LiveTasks(j)) <= 1
      /\ Exists(j) /\ (\A o \in Operators : j \notin op[o].job)
           => LiveTasks(j) \subseteq {row[j].task}

\* A job nobody pauses, cancels or fails has every step run, although a worker
\* crashes, a task is delivered twice or the web process restarts; unless
\* monitors hold every worker, or two requests for it overlapped, or the pool
\* process of its task was killed and no task has been sent for it since
\* (recover_on_startup sends one for a job marked running).
WorkIsDone ==
  \A j \in Single :
    (\E t \in DOMAIN tasks : tasks[t] = j) ~>
      \/ 1..Steps \subseteq ran[j]
      \/ row[j].status \in {"paused", "cancelled"} \/ ~Exists(j)
      \/ j \in broken \cup lost \cup clash \/ \E t \in revoked : tasks[t] = j
      \/ \A w \in Workers : Busy(w) /\ JobOf(w) \in Monitors

\* Once users ask for nothing more and nothing has failed, every loop of a
\* cancelled monitor stops for good, if no two requests for it overlapped.
CancelStops ==
  \A j \in Monitors :
    (row[j].status = "cancelled" /\ j \notin clash /\ faults = 0 /\ left = 0
       /\ (\A o \in Operators : op[o] = NoOp))
      ~> []~Active(j)

=============================================================================
