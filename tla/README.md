# BreadMind: TLA+ models, checks and proofs

BreadMind is an agent platform: a chat agent that plans work, runs tools, hands
long work to *durable task flows* and *background jobs* executed by Celery
workers, delegates coding to command-line agents, talks to users through
messengers and a WebSocket relay, and keeps a knowledge base. This directory
models the parts whose correctness depends on the order of steps taken by
several processes, tasks or users, checks them with TLC on small instances and
proves the most important invariants with TLAPS for every instance.

Paths below are relative to `src/breadmind/`, except those starting with
`rt-relay/`.

## 1. Inventory

| Component | State | Operations | Interacts with | Module |
|---|---|---|---|---|
| Flow engine `flow/engine.py` | per flow: dag, completed, failed, queued, running, finalized | one branch of `_handle` per event type, `_schedule_next` | event bus, Celery | `Flow` |
| Recovery controller `flow/recovery.py` | `_step_cache`, `_llm_attempts` | rule retry with backoff, LLM recovery, escalation | event bus, Celery, LLM | `Flow` |
| Event bus `flow/event_bus.py` | subscriptions and their queues, Redis client | publish, subscribe, Redis listener | store, Redis, engine, recovery, web | `Flow` |
| Event store `flow/store.py` | tables flow_events, flows, flow_steps | append with projection, replay | PostgreSQL | `FlowStore`, `FlowLog`, `Flow` |
| Flow DAG `flow/dag.py` | list of steps | validate, topological_order, ready_steps, apply_mutation | engine, generator | `FlowDag`, `FlowDagCheck` |
| Flow step task `flow/celery_tasks.py` | the task in the broker, its run | execute_flow_step | event bus, tools | `Flow` |
| Flow creation `tools/delegate_work.py`, `flow/dag_generator.py` | none | create the flow, propose its DAG | event bus, LLM | `Flow` |
| Circuit breaker `core/circuit_breaker.py` | state, counters, time opened | call, reset, transitions | whatever it guards | `CircuitBreaker` |
| Background jobs `tasks/manager.py`, `tasks/worker.py`, `storage/bg_jobs_store.py` | table bg_jobs, tasks in the broker | create, pause, resume, cancel, delete, recover, clean up; worker loops | PostgreSQL, Celery | `BgJobs` |
| Messenger outbox `messenger/dispatcher.py` | table message_outbox | batch under SKIP LOCKED, publish, delete; NOTIFY and poll | PostgreSQL, Redis | `Delivery` |
| Relay `rt-relay/` | registry of connections, subscriptions | connect, subscribe with backfill, dispatch, disconnect | Redis, core API, clients | `Delivery` |
| Relay access cache, presence, typing | expiring entries | invalidate, expire | Redis | — |
| Messenger services `messenger/` | messages, idempotency keys, scheduled messages | HTTP handlers, scheduled dispatcher | PostgreSQL, Redis | posting in `Delivery` |
| KB backfill `kb/backfill/` | job row, cursor, progress, budget | run, checkpoint, resume, cancel, finish | connectors, PostgreSQL | `Backfill` |
| Coding jobs `coding/` | jobs in memory, writer queue, line counters, log buffers | execute_plan, cancel, complete, flush | PostgreSQL, command-line agents | `CodingJobs` |
| Settings and approvals `settings/`, `sdui/actions.py` | settings table, vault, live copies, audit log, pending approvals | set, append, update, delete, merge; approve; reload | UI, agent tools, PostgreSQL | `Settings` |
| Distributed agents `network/` | registry, completed tasks, offline queue | dispatch, result, sync, heartbeat | WebSocket | planned |
| In-process DAG executor `core/dag_executor.py` | completed and failed nodes | batches of ready nodes | subagents | — |
| Agent loop, LLM providers, memory, hooks, plugins, MCP, skills, webhooks, scheduling, web, SDUI, CLI, companion, storage, monitoring, provisioning | various | request handling | — | — |

What is hard in this code is the hazard list of `PROJECT.json`, each at its
line. In short: processes act on lagging copies of one event stream; a row is
read, awaited upon and written from the old value; Celery redelivers and Redis
echoes or loses; a statement of several fails and the failure is swallowed;
a status is overwritten by a late writer; a queue of bounded size drops; work
restarts from a cursor that another run wrote.

What makes the modelled components correct:

* **flow** — one verdict; "completed" only when every step of the plan is;
  a step runs only after its dependencies; no step is forgotten; every planned
  flow gets a verdict; no second dispatch without a failure;
* **store** — readers that resume without loss, append atomic with its
  projection and numbered without gap or clash;
* **DAG** — the algorithms compute what "acyclic", "topological order" and
  "mutation" mean, and a valid plan never stalls;
* **circuit breaker** — limits probes, is not closed by a late success, closes
  again once the service is healthy;
* **background jobs** — a resumed job skips no step, a completed one has run
  them all; the row names the task that may act; work is done although
  processes fail; a cancelled monitor stops;
* **delivery** — a stored message is published, once unless something failed;
  a working connection that was acknowledged misses nothing and is not held up
  for ever by others that break;
* **coding jobs** — the row of a finished job is not reopened and catches up
  with memory; each printed line is at one place and after its job; jobs end
  and their lines leave the buffer;
* **backfill** — what a run or a cursor has passed is accounted for, a halted
  import can be completed (it cannot, see the findings), the report adds up, an
  item is indexed once, the token budget is not reached;
* **settings** — what runs is what is stored; an edit of one item keeps the
  others; names stay unique where they are validated; an approved change runs once; the audit log tells
  of every change; a lock is given back.

## 2. Modules

| Module | Models | Kind |
|---|---|---|
| `CircuitBreaker` | `core/circuit_breaker.py` | state machine with callers |
| `FlowDag` | `flow/dag.py` as definitions (no recursion) | operators |
| `FlowDagCheck` (extends `FlowDag`) | `flow/dag.py` as the code computes, on lists, with the calls of `visit()` | state machine, compared with `FlowDag` |
| `Flow` (extends `FlowDag`) | engine, recovery, bus, projections, Celery task, delegate_work | composed state machine |
| `FlowLog` | the promise of the event store: an atomic append-only log | abstract specification |
| `FlowStore` | `flow/store.py`, statement by statement | state machine, implements `FlowLog` |
| `BgJobs` | `tasks/manager.py`, `tasks/worker.py`, `storage/bg_jobs_store.py` | composed state machine |
| `Delivery` | posting, `messenger/dispatcher.py`, `rt-relay` | composed state machine |
| `CodingJobs` | `coding/` executor, tracker, writer, log stream, log buffer | composed state machine |
| `Backfill` | `kb/backfill/runner.py`, checkpoints, CLI resume and cancel | state machine of overlapping runs |
| `Settings` | `settings/`, the settings actions of `sdui/actions.py` | state machine of overlapping requests |
| `*_proofs` | theorems about `CircuitBreaker`, `Flow` and `FlowDagCheck` (both in `Flow_proofs`), `FlowStore`, `BgJobs`, `Delivery`, `CodingJobs`, `Backfill`, `Settings` | proofs |
| `MC*` | instances for TLC | |

An operator whose comment starts with "Faulty" is a defect a programmer might
make in the definition after it; `PROJECT.json` ("mutants") says which property
must notice it. No specification uses one.

### CircuitBreaker

The asyncio lock makes admission (`Admit`) and the recording of the result
(`Succeed`, `Fail`) atomic; the guarded call runs in between without the lock,
so other callers interleave. `AdmitClosed`, `AdmitPromoting` and
`AdmitHalfOpen` are the three ways through the first locked block of `call`;
a rejected call changes nothing and has no action. `Cancel` is a
`CancelledError` in the guarded call, which neither `except` branch records; at
most `MaxCancels` calls are cancelled. Time is the flag `elapsed`: has
`recovery_timeout` passed since the circuit opened. `_failure_count` is capped
at the threshold; above it nothing reads it before it is reset. `probes` is a
history variable (the calls admitted in the present half-open period);
`healthy` is the service. `HalfOpenLimit` compares `probes` with the
configuration, not with the code's own counter.

### Flow

One flow. The variables are grouped as in the program: the tables, the bus
queues, the engine's `_FlowState` with the point its `_handle` has reached, the
recovery controller's caches with the point its `_try_recover` has reached, and
Celery. Each `await` at which another process may act is a boundary between two
actions: persisting an event and delivering it (`publish`), the backoff sleep,
the LLM call, the dispatch. Between two boundaries everything a handler does is
one action. `Persist…` are the branches of `_apply_projection`; `Receive` with
the `Handle…` actions are the branches of `FlowEngine._handle`; `todo` holds what
the loop of `_schedule_next` has still to do. The engine handles its next event
only when `todo` is empty and no publish is pending, as its loop does.

Abstracted data: an error is *transient* or not (`is_transient_error`); an LLM
answer is its strategy; tool arguments and results are left out (retry and
replace by the LLM differ only in them); log sequence numbers are left to
`FlowStore`. Events no subscriber has a branch for are persisted and not queued.
`FLOW_COMPLETED` and `FLOW_FAILED` are therefore not queued either: their
delivery changes nothing in the modelled processes.

Faults, each limited by `Budget`, which depends on the plan: a tool fails, a
dispatch or a redispatch raises, an append raises, a Redis publish raises, a
worker dies (`WorkerCrash`), a pool process is killed (`WorkerKilled`), the plan
is mutated. `celery_app.py` sets `task_acks_late` without
`task_reject_on_worker_lost`: the task of a worker that dies as a whole is
delivered again, also when its result is out and only the acknowledgement is
missing (`Unacknowledged`); the task of a pool process that is killed is
acknowledged by its parent and gone. What each process does with such a
failure is what its code does: workers swallow it (`_safe_publish`), the engine
leaves `_handle`, recovery layer 2 escalates, layer 1 leaves the handler.

External: the Celery queue, and the publisher of `DAG_MUTATED`. At this commit
only tests publish `DAG_MUTATED`; `FLOW_PAUSED`, `FLOW_RESUMED` and
`FLOW_CANCELLED` have no publisher at all and are not modelled;
`USER_INTERVENTION` has no branch in the engine. The engine and the recovery
controller are constructed in tests only; `web/routes/ui.py` builds a bus
without Redis. A worker builds a bus of its own without subscribers
(`_build_worker_bus`), so its events reach the engine and recovery through Redis
and in no other way: the model always has Redis, and `EmitWorker` puts an event on
its channel only, while an event of the engine's process is delivered directly
and once more as the echo.

### FlowStore and FlowLog

`append` is five statements in a transaction: take the advisory lock, read
`MAX(seq)`, insert, project, commit; `Rollback` may happen after any of them.
`Replay` is a reader that resumes after the last `seq` it has seen.
`FlowLog` says what callers rely on: an append adds one event at the end and
moves `last_event_seq` with it, in one step. `AppendsAreAtomic` is the
refinement (`log <- rows, last <- lastSeq`).

### FlowDag and FlowDagCheck

`FlowDag` states what a DAG is by definitions; the flow model and its proofs use
it. `FlowDagCheck` is the code: lists of steps in which ids may repeat and
dependencies may be missing, the three passes of `apply_mutation`, and the
depth-first searches of `validate` and `topological_order`. The nested functions
`visit(node)` are an explicit `stack` of frames, a node and the dependencies its
loop has still to look at; a step of the model is one test, call or return. The
loop over the dependencies may take them in any order (the code's is one of
them). `Validate` is the call (the checks for duplicates and missing ids, then
white nodes), `Validating` and `Ordering` are the searches, `Mutate` is
`apply_mutation` up to its call of `validate`. The invariants compare each
result with the definition: so the engine's step on `DAG_MUTATED`, which is one
application of `Mutated` in `Flow`, is what the passes and the search yield.

### BgJobs

The manager's operations are coroutines of the web process, the loops of
`_run_single` and `_run_monitor` run in Celery workers; they share the table and
no lock, so each SQL statement and each message is an action. `Ask…` is an
operation up to its first write (the read decides, the later write does not
look again: `Write`, `NewStatus`); `Receive` … `FinalProgress` are the points of
the worker loops. A task's id is its index in `tasks`; `revoked` is what
`revoke(terminate=True)` has named. Faults: a statement raises (`SqlError`, with
`_mark_failed`, which may raise too), a worker dies and its task is delivered
again, a pool process is killed and its task is gone (`Killed`), a task outlives
the visibility timeout and is delivered again, the web process restarts and
`recover_on_startup` sends every running job again. `Operators` are requests that
interleave at their awaits; `clash` has the jobs for which two of them
overlapped. Left out: the payload of a step, the iteration count of a monitor,
its sleep. `ran`, `broken`, `lost` and `clash` are history variables.

### Delivery

One channel, from the transaction of `post_message` to the WebSockets.
`Fetch`, `Publish`/`PublishFails`, `Commit` are the statements of
`dispatch_one_batch`; `lock` is what `FOR UPDATE SKIP LOCKED` holds; `Parked` is
the wait for NOTIFY or the safety tick. In the relay `Receive` reads the
subscribers of an event and `FanOut` sends to one of them, in the dispatcher's
goroutine; `Resume`, `Subscribe`, `Ack` are the points of a read loop at
`TypeSubscribe`, another goroutine. A connection may break at any time, and its
read loop then removes it in two locked steps, first from the registry, later
from the subscriptions; a fan-out that holds its id meanwhile skips it or has its
`Send` fail, and goes on either way. `owed` is a history variable: what was
published since a connection's acknowledgement and has not been sent to it,
while it works.
Which rows the backfill of a subscription returns is not tracked, and neither
are payloads, access control, typing, presence. `bus` is Redis (external): in
order, and it may lose an event while the relay reconnects.

### CodingJobs

One job in a process that runs others. Everything is on one event loop, so an
action is what the code does between two awaits; several writes queued in one
such stretch are one `Schedule`. `queue` and `inflight` are `JobDbWriter`;
`waiting` is a line that has its number and awaits `join()`; a line whose
`join()` has returned (`ready`) does not look at the queue again. A phase has one
reader per stream; a line above the limit of the `StreamReader` makes `readline`
raise and the reader `dead` (`LineTooLong`), its pipe is not drained any more and
the process may or may not end. If it does, `gather` raises and the phase fails
while the other reader goes on (`GatherRaises`). `Drain` takes
the batches that are due (size, end of phase) and any that are old enough;
`Flush` is the transaction of a batch. The other jobs of the process appear as
writes in the queue (`OtherJobWrites`) and by pushing this job out of the
history (`CleanupHistory`). Left out: the text of lines, the decomposition of a
prompt into phases, the synchronous executor path, channel supervision,
listeners.

### Backfill

A run is the local state of `BackfillRunner.run` together with its row of
`kb_backfill_jobs`; runs of the same import overlap freely and `Resume` starts
one at the cursor of another. One action per outcome of an item (`Filter`,
`Halt`, `DropSecret`, `Embed`, `EmbedFails`), two for storing it (`Store`,
`Cite`), then `Checkpoint`; `Final` and `Finish` are the `finally` clause. Items
are those of one channel, numbered in the order in which the Slack adapter, the
only one that resumes, yields them: the newest is 1. `Resume` therefore yields
the items from the newest down to the cursor. `Stamp` says where a cursor made
of an item points, which for an edited item is the time of the edit. With several
channels only the first is read from the cursor on; that is not modelled. A budget
larger than an `int` or a real clock is not needed: a checkpoint may be due by
time whenever one is possible.

### Settings

`Writers` are the tasks that call `SettingsService`. `Ask` is a request up to
its first await: put aside for approval (`pending`), sent to the UI's check
outside the lock (`Check`), or queued at the key's lock (`Enter`). Under the
lock: `Get`, `Put`, `Audit`, `Record`, `Reload`, each with its failure. `store`
holds an entry as its name and the number of the request that wrote it, which
is what the properties tell apart. What the UI looks at before the lock
(`Offered`) and what `validate_value` rejects under it (`Accepted`) differ: only
the lists in `Unique` (`mcp_servers`, `skill_markets`) are validated for
duplicates. A reloader replaces the live copy, or merges into it (`Merging`: a
`Sticky` field the new dict leaves out stays, as `admin_users` in
`SafetyGuard.reload` and the fields of `llm`), or does nothing (`Ignored`:
`tool_security`, `scheduler_cron`, `webhook_endpoints`). The rate limiter and the validators refuse
requests before anything changes and are left out.

## 3. Runs

| Run | Question | Bounds | Result |
|---|---|---|---|
| `breaker` | probe limit, late successes, recovery | 4 callers, threshold 3, 3 slots, 2 successes, 1 cancelled call | holds |
| `breaker_default` | does it recover with the default configuration? | the defaults, 3 callers | **violated** |
| `flow` | one verdict, no forgotten step, no second dispatch, completion and dispatch justified by the log | single step, chain or pair, LLM, Redis echoing; two faults for a single step (dispatch, append) or a chain (all but the dispatch), one for a pair (tool, killed process) | holds |
| `flow_settles` | every planned flow gets a verdict | chain: any two of 2 tool failures, a failing redispatch, a dead worker; pair: 1 tool failure | holds |
| `flow_dag` | do the searches of `dag.py` end, and with what `FlowDag` defines? | lists of at most 3 steps over 3 ids; mutations removing any ids, adding and modifying one step | holds |
| `flow_store` | replay, atomicity | 3 writers, 2 events, log of 3, any rollback | holds |
| `bg_jobs` | no step skipped, one task, work is done, cancel stops | a job of 2 steps and a monitor, 2 operators, 2 workers, 3 requests or faults in any mixture | holds |
| `delivery` | outbox, fan-out, breaking connections | 2 dispatchers, batches of 2, 2 connections, 2 messages, 1 fault | holds |
| `coding_jobs` | row, lines and end of a job | 2 phases, 2 streams, 2 lines, queue of 6, buffer cap 1, 2 events (cancel, other writes, failing statements, too long lines) | holds |
| `backfill` | passed items settled, report, indexed once | 3 items of any kind, the oldest edited last, 2 runs, budget 3, checkpoint every 2, abort above 50 % of 2, 2 faults | holds |
| `backfill_resume` | does a resumed run complete the import? | 3 unedited items, 2 runs, budget 3, no fault | **violated** |
| `settings` | live copy, lists, approvals, audit, locks | 2 writers, two lists (one validated for duplicates, one with an idle reloader), a guarded merging dict, a credential, 3 requests, 1 fault, audit log of 2 | holds |

Why the bounds are enough for what is asked.

* *Breaker.* One caller more than slots, so that the guard of the half-open state
  refuses somebody; one cancelled call, which keeps its slot.
* *Flow.* A chain and a pair are the shapes the scheduler tells apart: a step
  that waits for another and steps that do not, one of which may fail while the
  other completes. Two faults are what it takes for one step to fail twice or one
  fault to hit the handling of another; the pair, whose states are many, has one.
  The echo of every event is there without a fault. A cycle of three, one reached through a finished node and
  a diamond need three ids; the results of the searches are proved for lists of
  any length. Three writers of the store are one more than needed to
  see a clash.
* *BgJobs.* Two workers are what a doubled task needs; a monitor beside a job
  lets it hold a worker; three events are create, pause, resume or create,
  cancel and a fault at any point of them. Two operators let requests overlap,
  for one job or for two; both safety properties are proved for any number.
* *Delivery.* Two dispatchers compete for two rows; two connections let one
  break or leave while a fan-out holds its id and the other waits for its turn.
* *CodingJobs.* The five writes that start a plan nearly fill a queue of six, so
  that writes are dropped; a cap of one loses a line as soon as two are buffered.
* *Backfill.* Three items with two runs contain a checkpoint, an item after it
  and a resume between them; a budget of three is reached by the third item,
  and what was halted there is what the resumed run misses. The three properties
  of `backfill` are proved without bounds.
* *Settings.* Two writers with three requests make every pair of operations
  overlap on a key and leave one request to see the result; three requests
  exceed an audit log of two. A merge of `admin_users` followed by the agent's
  replacement of the dict leaves a field that only the live copy has.

A condition in a property marks what the code does not give: `NoOrphan` and
`FlowSettles` hold until an append or a Redis publish fails (a lost event is never
sent again) or a pool process is killed with its task, and `FlowSettles` besides
for tools that fail finitely often and plans that are not mutated;
`NoSecondDispatch` ends with the first failure of a tool or a dispatch, since a
failed step is dispatched by recovery and by the engine; `RowNamesTheTask` and
`CancelStops` end with the first fault, since recovery and redelivery double
tasks, and except jobs for which two requests overlapped; `WorkIsDone` excepts
those, jobs whose task was lost and not sent again, and workers that are all held
by monitors; `AckedMissesNothing` and `OwedIsSent` speak of connections that work;
`JobEnds` excepts a process whose output nobody reads any more;
`LinesFollowTheirJob` and `RowCatchesUp` except a write that was lost;
`EveryLineOnce` speaks of jobs the tracker still knows; `LiveFollowsStore`
excepts deleted credentials, failed reloads, the fields a merging reloader keeps
and the keys whose reloader does nothing; `UniqueNames` speaks of the validated
lists; `AuditTells` excepts overlapping audits.

There is no deadlock check where the system may really stop: `flow_dag`
makes one call or two and stops; a finished flow, one whose DAG could not be
generated and one whose event was lost stop; jobs, messages, runs and requests
are bounded and come to their end.

### Fairness

All of it weak, and only of what the code itself goes on doing.

* `flow_settles`: the engine loop, the recovery loop, the Redis listener and the
  workers. The loops
  are `while` loops over a queue that catch every exception of a handler and
  continue; Celery workers take tasks as long as there are any. That a started
  tool returns or raises is an assumption the code does not enforce.
* `flow_dag`: a search that has begun goes on; it is sequential code without an
  await.
* `breaker`, `breaker_default`: time passes; a call that is admitted returns;
  callers keep calling. Nothing of `Reset`, `Cancel`, or the service.
* `bg_jobs`: coroutines of the manager and loops of workers go on, a message is
  delivered to an idle worker, a revocation reaches the worker it is for.
* `delivery`: every dispatcher goes on; the safety tick wakes it if no NOTIFY
  does. The relay's subscription goes on, since a `Send` ends after five seconds
  whatever its client does. Nothing of clients and read loops.
* `coding_jobs`: the event loop runs every ready task, the database answers,
  drains are periodic. The process of a phase ends as long as its pipes are
  drained, which is an assumption about the command-line agent: `proc.wait()` has
  no timeout. `GatherRaises` is not fair: with a dead reader the process may block
  on a full pipe for ever.
* `settings`: the event loop runs a task that can go on.

Nothing is assumed of users, clients, mutations or faults.

### Findings and observations

**Findings, each as a run.** *The breaker never closes with its defaults*
(`breaker_default`). With `half_open_max_calls = 1` and `success_threshold = 2`
the only slot of a half-open period is used by the first probe and never given
back; after its success no call is admitted again.

*A resumed backfill leaves the older items out* (`backfill_resume`). The Slack
adapter yields the newest message first and a resumed run asks for what is newer
than the cursor, so it looks again at what is stored and never at what was left;
it ends as `completed`. The design document says adapters should yield the oldest
first and calls the cursor the resume point.

**Observations made while modelling**, reflected in the models and in the
conditions of the properties:

* *Flow.* `_schedule_next` skips queued and running steps, not failed ones, so a
  completion in another branch dispatches a failed step next to the recovery
  controller. Every failure reports `attempt: 1` (`celery_tasks.py:123`,
  `engine.py:229`), so the comparison at `recovery.py:197` never stops a retry,
  and a tool that keeps failing transiently is retried for ever, although
  `recovery.py:5-7` speaks of exhausted retries. The task of a killed pool process
  is lost and its step stays queued or running. A worker that dies between
  publishing a failure and its acknowledgement has its task delivered again next
  to the retry. Without Redis nothing a worker says reaches the engine. A
  `STEP_STARTED` after the verdict sets `flows.status` back to running. The late
  completion of a removed step stays in `completed`, which then never equals the
  plan. With Redis, the echo of `DAG_PROPOSED` after a mutation puts the original
  plan back. A publish that raises in the loop of `_schedule_next` leaves the
  remaining steps to the next event. `timeout_seconds` is enforced nowhere.
* *BgJobs.* The limit on monitors counts running ones before the new one is
  stored (`manager.py:34`); the last write of `create_job` may put `pending` over
  what the worker wrote; recovery and the visibility timeout double tasks that
  run; monitors occupy worker slots for good. The task of a killed pool process
  is lost: the work waits for a restart of the web process, and for ever if the
  row was not yet marked running. Requests for one job that overlap (the manager
  has no lock) leave two tasks, or a cancelled row that a worker marks running
  again; a cancel that overlaps the last write of `create_job` leaves `pending`
  without a task.
* *Delivery.* `dispatcher.py` says at-most-once, but a rollback publishes again.
  The errors of `Send` are ignored (`dispatch.go:40`) and a client that does not
  read delays everybody behind it in the fan-out by five seconds per event.
  An event between the read of the backfill and the registration of the
  subscription is in neither. The relay asks for a backfill of 500 since a
  `ts_seq`; the endpoint accepts at most 200 and has no such parameter. The post
  endpoint ignores the in-progress marker of `idempotency.py`, and the marker
  expires after 30 seconds while the request may still run.
* *CodingJobs.* `executors/local.py:55` calls `build_phase_command`, which no
  adapter defines, so a phase run through it raises. An unknown adapter leaves
  the job running for ever. `cancel_job` does not stop the executor, and
  `complete_job` overwrites the cancellation. A cancelled job that leaves the
  history while it runs restarts its line numbers. Nothing stops the log buffer
  at shutdown. A line above 64 KiB ends its reader, and the job may hang in
  `proc.wait()` (`job_executor.py:238`) or fail while the other reader goes on.
* *Backfill.* An exception of `discover()` or of a checkpoint ends in status
  `completed`. A failed citation leaves a row without its source for good.
  `cancel` touches the row only, and the run overwrites it. The cursor is the
  time of the last update, while resuming filters by the time of sending
  (`EditedStamp` of `MCBackfill`); only the first channel is read from the cursor
  on. A run that reaches its token budget ends as `paused`, the design document
  (line 556) says `completed`. An item that costs the whole budget stops every resumed run.
  Nothing calls `OrgMonthlyBudget.charge`.
* *Settings.* Nothing calls `resolve_approval` yet. Routes under `web/routes`
  write the settings table without lock or reload. The reloaders wired in
  `web/routes/ui.py` swallow their exceptions, so a change counts as reloaded. A
  merge of the UI is done on a value read outside the lock and may lose a field.
  A failed read counts as an empty value: the merge replaces the dict, the audit
  log starts again. `audit_id` is the length of the log and stays at its cap. A
  deleted credential stays in `os.environ`. `scheduler_cron` and `safety_approval`
  are checked for duplicates by the UI only, outside the lock: two appends at once
  store a name twice. A dict without `admin_users` leaves the old ones in force, a
  change of `tool_security`, `scheduler_cron` or `webhook_endpoints` has no effect
  before a restart, and of `llm` only the provider and the model are applied.

## 4. Proofs

All proofs hold for every value of the constants that satisfies the `ASSUME` of
the module: any set of steps, any valid plans and mutations; any jobs, workers, dispatchers, connections, runs, items, streams, tasks,
keys; any thresholds, sizes and limits; any number of each fault. All type
invariants are proved, and every safety invariant and action property of the
passing runs but `NoSecondDispatch`. No theorem has a hypothesis besides.

**CircuitBreaker_proofs.** `HalfOpenLimit` is not inductive: `IInv` adds the types,
`ClosedBelowThreshold` and `SlotsHeld` (every probe in flight holds a slot of the
present half-open period, and outside of one there is none). The counter bounds
the probes only while it stays in its range, which it does because every way out
of the period empties both. `OpenStaysOpen` follows from the
actions: only `Reset` takes open to closed.

**Flow_proofs.** The inductive invariant is
`SafetyInv = TypeOK /\ LogInv /\ ReadyInv /\ VerdictInv`:

* `LogInv` — the engine's `completed`, and every `step_completed` event
  anywhere on its way to the engine (both queues, Redis, the outgoing events of
  recovery and workers), is backed by the log (`done`). It is what makes
  decisions on a lagging view safe: the log only grows.
* `ReadyInv` — what `_schedule_next` holds in `todo`, and the step it is about
  to dispatch, have all dependencies in `done`. It survives the awaits between
  deciding and dispatching because the plan changes only when `todo` is empty.
* `VerdictInv` — a verdict in the log implies `finalized`.

From it: `VerdictOnce`, `CompletedIsDone` and `DispatchAfterDeps` (the last two
as action properties). `ValidPlansProgress` is a fact about `FlowDag`: whatever
is completed, some step of a valid plan is ready or all are completed.

`NoStepForgotten` needs a stronger statement than `NoOrphan`, because an event
in a queue is overtaken by what stands before it. `OrphanInv` says of every step
(`Kept`) that somebody works on it (`Working`: a task, the engine, recovery, or a
failure on its way to recovery) or that it rests (`Rests`): read the Redis
channel behind the engine's queue; the last event that says anything about the
step ends it (`Ended`), or nothing in them concerns it (`Quiet`) and the engine
does not hold it. Events are only appended at the end and taken from the front,
so each process has one lemma (`HandleKeeps`, `EngineKeeps`, `RecoveryKeeps`,
`WorkerKeeps`, `ListenerKeeps`, `AgentKeeps`) that it passes the step on before it
lets go. `Handed` says what a process has persisted and will emit.

The last part is about `FlowDagCheck`: `ValidateIsRight`, `OrderIsRight` and
`MutationIsRight`, for any ids and lists of any length. `SearchInv` is the classic
argument of the coloured search, stated of the stack:

* the gray nodes are the nodes on the stack, each once, and each depends on the
  node above it (`Path`); what a frame no longer has to look at is black or the
  node above (`Behind`);
* the black nodes are closed under dependency, and no non-empty set of them has
  every member depending on another one in it (`Colored`).

A dependency that is gray therefore closes a cycle (`BackEdge`: the part of the
stack from it upwards), so `validate()` never raises without one; a node turns
black when all it depends on is black, which adds no cycle (`FinishNoCycle`), so
none is missed when all are black. For `topological_order()` the places of the
order take the part of black (`Placed`), and that the DAG is valid keeps a node
from being called while it is on the stack. `ChangeInv` says of a mutation that
the list under search is the one the passes built; what they build is
`MutationFacts`, from one lemma per pass (`RemovedFacts`, `ModifiedFacts`,
`AddedFacts`). The filter of the first pass is a recursive function, and what it
keeps is shown by a least counterexample, as in `Settings_proofs`.

**FlowStore_proofs.** The lock holder is the only writer between the lock and
the end of its transaction, so the number it read is still the successor of the
last committed one: numbers never clash, the committed rows are a sequence,
replay reads a prefix. `StoreImplementsLog` is the refinement proof: `Commit`
is `LogAppend`, every other step a stutter.

**BgJobs_proofs.** `JobsInv` says of each row, loop and coroutine what it may
know: `RowPart` (the progress of a row is backed by tools that have returned),
`LoopPart` (so is the index of every loop that works on the job, doubled loops
included; at "end" the present step has run too), `OpPart` (a coroutine writes a
status other than completed). A row is written from a loop's index, a loop
starts from a row's progress, and `ran` only grows: `StepsAreNotSkipped`, with
any number of doubled tasks.

`OneTaskPerJob` proves `RowNamesTheTask` for any requests that interleave. A task
is sent only for a new job, a paused one, or after a restart, which is a fault.
`TaskInv` adds to `JobsInv`, for jobs outside `clash`, that at most one coroutine
has them in hand (`Alone`), which task it is about to send, revoke or write
(`OpTask`, `InHand`), and that a paused job has no task that may act, except
between the write of "paused" and the revocation (`JobTask`).

**Delivery_proofs.** `OutboxInv` for the dispatchers: their batches are disjoint
and in the outbox (`Apart`), what a batch calls done was published (`Dropless`),
and without a fault what is not locked has never been published (`Once`). From
it `NothingIsDropped` and `NoDuplicateWithoutFault`. `RelayInv` for the relay: an
acknowledged connection that works is subscribed, and what is owed to it is on
the bus or in the fan-out (`NothingIsMissed`), whichever others are removed in
between the two steps.

**Backfill_proofs.** `RunOK` ties the counts of a run to the item it is at, which
bounds them and gives `ReportsAddUp`; the tokens stay below the budget because
the gate compares with `>=` before charging. `PassedItemsSettled` shows that what
is settled stays settled, that a run is clear up to its frontier, and that a
cursor only names items below a frontier; it needs nothing of `Stamp`, since a
run always begins with the newest item.
`CountedOnce` counts pairs: `Indexed` is the set of (run, number of an indexed
item), and it has as many elements as there are items with a source. `CiteInv`
gives what a step needs: a run that is about to cite an item has found no row
for it, so the row is bare and no other run is about to cite it.

**CodingJobs_proofs.** `OrderStep` is about the writer's queue as a sequence: the
writes that make a row active are the first the tracker queues, so none of them
stands behind one that ends the job (`InOrder`); the row of a started job is
there, or in the queue, or lost (`Announced`). From it `EndedStaysEnded`, and
with `ReadyLines` (a line that has passed `join()` has its row)
`LinesHaveTheirJob`. `LinesCounted`: `Numbered` says that the numbers of a phase's
lines that wait, are buffered, are being flushed and are stored are disjoint
parts of the numbers given so far, with no number twice in one part (`Apart`),
and that with the lost ones they add up to the counter. Cardinalities of images
are taken by `OneToOne`.

**Settings_proofs.** `LockOK` is the argument of the key's lock: a task between
its read and the end of its reload stands at the head of the lock's queue, what
it is going to write is what its request makes of the value stored now, and what
it has written is still stored. From it `OthersAreKept` and `LiveIsStored`.
For `LiveIsStored`, `OverlaidType` says what a merging reloader leaves.
`ValuesOK` (no value of a validated list, stored or about to be, has a name twice)
gives `NamesUnique`;
`NumbersOK` (a number belongs to one request, which has run only if it has
written) gives `RunsOnce`; `ChangesAreAudited` is inductive with them, a trimmed
log being full. What filtering a list keeps is proved from `KeptUpTo`, a
recursive function on the positions, by a least counterexample: the set of
positions up to which a claim holds contains 0 and, with each, the next (`UpTo`).

**Only model-checked.** Liveness: `Recovers` (and its failure with the defaults),
`FlowSettles`, `SearchEnds`, `WorkIsDone`, `CancelStops`, `OwedIsSent`,
`StoredIsPublished`, `JobEnds`, `RowCatchesUp`, `RequestEnds`. Temporal reasoning
from fairness is outside what the prover handles. And `NoSecondDispatch`, whose
invariant would have to relate the two deliveries of each event to one another.

## 5. Not modelled

* start, stop and restart of engine and recovery: a restart loses `_states` and
  no code rebuilds them; the bus's queue limit of 1000 and its dropping of slow
  subscribers;
* the content of a subscription's backfill, the relay's access cache, presence
  and typing; idempotency keys, scheduled messages, edits and threads;
* dry runs of the backfill, the discovery of its adapters;
* the REST routes that bypass `SettingsService`;
* text, prompts, formatting, metrics, HTTP handlers, user interfaces.

Most of the repository's 118 000 lines are of these last kinds: pages
(`sdui/views`), routes, command lines, adapters of model, chat and cloud APIs,
installers. They hold no state of their own that several actors change, and a
model of them would only repeat them; `PROJECT.json` gives the reason per
component. The models cover the subsystems with shared state and concurrency,
which are a small part of the lines.

## 6. Plan

1. done — `CircuitBreaker`, `FlowDag`, `FlowDagCheck`, `Flow`, `FlowStore`,
   `FlowLog`, `BgJobs`, `Delivery`, `CodingJobs`, `Backfill`, `Settings`.
2. done — types, safety and action properties of all of these proved, and that
   `dag.py` computes what `FlowDag` defines.
3. `Commander` — results, offline queue, synchronisation of distributed agents.
4. `Idempotency` — the in-progress lock and its expiry.
5. The bus's queue limit in `Flow`; the content of the backfill in `Delivery`.
