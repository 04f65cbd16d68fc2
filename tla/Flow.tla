-------------------------------- MODULE Flow --------------------------------
(***************************************************************************)
(* flow/: one durable task flow from delegate_work to its verdict.         *)
(*                                                                         *)
(* Processes: the agent that creates the flow and proposes (and mutates)   *)
(* its DAG; the FlowEngine loop; the RecoveryController loop; the Celery   *)
(* workers.  They talk only through events.  publish() of the event bus is *)
(* two awaits, and two steps here: the event is persisted together with    *)
(* its projection (Persist), then handed to the subscribers (Emit); other  *)
(* publishers may run in between.  An event type that neither subscriber   *)
(* has a branch for is persisted but not queued.  The bus has a Redis      *)
(* client: a worker publishes on a bus of its own, without subscribers, so *)
(* only over Redis does the engine hear of a step at all.                  *)
(***************************************************************************)
EXTENDS FlowDag, Integers, Sequences

CONSTANTS
  Plans,             \* the DAGs the agent may propose
  Changes,           \* the mutations the agent may publish
  MaxAttempts,       \* RetryPolicy.max_attempts
  MaxLlmAttempts,    \* RetryPolicy.max_llm_attempts
  HasLlm,            \* does the RecoveryController have an LLM?
  Budget             \* bound: how often each kind of fault or mutation happens,
                     \* and any kind at all, to a flow with the given steps

Kinds == {"tool", "dispatch", "redispatch", "store", "redis", "crash", "kill",
          "mutate", "any"}

ASSUME FlowAssumption ==
  /\ Plans \subseteq {d \in Dags : Valid(d) /\ d.ids # {}}
  /\ Changes \subseteq Mutations
  /\ MaxAttempts \in Nat
  /\ MaxLlmAttempts \in Nat
  /\ HasLlm \in BOOLEAN
  /\ Budget \in [SUBSET Steps -> [Kinds -> Nat]]

VARIABLES
  (* flow_events, flows, flow_steps *)
  flowStatus,        \* flows.status
  stepStatus,        \* flow_steps.status, "none" while there is no row
  done,              \* steps with a STEP_COMPLETED event in the log
  verdicts,          \* the FLOW_COMPLETED and FLOW_FAILED events of the log
  retries,           \* rule_retry RECOVERY_ATTEMPTED events of each step
  (* FlowEventBus *)
  eq, rq,            \* subscription queues of the engine and of recovery
  redisq,            \* the flow_events:* channel
  (* FlowEngine: _FlowState, and where _handle stands *)
  planned, dag, completed, failed, queued, running, finalized,
  todo,              \* ready steps _schedule_next has still to queue
  ephase, eout,      \* its next await, and the event it has persisted
  (* RecoveryController *)
  cache,             \* steps in _step_cache
  llmUsed,           \* _llm_attempts
  rphase, rout,      \* its next await, and the event it has persisted
  rstep, rlayer,     \* the step it recovers, and the layer that does it
  (* Celery *)
  sent,              \* tasks in the broker, per step
  executing,         \* tasks whose tool runs, per step
  wout,              \* events persisted by a worker and not yet emitted
  (* environment *)
  agent,             \* what delegate_work has done
  faults             \* how many faults and mutations there were of each kind

storeVars    == <<flowStatus, stepStatus, done, verdicts, retries>>
busVars      == <<eq, rq, redisq>>
flowState    == <<planned, dag, completed, failed, queued, running, finalized>>
engineVars   == <<flowState, todo, ephase, eout>>
recoveryVars == <<cache, llmUsed, rphase, rout, rstep, rlayer>>
workerVars   == <<sent, executing, wout>>

vars == <<storeVars, busVars, engineVars, recoveryVars, workerVars, agent, faults>>

-----------------------------------------------------------------------------
(* Events *)

StepTypes == {"step_queued", "step_started", "step_completed",
              "escalation_raised"}

StepEvent(t, s)   == [type |-> t, step |-> s]
\* Engine and worker both report a failure with "attempt": 1.
Failure(s, trans) == [type |-> "step_failed", step |-> s,
                      transient |-> trans, attempt |-> 1]
Proposal(d)       == [type |-> "dag_proposed", dag |-> d]
Change(m)         == [type |-> "dag_mutated", mutation |-> m]

StepEvents   == [type : StepTypes, step : Steps]
Failures     == [type : {"step_failed"}, step : Steps,
                 transient : BOOLEAN, attempt : Nat]
Proposals    == [type : {"dag_proposed"}, dag : Plans]
ChangeEvents == [type : {"dag_mutated"}, mutation : Changes]

Events == StepEvents \cup Failures \cup Proposals \cup ChangeEvents

\* What an execute_flow_step task publishes.
WorkerEvents ==
  {StepEvent(t, s) : t \in {"step_started", "step_completed"}, s \in Steps}
    \cup {Failure(s, trans) : s \in Steps, trans \in BOOLEAN}

None   == [type |-> "none"]
NoStep == "none"

Rows == {s \in Steps : stepStatus[s] # "none"}

\* A fault or a mutation happens, within the bound.
Spend(k) ==
  /\ faults[k] < Budget[Rows][k] /\ faults["any"] < Budget[Rows]["any"]
  /\ faults' = [faults EXCEPT ![k] = @ + 1, !["any"] = @ + 1]

-----------------------------------------------------------------------------
(* FlowEventStore.append(): the event and its projection in one transaction *)

SetStep(s, status) ==
  stepStatus' = [stepStatus EXCEPT ![s] = IF @ = "none" THEN @ ELSE status]

PersistCreated ==
  /\ flowStatus' = "pending"
  /\ UNCHANGED <<stepStatus, done, verdicts, retries>>

PersistProposal(d) ==
  /\ stepStatus' = [s \in Steps |-> IF s \in d.ids /\ stepStatus[s] = "none"
                                    THEN "pending" ELSE stepStatus[s]]
  /\ UNCHANGED <<flowStatus, done, verdicts, retries>>

PersistQueued(s) ==
  /\ SetStep(s, "queued")
  /\ UNCHANGED <<flowStatus, done, verdicts, retries>>

PersistStarted(s) ==
  /\ SetStep(s, "running")
  /\ flowStatus' = "running"
  /\ UNCHANGED <<done, verdicts, retries>>

PersistCompleted(s) ==
  /\ SetStep(s, "completed")
  /\ done' = done \cup {s}
  /\ UNCHANGED <<flowStatus, verdicts, retries>>

PersistFailed(s) ==
  /\ SetStep(s, "failed")
  /\ UNCHANGED <<flowStatus, done, verdicts, retries>>

PersistEscalation ==
  /\ flowStatus' = "escalated"
  /\ UNCHANGED <<stepStatus, done, verdicts, retries>>

PersistVerdict(v) ==
  /\ flowStatus' = v
  /\ verdicts' = Append(verdicts, v)
  /\ UNCHANGED <<stepStatus, done, retries>>

\* RECOVERY_ATTEMPTED only moves flows.last_event_seq.
PersistRetry(s) ==
  /\ retries' = [retries EXCEPT ![s] = @ + 1]
  /\ UNCHANGED <<flowStatus, stepStatus, done, verdicts>>

-----------------------------------------------------------------------------
(* FlowEventBus *)

EngineHears   == StepTypes \cup {"step_failed", "dag_proposed", "dag_mutated"}
RecoveryHears == {"step_failed", "dag_proposed"}

\* _dispatch_local()
DispatchLocal(e) ==
  /\ eq' = IF e.type \in EngineHears THEN Append(eq, e) ELSE eq
  /\ rq' = IF e.type \in RecoveryHears THEN Append(rq, e) ELSE rq

\* publish() in the engine's process, once the event is persisted: the local
\* subscribers, then Redis, whose failure is only logged.
Emit(e) ==
  /\ DispatchLocal(e)
  /\ \/ redisq' = Append(redisq, e) /\ UNCHANGED faults
     \/ Spend("redis") /\ UNCHANGED redisq

\* publish() in a worker, on the bus of _build_worker_bus(), which has no
\* subscriber: Redis carries the event to the engine's process, or it is lost.
EmitWorker(e) ==
  /\ \/ redisq' = Append(redisq, e) /\ UNCHANGED faults
     \/ Spend("redis") /\ UNCHANGED redisq
  /\ UNCHANGED <<eq, rq>>

\* _redis_listener(): everything on the channel, this process's events too.
RedisListener ==
  /\ redisq # <<>>
  /\ redisq' = Tail(redisq)
  /\ DispatchLocal(Head(redisq))
  /\ UNCHANGED <<storeVars, engineVars, recoveryVars, workerVars, agent, faults>>

-----------------------------------------------------------------------------
(* The agent: delegate_work, later mutations *)

CreateFlow ==
  /\ agent = "new"
  /\ agent' = "created"
  /\ PersistCreated
  /\ UNCHANGED <<busVars, engineVars, recoveryVars, workerVars, faults>>

\* Nothing else acts on the flow before its DAG is out, so persisting and
\* emitting DAG_PROPOSED is one step.
ProposeDag(d) ==
  /\ agent = "created"
  /\ agent' = "proposed"
  /\ PersistProposal(d)
  /\ Emit(Proposal(d))
  /\ UNCHANGED <<engineVars, recoveryVars, workerVars>>

\* The generator raises: delegate_work reports an error, the flow stays.
GenerationFails ==
  /\ agent = "created"
  /\ agent' = "error"
  /\ UNCHANGED <<storeVars, busVars, engineVars, recoveryVars, workerVars, faults>>

\* The projection of DAG_MUTATED is last_event_seq only.
PublishChange(m) ==
  /\ agent = "proposed"
  /\ Spend("mutate")
  /\ DispatchLocal(Change(m))
  /\ redisq' = Append(redisq, Change(m))
  /\ UNCHANGED <<storeVars, engineVars, recoveryVars, workerVars, agent>>

-----------------------------------------------------------------------------
(* FlowEngine *)

EngineIdle == ephase = "idle" /\ todo = {}

\* Faulty: dependencies are not waited for.
ScheduleUnready(d, c, q, r) == d.ids \ (c \cup q \cup r)

\* The loop of _schedule_next: ready steps not queued and not running.
Schedule(d, c, q, r) == ReadySteps(d, c) \ (q \cup r)

\* Faulty: nothing queued or running is taken for everything completed.
AllDoneWhenQuiet(c, q, r) == planned /\ r = {} /\ q = {}

AllDone(c, q, r) == planned /\ c = dag.ids /\ r = {} /\ q = {}

Receive(t) ==
  /\ EngineIdle
  /\ eq # <<>> /\ Head(eq).type = t
  /\ eq' = Tail(eq)
  /\ UNCHANGED <<rq, redisq, ephase, eout, recoveryVars, workerVars, agent>>

HandleDagProposed ==
  /\ Receive("dag_proposed")
  /\ planned' = TRUE
  /\ dag' = Head(eq).dag
  /\ todo' = Schedule(Head(eq).dag, completed, queued, running)
  /\ UNCHANGED <<storeVars, completed, failed, queued, running, finalized, faults>>

\* Faulty: a started step is neither queued nor running.
HandleStepStartedForgets ==
  /\ Receive("step_started")
  /\ queued' = queued \ {Head(eq).step}
  /\ running' = running
  /\ UNCHANGED <<storeVars, planned, dag, completed, failed, finalized, todo, faults>>

HandleStepStarted ==
  /\ Receive("step_started")
  /\ queued' = queued \ {Head(eq).step}
  /\ running' = running \cup {Head(eq).step}
  /\ UNCHANGED <<storeVars, planned, dag, completed, failed, finalized, todo, faults>>

\* Faulty: finalized is set and never looked at.
ConcludeAgain(v) ==
  /\ finalized' = TRUE
  /\ PersistVerdict(v) /\ UNCHANGED faults

\* The verdict is final for the engine even if publishing it raises.
Conclude(v) ==
  /\ ~finalized
  /\ finalized' = TRUE
  /\ \/ PersistVerdict(v) /\ UNCHANGED faults
     \/ Spend("store") /\ UNCHANGED storeVars

HandleStepCompleted ==
  LET s  == Head(eq).step
      cs == completed \cup {s}
      qs == queued \ {s}
      rs == running \ {s}
  IN /\ Receive("step_completed")
     /\ completed' = cs /\ queued' = qs /\ running' = rs
     /\ \/ /\ AllDone(cs, qs, rs)
           /\ Conclude("completed")
           /\ UNCHANGED todo
        \/ /\ ~AllDone(cs, qs, rs) \/ finalized
           /\ todo' = IF planned THEN Schedule(dag, cs, qs, rs) ELSE {}
           /\ UNCHANGED <<storeVars, finalized, faults>>
     /\ UNCHANGED <<planned, dag, failed>>

HandleStepFailed ==
  /\ Receive("step_failed")
  /\ queued' = queued \ {Head(eq).step}
  /\ running' = running \ {Head(eq).step}
  /\ failed' = failed \cup {Head(eq).step}
  /\ UNCHANGED <<storeVars, planned, dag, completed, finalized, todo, faults>>

HandleEscalation ==
  /\ Receive("escalation_raised")
  /\ \/ Conclude("failed")
     \/ finalized /\ UNCHANGED <<storeVars, finalized, faults>>
  /\ UNCHANGED <<planned, dag, completed, failed, queued, running, todo>>

HandleDagMutated ==
  LET m == Head(eq).mutation
  IN /\ Receive("dag_mutated")
     /\ \/ /\ planned /\ ~finalized /\ Applicable(dag, m)
           /\ dag' = Mutated(dag, m)
           /\ completed' = completed \ m.removed
           /\ failed' = failed \ m.removed
           /\ queued' = queued \ m.removed
           /\ running' = running \ m.removed
           /\ todo' = Schedule(dag', completed', queued', running')
        \/ /\ ~planned \/ finalized \/ ~Applicable(dag, m)
           /\ UNCHANGED <<dag, completed, failed, queued, running, todo>>
     /\ UNCHANGED <<storeVars, planned, finalized, faults>>

HandleStepQueued ==
  /\ Receive("step_queued")
  /\ queued' = queued \cup {Head(eq).step}
  /\ failed' = failed \ {Head(eq).step}
  /\ UNCHANGED <<storeVars, planned, dag, completed, running, finalized, todo, faults>>

Handle ==
  \/ HandleDagProposed \/ HandleStepStarted \/ HandleStepCompleted
  \/ HandleStepFailed \/ HandleEscalation \/ HandleDagMutated \/ HandleStepQueued

\* One turn of the loop of _schedule_next: mark the step, publish
\* STEP_QUEUED; if that raises, _handle is left and the rest is not scheduled.
QueueStep(s) ==
  /\ ephase = "idle" /\ s \in todo
  /\ queued' = queued \cup {s}
  /\ \/ /\ PersistQueued(s)
        /\ ephase' = "emit"
        /\ eout' = StepEvent("step_queued", s)
        /\ todo' = todo \ {s}
        /\ UNCHANGED faults
     \/ /\ Spend("store")
        /\ todo' = {}
        /\ UNCHANGED <<storeVars, ephase, eout>>
  /\ UNCHANGED <<busVars, planned, dag, completed, failed, running, finalized,
                 recoveryVars, workerVars, agent>>

EngineEmit ==
  /\ ephase = "emit"
  /\ Emit(eout)
  /\ IF eout.type = "step_queued"
     THEN ephase' = "dispatch" /\ UNCHANGED eout
     ELSE ephase' = "idle" /\ eout' = None
  /\ UNCHANGED <<storeVars, flowState, todo, recoveryVars, workerVars, agent>>

EngineDispatch ==
  /\ ephase = "dispatch"
  /\ \/ /\ sent' = [sent EXCEPT ![eout.step] = @ + 1]
        /\ ephase' = "idle" /\ eout' = None
        /\ UNCHANGED faults
     \/ /\ Spend("dispatch")
        /\ ephase' = "fail"
        /\ UNCHANGED <<sent, eout>>
  /\ UNCHANGED <<storeVars, busVars, flowState, todo, recoveryVars, executing,
                 wout, agent>>

\* The dispatch raised: publish STEP_FAILED for the step.
EngineDispatchFailed ==
  /\ ephase = "fail"
  /\ \/ /\ PersistFailed(eout.step)
        /\ \E trans \in BOOLEAN : eout' = Failure(eout.step, trans)
        /\ ephase' = "emit"
        /\ UNCHANGED <<todo, faults>>
     \/ /\ Spend("store")
        /\ ephase' = "idle" /\ eout' = None
        /\ todo' = {}
        /\ UNCHANGED storeVars
  /\ UNCHANGED <<busVars, flowState, recoveryVars, workerVars, agent>>

Engine ==
  Handle \/ (\E s \in Steps : QueueStep(s)) \/ EngineEmit \/ EngineDispatch
    \/ EngineDispatchFailed

-----------------------------------------------------------------------------
(* RecoveryController *)

RecoveryHandlesProposal ==
  /\ rphase = "idle"
  /\ rq # <<>> /\ Head(rq).type = "dag_proposed"
  /\ rq' = Tail(rq)
  /\ cache' = cache \cup Head(rq).dag.ids
  /\ UNCHANGED <<storeVars, eq, redisq, engineVars, llmUsed, rphase, rout,
                 rstep, rlayer, workerVars, agent, faults>>

CanRetry(e) == e.transient /\ e.attempt < MaxAttempts

LlmAvailable(s) == HasLlm /\ llmUsed[s] < MaxLlmAttempts /\ s \in cache

\* _try_recover() up to its first await
RecoveryHandlesFailure ==
  LET e == Head(rq)
  IN /\ rphase = "idle"
     /\ rq # <<>> /\ e.type = "step_failed"
     /\ rq' = Tail(rq)
     /\ rstep' = e.step
     /\ \/ /\ CanRetry(e)
           /\ rphase' = "backoff" /\ rlayer' = 1
           /\ UNCHANGED llmUsed
        \/ /\ ~CanRetry(e) /\ LlmAvailable(e.step)
           /\ llmUsed' = [llmUsed EXCEPT ![e.step] = @ + 1]
           /\ rphase' = "llm" /\ rlayer' = 2
        \/ /\ ~CanRetry(e) /\ ~LlmAvailable(e.step)
           /\ rphase' = "escalate" /\ rlayer' = 1
           /\ UNCHANGED llmUsed
     /\ UNCHANGED <<storeVars, eq, redisq, engineVars, cache, rout, workerVars,
                    agent, faults>>

\* After the backoff sleep: RECOVERY_ATTEMPTED, and the step must be cached.
RuleRetry ==
  /\ rphase = "backoff"
  /\ PersistRetry(rstep)
  /\ rphase' = IF rstep \in cache THEN "requeue" ELSE "escalate"
  /\ UNCHANGED <<busVars, engineVars, cache, llmUsed, rout, rstep, rlayer,
                 workerVars, agent, faults>>

\* _llm_recover(): retry and replace differ only in the tool and arguments
\* they dispatch; an unusable answer raises and is escalated.
LlmRecover ==
  /\ rphase = "llm"
  /\ \/ rphase' \in {"requeue", "complete", "escalate"} /\ UNCHANGED rlayer
     \/ rphase' = "escalate" /\ rlayer' = 1
  /\ UNCHANGED <<storeVars, busVars, engineVars, cache, llmUsed, rout, rstep,
                 workerVars, agent, faults>>

RecoveryQueues ==
  /\ rphase = "requeue"
  /\ PersistQueued(rstep)
  /\ rphase' = "emit"
  /\ rout' = StepEvent("step_queued", rstep)
  /\ UNCHANGED <<busVars, engineVars, cache, llmUsed, rstep, rlayer,
                 workerVars, agent, faults>>

\* skip_and_continue publishes a synthetic STEP_COMPLETED.
RecoverySkips ==
  /\ rphase = "complete"
  /\ PersistCompleted(rstep)
  /\ rphase' = "emit"
  /\ rout' = StepEvent("step_completed", rstep)
  /\ UNCHANGED <<busVars, engineVars, cache, llmUsed, rstep, rlayer,
                 workerVars, agent, faults>>

Escalate ==
  /\ rphase = "escalate"
  /\ PersistEscalation
  /\ rphase' = "emit"
  /\ rout' = StepEvent("escalation_raised", rstep)
  /\ UNCHANGED <<busVars, engineVars, cache, llmUsed, rstep, rlayer,
                 workerVars, agent, faults>>

\* Faulty: the step is queued again but never dispatched.
RecoveryEmitOnly ==
  /\ rphase = "emit"
  /\ Emit(rout)
  /\ rphase' = "idle" /\ rout' = None
  /\ UNCHANGED <<storeVars, engineVars, cache, llmUsed, rstep, rlayer,
                 workerVars, agent>>

RecoveryEmit ==
  /\ rphase = "emit"
  /\ Emit(rout)
  /\ rphase' = IF rout.type = "step_queued" THEN "dispatch" ELSE "idle"
  /\ rout' = None
  /\ UNCHANGED <<storeVars, engineVars, cache, llmUsed, rstep, rlayer,
                 workerVars, agent>>

\* A dispatch that raises is escalated in both layers.
RecoveryDispatch ==
  /\ rphase = "dispatch"
  /\ \/ /\ sent' = [sent EXCEPT ![rstep] = @ + 1]
        /\ rphase' = "idle"
        /\ UNCHANGED <<rlayer, faults>>
     \/ /\ Spend("redispatch")
        /\ rphase' = "escalate" /\ rlayer' = 1
        /\ UNCHANGED sent
  /\ UNCHANGED <<storeVars, busVars, engineVars, cache, llmUsed, rout, rstep,
                 executing, wout, agent>>

\* Persisting raises: layer 2 escalates, layer 1 leaves the handler.
RecoveryStoreFails ==
  /\ rphase \in {"backoff", "requeue", "complete", "escalate"}
  /\ Spend("store")
  /\ rphase' = IF rlayer = 2 THEN "escalate" ELSE "idle"
  /\ rlayer' = 1
  /\ UNCHANGED <<storeVars, busVars, engineVars, cache, llmUsed, rout, rstep,
                 workerVars, agent>>

Recovery ==
  \/ RecoveryHandlesProposal \/ RecoveryHandlesFailure \/ RuleRetry \/ LlmRecover
  \/ RecoveryQueues \/ RecoverySkips \/ Escalate \/ RecoveryEmit
  \/ RecoveryDispatch \/ RecoveryStoreFails

-----------------------------------------------------------------------------
(* Celery workers: execute_flow_step() *)

Take(f, s) == [f EXCEPT ![s] = @ - 1]
Put(f, s)  == [f EXCEPT ![s] = @ + 1]

\* _safe_publish() swallows a store error: the tool runs all the same.
WorkerStart(s) ==
  /\ sent[s] > 0
  /\ sent' = Take(sent, s)
  /\ \/ /\ PersistStarted(s)
        /\ wout' = Put(wout, StepEvent("step_started", s))
        /\ UNCHANGED <<executing, faults>>
     \/ /\ Spend("store")
        /\ executing' = Put(executing, s)
        /\ UNCHANGED <<storeVars, wout>>
  /\ UNCHANGED <<busVars, engineVars, recoveryVars, agent>>

\* A result that is not persisted is lost; so is a failure, which then looks
\* the same to everyone else and has no disjunct of its own.
WorkerSucceed(s) ==
  /\ executing[s] > 0
  /\ executing' = Take(executing, s)
  /\ \/ /\ PersistCompleted(s)
        /\ wout' = Put(wout, StepEvent("step_completed", s))
        /\ UNCHANGED faults
     \/ Spend("store") /\ UNCHANGED <<storeVars, wout>>
  /\ UNCHANGED <<busVars, engineVars, recoveryVars, sent, agent>>

WorkerFail(s, trans) ==
  /\ executing[s] > 0
  /\ Spend("tool")
  /\ executing' = Take(executing, s)
  /\ PersistFailed(s)
  /\ wout' = Put(wout, Failure(s, trans))
  /\ UNCHANGED <<busVars, engineVars, recoveryVars, sent, agent>>

WorkerEmit(e) ==
  /\ wout[e] > 0
  /\ wout' = Take(wout, e)
  /\ EmitWorker(e)
  /\ executing' = IF e.type = "step_started" THEN Put(executing, e.step)
                  ELSE executing
  /\ UNCHANGED <<storeVars, engineVars, recoveryVars, sent, agent>>

\* The worker of a task stops before the task's next event is out.
Abandoned(s) ==
  \/ /\ executing[s] > 0
     /\ executing' = Take(executing, s)
     /\ UNCHANGED wout
  \/ \E e \in WorkerEvents :
       /\ e.step = s /\ wout[e] > 0
       /\ wout' = Take(wout, e)
       /\ UNCHANGED executing

\* It stops when the result is out and the task is not yet acknowledged.
Unacknowledged(s) ==
  \E e \in WorkerEvents :
    /\ e.step = s /\ e.type # "step_started" /\ wout[e] > 0
    /\ wout' = Take(wout, e)
    /\ redisq' = Append(redisq, e)
    /\ UNCHANGED executing

\* task_acks_late: when the worker dies, the broker delivers its task again.
WorkerCrash(s) ==
  /\ Spend("crash")
  /\ sent' = Put(sent, s)
  /\ (Abandoned(s) /\ UNCHANGED redisq) \/ Unacknowledged(s)
  /\ UNCHANGED <<storeVars, eq, rq, engineVars, recoveryVars, agent>>

\* When only its pool process is killed, the worker acknowledges the task
\* (task_reject_on_worker_lost is not set), and nobody has it any more.
WorkerKilled(s) ==
  /\ Spend("kill")
  /\ Abandoned(s)
  /\ UNCHANGED <<storeVars, busVars, engineVars, recoveryVars, sent, agent>>

-----------------------------------------------------------------------------
Init ==
  /\ flowStatus = "none" /\ stepStatus = [s \in Steps |-> "none"]
  /\ done = {} /\ verdicts = <<>> /\ retries = [s \in Steps |-> 0]
  /\ eq = <<>> /\ rq = <<>> /\ redisq = <<>>
  /\ planned = FALSE /\ dag = [ids |-> {}, deps |-> NoDeps]
  /\ completed = {} /\ failed = {} /\ queued = {} /\ running = {}
  /\ finalized = FALSE
  /\ todo = {} /\ ephase = "idle" /\ eout = None
  /\ cache = {} /\ llmUsed = [s \in Steps |-> 0]
  /\ rphase = "idle" /\ rout = None /\ rstep = NoStep /\ rlayer = 1
  /\ sent = [s \in Steps |-> 0] /\ executing = [s \in Steps |-> 0]
  /\ wout = [e \in WorkerEvents |-> 0]
  /\ agent = "new" /\ faults = [k \in Kinds |-> 0]

Agent ==
  \/ CreateFlow \/ GenerationFails
  \/ \E d \in Plans : ProposeDag(d)
  \/ \E m \in Changes : PublishChange(m)

Worker ==
  \/ \E s \in Steps : WorkerStart(s) \/ WorkerSucceed(s)
       \/ WorkerCrash(s) \/ WorkerKilled(s)
  \/ \E s \in Steps, trans \in BOOLEAN : WorkerFail(s, trans)
  \/ \E e \in WorkerEvents : WorkerEmit(e)

Next == Agent \/ RedisListener \/ Engine \/ Recovery \/ Worker

Spec == Init /\ [][Next]_vars

\* The two asyncio loops, the Redis listener and the Celery workers keep
\* running; a tool that is started returns or raises.  Nothing is assumed of
\* the agent's mutations, nor that any fault happens or fails to happen.
Fairness ==
  /\ WF_vars(Engine) /\ WF_vars(Recovery) /\ WF_vars(RedisListener)
  /\ \A s \in Steps :
       /\ WF_vars(WorkerStart(s))
       /\ WF_vars(WorkerSucceed(s) \/ \E trans \in BOOLEAN : WorkerFail(s, trans))
  /\ \A e \in WorkerEvents : WF_vars(WorkerEmit(e))

FairSpec == Spec /\ Fairness

-----------------------------------------------------------------------------
(* Properties *)

FlowStatuses == {"none", "pending", "running", "escalated", "completed", "failed"}
StepStatuses == {"none", "pending", "queued", "running", "completed", "failed"}
Verdicts     == {"completed", "failed"}

StoreType ==
  /\ flowStatus \in FlowStatuses
  /\ stepStatus \in [Steps -> StepStatuses]
  /\ done \in SUBSET Steps
  /\ verdicts \in Seq(Verdicts)
  /\ retries \in [Steps -> Nat]

BusType ==
  /\ eq \in Seq(Events)
  /\ rq \in Seq(Failures \cup Proposals)
  /\ redisq \in Seq(Events)

EngineType ==
  /\ planned \in BOOLEAN /\ finalized \in BOOLEAN
  /\ dag \in Dags
  /\ completed \in SUBSET Steps /\ failed \in SUBSET Steps
  /\ queued \in SUBSET Steps /\ running \in SUBSET Steps
  /\ todo \in SUBSET Steps
  /\ ephase \in {"idle", "emit", "dispatch", "fail"}
  /\ ephase = "emit" => eout \in StepEvents \cup Failures
  /\ ephase \in {"dispatch", "fail"} => eout \in StepEvents

RecoveryType ==
  /\ cache \in SUBSET Steps /\ llmUsed \in [Steps -> Nat]
  /\ rphase \in {"idle", "backoff", "llm", "requeue", "complete", "escalate",
                 "emit", "dispatch"}
  /\ rphase # "idle" => rstep \in Steps
  /\ rphase = "emit" => rout \in StepEvents
  /\ rlayer \in {1, 2}

WorkerType ==
  /\ sent \in [Steps -> Nat] /\ executing \in [Steps -> Nat]
  /\ wout \in [WorkerEvents -> Nat]

\* The types of what the tables, the queues and the processes hold; an event
\* about to be emitted and a step under recovery are real ones.
TypeOK ==
  /\ StoreType /\ BusType /\ EngineType /\ RecoveryType /\ WorkerType
  /\ agent \in {"new", "created", "proposed", "error"}
  /\ faults \in [Kinds -> Nat]

\* A flow gets at most one verdict, however many escalations, retries and
\* duplicate completions reach the engine.
OneVerdict == Len(verdicts) <= 1

\* The engine declares FLOW_COMPLETED only when every step of the plan in force
\* has a STEP_COMPLETED event in the log: it decides on its own, lagging and
\* possibly duplicated, view of the events.
CompletedMeansDone ==
  [][verdicts' # verdicts /\ verdicts'[Len(verdicts')] = "completed"
       => dag.ids \subseteq done]_vars

\* When the engine dispatches a step, every step it depends on in the plan in
\* force has completed: ready_steps() reads the engine's own view of the log,
\* which lags behind it.
DepsBeforeDispatch ==
  [][\A s \in Steps :
       /\ ephase = "dispatch" /\ ephase' # ephase /\ sent'[s] > sent[s]
       => dag.deps[s] \subseteq done]_vars

StepsIn(q) == {q[i].step : i \in {j \in DOMAIN q : "step" \in DOMAIN q[j]}}

\* Something still to happen concerns the step.
InProgress(s) ==
  \/ sent[s] + executing[s] > 0
  \/ \E e \in WorkerEvents : e.step = s /\ wout[e] > 0
  \/ s \in StepsIn(eq) \cup StepsIn(rq) \cup StepsIn(redisq)
  \/ s \in todo
  \/ ephase # "idle" /\ eout.step = s
  \/ rphase # "idle" /\ rstep = s

\* So far no append and no Redis publish has failed, and no pool process was
\* killed with a task.
NothingLost == \A k \in {"store", "redis", "kill"} : faults[k] = 0

\* No step is forgotten while nothing is lost: one the engine holds as queued,
\* running or failed has a task, an event or a recovery on the way (or the flow
\* is finished).  It is what keeps all_done() reachable.
NoOrphan ==
  NothingLost =>
    \A s \in queued \cup running \cup (failed \ completed) :
      InProgress(s) \/ finalized

\* A step is dispatched a second time only after a failure: while no tool and no
\* dispatch has failed and the plan is not mutated, neither the second DAG_PROPOSED
\* that comes back over Redis, nor the completion of another branch, nor a
\* redelivered task makes anyone dispatch a step that has a task or is completed.
NoSecondDispatch ==
  [][\A s \in Steps :
       /\ sent'[s] > sent[s] /\ faults'["crash"] = faults["crash"]
       /\ \A k \in {"tool", "dispatch", "redispatch", "mutate"} : faults[k] = 0
       => /\ sent[s] + executing[s] = 0 /\ s \notin done
          /\ \A e \in WorkerEvents : e.step = s => wout[e] = 0]_vars

NotMutated == faults["mutate"] = 0

\* A planned flow gets its verdict, unless an event or a task is lost or the
\* plan is mutated, and provided its tools fail finitely often: no failure,
\* retry, escalation, redelivery or duplicate leaves it waiting for ever.
\* (A tool that keeps failing with a transient error is retried for ever: every
\* failure is reported as attempt 1, so CanRetry never gives up.)
FlowSettles == planned ~> (verdicts # <<>> \/ ~NothingLost \/ ~NotMutated)
=============================================================================
