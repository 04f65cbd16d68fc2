----------------------------- MODULE Flow_proofs ----------------------------
(***************************************************************************)
(* Proofs about Flow for every set of steps, every plan and mutation,      *)
(* every retry policy and any number of faults;                            *)
(* and, in the last part, about FlowDagCheck: that dag.py computes what    *)
(* FlowDag defines, on lists of any length.                                *)
(***************************************************************************)
EXTENDS Flow, FlowDagCheck, SequenceTheorems, WellFoundedInduction, TLAPS

-----------------------------------------------------------------------------
(* Events *)

\* The fields an event has, by its type.
LEMMA EventFields ==
  ASSUME NEW e \in Events
  PROVE  /\ e.type \in StepTypes \cup {"step_failed"} => e.step \in Steps
         /\ e.type = "dag_proposed" => e.dag \in Plans
         /\ e.type = "dag_mutated" => e.mutation \in Changes
         /\ e.type \in RecoveryHears => e \in Failures \cup Proposals
  BY DEF Events, StepEvents, Failures, Proposals, ChangeEvents, StepTypes,
         RecoveryHears

\* The events the processes build are events.
LEMMA EventTypes ==
  /\ \A s \in Steps, t \in StepTypes : StepEvent(t, s) \in StepEvents
  /\ \A s \in Steps, trans \in BOOLEAN : Failure(s, trans) \in Failures
  /\ \A d \in Plans : Proposal(d) \in Proposals
  /\ \A m \in Changes : Change(m) \in ChangeEvents
  /\ StepEvents \subseteq Events /\ Failures \subseteq Events
  /\ Proposals \subseteq Events /\ ChangeEvents \subseteq Events
  BY DEF StepEvent, Failure, Proposal, Change, StepEvents, Failures, Proposals,
         ChangeEvents, Events

\* What a worker publishes is an event about one of the steps.
LEMMA WorkerEventTypes ==
  ASSUME NEW e \in WorkerEvents
  PROVE  e \in Events /\ e.step \in Steps
<1>1. CASE e \in {StepEvent(t, s) : t \in {"step_started", "step_completed"}, s \in Steps}
  BY <1>1 DEF StepEvent, StepEvents, Events, StepTypes
<1>2. CASE e \in {Failure(s, trans) : s \in Steps, trans \in BOOLEAN}
  <2>1. PICK s \in Steps, trans \in BOOLEAN : e = Failure(s, trans)
    BY <1>2
  <2> QED
    BY <2>1, EventTypes DEF Failure
<1> QED
  BY <1>1, <1>2 DEF WorkerEvents

\* The workers' events are indices of wout.
LEMMA WorkerEventsBuilt ==
  ASSUME NEW s \in Steps
  PROVE  /\ StepEvent("step_started", s) \in WorkerEvents
         /\ StepEvent("step_completed", s) \in WorkerEvents
         /\ \A trans \in BOOLEAN : Failure(s, trans) \in WorkerEvents
  BY DEF WorkerEvents

-----------------------------------------------------------------------------
(* Types: the store and the bus *)

FaultsType == faults \in [Kinds -> Nat]

\* A fault is one more of its kind.
LEMMA SpendType ==
  ASSUME FaultsType, NEW k \in Kinds \ {"any"}, Spend(k)
  PROVE  FaultsType'
  BY DEF FaultsType, Spend, Kinds

\* A projection update keeps the tables well typed and the log only grows.
LEMMA PersistType ==
  ASSUME StoreType, NEW s \in Steps,
         \/ PersistQueued(s) \/ PersistStarted(s) \/ PersistCompleted(s)
         \/ PersistFailed(s) \/ PersistEscalation \/ PersistRetry(s)
         \/ UNCHANGED storeVars
  PROVE  StoreType' /\ done \subseteq done' /\ verdicts' = verdicts
<1>1. CASE PersistQueued(s) \/ PersistStarted(s)
  BY <1>1 DEF StoreType, PersistQueued, PersistStarted, SetStep, StepStatuses, FlowStatuses
<1>2. CASE PersistCompleted(s) \/ PersistFailed(s)
  BY <1>2 DEF StoreType, PersistCompleted, PersistFailed, SetStep, StepStatuses
<1>3. CASE PersistEscalation \/ PersistRetry(s) \/ UNCHANGED storeVars
  BY <1>3 DEF StoreType, PersistEscalation, PersistRetry, storeVars, FlowStatuses
<1> QED
  BY <1>1, <1>2, <1>3

\* A verdict is appended to the log.
LEMMA VerdictType ==
  ASSUME StoreType, NEW v \in Verdicts, PersistVerdict(v)
  PROVE  StoreType' /\ done' = done /\ verdicts' = Append(verdicts, v)
<1>1. verdicts' \in Seq(Verdicts)
  BY AppendProperties DEF StoreType, PersistVerdict
<1> QED
  BY <1>1 DEF StoreType, PersistVerdict, Verdicts, FlowStatuses

\* The queues take one more event of the right kind.
LEMMA DispatchType ==
  ASSUME BusType, NEW e \in Events, DispatchLocal(e)
  PROVE  eq' \in Seq(Events) /\ rq' \in Seq(Failures \cup Proposals)
<1>1. eq' \in Seq(Events)
  BY AppendProperties DEF BusType, DispatchLocal
<1>2. CASE e.type \in RecoveryHears
  <2>1. e \in Failures \cup Proposals
    BY <1>2, EventFields
  <2> QED
    BY <1>1, <1>2, <2>1, AppendProperties DEF BusType, DispatchLocal
<1>3. CASE e.type \notin RecoveryHears
  BY <1>1, <1>3 DEF BusType, DispatchLocal
<1> QED
  BY <1>2, <1>3

\* Emitting an event, from either side of Redis.
LEMMA EmitType ==
  ASSUME BusType, FaultsType, NEW e \in Events, Emit(e) \/ EmitWorker(e)
  PROVE  BusType' /\ FaultsType'
<1>1. "redis" \in Kinds
  BY DEF Kinds
<1>2. FaultsType'
  <2>1. Spend("redis") \/ UNCHANGED faults
    BY DEF Emit, EmitWorker
  <2>2. CASE Spend("redis")
    BY <1>1, <2>2, SpendType
  <2>3. CASE UNCHANGED faults
    BY <2>3 DEF FaultsType
  <2> QED
    BY <2>1, <2>2, <2>3
<1>3. eq' \in Seq(Events) /\ rq' \in Seq(Failures \cup Proposals)
  <2>1. DispatchLocal(e) \/ UNCHANGED <<eq, rq>>
    BY DEF Emit, EmitWorker
  <2>2. CASE DispatchLocal(e)
    BY <2>2, DispatchType
  <2>3. CASE UNCHANGED <<eq, rq>>
    BY <2>3 DEF BusType
  <2> QED
    BY <2>1, <2>2, <2>3
<1>4. redisq' \in Seq(Events)
  <2>1. redisq' = Append(redisq, e) \/ UNCHANGED redisq
    BY DEF Emit, EmitWorker
  <2> QED
    BY <2>1, AppendProperties DEF BusType
<1> QED
  BY <1>2, <1>3, <1>4 DEF BusType

-----------------------------------------------------------------------------
(* Type correctness, one lemma per process *)

\* What a process does not touch keeps its type.
LEMMA TypesUnchanged ==
  /\ StoreType /\ UNCHANGED storeVars => StoreType'
  /\ BusType /\ UNCHANGED busVars => BusType'
  /\ EngineType /\ UNCHANGED engineVars => EngineType'
  /\ RecoveryType /\ UNCHANGED recoveryVars => RecoveryType'
  /\ WorkerType /\ UNCHANGED workerVars => WorkerType'
  /\ FaultsType /\ UNCHANGED faults => FaultsType'
<1>1. StoreType /\ UNCHANGED storeVars => StoreType'
  BY DEF StoreType, storeVars
<1>2. BusType /\ UNCHANGED busVars => BusType'
  BY DEF BusType, busVars
<1>3. EngineType /\ UNCHANGED engineVars => EngineType'
  BY DEF EngineType, engineVars, flowState
<1>4. RecoveryType /\ UNCHANGED recoveryVars => RecoveryType'
  BY DEF RecoveryType, recoveryVars
<1>5. WorkerType /\ UNCHANGED workerVars => WorkerType'
  BY DEF WorkerType, workerVars
<1>6. FaultsType /\ UNCHANGED faults => FaultsType'
  BY DEF FaultsType
<1> QED
  BY <1>1, <1>2, <1>3, <1>4, <1>5, <1>6

\* The agent's steps keep the types.
LEMMA AgentType ==
  ASSUME TypeOK, Agent
  PROVE  TypeOK'
<1>1. CASE CreateFlow
  <2>1. StoreType'
    BY <1>1 DEF TypeOK, StoreType, CreateFlow, PersistCreated, FlowStatuses
  <2> QED
    BY <1>1, <2>1, TypesUnchanged DEF TypeOK, CreateFlow, FaultsType
<1>2. CASE GenerationFails
  BY <1>2, TypesUnchanged DEF TypeOK, GenerationFails, FaultsType
<1>3. ASSUME NEW d \in Plans, ProposeDag(d)
      PROVE  TypeOK'
  <2>1. StoreType'
    BY <1>3 DEF TypeOK, StoreType, ProposeDag, PersistProposal, StepStatuses
  <2>2. BusType' /\ FaultsType'
    BY <1>3, EventTypes, EmitType DEF TypeOK, ProposeDag, FaultsType
  <2> QED
    BY <1>3, <2>1, <2>2, TypesUnchanged DEF TypeOK, ProposeDag, FaultsType
<1>4. ASSUME NEW m \in Changes, PublishChange(m)
      PROVE  TypeOK'
  <2>1. Change(m) \in Events /\ "mutate" \in Kinds
    BY EventTypes DEF Kinds
  <2>2. FaultsType'
    BY <1>4, <2>1, SpendType DEF TypeOK, PublishChange, FaultsType
  <2>3. eq' \in Seq(Events) /\ rq' \in Seq(Failures \cup Proposals)
    BY <1>4, <2>1, DispatchType DEF TypeOK, PublishChange
  <2>4. redisq' \in Seq(Events)
    BY <1>4, <2>1, AppendProperties DEF TypeOK, BusType, PublishChange
  <2>5. BusType'
    BY <2>3, <2>4 DEF BusType
  <2> QED
    BY <1>4, <2>2, <2>5, TypesUnchanged DEF TypeOK, PublishChange, FaultsType
<1> QED
  BY <1>1, <1>2, <1>3, <1>4 DEF Agent

\* So does the Redis listener.
LEMMA ListenerType ==
  ASSUME TypeOK, RedisListener
  PROVE  TypeOK'
<1>1. Head(redisq) \in Events /\ Tail(redisq) \in Seq(Events)
  BY HeadTailProperties DEF TypeOK, BusType, RedisListener
<1>2. BusType'
  BY <1>1, DispatchType DEF TypeOK, BusType, RedisListener
<1> QED
  BY <1>2, TypesUnchanged DEF TypeOK, RedisListener, FaultsType

-----------------------------------------------------------------------------
\* The plan in force stays a DAG when it is mutated.
LEMMA MutatedType ==
  ASSUME NEW d \in Dags, NEW m \in Mutations
  PROVE  Mutated(d, m) \in Dags /\ m.removed \subseteq Steps
  BY DEF Dags, Mutations, Mutated

\* Only steps are scheduled.
LEMMA ScheduleType ==
  ASSUME NEW d \in Dags, NEW c, NEW q, NEW r
  PROVE  Schedule(d, c, q, r) \subseteq Steps
  BY DEF Schedule, ReadySteps, Dags

\* A verdict, published or lost.
LEMMA ConcludeType ==
  ASSUME StoreType, FaultsType, NEW v \in Verdicts, Conclude(v)
  PROVE  StoreType' /\ FaultsType' /\ finalized' = TRUE /\ done' = done
<1>1. "store" \in Kinds
  BY DEF Kinds
<1>2. FaultsType'
  BY <1>1, SpendType DEF Conclude, FaultsType
<1>3. StoreType' /\ done' = done
  BY VerdictType DEF Conclude, StoreType, storeVars
<1> QED
  BY <1>2, <1>3 DEF Conclude

\* The handler of each event keeps the types.
LEMMA HandleType ==
  ASSUME TypeOK, Handle
  PROVE  TypeOK'
<1> DEFINE e == Head(eq)
<1>1. /\ e \in Events /\ eq' \in Seq(Events)
      /\ UNCHANGED <<rq, redisq, ephase, eout, recoveryVars, workerVars, agent>>
  <2>1. eq # <<>> /\ eq' = Tail(eq)
        /\ UNCHANGED <<rq, redisq, ephase, eout, recoveryVars, workerVars, agent>>
    BY DEF Handle, HandleDagProposed, HandleStepStarted, HandleStepCompleted,
           HandleStepFailed, HandleEscalation, HandleDagMutated,
           HandleStepQueued, Receive
  <2> QED
    BY <2>1, HeadTailProperties DEF TypeOK, BusType
<1>2. BusType' /\ RecoveryType' /\ WorkerType' /\ agent' = agent
  BY <1>1, TypesUnchanged DEF TypeOK, BusType
<1>3. CASE HandleDagProposed
  <2>1. e.dag \in Dags
    BY <1>1, <1>3, EventFields, FlowAssumption DEF HandleDagProposed, Receive
  <2>2. todo' \in SUBSET Steps
    BY <1>3, <2>1, ScheduleType DEF HandleDagProposed
  <2>3. EngineType'
    BY <1>1, <1>3, <2>1, <2>2 DEF TypeOK, EngineType, HandleDagProposed
  <2> QED
    BY <1>2, <1>3, <2>3, TypesUnchanged DEF TypeOK, HandleDagProposed, FaultsType
<1>4. CASE HandleStepStarted
  <2>1. e.step \in Steps
    BY <1>1, <1>4, EventFields DEF HandleStepStarted, Receive, StepTypes
  <2>2. EngineType'
    BY <1>1, <1>4, <2>1 DEF TypeOK, EngineType, HandleStepStarted
  <2> QED
    BY <1>2, <1>4, <2>2, TypesUnchanged DEF TypeOK, HandleStepStarted, FaultsType
<1>5. CASE HandleStepCompleted
  <2>1. e.step \in Steps
    BY <1>1, <1>5, EventFields DEF HandleStepCompleted, Receive, StepTypes
  <2>2. /\ completed' \in SUBSET Steps /\ queued' \in SUBSET Steps
        /\ running' \in SUBSET Steps /\ UNCHANGED <<planned, dag, failed>>
    BY <1>5, <2>1 DEF TypeOK, EngineType, HandleStepCompleted
  <2>3. CASE Conclude("completed") /\ UNCHANGED todo
    <3>1. StoreType' /\ FaultsType' /\ finalized' = TRUE
      BY <2>3, ConcludeType DEF TypeOK, FaultsType, Verdicts
    <3>2. EngineType'
      BY <1>1, <2>2, <2>3, <3>1 DEF TypeOK, EngineType
    <3> QED
      BY <1>2, <3>1, <3>2 DEF TypeOK, FaultsType
  <2>4. CASE /\ todo' = IF planned THEN Schedule(dag, completed', queued', running')
                        ELSE {}
             /\ UNCHANGED <<storeVars, finalized, faults>>
    <3>1. todo' \in SUBSET Steps
      BY <2>4, ScheduleType DEF TypeOK, EngineType
    <3>2. EngineType'
      BY <1>1, <2>2, <2>4, <3>1 DEF TypeOK, EngineType
    <3> QED
      BY <1>2, <2>4, <3>2, TypesUnchanged DEF TypeOK, FaultsType
  <2> QED
    BY <1>5, <2>3, <2>4 DEF HandleStepCompleted
<1>6. CASE HandleStepFailed
  <2>1. e.step \in Steps
    BY <1>1, <1>6, EventFields DEF HandleStepFailed, Receive
  <2>2. EngineType'
    BY <1>1, <1>6, <2>1 DEF TypeOK, EngineType, HandleStepFailed
  <2> QED
    BY <1>2, <1>6, <2>2, TypesUnchanged DEF TypeOK, HandleStepFailed, FaultsType
<1>7. CASE HandleEscalation
  <2>1. StoreType' /\ FaultsType' /\ finalized' \in BOOLEAN
    <3>1. CASE Conclude("failed")
      BY <3>1, ConcludeType DEF TypeOK, FaultsType, Verdicts
    <3>2. CASE UNCHANGED <<storeVars, finalized, faults>>
      BY <3>2, TypesUnchanged DEF TypeOK, FaultsType, EngineType
    <3> QED
      BY <1>7, <3>1, <3>2 DEF HandleEscalation
  <2>2. EngineType'
    BY <1>1, <1>7, <2>1 DEF TypeOK, EngineType, HandleEscalation
  <2> QED
    BY <1>2, <2>1, <2>2 DEF TypeOK, FaultsType
<1>8. CASE HandleDagMutated
  <2>1. e.mutation \in Mutations
    BY <1>1, <1>8, EventFields, FlowAssumption DEF HandleDagMutated, Receive
  <2>2. Mutated(dag, e.mutation) \in Dags /\ e.mutation.removed \subseteq Steps
    BY <2>1, MutatedType DEF TypeOK, EngineType
  <2>3. /\ dag' \in Dags /\ completed' \in SUBSET Steps /\ failed' \in SUBSET Steps
        /\ queued' \in SUBSET Steps /\ running' \in SUBSET Steps
    BY <1>8, <2>2 DEF TypeOK, EngineType, HandleDagMutated
  <2>4. todo' \in SUBSET Steps
    BY <1>8, <2>3, ScheduleType DEF TypeOK, EngineType, HandleDagMutated
  <2>5. EngineType'
    BY <1>1, <1>8, <2>3, <2>4 DEF TypeOK, EngineType, HandleDagMutated
  <2> QED
    BY <1>2, <1>8, <2>5, TypesUnchanged DEF TypeOK, HandleDagMutated, FaultsType
<1>9. CASE HandleStepQueued
  <2>1. e.step \in Steps
    BY <1>1, <1>9, EventFields DEF HandleStepQueued, Receive, StepTypes
  <2>2. EngineType'
    BY <1>1, <1>9, <2>1 DEF TypeOK, EngineType, HandleStepQueued
  <2> QED
    BY <1>2, <1>9, <2>2, TypesUnchanged DEF TypeOK, HandleStepQueued, FaultsType
<1> QED
  BY <1>3, <1>4, <1>5, <1>6, <1>7, <1>8, <1>9 DEF Handle

\* The awaits of _schedule_next keep the types.
LEMMA ScheduleStepsType ==
  ASSUME TypeOK,
         \/ \E s \in Steps : QueueStep(s)
         \/ EngineEmit \/ EngineDispatch \/ EngineDispatchFailed
  PROVE  TypeOK'
<1>0. "store" \in Kinds /\ "dispatch" \in Kinds
  BY DEF Kinds
<1>1. ASSUME NEW s \in Steps, QueueStep(s)
      PROVE  TypeOK'
  <2>1. StoreType'
    BY <1>1, PersistType DEF TypeOK, QueueStep
  <2>2. FaultsType'
    BY <1>0, <1>1, SpendType DEF TypeOK, QueueStep, FaultsType
  <2>3. StepEvent("step_queued", s) \in StepEvents
    BY EventTypes DEF StepTypes
  <2>4. EngineType'
    BY <1>1, <2>3 DEF TypeOK, EngineType, QueueStep
  <2> QED
    BY <1>1, <2>1, <2>2, <2>4, TypesUnchanged DEF TypeOK, QueueStep, FaultsType
<1>2. CASE EngineEmit
  <2>1. eout \in StepEvents \cup Failures /\ eout \in Events
    BY <1>2, EventTypes DEF TypeOK, EngineType, EngineEmit
  <2>2. BusType' /\ FaultsType'
    BY <1>2, <2>1, EmitType DEF TypeOK, EngineEmit, FaultsType
  <2>3. eout.type = "step_queued" => eout \in StepEvents
    BY <2>1 DEF Failures
  <2>4. EngineType'
    BY <1>2, <2>3 DEF TypeOK, EngineType, EngineEmit, flowState
  <2> QED
    BY <1>2, <2>2, <2>4, TypesUnchanged DEF TypeOK, EngineEmit, FaultsType
<1>3. CASE EngineDispatch
  <2>1. eout \in StepEvents /\ eout.step \in Steps
    BY <1>3 DEF TypeOK, EngineType, EngineDispatch, StepEvents
  <2>2. FaultsType'
    BY <1>0, <1>3, SpendType DEF TypeOK, EngineDispatch, FaultsType
  <2>3. WorkerType'
    BY <1>3, <2>1 DEF TypeOK, WorkerType, EngineDispatch
  <2>4. EngineType'
    BY <1>3, <2>1 DEF TypeOK, EngineType, EngineDispatch, flowState
  <2> QED
    BY <1>3, <2>2, <2>3, <2>4, TypesUnchanged DEF TypeOK, EngineDispatch, FaultsType
<1>4. CASE EngineDispatchFailed
  <2>1. eout.step \in Steps
    BY <1>4 DEF TypeOK, EngineType, EngineDispatchFailed, StepEvents
  <2>2. FaultsType'
    BY <1>0, <1>4, SpendType DEF TypeOK, EngineDispatchFailed, FaultsType
  <2>3. StoreType'
    BY <1>4, <2>1, PersistType DEF TypeOK, EngineDispatchFailed
  <2>4. EngineType'
    BY <1>4, <2>1, EventTypes DEF TypeOK, EngineType, EngineDispatchFailed, flowState
  <2> QED
    BY <1>4, <2>2, <2>3, <2>4, TypesUnchanged
       DEF TypeOK, EngineDispatchFailed, FaultsType
<1> QED
  BY <1>1, <1>2, <1>3, <1>4

-----------------------------------------------------------------------------
\* The recovery controller keeps the types.
LEMMA RecoveryStepType ==
  ASSUME TypeOK, Recovery
  PROVE  TypeOK'
<1>0. "store" \in Kinds /\ "redispatch" \in Kinds
  BY DEF Kinds
<1>1. CASE RecoveryHandlesProposal
  <2>1. Head(rq) \in Failures \cup Proposals /\ rq' \in Seq(Failures \cup Proposals)
    BY <1>1, HeadTailProperties DEF TypeOK, BusType, RecoveryHandlesProposal
  <2>2. Head(rq).dag \in Dags
    BY <1>1, <2>1, FlowAssumption DEF RecoveryHandlesProposal, Failures, Proposals
  <2>3. BusType'
    BY <1>1, <2>1 DEF TypeOK, BusType, RecoveryHandlesProposal
  <2>4. RecoveryType'
    BY <1>1, <2>2 DEF TypeOK, RecoveryType, RecoveryHandlesProposal, Dags
  <2> QED
    BY <1>1, <2>3, <2>4, TypesUnchanged DEF TypeOK, RecoveryHandlesProposal, FaultsType
<1>2. CASE RecoveryHandlesFailure
  <2>1. Head(rq) \in Failures \cup Proposals /\ rq' \in Seq(Failures \cup Proposals)
    BY <1>2, HeadTailProperties DEF TypeOK, BusType, RecoveryHandlesFailure
  <2>2. Head(rq).step \in Steps
    BY <1>2, <2>1 DEF RecoveryHandlesFailure, Failures, Proposals
  <2>3. BusType'
    BY <1>2, <2>1 DEF TypeOK, BusType, RecoveryHandlesFailure
  <2>4. llmUsed' \in [Steps -> Nat]
    BY <1>2, <2>2 DEF TypeOK, RecoveryType, RecoveryHandlesFailure
  <2>5. RecoveryType'
    BY <1>2, <2>2, <2>4 DEF TypeOK, RecoveryType, RecoveryHandlesFailure
  <2> QED
    BY <1>2, <2>3, <2>5, TypesUnchanged DEF TypeOK, RecoveryHandlesFailure, FaultsType
<1>3. CASE RuleRetry
  <2>1. StoreType'
    BY <1>3, PersistType DEF TypeOK, RecoveryType, RuleRetry
  <2>2. RecoveryType'
    BY <1>3 DEF TypeOK, RecoveryType, RuleRetry
  <2> QED
    BY <1>3, <2>1, <2>2, TypesUnchanged DEF TypeOK, RuleRetry, FaultsType
<1>4. CASE LlmRecover
  <2>1. RecoveryType'
    BY <1>4 DEF TypeOK, RecoveryType, LlmRecover
  <2> QED
    BY <1>4, <2>1, TypesUnchanged DEF TypeOK, LlmRecover, FaultsType
<1>5. CASE RecoveryQueues \/ RecoverySkips \/ Escalate
  <2>1. StoreType'
    BY <1>5, PersistType DEF TypeOK, RecoveryType, RecoveryQueues, RecoverySkips,
                             Escalate
  <2>2. rstep \in Steps /\ rout' \in StepEvents
    BY <1>5, EventTypes DEF TypeOK, RecoveryType, RecoveryQueues, RecoverySkips,
                            Escalate, StepTypes
  <2>3. RecoveryType'
    BY <1>5, <2>2 DEF TypeOK, RecoveryType, RecoveryQueues, RecoverySkips, Escalate
  <2> QED
    BY <1>5, <2>1, <2>3, TypesUnchanged
       DEF TypeOK, RecoveryQueues, RecoverySkips, Escalate, FaultsType
<1>6. CASE RecoveryEmit
  <2>1. rout \in Events
    BY <1>6, EventTypes DEF TypeOK, RecoveryType, RecoveryEmit
  <2>2. BusType' /\ FaultsType'
    BY <1>6, <2>1, EmitType DEF TypeOK, RecoveryEmit, FaultsType
  <2>3. RecoveryType'
    BY <1>6 DEF TypeOK, RecoveryType, RecoveryEmit
  <2> QED
    BY <1>6, <2>2, <2>3, TypesUnchanged DEF TypeOK, RecoveryEmit, FaultsType
<1>7. CASE RecoveryDispatch
  <2>1. FaultsType'
    BY <1>0, <1>7, SpendType DEF TypeOK, RecoveryDispatch, FaultsType
  <2>2. WorkerType'
    BY <1>7 DEF TypeOK, WorkerType, RecoveryType, RecoveryDispatch
  <2>3. RecoveryType'
    BY <1>7 DEF TypeOK, RecoveryType, RecoveryDispatch
  <2> QED
    BY <1>7, <2>1, <2>2, <2>3, TypesUnchanged DEF TypeOK, RecoveryDispatch, FaultsType
<1>8. CASE RecoveryStoreFails
  <2>1. FaultsType'
    BY <1>0, <1>8, SpendType DEF TypeOK, RecoveryStoreFails, FaultsType
  <2>2. RecoveryType'
    BY <1>8 DEF TypeOK, RecoveryType, RecoveryStoreFails
  <2> QED
    BY <1>8, <2>1, <2>2, TypesUnchanged DEF TypeOK, RecoveryStoreFails, FaultsType
<1> QED
  BY <1>1, <1>2, <1>3, <1>4, <1>5, <1>6, <1>7, <1>8 DEF Recovery

-----------------------------------------------------------------------------
\* The workers keep the types.
LEMMA WorkerStepType ==
  ASSUME TypeOK, Worker
  PROVE  TypeOK'
<1>0. "store" \in Kinds /\ "tool" \in Kinds /\ "crash" \in Kinds /\ "kill" \in Kinds
  BY DEF Kinds
<1>1. ASSUME NEW s \in Steps, WorkerStart(s)
      PROVE  TypeOK'
  <2>1. StoreType'
    BY <1>1, PersistType DEF TypeOK, WorkerStart
  <2>2. FaultsType'
    BY <1>0, <1>1, SpendType DEF TypeOK, WorkerStart, FaultsType
  <2>3. WorkerType'
    BY <1>1, WorkerEventsBuilt DEF TypeOK, WorkerType, WorkerStart, Take, Put
  <2> QED
    BY <1>1, <2>1, <2>2, <2>3, TypesUnchanged DEF TypeOK, WorkerStart, FaultsType
<1>2. ASSUME NEW s \in Steps, WorkerSucceed(s)
      PROVE  TypeOK'
  <2>1. StoreType'
    BY <1>2, PersistType DEF TypeOK, WorkerSucceed
  <2>2. FaultsType'
    BY <1>0, <1>2, SpendType DEF TypeOK, WorkerSucceed, FaultsType
  <2>3. WorkerType'
    BY <1>2, WorkerEventsBuilt DEF TypeOK, WorkerType, WorkerSucceed, Take, Put
  <2> QED
    BY <1>2, <2>1, <2>2, <2>3, TypesUnchanged DEF TypeOK, WorkerSucceed, FaultsType
<1>3. ASSUME NEW s \in Steps, NEW trans \in BOOLEAN, WorkerFail(s, trans)
      PROVE  TypeOK'
  <2>1. StoreType'
    BY <1>3, PersistType DEF TypeOK, WorkerFail
  <2>2. FaultsType'
    BY <1>0, <1>3, SpendType DEF TypeOK, WorkerFail, FaultsType
  <2>3. Failure(s, trans) \in WorkerEvents
    BY WorkerEventsBuilt
  <2>4. WorkerType'
    BY <1>3, <2>3 DEF TypeOK, WorkerType, WorkerFail, Take, Put
  <2> QED
    BY <1>3, <2>1, <2>2, <2>4, TypesUnchanged DEF TypeOK, WorkerFail, FaultsType
<1>4. ASSUME NEW e \in WorkerEvents, WorkerEmit(e)
      PROVE  TypeOK'
  <2>1. e \in Events /\ e.step \in Steps
    BY WorkerEventTypes
  <2>2. BusType' /\ FaultsType'
    BY <1>4, <2>1, EmitType DEF TypeOK, WorkerEmit, FaultsType
  <2>3. WorkerType'
    BY <1>4, <2>1 DEF TypeOK, WorkerType, WorkerEmit, Take, Put
  <2> QED
    BY <1>4, <2>2, <2>3, TypesUnchanged DEF TypeOK, WorkerEmit, FaultsType
<1>5. ASSUME NEW s \in Steps, WorkerCrash(s)
      PROVE  TypeOK'
  <2>1. FaultsType'
    BY <1>0, <1>5, SpendType DEF TypeOK, WorkerCrash, FaultsType
  <2>2. WorkerType'
    <3>1. sent \in [Steps -> Nat] /\ executing \in [Steps -> Nat] /\ wout \in [WorkerEvents -> Nat]
      BY DEF TypeOK, WorkerType
    <3>2. sent' \in [Steps -> Nat]
      BY <1>5, <3>1 DEF WorkerCrash, Put
    <3>3. \A e \in WorkerEvents : wout[e] > 0 => Take(wout, e) \in [WorkerEvents -> Nat]
      BY <3>1 DEF Take
    <3>4. executing[s] > 0 => Take(executing, s) \in [Steps -> Nat]
      BY <3>1 DEF Take
    <3>5. executing' \in [Steps -> Nat] /\ wout' \in [WorkerEvents -> Nat]
      BY <1>5, <3>1, <3>3, <3>4 DEF WorkerCrash, Abandoned, Unacknowledged
    <3> QED
      BY <3>2, <3>5 DEF WorkerType
  <2>3. BusType'
    <3>1. eq' = eq /\ rq' = rq
      BY <1>5 DEF WorkerCrash
    <3>2. redisq' = redisq \/ \E e \in Events : redisq' = Append(redisq, e)
      <4>1. redisq' = redisq \/ \E e \in WorkerEvents : redisq' = Append(redisq, e)
        BY <1>5 DEF WorkerCrash, Unacknowledged
      <4> QED
        BY <4>1, WorkerEventTypes
    <3>3. redisq \in Seq(Events)
      BY DEF TypeOK, BusType
    <3>4. \A e \in Events : Append(redisq, e) \in Seq(Events)
      BY <3>3, AppendProperties
    <3>5. redisq' \in Seq(Events)
      BY <3>2, <3>3, <3>4
    <3> QED
      BY <3>1, <3>5 DEF TypeOK, BusType
  <2> QED
    BY <1>5, <2>1, <2>2, <2>3, TypesUnchanged DEF TypeOK, WorkerCrash, FaultsType
<1>6. ASSUME NEW s \in Steps, WorkerKilled(s)
      PROVE  TypeOK'
  <2>1. FaultsType'
    BY <1>0, <1>6, SpendType DEF TypeOK, WorkerKilled, FaultsType
  <2>2. WorkerType'
    BY <1>6 DEF TypeOK, WorkerType, WorkerKilled, Abandoned, Take
  <2> QED
    BY <1>6, <2>1, <2>2, TypesUnchanged DEF TypeOK, WorkerKilled, FaultsType
<1> QED
  BY <1>1, <1>2, <1>3, <1>4, <1>5, <1>6 DEF Worker

-----------------------------------------------------------------------------
\* The initial state has the types.
LEMMA InitType == Init => TypeOK
<1> SUFFICES ASSUME Init PROVE TypeOK
  OBVIOUS
<1>1. StoreType
  BY DEF Init, StoreType, FlowStatuses, StepStatuses, Verdicts
<1>2. BusType
  BY DEF Init, BusType
<1>3. EngineType
  BY DEF Init, EngineType, Dags, NoDeps
<1>4. RecoveryType
  BY DEF Init, RecoveryType
<1>5. WorkerType
  BY DEF Init, WorkerType
<1> QED
  BY <1>1, <1>2, <1>3, <1>4, <1>5, FlowAssumption DEF TypeOK, Init

\* Every step keeps the types.
LEMMA NextType == TypeOK /\ [Next]_vars => TypeOK'
<1>1. TypeOK /\ Next => TypeOK'
  BY AgentType, ListenerType, HandleType, ScheduleStepsType, RecoveryStepType,
     WorkerStepType DEF Next, Engine
<1>2. TypeOK /\ UNCHANGED vars => TypeOK'
  BY TypesUnchanged DEF vars, TypeOK, FaultsType
<1> QED
  BY <1>1, <1>2

\* The tables, queues and process states always have their types: no event of
\* the wrong kind reaches a handler, no phase works on a step that is none.
THEOREM TypeCorrect == Spec => []TypeOK
  BY InitType, NextType, PTL DEF Spec

-----------------------------------------------------------------------------
(* The inductive invariant behind the safety properties.  No property is     *)
(* inductive alone: that the engine's view of completed steps is backed by   *)
(* the log follows only if every completion on its way to the engine is, in  *)
(* each queue and in the hands of each process; and a step is dispatched two *)
(* awaits after it was found ready.                                          *)

\* A completion on its way is a completion in the log.
Logged(e, D)    == e.type = "step_completed" => e.step \in D
AllLogged(q, D) == \A i \in 1 .. Len(q) : Logged(q[i], D)

BusLogged      == AllLogged(eq, done) /\ AllLogged(redisq, done)
EngineLogged   == /\ completed \subseteq done
                  /\ ephase = "emit" => Logged(eout, done)
RecoveryLogged == rphase = "emit" => Logged(rout, done)
WorkerLogged   == \A e \in WorkerEvents : wout[e] > 0 => Logged(e, done)

LogInv == BusLogged /\ EngineLogged /\ RecoveryLogged /\ WorkerLogged

\* What _schedule_next is about to dispatch is ready.
ReadyInv ==
  /\ \A s \in todo : dag.deps[s] \subseteq completed
  /\ ephase = "emit" /\ eout.type = "step_queued"
       => dag.deps[eout.step] \subseteq completed
  /\ ephase = "dispatch" => dag.deps[eout.step] \subseteq completed

\* There is no verdict until the flow is finalized, and one at most after.
VerdictInv == Len(verdicts) <= 1 /\ (finalized \/ verdicts = <<>>)

SafetyInv == TypeOK /\ LogInv /\ ReadyInv /\ VerdictInv

\* A queue of logged events stays one when a logged event is appended, when
\* its head is taken, and when the log grows.
LEMMA AllLoggedAppend ==
  ASSUME NEW q \in Seq(Events), NEW e \in Events, NEW D,
         AllLogged(q, D), Logged(e, D)
  PROVE  AllLogged(Append(q, e), D)
<1> SUFFICES ASSUME NEW i \in 1 .. Len(Append(q, e))
             PROVE  Logged(Append(q, e)[i], D)
  BY DEF AllLogged
<1>1. Len(Append(q, e)) = Len(q) + 1
  BY AppendProperties
<1>2. CASE i \in 1 .. Len(q)
  BY <1>2, AppendProperties DEF AllLogged
<1>3. CASE i = Len(q) + 1
  BY <1>3, AppendProperties
<1> QED
  BY <1>1, <1>2, <1>3, LenProperties

LEMMA AllLoggedTail ==
  ASSUME NEW q \in Seq(Events), q # <<>>, NEW D, AllLogged(q, D)
  PROVE  Logged(Head(q), D) /\ AllLogged(Tail(q), D)
<1>1. /\ Head(q) = q[1] /\ 1 \in 1 .. Len(q) /\ Len(Tail(q)) = Len(q) - 1
      /\ \A i \in 1 .. Len(Tail(q)) : Tail(q)[i] = q[i + 1] /\ i + 1 \in 1 .. Len(q)
  BY HeadTailProperties, LenProperties, EmptySeq
<1> QED
  BY <1>1 DEF AllLogged

LEMMA AllLoggedGrows ==
  ASSUME NEW q, NEW D, NEW E, D \subseteq E, AllLogged(q, D)
  PROVE  AllLogged(q, E)
  BY DEF AllLogged, Logged

\* What a step does not touch stays logged while the log grows.
LEMMA LogKept ==
  ASSUME done \subseteq done'
  PROVE  /\ BusLogged /\ UNCHANGED busVars => BusLogged'
         /\ EngineLogged /\ UNCHANGED engineVars => EngineLogged'
         /\ RecoveryLogged /\ UNCHANGED recoveryVars => RecoveryLogged'
         /\ WorkerLogged /\ UNCHANGED workerVars => WorkerLogged'
<1>1. BusLogged /\ UNCHANGED busVars => BusLogged'
  BY AllLoggedGrows DEF BusLogged, busVars
<1>2. EngineLogged /\ UNCHANGED engineVars => EngineLogged'
  BY DEF EngineLogged, engineVars, flowState, Logged
<1>3. RecoveryLogged /\ UNCHANGED recoveryVars => RecoveryLogged'
  BY DEF RecoveryLogged, recoveryVars, Logged
<1>4. WorkerLogged /\ UNCHANGED workerVars => WorkerLogged'
  BY DEF WorkerLogged, workerVars, Logged
<1> QED
  BY <1>1, <1>2, <1>3, <1>4

\* The same for the two other parts of the invariant.
LEMMA ReadyKept == ReadyInv /\ UNCHANGED engineVars => ReadyInv'
  BY DEF ReadyInv, engineVars, flowState

LEMMA VerdictKept == VerdictInv /\ UNCHANGED <<verdicts, finalized>> => VerdictInv'
  BY DEF VerdictInv

\* Emitting a logged event keeps the queues logged.
LEMMA EmitLogged ==
  ASSUME BusType, BusLogged, NEW e \in Events, Logged(e, done),
         Emit(e) \/ EmitWorker(e), UNCHANGED done
  PROVE  BusLogged'
<1>1. eq' = eq \/ eq' = Append(eq, e)
  BY DEF Emit, EmitWorker, DispatchLocal
<1>2. redisq' = redisq \/ redisq' = Append(redisq, e)
  BY DEF Emit, EmitWorker, DispatchLocal
<1>3. AllLogged(eq', done)
  BY <1>1, AllLoggedAppend DEF BusType, BusLogged
<1>4. AllLogged(redisq', done)
  BY <1>2, AllLoggedAppend DEF BusType, BusLogged
<1> QED
  BY <1>3, <1>4 DEF BusLogged

-----------------------------------------------------------------------------
\* The agent publishes no completion.
LEMMA AgentSafe ==
  ASSUME SafetyInv, Agent
  PROVE  LogInv' /\ ReadyInv' /\ VerdictInv'
<1>1. /\ UNCHANGED <<engineVars, recoveryVars, workerVars, done, verdicts>>
  BY DEF Agent, CreateFlow, GenerationFails, ProposeDag, PublishChange,
         PersistCreated, PersistProposal, storeVars
<1>2. BusLogged'
  <2>1. CASE UNCHANGED busVars
    BY <1>1, <2>1, LogKept DEF SafetyInv, LogInv
  <2>2. ASSUME NEW d \in Plans, ProposeDag(d)
        PROVE  BusLogged'
    <3>1. Proposal(d) \in Events /\ Logged(Proposal(d), done)
      BY EventTypes DEF Logged, Proposal
    <3> QED
      BY <1>1, <2>2, <3>1, EmitLogged DEF SafetyInv, TypeOK, LogInv, ProposeDag
  <2>3. ASSUME NEW m \in Changes, PublishChange(m)
        PROVE  BusLogged'
    <3>1. Change(m) \in Events /\ Logged(Change(m), done)
      BY EventTypes DEF Logged, Change
    <3>2. eq' = eq \/ eq' = Append(eq, Change(m))
      BY <2>3 DEF PublishChange, DispatchLocal
    <3>3. redisq' = redisq \/ redisq' = Append(redisq, Change(m))
      BY <2>3 DEF PublishChange
    <3>4. AllLogged(eq', done) /\ AllLogged(redisq', done)
      BY <3>1, <3>2, <3>3, AllLoggedAppend
         DEF SafetyInv, TypeOK, BusType, LogInv, BusLogged
    <3> QED
      BY <1>1, <3>4 DEF BusLogged
  <2> QED
    BY <2>1, <2>2, <2>3 DEF Agent, CreateFlow, GenerationFails
<1>3. LogInv'
  BY <1>1, <1>2, LogKept DEF SafetyInv, LogInv
<1>4. finalized' = finalized
  BY <1>1 DEF engineVars, flowState
<1> QED
  BY <1>1, <1>3, <1>4, ReadyKept, VerdictKept DEF SafetyInv

\* The listener moves logged events from the channel to the queues.
LEMMA ListenerSafe ==
  ASSUME SafetyInv, RedisListener
  PROVE  LogInv' /\ ReadyInv' /\ VerdictInv'
<1>1. /\ UNCHANGED <<engineVars, recoveryVars, workerVars, done, verdicts, finalized>>
  BY DEF RedisListener, storeVars, engineVars, flowState
<1>2. /\ Head(redisq) \in Events /\ Logged(Head(redisq), done)
      /\ AllLogged(redisq', done)
  BY AllLoggedTail, HeadTailProperties
     DEF SafetyInv, TypeOK, BusType, LogInv, BusLogged, RedisListener
<1>3. eq' = eq \/ eq' = Append(eq, Head(redisq))
  BY DEF RedisListener, DispatchLocal
<1>4. AllLogged(eq', done)
  BY <1>2, <1>3, AllLoggedAppend DEF SafetyInv, TypeOK, BusType, LogInv, BusLogged
<1>5. BusLogged'
  BY <1>1, <1>2, <1>4 DEF BusLogged
<1> QED
  BY <1>1, <1>5, LogKept, ReadyKept, VerdictKept DEF SafetyInv, LogInv

-----------------------------------------------------------------------------
\* Only steps whose dependencies are completed are scheduled.
LEMMA ScheduleReady ==
  ASSUME NEW d, NEW c, NEW q, NEW r, NEW s \in Schedule(d, c, q, r)
  PROVE  d.deps[s] \subseteq c
  BY DEF Schedule, ReadySteps

\* A verdict is the first one.
LEMMA ConcludeOnce ==
  ASSUME StoreType, VerdictInv, NEW v \in Verdicts, Conclude(v)
  PROVE  VerdictInv'
<1>1. ~finalized /\ verdicts = <<>> /\ finalized'
  BY DEF VerdictInv, Conclude
<1>2. verdicts' = <<>> \/ verdicts' = <<v>>
  BY <1>1 DEF Conclude, PersistVerdict, storeVars
<1>3. Len(verdicts') <= 1
  BY <1>2
<1> QED
  BY <1>1, <1>3 DEF VerdictInv

\* The handlers decide from logged completions.
LEMMA HandleSafe ==
  ASSUME SafetyInv, Handle
  PROVE  LogInv' /\ ReadyInv' /\ VerdictInv'
<1> DEFINE e == Head(eq)
<1>1. /\ eq # <<>> /\ eq' = Tail(eq) /\ ephase = "idle" /\ todo = {}
      /\ UNCHANGED <<rq, redisq, ephase, eout, recoveryVars, workerVars, agent>>
  BY DEF Handle, HandleDagProposed, HandleStepStarted, HandleStepCompleted,
         HandleStepFailed, HandleEscalation, HandleDagMutated,
         HandleStepQueued, Receive, EngineIdle
<1>2. Logged(e, done) /\ AllLogged(eq', done)
  BY <1>1, AllLoggedTail DEF SafetyInv, TypeOK, BusType, LogInv, BusLogged
<1>3. done' = done
  BY ConcludeType DEF Handle, HandleDagProposed, HandleStepStarted,
     HandleStepCompleted, HandleStepFailed, HandleEscalation, HandleDagMutated,
     HandleStepQueued, Conclude, PersistVerdict, storeVars
<1>4. BusLogged'
  BY <1>1, <1>2, <1>3 DEF SafetyInv, LogInv, BusLogged
<1>5. RecoveryLogged' /\ WorkerLogged'
  BY <1>1, <1>3, LogKept DEF SafetyInv, LogInv
<1>6. completed' \subseteq done
  <2>1. CASE HandleStepCompleted
    BY <1>2, <2>1 DEF HandleStepCompleted, Receive, Logged, SafetyInv, LogInv,
                      EngineLogged
  <2>2. CASE ~HandleStepCompleted
    <3>1. completed' \subseteq completed
      BY <2>2 DEF Handle, HandleDagProposed, HandleStepStarted, HandleStepFailed,
                  HandleEscalation, HandleDagMutated, HandleStepQueued
    <3> QED
      BY <3>1 DEF SafetyInv, LogInv, EngineLogged
  <2> QED
    BY <2>1, <2>2
<1>7. LogInv'
  BY <1>1, <1>3, <1>4, <1>5, <1>6 DEF LogInv, EngineLogged
<1>8. ReadyInv'
  <2>1. \A s \in todo' : dag'.deps[s] \subseteq completed'
    <3>1. CASE todo' = {}
      BY <3>1
    <3>2. CASE todo' # {}
      <4>1. \/ todo' = Schedule(dag', completed', queued', running')
            \/ todo' = Schedule(dag', completed', queued, running)
        BY <1>1, <3>2 DEF Handle, HandleDagProposed, HandleStepStarted,
           HandleStepCompleted, HandleStepFailed, HandleEscalation,
           HandleDagMutated, HandleStepQueued
      <4> QED
        BY <4>1, ScheduleReady
    <3> QED
      BY <3>1, <3>2
  <2> QED
    BY <1>1, <2>1 DEF ReadyInv
<1>9. VerdictInv'
  <2>1. CASE UNCHANGED <<verdicts, finalized>>
    BY <2>1, VerdictKept DEF SafetyInv
  <2>2. CASE \E v \in Verdicts : Conclude(v)
    BY <2>2, ConcludeOnce DEF SafetyInv, TypeOK
  <2>3. "completed" \in Verdicts /\ "failed" \in Verdicts
    BY DEF Verdicts
  <2> QED
    BY <2>1, <2>2, <2>3 DEF Handle, HandleDagProposed, HandleStepStarted,
       HandleStepCompleted, HandleStepFailed, HandleEscalation, HandleDagMutated,
       HandleStepQueued, storeVars
<1> QED
  BY <1>7, <1>8, <1>9

\* A step travels ready from the schedule to the dispatcher.
LEMMA ScheduleStepsSafe ==
  ASSUME SafetyInv,
         \/ \E s \in Steps : QueueStep(s)
         \/ EngineEmit \/ EngineDispatch \/ EngineDispatchFailed
  PROVE  LogInv' /\ ReadyInv' /\ VerdictInv'
<1>1. ASSUME NEW s \in Steps, QueueStep(s)
      PROVE  LogInv' /\ ReadyInv' /\ VerdictInv'
  <2>1. done \subseteq done' /\ verdicts' = verdicts
    BY <1>1, PersistType DEF SafetyInv, TypeOK, QueueStep
  <2>2. EngineLogged'
    BY <1>1, <2>1 DEF SafetyInv, LogInv, EngineLogged, QueueStep, Logged, StepEvent
  <2>3. LogInv'
    BY <1>1, <2>1, <2>2, LogKept DEF SafetyInv, LogInv, QueueStep
  <2>4. ReadyInv'
    BY <1>1 DEF SafetyInv, ReadyInv, QueueStep, StepEvent
  <2> QED
    BY <1>1, <2>1, <2>3, <2>4, VerdictKept DEF SafetyInv, QueueStep
<1>2. CASE EngineEmit
  <2>1. UNCHANGED <<done, verdicts, finalized, completed, dag, todo>>
    BY <1>2 DEF EngineEmit, storeVars, flowState
  <2>2. eout \in Events /\ Logged(eout, done)
    BY <1>2, EventTypes
       DEF SafetyInv, TypeOK, EngineType, LogInv, EngineLogged, EngineEmit
  <2>3. BusLogged'
    BY <1>2, <2>1, <2>2, EmitLogged DEF SafetyInv, TypeOK, LogInv, EngineEmit
  <2>4. EngineLogged'
    BY <1>2, <2>1 DEF SafetyInv, LogInv, EngineLogged, EngineEmit
  <2>5. LogInv'
    BY <1>2, <2>1, <2>3, <2>4, LogKept DEF SafetyInv, LogInv, EngineEmit
  <2>6. ReadyInv'
    BY <1>2, <2>1 DEF SafetyInv, ReadyInv, EngineEmit
  <2> QED
    BY <2>1, <2>5, <2>6, VerdictKept DEF SafetyInv
<1>3. CASE EngineDispatch
  <2>1. UNCHANGED <<done, verdicts, finalized, completed, dag, todo, wout>>
    BY <1>3 DEF EngineDispatch, storeVars, flowState
  <2>2. ephase' \in {"idle", "fail"}
    BY <1>3 DEF EngineDispatch
  <2>3. EngineLogged' /\ WorkerLogged'
    BY <2>1, <2>2 DEF SafetyInv, LogInv, EngineLogged, WorkerLogged
  <2>4. LogInv'
    BY <1>3, <2>1, <2>3, LogKept DEF SafetyInv, LogInv, EngineDispatch
  <2>5. ReadyInv'
    BY <2>1, <2>2 DEF SafetyInv, ReadyInv
  <2> QED
    BY <2>1, <2>4, <2>5, VerdictKept DEF SafetyInv
<1>4. CASE EngineDispatchFailed
  <2>1. UNCHANGED <<completed, dag, finalized>>
    BY <1>4 DEF EngineDispatchFailed, flowState
  <2>2. eout.step \in Steps
    BY <1>4 DEF SafetyInv, TypeOK, EngineType, EngineDispatchFailed, StepEvents
  <2>3. done \subseteq done' /\ verdicts' = verdicts
    BY <1>4, <2>2, PersistType DEF SafetyInv, TypeOK, EngineDispatchFailed
  <2>4. \/ ephase' = "emit" /\ eout'.type = "step_failed" /\ todo' = todo
        \/ ephase' = "idle" /\ todo' = {}
    BY <1>4 DEF EngineDispatchFailed, Failure
  <2>5. EngineLogged'
    BY <2>1, <2>3, <2>4 DEF SafetyInv, LogInv, EngineLogged, Logged
  <2>6. LogInv'
    BY <1>4, <2>3, <2>5, LogKept DEF SafetyInv, LogInv, EngineDispatchFailed
  <2>7. ReadyInv'
    BY <2>1, <2>4 DEF SafetyInv, ReadyInv
  <2> QED
    BY <2>1, <2>3, <2>6, <2>7, VerdictKept DEF SafetyInv
<1> QED
  BY <1>1, <1>2, <1>3, <1>4

\* Recovery emits a completion only after it is in the log.
LEMMA RecoverySafe ==
  ASSUME SafetyInv, Recovery
  PROVE  LogInv' /\ ReadyInv' /\ VerdictInv'
<1>1. UNCHANGED engineVars /\ finalized' = finalized /\ wout' = wout
  BY DEF Recovery, RecoveryHandlesProposal, RecoveryHandlesFailure, RuleRetry,
         LlmRecover, RecoveryQueues, RecoverySkips, Escalate, RecoveryEmit,
         RecoveryDispatch, RecoveryStoreFails, engineVars, flowState, workerVars
<1>2. done \subseteq done' /\ verdicts' = verdicts
  <2>1. CASE UNCHANGED storeVars
    BY <2>1 DEF storeVars
  <2>2. CASE RuleRetry \/ RecoveryQueues \/ RecoverySkips \/ Escalate
    BY <2>2 DEF RuleRetry, RecoveryQueues, RecoverySkips, Escalate, PersistRetry,
                PersistQueued, PersistCompleted, PersistEscalation
  <2> QED
    BY <2>1, <2>2 DEF Recovery, RecoveryHandlesProposal, RecoveryHandlesFailure,
       LlmRecover, RecoveryEmit, RecoveryDispatch, RecoveryStoreFails
<1>3. ReadyInv' /\ VerdictInv'
  BY <1>1, <1>2, ReadyKept, VerdictKept DEF SafetyInv
<1>4. EngineLogged' /\ WorkerLogged'
  BY <1>1, <1>2, LogKept DEF SafetyInv, LogInv, WorkerLogged, Logged
<1>5. BusLogged'
  <2>1. CASE RecoveryEmit
    <3>1. rout \in Events /\ Logged(rout, done) /\ done' = done
      BY <2>1, EventTypes
         DEF SafetyInv, TypeOK, RecoveryType, LogInv, RecoveryLogged,
             RecoveryEmit, storeVars
    <3> QED
      BY <2>1, <3>1, EmitLogged DEF SafetyInv, TypeOK, LogInv, RecoveryEmit
  <2>2. CASE ~RecoveryEmit
    <3>1. eq' = eq /\ redisq' = redisq
      BY <2>2 DEF Recovery, RecoveryHandlesProposal, RecoveryHandlesFailure,
         RuleRetry, LlmRecover, RecoveryQueues, RecoverySkips, Escalate,
         RecoveryDispatch, RecoveryStoreFails, busVars
    <3> QED
      BY <1>2, <3>1, AllLoggedGrows DEF SafetyInv, LogInv, BusLogged
  <2> QED
    BY <2>1, <2>2
<1>6. RecoveryLogged'
  <2>1. CASE RecoveryQueues \/ Escalate
    BY <2>1 DEF RecoveryQueues, Escalate, RecoveryLogged, Logged, StepEvent
  <2>2. CASE RecoverySkips
    BY <2>2 DEF RecoverySkips, PersistCompleted, RecoveryLogged, Logged, StepEvent
  <2>3. CASE ~(RecoveryQueues \/ Escalate \/ RecoverySkips)
    <3>1. rphase' # "emit"
      BY <2>3 DEF Recovery, RecoveryHandlesProposal, RecoveryHandlesFailure,
         RuleRetry, LlmRecover, RecoveryEmit, RecoveryDispatch, RecoveryStoreFails
    <3> QED
      BY <3>1 DEF RecoveryLogged
  <2> QED
    BY <2>1, <2>2, <2>3
<1> QED
  BY <1>3, <1>4, <1>5, <1>6 DEF LogInv

\* So do the workers.
LEMMA WorkerSafe ==
  ASSUME SafetyInv, Worker
  PROVE  LogInv' /\ ReadyInv' /\ VerdictInv'
<1>1. UNCHANGED <<engineVars, recoveryVars, finalized>>
  BY DEF Worker, WorkerStart, WorkerSucceed, WorkerCrash, WorkerKilled, WorkerFail, WorkerEmit,
         engineVars, flowState
<1>2. done \subseteq done' /\ verdicts' = verdicts
  BY DEF Worker, WorkerStart, WorkerSucceed, WorkerCrash, WorkerKilled, WorkerFail, WorkerEmit,
         PersistStarted, PersistCompleted, PersistFailed, storeVars
<1>3. ReadyInv' /\ VerdictInv' /\ EngineLogged' /\ RecoveryLogged'
  BY <1>1, <1>2, ReadyKept, VerdictKept, LogKept DEF SafetyInv, LogInv
<1>4. BusLogged'
  <2>1. ASSUME NEW e \in WorkerEvents, WorkerEmit(e)
        PROVE  BusLogged'
    <3>1. e \in Events /\ Logged(e, done) /\ done' = done
      BY <2>1, WorkerEventTypes
         DEF SafetyInv, LogInv, WorkerLogged, WorkerEmit, storeVars
    <3> QED
      BY <2>1, <3>1, EmitLogged DEF SafetyInv, TypeOK, LogInv, WorkerEmit
  <2>2. CASE UNCHANGED busVars
    BY <1>2, <2>2, LogKept DEF SafetyInv, LogInv
  <2>3. ASSUME NEW s \in Steps, WorkerCrash(s)
        PROVE  BusLogged'
    <3>1. eq' = eq /\ done' = done
      BY <2>3 DEF WorkerCrash, storeVars
    <3>2. \/ redisq' = redisq
          \/ \E e \in WorkerEvents : wout[e] > 0 /\ redisq' = Append(redisq, e)
      BY <2>3 DEF WorkerCrash, Unacknowledged
    <3>3. \A e \in WorkerEvents : wout[e] > 0 => e \in Events /\ Logged(e, done)
      BY WorkerEventTypes DEF SafetyInv, LogInv, WorkerLogged
    <3>4. AllLogged(redisq', done)
      BY <3>2, <3>3, AllLoggedAppend DEF SafetyInv, TypeOK, BusType, LogInv, BusLogged
    <3> QED
      BY <3>1, <3>4 DEF BusLogged, SafetyInv, LogInv
  <2> QED
    BY <2>1, <2>2, <2>3 DEF Worker, WorkerStart, WorkerSucceed, WorkerKilled, WorkerFail
<1>5. WorkerLogged'
  <2> SUFFICES ASSUME NEW e \in WorkerEvents, wout'[e] > 0
               PROVE  Logged(e, done')
    BY DEF WorkerLogged
  <2>0. wout \in [WorkerEvents -> Nat]
    BY DEF SafetyInv, TypeOK, WorkerType
  <2>1. CASE wout[e] > 0
    BY <1>2, <2>1 DEF SafetyInv, LogInv, WorkerLogged, Logged
  <2>2. CASE ~(wout[e] > 0)
    <3>1. PICK s \in Steps :
            \/ WorkerStart(s) \/ WorkerSucceed(s) \/ WorkerCrash(s) \/ WorkerKilled(s)
            \/ \E trans \in BOOLEAN : WorkerFail(s, trans)
            \/ \E f \in WorkerEvents : f.step = s /\ WorkerEmit(f)
      BY WorkerEventTypes DEF Worker
    <3>2. CASE WorkerStart(s)
      <4>1. e = StepEvent("step_started", s)
        BY <2>0, <2>2, <3>2 DEF WorkerStart, Put
      <4> QED
        BY <4>1 DEF Logged, StepEvent
    <3>3. CASE WorkerSucceed(s)
      <4>1. e = StepEvent("step_completed", s) /\ done' = done \cup {s}
        BY <2>0, <2>2, <3>3 DEF WorkerSucceed, Put, PersistCompleted
      <4> QED
        BY <4>1 DEF Logged, StepEvent
    <3>4. CASE WorkerCrash(s) \/ WorkerKilled(s)
      BY <2>0, <2>2, <3>4 DEF WorkerCrash, WorkerKilled, Abandoned, Unacknowledged, Take
    <3>5. ASSUME NEW trans \in BOOLEAN, WorkerFail(s, trans)
          PROVE  Logged(e, done')
      <4>1. e = Failure(s, trans)
        BY <2>0, <2>2, <3>5 DEF WorkerFail, Put
      <4> QED
        BY <4>1 DEF Logged, Failure
    <3>6. ASSUME NEW f \in WorkerEvents, WorkerEmit(f)
          PROVE  Logged(e, done')
      BY <2>0, <2>2, <3>6 DEF WorkerEmit, Take
    <3> QED
      BY <3>1, <3>2, <3>3, <3>4, <3>5, <3>6
  <2> QED
    BY <2>1, <2>2
<1> QED
  BY <1>3, <1>4, <1>5 DEF LogInv

-----------------------------------------------------------------------------
\* The invariant holds initially.
LEMMA InitSafe == Init => SafetyInv
<1> SUFFICES ASSUME Init PROVE SafetyInv
  OBVIOUS
<1>1. LogInv
  <2>1. BusLogged /\ EngineLogged /\ RecoveryLogged
    BY DEF Init, BusLogged, EngineLogged, RecoveryLogged, AllLogged
  <2>2. WorkerLogged
    BY DEF Init, WorkerLogged
  <2> QED
    BY <2>1, <2>2 DEF LogInv
<1>2. ReadyInv
  BY DEF Init, ReadyInv
<1>3. VerdictInv
  BY DEF Init, VerdictInv
<1> QED
  BY <1>1, <1>2, <1>3, InitType DEF SafetyInv

\* Every step preserves it.
LEMMA NextSafe == SafetyInv /\ [Next]_vars => SafetyInv'
<1> SUFFICES ASSUME SafetyInv, [Next]_vars
             PROVE  SafetyInv'
  OBVIOUS
<1>1. TypeOK'
  BY NextType DEF SafetyInv
<1>2. CASE Next
  BY <1>1, <1>2, AgentSafe, ListenerSafe, HandleSafe, ScheduleStepsSafe,
     RecoverySafe, WorkerSafe DEF Next, Engine, SafetyInv
<1>3. CASE UNCHANGED vars
  <2>1. done \subseteq done'
    BY <1>3 DEF vars, storeVars
  <2>2. LogInv'
    BY <1>3, <2>1, LogKept DEF vars, SafetyInv, LogInv
  <2>3. UNCHANGED <<verdicts, finalized>>
    BY <1>3 DEF vars, storeVars, engineVars, flowState
  <2> QED
    BY <1>1, <1>3, <2>2, <2>3, ReadyKept, VerdictKept DEF vars, SafetyInv
<1> QED
  BY <1>2, <1>3

\* SafetyInv is an invariant of the flow.
LEMMA Safe == Spec => []SafetyInv
  BY InitSafe, NextSafe, PTL DEF Spec

\* A flow gets at most one FLOW_COMPLETED or FLOW_FAILED, whatever is retried,
\* escalated, duplicated or lost.
THEOREM VerdictOnce == Spec => []OneVerdict
<1>1. SafetyInv => OneVerdict
  BY DEF SafetyInv, VerdictInv, OneVerdict
<1> QED
  BY <1>1, Safe, PTL

\* A new "completed" verdict comes from handling a completion that makes the
\* engine's completed set the whole plan.
LEMMA CompletionStep ==
  ASSUME SafetyInv, Next, verdicts' # verdicts,
         verdicts'[Len(verdicts')] = "completed"
  PROVE  dag.ids \subseteq done
<1>1. HandleStepCompleted \/ HandleEscalation
  BY DEF Next, Agent, CreateFlow, GenerationFails, ProposeDag, PublishChange,
     RedisListener, Engine, Handle, HandleDagProposed, HandleStepStarted,
     HandleStepFailed, HandleDagMutated, HandleStepQueued, QueueStep, EngineEmit,
     EngineDispatch, EngineDispatchFailed, Recovery, RecoveryHandlesProposal,
     RecoveryHandlesFailure, RuleRetry, LlmRecover, RecoveryQueues, RecoverySkips,
     Escalate, RecoveryEmit, RecoveryDispatch, RecoveryStoreFails, Worker,
     WorkerStart, WorkerSucceed, WorkerCrash, WorkerKilled, WorkerFail, WorkerEmit,
     PersistCreated, PersistProposal, PersistQueued, PersistStarted,
     PersistCompleted, PersistFailed, PersistEscalation, PersistRetry, storeVars
<1>2. CASE HandleEscalation
  <2>1. verdicts' = Append(verdicts, "failed")
    BY <1>2 DEF HandleEscalation, Conclude, PersistVerdict, storeVars
  <2>2. "failed" \in Verdicts /\ verdicts \in Seq(Verdicts)
    BY DEF Verdicts, SafetyInv, TypeOK, StoreType
  <2>3. verdicts'[Len(verdicts')] = "failed"
    BY <2>1, <2>2, AppendProperties
  <2> QED
    BY <2>3
<1>3. CASE HandleStepCompleted
  <2>1. dag.ids = completed'
    BY <1>3 DEF HandleStepCompleted, AllDone, storeVars
  <2>2. Handle
    BY <1>3 DEF Handle
  <2>3. completed' \subseteq done' /\ done' = done
    BY <1>3, <2>2, HandleSafe DEF LogInv, EngineLogged, HandleStepCompleted,
                                  Conclude, PersistVerdict, storeVars
  <2> QED
    BY <2>1, <2>3
<1> QED
  BY <1>1, <1>2, <1>3

\* FLOW_COMPLETED is published only when every step of the plan in force has a
\* STEP_COMPLETED event in the log.
THEOREM CompletedIsDone == Spec => CompletedMeansDone
<1>1. SafetyInv /\ [Next]_vars
        => [verdicts' # verdicts /\ verdicts'[Len(verdicts')] = "completed"
              => dag.ids \subseteq done]_vars
  BY CompletionStep
<1> QED
  BY <1>1, Safe, PTL DEF Spec, CompletedMeansDone

\* The engine's dispatch is the only step that leaves phase "dispatch".
LEMMA DispatchStep ==
  ASSUME SafetyInv, Next, NEW s \in Steps,
         ephase = "dispatch", ephase' # ephase, sent'[s] > sent[s]
  PROVE  dag.deps[s] \subseteq done
<1>1. EngineDispatch
  BY DEF Next, Agent, CreateFlow, GenerationFails, ProposeDag, PublishChange,
     RedisListener, Engine, Handle, HandleDagProposed, HandleStepStarted,
     HandleStepCompleted, HandleStepFailed, HandleEscalation, HandleDagMutated,
     HandleStepQueued, Receive, QueueStep, EngineEmit, EngineDispatchFailed,
     Recovery, RecoveryHandlesProposal, RecoveryHandlesFailure, RuleRetry,
     LlmRecover, RecoveryQueues, RecoverySkips, Escalate, RecoveryEmit,
     RecoveryDispatch, RecoveryStoreFails, Worker, WorkerStart, WorkerSucceed,
     WorkerCrash, WorkerKilled, WorkerFail, WorkerEmit, engineVars
<1>2. sent \in [Steps -> Nat]
  BY DEF SafetyInv, TypeOK, WorkerType
<1>3. s = eout.step
  BY <1>1, <1>2 DEF EngineDispatch
<1> QED
  BY <1>3 DEF SafetyInv, ReadyInv, LogInv, EngineLogged

\* The engine dispatches a step only when the steps it depends on are in the
\* log as completed.
THEOREM DispatchAfterDeps == Spec => DepsBeforeDispatch
<1>1. SafetyInv /\ [Next]_vars
        => [\A s \in Steps :
              /\ ephase = "dispatch" /\ ephase' # ephase /\ sent'[s] > sent[s]
              => dag.deps[s] \subseteq done]_vars
  BY DispatchStep
<1> QED
  BY <1>1, Safe, PTL DEF Spec, DepsBeforeDispatch

-----------------------------------------------------------------------------
\* A valid plan never gets stuck in ready_steps(): whatever is completed, while
\* a step is left one of the steps is ready.  Cycles and missing dependencies,
\* which validate() rejects, are what could prevent it.
THEOREM ValidPlansProgress ==
  ASSUME NEW d \in Dags, Valid(d), NEW c \in SUBSET d.ids, c # d.ids
  PROVE  ReadySteps(d, c) # {}
<1> DEFINE left == d.ids \ c
<1>1. left # {} /\ left \in SUBSET d.ids
  OBVIOUS
<1>2. PICK s \in left : d.deps[s] \cap left = {}
  BY <1>1 DEF Valid, Acyclic
<1>3. d.deps[s] \subseteq d.ids
  BY DEF Valid, DepsPresent
<1>4. d.deps[s] \subseteq c
  BY <1>2, <1>3
<1> QED
  BY <1>4 DEF ReadySteps

-----------------------------------------------------------------------------
(* No step is forgotten.  An event leaves a step open (it is queued, started,  *)
(* has failed) or ends it (it is completed, or escalated, which ends the       *)
(* flow).  Whoever leaves a step open goes on to work on it, and the last one  *)
(* who works on it ends it, behind everything said about it before: the events *)
(* on their way to the engine, those on the channel after those in its queue,  *)
(* never finish with one that leaves the step open and nobody at work on it.   *)

Leaves(e, s) == e.type \in {"step_queued", "step_started", "step_failed"} /\ e.step = s
Ends(e, s)   == e.type \in {"step_completed", "escalation_raised"} /\ e.step = s
Fails(e, s)  == e.type = "step_failed" /\ e.step = s

Quiet(q, s)   == \A i \in 1 .. Len(q) : ~Leaves(q[i], s)
Ended(q, s)   == \E i \in 1 .. Len(q) : /\ Ends(q[i], s)
                                        /\ \A j \in i + 1 .. Len(q) : ~Leaves(q[j], s)
Failing(q, s) == \E i \in 1 .. Len(q) : Fails(q[i], s)

Held == queued \cup running \cup (failed \ completed)

HasTask(s) ==
  \/ sent[s] > 0 \/ executing[s] > 0
  \/ \E e \in WorkerEvents : e.step = s /\ wout[e] > 0

EngineAt(s)   == s \in todo \/ (ephase # "idle" /\ eout.step = s)
RecoveryAt(s) == rphase # "idle" /\ rstep = s
FailureOut(s) == Failing(rq, s) \/ Failing(redisq, s)

Working(s) == HasTask(s) \/ EngineAt(s) \/ RecoveryAt(s) \/ FailureOut(s)

Rests(s) ==
  \/ Ended(redisq, s)
  \/ Quiet(redisq, s) /\ (Ended(eq, s) \/ (Quiet(eq, s) /\ s \notin Held))

Kept(s) == finalized \/ Working(s) \/ Rests(s)

Handed ==
  /\ ephase = "emit" => eout.type \in {"step_queued", "step_failed"}
  /\ rphase = "emit" =>
       /\ rout.step = rstep
       /\ rout.type \in {"step_queued", "step_completed", "escalation_raised"}

OrphanInv == Handed /\ (NothingLost => \A s \in Steps : Kept(s))

\* A queue that gets one more event.
LEMMA QueueAppend ==
  ASSUME NEW S, NEW q \in Seq(S), NEW e \in S, NEW s
  PROVE  /\ Ends(e, s) => Ended(Append(q, e), s)
         /\ ~Leaves(e, s) /\ Quiet(q, s) => Quiet(Append(q, e), s)
         /\ ~Leaves(e, s) /\ Ended(q, s) => Ended(Append(q, e), s)
         /\ Failing(q, s) => Failing(Append(q, e), s)
         /\ Fails(e, s) => Failing(Append(q, e), s)
<1> DEFINE p == Append(q, e)
<1> DEFINE n == Len(q)
<1>1. /\ n \in Nat /\ Len(p) = n + 1 /\ p[n + 1] = e
      /\ \A i \in 1 .. n : p[i] = q[i]
  BY AppendProperties, LenProperties
<1> HIDE DEF p
<1>2. /\ 1 .. n = 1 .. Len(q) /\ n + 1 \in 1 .. Len(p)
      /\ \A i \in 1 .. n : i \in 1 .. Len(p)
      /\ \A i \in 1 .. Len(p) : i \in 1 .. n \/ i = n + 1
  BY <1>1
<1>3. Ends(e, s) => Ended(p, s)
  <2>1. (n + 1) + 1 .. Len(p) = {}
    BY <1>1
  <2> QED
    BY <1>1, <1>2, <2>1 DEF Ended
<1>4. ~Leaves(e, s) /\ Quiet(q, s) => Quiet(p, s)
  BY <1>1, <1>2 DEF Quiet
<1>5. ASSUME ~Leaves(e, s), Ended(q, s) PROVE Ended(p, s)
  <2>1. PICK i \in 1 .. n : Ends(q[i], s) /\ \A j \in i + 1 .. n : ~Leaves(q[j], s)
    BY <1>5 DEF Ended
  <2>2. \A j \in i + 1 .. Len(p) : j \in i + 1 .. n \/ j = n + 1
    BY <1>1
  <2>3. \A j \in i + 1 .. n : p[j] = q[j]
    BY <1>1
  <2>4. \A j \in i + 1 .. Len(p) : ~Leaves(p[j], s)
    BY <1>1, <1>5, <2>1, <2>2, <2>3
  <2> QED
    BY <1>1, <1>2, <2>1, <2>4 DEF Ended
<1>6. Failing(q, s) => Failing(p, s)
  BY <1>1, <1>2 DEF Failing
<1>7. Fails(e, s) => Failing(p, s)
  BY <1>1, <1>2 DEF Failing
<1> QED
  BY <1>3, <1>4, <1>5, <1>6, <1>7 DEF p

\* A queue whose head is taken.
LEMMA QueueTail ==
  ASSUME NEW S, NEW q \in Seq(S), q # <<>>, NEW s
  PROVE  /\ Quiet(q, s) => Quiet(Tail(q), s) /\ ~Leaves(Head(q), s)
         /\ Ended(q, s) => Ended(Tail(q), s) \/ (Ends(Head(q), s) /\ Quiet(Tail(q), s))
         /\ Failing(q, s) => Failing(Tail(q), s) \/ Fails(Head(q), s)
<1> DEFINE p == Tail(q)
<1> DEFINE n == Len(q)
<1>1. /\ n \in Nat \ {0} /\ Len(p) = n - 1 /\ Head(q) = q[1]
      /\ \A i \in 1 .. n - 1 : p[i] = q[i + 1]
  BY HeadTailProperties, LenProperties, EmptySeq
<1> HIDE DEF p, n
<1>2. /\ 1 \in 1 .. n
      /\ \A i \in 1 .. n - 1 : i + 1 \in 1 .. n
      /\ \A i \in 1 .. n : i = 1 \/ (i - 1 \in 1 .. n - 1 /\ (i - 1) + 1 = i)
  BY <1>1
<1>3. Quiet(q, s) => Quiet(p, s) /\ ~Leaves(Head(q), s)
  BY <1>1, <1>2 DEF Quiet, n
<1>4. ASSUME Ended(q, s) PROVE Ended(p, s) \/ (Ends(Head(q), s) /\ Quiet(p, s))
  <2>1. PICK i \in 1 .. n : Ends(q[i], s) /\ \A j \in i + 1 .. n : ~Leaves(q[j], s)
    BY <1>4 DEF Ended, n
  <2>2. CASE i = 1
    <3>1. \A j \in 1 .. n - 1 : j + 1 \in i + 1 .. n
      BY <1>1, <2>2
    <3>2. Quiet(p, s)
      BY <1>1, <2>1, <3>1 DEF Quiet
    <3> QED
      BY <1>1, <2>1, <2>2, <3>2
  <2>3. CASE i # 1
    <3>1. \A j \in (i - 1) + 1 .. n - 1 : j \in 1 .. n - 1 /\ j + 1 \in i + 1 .. n
      BY <1>1, <2>3
    <3>2. i - 1 \in 1 .. n - 1 /\ p[i - 1] = q[i]
      BY <1>1, <1>2, <2>3
    <3>3. \A j \in (i - 1) + 1 .. n - 1 : ~Leaves(p[j], s)
      BY <1>1, <2>1, <3>1
    <3>4. Ends(p[i - 1], s)
      BY <2>1, <3>2
    <3> QED
      BY <1>1, <3>2, <3>3, <3>4 DEF Ended
  <2> QED
    BY <2>2, <2>3
<1>5. ASSUME Failing(q, s) PROVE Failing(p, s) \/ Fails(Head(q), s)
  <2>1. PICK i \in 1 .. n : Fails(q[i], s)
    BY <1>5 DEF Failing, n
  <2>2. CASE i = 1
    BY <1>1, <2>1, <2>2
  <2>3. CASE i # 1
    BY <1>1, <1>2, <2>1, <2>3 DEF Failing
  <2> QED
    BY <2>2, <2>3
<1> QED
  BY <1>3, <1>4, <1>5 DEF p

\* How an event that is not lost reaches the queues.
Delivered(e) ==
  redisq' = Append(redisq, e) /\ (DispatchLocal(e) \/ UNCHANGED <<eq, rq>>)

LEMMA Delivery ==
  ASSUME BusType, Handed, NEW e \in Events, Delivered(e), NEW s
  PROVE  /\ FailureOut(s) => FailureOut(s)'
         /\ Fails(e, s) => FailureOut(s)'
         /\ Ends(e, s) => Rests(s)'
         /\ ~Leaves(e, s) /\ Rests(s) /\ (s \in Held' => s \in Held) => Rests(s)'
<1>1. /\ eq \in Seq(Events) /\ redisq \in Seq(Events) /\ rq \in Seq(Failures \cup Proposals)
      /\ e.type \in RecoveryHears => e \in Failures \cup Proposals
  BY EventFields DEF BusType
<1>2. e.type \in EngineHears
  BY DEF Events, StepEvents, Failures, Proposals, ChangeEvents, EngineHears
<1>3. /\ DispatchLocal(e) => eq' = Append(eq, e)
      /\ DispatchLocal(e) => rq' = Append(rq, e) \/ (rq' = rq /\ e.type # "step_failed")
      /\ DispatchLocal(e) /\ e.type \notin RecoveryHears => rq' = rq
  BY <1>2 DEF DispatchLocal, RecoveryHears
<1>5. Failing(rq, s) => Failing(rq', s)
  <2>1. CASE rq' = rq
    BY <2>1
  <2>2. CASE rq' # rq
    <3>1. rq' = Append(rq, e) /\ e \in Failures \cup Proposals
      BY <1>1, <1>3, <2>2 DEF Delivered
    <3> QED
      BY <1>1, <3>1, QueueAppend
  <2> QED
    BY <2>1, <2>2
<1>6. Failing(redisq, s) => Failing(redisq', s)
  BY <1>1, QueueAppend DEF Delivered
<1>7. Fails(e, s) => Failing(redisq', s)
  BY <1>1, QueueAppend DEF Delivered
<1>8. FailureOut(s)' <=> Failing(rq', s) \/ Failing(redisq', s)
  BY DEF FailureOut, Failing
<1>9. Rests(s)' <=> \/ Ended(redisq', s)
                    \/ Quiet(redisq', s) /\ (Ended(eq', s) \/ (Quiet(eq', s) /\ s \notin Held'))
  BY DEF Rests, Ended, Quiet
<1>10. Ends(e, s) => Rests(s)'
  BY <1>1, <1>9, QueueAppend DEF Delivered
<1>11. ASSUME ~Leaves(e, s), Rests(s), s \in Held' => s \in Held PROVE Rests(s)'
  <2>1. Ended(redisq, s) => Ended(redisq', s)
    BY <1>1, <1>11, QueueAppend DEF Delivered
  <2>2. Quiet(redisq, s) => Quiet(redisq', s)
    BY <1>1, <1>11, QueueAppend DEF Delivered
  <2>3. eq' = eq \/ eq' = Append(eq, e)
    BY <1>3 DEF Delivered
  <2>4. (Ended(eq, s) => Ended(eq', s)) /\ (Quiet(eq, s) => Quiet(eq', s))
    BY <1>1, <1>11, <2>3, QueueAppend
  <2> QED
    BY <1>9, <1>11, <2>1, <2>2, <2>4 DEF Rests
<1> QED
  BY <1>5, <1>6, <1>7, <1>8, <1>10, <1>11 DEF FailureOut
\* Nothing is lost in a step: no append and no publish fails, and no process is
\* killed.
LEMMA NothingSpent ==
  ASSUME TypeOK, NothingLost, NothingLost'
  PROVE  ~Spend("store") /\ ~Spend("redis") /\ ~Spend("kill")
<1>1. faults \in [Kinds -> Nat] /\ {"store", "redis", "kill", "any"} \subseteq Kinds
  BY DEF TypeOK, Kinds
<1>2. ASSUME NEW k \in {"store", "redis", "kill"}, Spend(k) PROVE FALSE
  <2>1. faults'[k] = faults[k] + 1 /\ faults[k] \in Nat
    BY <1>1, <1>2 DEF Spend
  <2>2. faults'[k] = 0 /\ faults[k] = 0
    BY <1>2 DEF NothingLost
  <2> QED
    BY <2>1, <2>2
<1> QED
  BY <1>2

LEMMA EmitDelivers ==
  ASSUME NEW e, Emit(e) \/ EmitWorker(e), ~Spend("redis")
  PROVE  Delivered(e)
  BY DEF Emit, EmitWorker, Delivered

\* What a process does not touch.
LEMMA KeptUnchanged ==
  ASSUME NEW s
  PROVE  /\ HasTask(s) /\ UNCHANGED workerVars => HasTask(s)'
         /\ EngineAt(s) /\ UNCHANGED engineVars => EngineAt(s)'
         /\ RecoveryAt(s) /\ UNCHANGED recoveryVars => RecoveryAt(s)'
         /\ FailureOut(s) /\ UNCHANGED <<rq, redisq>> => FailureOut(s)'
         /\ Rests(s) /\ UNCHANGED <<eq, redisq>> /\ (s \in Held' => s \in Held) => Rests(s)'
         /\ UNCHANGED engineVars => Held' = Held /\ finalized' = finalized
<1>1. HasTask(s) /\ UNCHANGED workerVars => HasTask(s)'
  BY DEF HasTask, workerVars
<1>2. EngineAt(s) /\ UNCHANGED engineVars => EngineAt(s)'
  BY DEF EngineAt, engineVars
<1>3. RecoveryAt(s) /\ UNCHANGED recoveryVars => RecoveryAt(s)'
  BY DEF RecoveryAt, recoveryVars
<1>4. FailureOut(s) /\ UNCHANGED <<rq, redisq>> => FailureOut(s)'
  BY DEF FailureOut, Failing
<1>5. Rests(s) /\ UNCHANGED <<eq, redisq>> /\ (s \in Held' => s \in Held) => Rests(s)'
  BY DEF Rests, Ended, Quiet
<1>6. UNCHANGED engineVars => Held' = Held /\ finalized' = finalized
  BY DEF Held, engineVars, flowState
<1> QED
  BY <1>1, <1>2, <1>3, <1>4, <1>5, <1>6

\* The agent's events are about no step.
LEMMA AgentKeeps ==
  ASSUME TypeOK, Handed, ~Spend("redis"), Agent, NEW s \in Steps, Kept(s)
  PROVE  Kept(s)'
<1>1. UNCHANGED <<engineVars, recoveryVars, workerVars>>
  BY DEF Agent, CreateFlow, GenerationFails, ProposeDag, PublishChange
<1>2. Held' = Held /\ finalized' = finalized
  BY <1>1, KeptUnchanged
<1>3. HasTask(s) \/ EngineAt(s) \/ RecoveryAt(s) => (HasTask(s) \/ EngineAt(s) \/ RecoveryAt(s))'
  BY <1>1, KeptUnchanged
<1>4. CASE UNCHANGED busVars
  <2>1. (FailureOut(s) => FailureOut(s)') /\ (Rests(s) => Rests(s)')
    BY <1>2, <1>4, KeptUnchanged DEF busVars
  <2> QED
    BY <1>2, <1>3, <2>1 DEF Kept, Working
<1>5. ASSUME NEW e \in Events, Delivered(e), ~Leaves(e, s) PROVE Kept(s)'
  <2>1. (FailureOut(s) => FailureOut(s)') /\ (Rests(s) => Rests(s)')
    BY <1>2, <1>5, Delivery DEF TypeOK
  <2> QED
    BY <1>2, <1>3, <2>1 DEF Kept, Working
<1>6. ASSUME NEW d \in Plans, ProposeDag(d) PROVE Kept(s)'
  <2>1. Proposal(d) \in Events /\ ~Leaves(Proposal(d), s)
    BY EventTypes DEF Leaves, Proposal
  <2>2. Delivered(Proposal(d))
    BY <1>6, EmitDelivers DEF ProposeDag
  <2> QED
    BY <1>5, <2>1, <2>2
<1>7. ASSUME NEW m \in Changes, PublishChange(m) PROVE Kept(s)'
  <2>1. Change(m) \in Events /\ ~Leaves(Change(m), s)
    BY EventTypes DEF Leaves, Change
  <2>2. Delivered(Change(m))
    BY <1>7 DEF PublishChange, Delivered
  <2> QED
    BY <1>5, <2>1, <2>2
<1> QED
  BY <1>4, <1>6, <1>7 DEF Agent, CreateFlow, GenerationFails

\* The listener takes the oldest event of the channel behind the engine's queue:
\* the order of the two together stays the same.
LEMMA ListenerKeeps ==
  ASSUME TypeOK, RedisListener, NEW s \in Steps, Kept(s)
  PROVE  Kept(s)'
<1> DEFINE e == Head(redisq)
<1>1. UNCHANGED <<engineVars, recoveryVars, workerVars>>
  BY DEF RedisListener
<1>2. Held' = Held /\ finalized' = finalized
  BY <1>1, KeptUnchanged
<1>3. HasTask(s) \/ EngineAt(s) \/ RecoveryAt(s) => (HasTask(s) \/ EngineAt(s) \/ RecoveryAt(s))'
  BY <1>1, KeptUnchanged
<1>4. /\ eq \in Seq(Events) /\ redisq \in Seq(Events) /\ rq \in Seq(Failures \cup Proposals)
      /\ redisq # <<>> /\ redisq' = Tail(redisq) /\ DispatchLocal(e)
  BY DEF TypeOK, BusType, RedisListener
<1>5. e \in Events
  BY <1>4, HeadTailProperties
<1>6. e.type \in EngineHears /\ (e.type \in RecoveryHears => e \in Failures \cup Proposals)
  <2>1. e.type \in EngineHears
    <3> HIDE DEF e
    <3> QED
      BY <1>5 DEF Events, StepEvents, Failures, Proposals, ChangeEvents, EngineHears
  <2> QED
    BY <1>5, <2>1, EventFields
<1>7. eq' = Append(eq, e) /\ (rq' = rq \/ (rq' = Append(rq, e) /\ e \in Failures \cup Proposals))
  BY <1>4, <1>6 DEF DispatchLocal
<1>8. e.type = "step_failed" => rq' = Append(rq, e) /\ e \in Failures \cup Proposals
  BY <1>4, <1>6 DEF DispatchLocal, RecoveryHears
<1> HIDE DEF e
<1>9. /\ Quiet(redisq, s) => Quiet(redisq', s) /\ ~Leaves(e, s)
      /\ Ended(redisq, s) => Ended(redisq', s) \/ (Ends(e, s) /\ Quiet(redisq', s))
      /\ Failing(redisq, s) => Failing(redisq', s) \/ Fails(e, s)
  BY <1>4, QueueTail DEF e
<1>10. /\ Ends(e, s) => Ended(eq', s)
       /\ ~Leaves(e, s) /\ Quiet(eq, s) => Quiet(eq', s)
       /\ ~Leaves(e, s) /\ Ended(eq, s) => Ended(eq', s)
  BY <1>4, <1>5, <1>7, QueueAppend
<1>11. /\ Failing(rq, s) => Failing(rq', s)
       /\ Fails(e, s) => Failing(rq', s)
  <2>1. Failing(rq, s) => Failing(rq', s)
    BY <1>4, <1>7, QueueAppend
  <2>2. Fails(e, s) => rq' = Append(rq, e) /\ e \in Failures \cup Proposals
    BY <1>8 DEF Fails
  <2> QED
    BY <1>4, <2>1, <2>2, QueueAppend
<1>12. FailureOut(s) => FailureOut(s)'
  <2>1. FailureOut(s)' <=> Failing(rq', s) \/ Failing(redisq', s)
    BY DEF FailureOut, Failing
  <2> QED
    BY <1>9, <1>11, <2>1 DEF FailureOut
<1>13. Rests(s) => Rests(s)'
  <2>1. Rests(s)' <=> \/ Ended(redisq', s)
                      \/ Quiet(redisq', s) /\ (Ended(eq', s) \/ (Quiet(eq', s) /\ s \notin Held'))
    BY DEF Rests, Ended, Quiet
  <2> QED
    BY <1>2, <1>9, <1>10, <2>1 DEF Rests
<1> QED
  BY <1>2, <1>3, <1>12, <1>13 DEF Kept, Working

\* The engine handles an event: only one that leaves a step open makes the
\* engine hold it, and one that ends it makes the engine let go of it.
LEMMA HandleKeeps ==
  ASSUME TypeOK, Handle, NEW s \in Steps, Kept(s)
  PROVE  Kept(s)'
<1> DEFINE e == Head(eq)
<1>1. /\ eq # <<>> /\ eq' = Tail(eq) /\ ephase = "idle" /\ todo = {}
      /\ UNCHANGED <<rq, redisq, recoveryVars, workerVars>>
  BY DEF Handle, HandleDagProposed, HandleStepStarted, HandleStepCompleted,
         HandleStepFailed, HandleEscalation, HandleDagMutated,
         HandleStepQueued, Receive, EngineIdle
<1>2. eq \in Seq(Events)
  BY DEF TypeOK, BusType
<1>3. finalized => finalized'
  BY DEF Handle, HandleDagProposed, HandleStepStarted, HandleStepCompleted,
         HandleStepFailed, HandleEscalation, HandleDagMutated,
         HandleStepQueued, Conclude
<1>4. s \in Held' => s \in Held \/ Leaves(e, s)
  BY DEF Handle, HandleDagProposed, HandleStepStarted, HandleStepCompleted,
         HandleStepFailed, HandleEscalation, HandleDagMutated,
         HandleStepQueued, Receive, Held, Leaves
<1>5. Ends(e, s) => finalized' \/ s \notin Held'
  <2>1. CASE e.type = "step_completed" /\ e.step = s
    <3>1. HandleStepCompleted
      BY <2>1 DEF Handle, HandleDagProposed, HandleStepStarted,
         HandleStepFailed, HandleEscalation, HandleDagMutated, HandleStepQueued, Receive
    <3>2. /\ completed' = completed \cup {s} /\ queued' = queued \ {s}
          /\ running' = running \ {s}
      BY <2>1, <3>1 DEF HandleStepCompleted
    <3> QED
      BY <3>2 DEF Held
  <2>2. CASE e.type = "escalation_raised"
    <3>1. HandleEscalation
      BY <2>2 DEF Handle, HandleDagProposed, HandleStepStarted, HandleStepCompleted,
         HandleStepFailed, HandleDagMutated, HandleStepQueued, Receive
    <3> QED
      BY <3>1 DEF HandleEscalation, Conclude
  <2> QED
    BY <2>1, <2>2 DEF Ends
<1> HIDE DEF e
<1>6. /\ Quiet(eq, s) => Quiet(eq', s) /\ ~Leaves(e, s)
      /\ Ended(eq, s) => Ended(eq', s) \/ (Ends(e, s) /\ Quiet(eq', s))
  BY <1>1, <1>2, QueueTail DEF e
<1>7. HasTask(s) \/ RecoveryAt(s) \/ FailureOut(s) => (HasTask(s) \/ RecoveryAt(s) \/ FailureOut(s))'
  BY <1>1, KeptUnchanged
<1>8. ~EngineAt(s)
  BY <1>1 DEF EngineAt
<1>9. Rests(s) => Rests(s)' \/ finalized'
  <2>1. Rests(s)' <=> \/ Ended(redisq, s)
                      \/ Quiet(redisq, s) /\ (Ended(eq', s) \/ (Quiet(eq', s) /\ s \notin Held'))
    BY <1>1 DEF Rests, Ended, Quiet
  <2> QED
    BY <1>4, <1>5, <1>6, <2>1 DEF Rests
<1> QED
  BY <1>3, <1>7, <1>8, <1>9 DEF Kept, Working

\* A step on its way from the schedule to the broker.
LEMMA EngineKeeps ==
  ASSUME TypeOK, Handed, ~Spend("store"), ~Spend("redis"),
         \/ \E t \in Steps : QueueStep(t)
         \/ EngineEmit \/ EngineDispatch \/ EngineDispatchFailed,
         NEW s \in Steps, Kept(s)
  PROVE  Kept(s)'
<1>1. finalized' = finalized /\ UNCHANGED recoveryVars
  BY DEF QueueStep, EngineEmit, EngineDispatch, EngineDispatchFailed, flowState
<1>2. RecoveryAt(s) => RecoveryAt(s)'
  BY <1>1, KeptUnchanged
<1>3. ASSUME NEW t \in Steps, QueueStep(t) PROVE Kept(s)'
  <2>1. /\ queued' = queued \cup {t} /\ ephase = "idle" /\ t \in todo /\ ephase' = "emit"
        /\ eout' = StepEvent("step_queued", t) /\ todo' = todo \ {t}
        /\ UNCHANGED <<eq, rq, redisq, completed, failed, running, workerVars>>
    BY <1>3 DEF QueueStep, busVars
  <2>2. eout'.step = t
    BY <2>1 DEF StepEvent
  <2>3. CASE s = t
    BY <2>1, <2>2, <2>3 DEF Kept, Working, EngineAt
  <2>4. CASE s # t
    <3>1. EngineAt(s) => EngineAt(s)'
      BY <2>1, <2>4 DEF EngineAt
    <3>2. s \in Held' => s \in Held
      BY <2>1, <2>4 DEF Held
    <3>3. /\ HasTask(s) => HasTask(s)'
          /\ FailureOut(s) => FailureOut(s)'
          /\ Rests(s) => Rests(s)'
      BY <2>1, <3>2, KeptUnchanged
    <3> QED
      BY <1>1, <1>2, <3>1, <3>3 DEF Kept, Working
  <2> QED
    BY <2>3, <2>4
<1>4. CASE EngineEmit
  <2>1. /\ Held' = Held /\ UNCHANGED <<workerVars, todo>> /\ ephase = "emit"
        /\ Emit(eout)
    BY <1>4 DEF EngineEmit, Held, flowState
  <2>2. eout \in Events /\ eout.type \in {"step_queued", "step_failed"}
    BY <2>1, EventTypes DEF TypeOK, EngineType, Handed
  <2>3. Delivered(eout)
    BY <2>1, EmitDelivers
  <2>4. /\ FailureOut(s) => FailureOut(s)'
        /\ Fails(eout, s) => FailureOut(s)'
        /\ ~Leaves(eout, s) /\ Rests(s) => Rests(s)'
    BY <2>1, <2>2, <2>3, Delivery DEF TypeOK
  <2>5. HasTask(s) => HasTask(s)'
    BY <2>1, KeptUnchanged
  <2>6. eout.step = s => FailureOut(s)' \/ EngineAt(s)'
    BY <1>4, <2>2, <2>4 DEF EngineEmit, EngineAt, Fails
  <2>7. s \in todo => EngineAt(s)'
    BY <2>1 DEF EngineAt
  <2>8. eout.step # s => ~Leaves(eout, s)
    BY DEF Leaves
  <2> QED
    BY <1>1, <1>2, <2>1, <2>4, <2>5, <2>6, <2>7, <2>8 DEF Kept, Working, EngineAt
<1>5. CASE EngineDispatch
  <2>1. /\ Held' = Held /\ UNCHANGED <<eq, rq, redisq, executing, wout, todo>>
        /\ ephase = "dispatch" /\ eout \in StepEvents /\ sent \in [Steps -> Nat]
    BY <1>5 DEF EngineDispatch, Held, flowState, busVars, TypeOK, EngineType, WorkerType
  <2>2. eout.step \in Steps
    BY <2>1 DEF StepEvents
  <2>3. \/ sent' = [sent EXCEPT ![eout.step] = @ + 1]
        \/ sent' = sent /\ ephase' = "fail" /\ eout' = eout
    BY <1>5 DEF EngineDispatch
  <2>4. sent[s] > 0 => sent'[s] > 0
    BY <2>1, <2>2, <2>3
  <2>5. HasTask(s) => HasTask(s)'
    BY <2>1, <2>4 DEF HasTask
  <2>6. eout.step = s => HasTask(s)' \/ EngineAt(s)'
    <3>1. CASE sent' = [sent EXCEPT ![eout.step] = @ + 1]
      <4>1. sent'[eout.step] > 0
        BY <2>1, <2>2, <3>1
      <4> QED
        BY <4>1 DEF HasTask
    <3>2. CASE sent' = sent /\ ephase' = "fail" /\ eout' = eout
      BY <3>2 DEF EngineAt
    <3> QED
      BY <2>3, <3>1, <3>2
  <2>7. s \in todo => EngineAt(s)'
    BY <2>1 DEF EngineAt
  <2>8. (FailureOut(s) => FailureOut(s)') /\ (Rests(s) => Rests(s)')
    BY <2>1, KeptUnchanged
  <2> QED
    BY <1>1, <1>2, <2>5, <2>6, <2>7, <2>8 DEF Kept, Working, EngineAt
<1>6. CASE EngineDispatchFailed
  <2>1. /\ Held' = Held /\ UNCHANGED <<eq, rq, redisq, workerVars, todo>>
        /\ ephase' = "emit" /\ \E trans \in BOOLEAN : eout' = Failure(eout.step, trans)
    BY <1>6 DEF EngineDispatchFailed, Held, flowState, busVars
  <2>2. eout'.step = eout.step
    BY <2>1 DEF Failure
  <2>3. EngineAt(s) => EngineAt(s)'
    BY <2>1, <2>2 DEF EngineAt
  <2>4. /\ HasTask(s) => HasTask(s)'
        /\ FailureOut(s) => FailureOut(s)'
        /\ Rests(s) => Rests(s)'
    BY <2>1, KeptUnchanged
  <2> QED
    BY <1>1, <1>2, <2>3, <2>4 DEF Kept, Working
<1> QED
  BY <1>3, <1>4, <1>5, <1>6
\* Recovery takes a failure over, and ends with a task, a completion or an
\* escalation.
LEMMA RecoveryKeeps ==
  ASSUME TypeOK, Handed, ~Spend("store"), ~Spend("redis"), Recovery, NEW s \in Steps, Kept(s)
  PROVE  Kept(s)'
<1>1. UNCHANGED <<engineVars, executing, wout>>
  BY DEF Recovery, RecoveryHandlesProposal, RecoveryHandlesFailure, RuleRetry,
         LlmRecover, RecoveryQueues, RecoverySkips, Escalate, RecoveryEmit,
         RecoveryDispatch, RecoveryStoreFails, workerVars
<1>2. /\ Held' = Held /\ finalized' = finalized
      /\ EngineAt(s) => EngineAt(s)'
  BY <1>1, KeptUnchanged
<1>3. CASE RecoveryHandlesProposal \/ RecoveryHandlesFailure
  <2>1. /\ rq \in Seq(Failures \cup Proposals) /\ rq # <<>> /\ rq' = Tail(rq) /\ rphase = "idle"
        /\ UNCHANGED <<eq, redisq, workerVars>>
    BY <1>3 DEF RecoveryHandlesProposal, RecoveryHandlesFailure, TypeOK, BusType
  <2>2. /\ HasTask(s) => HasTask(s)'
        /\ Rests(s) => Rests(s)'
    BY <1>2, <2>1, KeptUnchanged
  <2>3. ~RecoveryAt(s)
    BY <2>1 DEF RecoveryAt
  <2>4. Fails(Head(rq), s) => RecoveryAt(s)'
    BY <1>3 DEF RecoveryHandlesProposal, RecoveryHandlesFailure, Fails, RecoveryAt
  <2>5. Failing(rq, s) => Failing(rq', s) \/ Fails(Head(rq), s)
    BY <2>1, QueueTail
  <2>6. FailureOut(s)' <=> Failing(rq', s) \/ Failing(redisq, s)
    BY <2>1 DEF FailureOut, Failing
  <2>7. FailureOut(s) => FailureOut(s)' \/ RecoveryAt(s)'
    BY <2>4, <2>5, <2>6 DEF FailureOut
  <2> QED
    BY <1>2, <2>2, <2>3, <2>7 DEF Kept, Working
<1>4. CASE RecoveryEmit
  <2>1. /\ rphase = "emit" /\ Emit(rout) /\ UNCHANGED <<workerVars, rstep>>
    BY <1>4 DEF RecoveryEmit
  <2>2. /\ rout \in Events /\ rout.step = rstep
        /\ rout.type \in {"step_queued", "step_completed", "escalation_raised"}
    BY <2>1, EventTypes DEF TypeOK, RecoveryType, Handed
  <2>3. Delivered(rout)
    BY <2>1, EmitDelivers
  <2>4. /\ FailureOut(s) => FailureOut(s)'
        /\ Ends(rout, s) => Rests(s)'
        /\ ~Leaves(rout, s) /\ Rests(s) => Rests(s)'
    BY <1>2, <2>2, <2>3, Delivery DEF TypeOK
  <2>5. HasTask(s) => HasTask(s)'
    BY <2>1, KeptUnchanged
  <2>6. rstep = s => Ends(rout, s) \/ RecoveryAt(s)'
    BY <1>4, <2>1, <2>2 DEF RecoveryEmit, RecoveryAt, Ends
  <2>7. rstep # s => ~Leaves(rout, s)
    BY <2>2 DEF Leaves
  <2> QED
    BY <1>2, <2>4, <2>5, <2>6, <2>7 DEF Kept, Working, RecoveryAt
<1>5. CASE RecoveryDispatch
  <2>1. /\ rphase = "dispatch" /\ UNCHANGED <<eq, rq, redisq, rstep>>
        /\ rstep \in Steps /\ sent \in [Steps -> Nat]
    BY <1>5 DEF RecoveryDispatch, busVars, TypeOK, RecoveryType, WorkerType
  <2>2. \/ sent' = [sent EXCEPT ![rstep] = @ + 1]
        \/ sent' = sent /\ rphase' = "escalate"
    BY <1>5 DEF RecoveryDispatch
  <2>3. sent[s] > 0 => sent'[s] > 0
    BY <2>1, <2>2
  <2>4. HasTask(s) => HasTask(s)'
    BY <1>1, <2>3 DEF HasTask
  <2>5. rstep = s => HasTask(s)' \/ RecoveryAt(s)'
    <3>1. CASE sent' = [sent EXCEPT ![rstep] = @ + 1]
      <4>1. sent'[rstep] > 0
        BY <2>1, <3>1
      <4> QED
        BY <4>1 DEF HasTask
    <3>2. CASE sent' = sent /\ rphase' = "escalate"
      BY <2>1, <3>2 DEF RecoveryAt
    <3> QED
      BY <2>2, <3>1, <3>2
  <2>6. (FailureOut(s) => FailureOut(s)') /\ (Rests(s) => Rests(s)')
    BY <1>2, <2>1, KeptUnchanged
  <2> QED
    BY <1>2, <2>4, <2>5, <2>6 DEF Kept, Working, RecoveryAt
<1>6. CASE RuleRetry \/ LlmRecover \/ RecoveryQueues \/ RecoverySkips \/ Escalate
  <2>1. UNCHANGED <<eq, rq, redisq, workerVars, rstep>> /\ rphase' # "idle"
    BY <1>6 DEF RuleRetry, LlmRecover, RecoveryQueues, RecoverySkips, Escalate, busVars
  <2>2. RecoveryAt(s) => RecoveryAt(s)'
    BY <2>1 DEF RecoveryAt
  <2>3. /\ HasTask(s) => HasTask(s)'
        /\ FailureOut(s) => FailureOut(s)'
        /\ Rests(s) => Rests(s)'
    BY <1>2, <2>1, KeptUnchanged
  <2> QED
    BY <1>2, <2>2, <2>3 DEF Kept, Working
<1> QED
  BY <1>3, <1>4, <1>5, <1>6 DEF Recovery, RecoveryStoreFails

\* A task goes on as long as its worker does, and again when it dies; its last
\* event completes the step or reports a failure to recovery.
LEMMA WorkerKeeps ==
  ASSUME TypeOK, Handed, ~Spend("store"), ~Spend("redis"), ~Spend("kill"), Worker,
         NEW s \in Steps, Kept(s)
  PROVE  Kept(s)'
<1>1. UNCHANGED <<engineVars, recoveryVars>>
  BY DEF Worker, WorkerStart, WorkerSucceed, WorkerCrash, WorkerKilled, WorkerFail, WorkerEmit
<1>2. /\ Held' = Held /\ finalized' = finalized
      /\ EngineAt(s) => EngineAt(s)'
      /\ RecoveryAt(s) => RecoveryAt(s)'
  BY <1>1, KeptUnchanged
<1>3. /\ sent \in [Steps -> Nat] /\ executing \in [Steps -> Nat] /\ wout \in [WorkerEvents -> Nat]
  BY DEF TypeOK, WorkerType
<1>4. \A f, x, y : f \in [Steps -> Nat] /\ x \in Steps /\ y \in Steps =>
        /\ f[x] > 0 => Put(f, y)[x] > 0
        /\ Put(f, y)[y] > 0
        /\ f[x] > 0 /\ x # y => Take(f, y)[x] > 0
  BY DEF Put, Take
<1>5. \A f, x, y : f \in [WorkerEvents -> Nat] /\ x \in WorkerEvents /\ y \in WorkerEvents =>
        /\ f[x] > 0 => Put(f, y)[x] > 0
        /\ Put(f, y)[y] > 0
        /\ f[x] > 0 /\ x # y => Take(f, y)[x] > 0
  BY DEF Put, Take
<1>6. ASSUME HasTask(s) => HasTask(s)', UNCHANGED busVars PROVE Kept(s)'
  <2>1. (FailureOut(s) => FailureOut(s)') /\ (Rests(s) => Rests(s)')
    BY <1>2, <1>6, KeptUnchanged DEF busVars
  <2> QED
    BY <1>2, <1>6, <2>1 DEF Kept, Working
<1>7. ASSUME NEW t \in Steps, WorkerStart(t) PROVE Kept(s)'
  <2> DEFINE e == StepEvent("step_started", t)
  <2>1. e \in WorkerEvents /\ e.step = t
    BY WorkerEventsBuilt DEF StepEvent
  <2>2. sent' = Take(sent, t) /\ wout' = Put(wout, e) /\ executing' = executing /\ UNCHANGED busVars
    BY <1>7 DEF WorkerStart
  <2> HIDE DEF e
  <2>3. HasTask(s) => HasTask(s)'
    BY <1>3, <1>4, <1>5, <2>1, <2>2 DEF HasTask
  <2> QED
    BY <1>6, <2>2, <2>3
<1>8. ASSUME NEW t \in Steps, NEW e \in WorkerEvents, e.step = t, executing' = Take(executing, t),
             wout' = Put(wout, e), sent' = sent, UNCHANGED busVars
      PROVE  Kept(s)'
  <2>1. HasTask(s) => HasTask(s)'
    BY <1>3, <1>4, <1>5, <1>8 DEF HasTask
  <2> QED
    BY <1>6, <1>8, <2>1
<1>9. ASSUME NEW t \in Steps, WorkerSucceed(t) PROVE Kept(s)'
  <2> DEFINE e == StepEvent("step_completed", t)
  <2>1. e \in WorkerEvents /\ e.step = t
    BY WorkerEventsBuilt DEF StepEvent
  <2>2. wout' = Put(wout, e) /\ executing' = Take(executing, t) /\ sent' = sent /\ UNCHANGED busVars
    BY <1>9 DEF WorkerSucceed
  <2> HIDE DEF e
  <2> QED
    BY <1>8, <2>1, <2>2
<1>10. ASSUME NEW t \in Steps, NEW trans \in BOOLEAN, WorkerFail(t, trans) PROVE Kept(s)'
  <2> DEFINE e == Failure(t, trans)
  <2>1. e \in WorkerEvents /\ e.step = t
    BY WorkerEventsBuilt DEF Failure
  <2>2. wout' = Put(wout, e) /\ executing' = Take(executing, t) /\ sent' = sent /\ UNCHANGED busVars
    BY <1>10 DEF WorkerFail
  <2> HIDE DEF e
  <2> QED
    BY <1>8, <2>1, <2>2
<1>11. ASSUME NEW t \in Steps, WorkerCrash(t) PROVE Kept(s)'
  <2>1. sent' = Put(sent, t)
    BY <1>11 DEF WorkerCrash
  <2>2. \/ executing' = Take(executing, t) /\ wout' = wout
        \/ executing' = executing /\ \E e \in WorkerEvents : e.step = t /\ wout' = Take(wout, e)
    BY <1>11 DEF WorkerCrash, Abandoned, Unacknowledged
  <2>3. s = t => HasTask(s)'
    BY <1>3, <1>4, <2>1 DEF HasTask
  <2>4. s # t /\ HasTask(s) => HasTask(s)'
    BY <1>3, <1>4, <1>5, <2>1, <2>2 DEF HasTask
  <2>5. CASE UNCHANGED busVars
    BY <1>6, <2>3, <2>4, <2>5
  <2>6. ASSUME NEW e \in WorkerEvents, e.step = t, Delivered(e) PROVE Kept(s)'
    <3>1. e \in Events
      BY WorkerEventTypes
    <3>2. s # t => ~Leaves(e, s)
      BY <2>6 DEF Leaves
    <3>3. /\ FailureOut(s) => FailureOut(s)'
          /\ s # t /\ Rests(s) => Rests(s)'
      BY <1>2, <2>6, <3>1, <3>2, Delivery DEF TypeOK
    <3> QED
      BY <1>2, <2>3, <2>4, <3>3 DEF Kept, Working
  <2>7. UNCHANGED busVars \/ \E e \in WorkerEvents : e.step = t /\ Delivered(e)
    BY <1>11 DEF WorkerCrash, Unacknowledged, Delivered, busVars
  <2> QED
    BY <2>5, <2>6, <2>7
<1>12. ASSUME NEW e \in WorkerEvents, WorkerEmit(e) PROVE Kept(s)'
  <2>1. e \in Events /\ e.step \in Steps
    BY WorkerEventTypes
  <2>2. e.type \in {"step_started", "step_completed", "step_failed"}
    BY DEF WorkerEvents, StepEvent, Failure
  <2>3. /\ wout' = Take(wout, e) /\ sent' = sent /\ EmitWorker(e)
        /\ executing' = IF e.type = "step_started" THEN Put(executing, e.step) ELSE executing
    BY <1>12 DEF WorkerEmit
  <2>4. Delivered(e)
    BY <2>3, EmitDelivers
  <2>5. /\ FailureOut(s) => FailureOut(s)'
        /\ Fails(e, s) => FailureOut(s)'
        /\ Ends(e, s) => Rests(s)'
        /\ ~Leaves(e, s) /\ Rests(s) => Rests(s)'
    BY <1>2, <2>1, <2>4, Delivery DEF TypeOK
  <2>6. CASE e.step = s
    <3>1. e.type = "step_started" => HasTask(s)'
      BY <1>3, <1>4, <2>1, <2>3, <2>6 DEF HasTask
    <3>2. e.type = "step_completed" => Ends(e, s)
      BY <2>6 DEF Ends
    <3>3. e.type = "step_failed" => Fails(e, s)
      BY <2>6 DEF Fails
    <3> QED
      BY <2>2, <2>5, <3>1, <3>2, <3>3 DEF Kept, Working
  <2>7. CASE e.step # s
    <3>1. executing[s] > 0 => executing'[s] > 0
      BY <1>3, <1>4, <2>1, <2>3
    <3>2. \A f \in WorkerEvents : f.step = s /\ wout[f] > 0 => wout'[f] > 0
      BY <1>3, <1>5, <2>3, <2>7
    <3>3. HasTask(s) => HasTask(s)'
      BY <2>3, <3>1, <3>2 DEF HasTask
    <3>4. ~Leaves(e, s)
      BY <2>7 DEF Leaves
    <3> QED
      BY <1>2, <2>5, <3>3, <3>4 DEF Kept, Working
  <2> QED
    BY <2>6, <2>7
<1> QED
  BY <1>7, <1>9, <1>10, <1>11, <1>12 DEF Worker, WorkerKilled

\* The hand-overs: what a process has persisted is what it emits, and what was
\* lost stays lost.
LEMMA HandedStep ==
  ASSUME TypeOK, Handed, [Next]_vars
  PROVE  Handed' /\ (NothingLost' => NothingLost)
<1>2. ephase' = "emit" => eout'.type \in {"step_queued", "step_failed"}
  <2>1. CASE UNCHANGED <<ephase, eout>>
    BY <2>1 DEF Handed
  <2>2. CASE \E t \in Steps : QueueStep(t)
    BY <2>2 DEF QueueStep, StepEvent, Handed
  <2>3. CASE EngineEmit \/ EngineDispatch
    BY <2>3 DEF EngineEmit, EngineDispatch
  <2>4. CASE EngineDispatchFailed
    BY <2>4 DEF EngineDispatchFailed, Failure
  <2> QED
    BY <2>1, <2>2, <2>3, <2>4 DEF Next, vars, engineVars,
       Agent, CreateFlow, GenerationFails, ProposeDag, PublishChange, RedisListener,
       Engine, Handle, HandleDagProposed, HandleStepStarted, HandleStepCompleted,
       HandleStepFailed, HandleEscalation, HandleDagMutated, HandleStepQueued, Receive,
       Recovery, RecoveryHandlesProposal, RecoveryHandlesFailure, RuleRetry,
       LlmRecover, RecoveryQueues, RecoverySkips, Escalate, RecoveryEmit,
       RecoveryDispatch, RecoveryStoreFails,
       Worker, WorkerStart, WorkerSucceed, WorkerCrash, WorkerKilled, WorkerFail, WorkerEmit
<1>3. rphase' = "emit" => /\ rout'.step = rstep'
                          /\ rout'.type \in {"step_queued", "step_completed", "escalation_raised"}
  <2>1. CASE UNCHANGED recoveryVars
    BY <2>1 DEF Handed, recoveryVars
  <2>2. CASE RecoveryHandlesProposal
    BY <2>2 DEF Handed, RecoveryHandlesProposal
  <2>3. CASE RecoveryQueues \/ RecoverySkips \/ Escalate
    BY <2>3 DEF RecoveryQueues, RecoverySkips, Escalate, StepEvent
  <2>4. CASE RecoveryHandlesFailure \/ RuleRetry \/ LlmRecover \/ RecoveryEmit
               \/ RecoveryDispatch \/ RecoveryStoreFails
    BY <2>4 DEF RecoveryHandlesFailure, RuleRetry, LlmRecover, RecoveryEmit,
                RecoveryDispatch, RecoveryStoreFails
  <2> QED
    BY <2>1, <2>2, <2>3, <2>4 DEF Next, vars, Recovery,
       Agent, CreateFlow, GenerationFails, ProposeDag, PublishChange, RedisListener,
       Engine, Handle, HandleDagProposed, HandleStepStarted, HandleStepCompleted,
       HandleStepFailed, HandleEscalation, HandleDagMutated, HandleStepQueued, Receive,
       QueueStep, EngineEmit, EngineDispatch, EngineDispatchFailed,
       Worker, WorkerStart, WorkerSucceed, WorkerCrash, WorkerKilled, WorkerFail, WorkerEmit
<1>4. \A k \in {"store", "redis", "kill"} : faults'[k] = faults[k] \/ faults'[k] = faults[k] + 1
  <2>1. faults' = faults \/ \E k \in Kinds \ {"any"} : Spend(k)
    <3>1. {"tool", "dispatch", "redispatch", "store", "redis", "crash", "kill", "mutate"} = Kinds \ {"any"}
      BY DEF Kinds
    <3>2. CASE Agent \/ RedisListener \/ UNCHANGED vars
      BY <3>1, <3>2 DEF vars, Agent, CreateFlow, GenerationFails, ProposeDag, PublishChange,
                  RedisListener, Emit
    <3>3. CASE Handle
      BY <3>1, <3>3 DEF Handle, HandleDagProposed, HandleStepStarted, HandleStepCompleted,
         HandleStepFailed, HandleEscalation, HandleDagMutated, HandleStepQueued, Conclude
    <3>4. CASE (\E t \in Steps : QueueStep(t)) \/ EngineEmit \/ EngineDispatch \/ EngineDispatchFailed
      BY <3>1, <3>4 DEF QueueStep, EngineEmit, EngineDispatch, EngineDispatchFailed, Emit
    <3>5. CASE Recovery
      BY <3>1, <3>5 DEF Recovery, RecoveryHandlesProposal, RecoveryHandlesFailure, RuleRetry,
         LlmRecover, RecoveryQueues, RecoverySkips, Escalate, RecoveryEmit,
         RecoveryDispatch, RecoveryStoreFails, Emit
    <3>6. CASE Worker
      BY <3>1, <3>6 DEF Worker, WorkerStart, WorkerSucceed, WorkerCrash, WorkerKilled, WorkerFail, WorkerEmit, EmitWorker
    <3> QED
      BY <3>2, <3>3, <3>4, <3>5, <3>6 DEF Next, Engine
  <2>2. ASSUME NEW k \in Kinds \ {"any"}, Spend(k)
        PROVE  \A x \in {"store", "redis", "kill"} : faults'[x] = faults[x] \/ faults'[x] = faults[x] + 1
    BY <2>2 DEF Spend, Kinds, TypeOK
  <2> QED
    BY <2>1, <2>2
<1>5. \A k \in {"store", "redis", "kill"} : faults[k] \in Nat
  BY DEF TypeOK, Kinds
<1>6. NothingLost' => NothingLost
  BY <1>4, <1>5 DEF NothingLost
<1>7. Handed'
  BY <1>2, <1>3 DEF Handed
<1> QED
  BY <1>6, <1>7

LEMMA OrphanStep ==
  ASSUME TypeOK, OrphanInv, [Next]_vars
  PROVE  OrphanInv'
<1>1. Handed' /\ (NothingLost' => NothingLost)
  BY HandedStep DEF OrphanInv
<1>2. ASSUME NothingLost', NEW s \in Steps PROVE Kept(s)'
  <2>1. Handed /\ Kept(s) /\ NothingLost
    BY <1>1, <1>2 DEF OrphanInv
  <2>2. ~Spend("store") /\ ~Spend("redis") /\ ~Spend("kill")
    BY <1>2, <2>1, NothingSpent
  <2>3. CASE UNCHANGED vars
    <3>1. UNCHANGED <<workerVars, engineVars, recoveryVars, eq, rq, redisq>>
      BY <2>3 DEF vars, busVars
    <3> QED
      BY <2>1, <3>1, KeptUnchanged DEF Kept, Working
  <2> QED
    BY <2>1, <2>2, <2>3, AgentKeeps, ListenerKeeps, HandleKeeps, EngineKeeps, RecoveryKeeps,
       WorkerKeeps DEF Next, Engine
<1> QED
  BY <1>1, <1>2 DEF OrphanInv

LEMMA OrphanInit == Init => OrphanInv
<1> SUFFICES ASSUME Init PROVE OrphanInv
  OBVIOUS
<1>1. Handed
  BY DEF Init, Handed
<1>2. ASSUME NEW s PROVE Rests(s)
  <2>1. Quiet(<<>>, s)
    BY DEF Quiet
  <2> QED
    BY <2>1 DEF Init, Rests, Held
<1> QED
  BY <1>1, <1>2 DEF OrphanInv, Kept

\* An event in a queue about the step is something still to happen to it.
LEMMA QueueSpeaks ==
  ASSUME NEW q \in Seq(Events), NEW s \in Steps, Failing(q, s) \/ Ended(q, s)
  PROVE  s \in StepsIn(q)
<1>1. PICK i \in 1 .. Len(q) : Fails(q[i], s) \/ Ends(q[i], s)
  BY DEF Failing, Ended
<1>2. i \in DOMAIN q /\ q[i] \in Events
  BY LenProperties, ElementOfSeq
<1>3. "step" \in DOMAIN q[i]
  <2>1. q[i] \in StepEvents \cup Failures
    BY <1>1, <1>2 DEF Events, Proposals, ChangeEvents, Fails, Ends
  <2> QED
    BY <2>1 DEF StepEvents, Failures
<1>4. q[i].step = s
  BY <1>1 DEF Fails, Ends
<1> QED
  BY <1>2, <1>3, <1>4 DEF StepsIn

LEMMA OrphanImplies == TypeOK /\ OrphanInv => NoOrphan
<1> SUFFICES ASSUME TypeOK, OrphanInv, NothingLost, NEW s \in Held PROVE InProgress(s) \/ finalized
  BY DEF NoOrphan, Held
<1>1. s \in Steps /\ eq \in Seq(Events) /\ redisq \in Seq(Events) /\ rq \in Seq(Events)
  <2>1. rq \in Seq(Failures \cup Proposals)
    BY DEF TypeOK, BusType
  <2>2. Failures \cup Proposals \subseteq Events
    BY EventTypes
  <2>3. rq \in Seq(Events)
    BY <2>1, <2>2, SeqDef
  <2> QED
    BY <2>3 DEF TypeOK, BusType, EngineType, Held
<1>2. Kept(s)
  BY <1>1 DEF OrphanInv
<1>3. HasTask(s) => InProgress(s)
  <2>1. sent[s] \in Nat /\ executing[s] \in Nat
    BY <1>1 DEF TypeOK, WorkerType
  <2>2. sent[s] > 0 \/ executing[s] > 0 => sent[s] + executing[s] > 0
    BY <2>1
  <2> QED
    BY <2>2 DEF HasTask, InProgress
<1>4. EngineAt(s) \/ RecoveryAt(s) => InProgress(s)
  BY DEF EngineAt, RecoveryAt, InProgress
<1>5. FailureOut(s) => InProgress(s)
  BY <1>1, QueueSpeaks DEF FailureOut, InProgress
<1>6. Rests(s) => InProgress(s)
  BY <1>1, QueueSpeaks DEF Rests, InProgress
<1> QED
  BY <1>2, <1>3, <1>4, <1>5, <1>6 DEF Kept, Working

LEMMA OrphanHolds == Spec => []OrphanInv
<1>1. TypeOK /\ OrphanInv /\ [Next]_vars => OrphanInv'
  BY OrphanStep
<1> QED
  BY <1>1, TypeCorrect, OrphanInit, PTL DEF Spec


\* For any plan, mutations, retry policy and interleaving, with the second
\* delivery of every event over Redis and workers that die with or without having
\* published their result: while no append and no Redis publish has failed and no
\* pool process was killed with a task, a step that the engine holds as queued,
\* running or failed has a task, an event or a recovery on the way, or the flow is
\* finished (engine.py: _handle, _schedule_next; recovery.py: _try_recover).
THEOREM NoStepForgotten == Spec => []NoOrphan
<1>1. TypeOK /\ OrphanInv => NoOrphan
  BY OrphanImplies
<1> QED
  BY <1>1, TypeCorrect, OrphanHolds, PTL

-----------------------------------------------------------------------------
(* dag.py.  The searches of validate() and topological_order() keep a path of  *)
(* the graph on their stack; what they have finished is closed under           *)
(* dependencies.  The invariants are about any list, whatever its length.      *)

Frames == [node : Steps, left : SUBSET Steps]

\* The entries of a list without duplicates are found by their ids.
LEMMA DependsOnEntry ==
  ASSUME NEW l \in Seq(Entry), NoDuplicates(l), NEW i \in DOMAIN l
  PROVE  DependsOn(l, l[i].id) = l[i].depends_on
<1> DEFINE last(j) == l[j].id = l[i].id /\ \A k \in DOMAIN l : l[k].id = l[i].id => k <= j
<1>1. \A j \in DOMAIN l : last(j) <=> j = i
  <2>1. DOMAIN l \subseteq Nat
    OBVIOUS
  <2> QED
    BY <2>1 DEF NoDuplicates
<1>2. (CHOOSE j \in DOMAIN l : last(j)) = i
  BY <1>1
<1> QED
  BY <1>2 DEF DependsOn

\* What the DAG of such a list is.
LEMMA AsDagFacts ==
  ASSUME NEW l \in Seq(Entry), NoDuplicates(l)
  PROVE  /\ AsDag(l) \in Dags
         /\ AsDag(l).ids = Ids(l) /\ Ids(l) \subseteq Steps
         /\ \A n \in Ids(l) : /\ DependsOn(l, n) \subseteq Steps
                              /\ AsDag(l).deps[n] = DependsOn(l, n)
         /\ NoneMissing(l) <=> DepsPresent(AsDag(l))
<1>1. \A i \in DOMAIN l : l[i] \in Entry
  OBVIOUS
<1>2. Ids(l) \subseteq Steps
  BY <1>1 DEF Ids, Entry
<1>3. ASSUME NEW n \in Ids(l)
      PROVE  DependsOn(l, n) \subseteq Steps
  <2>1. PICK i \in DOMAIN l : n = l[i].id
    BY DEF Ids
  <2> QED
    BY <2>1, <1>1, DependsOnEntry DEF Entry
<1>4. /\ AsDag(l).ids = Ids(l)
      /\ \A n \in Ids(l) : AsDag(l).deps[n] = DependsOn(l, n)
  BY <1>2 DEF AsDag
<1>5. AsDag(l) \in Dags
  BY <1>2, <1>3 DEF AsDag, Dags
<1>6. NoneMissing(l) <=> DepsPresent(AsDag(l))
  <2>1. NoneMissing(l) <=> \A i \in DOMAIN l : DependsOn(l, l[i].id) \subseteq Ids(l)
    BY DependsOnEntry DEF NoneMissing
  <2>2. (\A n \in Ids(l) : DependsOn(l, n) \subseteq Ids(l))
          <=> \A i \in DOMAIN l : DependsOn(l, l[i].id) \subseteq Ids(l)
    BY DEF Ids
  <2> QED
    BY <2>1, <2>2, <1>4 DEF DepsPresent
<1> QED
  BY <1>2, <1>3, <1>4, <1>5, <1>6

\* Acyclic, of a list.
NoCycleIn(l, S) ==
  \A R \in SUBSET S : R # {} => \E s \in R : DependsOn(l, s) \cap R = {}

LEMMA SoundFacts ==
  ASSUME NEW l \in Seq(Entry)
  PROVE  Sound(l) <=> NoDuplicates(l) /\ NoneMissing(l) /\ NoCycleIn(l, Ids(l))
<1> SUFFICES ASSUME NoDuplicates(l)
             PROVE  Valid(AsDag(l)) <=> NoneMissing(l) /\ NoCycleIn(l, Ids(l))
  BY DEF Sound
<1>1. Acyclic(AsDag(l)) <=> NoCycleIn(l, Ids(l))
  BY AsDagFacts DEF Acyclic, NoCycleIn
<1> QED
  BY <1>1, AsDagFacts DEF Valid

-----------------------------------------------------------------------------
(* The stack of a search *)

\* The calls under way are of nodes that depend on one another, each once.
Path(l, s) ==
  /\ \A i \in 1 .. Len(s) : s[i].node \in Ids(l) /\ s[i].left \subseteq DependsOn(l, s[i].node)
  /\ \A i \in 1 .. Len(s) : i < Len(s) => s[i + 1].node \in DependsOn(l, s[i].node)
  /\ \A i, j \in 1 .. Len(s) : s[i].node = s[j].node => i = j

\* The dependencies a call has looked at are finished, or the next call's.
Behind(l, s, Done) ==
  \A i \in 1 .. Len(s) : \A d \in DependsOn(l, s[i].node) \ s[i].left :
    d \in Done \/ (i < Len(s) /\ d = s[i + 1].node)

OnStack(s) == {s[i].node : i \in 1 .. Len(s)}

\* A call whose node depends on one that is on the stack closes a cycle.
LEMMA BackEdge ==
  ASSUME NEW l \in Seq(Entry), NEW s \in Seq(Frames), s # <<>>, Path(l, s),
         NEW k \in 1 .. Len(s), s[k].node \in DependsOn(l, s[Len(s)].node)
  PROVE  ~NoCycleIn(l, Ids(l))
<1> DEFINE R == {s[i].node : i \in k .. Len(s)}
<1>1. Len(s) \in Nat /\ k .. Len(s) \subseteq 1 .. Len(s) /\ k \in k .. Len(s)
  OBVIOUS
<1>2. R \in SUBSET Ids(l) /\ R # {}
  BY <1>1 DEF Path
<1>3. ASSUME NEW i \in k .. Len(s) PROVE DependsOn(l, s[i].node) \cap R # {}
  <2>1. CASE i = Len(s)
    BY <2>1, <1>1
  <2>2. CASE i < Len(s)
    <3>1. i + 1 \in k .. Len(s) /\ i \in 1 .. Len(s)
      BY <2>2, <1>1
    <3>2. s[i + 1].node \in DependsOn(l, s[i].node) /\ s[i + 1].node \in R
      BY <3>1, <2>2 DEF Path
    <3> QED
      BY <3>2
  <2> QED
    BY <2>1, <2>2, <1>1
<1>4. \A n \in R : DependsOn(l, n) \cap R # {}
  BY <1>3
<1> QED
  BY <1>2, <1>4 DEF NoCycleIn

\* Looking at a dependency: only the top frame changes.
LEMMA LookedFrames ==
  ASSUME stack \in Seq(Frames), stack # <<>>, NEW d \in Top.left
  PROVE  /\ Looked(d) \in Seq(Frames) /\ Len(Looked(d)) = Len(stack)
         /\ \A i \in 1 .. Len(stack) :
              /\ Looked(d)[i].node = stack[i].node
              /\ Looked(d)[i].left = IF i = Len(stack) THEN Top.left \ {d} ELSE stack[i].left
<1>1. Len(stack) \in Nat /\ Len(stack) \in 1 .. Len(stack)
  OBVIOUS
<1>2. \A i \in 1 .. Len(stack) : stack[i] \in Frames
  OBVIOUS
<1> DEFINE f == [stack[Len(stack)] EXCEPT !.left = @ \ {d}]
<1>3. f \in Frames /\ f.node = Top.node /\ f.left = Top.left \ {d}
  BY <1>1, <1>2 DEF Frames, Top
<1>4. Looked(d) = [stack EXCEPT ![Len(stack)] = f]
  BY <1>1 DEF Looked
<1> HIDE DEF f
<1>5. /\ Looked(d) \in Seq(Frames) /\ Len(Looked(d)) = Len(stack)
      /\ \A i \in 1 .. Len(stack) : Looked(d)[i] = IF i = Len(stack) THEN f ELSE stack[i]
  BY <1>1, <1>3, <1>4
<1> QED
  BY <1>3, <1>5 DEF Top

\* visit() of one of the steps, nothing else being under way.
LEMMA EnterStep ==
  ASSUME draft \in Seq(Entry), NoDuplicates(draft), NEW n \in Ids(draft), NEW Done
  PROVE  LET s == Append(<<>>, Frame(n))
         IN s \in Seq(Frames) /\ Path(draft, s) /\ Behind(draft, s, Done) /\ OnStack(s) = {n}
<1> DEFINE s == Append(<<>>, Frame(n))
<1>1. Frame(n) \in Frames /\ Frame(n).node = n /\ Frame(n).left = DependsOn(draft, n)
  BY AsDagFacts DEF Frame, Frames
<1>2. s \in Seq(Frames) /\ Len(s) = 1 /\ s[1] = Frame(n)
  BY <1>1
<1> HIDE DEF s
<1>3. \A i \in 1 .. Len(s) : i = 1
  BY <1>2
<1>4. Path(draft, s)
  BY <1>1, <1>2, <1>3 DEF Path
<1>5. Behind(draft, s, Done)
  BY <1>1, <1>2, <1>3 DEF Behind
<1>6. OnStack(s) = {n}
  BY <1>1, <1>2 DEF OnStack
<1> QED
  BY <1>2, <1>4, <1>5, <1>6 DEF s

\* visit() of a dependency that is not under visit.
LEMMA EnterDep ==
  ASSUME draft \in Seq(Entry), NoDuplicates(draft), stack \in Seq(Frames), stack # <<>>,
         NEW Done, Path(draft, stack), Behind(draft, stack, Done),
         NEW d \in Top.left, d \in Ids(draft), d \notin OnStack(stack)
  PROVE  LET s == Append(Looked(d), Frame(d))
         IN /\ s \in Seq(Frames) /\ Path(draft, s) /\ Behind(draft, s, Done)
            /\ OnStack(s) = OnStack(stack) \cup {d}
<1> DEFINE s == Append(Looked(d), Frame(d))
           k == Len(stack)
<1>1. Frame(d) \in Frames /\ Frame(d).node = d /\ Frame(d).left = DependsOn(draft, d)
  BY AsDagFacts DEF Frame, Frames
<1>2. k \in Nat /\ k >= 1 /\ Top = stack[k]
  BY DEF Top
<1>3. /\ s \in Seq(Frames) /\ Len(s) = k + 1 /\ s[k + 1] = Frame(d)
      /\ \A i \in 1 .. k : s[i] = Looked(d)[i]
  <2>1. Looked(d) \in Seq(Frames) /\ Len(Looked(d)) = k
    BY LookedFrames, Zenon
  <2> QED
    BY <2>1, <1>1, <1>2
<1>4. \A i \in 1 .. k : /\ s[i].node = stack[i].node
                        /\ s[i].left = IF i = k THEN Top.left \ {d} ELSE stack[i].left
  <2>1. \A i \in 1 .. k :
          /\ Looked(d)[i].node = stack[i].node
          /\ Looked(d)[i].left = IF i = k THEN Top.left \ {d} ELSE stack[i].left
    BY LookedFrames, Zenon
  <2> HIDE DEF s
  <2> QED
    BY <2>1, <1>3
<1> HIDE DEF s
<1>5. \A i \in 1 .. Len(s) : i \in 1 .. k \/ i = k + 1
  BY <1>2, <1>3
<1>6. d \in DependsOn(draft, stack[k].node) /\ \A i \in 1 .. k : stack[i].node # d
  BY <1>2 DEF Path, OnStack
<1>7. Path(draft, s)
  <2>1. \A i \in 1 .. Len(s) : s[i].node \in Ids(draft) /\ s[i].left \subseteq DependsOn(draft, s[i].node)
    BY <1>1, <1>2, <1>3, <1>4, <1>5 DEF Path
  <2>2. ASSUME NEW i \in 1 .. Len(s), i < Len(s)
        PROVE  s[i + 1].node \in DependsOn(draft, s[i].node)
    <3>1. CASE i = k
      BY <3>1, <1>1, <1>2, <1>3, <1>4, <1>6
    <3>2. CASE i # k
      <4>1. i \in 1 .. k /\ i + 1 \in 1 .. k /\ i < k
        BY <3>2, <2>2, <1>2, <1>3
      <4> QED
        BY <4>1, <1>4 DEF Path
    <3> QED
      BY <3>1, <3>2
  <2>3. ASSUME NEW i \in 1 .. Len(s), NEW j \in 1 .. Len(s), s[i].node = s[j].node
        PROVE  i = j
    <3>1. CASE i \in 1 .. k /\ j \in 1 .. k
      BY <3>1, <2>3, <1>4 DEF Path
    <3>2. CASE i \in 1 .. k /\ j = k + 1
      BY <3>2, <2>3, <1>1, <1>3, <1>4, <1>6
    <3>3. CASE i = k + 1 /\ j \in 1 .. k
      BY <3>3, <2>3, <1>1, <1>3, <1>4, <1>6
    <3> QED
      BY <3>1, <3>2, <3>3, <1>5
  <2> QED
    BY <2>1, <2>2, <2>3 DEF Path
<1>8. Behind(draft, s, Done)
  <2> SUFFICES ASSUME NEW i \in 1 .. Len(s), NEW e \in DependsOn(draft, s[i].node) \ s[i].left
               PROVE  e \in Done \/ (i < Len(s) /\ e = s[i + 1].node)
    BY DEF Behind
  <2>1. CASE i = k + 1
    BY <2>1, <1>1, <1>3
  <2>2. CASE i = k
    <3>1. e = d \/ e \in DependsOn(draft, stack[k].node) \ stack[k].left
      BY <2>2, <1>2, <1>4
    <3>2. CASE e = d
      BY <3>2, <2>2, <1>1, <1>2, <1>3
    <3>3. CASE e \in DependsOn(draft, stack[k].node) \ stack[k].left
      BY <3>3, <1>2 DEF Behind
    <3> QED
      BY <3>1, <3>2, <3>3
  <2>3. CASE i \in 1 .. k /\ i # k
    <3>1. i + 1 \in 1 .. k /\ i < k /\ e \in DependsOn(draft, stack[i].node) \ stack[i].left
      BY <2>3, <1>2, <1>4
    <3>2. e \in Done \/ e = stack[i + 1].node
      BY <3>1, <2>3 DEF Behind
    <3> QED
      BY <3>1, <3>2, <1>2, <1>3, <1>4
  <2> QED
    BY <2>1, <2>2, <2>3, <1>5
<1>9. OnStack(s) = OnStack(stack) \cup {d}
  <2>1. 1 .. Len(s) = (1 .. k) \cup {k + 1}
    BY <1>2, <1>3
  <2>2. OnStack(s) = {s[i].node : i \in 1 .. k} \cup {s[k + 1].node}
    BY <2>1, Zenon DEF OnStack
  <2>3. {s[i].node : i \in 1 .. k} = OnStack(stack)
    BY <1>4 DEF OnStack
  <2>4. s[k + 1].node = d
    BY <1>1, <1>3
  <2> QED
    BY <2>2, <2>3, <2>4, Zenon
<1> QED
  BY <1>3, <1>7, <1>8, <1>9 DEF s

\* The loop passes a dependency that is finished.
LEMMA PassDep ==
  ASSUME stack \in Seq(Frames), stack # <<>>, NEW Done,
         Path(draft, stack), Behind(draft, stack, Done), NEW d \in Top.left, d \in Done
  PROVE  /\ Looked(d) \in Seq(Frames) /\ Path(draft, Looked(d))
         /\ Behind(draft, Looked(d), Done) /\ OnStack(Looked(d)) = OnStack(stack)
<1> DEFINE s == Looked(d)
           k == Len(stack)
<1>1. /\ s \in Seq(Frames) /\ Len(s) = k /\ k \in Nat /\ Top = stack[k]
      /\ \A i \in 1 .. k : /\ s[i].node = stack[i].node
                           /\ s[i].left = IF i = k THEN Top.left \ {d} ELSE stack[i].left
  <2>1. k \in Nat /\ Top = stack[k]
    BY DEF Top
  <2> QED
    BY <2>1, LookedFrames, Zenon
<1> HIDE DEF s
<1>2. Path(draft, s)
  <2>1. \A i \in 1 .. k : s[i].node \in Ids(draft) /\ s[i].left \subseteq DependsOn(draft, s[i].node)
    BY <1>1 DEF Path
  <2>2. \A i \in 1 .. k : i < k => s[i + 1].node \in DependsOn(draft, s[i].node)
    <3> SUFFICES ASSUME NEW i \in 1 .. k, i < k
                 PROVE  s[i + 1].node \in DependsOn(draft, s[i].node)
      OBVIOUS
    <3>1. i + 1 \in 1 .. k
      BY <1>1
    <3> QED
      BY <3>1, <1>1 DEF Path
  <2>3. \A i, j \in 1 .. k : s[i].node = s[j].node => i = j
    BY <1>1 DEF Path
  <2> QED
    BY <2>1, <2>2, <2>3, <1>1 DEF Path
<1>3. Behind(draft, s, Done)
  <2> SUFFICES ASSUME NEW i \in 1 .. k, NEW e \in DependsOn(draft, s[i].node) \ s[i].left
               PROVE  e \in Done \/ (i < k /\ e = s[i + 1].node)
    BY <1>1 DEF Behind
  <2>1. e = d \/ e \in DependsOn(draft, stack[i].node) \ stack[i].left
    BY <1>1
  <2>2. e \in Done \/ (i < k /\ e = stack[i + 1].node)
    BY <2>1 DEF Behind
  <2>3. i < k => i + 1 \in 1 .. k
    BY <1>1
  <2> QED
    BY <2>2, <2>3, <1>1
<1>4. OnStack(s) = OnStack(stack)
  BY <1>1 DEF OnStack
<1> QED
  BY <1>1, <1>2, <1>3, <1>4 DEF s

\* visit() returns: everything its node depends on is finished.
LEMMA LeaveTop ==
  ASSUME stack \in Seq(Frames), stack # <<>>, NEW Done,
         Path(draft, stack), Behind(draft, stack, Done), Top.left = {}
  PROVE  LET s == SubSeq(stack, 1, Len(stack) - 1)
         IN /\ s \in Seq(Frames) /\ Path(draft, s) /\ Behind(draft, s, Done \cup {Top.node})
            /\ OnStack(s) = OnStack(stack) \ {Top.node}
            /\ Top.node \in OnStack(stack) /\ Top.node \in Ids(draft)
            /\ DependsOn(draft, Top.node) \subseteq Done
<1> DEFINE s == SubSeq(stack, 1, Len(stack) - 1)
           k == Len(stack)
<1>1. k \in Nat /\ k >= 1 /\ Top = stack[k]
  BY DEF Top
<1>2. s \in Seq(Frames) /\ Len(s) = k - 1 /\ \A i \in 1 .. k - 1 : s[i] = stack[i]
  <2>1. k - 1 \in Nat /\ 1 .. k - 1 \subseteq 1 .. k
    BY <1>1
  <2>2. Len(s) = k - 1
    <3>1. \A i \in 1 .. k - 1 : stack[i] \in Frames
      BY <2>1
    <3>2. Len(s) = IF 1 <= k - 1 THEN (k - 1) - 1 + 1 ELSE 0
      BY <3>1, <2>1, 1 \in Int, k - 1 \in Int, SubSeqProperties
    <3>3. k \in Nat /\ k >= 1
      BY <1>1
    <3> HIDE DEF s, k
    <3>4. CASE k = 1
      BY <3>2, <3>4
    <3>5. CASE k > 1
      BY <3>2, <3>3, <3>5
    <3> QED
      BY <3>3, <3>4, <3>5
  <2>3. s \in Seq(Frames)
    BY <2>1, <1>1
  <2>4. ASSUME NEW i \in 1 .. k - 1 PROVE s[i] = stack[i]
    BY <2>1, <1>1
  <2> QED
    BY <2>2, <2>3, <2>4
<1> HIDE DEF s
<1>3. \A i \in 1 .. k - 1 : i \in 1 .. k /\ i < k
  BY <1>1
<1>4. Path(draft, s)
  <2>1. \A i \in 1 .. k - 1 : i < k - 1 => s[i + 1].node \in DependsOn(draft, s[i].node)
    <3> SUFFICES ASSUME NEW i \in 1 .. k - 1, i < k - 1
                 PROVE  s[i + 1].node \in DependsOn(draft, s[i].node)
      OBVIOUS
    <3>1. i + 1 \in 1 .. k - 1
      BY <1>1
    <3> QED
      BY <3>1, <1>2, <1>3 DEF Path
  <2> QED
    BY <2>1, <1>2, <1>3 DEF Path
<1>5. Behind(draft, s, Done \cup {Top.node})
  <2> SUFFICES ASSUME NEW i \in 1 .. k - 1, NEW e \in DependsOn(draft, s[i].node) \ s[i].left
               PROVE  e \in Done \cup {Top.node} \/ (i < k - 1 /\ e = s[i + 1].node)
    BY <1>2 DEF Behind
  <2>1. e \in Done \/ e = stack[i + 1].node
    BY <1>2, <1>3 DEF Behind
  <2>2. CASE i = k - 1
    BY <2>1, <2>2, <1>1
  <2>3. CASE i # k - 1
    <3>1. i + 1 \in 1 .. k - 1 /\ i < k - 1
      BY <2>3, <1>1
    <3> QED
      BY <3>1, <2>1, <1>2
  <2> QED
    BY <2>2, <2>3
<1>6. /\ Top.node \in OnStack(stack) /\ Top.node \in Ids(draft)
      /\ DependsOn(draft, Top.node) \subseteq Done
  <2>1. k \in 1 .. k /\ ~(k < k)
    BY <1>1
  <2> QED
    BY <2>1, <1>1 DEF OnStack, Path, Behind
<1>7. OnStack(s) = OnStack(stack) \ {Top.node}
  <2>1. 1 .. k = (1 .. k - 1) \cup {k} /\ \A i \in 1 .. k - 1 : stack[i].node # stack[k].node
    BY <1>1, <1>3 DEF Path
  <2>2. OnStack(s) = {stack[i].node : i \in 1 .. k - 1}
    BY <1>2 DEF OnStack
  <2>3. OnStack(stack) = {stack[i].node : i \in 1 .. k - 1} \cup {stack[k].node}
    BY <2>1 DEF OnStack
  <2> QED
    BY <2>1, <2>2, <2>3, <1>1
<1> QED
  BY <1>2, <1>4, <1>5, <1>6, <1>7 DEF s

-----------------------------------------------------------------------------
(* The inductive invariant of the searches *)

Black == {n \in Steps : color[n] = "black"}

CheckType ==
  /\ steps \in Seq(Entry) /\ draft \in Seq(Entry)
  /\ change \in {NoChange} \cup ChangeLists
  /\ at \in {"built", "validate", "raised", "valid", "refused", "order", "ordered"}
  /\ color \in [Steps -> {"white", "gray", "black"}]
  /\ order \in Seq(Steps)
  /\ stack \in Seq(Frames)

\* Between the calls nothing is left of a search but its result.
RestInv ==
  /\ at \notin {"validate", "order"} => stack = <<>>
  /\ at # "validate" => color = [n \in Steps |-> "white"]
  /\ at \notin {"order", "ordered"} => order = <<>>

\* The gray nodes are those on the stack; the black ones have no dependency
\* but black ones, and no cycle among them.
Colored(l, clr, s, B) ==
  /\ NoDuplicates(l) /\ NoneMissing(l)
  /\ Path(l, s) /\ Behind(l, s, B)
  /\ \A n \in Steps : clr[n] = "gray" <=> n \in OnStack(s)
  /\ B \subseteq Ids(l) /\ \A n \in B : DependsOn(l, n) \subseteq B
  /\ NoCycleIn(l, B)

\* A list of steps, each once and behind those it depends on.
Placed(l, o) ==
  /\ {o[i] : i \in DOMAIN o} \subseteq Ids(l)
  /\ \A i, j \in DOMAIN o : o[i] = o[j] => i = j
  /\ \A i \in DOMAIN o : DependsOn(l, o[i]) \subseteq {o[j] : j \in 1 .. i - 1}

\* What topological_order() has placed is not on the stack.
Searched(l, o, s, V) ==
  /\ Path(l, s) /\ Behind(l, s, V)
  /\ OnStack(s) \cap V = {}
  /\ Placed(l, o)

SearchInv ==
  /\ CheckType /\ RestInv
  /\ at = "validate" => Colored(draft, color, stack, Black)
  /\ at = "order" => Searched(draft, order, stack, Visited)
  /\ ValidateAgrees /\ TopologicalAgrees

\* A node whose dependencies are finished closes no cycle.
LEMMA FinishNoCycle ==
  ASSUME NEW l, NEW B, NEW n, n \notin B, DependsOn(l, n) \subseteq B,
         \A m \in B : DependsOn(l, m) \subseteq B, NoCycleIn(l, B)
  PROVE  NoCycleIn(l, B \cup {n})
<1> SUFFICES ASSUME NEW R \in SUBSET (B \cup {n}), R # {}
             PROVE  \E s \in R : DependsOn(l, s) \cap R = {}
  BY DEF NoCycleIn
<1>1. CASE R \ {n} = {}
  <2>1. n \in R /\ DependsOn(l, n) \cap R = {}
    BY <1>1
  <2> QED
    BY <2>1
<1>2. CASE R \ {n} # {}
  <2>1. R \ {n} \in SUBSET B
    OBVIOUS
  <2>2. PICK s \in R \ {n} : DependsOn(l, s) \cap (R \ {n}) = {}
    BY <1>2, <2>1 DEF NoCycleIn
  <2>3. n \notin DependsOn(l, s)
    BY <2>1, <2>2
  <2> QED
    BY <2>2, <2>3
<1> QED
  BY <1>1, <1>2

\* What a step inside validate() has to keep.
LEMMA ValidateKeeps ==
  ASSUME SearchInv, at = "validate", at' = at, UNCHANGED <<steps, change, draft, order>>,
         color' \in [Steps -> {"white", "gray", "black"}], stack' \in Seq(Frames),
         Colored(draft, color', stack', Black')
  PROVE  SearchInv'
<1>1. CheckType' /\ RestInv'
  BY DEF SearchInv, CheckType, RestInv
<1>2. (ValidateAgrees /\ TopologicalAgrees)'
  BY DEF SearchInv, ValidateAgrees, TopologicalAgrees
<1> QED
  BY <1>1, <1>2 DEF SearchInv

\* A node turns gray.
LEMMA TurnGray ==
  ASSUME SearchInv, at = "validate", NEW n \in Steps, color[n] = "white",
         color' = [color EXCEPT ![n] = "gray"]
  PROVE  /\ color' \in [Steps -> {"white", "gray", "black"}] /\ Black' = Black
         /\ \A m \in Steps : color'[m] = "gray" <=> m \in OnStack(stack) \cup {n}
<1>1. color \in [Steps -> {"white", "gray", "black"}]
  BY DEF SearchInv, CheckType
<1>2. \A m \in Steps : color[m] = "gray" <=> m \in OnStack(stack)
  BY DEF SearchInv, Colored
<1>3. \A m \in Steps : color'[m] = IF m = n THEN "gray" ELSE color[m]
  BY <1>1
<1>4. Black' = Black
  BY <1>3 DEF Black
<1> QED
  BY <1>1, <1>2, <1>3, <1>4

LEMMA VisitStepKeeps ==
  ASSUME SearchInv, at = "validate", UNCHANGED <<steps, change, draft>>,
         NEW n \in Steps, VisitStep(n)
  PROVE  SearchInv'
<1>1. /\ draft \in Seq(Entry) /\ NoDuplicates(draft) /\ n \in Ids(draft) /\ color[n] = "white"
      /\ stack = <<>> /\ stack' = Append(<<>>, Frame(n)) /\ at' = at /\ order' = order
      /\ color' = [color EXCEPT ![n] = "gray"]
  BY DEF SearchInv, CheckType, Colored, VisitStep, Enter, FirstNotIn, NotWhite, Ids
<1>2. stack' \in Seq(Frames) /\ Path(draft, stack') /\ Behind(draft, stack', Black) /\ OnStack(stack') = {n}
  BY <1>1, EnterStep
<1>3. OnStack(stack) = {}
  BY <1>1 DEF OnStack
<1>4. /\ color' \in [Steps -> {"white", "gray", "black"}] /\ Black' = Black
      /\ \A m \in Steps : color'[m] = "gray" <=> m \in OnStack(stack')
  BY <1>1, <1>2, <1>3, TurnGray
<1>5. Colored(draft, color', stack', Black')
  BY <1>2, <1>4 DEF SearchInv, Colored
<1> QED
  BY <1>1, <1>2, <1>4, <1>5, ValidateKeeps

\* The dependencies on the top of the stack are steps of the list.
LEMMA TopDeps ==
  ASSUME SearchInv, at \in {"validate", "order"}, stack # <<>>, NEW d \in Top.left
  PROVE  /\ draft \in Seq(Entry) /\ stack \in Seq(Frames) /\ NoDuplicates(draft)
         /\ Path(draft, stack) /\ d \in Ids(draft) /\ d \in Steps
         /\ d \in DependsOn(draft, Top.node) /\ Top = stack[Len(stack)]
         /\ Len(stack) \in 1 .. Len(stack)
<1>1. /\ draft \in Seq(Entry) /\ stack \in Seq(Frames) /\ NoDuplicates(draft) /\ NoneMissing(draft)
      /\ Path(draft, stack)
  <2>1. at = "validate" => Colored(draft, color, stack, Black)
    BY DEF SearchInv
  <2>2. at = "order" => Sound(draft) /\ Path(draft, stack)
    BY DEF SearchInv, ValidateAgrees, Searched
  <2>3. draft \in Seq(Entry) /\ stack \in Seq(Frames)
    BY DEF SearchInv, CheckType
  <2> QED
    BY <2>1, <2>2, <2>3, SoundFacts DEF Colored
<1>2. Len(stack) \in 1 .. Len(stack) /\ Top = stack[Len(stack)]
  BY <1>1 DEF Top
<1>3. Top.node \in Ids(draft) /\ d \in DependsOn(draft, Top.node)
  BY <1>1, <1>2 DEF Path
<1>4. PICK i \in DOMAIN draft : Top.node = draft[i].id
  BY <1>3 DEF Ids
<1>5. d \in Ids(draft)
  BY <1>1, <1>3, <1>4, DependsOnEntry DEF NoneMissing
<1> QED
  BY <1>1, <1>2, <1>3, <1>5, AsDagFacts

LEMMA VisitDepKeeps ==
  ASSUME SearchInv, at = "validate", UNCHANGED <<steps, change, draft>>,
         stack # <<>>, NEW d \in Top.left, VisitDep(d)
  PROVE  SearchInv'
<1>1. /\ color[d] = "white" /\ stack' = Append(Looked(d), Frame(d)) /\ at' = at /\ order' = order
      /\ color' = [color EXCEPT ![d] = "gray"]
  BY DEF VisitDep, Enter
<1>2. /\ draft \in Seq(Entry) /\ stack \in Seq(Frames) /\ NoDuplicates(draft)
      /\ Path(draft, stack) /\ d \in Ids(draft) /\ d \in Steps
  BY TopDeps
<1>3. d \notin OnStack(stack) /\ Behind(draft, stack, Black)
  BY <1>1, <1>2 DEF SearchInv, Colored
<1>4. /\ stack' \in Seq(Frames) /\ Path(draft, stack') /\ Behind(draft, stack', Black)
      /\ OnStack(stack') = OnStack(stack) \cup {d}
  BY <1>1, <1>2, <1>3, EnterDep
<1>5. /\ color' \in [Steps -> {"white", "gray", "black"}] /\ Black' = Black
      /\ \A m \in Steps : color'[m] = "gray" <=> m \in OnStack(stack')
  BY <1>1, <1>2, <1>4, TurnGray
<1>6. Colored(draft, color', stack', Black')
  BY <1>4, <1>5 DEF SearchInv, Colored
<1> QED
  BY <1>1, <1>4, <1>5, <1>6, ValidateKeeps

LEMMA SkipDepKeeps ==
  ASSUME SearchInv, at = "validate", UNCHANGED <<steps, change, draft>>,
         stack # <<>>, NEW d \in Top.left, SkipDep(d)
  PROVE  SearchInv'
<1>1. /\ color[d] = "black" /\ stack' = Looked(d) /\ at' = at /\ order' = order /\ color' = color
  BY DEF SkipDep
<1>2. stack \in Seq(Frames) /\ Path(draft, stack) /\ d \in Steps
  BY TopDeps
<1>3. d \in Black /\ Behind(draft, stack, Black) /\ Black' = Black
  BY <1>1, <1>2 DEF SearchInv, Colored, Black
<1>4. /\ stack' \in Seq(Frames) /\ Path(draft, stack') /\ Behind(draft, stack', Black)
      /\ OnStack(stack') = OnStack(stack)
  BY <1>1, <1>2, <1>3, PassDep
<1>5. Colored(draft, color', stack', Black')
  BY <1>1, <1>3, <1>4 DEF SearchInv, Colored
<1>6. color' \in [Steps -> {"white", "gray", "black"}]
  BY <1>1 DEF SearchInv, CheckType
<1> QED
  BY <1>1, <1>4, <1>5, <1>6, ValidateKeeps

LEMMA LeaveBlackKeeps ==
  ASSUME SearchInv, at = "validate", UNCHANGED <<steps, change, draft>>,
         stack # <<>>, LeaveBlack
  PROVE  SearchInv'
<1> DEFINE n == Top.node
<1>1. /\ Top.left = {} /\ stack' = SubSeq(stack, 1, Len(stack) - 1) /\ at' = at /\ order' = order
      /\ color' = [color EXCEPT ![n] = "black"]
  BY DEF LeaveBlack
<1>2. /\ stack \in Seq(Frames) /\ draft \in Seq(Entry) /\ color \in [Steps -> {"white", "gray", "black"}]
      /\ Colored(draft, color, stack, Black)
  BY DEF SearchInv, CheckType
<1> HIDE DEF n
<1>3. /\ stack' \in Seq(Frames) /\ Path(draft, stack') /\ Behind(draft, stack', Black \cup {n})
      /\ OnStack(stack') = OnStack(stack) \ {n}
      /\ n \in OnStack(stack) /\ n \in Ids(draft) /\ DependsOn(draft, n) \subseteq Black
  BY <1>1, <1>2, LeaveTop DEF Colored, n
<1>4. n \in Steps /\ n \notin Black
  <2>1. n \in Steps
    BY <1>2, <1>3, AsDagFacts DEF Colored
  <2> QED
    BY <2>1, <1>2, <1>3 DEF Colored, Black
<1>5. \A m \in Steps : color'[m] = IF m = n THEN "black" ELSE color[m]
  BY <1>1, <1>2, <1>4
<1>6. color' \in [Steps -> {"white", "gray", "black"}] /\ Black' = Black \cup {n}
  BY <1>1, <1>2, <1>4, <1>5 DEF Black
<1>7. \A m \in Steps : color'[m] = "gray" <=> m \in OnStack(stack')
  BY <1>2, <1>3, <1>5 DEF Colored
<1>8. NoCycleIn(draft, Black \cup {n})
  BY <1>2, <1>3, <1>4, FinishNoCycle DEF Colored
<1>9. Colored(draft, color', stack', Black')
  BY <1>2, <1>3, <1>6, <1>7, <1>8 DEF Colored
<1> QED
  BY <1>1, <1>3, <1>6, <1>9, ValidateKeeps

\* A call that ends leaves no search.
LEMMA ReturnedRests ==
  ASSUME SearchInv, UNCHANGED <<steps, change, draft, order>>,
         NEW how \in {"raised", "valid", "ordered"}, Returned(how),
         at = "validate" <=> how # "ordered", at = "order" <=> how = "ordered"
  PROVE  CheckType' /\ RestInv' /\ at' = how /\ Sound(draft') = Sound(draft)
<1>1. stack' = <<>> /\ color' = [n \in Steps |-> "white"] /\ at' = how
  BY DEF Returned
<1>2. CheckType'
  BY <1>1 DEF SearchInv, CheckType
<1>3. RestInv'
  BY <1>1 DEF SearchInv, RestInv
<1> QED
  BY <1>1, <1>2, <1>3

LEMMA RaiseCycleKeeps ==
  ASSUME SearchInv, at = "validate", UNCHANGED <<steps, change, draft>>,
         stack # <<>>, NEW d \in Top.left, RaiseCycle(d)
  PROVE  SearchInv'
<1>1. CheckType' /\ RestInv' /\ at' = "raised" /\ draft' = draft /\ color[d] = "gray"
  BY ReturnedRests DEF RaiseCycle, ClosesCycle
<1>2. /\ draft \in Seq(Entry) /\ stack \in Seq(Frames) /\ Path(draft, stack)
      /\ d \in Steps /\ d \in DependsOn(draft, stack[Len(stack)].node)
  BY TopDeps
<1>3. PICK k \in 1 .. Len(stack) : stack[k].node = d
  BY <1>1, <1>2 DEF SearchInv, Colored, OnStack
<1>4. ~Sound(draft)
  BY <1>2, <1>3, BackEdge, SoundFacts
<1> QED
  BY <1>1, <1>4 DEF SearchInv, ValidateAgrees, TopologicalAgrees

LEMMA AllBlackKeeps ==
  ASSUME SearchInv, at = "validate", UNCHANGED <<steps, change, draft>>, AllBlack
  PROVE  SearchInv'
<1>1. CheckType' /\ RestInv' /\ at' = "valid" /\ draft' = draft
  BY ReturnedRests DEF AllBlack
<1>2. /\ draft \in Seq(Entry) /\ color \in [Steps -> {"white", "gray", "black"}]
      /\ Colored(draft, color, stack, Black) /\ stack = <<>> /\ Ids(draft) \subseteq NotWhite
  BY DEF SearchInv, CheckType, AllBlack
<1>3. OnStack(stack) = {}
  BY <1>2 DEF OnStack
<1>4. Black = Ids(draft)
  BY <1>2, <1>3 DEF Colored, Black, NotWhite
<1>5. Sound(draft)
  BY <1>2, <1>4, SoundFacts DEF Colored
<1> QED
  BY <1>1, <1>5 DEF SearchInv, ValidateAgrees, TopologicalAgrees

-----------------------------------------------------------------------------
(* topological_order() *)

\* What a step inside topological_order() has to keep.
LEMMA OrderKeeps ==
  ASSUME SearchInv, at = "order", at' = at, UNCHANGED <<steps, change, draft, color>>,
         order' \in Seq(Steps), stack' \in Seq(Frames),
         Searched(draft, order', stack', Visited')
  PROVE  SearchInv'
<1>1. CheckType' /\ RestInv'
  BY DEF SearchInv, CheckType, RestInv
<1>2. (ValidateAgrees /\ TopologicalAgrees)'
  BY DEF SearchInv, ValidateAgrees, TopologicalAgrees
<1> QED
  BY <1>1, <1>2 DEF SearchInv

LEMMA OrderStepKeeps ==
  ASSUME SearchInv, at = "order", UNCHANGED <<steps, change, draft>>,
         NEW n \in Steps, OrderStep(n)
  PROVE  SearchInv'
<1>1. /\ draft \in Seq(Entry) /\ Sound(draft) /\ n \in Ids(draft) /\ n \notin Visited
      /\ stack' = Append(<<>>, Frame(n)) /\ at' = at /\ order' = order /\ color' = color
      /\ order \in Seq(Steps) /\ Placed(draft, order)
  BY DEF SearchInv, CheckType, ValidateAgrees, Searched, OrderStep, Call, FirstNotIn, Ids
<1>2. /\ stack' \in Seq(Frames) /\ Path(draft, stack') /\ Behind(draft, stack', Visited)
      /\ OnStack(stack') = {n}
  BY <1>1, EnterStep DEF Sound
<1>3. Visited' = Visited
  BY <1>1 DEF Visited
<1>4. Searched(draft, order', stack', Visited')
  BY <1>1, <1>2, <1>3 DEF Searched
<1> QED
  BY <1>1, <1>2, <1>4, OrderKeeps

LEMMA OrderDepKeeps ==
  ASSUME SearchInv, at = "order", UNCHANGED <<steps, change, draft>>,
         stack # <<>>, NEW d \in Top.left, OrderDep(d)
  PROVE  SearchInv'
<1>1. /\ d \notin Visited /\ stack' = Append(Looked(d), Frame(d))
      /\ at' = at /\ order' = order /\ color' = color
  BY DEF OrderDep, Call
<1>2. /\ draft \in Seq(Entry) /\ stack \in Seq(Frames) /\ NoDuplicates(draft)
      /\ Path(draft, stack) /\ d \in Ids(draft)
      /\ d \in DependsOn(draft, stack[Len(stack)].node)
  BY TopDeps
<1>3. /\ order \in Seq(Steps) /\ Sound(draft) /\ Searched(draft, order, stack, Visited)
  BY DEF SearchInv, CheckType, ValidateAgrees
\* A dependency that is on the stack would close a cycle.
<1>4. d \notin OnStack(stack)
  <2> SUFFICES ASSUME d \in OnStack(stack) PROVE FALSE
    OBVIOUS
  <2>1. PICK k \in 1 .. Len(stack) : stack[k].node = d
    BY DEF OnStack
  <2> QED
    BY <2>1, <1>2, <1>3, BackEdge, SoundFacts
<1>5. /\ stack' \in Seq(Frames) /\ Path(draft, stack') /\ Behind(draft, stack', Visited)
      /\ OnStack(stack') = OnStack(stack) \cup {d}
  BY <1>1, <1>2, <1>3, <1>4, EnterDep DEF Searched
<1>6. Visited' = Visited
  BY <1>1 DEF Visited
<1>7. Searched(draft, order', stack', Visited')
  BY <1>1, <1>3, <1>5, <1>6 DEF Searched
<1> QED
  BY <1>1, <1>3, <1>5, <1>7, OrderKeeps

LEMMA OrderedDepKeeps ==
  ASSUME SearchInv, at = "order", UNCHANGED <<steps, change, draft>>,
         stack # <<>>, NEW d \in Top.left, OrderedDep(d)
  PROVE  SearchInv'
<1>1. /\ d \in Visited /\ stack' = Looked(d) /\ at' = at /\ order' = order /\ color' = color
  BY DEF OrderedDep
<1>2. /\ stack \in Seq(Frames) /\ Path(draft, stack) /\ order \in Seq(Steps)
      /\ Searched(draft, order, stack, Visited)
  BY DEF SearchInv, CheckType, Searched
<1>3. /\ stack' \in Seq(Frames) /\ Path(draft, stack') /\ Behind(draft, stack', Visited)
      /\ OnStack(stack') = OnStack(stack)
  BY <1>1, <1>2, PassDep DEF Searched
<1>4. Visited' = Visited
  BY <1>1 DEF Visited
<1>5. Searched(draft, order', stack', Visited')
  BY <1>1, <1>2, <1>3, <1>4 DEF Searched
<1> QED
  BY <1>1, <1>2, <1>3, <1>5, OrderKeeps

LEMMA LeavePlacedKeeps ==
  ASSUME SearchInv, at = "order", UNCHANGED <<steps, change, draft>>,
         stack # <<>>, LeavePlaced
  PROVE  SearchInv'
<1> DEFINE n == Top.node
           k == Len(order)
<1>1. /\ Top.left = {} /\ stack' = SubSeq(stack, 1, Len(stack) - 1) /\ at' = at /\ color' = color
      /\ order' = Append(order, n)
  BY DEF LeavePlaced, Place
<1>2. /\ stack \in Seq(Frames) /\ draft \in Seq(Entry) /\ order \in Seq(Steps)
      /\ Sound(draft) /\ Searched(draft, order, stack, Visited)
  BY DEF SearchInv, CheckType, ValidateAgrees
<1> HIDE DEF n
<1>3. /\ stack' \in Seq(Frames) /\ Path(draft, stack') /\ Behind(draft, stack', Visited \cup {n})
      /\ OnStack(stack') = OnStack(stack) \ {n}
      /\ n \in OnStack(stack) /\ n \in Ids(draft) /\ DependsOn(draft, n) \subseteq Visited
  BY <1>1, <1>2, LeaveTop DEF Searched, n
<1>4. n \in Steps /\ n \notin Visited
  BY <1>2, <1>3, AsDagFacts DEF Searched, Sound
<1>5. /\ order' \in Seq(Steps) /\ k \in Nat /\ DOMAIN order = 1 .. k /\ DOMAIN order' = 1 .. k + 1
      /\ order'[k + 1] = n /\ \A i \in 1 .. k : order'[i] = order[i]
  BY <1>1, <1>2, <1>4
<1>6. 1 .. k + 1 = (1 .. k) \cup {k + 1} /\ 1 .. (k + 1) - 1 = 1 .. k
  BY <1>5
<1> HIDE DEF k
<1>7. Visited' = Visited \cup {n}
  BY <1>5, <1>6 DEF Visited
<1>8. Placed(draft, order')
  <2>1. {order'[i] : i \in DOMAIN order'} \subseteq Ids(draft)
    BY <1>2, <1>3, <1>7 DEF Visited, Searched, Placed
  <2>2. ASSUME NEW i \in 1 .. k + 1, NEW j \in 1 .. k + 1, order'[i] = order'[j] PROVE i = j
    <3>1. \A m \in 1 .. k : order'[m] # n
      BY <1>4, <1>5 DEF Visited
    <3>2. CASE i \in 1 .. k /\ j \in 1 .. k
      BY <3>2, <2>2, <1>2, <1>5 DEF Searched, Placed
    <3> QED
      BY <3>1, <3>2, <2>2, <1>5, <1>6
  <2>3. ASSUME NEW i \in 1 .. k + 1
        PROVE  DependsOn(draft, order'[i]) \subseteq {order'[j] : j \in 1 .. i - 1}
    <3>1. CASE i = k + 1
      <4>1. Visited = {order'[j] : j \in 1 .. k}
        BY <1>5 DEF Visited
      <4> QED
        BY <4>1, <3>1, <1>3, <1>5, <1>6
    <3>2. CASE i \in 1 .. k
      <4>1. \A j \in 1 .. i - 1 : j \in 1 .. k
        BY <3>2, <1>5
      <4>2. {order'[j] : j \in 1 .. i - 1} = {order[j] : j \in 1 .. i - 1}
        BY <4>1, <1>5
      <4>3. DependsOn(draft, order[i]) \subseteq {order[j] : j \in 1 .. i - 1}
        BY <3>2, <1>2, <1>5 DEF Searched, Placed
      <4> QED
        BY <4>2, <4>3, <3>2, <1>5
    <3> QED
      BY <3>1, <3>2, <1>6
  <2> QED
    BY <2>1, <2>2, <2>3, <1>5 DEF Placed
<1>9. Searched(draft, order', stack', Visited')
  <2>1. OnStack(stack') \cap (Visited \cup {n}) = {}
    BY <1>2, <1>3 DEF Searched
  <2> QED
    BY <2>1, <1>3, <1>7, <1>8 DEF Searched
<1> QED
  BY <1>1, <1>3, <1>5, <1>9, OrderKeeps

LEMMA AllPlacedKeeps ==
  ASSUME SearchInv, at = "order", UNCHANGED <<steps, change, draft>>, AllPlaced
  PROVE  SearchInv'
<1>1. CheckType' /\ RestInv' /\ at' = "ordered" /\ draft' = draft /\ order' = order
  BY ReturnedRests DEF AllPlaced
<1>2. Sound(draft) /\ Placed(draft, order) /\ Ids(draft) \subseteq Visited
  BY DEF SearchInv, ValidateAgrees, Searched, AllPlaced
<1>3. Visited' = Visited /\ Visited = Ids(draft)
  BY <1>1, <1>2 DEF Visited, Placed
<1>4. ValidateAgrees'
  BY <1>1, <1>2 DEF ValidateAgrees
<1>5. TopologicalAgrees'
  BY <1>1, <1>2, <1>3 DEF TopologicalAgrees, Placed
<1> QED
  BY <1>1, <1>4, <1>5 DEF SearchInv

-----------------------------------------------------------------------------
(* The calls *)

\* The call of validate() on a list: what is left to show is done by SoundFacts.
LEMMA ValidateCall ==
  ASSUME SearchInv, at \in {"built", "valid"}, NEW l \in Seq(Entry), Validate(l),
         steps' \in Seq(Entry), change' \in {NoChange} \cup ChangeLists
  PROVE  SearchInv'
<1>1. /\ draft' = l /\ color' = color /\ order' = order /\ stack' = stack
      /\ at' = IF NoDuplicates(l) /\ NoneMissing(l) THEN "validate" ELSE "raised"
      /\ stack = <<>> /\ color = [n \in Steps |-> "white"] /\ order = <<>>
  BY DEF Validate, SearchInv, RestInv
<1>2. CheckType' /\ RestInv'
  BY <1>1 DEF SearchInv, CheckType, RestInv
<1>3. CASE NoDuplicates(l) /\ NoneMissing(l)
  <2>1. at' = "validate" /\ Black' = {} /\ OnStack(<<>>) = {}
    BY <1>1, <1>3 DEF Black, OnStack
  <2>2. Path(l, <<>>) /\ Behind(l, <<>>, {})
    BY DEF Path, Behind
  <2>3. NoCycleIn(l, {})
    BY DEF NoCycleIn
  <2>4. Colored(l, color', <<>>, {})
    BY <1>1, <1>3, <2>1, <2>2, <2>3 DEF Colored
  <2> QED
    BY <1>1, <1>2, <2>1, <2>4 DEF SearchInv, ValidateAgrees, TopologicalAgrees
<1>4. CASE ~(NoDuplicates(l) /\ NoneMissing(l))
  <2>1. at' = "raised" /\ ~Sound(l)
    BY <1>1, <1>4, SoundFacts
  <2> QED
    BY <1>1, <1>2, <2>1 DEF SearchInv, ValidateAgrees, TopologicalAgrees
<1> QED
  BY <1>3, <1>4

LEMMA CallOrderKeeps ==
  ASSUME SearchInv, CallOrder
  PROVE  SearchInv'
<1>1. /\ at = "valid" /\ at' = "order" /\ UNCHANGED <<steps, change, draft, color, order, stack>>
      /\ stack = <<>> /\ order = <<>> /\ Sound(draft)
  BY DEF CallOrder, SearchInv, RestInv, ValidateAgrees
<1>2. CheckType' /\ RestInv'
  BY <1>1 DEF SearchInv, CheckType, RestInv
<1>3. Visited' = {} /\ OnStack(<<>>) = {}
  BY <1>1 DEF Visited, OnStack
<1>4. Path(draft, <<>>) /\ Behind(draft, <<>>, {}) /\ Placed(draft, <<>>)
  BY DEF Path, Behind, Placed
<1>5. Searched(draft, <<>>, <<>>, {})
  BY <1>3, <1>4 DEF Searched
<1> QED
  BY <1>1, <1>2, <1>3, <1>5 DEF SearchInv, ValidateAgrees, TopologicalAgrees

-----------------------------------------------------------------------------
(* apply_mutation() on lists *)

\* A set of numbers that is not empty has a least one.
LEMMA LeastNumber ==
  ASSUME NEW T \in SUBSET Nat, T # {}
  PROVE  \E m \in T : \A j \in T : m <= j
<1>1. PICK m \in T : \A j \in T : ~(<<j, m>> \in OpToRel(<, Nat))
  BY WFMin, NatLessThanWellFounded, Zenon
<1>2. \A j \in T : j \in Nat /\ m \in Nat
  OBVIOUS
<1>3. \A j \in T : ~(j < m)
  BY <1>1, <1>2, Zenon DEF OpToRel
<1> QED
  BY <1>2, <1>3

\* A set that has 0 and, with every i below n, i + 1, has all numbers up to n.
LEMMA UpTo ==
  ASSUME NEW n \in Nat, NEW S, 0 \in S,
         \A i \in 0 .. n : i < n /\ i \in S => i + 1 \in S
  PROVE  \A i \in 0 .. n : i \in S
<1> DEFINE T == {i \in 0 .. n : i \notin S}
<1> SUFFICES ASSUME T # {} PROVE FALSE
  OBVIOUS
<1>1. T \in SUBSET Nat
  OBVIOUS
<1> HIDE DEF T
<1>2. PICK m \in T : \A j \in T : m <= j
  BY <1>1, LeastNumber
<1>3. m \in 1 .. n /\ m \notin S
  BY <1>2 DEF T
<1>4. m - 1 \notin T
  BY <1>2, <1>3
<1> QED
  BY <1>3, <1>4 DEF T

\* Of several entries of an id one is the last: it is what DependsOn reads.
LEMMA DependsOnType ==
  ASSUME NEW l \in Seq(Entry), NEW n \in Ids(l)
  PROVE  DependsOn(l, n) \in SUBSET Steps
<1> DEFINE T == {k \in Nat : \E i \in DOMAIN l : l[i].id = n /\ k = Len(l) - i}
           last(i) == l[i].id = n /\ \A j \in DOMAIN l : l[j].id = n => j <= i
<1>1. Len(l) \in Nat /\ DOMAIN l = 1 .. Len(l)
  OBVIOUS
<1>2. T # {}
  <2>1. PICK i \in DOMAIN l : n = l[i].id
    BY DEF Ids
  <2>2. Len(l) - i \in Nat
    BY <1>1
  <2> QED
    BY <2>1, <2>2
<1>3. PICK k \in T : \A j \in T : k <= j
  <2>1. T \in SUBSET Nat
    OBVIOUS
  <2> HIDE DEF T
  <2> QED
    BY <2>1, <1>2, LeastNumber
<1>4. PICK i \in DOMAIN l : l[i].id = n /\ k = Len(l) - i
  BY <1>3
<1>5. ASSUME NEW j \in DOMAIN l, l[j].id = n PROVE j <= i
  <2>1. Len(l) - j \in T
    BY <1>1, <1>5
  <2>2. k <= Len(l) - j
    BY <2>1, <1>3
  <2> QED
    BY <2>2, <1>1, <1>4
<1>6. last(i)
  BY <1>4, <1>5
<1>7. (CHOOSE j \in DOMAIN l : last(j)) \in DOMAIN l
  BY <1>6
<1>8. \A j \in DOMAIN l : l[j].depends_on \in SUBSET Steps
  <2>1. \A j \in DOMAIN l : l[j] \in Entry
    OBVIOUS
  <2> QED
    BY <2>1 DEF Entry
<1> QED
  BY <1>7, <1>8 DEF DependsOn

\* The equation that defines RemovedUpTo, up to position n.
RemovedEq(f, l, R, n) ==
  f = [i \in 0 .. n |-> IF i = 0 THEN <<>>
                        ELSE IF l[i].id \in R THEN f[i - 1] ELSE Append(f[i - 1], l[i])]

LEMMA RemovedExists ==
  ASSUME NEW l, NEW R, NEW n \in Nat
  PROVE  \E f : RemovedEq(f, l, R, n)
<1> DEFINE S == {i \in 0 .. n : \E f : RemovedEq(f, l, R, i)}
<1>1. 0 \in S
  <2> DEFINE f == [i \in 0 .. 0 |-> <<>>]
  <2>1. RemovedEq(f, l, R, 0)
    BY DEF RemovedEq
  <2> QED
    BY <2>1
<1>2. ASSUME NEW j \in 0 .. n, j < n, j \in S PROVE j + 1 \in S
  <2>1. PICK f : RemovedEq(f, l, R, j)
    BY <1>2
  <2> DEFINE g == [i \in 0 .. (j + 1) |->
                     IF i <= j THEN f[i]
                     ELSE IF l[j + 1].id \in R THEN f[j] ELSE Append(f[j], l[j + 1])]
  <2>2. DOMAIN g = 0 .. (j + 1)
    OBVIOUS
  <2>3. ASSUME NEW i \in 0 .. (j + 1)
        PROVE  g[i] = IF i = 0 THEN <<>>
                      ELSE IF l[i].id \in R THEN g[i - 1] ELSE Append(g[i - 1], l[i])
    <3>1. CASE i = j + 1
      <4>1. j \in 0 .. (j + 1) /\ ~(j + 1 <= j) /\ j <= j /\ (j + 1) - 1 = j /\ i # 0
        BY <3>1
      <4>2. g[j] = f[j]
        BY <4>1
      <4>3. g[i] = IF l[j + 1].id \in R THEN f[j] ELSE Append(f[j], l[j + 1])
        BY <4>1, <3>1
      <4> QED
        BY <4>1, <4>2, <4>3, <3>1
    <3>2. CASE i = 0
      BY <2>1, <3>2 DEF RemovedEq
    <3>3. CASE i \in 1 .. j
      <4>1. i - 1 \in 0 .. j /\ i \in 0 .. j /\ i - 1 \in 0 .. (j + 1) /\ i # 0
        BY <3>3
      <4>2. g[i] = f[i] /\ g[i - 1] = f[i - 1]
        BY <4>1
      <4>3. f[i] = IF l[i].id \in R THEN f[i - 1] ELSE Append(f[i - 1], l[i])
        BY <2>1, <4>1 DEF RemovedEq
      <4> HIDE DEF g
      <4> QED
        BY <4>1, <4>2, <4>3
    <3> QED
      BY <3>1, <3>2, <3>3
  <2>4. g = [i \in 0 .. (j + 1) |-> g[i]]
    OBVIOUS
  <2> HIDE DEF g
  <2>5. RemovedEq(g, l, R, j + 1)
    BY <2>3, <2>4 DEF RemovedEq
  <2> QED
    BY <1>2, <2>5
<1> HIDE DEF S
<1>3. \A i \in 0 .. n : i \in S
  BY <1>1, <1>2, UpTo
<1> QED
  BY <1>3 DEF S

\* RemovedUpTo satisfies its own definition.
LEMMA RemovedUpToEq ==
  ASSUME NEW l, NEW R, Len(l) \in Nat
  PROVE  /\ RemovedUpTo(l, R)[0] = <<>>
         /\ \A i \in 1 .. Len(l) :
              RemovedUpTo(l, R)[i] = IF l[i].id \in R THEN RemovedUpTo(l, R)[i - 1]
                                     ELSE Append(RemovedUpTo(l, R)[i - 1], l[i])
<1> DEFINE k == RemovedUpTo(l, R)
<1>1. k = CHOOSE f : RemovedEq(f, l, R, Len(l))
  BY DEF RemovedUpTo, RemovedEq
<1>2. \E f : RemovedEq(f, l, R, Len(l))
  BY RemovedExists
<1> HIDE DEF k
<1>3. RemovedEq(k, l, R, Len(l))
  BY <1>1, <1>2
<1>4. k[0] = <<>>
  BY <1>3 DEF RemovedEq
<1>5. ASSUME NEW i \in 1 .. Len(l)
      PROVE  k[i] = IF l[i].id \in R THEN k[i - 1] ELSE Append(k[i - 1], l[i])
  <2>1. i \in 0 .. Len(l) /\ i # 0
    OBVIOUS
  <2> QED
    BY <1>3, <2>1, Zenon DEF RemovedEq
<1> QED
  BY <1>4, <1>5 DEF k

\* What the first i steps of a list leave when R is removed: they are in the
\* list, all others are kept, and no id is doubled.
RemovedPart(k, l, R, i) ==
  /\ k \in Seq(Entry)
  /\ \A p \in DOMAIN k : \E j \in 1 .. i : l[j].id \notin R /\ k[p] = l[j]
  /\ \A j \in 1 .. i : l[j].id \notin R => \E p \in DOMAIN k : k[p] = l[j]
  /\ NoDuplicates(k)

LEMMA RemovedParts ==
  ASSUME NEW l \in Seq(Entry), NoDuplicates(l), NEW R
  PROVE  RemovedPart(Removed(l, R), l, R, Len(l))
<1> DEFINE k == RemovedUpTo(l, R)
           S == {i \in 0 .. Len(l) : RemovedPart(k[i], l, R, i)}
<1>1. /\ Len(l) \in Nat /\ DOMAIN l = 1 .. Len(l) /\ k[0] = <<>>
      /\ \A i \in 1 .. Len(l) : k[i] = IF l[i].id \in R THEN k[i - 1] ELSE Append(k[i - 1], l[i])
  BY RemovedUpToEq
<1> HIDE DEF k
<1>2. 0 \in S
  <2>1. k[0] \in Seq(Entry) /\ DOMAIN k[0] = {} /\ 1 .. 0 = {} /\ 0 \in 0 .. Len(l)
    BY <1>1
  <2>2. RemovedPart(k[0], l, R, 0)
    BY <2>1 DEF RemovedPart, NoDuplicates
  <2> QED
    BY <2>1, <2>2
<1>3. ASSUME NEW i \in 0 .. Len(l), i < Len(l), i \in S PROVE i + 1 \in S
  <2> DEFINE e == l[i + 1]
             s == k[i]
             t == k[i + 1]
  <2>1. i + 1 \in 1 .. Len(l) /\ (i + 1) - 1 = i /\ e \in Entry /\ i \in Nat
    BY <1>1, <1>3
  <2>2. RemovedPart(s, l, R, i)
    BY <1>3
  <2>3. t = IF e.id \in R THEN s ELSE Append(s, e)
    BY <1>1, <2>1
  <2>4. 1 .. i + 1 = (1 .. i) \cup {i + 1}
    BY <2>1
  <2> HIDE DEF e, s, t
  <2>5. CASE e.id \in R
    <3>1. RemovedPart(t, l, R, i + 1)
      BY <2>2, <2>3, <2>4, <2>5 DEF RemovedPart, e
    <3> QED
      BY <3>1, <2>1 DEF t
  <2>6. CASE e.id \notin R
    <3>1. /\ t \in Seq(Entry) /\ Len(s) \in Nat /\ DOMAIN s = 1 .. Len(s)
          /\ DOMAIN t = 1 .. Len(s) + 1 /\ t[Len(s) + 1] = e
          /\ \A p \in 1 .. Len(s) : t[p] = s[p]
      BY <2>1, <2>2, <2>3, <2>6 DEF RemovedPart
    <3>2. DOMAIN t = DOMAIN s \cup {Len(s) + 1} /\ Len(s) + 1 \notin DOMAIN s
      BY <3>1
    <3>3. ASSUME NEW p \in DOMAIN t PROVE \E j \in 1 .. i + 1 : l[j].id \notin R /\ t[p] = l[j]
      <4>1. CASE p \in DOMAIN s
        BY <4>1, <3>1, <2>2, <2>4 DEF RemovedPart
      <4>2. CASE p = Len(s) + 1
        BY <4>2, <3>1, <2>4, <2>6 DEF e
      <4> QED
        BY <4>1, <4>2, <3>2
    <3>4. ASSUME NEW j \in 1 .. i + 1, l[j].id \notin R PROVE \E p \in DOMAIN t : t[p] = l[j]
      <4>1. CASE j \in 1 .. i
        <5>1. PICK p \in DOMAIN s : s[p] = l[j]
          BY <4>1, <3>4, <2>2 DEF RemovedPart
        <5> QED
          BY <5>1, <3>1, <3>2
      <4>2. CASE j = i + 1
        BY <4>2, <3>1, <3>2 DEF e
      <4> QED
        BY <4>1, <4>2, <2>4
    <3>5. \A p \in DOMAIN s : s[p].id # e.id
      <4> SUFFICES ASSUME NEW p \in DOMAIN s, s[p].id = e.id PROVE FALSE
        OBVIOUS
      <4>1. PICK j \in 1 .. i : s[p] = l[j]
        BY <2>2 DEF RemovedPart
      <4>2. j \in DOMAIN l /\ i + 1 \in DOMAIN l /\ j # i + 1
        BY <1>1, <2>1
      <4> QED
        BY <4>1, <4>2 DEF NoDuplicates, e
    <3>6. NoDuplicates(t)
      <4> SUFFICES ASSUME NEW p \in DOMAIN t, NEW q \in DOMAIN t, t[p].id = t[q].id
                   PROVE  p = q
        BY DEF NoDuplicates
      <4>1. CASE p \in DOMAIN s /\ q \in DOMAIN s
        BY <4>1, <3>1, <2>2 DEF RemovedPart, NoDuplicates
      <4> QED
        BY <4>1, <3>1, <3>2, <3>5
    <3>7. RemovedPart(t, l, R, i + 1)
      BY <3>1, <3>3, <3>4, <3>6 DEF RemovedPart
    <3> QED
      BY <3>7, <2>1 DEF t
  <2> QED
    BY <2>5, <2>6
<1> HIDE DEF S
<1>4. \A i \in 0 .. Len(l) : i \in S
  BY <1>1, <1>2, <1>3, UpTo
<1>5. Len(l) \in 0 .. Len(l)
  BY <1>1
<1> QED
  BY <1>4, <1>5 DEF S, k, Removed

\* Removing steps: the others stay, with what they depend on.
LEMMA RemovedFacts ==
  ASSUME NEW l \in Seq(Entry), NoDuplicates(l), NEW R
  PROVE  /\ Removed(l, R) \in Seq(Entry) /\ NoDuplicates(Removed(l, R))
         /\ Ids(Removed(l, R)) = Ids(l) \ R
         /\ \A n \in Ids(l) \ R : DependsOn(Removed(l, R), n) = DependsOn(l, n)
<1> DEFINE k == Removed(l, R)
<1>1. RemovedPart(k, l, R, Len(l)) /\ DOMAIN l = 1 .. Len(l)
  BY RemovedParts
<1> HIDE DEF k
<1>2. k \in Seq(Entry) /\ NoDuplicates(k)
  BY <1>1 DEF RemovedPart
<1>3. ASSUME NEW n \in Ids(k) PROVE n \in Ids(l) \ R /\ DependsOn(k, n) = DependsOn(l, n)
  <2>1. PICK p \in DOMAIN k : n = k[p].id
    BY DEF Ids
  <2>2. PICK j \in DOMAIN l : l[j].id \notin R /\ k[p] = l[j]
    BY <1>1 DEF RemovedPart
  <2>3. DependsOn(k, n) = k[p].depends_on /\ DependsOn(l, n) = l[j].depends_on
    BY <2>1, <2>2, <1>2, DependsOnEntry
  <2> QED
    BY <2>1, <2>2, <2>3 DEF Ids
<1>4. ASSUME NEW n \in Ids(l) \ R PROVE n \in Ids(k)
  <2>1. PICK j \in DOMAIN l : n = l[j].id
    BY DEF Ids
  <2>2. PICK p \in DOMAIN k : k[p] = l[j]
    BY <2>1, <1>1 DEF RemovedPart
  <2> QED
    BY <2>1, <2>2 DEF Ids
<1>5. Ids(k) = Ids(l) \ R
  BY <1>3, <1>4
<1> QED
  BY <1>2, <1>3, <1>5 DEF k

\* Modifying steps: only what the modified ones depend on changes.
LEMMA ModifiedFacts ==
  ASSUME NEW l \in Seq(Entry), NoDuplicates(l), NEW mods \in Seq(Entry)
  PROVE  /\ Modified(l, mods) \in Seq(Entry) /\ NoDuplicates(Modified(l, mods))
         /\ Ids(Modified(l, mods)) = Ids(l)
         /\ \A n \in Ids(l) : DependsOn(Modified(l, mods), n) =
                                IF n \in Ids(mods) THEN DependsOn(mods, n) ELSE DependsOn(l, n)
<1> DEFINE k == Modified(l, mods)
<1>1. Len(l) \in Nat /\ DOMAIN l = 1 .. Len(l) /\ \A i \in DOMAIN l : l[i] \in Entry
  OBVIOUS
<1>2. DOMAIN k = DOMAIN l
  BY DEF Modified
<1>3. ASSUME NEW i \in DOMAIN l
      PROVE  /\ k[i] \in Entry /\ k[i].id = l[i].id
             /\ k[i].depends_on = IF l[i].id \in Ids(mods) THEN DependsOn(mods, l[i].id)
                                  ELSE l[i].depends_on
  <2>1. k[i] = IF l[i].id \in Ids(mods)
               THEN [id |-> l[i].id, depends_on |-> DependsOn(mods, l[i].id)] ELSE l[i]
    BY DEF Modified
  <2>2. CASE l[i].id \in Ids(mods)
    <3>1. DependsOn(mods, l[i].id) \in SUBSET Steps
      BY <2>2, DependsOnType
    <3> QED
      BY <3>1, <2>1, <2>2, <1>1 DEF Entry
  <2>3. CASE l[i].id \notin Ids(mods)
    BY <2>1, <2>3, <1>1
  <2> QED
    BY <2>2, <2>3
<1>4. k \in Seq(Entry)
  <2>1. k = [i \in 1 .. Len(l) |-> k[i]]
    BY <1>1 DEF Modified
  <2> HIDE DEF k
  <2>2. k \in [1 .. Len(l) -> Entry]
    BY <2>1, <1>1, <1>3
  <2> QED
    BY <2>2, <1>1, SeqDef
<1> HIDE DEF k
<1>5. NoDuplicates(k) /\ Ids(k) = Ids(l)
  BY <1>2, <1>3 DEF NoDuplicates, Ids
<1>6. ASSUME NEW n \in Ids(l)
      PROVE  DependsOn(k, n) = IF n \in Ids(mods) THEN DependsOn(mods, n) ELSE DependsOn(l, n)
  <2>1. PICK i \in DOMAIN l : n = l[i].id
    BY DEF Ids
  <2>2. DependsOn(k, k[i].id) = k[i].depends_on
    BY <1>2, <1>4, <1>5, DependsOnEntry
  <2>3. DependsOn(l, l[i].id) = l[i].depends_on
    BY DependsOnEntry
  <2> QED
    BY <2>1, <2>2, <2>3, <1>3
<1> QED
  BY <1>4, <1>5, <1>6 DEF k

\* Adding steps.
LEMMA AddedFacts ==
  ASSUME NEW l \in Seq(Entry), NoDuplicates(l), NEW t \in Seq(Entry)
  PROVE  /\ l \o t \in Seq(Entry) /\ Ids(l \o t) = Ids(l) \cup Ids(t)
         /\ NoDuplicates(l \o t) <=> NoDuplicates(t) /\ Ids(t) \cap Ids(l) = {}
         /\ NoDuplicates(l \o t) =>
              /\ \A n \in Ids(t) : DependsOn(l \o t, n) = DependsOn(t, n)
              /\ \A n \in Ids(l) : DependsOn(l \o t, n) = DependsOn(l, n)
<1> DEFINE k == l \o t
           a == Len(l)
           b == Len(t)
<1>1. /\ a \in Nat /\ b \in Nat /\ DOMAIN l = 1 .. a /\ DOMAIN t = 1 .. b
      /\ k \in Seq(Entry) /\ Len(k) = a + b
      /\ \A i \in 1 .. a + b : k[i] = IF i <= a THEN l[i] ELSE t[i - a]
  OBVIOUS
<1>2. DOMAIN k = 1 .. a + b
  BY <1>1
<1> HIDE DEF k, a, b
<1>3. \A i \in 1 .. a : i \in DOMAIN k /\ k[i] = l[i]
  BY <1>1, <1>2
<1>4. \A i \in 1 .. b : a + i \in DOMAIN k /\ k[a + i] = t[i]
  <2> SUFFICES ASSUME NEW i \in 1 .. b PROVE a + i \in DOMAIN k /\ k[a + i] = t[i]
    OBVIOUS
  <2>1. a + i \in 1 .. a + b /\ ~(a + i <= a) /\ (a + i) - a = i
    BY <1>1
  <2> QED
    BY <2>1, <1>1, <1>2
<1>5. \A p \in DOMAIN k : p \in 1 .. a \/ \E i \in 1 .. b : p = a + i
  <2> SUFFICES ASSUME NEW p \in DOMAIN k, p \notin 1 .. a PROVE \E i \in 1 .. b : p = a + i
    OBVIOUS
  <2>1. p - a \in 1 .. b /\ p = a + (p - a)
    BY <1>1, <1>2
  <2> QED
    BY <2>1
<1>6. Ids(k) = Ids(l) \cup Ids(t)
  <2> DOMAIN l = 1 .. a /\ DOMAIN t = 1 .. b
    BY <1>1
  <2>1. ASSUME NEW n \in Ids(k) PROVE n \in Ids(l) \/ n \in Ids(t)
    <3>1. PICK p \in DOMAIN k : n = k[p].id
      BY DEF Ids
    <3>2. CASE p \in 1 .. a
      BY <3>1, <3>2, <1>3 DEF Ids
    <3>3. CASE \E i \in 1 .. b : p = a + i
      <4>1. PICK i \in 1 .. b : p = a + i
        BY <3>3
      <4>2. n = t[i].id
        BY <4>1, <3>1, <1>4
      <4> QED
        BY <4>2 DEF Ids
    <3> QED
      BY <3>2, <3>3, <1>5
  <2>2. \A n \in Ids(l) : n \in Ids(k)
    BY <1>3 DEF Ids
  <2>3. ASSUME NEW n \in Ids(t) PROVE n \in Ids(k)
    <3>1. PICK i \in 1 .. b : n = t[i].id
      BY DEF Ids
    <3>2. n = k[a + i].id /\ a + i \in DOMAIN k
      BY <3>1, <1>4
    <3> QED
      BY <3>2 DEF Ids
  <2> QED
    BY <2>1, <2>2, <2>3
<1>7. ASSUME NoDuplicates(k) PROVE NoDuplicates(t) /\ Ids(t) \cap Ids(l) = {}
  <2>1. ASSUME NEW i \in 1 .. b, NEW j \in 1 .. b, t[i].id = t[j].id PROVE i = j
    <3>1. a + i = a + j
      BY <2>1, <1>4, <1>7 DEF NoDuplicates
    <3> QED
      BY <3>1, <1>1
  <2>2. ASSUME NEW i \in 1 .. a, NEW j \in 1 .. b, l[i].id = t[j].id PROVE FALSE
    <3>1. i = a + j
      BY <2>2, <1>3, <1>4, <1>7 DEF NoDuplicates
    <3> QED
      BY <3>1, <1>1
  <2>3. NoDuplicates(t)
    BY <2>1, <1>1 DEF NoDuplicates
  <2>4. Ids(t) \cap Ids(l) = {}
    BY <2>2, <1>1 DEF Ids
  <2> QED
    BY <2>3, <2>4
<1>8. ASSUME NoDuplicates(t), Ids(t) \cap Ids(l) = {} PROVE NoDuplicates(k)
  <2> SUFFICES ASSUME NEW p \in DOMAIN k, NEW q \in DOMAIN k, k[p].id = k[q].id PROVE p = q
    BY DEF NoDuplicates
  <2>1. \A i \in 1 .. a : \A j \in 1 .. b : l[i].id # t[j].id
    BY <1>1, <1>8 DEF Ids
  <2>2. CASE p \in 1 .. a
    <3>1. q \in 1 .. a
      BY <2>1, <2>2, <1>3, <1>4, <1>5
    <3> QED
      BY <3>1, <2>2, <1>1, <1>3 DEF NoDuplicates
  <2>3. CASE p \notin 1 .. a
    <3>1. PICK i \in 1 .. b : p = a + i
      BY <2>3, <1>5
    <3>2. q \notin 1 .. a
      BY <3>1, <2>1, <1>3, <1>4
    <3>3. PICK j \in 1 .. b : q = a + j
      BY <3>2, <1>5
    <3>4. t[i].id = t[j].id /\ i \in DOMAIN t /\ j \in DOMAIN t
      BY <3>1, <3>3, <1>1, <1>4
    <3>5. i = j
      BY <3>4, <1>8 DEF NoDuplicates
    <3> QED
      BY <3>1, <3>3, <3>5
  <2> QED
    BY <2>2, <2>3
<1>9. ASSUME NoDuplicates(k)
      PROVE  /\ \A n \in Ids(t) : DependsOn(k, n) = DependsOn(t, n)
             /\ \A n \in Ids(l) : DependsOn(k, n) = DependsOn(l, n)
  <2>1. ASSUME NEW n \in Ids(t) PROVE DependsOn(k, n) = DependsOn(t, n)
    <3>1. PICK i \in 1 .. b : n = t[i].id
      BY <1>1 DEF Ids
    <3>2. DependsOn(t, t[i].id) = t[i].depends_on
      BY <1>1, <1>7, <1>9, DependsOnEntry
    <3>3. DependsOn(k, k[a + i].id) = k[a + i].depends_on
      BY <1>1, <1>4, <1>9, DependsOnEntry
    <3> QED
      BY <3>1, <3>2, <3>3, <1>4
  <2>2. ASSUME NEW n \in Ids(l) PROVE DependsOn(k, n) = DependsOn(l, n)
    <3>1. PICK i \in 1 .. a : n = l[i].id
      BY <1>1 DEF Ids
    <3>2. DependsOn(l, l[i].id) = l[i].depends_on
      BY <1>1, DependsOnEntry
    <3>3. DependsOn(k, k[i].id) = k[i].depends_on
      BY <1>1, <1>3, <1>9, DependsOnEntry
    <3> QED
      BY <3>1, <3>2, <3>3, <1>3
  <2> QED
    BY <2>1, <2>2
<1> QED
  BY <1>1, <1>6, <1>7, <1>8, <1>9 DEF k

\* A mutation on lists and the same one on DAGs: Mutated is what the three
\* passes make of the list, and Applicable is when validate() accepts it.
LEMMA MutationFacts ==
  ASSUME NEW l \in Seq(Entry), NoDuplicates(l), NEW c \in ChangeLists
  PROVE  LET kept == Removed(l, c.removed)
             new  == Modified(kept, c.modified) \o c.added
             m    == AsMutation(c)
         IN /\ kept \in Seq(Entry) /\ new \in Seq(Entry)
            /\ ~Modifiable(kept, c.modified) => ~Applicable(AsDag(l), m)
            /\ Modifiable(kept, c.modified) =>
                 /\ Sound(new) <=> NoDuplicates(c.added) /\ Applicable(AsDag(l), m)
                 /\ Sound(new) => AsDag(new) = Mutated(AsDag(l), m)
<1> DEFINE R    == c.removed
           A    == c.added
           M    == c.modified
           kept == Removed(l, R)
           mod  == Modified(kept, M)
           new  == mod \o A
           m    == AsMutation(c)
           d    == AsDag(l)
<1>1. A \in Seq(Entry) /\ M \in Seq(Entry) /\ R \in SUBSET Steps
  <2>1. A \in Lists(MaxChange) /\ M \in Lists(MaxChange) /\ R \in SUBSET Steps
    BY DEF ChangeLists
  <2>2. ASSUME NEW t \in Lists(MaxChange) PROVE t \in Seq(Entry)
    <3>1. PICK k \in 0 .. MaxChange : t \in [1 .. k -> Entry]
      BY DEF Lists
    <3>2. k \in Nat
      OBVIOUS
    <3> QED
      BY <3>1, <3>2, SeqDef
  <2> QED
    BY <2>1, <2>2
<1> HIDE DEF R, A, M
<1>2. /\ kept \in Seq(Entry) /\ NoDuplicates(kept) /\ Ids(kept) = Ids(l) \ R
      /\ \A n \in Ids(l) \ R : DependsOn(kept, n) = DependsOn(l, n)
  BY RemovedFacts
<1> HIDE DEF kept
<1>3. /\ mod \in Seq(Entry) /\ NoDuplicates(mod) /\ Ids(mod) = Ids(kept)
      /\ \A n \in Ids(kept) : DependsOn(mod, n) =
                                IF n \in Ids(M) THEN DependsOn(M, n) ELSE DependsOn(kept, n)
  BY <1>1, <1>2, ModifiedFacts
<1> HIDE DEF mod
<1>4. /\ new \in Seq(Entry) /\ Ids(new) = Ids(mod) \cup Ids(A)
      /\ NoDuplicates(new) <=> NoDuplicates(A) /\ Ids(A) \cap Ids(mod) = {}
      /\ NoDuplicates(new) =>
           /\ \A n \in Ids(A) : DependsOn(new, n) = DependsOn(A, n)
           /\ \A n \in Ids(mod) : DependsOn(new, n) = DependsOn(mod, n)
  BY <1>1, <1>3, AddedFacts
<1> HIDE DEF new
<1>5. /\ m.added = Ids(A) /\ m.removed = R /\ m.modified = Ids(M)
      /\ \A n \in Steps : m.deps[n] = IF n \in Ids(A) THEN DependsOn(A, n)
                                      ELSE IF n \in Ids(M) THEN DependsOn(M, n) ELSE {}
  BY DEF AsMutation, A, R, M
<1> HIDE DEF m
<1>6. /\ d.ids = Ids(l)
      /\ \A n \in Steps : d.deps[n] = IF n \in Ids(l) THEN DependsOn(l, n) ELSE {}
  BY DEF AsDag
<1> HIDE DEF d
<1>7. ~Modifiable(kept, M) => ~Applicable(d, m)
  BY <1>2, <1>5, <1>6 DEF Modifiable, Applicable
<1>8. ASSUME Modifiable(kept, M), NoDuplicates(new)
      PROVE  AsDag(new) = Mutated(d, m)
  <2>1. Ids(new) = (d.ids \ m.removed) \cup m.added
    BY <1>2, <1>3, <1>4, <1>5, <1>6
  <2>2. ASSUME NEW n \in Steps
        PROVE  (IF n \in Ids(new) THEN DependsOn(new, n) ELSE {})
                 = IF n \in m.modified \cup m.added THEN m.deps[n]
                   ELSE IF n \in m.removed THEN {} ELSE d.deps[n]
    <3>1. CASE n \in Ids(A)
      BY <3>1, <1>4, <1>5, <1>8
    <3>2. CASE n \notin Ids(A) /\ n \in Ids(M)
      <4>1. n \in Ids(kept) /\ n \in Ids(mod) /\ n \in Ids(new)
        BY <3>2, <1>3, <1>4, <1>8 DEF Modifiable
      <4> QED
        BY <4>1, <3>2, <1>3, <1>4, <1>5, <1>8
    <3>3. CASE n \notin Ids(A) /\ n \notin Ids(M) /\ n \in R
      BY <3>3, <1>2, <1>3, <1>4, <1>5
    <3>4. CASE n \notin Ids(A) /\ n \notin Ids(M) /\ n \notin R /\ n \in Ids(l)
      <4>1. n \in Ids(kept) /\ n \in Ids(mod) /\ n \in Ids(new)
        BY <3>4, <1>2, <1>3, <1>4
      <4>2. DependsOn(new, n) = DependsOn(l, n)
        BY <4>1, <3>4, <1>2, <1>3, <1>4, <1>8
      <4> QED
        BY <4>1, <4>2, <3>4, <1>5, <1>6
    <3>5. CASE n \notin Ids(A) /\ n \notin Ids(M) /\ n \notin R /\ n \notin Ids(l)
      <4>1. n \notin Ids(new)
        BY <3>5, <1>2, <1>3, <1>4
      <4> QED
        BY <4>1, <3>5, <1>5, <1>6
    <3> QED
      BY <3>1, <3>2, <3>3, <3>4, <3>5
  <2> QED
    BY <2>1, <2>2 DEF AsDag, Mutated
<1>9. ASSUME Modifiable(kept, M)
      PROVE  Sound(new) <=> NoDuplicates(A) /\ Applicable(d, m)
  <2>1. NoDuplicates(new) <=> NoDuplicates(A) /\ m.added \cap (d.ids \ m.removed) = {}
    BY <1>2, <1>3, <1>4, <1>5, <1>6
  <2>2. m.modified \subseteq d.ids \ m.removed
    BY <1>2, <1>5, <1>6, <1>9 DEF Modifiable
  <2>3. NoDuplicates(new) => (Valid(AsDag(new)) <=> Valid(Mutated(d, m)))
    BY <1>8, <1>9
  <2> QED
    BY <2>1, <2>2, <2>3 DEF Sound, Applicable
<1>10. Sound(new) => NoDuplicates(new)
  BY DEF Sound
<1> QED
  BY <1>2, <1>4, <1>7, <1>8, <1>9, <1>10 DEF new, mod, kept, m, d, R, A, M

-----------------------------------------------------------------------------
(* What the list under search has to do with the DAG and its mutation *)

ChangeInv ==
  /\ at = "built" => change = NoChange
  /\ change = NoChange /\ at # "built" => draft = steps
  /\ change # NoChange =>
       LET kept == Removed(steps, change.removed)
       IN /\ Sound(steps)
          /\ at \in {"validate", "valid", "raised", "refused"}
          /\ IF Modifiable(kept, change.modified)
             THEN /\ at # "refused"
                  /\ draft = Modified(kept, change.modified) \o change.added
             ELSE at = "refused"

CheckInv == SearchInv /\ ChangeInv

\* A search leaves the DAG and the mutation alone.
LEMMA SearchKeepsChange ==
  ASSUME ChangeInv, UNCHANGED <<steps, change, draft>>,
         \/ at = "validate" /\ at' \in {"validate", "raised", "valid"}
         \/ at = "order" /\ at' \in {"order", "ordered"}
  PROVE  ChangeInv'
<1>1. CASE change = NoChange
  BY <1>1 DEF ChangeInv
<1>2. CASE change # NoChange
  BY <1>2 DEF ChangeInv
<1> QED
  BY <1>1, <1>2

LEMMA ValidatingKeeps ==
  ASSUME CheckInv, Validating
  PROVE  CheckInv'
<1>1. at = "validate" /\ UNCHANGED <<steps, change, draft>> /\ SearchInv /\ ChangeInv
  BY DEF Validating, CheckInv
<1>2. ASSUME NEW n \in Steps, VisitStep(n) PROVE SearchInv' /\ at' = at
  BY <1>1, <1>2, VisitStepKeeps DEF VisitStep, Enter
<1>3. ASSUME stack # <<>>, NEW d \in Top.left, VisitDep(d) PROVE SearchInv' /\ at' = at
  BY <1>1, <1>3, VisitDepKeeps DEF VisitDep, Enter
<1>4. ASSUME stack # <<>>, NEW d \in Top.left, SkipDep(d) PROVE SearchInv' /\ at' = at
  BY <1>1, <1>4, SkipDepKeeps DEF SkipDep
<1>5. ASSUME stack # <<>>, NEW d \in Top.left, RaiseCycle(d) PROVE SearchInv' /\ at' = "raised"
  BY <1>1, <1>5, RaiseCycleKeeps DEF RaiseCycle, Returned
<1>6. ASSUME stack # <<>>, LeaveBlack PROVE SearchInv' /\ at' = at
  BY <1>1, <1>6, LeaveBlackKeeps DEF LeaveBlack
<1>7. ASSUME AllBlack PROVE SearchInv' /\ at' = "valid"
  BY <1>1, <1>7, AllBlackKeeps DEF AllBlack, Returned
<1>8. SearchInv' /\ at' \in {"validate", "raised", "valid"}
  BY <1>1, <1>2, <1>3, <1>4, <1>5, <1>6, <1>7 DEF Validating
<1> QED
  BY <1>1, <1>8, SearchKeepsChange DEF CheckInv

LEMMA OrderingKeeps ==
  ASSUME CheckInv, Ordering
  PROVE  CheckInv'
<1>1. at = "order" /\ UNCHANGED <<steps, change, draft>> /\ SearchInv /\ ChangeInv
  BY DEF Ordering, CheckInv
<1>2. ASSUME NEW n \in Steps, OrderStep(n) PROVE SearchInv' /\ at' = at
  BY <1>1, <1>2, OrderStepKeeps DEF OrderStep, Call
<1>3. ASSUME stack # <<>>, NEW d \in Top.left, OrderDep(d) PROVE SearchInv' /\ at' = at
  BY <1>1, <1>3, OrderDepKeeps DEF OrderDep, Call
<1>4. ASSUME stack # <<>>, NEW d \in Top.left, OrderedDep(d) PROVE SearchInv' /\ at' = at
  BY <1>1, <1>4, OrderedDepKeeps DEF OrderedDep
<1>5. ASSUME stack # <<>>, LeavePlaced PROVE SearchInv' /\ at' = at
  BY <1>1, <1>5, LeavePlacedKeeps DEF LeavePlaced
<1>6. ASSUME AllPlaced PROVE SearchInv' /\ at' = "ordered"
  BY <1>1, <1>6, AllPlacedKeeps DEF AllPlaced, Returned
<1>7. SearchInv' /\ at' \in {"order", "ordered"}
  BY <1>1, <1>2, <1>3, <1>4, <1>5, <1>6 DEF Ordering
<1> QED
  BY <1>1, <1>7, SearchKeepsChange DEF CheckInv

LEMMA MutateKeeps ==
  ASSUME CheckInv, NEW m \in ChangeLists, Mutate(m)
  PROVE  CheckInv'
<1> DEFINE kept == Removed(steps, m.removed)
           new  == Modified(kept, m.modified) \o m.added
<1>1. /\ SearchInv /\ ChangeInv /\ at = "valid" /\ change = NoChange /\ change' = m
      /\ steps' = steps /\ steps \in Seq(Entry) /\ draft = steps /\ Sound(steps)
  BY DEF CheckInv, SearchInv, CheckType, ChangeInv, Mutate, ValidateAgrees
<1>2. m # NoChange
  BY DEF ChangeLists, NoChange
<1>3. new \in Seq(Entry)
  BY <1>1, MutationFacts DEF Sound
<1>4. CASE Modifiable(kept, m.modified)
  <2>1. Validate(new)
    BY <1>4 DEF Mutate
  <2>2. SearchInv'
    BY <1>1, <1>3, <2>1, ValidateCall
  <2>3. draft' = new /\ at' \in {"validate", "raised"}
    BY <2>1 DEF Validate
  <2>4. ChangeInv'
    BY <1>1, <1>2, <1>4, <2>3 DEF ChangeInv
  <2> QED
    BY <2>2, <2>4 DEF CheckInv
<1>5. CASE ~Modifiable(kept, m.modified)
  <2>1. at' = "refused" /\ UNCHANGED <<draft, color, order, stack>>
    BY <1>5 DEF Mutate
  <2>2. SearchInv'
    BY <1>1, <2>1 DEF SearchInv, CheckType, RestInv, ValidateAgrees, TopologicalAgrees
  <2>3. ChangeInv'
    BY <1>1, <1>2, <1>5, <2>1 DEF ChangeInv
  <2> QED
    BY <2>2, <2>3 DEF CheckInv
<1> QED
  BY <1>4, <1>5

LEMMA CheckStep ==
  ASSUME CheckInv, [CheckNext]_dagVars
  PROVE  CheckInv'
<1>1. SearchInv /\ ChangeInv
  BY DEF CheckInv
<1>2. ASSUME NEW e \in Entry, AddEntry(e) PROVE CheckInv'
  <2>1. /\ at = "built" /\ steps' = Append(steps, e) /\ UNCHANGED <<change, draft, at, color, order, stack>>
        /\ steps \in Seq(Entry) /\ change = NoChange
    BY <1>1, <1>2 DEF AddEntry, callVars, SearchInv, CheckType, ChangeInv
  <2>2. steps' \in Seq(Entry)
    BY <2>1
  <2>3. SearchInv'
    BY <1>1, <2>1, <2>2 DEF SearchInv, CheckType, RestInv, ValidateAgrees, TopologicalAgrees
  <2>4. ChangeInv'
    BY <2>1 DEF ChangeInv
  <2> QED
    BY <2>3, <2>4 DEF CheckInv
<1>3. ASSUME CallValidate PROVE CheckInv'
  <2>1. /\ at = "built" /\ Validate(steps) /\ UNCHANGED <<steps, change>> /\ steps \in Seq(Entry)
        /\ change = NoChange /\ change \in {NoChange} \cup ChangeLists
    BY <1>1, <1>3 DEF CallValidate, SearchInv, CheckType, ChangeInv
  <2>2. SearchInv'
    BY <1>1, <2>1, ValidateCall
  <2>3. draft' = steps'
    BY <2>1 DEF Validate
  <2>4. ChangeInv'
    BY <2>1, <2>3 DEF ChangeInv, Validate
  <2> QED
    BY <2>2, <2>4 DEF CheckInv
<1>4. ASSUME CallOrder PROVE CheckInv'
  <2>1. SearchInv'
    BY <1>1, <1>4, CallOrderKeeps
  <2>2. ChangeInv'
    BY <1>1, <1>4 DEF CallOrder, ChangeInv
  <2> QED
    BY <2>1, <2>2 DEF CheckInv
<1>5. ASSUME UNCHANGED dagVars PROVE CheckInv'
  <2>1. UNCHANGED <<steps, change, draft, at, color, order, stack>>
    BY <1>5 DEF dagVars, callVars
  <2>2. Black' = Black /\ Visited' = Visited
    BY <2>1 DEF Black, Visited
  <2>3. SearchInv'
    BY <1>1, <2>1, <2>2 DEF SearchInv, CheckType, RestInv, ValidateAgrees, TopologicalAgrees
  <2>4. ChangeInv'
    BY <1>1, <2>1 DEF ChangeInv
  <2> QED
    BY <2>3, <2>4 DEF CheckInv
<1> QED
  BY <1>2, <1>3, <1>4, <1>5, ValidatingKeeps, OrderingKeeps, MutateKeeps DEF CheckNext

LEMMA CheckStart ==
  ASSUME CheckInit
  PROVE  CheckInv
<1>1. /\ steps = <<>> /\ change = NoChange /\ draft = <<>> /\ at = "built"
      /\ color = [n \in Steps |-> "white"] /\ order = <<>> /\ stack = <<>>
  BY DEF CheckInit
<1>2. CheckType /\ RestInv
  BY <1>1 DEF CheckType, RestInv
<1>3. ValidateAgrees /\ TopologicalAgrees /\ ChangeInv
  BY <1>1 DEF ValidateAgrees, TopologicalAgrees, ChangeInv
<1> QED
  BY <1>1, <1>2, <1>3 DEF CheckInv, SearchInv

LEMMA CheckInvariant == CheckSpec => []CheckInv
  BY CheckStart, CheckStep, PTL DEF CheckSpec

\* DAG.validate(), for every list of steps: when the colouring search returns,
\* ids are unique, dependencies present and there is no cycle; when it raises,
\* one of the three is wrong.
THEOREM ValidateIsRight == CheckSpec => []ValidateAgrees
<1>1. CheckInv => ValidateAgrees
  BY DEF CheckInv, SearchInv
<1> QED
  BY <1>1, CheckInvariant, PTL

\* DAG.topological_order(), for every valid list of steps: the order it returns
\* has every step once, behind all it depends on.
THEOREM OrderIsRight == CheckSpec => []TopologicalAgrees
<1>1. CheckInv => TopologicalAgrees
  BY DEF CheckInv, SearchInv
<1> QED
  BY <1>1, CheckInvariant, PTL

\* DAG.apply_mutation(), for every valid list and every mutation: it raises
\* exactly where Applicable is false or a step is added twice, and otherwise
\* returns the DAG that Mutated defines; the model of the engine uses these two.
THEOREM MutationIsRight == CheckSpec => []MutationAgrees
<1>1. ASSUME CheckInv PROVE MutationAgrees
  <2> SUFFICES ASSUME change # NoChange, at # "validate"
               PROVE  LET m == AsMutation(change)
                      IN /\ at = "valid" <=> NoDuplicates(change.added) /\ Applicable(AsDag(steps), m)
                         /\ at = "valid" => AsDag(draft) = Mutated(AsDag(steps), m)
    BY DEF MutationAgrees
  <2> DEFINE kept == Removed(steps, change.removed)
             new  == Modified(kept, change.modified) \o change.added
  <2>1. steps \in Seq(Entry) /\ change \in ChangeLists /\ Sound(steps)
    BY <1>1 DEF CheckInv, SearchInv, CheckType, ChangeInv
  <2>2. /\ ~Modifiable(kept, change.modified) => ~Applicable(AsDag(steps), AsMutation(change))
        /\ Modifiable(kept, change.modified) =>
             /\ Sound(new) <=> NoDuplicates(change.added)
                                 /\ Applicable(AsDag(steps), AsMutation(change))
             /\ Sound(new) => AsDag(new) = Mutated(AsDag(steps), AsMutation(change))
    BY <2>1, MutationFacts DEF Sound
  <2>3. CASE Modifiable(kept, change.modified)
    <3>1. draft = new /\ at \in {"valid", "raised"}
      BY <1>1, <2>3 DEF CheckInv, ChangeInv
    <3>2. at = "valid" <=> Sound(new)
      BY <1>1, <3>1 DEF CheckInv, SearchInv, ValidateAgrees
    <3> QED
      BY <3>1, <3>2, <2>2, <2>3
  <2>4. CASE ~Modifiable(kept, change.modified)
    <3>1. at = "refused"
      BY <1>1, <2>4 DEF CheckInv, ChangeInv
    <3> QED
      BY <3>1, <2>2, <2>4
  <2> QED
    BY <2>3, <2>4
<1> QED
  BY <1>1, CheckInvariant, PTL

==============================================================================
