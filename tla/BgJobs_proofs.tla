---------------------------- MODULE BgJobs_proofs ---------------------------
(***************************************************************************)
(* Proofs about BgJobs for any sets of jobs, coroutines and workers, plans *)
(* of any length and any number of requests and faults.                    *)
(***************************************************************************)
EXTENDS BgJobs, SequenceTheorems, FiniteSetTheorems, TLAPS

USE JobsAssumption

-----------------------------------------------------------------------------
(* The inductive invariant.  A loop starts at the step in the row, so it       *)
(* inherits what the row promises; it writes to the row only what it has run   *)
(* itself or inherited, and two loops of one job cannot disagree because the   *)
(* steps that have run only grow.  The types need the shape of the loops (a    *)
(* worker inside a step has steps left) and that ids are of tasks sent.        *)

Sent == 1..Len(tasks)

RowPart(j) ==
  /\ row[j] \in Rows \cup {NoRow} /\ row[j].task \in {NoTask} \cup Sent
  /\ j \in Single => /\ 1..row[j].step \subseteq ran[j]
                     /\ row[j].status = "completed" => 1..Steps \subseteq ran[j]

Loops == [at : {"idle", "mark", "check", "begin", "tool", "end", "final"},
          task : Nat, i : 0..Steps]

LoopPart(w) ==
  /\ worker[w] \in Loops
  /\ Busy(w) => worker[w].task \in Sent
  /\ worker[w].at \in {"begin", "end", "final"} => JobOf(w) \in Single
  /\ Busy(w) /\ JobOf(w) \in Single =>
       /\ 1..worker[w].i \subseteq ran[JobOf(w)]
       /\ worker[w].at \in {"begin", "tool", "end"} => worker[w].i < Steps
       /\ worker[w].at = "end" => worker[w].i + 1 \in ran[JobOf(w)]
       /\ worker[w].at = "final" => worker[w].i = Steps

Verbs == {"create", "resume", "recover", "pause", "cancel"}

Ops == [verb : Verbs \cup {"none", "delete"},
        at : {"idle", "insert", "send", "write", "delete", "next"},
        job : SUBSET Jobs, task : Nat, todo : SUBSET Jobs]

OpPart(o) ==
  /\ op[o] \in Ops /\ op[o].task \in {NoTask} \cup Sent
  /\ op[o].at \in {"insert", "send", "write", "next"} => op[o].verb \in Verbs

SharedPart ==
  /\ DOMAIN row = Jobs /\ row = [j \in Jobs |-> row[j]]
  /\ worker = [w \in Workers |-> worker[w]]
  /\ op = [o \in Operators |-> op[o]]
  /\ gone \in SUBSET Jobs /\ tasks \in Seq(Jobs)
  /\ queue \subseteq Sent /\ revoked \subseteq Sent
  /\ ran \in [Jobs -> SUBSET (1..Steps)] /\ broken \in SUBSET Jobs
  /\ lost \in SUBSET Jobs /\ clash \in SUBSET Jobs
  /\ faults \in Nat /\ left \in 0..MaxEvents

JobsInv ==
  /\ SharedPart
  /\ \A j \in Jobs : RowPart(j)
  /\ \A w \in Workers : LoopPart(w)
  /\ \A o \in Operators : OpPart(o)

LEMMA VerbsAreKnown ==
  /\ DOMAIN NewStatus = Verbs
  /\ \A v \in Verbs : NewStatus[v] \in Statuses \ {"completed"}
BY DEF NewStatus, Verbs, Statuses, Terminal

LEMMA JobsInvInit == Init => JobsInv
<1> SUFFICES ASSUME Init PROVE JobsInv
  OBVIOUS
<1>1. SharedPart
  BY DEF Init, SharedPart, Sent
<1>2. \A j \in Jobs : RowPart(j)
  BY DEF Init, RowPart, NoRow, Rows
<1>3. \A w \in Workers : LoopPart(w)
  BY DEF Init, LoopPart, Idle, Loops, Busy, NoTask
<1>4. \A o \in Operators : OpPart(o)
  BY DEF Init, OpPart, NoOp, Ops, NoTask
<1> QED
  BY <1>1, <1>2, <1>3, <1>4 DEF JobsInv

LEMMA JobsInvImplies == JobsInv => TypeOK /\ NoStepSkipped
<1> SUFFICES ASSUME JobsInv PROVE TypeOK /\ NoStepSkipped
  OBVIOUS
<1>1. tasks \in Seq(Jobs) /\ DOMAIN tasks = Sent
  BY LenProperties DEF JobsInv, SharedPart, Sent
<1>2. row \in [Jobs -> Rows \cup {NoRow}]
  BY DEF JobsInv, SharedPart, RowPart
<1>3. worker \in [Workers -> Loops] /\ \A w \in Workers : Busy(w) => worker[w].task \in Sent
  BY DEF JobsInv, SharedPart, LoopPart
<1>4. op \in [Operators -> Ops]
  BY DEF JobsInv, SharedPart, OpPart
<1>5. \A o \in Operators : op[o].at \in {"send", "write"} => op[o].verb \in DOMAIN NewStatus
  BY VerbsAreKnown DEF JobsInv, OpPart
<1>6. TypeOK
  BY <1>1, <1>2, <1>3, <1>4, <1>5, VerbsAreKnown DEF JobsInv, SharedPart, TypeOK, Loops, Ops
<1>7. NoStepSkipped
  BY DEF JobsInv, RowPart, NoStepSkipped, Jobs
<1> QED
  BY <1>6, <1>7

-----------------------------------------------------------------------------
(* What an action leaves alone stays as it is. *)

LEMMA KeepRows ==
  ASSUME JobsInv, row' = row, tasks' = tasks, ran' = ran
  PROVE  \A j \in Jobs : RowPart(j)'
BY DEF JobsInv, RowPart, Sent

LEMMA KeepLoops ==
  ASSUME JobsInv, worker' = worker, tasks' = tasks, ran' = ran
  PROVE  \A w \in Workers : LoopPart(w)'
BY DEF JobsInv, LoopPart, Busy, JobOf, Sent

LEMMA KeepOps ==
  ASSUME JobsInv, op' = op, tasks' = tasks
  PROVE  \A o \in Operators : OpPart(o)'
BY DEF JobsInv, OpPart, Sent

\* The updates of a row by which no step is claimed.
LEMMA TaskUpdate ==
  ASSUME JobsInv, tasks' = tasks, ran' = ran, NEW j \in Jobs, NEW st \in Statuses,
         j \in Single /\ st = "completed" => 1..Steps \subseteq ran[j],
         NEW t \in Sent,
         UpdateStatusAndTask(j, st, t)
  PROVE  (\A k \in Jobs : RowPart(k)') /\ row' = [k \in Jobs |-> row'[k]]
<1>1. row = [k \in Jobs |-> row[k]] /\ \A k \in Jobs : RowPart(k)
  BY DEF JobsInv, SharedPart
<1>2. Sent \subseteq Nat
  BY DEF Sent
<1>3. CASE ~Exists(j)
  BY <1>1, <1>3, KeepRows DEF UpdateStatusAndTask
<1>4. CASE Exists(j)
  <2>1. row[j] \in Rows
    BY <1>1, <1>4 DEF RowPart, Exists
  <2>2. /\ row' = [k \in Jobs |-> row'[k]]
        /\ \A k \in Jobs \ {j} : row'[k] = row[k]
        /\ row'[j] \in Rows /\ row'[j].step = row[j].step /\ row'[j].status = st
        /\ row'[j].task = t
    BY <1>1, <1>2, <1>4, <2>1 DEF UpdateStatusAndTask, Rows
  <2> QED
    BY <1>1, <2>2 DEF RowPart, Sent
<1> QED
  BY <1>3, <1>4

LEMMA StatusOnly ==
  ASSUME JobsInv, tasks' = tasks, ran' = ran, NEW j \in Jobs, NEW st \in Statuses,
         j \in Single /\ st = "completed" => 1..Steps \subseteq ran[j],
         UpdateStatus(j, st)
  PROVE  (\A k \in Jobs : RowPart(k)') /\ row' = [k \in Jobs |-> row'[k]]
<1>1. row = [k \in Jobs |-> row[k]] /\ \A k \in Jobs : RowPart(k)
  BY DEF JobsInv, SharedPart
<1>2. CASE ~Exists(j)
  BY <1>1, <1>2, KeepRows DEF UpdateStatus
<1>3. CASE Exists(j)
  <2>1. row[j] \in Rows
    BY <1>1, <1>3 DEF RowPart, Exists
  <2>2. /\ row' = [k \in Jobs |-> row'[k]]
        /\ \A k \in Jobs \ {j} : row'[k] = row[k]
        /\ row'[j] \in Rows /\ row'[j].step = row[j].step /\ row'[j].status = st
        /\ row'[j].task = row[j].task
    BY <1>1, <1>3, <2>1 DEF UpdateStatus, Rows
  <2> QED
    BY <1>1, <2>2 DEF RowPart, Sent
<1> QED
  BY <1>2, <1>3

\* Progress is written for steps that have run.
LEMMA ProgressUpdate ==
  ASSUME JobsInv, tasks' = tasks, ran' = ran, NEW j \in Jobs, NEW n \in 0..Steps,
         j \in Single => 1..n \subseteq ran[j],
         UpdateProgress(j, n)
  PROVE  (\A k \in Jobs : RowPart(k)') /\ row' = [k \in Jobs |-> row'[k]]
<1>1. row = [k \in Jobs |-> row[k]] /\ \A k \in Jobs : RowPart(k)
  BY DEF JobsInv, SharedPart
<1>2. CASE ~Exists(j)
  BY <1>1, <1>2, KeepRows DEF UpdateProgress
<1>3. CASE Exists(j)
  <2>1. row[j] \in Rows
    BY <1>1, <1>3 DEF RowPart, Exists
  <2>2. /\ row' = [k \in Jobs |-> row'[k]]
        /\ \A k \in Jobs \ {j} : row'[k] = row[k]
        /\ row'[j] \in Rows /\ row'[j].step = n /\ row'[j].status = row[j].status
        /\ row'[j].task = row[j].task
    BY <1>1, <1>3, <2>1 DEF UpdateProgress, Rows
  <2> QED
    BY <1>1, <2>2 DEF RowPart, Sent
<1> QED
  BY <1>2, <1>3

LEMMA DeleteUpdate ==
  ASSUME JobsInv, tasks' = tasks, ran' = ran, NEW J \in SUBSET Jobs, Delete(J)
  PROVE  /\ \A k \in Jobs : RowPart(k)'
         /\ row' = [k \in Jobs |-> row'[k]] /\ gone' \in SUBSET Jobs
<1>1. gone \in SUBSET Jobs /\ \A k \in Jobs : RowPart(k)
  BY DEF JobsInv, SharedPart
<1>2. NoRow.step = 0 /\ NoRow.task = NoTask /\ NoRow.status = "none"
  BY DEF NoRow
<1> QED
  BY <1>1, <1>2 DEF RowPart, Delete, Sent

-----------------------------------------------------------------------------
(* The manager *)

LEMMA AskStep ==
  ASSUME JobsInv, NEW o \in Operators, NEW j \in Jobs, Ask(o, j)
  PROVE  JobsInv'
<1>1. UNCHANGED <<row, gone, tasks, queue, worker, ran, broken, lost, faults>>
  BY DEF Ask, AskCreate, AskPause, AskCancel, AskResume, AskDelete, ReadAndRevoke, broker, history
<1>2. \E verb \in Verbs \cup {"delete"}, at \in {"insert", "send", "write", "delete"} :
        Asked(o, verb, at, j) /\ (at # "delete" => verb \in Verbs)
  BY DEF Ask, AskCreate, AskPause, AskCancel, AskResume, AskDelete, ReadAndRevoke, Verbs
<1>3. PICK verb \in Verbs \cup {"delete"}, at \in {"insert", "send", "write", "delete"} :
        Asked(o, verb, at, j) /\ (at # "delete" => verb \in Verbs)
  BY <1>2
<1>4. revoked' \subseteq Sent
  <2>1. row[j].task \in {NoTask} \cup Sent /\ revoked \subseteq Sent
    BY DEF JobsInv, RowPart, SharedPart
  <2> QED
    BY <2>1 DEF Ask, AskCreate, AskPause, AskCancel, AskResume, AskDelete,
                ReadAndRevoke, broker, history
<1>5. left' \in 0..MaxEvents /\ clash' \in SUBSET Jobs
  BY <1>3 DEF Asked, JobsInv, SharedPart
<1>6. op' = [p \in Operators |-> op'[p]] /\ \A p \in Operators : OpPart(p)'
  <2>1. op = [p \in Operators |-> op[p]] /\ \A p \in Operators : OpPart(p)
    BY DEF JobsInv, SharedPart
  <2>2. /\ op' = [op EXCEPT ![o] = [NoOp EXCEPT !.verb = verb, !.at = at, !.job = {j}]]
        /\ [NoOp EXCEPT !.verb = verb, !.at = at, !.job = {j}] \in Ops
    BY <1>3 DEF Asked, NoOp, Ops, NoTask
  <2>3. /\ op'[o] \in Ops /\ op'[o].task = NoTask /\ op'[o].at = at /\ op'[o].verb = verb
        /\ \A p \in Operators \ {o} : op'[p] = op[p]
        /\ op' = [p \in Operators |-> op'[p]]
    BY <2>1, <2>2 DEF NoOp
  <2> QED
    BY <1>1, <1>3, <2>1, <2>3 DEF OpPart, Sent
<1> QED
  BY <1>1, <1>4, <1>5, <1>6, KeepRows, KeepLoops DEF JobsInv, SharedPart, Sent

\* An operation that moves on, or ends.
LEMMA OpMoves ==
  ASSUME JobsInv, tasks' = tasks, NEW o \in Operators, NEW x \in Ops,
         op' = [op EXCEPT ![o] = x], x.task = NoTask \/ x.task \in Sent,
         x.at \in {"insert", "send", "write", "next"} => x.verb \in Verbs
  PROVE  op' = [p \in Operators |-> op'[p]] /\ \A p \in Operators : OpPart(p)'
BY DEF JobsInv, SharedPart, OpPart, Sent

LEMMA NoOpIsOp == NoOp \in Ops /\ NoOp.task = NoTask /\ NoOp.at = "idle"
BY DEF NoOp, Ops, NoTask

LEMMA InsertStep ==
  ASSUME JobsInv, NEW o \in Operators, Insert(o)
  PROVE  JobsInv'
<1>1. UNCHANGED <<gone, tasks, queue, revoked, worker, ran, broken, lost, clash, faults, left>>
  BY DEF Insert, broker, history
<1>2. op[o] \in Ops /\ op[o].at = "insert" /\ OpPart(o)
  BY DEF Insert, JobsInv, OpPart
<1>3. op' = [p \in Operators |-> op'[p]] /\ \A p \in Operators : OpPart(p)'
  <2> DEFINE x == [op[o] EXCEPT !.at = "send"]
  <2>1. op' = [op EXCEPT ![o] = x]
    BY DEF Insert, JobsInv, SharedPart
  <2>2. /\ x \in Ops /\ x.task \in {NoTask} \cup Sent /\ x.verb \in Verbs
    BY <1>2 DEF Ops, OpPart
  <2> HIDE DEF x
  <2> QED
    BY <1>1, <2>1, <2>2, OpMoves
<1>4. row' = [k \in Jobs |-> row'[k]] /\ \A k \in Jobs : RowPart(k)'
  <2>1. PICK j \in op[o].job : row' = [row EXCEPT ![j] =
                                  [status |-> "pending", step |-> 0, task |-> NoTask]]
    BY DEF Insert
  <2>2. j \in Jobs
    BY <1>2, <2>1 DEF Ops
  <2>3. row = [k \in Jobs |-> row[k]] /\ \A k \in Jobs : RowPart(k)
    BY DEF JobsInv, SharedPart
  <2>4. /\ row'[j] \in Rows /\ row'[j].task = NoTask /\ row'[j].step = 0
        /\ row'[j].status = "pending"
        /\ \A k \in Jobs \ {j} : row'[k] = row[k]
        /\ row' = [k \in Jobs |-> row'[k]]
    BY <2>1, <2>2, <2>3 DEF Rows, Statuses, NoTask
  <2> QED
    BY <1>1, <2>3, <2>4 DEF RowPart, Sent
<1> QED
  BY <1>1, <1>3, <1>4, KeepLoops DEF JobsInv, SharedPart, Sent

LEMMA SendStep ==
  ASSUME JobsInv, NEW o \in Operators, Send(o)
  PROVE  JobsInv'
<1>1. /\ UNCHANGED <<row, gone, revoked, worker, ran, broken, clash, faults, left>>
      /\ lost' \subseteq lost
  BY DEF Send
<1>2. op[o] \in Ops /\ OpPart(o) /\ op[o].verb \in Verbs /\ tasks \in Seq(Jobs)
  BY DEF Send, JobsInv, OpPart, SharedPart
<1>3. PICK j \in Jobs : tasks' = Append(tasks, j)
  BY <1>2 DEF Send, Ops
<1>4. /\ tasks' \in Seq(Jobs) /\ Len(tasks') = Len(tasks) + 1 /\ Len(tasks) \in Nat
      /\ \A t \in Sent : tasks'[t] = tasks[t]
  BY <1>2, <1>3, AppendProperties, LenProperties DEF Sent
<1>5. Sent \subseteq Sent' /\ Len(tasks') \in Sent' /\ Len(tasks') \in Nat
  BY <1>4 DEF Sent
<1>6. op' = [p \in Operators |-> op'[p]] /\ \A p \in Operators : OpPart(p)'
  <2>1. op = [p \in Operators |-> op[p]] /\ \A p \in Operators : OpPart(p)
    BY DEF JobsInv, SharedPart
  <2>2. op' = [op EXCEPT ![o] = [op[o] EXCEPT !.at = "write", !.task = Len(tasks')]]
    BY <2>1 DEF Send
  <2>3. /\ op'[o] \in Ops /\ op'[o].task = Len(tasks') /\ op'[o].verb \in Verbs
        /\ \A p \in Operators \ {o} : op'[p] = op[p]
        /\ op' = [p \in Operators |-> op'[p]]
    BY <1>2, <1>5, <2>1, <2>2 DEF Ops
  <2> HIDE DEF Sent
  <2> QED
    BY <1>5, <2>1, <2>3 DEF OpPart
<1>7. \A k \in Jobs : RowPart(k)'
  BY <1>1, <1>5 DEF JobsInv, RowPart
<1>8. \A w \in Workers : LoopPart(w)'
  <2> SUFFICES ASSUME NEW w \in Workers PROVE LoopPart(w)'
    OBVIOUS
  <2>1. LoopPart(w) /\ worker'[w] = worker[w] /\ (Busy(w)' <=> Busy(w))
    BY <1>1 DEF JobsInv, Busy
  <2>2. Busy(w) => JobOf(w)' = JobOf(w)
    BY <1>1, <1>4, <2>1 DEF LoopPart, JobOf
  <2>3. worker[w].at \in {"begin", "end", "final"} => Busy(w)
    BY DEF Busy
  <2> QED
    BY <1>1, <1>5, <2>1, <2>2, <2>3 DEF LoopPart
<1>9. queue' \subseteq Sent' /\ revoked' \subseteq Sent'
  BY <1>1, <1>5 DEF Send, JobsInv, SharedPart
<1> QED
  BY <1>1, <1>4, <1>6, <1>7, <1>8, <1>9 DEF JobsInv, SharedPart

LEMMA WriteStep ==
  ASSUME JobsInv, NEW o \in Operators, Write(o)
  PROVE  JobsInv'
<1>1. UNCHANGED <<gone, tasks, queue, revoked, worker, ran, broken, lost, clash, faults, left>>
  BY DEF Write, broker, history
<1>2. op[o] \in Ops /\ op[o].verb \in Verbs /\ op[o].task \in {NoTask} \cup Sent
  BY DEF Write, JobsInv, OpPart
<1>3. row' = [k \in Jobs |-> row'[k]] /\ \A k \in Jobs : RowPart(k)'
  <2>1. PICK j \in op[o].job :
          IF op[o].task = NoTask
          THEN UpdateStatus(j, NewStatus[op[o].verb])
          ELSE UpdateStatusAndTask(j, NewStatus[op[o].verb], op[o].task)
    BY DEF Write
  <2>2. j \in Jobs
    BY <1>2, <2>1 DEF Ops
  <2>3. NewStatus[op[o].verb] \in Statuses /\ NewStatus[op[o].verb] # "completed"
    BY <1>2, VerbsAreKnown
  <2>4. CASE op[o].task = NoTask
    BY <1>1, <2>1, <2>2, <2>3, <2>4, StatusOnly
  <2>5. CASE op[o].task # NoTask
    BY <1>1, <1>2, <2>1, <2>2, <2>3, <2>5, TaskUpdate
  <2> QED
    BY <2>4, <2>5
<1>4. op' = [p \in Operators |-> op'[p]] /\ \A p \in Operators : OpPart(p)'
  <2>1. CASE op[o].verb # "recover"
    <3>1. op' = [op EXCEPT ![o] = NoOp]
      BY <2>1 DEF Write, JobsInv, SharedPart
    <3> QED
      BY <1>1, <3>1, NoOpIsOp, OpMoves
  <2>2. CASE op[o].verb = "recover"
    <3> DEFINE x == [op[o] EXCEPT !.at = "next", !.task = NoTask]
    <3>1. op' = [op EXCEPT ![o] = x]
      BY <2>2 DEF Write, JobsInv, SharedPart
    <3>2. x \in Ops /\ x.task = NoTask /\ x.verb \in Verbs
      BY <1>2 DEF Ops, NoTask
    <3> HIDE DEF x
    <3> QED
      BY <1>1, <3>1, <3>2, OpMoves
  <2> QED
    BY <2>1, <2>2
<1> QED
  BY <1>1, <1>3, <1>4, KeepLoops DEF JobsInv, SharedPart, Sent

LEMMA DeleteStep ==
  ASSUME JobsInv, NEW o \in Operators, DeleteJob(o) \/ Cleanup(o)
  PROVE  JobsInv'
<1>1. /\ UNCHANGED <<tasks, queue, revoked, worker, ran, broken, lost, clash, faults, left>>
      /\ op' = [op EXCEPT ![o] = NoOp]
  BY DEF DeleteJob, Cleanup, broker, history
<1>2. op[o].job \subseteq Jobs
  BY DEF JobsInv, OpPart, Ops
<1>3. \E J \in SUBSET Jobs : Delete(J)
  BY <1>2 DEF DeleteJob, Cleanup
<1>4. /\ \A k \in Jobs : RowPart(k)'
      /\ row' = [k \in Jobs |-> row'[k]] /\ gone' \in SUBSET Jobs
  BY <1>1, <1>3, DeleteUpdate
<1>5. op' = [p \in Operators |-> op'[p]] /\ \A p \in Operators : OpPart(p)'
  BY <1>1, NoOpIsOp, OpMoves
<1> QED
  BY <1>1, <1>4, <1>5, KeepLoops DEF JobsInv, SharedPart, Sent

LEMMA RecoverStep ==
  ASSUME JobsInv, NEW o \in Operators, RecoverNext(o) \/ Restart(o)
  PROVE  JobsInv'
<1>1. UNCHANGED <<row, gone, tasks, queue, revoked, worker, ran, broken, lost, clash>>
  BY DEF RecoverNext, Restart, broker, history
<1>2. faults' \in Nat /\ left' \in 0..MaxEvents
  <2>1. faults \in Nat /\ left \in 0..MaxEvents
    BY DEF JobsInv, SharedPart
  <2>2. UNCHANGED <<faults, left>> \/ Fails
    BY DEF RecoverNext, Restart
  <2> QED
    BY <2>1, <2>2 DEF Fails
<1>3. op' = [p \in Operators |-> op'[p]] /\ \A p \in Operators : OpPart(p)'
  <2>1. CASE RecoverNext(o)
    <3>1. op[o] \in Ops /\ op[o].verb \in Verbs /\ op[o].task \in {NoTask} \cup Sent
      BY <2>1 DEF RecoverNext, JobsInv, OpPart
    <3>2. PICK j \in op[o].todo :
            op' = [op EXCEPT ![o].at = "send", ![o].job = {j}, ![o].todo = @ \ {j}]
      BY <2>1 DEF RecoverNext
    <3> DEFINE x == [op[o] EXCEPT !.at = "send", !.job = {j}, !.todo = @ \ {j}]
    <3>3. op' = [op EXCEPT ![o] = x]
      BY <3>2 DEF JobsInv, SharedPart
    <3>4. x \in Ops /\ x.task = op[o].task /\ x.verb = op[o].verb
      BY <3>1, <3>2 DEF Ops
    <3> HIDE DEF x
    <3> QED
      BY <1>1, <3>1, <3>3, <3>4, OpMoves
  <2>2. CASE Restart(o)
    <3> DEFINE x == [NoOp EXCEPT !.verb = "recover", !.at = "next",
                       !.todo = {j \in Jobs : row[j].status = "running"}]
    <3>1. op' = [p \in Operators |-> IF p # o THEN NoOp ELSE x]
      BY <2>2 DEF Restart
    <3>2. x \in Ops /\ x.task = NoTask /\ x.verb \in Verbs
      BY DEF NoOp, Ops, Verbs, NoTask
    <3> HIDE DEF x
    <3> QED
      BY <3>1, <3>2, NoOpIsOp DEF OpPart
  <2> QED
    BY <2>1, <2>2
<1> QED
  BY <1>1, <1>2, <1>3, KeepRows, KeepLoops DEF JobsInv, SharedPart, Sent

-----------------------------------------------------------------------------
(* The workers *)

LEMMA IdleIsLoop == Idle \in Loops /\ Idle.at = "idle"
BY DEF Idle, Loops, NoTask

\* Worker w gets the state x; the steps that have run only grow.
LEMMA LoopMoves ==
  ASSUME JobsInv, tasks' = tasks, ran' \in [Jobs -> SUBSET (1..Steps)],
         \A j \in Jobs : ran[j] \subseteq ran'[j],
         NEW w \in Workers, NEW x \in Loops, worker' = [worker EXCEPT ![w] = x],
         x.at # "idle" => x.task \in Sent,
         x.at \in {"begin", "end", "final"} => tasks[x.task] \in Single,
         x.at # "idle" /\ tasks[x.task] \in Single =>
           /\ 1..x.i \subseteq ran'[tasks[x.task]]
           /\ x.at \in {"begin", "tool", "end"} => x.i < Steps
           /\ x.at = "end" => x.i + 1 \in ran'[tasks[x.task]]
           /\ x.at = "final" => x.i = Steps
  PROVE  worker' = [v \in Workers |-> worker'[v]] /\ \A v \in Workers : LoopPart(v)'
<1>1. worker = [v \in Workers |-> worker[v]] /\ \A v \in Workers : LoopPart(v)
  BY DEF JobsInv, SharedPart
<1>2. /\ worker' = [v \in Workers |-> worker'[v]] /\ worker'[w] = x
      /\ \A v \in Workers \ {w} : worker'[v] = worker[v]
  BY <1>1
<1>3. LoopPart(w)'
  BY <1>2 DEF LoopPart, Busy, JobOf, Sent
<1>4. ASSUME NEW v \in Workers \ {w} PROVE LoopPart(v)'
  <2>1. LoopPart(v) /\ worker'[v] = worker[v]
    BY <1>1, <1>2
  <2>2. Single \subseteq Jobs
    BY DEF Jobs
  <2> QED
    BY <2>1, <2>2 DEF LoopPart, Busy, JobOf, Sent
<1> QED
  BY <1>2, <1>3, <1>4

\* The job of a busy worker.
LEMMA BusyJob ==
  ASSUME JobsInv, NEW w \in Workers, Busy(w)
  PROVE  JobOf(w) \in Jobs /\ LoopPart(w) /\ worker[w].task \in Sent
<1>1. tasks \in Seq(Jobs) /\ LoopPart(w)
  BY DEF JobsInv, SharedPart
<1>2. worker[w].task \in Sent
  BY <1>1 DEF LoopPart
<1> QED
  BY <1>1, <1>2, ElementOfSeq DEF JobOf, Sent

LEMMA EndTaskKeeps ==
  ASSUME JobsInv, tasks' = tasks, ran' = ran, NEW w \in Workers, EndTask(w)
  PROVE  worker' = [v \in Workers |-> worker'[v]] /\ \A v \in Workers : LoopPart(v)'
<1>1. ran' \in [Jobs -> SUBSET (1..Steps)]
  BY DEF JobsInv, SharedPart
<1> QED
  BY <1>1, IdleIsLoop, LoopMoves DEF EndTask

LEMMA ReceiveStep ==
  ASSUME JobsInv, NEW w \in Workers, Receive(w)
  PROVE  JobsInv'
<1>1. UNCHANGED <<row, gone, tasks, revoked, op, ran, broken, lost, clash, faults, left>>
  BY DEF Receive, history
<1>2. PICK t \in queue :
        /\ queue' = queue \ {t}
        /\ worker' = IF ~Exists(tasks[t]) THEN worker
                     ELSE [worker EXCEPT ![w] = [at |-> "mark", task |-> t,
                                                 i |-> row[tasks[t]].step]]
  BY DEF Receive
<1>3. t \in Sent /\ t \in Nat /\ queue' \subseteq Sent /\ tasks \in Seq(Jobs)
  BY <1>2 DEF JobsInv, SharedPart, Sent
<1>4. tasks[t] \in Jobs
  BY <1>3, ElementOfSeq DEF Sent
<1>5. worker' = [v \in Workers |-> worker'[v]] /\ \A v \in Workers : LoopPart(v)'
  <2>1. CASE ~Exists(tasks[t])
    <3>1. worker' = worker
      BY <1>2, <2>1
    <3> QED
      BY <1>1, <3>1, KeepLoops DEF JobsInv, SharedPart
  <2>2. CASE Exists(tasks[t])
    <3> DEFINE x == [at |-> "mark", task |-> t, i |-> row[tasks[t]].step]
    <3>1. worker' = [worker EXCEPT ![w] = x]
      BY <1>2, <2>2
    <3>2. /\ row[tasks[t]].step \in 0..Steps
          /\ tasks[t] \in Single => 1..row[tasks[t]].step \subseteq ran[tasks[t]]
      BY <1>4, <2>2 DEF JobsInv, RowPart, Exists, Rows
    <3>3. x \in Loops /\ x.at = "mark" /\ x.task = t /\ x.i = row[tasks[t]].step
      BY <1>3, <3>2 DEF Loops
    <3>4. ran' = ran /\ ran' \in [Jobs -> SUBSET (1..Steps)]
      BY <1>1 DEF JobsInv, SharedPart
    <3> HIDE DEF x
    <3> QED
      BY <1>1, <1>3, <3>1, <3>2, <3>3, <3>4, LoopMoves
  <2> QED
    BY <2>1, <2>2
<1> QED
  BY <1>1, <1>3, <1>5, KeepRows, KeepOps DEF JobsInv, SharedPart, Sent

\* A worker that only moves on in its loop, within what LoopPart asks.
LEMMA GotoKeeps ==
  ASSUME JobsInv, tasks' = tasks, ran' = ran, NEW w \in Workers, Busy(w),
         NEW at \in {"check", "begin", "tool", "final"}, Goto(w, at),
         at \in {"begin", "final"} => JobOf(w) \in Single,
         JobOf(w) \in Single =>
           /\ at \in {"begin", "tool"} => worker[w].i < Steps
           /\ at = "final" => worker[w].i = Steps
  PROVE  worker' = [v \in Workers |-> worker'[v]] /\ \A v \in Workers : LoopPart(v)'
<1> DEFINE x == [worker[w] EXCEPT !.at = at]
<1>1. worker' = [worker EXCEPT ![w] = x]
  BY DEF Goto, JobsInv, SharedPart
<1>2. LoopPart(w) /\ worker[w].task \in Sent
  BY BusyJob
<1>3. x \in Loops /\ x.at = at /\ x.task = worker[w].task /\ x.i = worker[w].i
  BY <1>2 DEF LoopPart, Loops
<1>4. ran' \in [Jobs -> SUBSET (1..Steps)]
  BY DEF JobsInv, SharedPart
<1>5. JobOf(w) \in Single => 1..worker[w].i \subseteq ran[JobOf(w)]
  BY <1>2 DEF LoopPart
<1> HIDE DEF x
<1> QED
  BY <1>1, <1>2, <1>3, <1>4, <1>5, LoopMoves DEF JobOf

LEMMA LoopStep ==
  ASSUME JobsInv, NEW w \in Workers,
         MarkRunning(w) \/ Check(w) \/ BeginStep(w) \/ Complete(w) \/ FinalProgress(w)
  PROVE  JobsInv'
<1>1. /\ UNCHANGED <<gone, tasks, queue, revoked, op, ran, broken, lost, clash, faults, left>>
      /\ Busy(w)
  BY DEF MarkRunning, Check, BeginStep, Complete, FinalProgress, broker, history, Busy
<1>2. JobOf(w) \in Jobs /\ LoopPart(w) /\ worker[w].i \in 0..Steps
  BY <1>1, BusyJob DEF LoopPart, Loops
<1>3. CASE MarkRunning(w)
  <2>1. (\A k \in Jobs : RowPart(k)') /\ row' = [k \in Jobs |-> row'[k]]
    <3>1. "running" \in Statuses
      BY DEF Statuses
    <3> QED
      BY <1>1, <1>2, <1>3, <3>1, StatusOnly DEF MarkRunning
  <2>2. worker' = [v \in Workers |-> worker'[v]] /\ \A v \in Workers : LoopPart(v)'
    BY <1>1, <1>3, GotoKeeps DEF MarkRunning
  <2> QED
    BY <1>1, <2>1, <2>2, KeepOps DEF JobsInv, SharedPart, Sent
<1>4. CASE Check(w)
  <2>1. row' = row /\ worker[w].at = "check"
    BY <1>4 DEF Check
  <2>2. worker' = [v \in Workers |-> worker'[v]] /\ \A v \in Workers : LoopPart(v)'
    <3>1. CASE EndTask(w)
      BY <1>1, <3>1, EndTaskKeeps
    <3>2. CASE JobOf(w) \in Monitors /\ Goto(w, "tool")
      <4>1. JobOf(w) \notin Single
        BY <3>2
      <4> QED
        BY <1>1, <3>2, <4>1, GotoKeeps
    <3>3. CASE JobOf(w) \notin Monitors /\ Goto(w, "begin")
      <4>1. JobOf(w) \in Single /\ worker[w].i < Steps
        BY <1>2, <1>4, <3>3 DEF Check, Jobs
      <4> QED
        BY <1>1, <3>3, <4>1, GotoKeeps
    <3> QED
      BY <1>4, <3>1, <3>2, <3>3 DEF Check
  <2> QED
    BY <1>1, <2>1, <2>2, KeepRows, KeepOps DEF JobsInv, SharedPart, Sent
<1>5. CASE BeginStep(w)
  <2>1. JobOf(w) \in Single /\ worker[w].i < Steps /\ 1..worker[w].i \subseteq ran[JobOf(w)]
    BY <1>1, <1>2, <1>5 DEF BeginStep, LoopPart
  <2>2. (\A k \in Jobs : RowPart(k)') /\ row' = [k \in Jobs |-> row'[k]]
    BY <1>1, <1>2, <1>5, <2>1, ProgressUpdate DEF BeginStep
  <2>3. worker' = [v \in Workers |-> worker'[v]] /\ \A v \in Workers : LoopPart(v)'
    BY <1>1, <1>5, <2>1, GotoKeeps DEF BeginStep
  <2> QED
    BY <1>1, <2>2, <2>3, KeepOps DEF JobsInv, SharedPart, Sent
<1>6. CASE Complete(w)
  <2>1. JobOf(w) \in Single /\ worker[w].i = Steps /\ 1..Steps \subseteq ran[JobOf(w)]
    BY <1>1, <1>2, <1>6 DEF Complete, LoopPart
  <2>2. (\A k \in Jobs : RowPart(k)') /\ row' = [k \in Jobs |-> row'[k]]
    <3>1. "completed" \in Statuses
      BY DEF Statuses, Terminal
    <3> QED
      BY <1>1, <1>2, <1>6, <2>1, <3>1, StatusOnly DEF Complete
  <2>3. worker' = [v \in Workers |-> worker'[v]] /\ \A v \in Workers : LoopPart(v)'
    BY <1>1, <1>6, <2>1, GotoKeeps DEF Complete
  <2> QED
    BY <1>1, <2>2, <2>3, KeepOps DEF JobsInv, SharedPart, Sent
<1>7. CASE FinalProgress(w)
  <2>1. 1..Steps \subseteq ran[JobOf(w)]
    BY <1>1, <1>2, <1>7 DEF FinalProgress, LoopPart
  <2>2. (\A k \in Jobs : RowPart(k)') /\ row' = [k \in Jobs |-> row'[k]]
    BY <1>1, <1>2, <1>7, <2>1, ProgressUpdate DEF FinalProgress
  <2>3. worker' = [v \in Workers |-> worker'[v]] /\ \A v \in Workers : LoopPart(v)'
    BY <1>1, <1>7, EndTaskKeeps DEF FinalProgress
  <2> QED
    BY <1>1, <2>2, <2>3, KeepOps DEF JobsInv, SharedPart, Sent
<1> QED
  BY <1>3, <1>4, <1>5, <1>6, <1>7

LEMMA RunToolStep ==
  ASSUME JobsInv, NEW w \in Workers, RunTool(w)
  PROVE  JobsInv'
<1>1. /\ UNCHANGED <<row, gone, tasks, queue, revoked, op, broken, lost, clash, faults, left>>
      /\ Busy(w) /\ worker[w].at = "tool"
  BY DEF RunTool, broker, history, Busy
<1>2. /\ JobOf(w) \in Jobs /\ LoopPart(w) /\ worker[w] \in Loops
      /\ worker[w].i \in 0..Steps /\ worker[w].task \in Sent
  BY <1>1, BusyJob DEF LoopPart, Loops
<1>3. CASE JobOf(w) \in Monitors
  <2>1. ran' = ran /\ Goto(w, "check") /\ JobOf(w) \notin Single
    BY <1>3 DEF RunTool
  <2>2. worker' = [v \in Workers |-> worker'[v]] /\ \A v \in Workers : LoopPart(v)'
    BY <1>1, <2>1, GotoKeeps
  <2> QED
    BY <1>1, <2>1, <2>2, KeepRows, KeepOps DEF JobsInv, SharedPart, Sent
<1>4. CASE JobOf(w) \notin Monitors
  <2> DEFINE j == JobOf(w)
             x == [worker[w] EXCEPT !.at = "end"]
  <2>1. j \in Single /\ worker[w].i < Steps /\ 1..worker[w].i \subseteq ran[j]
    BY <1>1, <1>2, <1>4 DEF LoopPart, Jobs
  <2>2. ran \in [Jobs -> SUBSET (1..Steps)]
    BY DEF JobsInv, SharedPart
  <2>3. ran' = [ran EXCEPT ![j] = @ \cup {worker[w].i + 1}]
    BY <1>4 DEF RunTool
  <2>4. /\ ran' \in [Jobs -> SUBSET (1..Steps)] /\ worker[w].i + 1 \in ran'[j]
        /\ \A k \in Jobs : ran[k] \subseteq ran'[k]
    BY <1>2, <2>1, <2>2, <2>3
  <2>5. worker' = [worker EXCEPT ![w] = x]
    BY <1>4 DEF RunTool, Goto, JobsInv, SharedPart
  <2>6. x \in Loops /\ x.at = "end" /\ x.task = worker[w].task /\ x.i = worker[w].i
    BY <1>2 DEF Loops
  <2>7. worker' = [v \in Workers |-> worker'[v]] /\ \A v \in Workers : LoopPart(v)'
    <3> HIDE DEF x
    <3>1. tasks[x.task] = j /\ 1..x.i \subseteq ran'[j]
      BY <1>2, <2>1, <2>4, <2>6 DEF JobOf
    <3> HIDE DEF j
    <3> QED
      BY <1>1, <1>2, <2>1, <2>4, <2>5, <2>6, <3>1, LoopMoves
  <2>8. \A k \in Jobs : RowPart(k)'
    <3>1. ASSUME NEW k \in Jobs PROVE RowPart(k)'
      <4>1. RowPart(k) /\ ran[k] \subseteq ran'[k]
        BY <2>4 DEF JobsInv
      <4> QED
        BY <1>1, <4>1 DEF RowPart, Sent
    <3> QED
      BY <3>1
  <2> QED
    BY <1>1, <2>4, <2>7, <2>8, KeepOps DEF JobsInv, SharedPart, Sent
<1> QED
  BY <1>3, <1>4

LEMMA EndStepStep ==
  ASSUME JobsInv, NEW w \in Workers, EndStep(w)
  PROVE  JobsInv'
<1>1. /\ UNCHANGED <<gone, tasks, queue, revoked, op, ran, broken, lost, clash, faults, left>>
      /\ Busy(w) /\ worker[w].at = "end"
  BY DEF EndStep, broker, history, Busy
<1>2. /\ JobOf(w) \in Jobs /\ LoopPart(w) /\ worker[w] \in Loops
      /\ worker[w].i \in 0..Steps /\ worker[w].task \in Sent
  BY <1>1, BusyJob DEF LoopPart, Loops
<1>3. /\ JobOf(w) \in Single /\ worker[w].i + 1 \in 0..Steps
      /\ 1..(worker[w].i + 1) \subseteq ran[JobOf(w)]
  <2>1. /\ JobOf(w) \in Single /\ worker[w].i < Steps
        /\ 1..worker[w].i \subseteq ran[JobOf(w)]
        /\ worker[w].i + 1 \in ran[JobOf(w)]
    BY <1>1, <1>2 DEF LoopPart
  <2>2. \A n \in 0..Steps : 1..(n + 1) = (1..n) \cup {n + 1}
    OBVIOUS
  <2> QED
    BY <1>2, <2>1, <2>2
<1>4. (\A k \in Jobs : RowPart(k)') /\ row' = [k \in Jobs |-> row'[k]]
  BY <1>1, <1>2, <1>3, ProgressUpdate DEF EndStep
<1>5. worker' = [v \in Workers |-> worker'[v]] /\ \A v \in Workers : LoopPart(v)'
  <2> DEFINE x == [worker[w] EXCEPT !.at = "check", !.i = @ + 1]
  <2>1. worker' = [worker EXCEPT ![w] = x]
    BY DEF EndStep, JobsInv, SharedPart
  <2>2. x \in Loops /\ x.at = "check" /\ x.task = worker[w].task /\ x.i = worker[w].i + 1
    BY <1>2, <1>3 DEF Loops
  <2>3. ran' = ran /\ ran' \in [Jobs -> SUBSET (1..Steps)]
    BY <1>1 DEF JobsInv, SharedPart
  <2> HIDE DEF x
  <2> QED
    BY <1>1, <1>2, <1>3, <2>1, <2>2, <2>3, LoopMoves DEF JobOf
<1> QED
  BY <1>1, <1>4, <1>5, KeepOps DEF JobsInv, SharedPart, Sent

LEMMA BrokerStep ==
  ASSUME JobsInv,
         \/ \E w \in Workers : Terminate(w) \/ Crash(w) \/ Killed(w) \/ Redeliver(w) \/ SqlError(w)
         \/ \E t \in queue : Discard(t)
  PROVE  JobsInv'
<1>1. CASE \E t \in queue : Discard(t)
  BY <1>1, KeepRows, KeepLoops, KeepOps DEF Discard, history, JobsInv, SharedPart, Sent
<1>2. CASE \E w \in Workers : Terminate(w) \/ Crash(w) \/ Killed(w) \/ Redeliver(w) \/ SqlError(w)
  <2>1. PICK w \in Workers : Terminate(w) \/ Crash(w) \/ Killed(w) \/ Redeliver(w) \/ SqlError(w)
    BY <1>2
  <2>2. /\ UNCHANGED <<gone, tasks, revoked, op, ran, clash>> /\ Busy(w)
        /\ EndTask(w) \/ worker' = worker
    BY <2>1 DEF Terminate, Crash, Killed, Redeliver, SqlError, broker, history
  <2>3. JobOf(w) \in Jobs /\ worker[w].task \in Sent
    BY <2>2, BusyJob
  <2>4. worker' = [v \in Workers |-> worker'[v]] /\ \A v \in Workers : LoopPart(v)'
    <3>1. CASE EndTask(w)
      BY <2>2, <3>1, EndTaskKeeps
    <3>2. CASE worker' = worker
      BY <2>2, <3>2, KeepLoops DEF JobsInv, SharedPart
    <3> QED
      BY <2>2, <3>1, <3>2
  <2>5. queue' \subseteq Sent /\ broken' \in SUBSET Jobs /\ lost' \in SUBSET Jobs
    <3>1. queue \subseteq Sent /\ broken \in SUBSET Jobs /\ lost \in SUBSET Jobs
      BY DEF JobsInv, SharedPart
    <3>2. queue' = queue \/ queue' = queue \cup {worker[w].task}
      BY <2>1 DEF Terminate, Crash, Killed, Redeliver, SqlError, broker, history
    <3>3. /\ broken' = broken \/ broken' = broken \cup {JobOf(w)}
          /\ lost' = lost \/ lost' = lost \cup {JobOf(w)}
      BY <2>1 DEF Terminate, Crash, Killed, Redeliver, SqlError, history
    <3> QED
      BY <2>3, <3>1, <3>2, <3>3
  <2>6. faults' \in Nat /\ left' \in 0..MaxEvents
    <3>1. faults \in Nat /\ left \in 0..MaxEvents
      BY DEF JobsInv, SharedPart
    <3>2. UNCHANGED <<faults, left>> \/ Fails
      BY <2>1 DEF Terminate, Crash, Killed, Redeliver, SqlError
    <3> QED
      BY <3>1, <3>2 DEF Fails
  <2>7. (\A k \in Jobs : RowPart(k)') /\ row' = [k \in Jobs |-> row'[k]]
    <3>1. CASE row' = row
      BY <2>2, <3>1, KeepRows DEF JobsInv, SharedPart
    <3>2. CASE UpdateStatus(JobOf(w), "failed")
      <4>1. "failed" \in Statuses
        BY DEF Statuses, Terminal
      <4> QED
        BY <2>2, <2>3, <3>2, <4>1, StatusOnly
    <3> QED
      BY <2>1, <3>1, <3>2 DEF Terminate, Crash, Killed, Redeliver, SqlError
  <2> QED
    BY <2>2, <2>4, <2>5, <2>6, <2>7, KeepOps DEF JobsInv, SharedPart, Sent
<1> QED
  BY <1>1, <1>2

-----------------------------------------------------------------------------
LEMMA JobsInvStep == JobsInv /\ [Next]_vars => JobsInv'
<1> SUFFICES ASSUME JobsInv, [Next]_vars PROVE JobsInv'
  OBVIOUS
<1>1. ASSUME NEW o \in Operators, ManagerStep(o) PROVE JobsInv'
  BY <1>1, InsertStep, SendStep, WriteStep, DeleteStep, RecoverStep DEF ManagerStep
<1>2. ASSUME NEW o \in Operators, NEW j \in Jobs, Ask(o, j) PROVE JobsInv'
  BY <1>2, AskStep
<1>3. ASSUME NEW w \in Workers, WorkerStep(w) PROVE JobsInv'
  BY <1>3, ReceiveStep, LoopStep, RunToolStep, EndStepStep DEF WorkerStep
<1>4. CASE Fault
  BY <1>4, RecoverStep, BrokerStep DEF Fault
<1>5. CASE UNCHANGED vars
  BY <1>5, KeepRows, KeepLoops, KeepOps DEF vars, broker, history, JobsInv, SharedPart, Sent
<1> QED
  BY <1>1, <1>2, <1>3, <1>4, <1>5, BrokerStep DEF Next

\* The rows, messages and loops stay in the ranges of the code, whatever the
\* operators, workers, crashes and redeliveries do (bg_jobs_store.py, worker.py).
THEOREM TypeCorrect == Spec => []TypeOK
<1>1. Spec => []JobsInv
  BY JobsInvInit, JobsInvStep, PTL DEF Spec
<1> QED
  BY <1>1, JobsInvImplies, PTL

\* No interleaving of pause, resume, recovery, crash and doubled delivery makes
\* a job skip a step of its plan (worker.py: _run_single).
THEOREM StepsAreNotSkipped == Spec => []NoStepSkipped
<1>1. Spec => []JobsInv
  BY JobsInvInit, JobsInvStep, PTL DEF Spec
<1> QED
  BY <1>1, JobsInvImplies, PTL

-----------------------------------------------------------------------------
(* The task in the row.  While nothing has failed and the requests for a job   *)
(* do not overlap, at most one coroutine has the job in hand, and a task is    *)
(* sent only for a job that has no other: a new one, or one that was paused,   *)
(* and to pause a job is to revoke the task in its row.  The other coroutines  *)
(* work on other jobs, and touch neither this one's row nor its tasks.         *)

Free(j) == \A o \in Operators : j \notin op[o].job

\* Where the coroutine that has a job in hand is, and which task may be alive.
InHand(o, j) ==
  /\ op[o].at = "insert" => ~Exists(j) /\ j \notin gone
  /\ op[o].at # "insert" => Exists(j)
  /\ op[o].at \in {"insert", "send"} => LiveTasks(j) = {}
  /\ op[o].at = "write" => LiveTasks(j) \subseteq {op[o].task}
  /\ op[o].at = "delete" => LiveTasks(j) \subseteq {row[j].task}

\* The form of a request: no recovery is under way.
Request(o) ==
  /\ op[o].verb # "recover" /\ op[o].at # "next" /\ op[o].todo = {}
  /\ op[o].verb = "pause" => op[o].at = "write" /\ op[o].task = NoTask
  /\ \A j, k \in op[o].job : j = k

OpTask(o) == Request(o) /\ \A j \in op[o].job \ clash : InHand(o, j)

JobTask(j) ==
  /\ \E t : LiveTasks(j) \subseteq {t}
  /\ ~Exists(j) /\ j \notin gone => \A t \in Sent : tasks[t] # j
  /\ Exists(j) /\ Free(j) => LiveTasks(j) \subseteq {row[j].task}
  /\ row[j].status = "paused" =>
       LiveTasks(j) = {} \/ \E o \in Operators : j \in op[o].job /\ op[o].at = "write"

\* Two coroutines that have one job in hand have clashed.
Alone == \A o, p \in Operators : o # p => op[o].job \cap op[p].job \subseteq clash

Orderly ==
  /\ \A o \in Operators : OpTask(o)
  /\ Alone
  /\ \A j \in Jobs \ clash : JobTask(j)

IdleHasNone == \A w \in Workers : ~Busy(w) => worker[w].task = NoTask

TaskInv == IdleHasNone /\ (faults = 0 => Orderly)

\* LiveTasks, with the ids in use.
InUse == queue \cup {worker[w].task : w \in Workers}

LEMMA LiveAre ==
  ASSUME JobsInv
  PROVE  \A j : LiveTasks(j) = {t \in Sent \ revoked : tasks[t] = j /\ t \in InUse}
<1>1. DOMAIN tasks = Sent
  BY LenProperties DEF JobsInv, SharedPart, Sent
<1>2. \A t : t \in InUse <=> (t \in queue \/ \E w \in Workers : worker[w].task = t)
  BY DEF InUse
<1> QED
  BY <1>1, <1>2 DEF LiveTasks

LEMMA LiveShrink ==
  ASSUME JobsInv, JobsInv', tasks' = tasks, revoked \subseteq revoked',
         \A t \in Sent : t \in InUse' => t \in InUse
  PROVE  \A j : LiveTasks(j)' \subseteq LiveTasks(j)
<1>1. \A j : LiveTasks(j)' = {t \in Sent' \ revoked' : tasks'[t] = j /\ t \in InUse'}
  <2>1. DOMAIN tasks' = Sent'
    BY LenProperties DEF JobsInv, SharedPart, Sent
  <2>2. \A t : t \in InUse' <=> (t \in queue' \/ \E w \in Workers : worker'[w].task = t)
    BY DEF InUse
  <2> QED
    BY <2>1, <2>2 DEF LiveTasks
<1>2. Sent' = Sent
  BY DEF Sent
<1> QED
  BY <1>1, <1>2, LiveAre

\* NULL is the id of no task.
LEMMA NoTaskIsNone == ASSUME JobsInv PROVE \A j : NoTask \notin LiveTasks(j) /\ NoTask \notin Sent
<1>1. NoTask \notin Sent
  BY DEF Sent, NoTask
<1> QED
  BY <1>1, LiveAre

\* A step of a worker or of the broker when nothing fails: no operation moves,
\* no row comes or goes or gets another task, no job becomes paused.
LEMMA QuietTasks ==
  ASSUME JobsInv, JobsInv', Orderly, UNCHANGED <<gone, tasks, revoked, op, clash>>,
         \A t \in Sent : t \in InUse' => t \in InUse,
         \A j \in Jobs : /\ Exists(j)' <=> Exists(j)
                         /\ row'[j].task = row[j].task
                         /\ row'[j].status = "paused" => row[j].status = "paused"
  PROVE  Orderly'
<1>1. \A j : LiveTasks(j)' \subseteq LiveTasks(j)
  BY LiveShrink
<1>2. \A o \in Operators : op[o].job \subseteq Jobs
  BY DEF JobsInv, OpPart, Ops
<1>3. ASSUME NEW o \in Operators PROVE OpTask(o)'
  <2>1. Request(o)'
    BY DEF Orderly, OpTask, Request
  <2>2. ASSUME NEW j \in op[o].job \ clash PROVE InHand(o, j)'
    <3>1. j \in Jobs /\ InHand(o, j) /\ op'[o] = op[o]
      BY <1>2 DEF Orderly, OpTask
    <3> QED
      BY <1>1, <3>1 DEF InHand
  <2> QED
    BY <2>1, <2>2 DEF OpTask
<1>4. ASSUME NEW j \in Jobs \ clash PROVE JobTask(j)'
  <2>1. JobTask(j) /\ Sent' = Sent /\ (Free(j)' <=> Free(j))
    BY DEF Orderly, Sent, Free
  <2> QED
    BY <1>1, <2>1 DEF JobTask
<1>5. Alone'
  BY DEF Orderly, Alone
<1> QED
  BY <1>3, <1>4, <1>5 DEF Orderly

\* What the workers and the broker write.
LEMMA RowKept ==
  ASSUME JobsInv, NEW j \in Jobs, NEW st, st # "paused", NEW n,
         row' = row \/ UpdateStatus(j, st) \/ UpdateProgress(j, n)
  PROVE  \A k \in Jobs : /\ row'[k].task = row[k].task
                         /\ row'[k].status = "paused" => row[k].status = "paused"
<1>1. row = [k \in Jobs |-> row[k]] /\ \A k \in Jobs : row[k] \in Rows \cup {NoRow}
  BY DEF JobsInv, SharedPart, RowPart
<1> QED
  BY <1>1 DEF UpdateStatus, UpdateProgress, Rows, NoRow

\* Exists is a matter of the status.
LEMMA ExistsIs ==
  ASSUME JobsInv, NEW j \in Jobs
  PROVE  (Exists(j) <=> row[j].status # "none") /\ (Exists(j) => row[j] \in Rows)
<1>1. row[j] \in Rows \cup {NoRow}
  BY DEF JobsInv, RowPart
<1>2. "none" \notin Statuses /\ NoRow.status = "none"
  BY DEF Statuses, Terminal, NoRow
<1>3. \A r \in Rows : r.status \in Statuses
  BY DEF Rows
<1> QED
  BY <1>1, <1>2, <1>3 DEF Exists

LEMMA ExistsKept ==
  ASSUME JobsInv, JobsInv', NEW j \in Jobs, NEW st \in Statuses, NEW n,
         row' = row \/ UpdateStatus(j, st) \/ UpdateProgress(j, n)
  PROVE  \A k \in Jobs : Exists(k)' <=> Exists(k)
<1>1. row = [k \in Jobs |-> row[k]] /\ \A k \in Jobs : row[k] \in Rows \cup {NoRow}
  BY DEF JobsInv, SharedPart, RowPart
<1>2. \A k \in Jobs : (Exists(k) <=> row[k].status # "none") /\ (Exists(k) => row[k] \in Rows)
  BY ExistsIs
<1>3. \A k \in Jobs : Exists(k)' <=> row'[k].status # "none"
  <2>1. \A k \in Jobs : row'[k] \in Rows \cup {NoRow}
    BY DEF JobsInv, RowPart
  <2>2. NoRow.status = "none" /\ \A r \in Rows : r.status # "none"
    BY DEF Statuses, Terminal, NoRow, Rows
  <2> QED
    BY <2>1, <2>2 DEF Exists
<1>4. "none" \notin Statuses
  BY DEF Statuses, Terminal
<1>5. \A k \in Jobs : row'[k].status # "none" <=> row[k].status # "none"
  BY <1>1, <1>2, <1>4 DEF UpdateStatus, UpdateProgress, Rows
<1> QED
  BY <1>2, <1>3, <1>5

\* The workers and the broker.  When something fails, nothing more is claimed.
LEMMA LoopTasks ==
  ASSUME JobsInv, JobsInv', TaskInv,
         \/ \E w \in Workers : WorkerStep(w) \/ Terminate(w)
         \/ \E t \in queue : Discard(t)
         \/ Fault
  PROVE  TaskInv'
<1>1. worker = [v \in Workers |-> worker[v]] /\ faults \in Nat /\ queue \subseteq Sent
  BY DEF JobsInv, SharedPart
<1>2. Idle.at = "idle" /\ Idle.task = NoTask
  BY DEF Idle
<1>3. CASE Fault
  <2>1. faults' # 0
    <3>1. faults' = faults + 1
      BY <1>3 DEF Fault, Restart, SqlError, Crash, Killed, Redeliver, Fails
    <3> QED
      BY <1>1, <3>1
  <2>2. worker' = worker \/ \E w \in Workers : worker' = [worker EXCEPT ![w] = Idle]
    BY <1>3 DEF Fault, Restart, SqlError, Crash, Killed, Redeliver, EndTask
  <2>3. \A v \in Workers : worker'[v] = worker[v] \/ worker'[v] = Idle
    BY <1>1, <2>2
  <2>4. IdleHasNone'
    BY <1>2, <2>3 DEF TaskInv, IdleHasNone, Busy
  <2> QED
    BY <2>1, <2>4 DEF TaskInv
<1>4. CASE \E t \in queue : Discard(t)
  <2>1. /\ UNCHANGED <<row, gone, tasks, revoked, worker, op, clash, faults>> /\ queue' \subseteq queue
    BY <1>4 DEF Discard, history
  <2>2. IdleHasNone'
    BY <2>1 DEF TaskInv, IdleHasNone, Busy
  <2>3. \A t \in Sent : t \in InUse' => t \in InUse
    BY <2>1 DEF InUse
  <2>4. \A j \in Jobs : (Exists(j)' <=> Exists(j)) /\ row'[j] = row[j]
    BY <2>1 DEF Exists
  <2> QED
    BY <2>1, <2>2, <2>3, <2>4, QuietTasks DEF TaskInv
<1>5. ASSUME NEW w \in Workers, WorkerStep(w) \/ Terminate(w) PROVE TaskInv'
  <2>1. UNCHANGED <<gone, tasks, revoked, op, clash, faults>>
    BY <1>5 DEF WorkerStep, Terminate, Receive, MarkRunning, Check, BeginStep, RunTool, EndStep,
                Complete, FinalProgress, broker, history
  <2>2. /\ IdleHasNone'
        /\ \A t \in Sent : t \in InUse' => t \in InUse
    <3>1. ASSUME NEW x, worker' = [worker EXCEPT ![w] = x], queue' \subseteq queue,
                 x.at = "idle" => x.task = NoTask,
                 x.task \in queue \cup {NoTask, worker[w].task}
          PROVE  IdleHasNone' /\ \A t \in Sent : t \in InUse' => t \in InUse
      <4>1. worker'[w] = x /\ \A v \in Workers \ {w} : worker'[v] = worker[v]
        BY <1>1, <3>1
      <4>2. IdleHasNone'
        BY <3>1, <4>1 DEF TaskInv, IdleHasNone, Busy
      <4>3. InUse' \subseteq InUse \cup {NoTask}
        BY <3>1, <4>1 DEF InUse
      <4> QED
        BY <4>2, <4>3, NoTaskIsNone
    <3>2. CASE Receive(w)
      <4>1. PICK t \in queue :
              /\ queue' = queue \ {t}
              /\ worker' = IF ~Exists(tasks[t]) THEN worker
                           ELSE [worker EXCEPT ![w] = [at |-> "mark", task |-> t, i |-> row[tasks[t]].step]]
        BY <3>2 DEF Receive
      <4>2. CASE worker' = worker
        <5>1. worker' = [worker EXCEPT ![w] = worker[w]]
          BY <1>1, <4>2
        <5>2. worker[w].at = "idle" => worker[w].task = NoTask
          BY DEF TaskInv, IdleHasNone, Busy
        <5> QED
          BY <3>1, <4>1, <5>1, <5>2
      <4>3. CASE worker' = [worker EXCEPT ![w] = [at |-> "mark", task |-> t, i |-> row[tasks[t]].step]]
        <5> DEFINE x == [at |-> "mark", task |-> t, i |-> row[tasks[t]].step]
        <5>1. x.at = "mark" /\ x.task = t
          OBVIOUS
        <5> HIDE DEF x
        <5>2. worker' = [worker EXCEPT ![w] = x]
          BY <4>3 DEF x
        <5> QED
          BY <3>1, <4>1, <5>1, <5>2
      <4> QED
        BY <4>1, <4>2, <4>3
    <3>3. CASE EndTask(w) /\ queue' = queue
      BY <1>2, <3>1, <3>3 DEF EndTask
    <3>4. CASE queue' = queue /\ \E at \in {"check", "begin", "tool", "end", "final"} : Goto(w, at)
      <4>1. PICK at \in {"check", "begin", "tool", "end", "final"} : Goto(w, at)
        BY <3>4
      <4> DEFINE x == [worker[w] EXCEPT !.at = at]
      <4>2. worker' = [worker EXCEPT ![w] = x] /\ x.at = at /\ x.task = worker[w].task
        BY <1>1, <4>1 DEF Goto, JobsInv, LoopPart, Loops
      <4> HIDE DEF x
      <4> QED
        BY <3>1, <3>4, <4>1, <4>2
    <3>5. CASE EndStep(w)
      <4> DEFINE x == [worker[w] EXCEPT !.at = "check", !.i = @ + 1]
      <4>1. worker' = [worker EXCEPT ![w] = x] /\ x.at = "check" /\ x.task = worker[w].task /\ queue' = queue
        BY <1>1, <3>5 DEF EndStep, JobsInv, LoopPart, Loops, broker
      <4> HIDE DEF x
      <4> QED
        BY <3>1, <4>1
    <3>6. \/ Receive(w) \/ EndStep(w)
          \/ queue' = queue /\ (EndTask(w) \/ \E at \in {"check", "begin", "tool", "end", "final"} : Goto(w, at))
      BY <1>5 DEF WorkerStep, Terminate, MarkRunning, Check, BeginStep, RunTool, Complete, FinalProgress, broker
    <3> QED
      BY <3>2, <3>3, <3>4, <3>5, <3>6
  <2>3. \A j \in Jobs : /\ Exists(j)' <=> Exists(j)
                        /\ row'[j].task = row[j].task
                        /\ row'[j].status = "paused" => row[j].status = "paused"
    <3>1. CASE row' = row
      BY <3>1 DEF Exists
    <3>2. ASSUME NEW st \in Statuses, st # "paused", NEW n, Busy(w),
                 UpdateStatus(JobOf(w), st) \/ UpdateProgress(JobOf(w), n)
          PROVE  \A j \in Jobs : /\ Exists(j)' <=> Exists(j)
                                 /\ row'[j].task = row[j].task
                                 /\ row'[j].status = "paused" => row[j].status = "paused"
      <4>1. JobOf(w) \in Jobs
        BY <3>2, BusyJob
      <4>2. \A j \in Jobs : Exists(j)' <=> Exists(j)
        BY <3>2, <4>1, ExistsKept
      <4>3. \A j \in Jobs : /\ row'[j].task = row[j].task
                            /\ row'[j].status = "paused" => row[j].status = "paused"
        BY <3>2, <4>1, RowKept
      <4> QED
        BY <4>2, <4>3
    <3>3. \/ row' = row
          \/ Busy(w) /\ (UpdateStatus(JobOf(w), "running") \/ UpdateStatus(JobOf(w), "completed"))
          \/ Busy(w) /\ \E n : UpdateProgress(JobOf(w), n)
      BY <1>5 DEF WorkerStep, Terminate, Receive, MarkRunning, Check, BeginStep, RunTool, EndStep,
                  Complete, FinalProgress, Busy
    <3>4. "running" \in Statuses /\ "completed" \in Statuses
      BY DEF Statuses, Terminal
    <3> QED
      BY <3>1, <3>2, <3>3, <3>4
  <2> QED
    BY <2>1, <2>2, <2>3, QuietTasks DEF TaskInv
<1> QED
  BY <1>3, <1>4, <1>5

\* A step of coroutine u on job j, seen by the other coroutines and jobs.
LEMMA OthersKeep ==
  ASSUME JobsInv, JobsInv', Orderly, NEW u \in Operators, NEW j,
         op' = [o \in Operators |-> op'[o]],
         \A o \in Operators \ {u} : op'[o] = op[o],
         clash \subseteq clash', op[u].job \subseteq {j}, op'[u].job \subseteq {j},
         j \notin clash' => \A o \in Operators \ {u} : j \notin op[o].job,
         \A k \in Jobs \ {j} :
           /\ row'[k] = row[k] /\ (k \in gone' <=> k \in gone)
           /\ LiveTasks(k)' \subseteq LiveTasks(k)
           /\ (\A t \in Sent : tasks[t] # k) => \A t \in Sent' : tasks'[t] # k
  PROVE  /\ \A o \in Operators \ {u} : OpTask(o)'
         /\ Alone'
         /\ \A k \in Jobs \ clash' : k # j => JobTask(k)'
<1>1. \A o \in Operators : op[o].job \subseteq Jobs
  BY DEF JobsInv, OpPart, Ops
<1>2. \A k \in Jobs \ {j} : Exists(k)' <=> Exists(k)
  BY DEF Exists
<1>3. ASSUME NEW o \in Operators \ {u} PROVE OpTask(o)'
  <2>1. Request(o)'
    BY DEF Orderly, OpTask, Request
  <2>2. ASSUME NEW k \in op'[o].job \ clash' PROVE InHand(o, k)'
    <3>1. k \in Jobs \ {j} /\ k \in op[o].job \ clash /\ op'[o] = op[o]
      BY <1>1, <2>2
    <3>2. InHand(o, k)
      BY <3>1 DEF Orderly, OpTask
    <3> QED
      BY <1>2, <3>1, <3>2 DEF InHand
  <2> QED
    BY <2>1, <2>2 DEF OpTask
<1>4. Alone'
  <2> SUFFICES ASSUME NEW o \in Operators, NEW p \in Operators, o # p,
                      NEW k \in op'[o].job \cap op'[p].job, k \notin clash'
               PROVE  FALSE
    BY DEF Alone
  <2>1. CASE o # u /\ p # u
    <3>1. k \in op[o].job \cap op[p].job /\ k \notin clash
      BY <2>1
    <3> QED
      BY <3>1 DEF Orderly, Alone
  <2>2. CASE o = u \/ p = u
    BY <2>2
  <2> QED
    BY <2>1, <2>2
<1>5. ASSUME NEW k \in Jobs \ clash', k # j PROVE JobTask(k)'
  <2>1. JobTask(k) /\ row'[k] = row[k] /\ LiveTasks(k)' \subseteq LiveTasks(k)
    BY <1>5 DEF Orderly
  <2>2. Free(k)' <=> Free(k)
    BY <1>5 DEF Free
  <2>3. ASSUME NEW o \in Operators, k \in op[o].job, op[o].at = "write"
        PROVE  k \in op'[o].job /\ op'[o].at = "write"
    BY <1>5, <2>3
  <2> QED
    BY <1>2, <1>5, <2>1, <2>2, <2>3 DEF JobTask
<1> QED
  BY <1>3, <1>4, <1>5

\* A request is read: what it finds is settled if it is alone with its job.
LEMMA AskTasks ==
  ASSUME JobsInv, JobsInv', NEW u \in Operators, Orderly, NEW j \in Jobs, Ask(u, j)
  PROVE  Orderly'
<1>1. /\ UNCHANGED <<row, gone, tasks, queue, worker>> /\ revoked \subseteq revoked'
      /\ op[u] = NoOp /\ clash' = IF Underway(j) THEN clash \cup {j} ELSE clash
  BY DEF Ask, AskCreate, AskPause, AskCancel, AskResume, AskDelete, ReadAndRevoke, Asked, broker
<1>2. \A k : LiveTasks(k)' \subseteq LiveTasks(k)
  BY <1>1, LiveShrink DEF InUse
<1>3. j \notin clash' => JobTask(j) /\ Free(j)
  <2>1. Free(j) \/ Underway(j)
    BY DEF Free, Underway
  <2> QED
    BY <1>1, <2>1 DEF Orderly
<1>4. PICK verb \in {"create", "pause", "cancel", "resume", "delete"}, at \in {"insert", "write", "send", "delete"} :
        /\ Asked(u, verb, at, j) /\ (verb = "pause" => at = "write")
        /\ at = "insert" => ~Exists(j) /\ j \notin gone
        /\ at \in {"send", "write", "delete"} => row[j].status # "none"
        /\ at = "send" => row[j].status = "paused"
        /\ at = "write" => revoked' = IF row[j].task = NoTask THEN revoked ELSE revoked \cup {row[j].task}
  <2>1. Exists(j) <=> row[j].status # "none"
    BY ExistsIs
  <2>2. CASE AskCreate(u, j)
    BY <2>2 DEF AskCreate
  <2>3. CASE AskPause(u, j)
    BY <2>3 DEF AskPause, ReadAndRevoke
  <2>4. CASE AskCancel(u, j)
    BY <2>1, <2>4 DEF AskCancel, ReadAndRevoke
  <2>5. CASE AskResume(u, j)
    BY <2>5 DEF AskResume
  <2>6. CASE AskDelete(u, j)
    BY <2>6 DEF AskDelete, Terminal
  <2> QED
    BY <2>2, <2>3, <2>4, <2>5, <2>6 DEF Ask
<1>5. /\ op'[u].verb = verb /\ op'[u].at = at /\ op'[u].job = {j} /\ op'[u].task = NoTask
      /\ op'[u].todo = {} /\ op[u].job = {} /\ op' = [o \in Operators |-> op'[o]]
      /\ \A o \in Operators \ {u} : op'[o] = op[o]
  <2>1. op = [o \in Operators |-> op[o]]
    BY DEF JobsInv, SharedPart
  <2> DEFINE x == [NoOp EXCEPT !.verb = verb, !.at = at, !.job = {j}]
  <2>2. op' = [op EXCEPT ![u] = x]
    BY <1>4 DEF Asked
  <2>3. x.verb = verb /\ x.at = at /\ x.job = {j} /\ x.task = NoTask /\ x.todo = {}
    BY DEF NoOp
  <2>4. NoOp.job = {}
    BY DEF NoOp
  <2> HIDE DEF x
  <2> QED
    BY <1>1, <2>1, <2>2, <2>3, <2>4
<1>6. /\ at # "insert" => Exists(j)
      /\ Exists(j)' <=> Exists(j)
  BY <1>1, <1>4, ExistsIs DEF Exists
<1>7. ASSUME j \notin clash' PROVE InHand(u, j)' /\ JobTask(j)'
  <2>1. JobTask(j) /\ Free(j)
    BY <1>3, <1>7
  <2>2. at = "insert" => LiveTasks(j) = {}
    BY <1>4, <2>1, LiveAre DEF JobTask
  <2>3. row[j].status = "paused" => LiveTasks(j) = {}
    BY <2>1 DEF JobTask, Free
  <2>4. at # "insert" => LiveTasks(j) \subseteq {row[j].task}
    BY <1>6, <2>1 DEF JobTask
  <2>5. at = "write" => LiveTasks(j)' = {}
    <3>1. at = "write" => row[j].task = NoTask \/ row[j].task \in revoked'
      BY <1>4
    <3>2. \A t \in LiveTasks(j)' : t \notin revoked'
      BY DEF LiveTasks
    <3>3. NoTask \notin LiveTasks(j)
      BY NoTaskIsNone
    <3> QED
      BY <1>2, <2>4, <3>1, <3>2, <3>3
  <2>6. InHand(u, j)'
    BY <1>1, <1>2, <1>4, <1>5, <1>6, <2>2, <2>3, <2>4, <2>5 DEF InHand
  <2>7. JobTask(j)'
    <3>1. ~Free(j)' /\ Sent' = Sent
      BY <1>1, <1>5 DEF Free, Sent
    <3> QED
      BY <1>1, <1>2, <1>6, <2>1, <2>3, <3>1 DEF JobTask
  <2> QED
    BY <2>6, <2>7
<1>8. OpTask(u)'
  <2>1. Request(u)'
    BY <1>4, <1>5 DEF Request
  <2> QED
    BY <1>5, <1>7, <2>1 DEF OpTask
<1>9. /\ \A o \in Operators \ {u} : OpTask(o)'
      /\ Alone'
      /\ \A k \in Jobs \ clash' : k # j => JobTask(k)'
  <2>1. clash \subseteq clash'
    BY <1>1
  <2>2. j \notin clash' => \A o \in Operators \ {u} : j \notin op[o].job
    BY <1>3 DEF Free
  <2>3. \A k \in Jobs : (\A t \in Sent : tasks[t] # k) => \A t \in Sent' : tasks'[t] # k
    BY <1>1 DEF Sent
  <2> QED
    BY <1>1, <1>2, <1>5, <2>1, <2>2, <2>3, OthersKeep
<1> QED
  BY <1>7, <1>8, <1>9 DEF Orderly

\* The job a coroutine has in hand, and that no other has unless they clashed.
LEMMA HasOne ==
  ASSUME JobsInv, Orderly, NEW u \in Operators, NEW j \in op[u].job
  PROVE  /\ j \in Jobs /\ op[u].job = {j} /\ Request(u) /\ op[u] \in Ops
         /\ j \notin clash => /\ InHand(u, j) /\ JobTask(j)
                              /\ \A o \in Operators \ {u} : j \notin op[o].job
<1>1. j \in Jobs /\ op[u] \in Ops
  BY DEF JobsInv, OpPart, Ops
<1>2. Request(u) /\ op[u].job = {j}
  BY DEF Orderly, OpTask, Request
<1>3. j \notin clash => InHand(u, j) /\ JobTask(j)
  BY <1>1 DEF Orderly, OpTask
<1>4. ASSUME j \notin clash, NEW o \in Operators \ {u}, j \in op[o].job PROVE FALSE
  BY <1>4 DEF Orderly, Alone
<1> QED
  BY <1>1, <1>2, <1>3, <1>4

\* The INSERT of a new job: it has no task yet.
LEMMA InsertTasks ==
  ASSUME JobsInv, JobsInv', NEW u \in Operators, Orderly, Insert(u)
  PROVE  Orderly'
<1>1. UNCHANGED <<gone, tasks, queue, revoked, worker, clash>> /\ op[u].at = "insert"
  BY DEF Insert, broker, history
<1>2. PICK j \in op[u].job : row' = [row EXCEPT ![j] = [status |-> "pending", step |-> 0, task |-> NoTask]]
  BY DEF Insert
<1>3. /\ j \in Jobs /\ op[u].job = {j} /\ Request(u) /\ op[u] \in Ops
      /\ j \notin clash => /\ InHand(u, j) /\ JobTask(j)
                           /\ \A o \in Operators \ {u} : j \notin op[o].job
  BY HasOne
<1>4. /\ op'[u].at = "send" /\ op'[u].job = {j} /\ op'[u].verb = op[u].verb
      /\ op'[u].task = op[u].task /\ op'[u].todo = op[u].todo
      /\ op' = [o \in Operators |-> op'[o]] /\ \A o \in Operators \ {u} : op'[o] = op[o]
  BY <1>3 DEF Insert, JobsInv, SharedPart, Ops
<1>5. \A k : LiveTasks(k)' = LiveTasks(k)
  BY <1>1 DEF LiveTasks
<1>6. row'[j].status = "pending" /\ \A k \in Jobs \ {j} : row'[k] = row[k]
  BY <1>2, <1>3 DEF JobsInv, SharedPart
<1>7. Exists(j)'
  BY <1>6 DEF Exists, NoRow
<1>8. ASSUME j \notin clash' PROVE InHand(u, j)' /\ JobTask(j)'
  <2>1. InHand(u, j) /\ LiveTasks(j) = {}
    BY <1>1, <1>3, <1>8 DEF InHand
  <2>2. InHand(u, j)'
    BY <1>4, <1>5, <1>7, <2>1 DEF InHand
  <2>3. JobTask(j)'
    <3>1. ~Free(j)'
      BY <1>4 DEF Free
    <3> QED
      BY <1>5, <1>6, <1>7, <2>1, <3>1 DEF JobTask
  <2> QED
    BY <2>2, <2>3
<1>9. OpTask(u)'
  <2>1. Request(u)'
    BY <1>1, <1>3, <1>4 DEF Request
  <2> QED
    BY <1>4, <1>8, <2>1 DEF OpTask
<1>10. /\ \A o \in Operators \ {u} : OpTask(o)'
       /\ Alone'
       /\ \A k \in Jobs \ clash' : k # j => JobTask(k)'
  <2>1. \A k \in Jobs : (\A t \in Sent : tasks[t] # k) => \A t \in Sent' : tasks'[t] # k
    BY <1>1 DEF Sent
  <2> QED
    BY <1>1, <1>3, <1>4, <1>5, <1>6, <2>1, OthersKeep
<1> QED
  BY <1>8, <1>9, <1>10 DEF Orderly

\* A task is sent for a job that has no live one.
LEMMA SendTasks ==
  ASSUME JobsInv, JobsInv', NEW u \in Operators, Orderly, Send(u)
  PROVE  Orderly'
<1>1. /\ UNCHANGED <<row, gone, revoked, worker, clash>> /\ op[u].at = "send"
      /\ queue' = queue \cup {Len(tasks')}
  BY DEF Send
<1>2. PICK j \in op[u].job : tasks' = Append(tasks, j)
  BY DEF Send
<1>3. /\ j \in Jobs /\ op[u].job = {j} /\ Request(u) /\ op[u] \in Ops
      /\ j \notin clash => /\ InHand(u, j) /\ JobTask(j)
                           /\ \A o \in Operators \ {u} : j \notin op[o].job
  BY HasOne
<1> DEFINE n == Len(tasks')
<1>4. /\ n = Len(tasks) + 1 /\ Len(tasks) \in Nat /\ tasks'[n] = j
      /\ \A t \in Sent : tasks'[t] = tasks[t]
  <2>1. tasks \in Seq(Jobs)
    BY DEF JobsInv, SharedPart
  <2> QED
    BY <1>2, <1>3, <2>1, AppendProperties, LenProperties DEF Sent
<1>5. \A t \in Sent' : t \in Sent \/ t = n
  BY <1>4 DEF Sent
<1>6. /\ op'[u].at = "write" /\ op'[u].job = {j} /\ op'[u].verb = op[u].verb
      /\ op'[u].task = n /\ op'[u].todo = op[u].todo
      /\ op' = [o \in Operators |-> op'[o]] /\ \A o \in Operators \ {u} : op'[o] = op[o]
  BY <1>3 DEF Send, JobsInv, SharedPart, Ops
<1> HIDE DEF n
<1>7. \A k : LiveTasks(k)' = {t \in Sent' \ revoked' : tasks'[t] = k /\ t \in InUse'}
  <2>1. DOMAIN tasks' = Sent'
    BY LenProperties DEF JobsInv, SharedPart, Sent
  <2>2. \A t : t \in InUse' <=> (t \in queue' \/ \E w \in Workers : worker'[w].task = t)
    BY DEF InUse
  <2> QED
    BY <2>1, <2>2 DEF LiveTasks
<1>8. InUse' \subseteq InUse \cup {n}
  BY <1>1 DEF InUse, n
<1>9. ASSUME NEW k, NEW t \in LiveTasks(k)' PROVE t \in LiveTasks(k) \/ (t = n /\ k = j)
  <2>1. t \in Sent' \ revoked /\ tasks'[t] = k /\ t \in InUse'
    BY <1>1, <1>7, <1>9
  <2>2. CASE t = n
    BY <1>4, <2>1, <2>2
  <2>3. CASE t # n
    BY <1>4, <1>5, <1>8, <2>1, <2>3, LiveAre
  <2> QED
    BY <2>2, <2>3
<1>10. \A k : Exists(k)' <=> Exists(k)
  BY <1>1 DEF Exists
<1>11. ASSUME j \notin clash' PROVE InHand(u, j)' /\ JobTask(j)'
  <2>1. LiveTasks(j) = {} /\ Exists(j)
    BY <1>1, <1>3, <1>11 DEF InHand
  <2>2. LiveTasks(j)' \subseteq {n}
    BY <1>9, <2>1
  <2>3. InHand(u, j)'
    BY <1>6, <1>10, <2>1, <2>2 DEF InHand
  <2>4. JobTask(j)'
    <3>1. ~Free(j)'
      BY <1>6 DEF Free
    <3> QED
      BY <1>6, <1>10, <2>1, <2>2, <3>1 DEF JobTask
  <2> QED
    BY <2>3, <2>4
<1>12. OpTask(u)'
  <2>1. Request(u)'
    BY <1>1, <1>3, <1>6 DEF Request
  <2> QED
    BY <1>6, <1>11, <2>1 DEF OpTask
<1>13. /\ \A o \in Operators \ {u} : OpTask(o)'
       /\ Alone'
       /\ \A k \in Jobs \ clash' : k # j => JobTask(k)'
  <2>1. \A k \in Jobs \ {j} : (\A t \in Sent : tasks[t] # k) => \A t \in Sent' : tasks'[t] # k
    BY <1>4, <1>5
  <2>2. \A k \in Jobs \ {j} : LiveTasks(k)' \subseteq LiveTasks(k)
    BY <1>9
  <2>3. \A k \in Jobs \ {j} :
          /\ row'[k] = row[k] /\ (k \in gone' <=> k \in gone)
          /\ LiveTasks(k)' \subseteq LiveTasks(k)
          /\ (\A t \in Sent : tasks[t] # k) => \A t \in Sent' : tasks'[t] # k
    BY <1>1, <2>1, <2>2
  <2>4. /\ clash \subseteq clash' /\ op[u].job \subseteq {j} /\ op'[u].job \subseteq {j}
        /\ j \notin clash' => \A o \in Operators \ {u} : j \notin op[o].job
    BY <1>1, <1>3, <1>6
  <2> QED
    BY <1>6, <2>3, <2>4, OthersKeep
<1> QED
  BY <1>11, <1>12, <1>13 DEF Orderly

\* The last UPDATE of an operation: the task it has sent, if any, is the one in
\* the row, and a job that becomes paused has none left.
LEMMA WriteTasks ==
  ASSUME JobsInv, JobsInv', NEW u \in Operators, Orderly, Write(u)
  PROVE  Orderly'
<1>1. UNCHANGED <<gone, tasks, queue, revoked, worker, clash>> /\ op[u].at = "write"
  BY DEF Write, broker, history
<1>2. /\ row = [k \in Jobs |-> row[k]] /\ op = [o \in Operators |-> op[o]] /\ op[u].verb \in Verbs
  BY <1>1 DEF JobsInv, OpPart, SharedPart
<1>3. PICK j \in op[u].job :
        IF op[u].task = NoTask
        THEN UpdateStatus(j, NewStatus[op[u].verb])
        ELSE UpdateStatusAndTask(j, NewStatus[op[u].verb], op[u].task)
  BY DEF Write
<1>4. /\ j \in Jobs /\ op[u].job = {j} /\ Request(u)
      /\ j \notin clash => /\ InHand(u, j) /\ JobTask(j)
                           /\ \A o \in Operators \ {u} : j \notin op[o].job
  BY HasOne
<1>5. op'[u] = NoOp /\ op' = [o \in Operators |-> op'[o]] /\ \A o \in Operators \ {u} : op'[o] = op[o]
  BY <1>2, <1>4 DEF Write, Request
<1>6. NoOp.job = {} /\ NoOp.at = "idle" /\ NoOp.verb = "none" /\ NoOp.todo = {}
  BY DEF NoOp
<1>7. \A k : LiveTasks(k)' = LiveTasks(k)
  BY <1>1 DEF LiveTasks
<1>8. \A k \in Jobs \ {j} : row'[k] = row[k]
  BY <1>2, <1>3, <1>4 DEF UpdateStatus, UpdateStatusAndTask
<1>9. ASSUME j \notin clash' PROVE JobTask(j)'
  <2>1. Exists(j) /\ LiveTasks(j) \subseteq {op[u].task} /\ JobTask(j)
    BY <1>1, <1>4, <1>9 DEF InHand
  <2>2. row[j] \in Rows /\ NewStatus[op[u].verb] \in Statuses
    BY <1>2, <1>4, <2>1, ExistsIs, VerbsAreKnown
  <2>3. /\ op[u].verb # "pause" => NewStatus[op[u].verb] # "paused"
        /\ op[u].verb = "pause" => op[u].task = NoTask
    BY <1>2, <1>4 DEF NewStatus, Verbs, Request
  <2>4. /\ row'[j].status = NewStatus[op[u].verb]
        /\ row'[j].task = IF op[u].task = NoTask THEN row[j].task ELSE op[u].task
    <3>1. CASE op[u].task = NoTask
      BY <1>2, <1>3, <1>4, <2>1, <2>2, <3>1 DEF UpdateStatus, Rows
    <3>2. CASE op[u].task # NoTask
      <4> DEFINE x == [row[j] EXCEPT !.status = NewStatus[op[u].verb], !.task = op[u].task]
      <4>1. x.status = NewStatus[op[u].verb] /\ x.task = op[u].task
        BY <2>2 DEF Rows
      <4>2. row' = [row EXCEPT ![j] = x]
        BY <1>2, <1>3, <1>4, <2>1, <3>2 DEF UpdateStatusAndTask
      <4> HIDE DEF x
      <4> QED
        BY <1>2, <1>4, <3>2, <4>1, <4>2
    <3> QED
      BY <3>1, <3>2
  <2>5. Exists(j)'
    <3>1. "none" \notin Statuses /\ NoRow.status = "none"
      BY DEF Statuses, Terminal, NoRow
    <3> QED
      BY <2>2, <2>4, <3>1 DEF Exists
  <2>6. op[u].task = NoTask => LiveTasks(j) = {}
    BY <2>1, NoTaskIsNone
  <2> QED
    BY <1>7, <2>1, <2>3, <2>4, <2>5, <2>6 DEF JobTask
<1>10. OpTask(u)'
  BY <1>5, <1>6 DEF OpTask, Request
<1>11. /\ \A o \in Operators \ {u} : OpTask(o)'
       /\ Alone'
       /\ \A k \in Jobs \ clash' : k # j => JobTask(k)'
  <2>1. \A k \in Jobs : (\A t \in Sent : tasks[t] # k) => \A t \in Sent' : tasks'[t] # k
    BY <1>1 DEF Sent
  <2>2. \A k \in Jobs \ {j} :
          /\ row'[k] = row[k] /\ (k \in gone' <=> k \in gone)
          /\ LiveTasks(k)' \subseteq LiveTasks(k)
          /\ (\A t \in Sent : tasks[t] # k) => \A t \in Sent' : tasks'[t] # k
    BY <1>1, <1>7, <1>8, <2>1
  <2>3. /\ clash \subseteq clash' /\ op[u].job \subseteq {j} /\ op'[u].job \subseteq {j}
        /\ j \notin clash' => \A o \in Operators \ {u} : j \notin op[o].job
    BY <1>1, <1>4, <1>5, <1>6
  <2> QED
    BY <1>5, <2>2, <2>3, OthersKeep
<1> QED
  BY <1>9, <1>10, <1>11 DEF Orderly

\* The DELETE: what is left of a deleted job's task finds no row, and the id of
\* the job is not used again.
LEMMA DeleteTasks ==
  ASSUME JobsInv, JobsInv', NEW u \in Operators, Orderly, DeleteJob(u)
  PROVE  Orderly'
<1>1. UNCHANGED <<tasks, queue, revoked, worker, clash>> /\ op[u].at = "delete"
  BY DEF DeleteJob, broker, history
<1>2. op'[u] = NoOp /\ op' = [o \in Operators |-> op'[o]] /\ \A o \in Operators \ {u} : op'[o] = op[o]
  BY DEF DeleteJob, JobsInv, SharedPart
<1>3. NoOp.job = {} /\ NoOp.at = "idle" /\ NoOp.verb = "none" /\ NoOp.todo = {}
  BY DEF NoOp
<1>4. \A k : LiveTasks(k)' = LiveTasks(k)
  BY <1>1 DEF LiveTasks
<1>5. OpTask(u)'
  BY <1>2, <1>3 DEF OpTask, Request
<1>6. \A k \in Jobs : (\A t \in Sent : tasks[t] # k) => \A t \in Sent' : tasks'[t] # k
  BY <1>1 DEF Sent
<1>7. CASE op[u].job = {}
  <2>1. \A k \in Jobs : row'[k] = row[k] /\ (k \in gone' <=> k \in gone)
    BY <1>7 DEF DeleteJob, Delete
  <2>2. PICK j : j \notin Jobs
    BY NoSetContainsEverything
  <2>3. \A o \in Operators : j \notin op[o].job
    BY <2>2 DEF JobsInv, OpPart, Ops
  <2>4. \A k \in Jobs \ {j} :
          /\ row'[k] = row[k] /\ (k \in gone' <=> k \in gone)
          /\ LiveTasks(k)' \subseteq LiveTasks(k)
          /\ (\A t \in Sent : tasks[t] # k) => \A t \in Sent' : tasks'[t] # k
    BY <1>4, <1>6, <2>1
  <2>5. /\ clash \subseteq clash' /\ op[u].job \subseteq {j} /\ op'[u].job \subseteq {j}
        /\ j \notin clash' => \A o \in Operators \ {u} : j \notin op[o].job
    BY <1>1, <1>2, <1>3, <1>7, <2>3
  <2>6. /\ \A o \in Operators \ {u} : OpTask(o)'
        /\ Alone'
        /\ \A k \in Jobs \ clash' : k # j => JobTask(k)'
    BY <1>2, <2>4, <2>5, OthersKeep
  <2> QED
    BY <1>5, <2>2, <2>6 DEF Orderly
<1>8. ASSUME NEW j \in op[u].job PROVE Orderly'
  <2>1. /\ j \in Jobs /\ op[u].job = {j}
        /\ j \notin clash => /\ InHand(u, j) /\ JobTask(j)
                             /\ \A o \in Operators \ {u} : j \notin op[o].job
    BY HasOne
  <2>2. \A k \in Jobs \ {j} : row'[k] = row[k] /\ (k \in gone' <=> k \in gone)
    BY <2>1 DEF DeleteJob, Delete
  <2>3. ASSUME j \notin clash' PROVE JobTask(j)'
    <3>1. /\ JobTask(j) /\ Sent' = Sent /\ Exists(j) /\ LiveTasks(j) \subseteq {row[j].task}
          /\ row[j].status = "paused" => LiveTasks(j) = {}
      <4>1. InHand(u, j) /\ JobTask(j) /\ \A o \in Operators \ {u} : j \notin op[o].job
        BY <1>1, <2>1, <2>3
      <4> QED
        BY <1>1, <4>1 DEF Sent, InHand, JobTask
    <3>2. CASE row'[j] = NoRow /\ j \in gone'
      <4>1. ~Exists(j)' /\ NoRow.status = "none"
        BY <3>2 DEF Exists, NoRow
      <4> QED
        BY <1>4, <3>1, <3>2, <4>1 DEF JobTask
    <3>3. CASE row'[j] = row[j]
      <4>1. Exists(j)'
        BY <3>1, <3>3 DEF Exists
      <4> QED
        BY <1>4, <3>1, <3>3, <4>1 DEF JobTask
    <3> QED
      BY <2>1, <3>2, <3>3 DEF DeleteJob, Delete
  <2>4. /\ \A o \in Operators \ {u} : OpTask(o)'
        /\ Alone'
        /\ \A k \in Jobs \ clash' : k # j => JobTask(k)'
    BY <1>1, <1>2, <1>3, <1>4, <1>6, <2>1, <2>2, OthersKeep
  <2> QED
    BY <1>5, <2>3, <2>4 DEF Orderly
<1> QED
  BY <1>7, <1>8

LEMMA TaskInvInit == Init => TaskInv
<1> SUFFICES ASSUME Init PROVE TaskInv
  OBVIOUS
<1>1. \A j : LiveTasks(j) = {}
  BY DEF Init, LiveTasks
<1>2. NoOp.job = {} /\ NoOp.at = "idle" /\ NoOp.verb = "none" /\ NoRow.status = "none"
  BY DEF NoOp, NoRow
<1>3. IdleHasNone
  BY DEF Init, IdleHasNone, Idle
<1>4. (\A o \in Operators : OpTask(o)) /\ Alone
  <2>1. NoOp.todo = {}
    BY DEF NoOp
  <2> QED
    BY <1>2, <2>1 DEF Init, OpTask, Request, Alone
<1>5. ASSUME NEW j \in Jobs PROVE JobTask(j)
  <2>1. row[j] = NoRow /\ Sent = {}
    BY DEF Init, Sent
  <2> QED
    BY <1>1, <1>2, <2>1 DEF JobTask, Exists
<1> QED
  BY <1>3, <1>4, <1>5 DEF TaskInv, Orderly

LEMMA TaskInvStep == JobsInv /\ TaskInv /\ [Next]_vars => TaskInv'
<1> SUFFICES ASSUME JobsInv, TaskInv, [Next]_vars PROVE TaskInv'
  OBVIOUS
<1>1. JobsInv'
  BY JobsInvStep
<1>2. CASE UNCHANGED vars
  <2>1. UNCHANGED <<row, gone, tasks, queue, revoked, worker, op, clash, faults>>
    BY <1>2 DEF vars
  <2>2. IdleHasNone'
    BY <2>1 DEF TaskInv, IdleHasNone, Busy
  <2>3. InUse' = InUse /\ \A j : Exists(j)' <=> Exists(j)
    BY <2>1 DEF InUse, Exists
  <2> QED
    BY <1>1, <2>1, <2>2, <2>3, QuietTasks DEF TaskInv
<1>3. CASE \/ \E w \in Workers : WorkerStep(w) \/ Terminate(w)
           \/ \E t \in queue : Discard(t)
           \/ Fault
  BY <1>1, <1>3, LoopTasks
<1>4. ASSUME NEW u \in Operators, ManagerStep(u) \/ \E j \in Jobs : Ask(u, j) PROVE TaskInv'
  <2>1. UNCHANGED <<worker, faults>>
    BY <1>4 DEF ManagerStep, Insert, Send, Write, DeleteJob, RecoverNext, Cleanup,
                Ask, AskCreate, AskPause, AskCancel, AskResume, AskDelete, ReadAndRevoke
  <2>2. IdleHasNone'
    BY <2>1 DEF TaskInv, IdleHasNone, Busy
  <2>3. ASSUME faults = 0 PROVE Orderly'
    <3>1. Orderly
      BY <2>3 DEF TaskInv
    <3>2. ~RecoverNext(u) /\ ~Cleanup(u)
      BY <3>1 DEF Orderly, OpTask, Request, RecoverNext, Cleanup
    <3> QED
      BY <1>1, <1>4, <3>1, <3>2, AskTasks, InsertTasks, SendTasks, WriteTasks, DeleteTasks
      DEF ManagerStep
  <2> QED
    BY <2>1, <2>2, <2>3 DEF TaskInv
<1> QED
  BY <1>2, <1>3, <1>4 DEF Next

LEMMA TaskInvImplies == JobsInv /\ TaskInv => RowNamesTheTask
<1> SUFFICES ASSUME TaskInv, faults = 0, NEW j \in Jobs \ clash
             PROVE  /\ Cardinality(LiveTasks(j)) <= 1
                    /\ Exists(j) /\ (\A o \in Operators : j \notin op[o].job)
                         => LiveTasks(j) \subseteq {row[j].task}
  BY DEF RowNamesTheTask
<1>1. JobTask(j)
  BY DEF TaskInv, Orderly
<1>2. PICK t : LiveTasks(j) \subseteq {t}
  BY <1>1 DEF JobTask
<1>3. LiveTasks(j) = {} \/ LiveTasks(j) = {t}
  BY <1>2
<1>4. Cardinality({}) = 0 /\ Cardinality({t}) = 1
  BY FS_EmptySet, FS_Singleton
<1>5. Cardinality(LiveTasks(j)) = 0 \/ Cardinality(LiveTasks(j)) = 1
  BY <1>3, <1>4, Zenon
<1> QED
  BY <1>1, <1>5 DEF JobTask, Free

\* For any jobs, workers and interleaving coroutines, while nothing has failed:
\* no two tasks may act for a job whose requests have not overlapped, and
\* between its requests the only one that may is the one in the job's row, so
\* pause_job and cancel_job, which revoke that one, leave no other loop behind
\* (manager.py: resume_job, pause_job).
THEOREM OneTaskPerJob == Spec => []RowNamesTheTask
<1>1. Init => JobsInv /\ TaskInv
  BY JobsInvInit, TaskInvInit
<1>2. (JobsInv /\ TaskInv) /\ [Next]_vars => (JobsInv /\ TaskInv)'
  BY JobsInvStep, TaskInvStep
<1>3. Spec => [](JobsInv /\ TaskInv)
  BY <1>1, <1>2, PTL DEF Spec
<1> QED
  BY <1>3, TaskInvImplies, PTL


==============================================================================
