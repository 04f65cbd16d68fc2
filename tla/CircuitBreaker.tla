--------------------------- MODULE CircuitBreaker ---------------------------
(***************************************************************************)
(* core/circuit_breaker.py: one CircuitBreaker shared by the coroutines    *)
(* that call a service.                                                    *)
(*                                                                         *)
(* The asyncio.Lock makes the admission of a call and the recording of its *)
(* result two atomic steps; the call itself runs between them, outside the *)
(* lock, so a result may be recorded in another state than the one the     *)
(* call was admitted in.  time.monotonic() - _opened_at is abstracted to   *)
(* the flag elapsed: has recovery_timeout passed since the circuit opened? *)
(***************************************************************************)
EXTENDS Integers, FiniteSets

CONSTANTS
  Callers,             \* coroutines that use the breaker
  FailureThreshold,    \* CircuitBreakerConfig.failure_threshold
  HalfOpenMaxCalls,    \* CircuitBreakerConfig.half_open_max_calls
  SuccessThreshold,    \* CircuitBreakerConfig.success_threshold
  MaxCancels           \* bound: how many admitted calls their callers cancel

ASSUME ConfigAssumption ==
  /\ IsFiniteSet(Callers)
  /\ FailureThreshold \in Nat \ {0}
  /\ HalfOpenMaxCalls \in Nat \ {0}
  /\ SuccessThreshold \in Nat \ {0}
  /\ MaxCancels \in Nat

VARIABLES
  state,               \* _state
  failure_count,       \* _failure_count, counted up to FailureThreshold
  success_count,       \* _success_count
  half_open_calls,     \* _half_open_calls
  elapsed,             \* has the recovery timeout passed since _opened_at?
  inflight,            \* callers awaiting their coroutine
  probes,              \* those of them admitted in the present half-open period
  healthy,             \* does the service behind the breaker answer?
  cancels              \* how many calls were cancelled, up to MaxCancels

vars == <<state, failure_count, success_count, half_open_calls, elapsed,
          inflight, probes, healthy, cancels>>

breaker == <<state, failure_count, success_count, half_open_calls, elapsed>>

States == {"closed", "open", "half_open"}

Init ==
  /\ state = "closed"
  /\ failure_count = 0
  /\ success_count = 0
  /\ half_open_calls = 0
  /\ elapsed = FALSE
  /\ inflight = {}
  /\ probes = {}
  /\ healthy \in BOOLEAN
  /\ cancels = 0

-----------------------------------------------------------------------------
(* State transitions *)

TransitionToOpen ==
  /\ state' = "open"
  /\ elapsed' = FALSE
  /\ half_open_calls' = 0
  /\ success_count' = 0

TransitionToClosed ==
  /\ state' = "closed"
  /\ failure_count' = 0
  /\ success_count' = 0
  /\ half_open_calls' = 0
  /\ elapsed' = FALSE

\* _failure_count only matters while it is below the threshold: in the other
\* states nothing reads it before _transition_to_closed resets it.
CountFailure ==
  failure_count' = IF failure_count < FailureThreshold
                   THEN failure_count + 1 ELSE failure_count

RecordFailure ==
  /\ CountFailure
  /\ \/ /\ \/ state = "half_open"
           \/ state = "closed" /\ failure_count + 1 >= FailureThreshold
        /\ TransitionToOpen
     \/ /\ ~ \/ state = "half_open"
             \/ state = "closed" /\ failure_count + 1 >= FailureThreshold
        /\ success_count' = 0
        /\ UNCHANGED <<state, half_open_calls, elapsed>>

\* Faulty: any success while the circuit is not closed counts as a probe's.
RecordSuccessAnyState ==
  \/ /\ state # "closed"
     /\ success_count + 1 >= SuccessThreshold
     /\ TransitionToClosed
  \/ /\ state # "closed"
     /\ success_count + 1 < SuccessThreshold
     /\ success_count' = success_count + 1
     /\ UNCHANGED <<state, failure_count, half_open_calls, elapsed>>
  \/ /\ state = "closed"
     /\ failure_count' = 0
     /\ UNCHANGED <<state, success_count, half_open_calls, elapsed>>

\* Faulty: a success below the threshold is not counted.
RecordSuccessUncounted ==
  \/ /\ state = "half_open"
     /\ success_count + 1 >= SuccessThreshold
     /\ TransitionToClosed
  \/ /\ state = "closed"
     /\ failure_count' = 0
     /\ UNCHANGED <<state, success_count, half_open_calls, elapsed>>
  \/ /\ \/ state = "open"
        \/ state = "half_open" /\ success_count + 1 < SuccessThreshold
     /\ UNCHANGED breaker

RecordSuccess ==
  \/ /\ state = "half_open"
     /\ success_count + 1 >= SuccessThreshold
     /\ TransitionToClosed
  \/ /\ state = "half_open"
     /\ success_count + 1 < SuccessThreshold
     /\ success_count' = success_count + 1
     /\ UNCHANGED <<state, failure_count, half_open_calls, elapsed>>
  \/ /\ state = "closed"
     /\ failure_count' = 0
     /\ UNCHANGED <<state, success_count, half_open_calls, elapsed>>
  \/ state = "open" /\ UNCHANGED breaker

-----------------------------------------------------------------------------
(* call(): admission under the lock, then the result under the lock *)

AdmitClosed(c) ==
  /\ state = "closed"
  /\ UNCHANGED <<breaker, probes>>

\* _effective_state() promotes OPEN to HALF_OPEN once the timeout has passed;
\* the promoting call takes the first of the half-open slots.
AdmitPromoting(c) ==
  /\ state = "open" /\ elapsed
  /\ state' = "half_open"
  /\ half_open_calls' = 1
  /\ success_count' = 0
  /\ probes' = {c}
  /\ UNCHANGED <<failure_count, elapsed>>

\* Faulty: the number of slots is not looked at.
AdmitHalfOpenAlways(c) ==
  /\ state = "half_open"
  /\ half_open_calls' = half_open_calls + 1
  /\ probes' = probes \cup {c}
  /\ UNCHANGED <<state, failure_count, success_count, elapsed>>

AdmitHalfOpen(c) ==
  /\ state = "half_open"
  /\ half_open_calls < HalfOpenMaxCalls
  /\ half_open_calls' = half_open_calls + 1
  /\ probes' = probes \cup {c}
  /\ UNCHANGED <<state, failure_count, success_count, elapsed>>

\* A call that is not admitted raises CircuitOpenError and changes nothing.
Admit(c) ==
  /\ c \notin inflight
  /\ AdmitClosed(c) \/ AdmitPromoting(c) \/ AdmitHalfOpen(c)
  /\ inflight' = inflight \cup {c}
  /\ UNCHANGED <<healthy, cancels>>

\* probes belongs to the present half-open period only.
LeavePeriod(c) ==
  probes' = IF state' = "half_open" THEN probes \ {c} ELSE {}

Succeed(c) ==
  /\ c \in inflight /\ healthy
  /\ RecordSuccess
  /\ inflight' = inflight \ {c}
  /\ LeavePeriod(c)
  /\ UNCHANGED <<healthy, cancels>>

Fail(c) ==
  /\ c \in inflight /\ ~healthy
  /\ RecordFailure
  /\ inflight' = inflight \ {c}
  /\ LeavePeriod(c)
  /\ UNCHANGED <<healthy, cancels>>

\* CancelledError is no Exception: neither branch of call() records it, and
\* the half-open slot the call took is not given back.
Cancel(c) ==
  /\ cancels < MaxCancels
  /\ cancels' = cancels + 1
  /\ c \in inflight
  /\ UNCHANGED <<breaker, healthy>>
  /\ inflight' = inflight \ {c}
  /\ LeavePeriod(c)

Reset ==
  /\ TransitionToClosed
  /\ probes' = {}
  /\ UNCHANGED <<inflight, healthy, cancels>>

(* The environment: time and the service *)

Elapse ==
  /\ state = "open" /\ ~elapsed
  /\ elapsed' = TRUE
  /\ UNCHANGED <<state, failure_count, success_count, half_open_calls,
                 inflight, probes, healthy, cancels>>

Flip ==
  /\ healthy' = ~healthy
  /\ UNCHANGED <<breaker, inflight, probes, cancels>>

Next ==
  \/ \E c \in Callers : Admit(c) \/ Succeed(c) \/ Fail(c) \/ Cancel(c)
  \/ Reset \/ Elapse \/ Flip

\* Time passes, every admitted call returns, and the callers keep calling.
\* Nothing is assumed of Reset, Cancel or the health of the service.
Fairness ==
  /\ WF_vars(Elapse)
  /\ \A c \in Callers : WF_vars(Admit(c)) /\ WF_vars(Succeed(c) \/ Fail(c))

Spec == Init /\ [][Next]_vars

FairSpec == Spec /\ Fairness

-----------------------------------------------------------------------------
(* Properties *)

\* Every attribute of the breaker stays in the range the code assumes.
TypeOK ==
  /\ state \in States
  /\ failure_count \in 0..FailureThreshold
  /\ success_count \in 0..(SuccessThreshold - 1)
  /\ half_open_calls \in 0..HalfOpenMaxCalls
  /\ elapsed \in BOOLEAN
  /\ inflight \in SUBSET Callers
  /\ probes \in SUBSET Callers
  /\ healthy \in BOOLEAN
  /\ cancels \in 0..MaxCancels

\* A closed circuit never holds a full failure count: whichever calls overlap
\* the trip, the reset or the recovery, the failure that reaches the threshold
\* has opened the circuit and every way back to CLOSED starts from zero.
ClosedBelowThreshold ==
  state = "closed" => failure_count < FailureThreshold

\* While the circuit is half open the service never sees more than
\* half_open_max_calls probes at once, however the admissions, results and
\* cancellations of the callers overlap.
HalfOpenLimit == Cardinality(probes) <= HalfOpenMaxCalls

\* A success that arrives after the circuit tripped (the call was admitted
\* before) must not close it: only a reset takes OPEN to CLOSED directly, and
\* a reset consumes no call.
LateSuccessKeepsOpen ==
  [][state = "open" /\ state' = "closed" => UNCHANGED inflight]_vars

\* Once the service answers for good, the breaker closes for good ("allowing
\* them to recover before retrying").
Recovers == <>[]healthy => <>[](state = "closed")

=============================================================================
