------------------------ MODULE CircuitBreaker_proofs -----------------------
(***************************************************************************)
(* Proofs about CircuitBreaker for every set of callers and every          *)
(* configuration of the thresholds.                                        *)
(***************************************************************************)
EXTENDS CircuitBreaker, FiniteSetTheorems, TLAPS

\* Every probe in flight holds a slot of the present half-open period.
SlotsHeld ==
  /\ probes \subseteq inflight
  /\ Cardinality(probes) <= half_open_calls
  /\ state # "half_open" => probes = {}

\* The inductive invariant.  Neither half is inductive alone: the slot count
\* bounds the probes only while it stays in its range, and it stays in its
\* range only because every way out of HALF_OPEN empties both together.
IInv == TypeOK /\ ClosedBelowThreshold /\ SlotsHeld

-----------------------------------------------------------------------------
\* Taking one element out of a finite set, or adding one to it, changes its
\* size by at most one.
LEMMA OneMoreOrLess ==
  ASSUME NEW S, IsFiniteSet(S), NEW x
  PROVE  /\ IsFiniteSet(S \cup {x}) /\ IsFiniteSet(S \ {x})
         /\ Cardinality(S \cup {x}) <= Cardinality(S) + 1
         /\ Cardinality(S \ {x}) <= Cardinality(S)
         /\ Cardinality(S) \in Nat
         /\ Cardinality(S \cup {x}) \in Nat
         /\ Cardinality(S \ {x}) \in Nat
<1>1. Cardinality(S) \in Nat
  BY FS_CardinalityType
<1>2. /\ IsFiniteSet(S \cup {x})
      /\ Cardinality(S \cup {x}) = IF x \in S THEN Cardinality(S) ELSE Cardinality(S) + 1
  BY FS_AddElement
<1>3. /\ IsFiniteSet(S \ {x})
      /\ Cardinality(S \ {x}) = IF x \in S THEN Cardinality(S) - 1 ELSE Cardinality(S)
  BY FS_RemoveElement
<1>4. Cardinality(S \ {x}) \in Nat
  BY <1>3, FS_CardinalityType
<1> QED
  BY <1>1, <1>2, <1>3, <1>4

\* The empty set has size 0 and the probes are finitely many.
LEMMA ProbesFinite ==
  ASSUME TypeOK
  PROVE  IsFiniteSet(probes) /\ Cardinality({}) = 0
  BY ConfigAssumption, FS_Subset, FS_EmptySet DEF TypeOK

\* The breaker starts closed, with nothing counted and nothing in flight.
LEMMA InitIInv == Init => IInv
<1> SUFFICES ASSUME Init PROVE IInv
  OBVIOUS
<1>1. elapsed \in BOOLEAN /\ healthy \in BOOLEAN
  BY Zenon DEF Init
<1>2. Cardinality(probes) = 0
  BY FS_EmptySet DEF Init
<1>3. TypeOK
  BY <1>1, ConfigAssumption DEF Init, TypeOK, States
<1> QED
  BY <1>2, <1>3, ConfigAssumption
  DEF Init, IInv, ClosedBelowThreshold, SlotsHeld

-----------------------------------------------------------------------------
\* Admitting a call, in each of the three states that admit one.
LEMMA AdmitIInv ==
  ASSUME IInv, NEW c \in Callers, Admit(c)
  PROVE  IInv'
<1>1. /\ IsFiniteSet(probes)
      /\ Cardinality(probes \cup {c}) <= Cardinality(probes) + 1
      /\ Cardinality(probes) \in Nat /\ Cardinality(probes \cup {c}) \in Nat
  BY ProbesFinite, OneMoreOrLess DEF IInv
<1>2. Cardinality({c}) = 1
  BY FS_Singleton
<1>3. CASE AdmitClosed(c)
  BY <1>3, ConfigAssumption
  DEF IInv, TypeOK, ClosedBelowThreshold, SlotsHeld, Admit, AdmitClosed,
      breaker, States
<1>4. CASE AdmitPromoting(c)
  BY <1>2, <1>4, ConfigAssumption
  DEF IInv, TypeOK, ClosedBelowThreshold, SlotsHeld, Admit,
      AdmitPromoting, States
<1>5. CASE AdmitHalfOpen(c)
  BY <1>1, <1>5, ConfigAssumption
  DEF IInv, TypeOK, ClosedBelowThreshold, SlotsHeld, Admit,
      AdmitHalfOpen, States
<1> QED
  BY <1>3, <1>4, <1>5 DEF Admit

\* A call leaves the breaker: its result is recorded, or it was cancelled.
LEMMA LeaveIInv ==
  ASSUME IInv, NEW c \in Callers, Succeed(c) \/ Fail(c) \/ Cancel(c)
  PROVE  IInv'
<1>1. /\ Cardinality(probes \ {c}) <= Cardinality(probes)
      /\ Cardinality(probes) \in Nat /\ Cardinality(probes \ {c}) \in Nat
      /\ Cardinality({}) = 0
  BY ProbesFinite, OneMoreOrLess DEF IInv
<1>2. /\ inflight' = inflight \ {c}
      /\ probes' = IF state' = "half_open" THEN probes \ {c} ELSE {}
      /\ UNCHANGED healthy
      /\ cancels' \in 0..MaxCancels
  BY ConfigAssumption DEF IInv, TypeOK, Succeed, Fail, Cancel, LeavePeriod
<1>3. /\ state' \in States
      /\ failure_count' \in 0..FailureThreshold
      /\ success_count' \in 0..(SuccessThreshold - 1)
      /\ half_open_calls' \in 0..HalfOpenMaxCalls
      /\ state' = "closed" => failure_count' < FailureThreshold
      /\ state' = "half_open" =>
           state = "half_open" /\ half_open_calls' = half_open_calls
  <2>1. CASE Succeed(c)
    BY <2>1, ConfigAssumption
    DEF IInv, TypeOK, ClosedBelowThreshold, Succeed, RecordSuccess,
        TransitionToClosed, States, breaker
  <2>2. CASE Fail(c)
    BY <2>2, ConfigAssumption
    DEF IInv, TypeOK, ClosedBelowThreshold, Fail, RecordFailure,
        CountFailure, TransitionToOpen, States
  <2>3. CASE Cancel(c)
    BY <2>3 DEF IInv, TypeOK, ClosedBelowThreshold, Cancel, breaker
  <2> QED
    BY <2>1, <2>2, <2>3
<1>4. elapsed' \in BOOLEAN
  BY Zenon
  DEF IInv, TypeOK, Succeed, Fail, Cancel, RecordSuccess, RecordFailure,
      TransitionToClosed, TransitionToOpen, breaker
<1>5. TypeOK' /\ ClosedBelowThreshold'
  BY <1>2, <1>3, <1>4 DEF IInv, TypeOK, ClosedBelowThreshold
<1>6. SlotsHeld'
  BY <1>1, <1>2, <1>3 DEF IInv, TypeOK, SlotsHeld
<1> QED
  BY <1>5, <1>6 DEF IInv

\* Every step of the breaker preserves the inductive invariant.
LEMMA NextIInv == IInv /\ [Next]_vars => IInv'
<1> SUFFICES ASSUME IInv, [Next]_vars PROVE IInv'
  OBVIOUS
<1>1. ASSUME NEW c \in Callers, Admit(c) \/ Succeed(c) \/ Fail(c) \/ Cancel(c)
      PROVE  IInv'
  BY <1>1, AdmitIInv, LeaveIInv
<1>2. CASE Reset
  <2>1. elapsed' \in BOOLEAN /\ healthy' \in BOOLEAN
    BY <1>2, Zenon DEF IInv, TypeOK, Reset, TransitionToClosed
  <2>2. Cardinality(probes') = 0
    BY <1>2, FS_EmptySet DEF Reset
  <2> QED
    BY <1>2, <2>1, <2>2, ConfigAssumption
    DEF IInv, TypeOK, ClosedBelowThreshold, SlotsHeld, Reset,
        TransitionToClosed, States
<1>3. CASE Elapse
  BY <1>3 DEF IInv, TypeOK, ClosedBelowThreshold, SlotsHeld, Elapse
<1>4. CASE Flip
  BY <1>4 DEF IInv, TypeOK, ClosedBelowThreshold, SlotsHeld, Flip, breaker
<1>5. CASE UNCHANGED vars
  BY <1>5 DEF IInv, TypeOK, ClosedBelowThreshold, SlotsHeld, vars
<1> QED
  BY <1>1, <1>2, <1>3, <1>4, <1>5 DEF Next

\* The invariant holds in every reachable state of the breaker.
LEMMA SpecIInv == Spec => []IInv
  BY InitIInv, NextIInv, PTL DEF Spec

-----------------------------------------------------------------------------
\* The attributes of the breaker stay in range, for every configuration.
THEOREM TypeCorrect == Spec => []TypeOK
  BY SpecIInv, PTL DEF IInv

\* A closed circuit is always below its failure threshold, however the results
\* of overlapping calls are ordered.
THEOREM ClosedMeansBelowThreshold == Spec => []ClosedBelowThreshold
  BY SpecIInv, PTL DEF IInv

\* A half-open circuit never lets more than half_open_max_calls probes through
\* at once, for any number of callers.
THEOREM ProbesLimited == Spec => []HalfOpenLimit
<1>1. IInv => HalfOpenLimit
  <2> SUFFICES ASSUME IInv PROVE HalfOpenLimit
    OBVIOUS
  <2>1. Cardinality(probes) \in Nat
    BY ProbesFinite, FS_CardinalityType DEF IInv
  <2> QED
    BY <2>1, ConfigAssumption DEF IInv, TypeOK, SlotsHeld, HalfOpenLimit
<1> QED
  BY <1>1, SpecIInv, PTL

\* A late success never closes an open circuit: only reset() does.
THEOREM OpenStaysOpen == Spec => LateSuccessKeepsOpen
<1>1. ASSUME [Next]_vars
      PROVE  [state = "open" /\ state' = "closed" => UNCHANGED inflight]_vars
  <2> SUFFICES ASSUME state = "open", state' = "closed", Next
               PROVE  UNCHANGED inflight
    BY <1>1 DEF vars
  <2>1. ASSUME NEW c \in Callers, Admit(c) PROVE FALSE
    BY <2>1 DEF Admit, AdmitClosed, AdmitPromoting, AdmitHalfOpen, breaker
  <2>2. ASSUME NEW c \in Callers, Succeed(c) PROVE FALSE
    BY <2>2 DEF Succeed, RecordSuccess, TransitionToClosed, breaker
  <2>3. ASSUME NEW c \in Callers, Fail(c) PROVE FALSE
    BY <2>3 DEF Fail, RecordFailure, TransitionToOpen
  <2>4. ASSUME NEW c \in Callers, Cancel(c) PROVE FALSE
    BY <2>4 DEF Cancel, breaker
  <2>5. CASE Reset
    BY <2>5 DEF Reset
  <2>6. CASE Elapse \/ Flip
    BY <2>6 DEF Elapse, Flip, breaker
  <2> QED
    BY <2>1, <2>2, <2>3, <2>4, <2>5, <2>6 DEF Next
<1> QED
  BY <1>1, PTL DEF Spec, LateSuccessKeepsOpen
=============================================================================
