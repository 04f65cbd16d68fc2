-------------------------------- MODULE MCFlow ------------------------------
(* Small instances of Flow for TLC.                                          *)
EXTENDS Flow

CONSTANTS a, b, c

Plan(ids, deps) == [ids |-> ids, deps |-> deps]

Single == Plan({a}, NoDeps)

\* b waits for a
Chain == Plan({a, b}, [s \in Steps |-> IF s = b THEN {a} ELSE {}])

\* b and c are independent
Pair == Plan({b, c}, NoDeps)

AllPlans  == {Single, Chain, Pair}
LongPlans == {Chain, Pair}

NoChanges == {}

\* Remove the last step; add a step the plan already has (rejected).
SomeChanges ==
  { [added |-> {}, removed |-> {b}, modified |-> {}, deps |-> NoDeps],
    [added |-> {a}, removed |-> {}, modified |-> {}, deps |-> NoDeps] }

\* n faults of any of the kinds ks, no more than one of each (two of the tool)
UpTo(n, ks) ==
  [k \in Kinds |-> CASE k = "any" -> n [] k = "tool" /\ k \in ks -> 2
                     [] k \in ks -> 1 [] OTHER -> 0]

\* A plan of one step: its dispatch fails, and an append.  Independent steps: a
\* tool failure or a killed process.  A chain: any two faults but the dispatch's.
SafetyBudget ==
  [rows \in SUBSET Steps |->
     IF rows = {a} THEN UpTo(2, {"dispatch", "store"})
     ELSE IF rows = {b, c} THEN UpTo(1, {"tool", "kill"})
     ELSE UpTo(2, Kinds \ {"dispatch"})]

\* Independent steps: one tool failure.  A chain: any two of a tool failure, a
\* failing dispatch of the retry and a worker that dies.
SettleBudget ==
  [rows \in SUBSET Steps |->
     IF rows = {b, c} THEN UpTo(1, {"tool"})
     ELSE UpTo(2, {"tool", "redispatch", "crash"})]
=============================================================================
