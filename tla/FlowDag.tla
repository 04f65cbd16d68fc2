------------------------------- MODULE FlowDag ------------------------------
(***************************************************************************)
(* flow/dag.py: the plan of a flow.  A DAG is the set of its step ids and  *)
(* the steps each of them depends on; titles, tools, arguments and limits  *)
(* of a step are data no scheduling decision reads.                        *)
(***************************************************************************)
CONSTANT Steps                     \* step ids

NoDeps == [s \in Steps |-> {}]

Dags == [ids : SUBSET Steps, deps : [Steps -> SUBSET Steps]]

Mutations == [added : SUBSET Steps, removed : SUBSET Steps,
              modified : SUBSET Steps, deps : [Steps -> SUBSET Steps]]

DepsPresent(d) == \A s \in d.ids : d.deps[s] \subseteq d.ids

\* Every set of steps has one that waits for none of the others.
Acyclic(d) ==
  \A S \in SUBSET d.ids : S # {} => \E s \in S : d.deps[s] \cap S = {}

\* DAG.validate(); ids are a set, so they are unique.
Valid(d) == DepsPresent(d) /\ Acyclic(d)

\* DAG.ready_steps()
ReadySteps(d, completed) ==
  {s \in d.ids \ completed : d.deps[s] \subseteq completed}

\* DAG.apply_mutation(): remove, then modify, then add.
Mutated(d, m) ==
  [ids  |-> (d.ids \ m.removed) \cup m.added,
   deps |-> [s \in Steps |-> IF s \in m.modified \cup m.added THEN m.deps[s]
                             ELSE IF s \in m.removed THEN {} ELSE d.deps[s]]]

\* The mutation raises no DAGValidationError.
Applicable(d, m) ==
  /\ m.modified \subseteq d.ids \ m.removed
  /\ m.added \cap (d.ids \ m.removed) = {}
  /\ Valid(Mutated(d, m))
=============================================================================
