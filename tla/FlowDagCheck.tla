---------------------------- MODULE FlowDagCheck ----------------------------
(***************************************************************************)
(* flow/dag.py as it computes: lists of steps, one pass per kind of        *)
(* mutation, and the depth-first searches of validate() and                *)
(* topological_order(), one call, test or return of visit() at a time.     *)
(* The invariants compare their results with the definitions of FlowDag,   *)
(* on which the model of the engine is built.                              *)
(*                                                                         *)
(* depends_on is a set, searched in any order: the code goes through it in *)
(* the order of the list, and a dependency listed twice is found black,    *)
(* or visited, the second time.                                            *)
(***************************************************************************)
EXTENDS FlowDag, Integers, Sequences

CONSTANTS
  MaxSteps,                        \* bound: entries of a list of steps
  MaxChange                        \* bound: entries added, or modified

VARIABLES
  steps,                           \* DAG.steps
  change,                          \* the DAGMutation applied to it
  draft,                           \* the list under search: steps, or new_steps
  at,                              \* the method that runs, or how it ended
  color,                           \* validate(): color of each node
  order,                           \* topological_order(): order, and visited
  stack                            \* calls of visit() under way, the last on top

callVars == <<at, color, order, stack>>
dagVars  == <<steps, change, draft, callVars>>

Entry == [id : Steps, depends_on : SUBSET Steps]

\* The lists of up to n entries.
Lists(n) == UNION {[1..k -> Entry] : k \in 0..n}

NoChange == [kind |-> "none"]
ChangeLists == [kind : {"mutation"}, added : Lists(MaxChange),
                removed : SUBSET Steps, modified : Lists(MaxChange)]

Ids(l) == {l[i].id : i \in DOMAIN l}

\* {s.id: s for s in steps}: the last entry of an id wins.
DependsOn(l, n) ==
  l[CHOOSE i \in DOMAIN l : l[i].id = n /\ \A j \in DOMAIN l : l[j].id = n => j <= i]
    .depends_on

\* The DAG a list of steps stands for.
AsDag(l) == [ids  |-> Ids(l),
             deps |-> [n \in Steps |-> IF n \in Ids(l) THEN DependsOn(l, n) ELSE {}]]

-----------------------------------------------------------------------------
(* The searches: visit(n) goes through what n depends on, and leaves *)

Frame(n) == [node |-> n, left |-> DependsOn(draft, n)]

Top == stack[Len(stack)]

\* Faulty: the loop stays at d.
LookedAgain(d) == stack

\* The loop over the dependencies goes on behind d.
Looked(d) == [stack EXCEPT ![Len(stack)].left = @ \ {d}]

\* The loop over the steps: the first of them that is not in S.
FirstNotIn(S, n) ==
  \E i \in DOMAIN draft : /\ draft[i].id = n /\ n \notin S
                          /\ \A j \in 1 .. i - 1 : draft[j].id \in S

Returned(how) ==
  /\ at' = how
  /\ stack' = <<>>
  /\ color' = [n \in Steps |-> "white"]

-----------------------------------------------------------------------------
(* validate() *)

NoDuplicates(l) == \A i, j \in DOMAIN l : l[i].id = l[j].id => i = j

NoneMissing(l) == \A i \in DOMAIN l : l[i].depends_on \subseteq Ids(l)

\* The call: the two loops over the steps, and white nodes.
Validate(l) ==
  /\ draft' = l
  /\ at' = IF NoDuplicates(l) /\ NoneMissing(l) THEN "validate" ELSE "raised"
  /\ UNCHANGED <<color, order, stack>>

NotWhite == {n \in Steps : color[n] # "white"}

Enter(n, frames) ==
  /\ color' = [color EXCEPT ![n] = "gray"]
  /\ stack' = Append(frames, Frame(n))
  /\ UNCHANGED <<at, order>>

VisitStep(n) == stack = <<>> /\ FirstNotIn(NotWhite, n) /\ Enter(n, <<>>)

VisitDep(d) == color[d] = "white" /\ Enter(d, Looked(d))

SkipDep(d) ==
  /\ color[d] = "black"
  /\ stack' = Looked(d)
  /\ UNCHANGED <<at, color, order>>

\* Faulty: a finished node is taken for one under visit.
ClosesCycleDone(d) == color[d] # "white"

\* The search meets a node it is still visiting.
ClosesCycle(d) == color[d] = "gray"

RaiseCycle(d) == ClosesCycle(d) /\ Returned("raised") /\ UNCHANGED order

LeaveBlack ==
  /\ Top.left = {}
  /\ color' = [color EXCEPT ![Top.node] = "black"]
  /\ stack' = SubSeq(stack, 1, Len(stack) - 1)
  /\ UNCHANGED <<at, order>>

AllBlack ==
  /\ stack = <<>> /\ Ids(draft) \subseteq NotWhite
  /\ Returned("valid") /\ UNCHANGED order

Validating ==
  /\ at = "validate"
  /\ \/ \E n \in Steps : VisitStep(n)
     \/ /\ stack # <<>>
        /\ \/ \E d \in Top.left : VisitDep(d) \/ SkipDep(d) \/ RaiseCycle(d)
           \/ LeaveBlack
     \/ AllBlack
  /\ UNCHANGED <<steps, change, draft>>

-----------------------------------------------------------------------------
(* topological_order(), once validate() has returned *)

Visited == {order[i] : i \in DOMAIN order}

Call(n, frames) == stack' = Append(frames, Frame(n)) /\ UNCHANGED <<at, color, order>>

OrderStep(n) == stack = <<>> /\ FirstNotIn(Visited, n) /\ Call(n, <<>>)

OrderDep(d) == d \notin Visited /\ Call(d, Looked(d))

OrderedDep(d) ==
  /\ d \in Visited
  /\ stack' = Looked(d)
  /\ UNCHANGED <<at, color, order>>

\* Faulty: a step goes into the order before its dependencies.
PlaceEarly(o, n) == <<n>> \o o

\* visited.add(node); order.append(node), once the dependencies are placed.
Place(o, n) == Append(o, n)

LeavePlaced ==
  /\ Top.left = {}
  /\ order' = Place(order, Top.node)
  /\ stack' = SubSeq(stack, 1, Len(stack) - 1)
  /\ UNCHANGED <<at, color>>

AllPlaced ==
  /\ stack = <<>> /\ Ids(draft) \subseteq Visited
  /\ Returned("ordered") /\ UNCHANGED order

Ordering ==
  /\ at = "order"
  /\ \/ \E n \in Steps : OrderStep(n)
     \/ /\ stack # <<>>
        /\ \/ \E d \in Top.left : OrderDep(d) \/ OrderedDep(d)
           \/ LeavePlaced
     \/ AllPlaced
  /\ UNCHANGED <<steps, change, draft>>

-----------------------------------------------------------------------------
(* apply_mutation() *)

\* The steps whose ids are not removed, in order, of the first i of them.
RemovedUpTo(l, ids) ==
  LET kept[i \in 0 .. Len(l)] ==
        IF i = 0 THEN <<>>
        ELSE IF l[i].id \in ids THEN kept[i - 1] ELSE Append(kept[i - 1], l[i])
  IN  kept

Removed(l, ids) == RemovedUpTo(l, ids)[Len(l)]

\* Faulty: a modified step that is absent is let pass.
ModifiableOrNew(l, mods) == TRUE

\* Each modified step must be there.
Modifiable(l, mods) == Ids(mods) \subseteq Ids(l)

Modified(l, mods) ==
  [i \in DOMAIN l |-> IF l[i].id \in Ids(mods)
                      THEN [id |-> l[i].id, depends_on |-> DependsOn(mods, l[i].id)]
                      ELSE l[i]]

\* apply_mutation() of a DAG that is valid: from_payload() validates every DAG.
Mutate(m) ==
  /\ at = "valid" /\ change = NoChange
  /\ Len(steps) < MaxSteps
  /\ change' = m
  /\ LET kept == Removed(steps, m.removed)
     IN IF Modifiable(kept, m.modified)
        THEN Validate(Modified(kept, m.modified) \o m.added)
        ELSE at' = "refused" /\ UNCHANGED <<draft, color, order, stack>>
  /\ UNCHANGED steps

-----------------------------------------------------------------------------
CheckInit ==
  /\ steps = <<>> /\ change = NoChange /\ draft = <<>>
  /\ at = "built"
  /\ color = [n \in Steps |-> "white"]
  /\ order = <<>> /\ stack = <<>>

\* Every list of up to MaxSteps entries is a DAG to try ...
AddEntry(e) ==
  /\ at = "built"
  /\ Len(steps) < MaxSteps
  /\ steps' = Append(steps, e)
  /\ UNCHANGED <<change, draft, callVars>>

\* ... with validate(), as from_payload() does ...
CallValidate == at = "built" /\ Validate(steps) /\ UNCHANGED <<steps, change>>

\* ... and, if it is valid, with topological_order(), or with every mutation.
CallOrder ==
  /\ at = "valid" /\ change = NoChange
  /\ at' = "order"
  /\ UNCHANGED <<steps, change, draft, color, order, stack>>

CheckNext ==
  \/ \E e \in Entry : AddEntry(e)
  \/ CallValidate \/ CallOrder
  \/ \E m \in ChangeLists : Mutate(m)
  \/ Validating \/ Ordering

\* A search that has begun is run to its end.
CheckSpec == CheckInit /\ [][CheckNext]_dagVars /\ WF_dagVars(Validating \/ Ordering)

-----------------------------------------------------------------------------
(* Properties *)

Sound(l) == NoDuplicates(l) /\ Valid(AsDag(l))

\* validate() accepts exactly the lists without duplicate ids, missing
\* dependencies and cycles: the colouring search finds every cycle, also one
\* reached through a finished node, and reports no false one.
ValidateAgrees ==
  /\ at \in {"valid", "order", "ordered"} => Sound(draft)
  /\ at = "raised" => ~Sound(draft)

\* topological_order() lists every step of a valid DAG once, after all the
\* steps it depends on.
TopologicalAgrees ==
  at = "ordered" =>
    /\ Visited = Ids(draft)
    /\ \A i, j \in DOMAIN order : order[i] = order[j] => i = j
    /\ \A i \in DOMAIN order : DependsOn(draft, order[i]) \subseteq {order[j] : j \in 1 .. i - 1}

AsMutation(m) ==
  [added |-> Ids(m.added), removed |-> m.removed, modified |-> Ids(m.modified),
   deps |-> [n \in Steps |-> IF n \in Ids(m.added) THEN DependsOn(m.added, n)
                             ELSE IF n \in Ids(m.modified) THEN DependsOn(m.modified, n)
                             ELSE {}]]

\* apply_mutation() on lists is Mutated on DAGs: it raises for the mutations
\* that are not Applicable, or add a step twice, and for no others; the steps
\* it leaves depend on the same steps.
MutationAgrees ==
  change # NoChange /\ at # "validate" =>
    LET m == AsMutation(change)
    IN /\ at = "valid" <=> NoDuplicates(change.added) /\ Applicable(AsDag(steps), m)
       /\ at = "valid" => AsDag(draft) = Mutated(AsDag(steps), m)

\* Both searches end, also where the dependencies form a cycle.
SearchEnds == at \in {"validate", "order"} ~> at \notin {"validate", "order"}

=============================================================================
