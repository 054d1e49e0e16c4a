-------------------------- MODULE TopologicalSort --------------------------
(***************************************************************************)
(* topological_sort (graph.py): Kahn's algorithm over the ids of a graph,  *)
(* with what it does when a cycle leaves nodes over.  A step is one turn   *)
(* of its while loop.                                                      *)
(*                                                                         *)
(*   order     the ids of graph.nodes, in definition order                 *)
(*   inputs    each node's inputs, each as the id of the node its name     *)
(*             resolves to (NodeTable's ResolvePort) or an id not in order *)
(*   strict    the argument                                                *)
(*   inDegree, queue, sorted   the local variables                         *)
(*   pc        "sorting", "done" (returned sorted) or "raised"             *)
(*                                                                         *)
(* Ids are integers, ordered as the code orders strings.                   *)
(***************************************************************************)
EXTENDS Integers, Sequences, FiniteSets

CONSTANTS
  Id,         \* ids an input may resolve to
  MaxInputs   \* bound on the inputs of a node

ASSUME IdAssumption == Id \subseteq Int /\ IsFiniteSet(Id)
ASSUME MaxInputsAssumption == MaxInputs \in Nat

VARIABLES order, inputs, strict, inDegree, queue, sorted, pc

graph == <<order, inputs, strict>>
vars == <<order, inputs, strict, inDegree, queue, sorted, pc>>

Elements(s) == {s[i] : i \in DOMAIN s}
Nodes == Elements(order)

\* The nodes v waits for; the code's seen_upstreams counts each of them once.
Upstream(v) == Elements(inputs[v]) \cap Nodes

\* S as a sequence in increasing order of rank; there is exactly one.
Arrangements(S, rank) ==
  {s \in [1..Cardinality(S) -> S] :
     /\ Elements(s) = S
     /\ \A i, j \in DOMAIN s : i < j => rank[s[i]] < rank[s[j]]}

ById == [v \in Nodes |-> v]
ByDefinition == [v \in Nodes |-> CHOOSE i \in DOMAIN order : order[i] = v]

Lists(S, n) == UNION {[1..k -> S] : k \in 0..n}

TypeOK ==
  /\ order \in Seq(Id)
  /\ inputs \in [Nodes -> Seq(Id)]
  /\ strict \in BOOLEAN
  /\ inDegree \in [Nodes -> Nat]
  /\ queue \in Seq(Nodes)
  /\ sorted \in Seq(Nodes)
  /\ pc \in {"sorting", "done", "raised"}

Init ==
  /\ order \in {s \in Lists(Id, Cardinality(Id)) :
                  \A i, j \in DOMAIN s : s[i] = s[j] => i = j}
  /\ inputs \in [Nodes -> Lists(Id, MaxInputs)]
  /\ strict \in BOOLEAN
  /\ inDegree = [v \in Nodes |-> Cardinality(Upstream(v))]
  /\ queue \in Arrangements({v \in Nodes : inDegree[v] = 0}, ById)
  /\ sorted = <<>>
  /\ pc = "sorting"

-----------------------------------------------------------------------------
\* for v in sorted(adj[u]): in_degree[v] -= 1
Visit(u) ==
  [v \in Nodes |-> IF u \in Upstream(v) THEN inDegree[v] - 1 ELSE inDegree[v]]

\* Mutant of Pop: a node is queued when its first producer is popped, not its last.
PopQueuesFirstVisit ==
  /\ pc = "sorting" /\ queue # <<>>
  /\ LET u == Head(queue)
         seen == Elements(sorted) \cup Elements(queue)
         ready == {v \in Nodes \ seen : u \in Upstream(v)}
     IN  /\ sorted' = Append(sorted, u)
         /\ inDegree' = Visit(u)
         /\ \E next \in Arrangements(ready, ById) : queue' = Tail(queue) \o next
  /\ UNCHANGED <<order, inputs, strict, pc>>

\* One turn of the while loop.
Pop ==
  /\ pc = "sorting" /\ queue # <<>>
  /\ LET u == Head(queue)
         ready == {v \in Nodes : u \in Upstream(v) /\ Visit(u)[v] = 0}
     IN  /\ sorted' = Append(sorted, u)
         /\ inDegree' = Visit(u)
         /\ \E next \in Arrangements(ready, ById) : queue' = Tail(queue) \o next
  /\ UNCHANGED <<order, inputs, strict, pc>>

\* Mutant of Complete: off by one.
CompleteButOne == Len(sorted) + 1 >= Cardinality(Nodes)

Complete == Len(sorted) >= Cardinality(Nodes)

\* if strict: raise CyclicGraphError
Raise ==
  /\ pc = "sorting" /\ queue = <<>>
  /\ ~Complete /\ strict
  /\ pc' = "raised"
  /\ UNCHANGED <<order, inputs, strict, inDegree, queue, sorted>>

\* Mutant of Return: every node is appended, the sorted ones again.
ReturnRepeats ==
  /\ pc = "sorting" /\ queue = <<>>
  /\ Complete \/ ~strict
  /\ sorted' = IF Complete THEN sorted ELSE sorted \o order
  /\ pc' = "done"
  /\ UNCHANGED <<order, inputs, strict, inDegree, queue>>

\* Mutant of Return: the loop waits for every node, not for the queue to empty.
ReturnWhenComplete ==
  /\ pc = "sorting" /\ queue = <<>> /\ Complete
  /\ pc' = "done"
  /\ UNCHANGED <<order, inputs, strict, inDegree, queue, sorted>>

\* Return, after appending what is left in definition order.
Return ==
  /\ pc = "sorting" /\ queue = <<>>
  /\ Complete \/ ~strict
  /\ \E rest \in Arrangements(Nodes \ Elements(sorted), ByDefinition) :
        sorted' = sorted \o rest
  /\ pc' = "done"
  /\ UNCHANGED <<order, inputs, strict, inDegree, queue>>

Next == Pop \/ Raise \/ Return

Spec == Init /\ [][Next]_vars

\* The loop runs to its end.
FairSpec == Spec /\ WF_vars(Next)

-----------------------------------------------------------------------------
(* Properties                                                              *)

\* Every node of S waits for one of S: S holds a cycle, or is fed by one inside it.
Knotted(S) == \A v \in S : Upstream(v) \cap S # {}

\* A node is put before a node it takes an input from only if a cycle feeds it.
DependenciesFirst ==
  \A i \in DOMAIN sorted :
    \/ Upstream(sorted[i]) \subseteq {sorted[j] : j \in 1..(i - 1)}
    \/ \E S \in SUBSET Nodes : sorted[i] \in S /\ Knotted(S)

\* What is returned is every node of the graph, once.
ReturnsEveryNode ==
  pc = "done" =>
    /\ Elements(sorted) = Nodes
    /\ \A i, j \in DOMAIN sorted : sorted[i] = sorted[j] => i = j

\* strict raises exactly on graphs with a cycle.
StrictFindsCycles ==
  pc # "sorting" /\ strict =>
    (pc = "raised") = (\E S \in SUBSET Nodes : S # {} /\ Knotted(S))

\* The loop ends: the worklist never refills for ever.
Terminates == <>(pc # "sorting")
=============================================================================
