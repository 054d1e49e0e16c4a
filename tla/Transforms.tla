----------------------------- MODULE Transforms -----------------------------
(***************************************************************************)
(* The two passes one after the other, as USAGE.md runs them, and what     *)
(* they promise together: the graph that comes out returns what the graph  *)
(* that went in returned, and acts as it acted.                            *)
(***************************************************************************)
EXTENDS CommonSubexpressions

vars == <<graph, live, queue, result, pc, todo, alias, merged>>

Init == SweepInit /\ MergeInit

Next ==
  \/ SweepNext /\ UNCHANGED mergeVars
  \/ MergeNext

Spec == Init /\ [][Next]_vars

\* Both passes are loops that run to their end.
FairSpec == Spec /\ WF_vars(Next)

TypeOK ==
  /\ graph \in Graph /\ IsGraph(result)
  /\ live \subseteq Ids(graph) /\ ToSet(queue) \subseteq live
  /\ pc \in {"sweeping", "swept", "merging", "merged"}
  /\ ToSet(todo) \cap Keys(merged.items) = {}
  /\ pc = "merging" => ToSet(todo) \subseteq Ids(result)
  /\ Keys(merged.items) \subseteq live
  /\ \A nm \in DOMAIN alias : \E n \in ToSet(merged.items) :
       alias[nm] \in {IdOf[n]} \cup ToSet(Outputs[n]) \cup {t \in DOMAIN Token : Token[t].id = IdOf[n]}

-----------------------------------------------------------------------------
(* Properties                                                              *)

Reads(g) == ToSet(g.outputs) \cup UNION {ToSet(g.inputs[k]) : k \in Ids(g)}

\* No nodes of those that are kept wait for each other.
Acyclic == ~\E S \in SUBSET live : S # {} /\ \A k \in S : WaitsIn(graph, k, S)

\* Every name that a node lists for a port, and every token, stands for that port:
\* no two ports have a name in common.
NamesAreUnambiguous ==
  /\ \A n \in ToSet(graph.items) : \A i \in DOMAIN Outputs[n] : Resolve(graph, Outputs[n][i]) = <<n, i - 1>>
  /\ \A t \in DOMAIN Token :
       Token[t].id \in Ids(graph) => Resolve(graph, t) = <<NodeAt(graph, Token[t].id), Token[t].idx>>

\* No name is a token for a port beyond those its node lists.
PortsAreListed ==
  \A nm \in Reads(graph) :
    LET port == PortOf(graph, nm)
    IN  nm \notin Ids(graph) /\ port # None => port[2] + 1 \in DOMAIN Outputs[port[1]]

\* Every output is made by a node: eliminate_dead_nodes returns no other (transforms.py:258).
OutputsAreMade == \A nm \in ToSet(graph.outputs) : Resolve(graph, nm) # None

\* The outputs are as many as they were and each has, at its place, the value it had.
SameOutputs ==
  [i \in DOMAIN result.outputs |-> Values(result)[result.outputs[i]]]
    = [i \in DOMAIN graph.outputs |-> Values(graph)[graph.outputs[i]]]

\* Merging away what a name led to leaves no output with another value, however
\* names lead to the node: by its id, a listed output, or a token for one.  Of
\* graphs that return an input or an initializer as it is, nothing is said.
OutputsKeepTheirValues ==
  pc = "merged" /\ Acyclic /\ NamesAreUnambiguous /\ PortsAreListed /\ OutputsAreMade => SameOutputs

\* Every node with an effect, and every source an output depends on, is there
\* still, once, and acts on the values it acted on.
EffectsKeepTheirArguments ==
  pc = "merged" /\ Acyclic /\ NamesAreUnambiguous /\ PortsAreListed =>
    \A n \in ToSet(graph.items) :
      n \in Effectful \/ (n \in Source /\ IdOf[n] \in live) =>
        LET k == IdOf[n]
        IN  /\ Cardinality({i \in DOMAIN result.items : result.items[i] = n}) = 1
            /\ Values(result)[k] = Values(graph)[k]

\* Where nodes are read by their ids and list no other output, no two of those that are left compute the
\* same value, not even by way of others that were merged.
NothingIsComputedTwice ==
  pc = "merged" /\ Acyclic /\ NamesAreUnambiguous
    /\ (\A nm \in Reads(graph) : Resolve(graph, nm) # None =>
          nm \in Ids(graph) /\ Outputs[NodeAt(graph, nm)] = <<nm>>) =>
    Cardinality({Values(result)[k] : k \in Ids(result)}) = Cardinality(Ids(result))
=============================================================================
