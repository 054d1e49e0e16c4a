------------------------ MODULE CommonSubexpressions ------------------------
(***************************************************************************)
(* eliminate_common_subexpressions (transforms.py), on the graph that      *)
(* eliminate_dead_nodes returned: the order in which the documentation     *)
(* runs the two.  A step is one turn of the loop over the sorted nodes.    *)
(*                                                                         *)
(*   todo    the ids still to be looked at, producers first                *)
(*   alias   alias_map: the name to read instead of one that is gone       *)
(*   merged  surviving_nodes, and the inputs each of them got              *)
(*                                                                         *)
(* sig_map has no variable: it files each surviving node without effects   *)
(* under its operation and inputs, and merged holds both.                  *)
(***************************************************************************)
EXTENDS DeadNodes

VARIABLES todo, alias, merged

mergeVars == <<todo, alias, merged>>

\* The orders in which topological_sort may return the nodes: producers first,
\* then in table order the nodes left over, which wait for each other.
Orders(g) ==
  {s \in SetToSeqs(Ids(g)) : \E k \in 0..Len(s) :
     LET From(i) == {s[j] : j \in i..Len(s)}
         ids == [i \in DOMAIN g.items |-> IdOf[g.items[i]]]
     IN  /\ \A i \in 1..k : ~WaitsIn(g, s[i], From(i))
         /\ \A j \in From(k + 1) : WaitsIn(g, j, From(k + 1))
         /\ SubSeq(s, k + 1, Len(s)) = SelectSeq(ids, LAMBDA j : j \in From(k + 1))}

\* alias_map.get(name, name)
Renamed(nm) == IF nm \in DOMAIN alias THEN alias[nm] ELSE nm

RenamedAll(names) == [i \in DOMAIN names |-> Renamed(names[i])]

\* Mutant of Mergeable: sources are merged like other nodes.
MergeableSources(n) == n \notin Effectful

\* not has_effect
Mergeable(n) == n \notin Effectful \cup Source

\* Mutant of Alike: inputs are compared as they were before the pass.
AlikeBefore(k) ==
  {n \in ToSet(merged.items) :
     /\ Mergeable(NodeAt(result, k)) /\ Mergeable(n)
     /\ Op[n] = Op[NodeAt(result, k)]
     /\ result.inputs[IdOf[n]] = result.inputs[k]}

\* The node filed in sig_map under the signature of k, if there is one.
Alike(k) ==
  {n \in ToSet(merged.items) :
     /\ Mergeable(NodeAt(result, k)) /\ Mergeable(n)
     /\ Op[n] = Op[NodeAt(result, k)]
     /\ merged.inputs[IdOf[n]] = RenamedAll(result.inputs[k])}

\* The positions in n's list of outputs that nm is written for: it is listed
\* there, or it is the token for the port.
PortsNamed(n, nm) ==
  {i \in DOMAIN Outputs[n] :
     Outputs[n][i] = nm \/ (nm \in DOMAIN Token /\ Token[nm] = [id |-> IdOf[n], idx |-> i - 1])}

\* Mutant of Spellings: the tokens are forgotten.
SpellingsListed(n) == {IdOf[n]} \cup ToSet(Outputs[n])

\* The names of n that get an alias: its id, its listed outputs and their tokens.
Spellings(n) == {IdOf[n]} \cup {nm \in Name : PortsNamed(n, nm) # {}}

\* The alias of one of them, when n is merged into canonical.  A name written for
\* several ports keeps what is written last.
AliasFor(nm, n, canonical) ==
  IF PortsNamed(n, nm) = {} THEN IdOf[canonical]
  ELSE OutputName(canonical, Max(PortsNamed(n, nm)) - 1)

MergeInit == todo = <<>> /\ alias = [nm \in {} |-> None] /\ merged = [items |-> <<>>, inputs |-> <<>>]

\* topological_sort
Sort ==
  /\ pc = "swept"
  /\ todo' \in Orders(result)
  /\ pc' = "merging"
  /\ UNCHANGED <<graph, live, queue, result, alias, merged>>

\* sig in sig_map: the node goes, and its names lead to the other.
Merge ==
  /\ pc = "merging" /\ todo # <<>>
  /\ LET n == NodeAt(result, Head(todo))
     IN  \E canonical \in Alike(Head(todo)) :
           alias' = [nm \in DOMAIN alias \cup Spellings(n) |->
                       IF nm \in Spellings(n) THEN AliasFor(nm, n, canonical) ELSE alias[nm]]
  /\ todo' = Tail(todo)
  /\ UNCHANGED <<graph, live, queue, result, pc, merged>>

\* The node stays, reading the names that are left.
Keep ==
  /\ pc = "merging" /\ todo # <<>> /\ Alike(Head(todo)) = {}
  /\ LET k == Head(todo)
     IN  merged' = [items  |-> Append(merged.items, NodeAt(result, k)),
                    inputs |-> [j \in DOMAIN merged.inputs \cup {k} |->
                                  IF j = k THEN RenamedAll(result.inputs[k])
                                  ELSE merged.inputs[j]]]
  /\ todo' = Tail(todo)
  /\ UNCHANGED <<graph, live, queue, result, pc, alias>>

\* The graph of the surviving nodes.  Its edges repeat their inputs.
Return ==
  /\ pc = "merging" /\ todo = <<>>
  /\ result' = [items |-> merged.items, inputs |-> merged.inputs,
                outputs |-> RenamedAll(result.outputs)]
  /\ pc' = "merged"
  /\ UNCHANGED <<graph, live, queue, todo, alias, merged>>

MergeNext == Sort \/ Merge \/ Keep \/ Return
=============================================================================
