----------------------------- MODULE GraphFiles -----------------------------
(***************************************************************************)
(* A graph is built, saved as a file and read back by the incremental      *)
(* reader, or a file of another writer is read: StreamReader with the      *)
(* documents of GraphDocuments for its values.                             *)
(***************************************************************************)
EXTENDS GraphDocuments, StreamReader

CONSTANTS
  NewGraphs,    \* the graphs the constructor makes
  LateNodes,    \* the nodes add_node is called with
  MaxNodes      \* bound on the nodes of a graph that is built

VARIABLE graph  \* the graph being built

vars == <<graph, readerVars>>

-----------------------------------------------------------------------------
(* What the reader is given.                                               *)

Fraction == Atom("1.5")
Accented == Atom("an accented name")
Spelled(v) ==
  CASE Is(v, "dict") -> [parts |-> 5, kind |-> "closed"]
    [] v = Fraction -> [parts |-> 3, kind |-> "fraction"]
    [] v = Accented -> [parts |-> 4, kind |-> "accented"]
    [] v = Null -> [parts |-> 2, kind |-> "scalar"]
    [] OTHER -> [parts |-> 2, kind |-> "closed"]

\* nodes[str(nid)] = _parse_node_dict(ndata) for each member, and _build_graph_from_parsed_sections
BuildFrom(members, others) ==
  BuildGraph(FoldLeft(LAMBDA ns, m : Filed(ns, m.key, ParseNode(m.value)), <<>>, members), others)

KeyOrder == <<"edges", "initializers", "input_specs", "inputs", "mesh", "name", "nodes", "outputs">>

\* _stream_write_graph: the entries of to_dict sorted, through json.dumps.
Written(g) ==
  LET d == Jsonified(GraphDict(g)).dict
      members == SelectSeq(IdOrder, LAMBDA k : k \in DOMAIN d["nodes"].dict)
      Value(k) == IF k = "nodes" THEN Section(Each(members, LAMBDA n : [key |-> n, value |-> d[k].dict[n]])) ELSE d[k]
  IN  Each(KeyOrder, LAMBDA k : [key |-> k, value |-> Value(k)])

\* A graph with its nodes in the order of its file
Sorted(g) ==
  LET keys == SelectSeq(IdOrder, LAMBDA k : k \in Keys(g.nodes))
  IN  [g EXCEPT !.nodes = Each(keys, LAMBDA k : g.nodes[At(g.nodes, k)])]

-----------------------------------------------------------------------------
(* Building.                                                               *)

Init == graph \in NewGraphs /\ ReaderInit

\* add_node
AddNode(node) ==
  /\ awaits = "nothing" /\ Len(graph.nodes) < MaxNodes
  /\ graph' = [graph EXCEPT !.nodes = Filed(@, node.id, node)]
  /\ UNCHANGED readerVars

\* to_stream, to_file, to_json, and the stream that is read
Save == Begin(Written(graph), 0) /\ UNCHANGED graph

\* A file of another writer, which may have lost its end
Find(es) == graph' = None /\ \E lost \in {0, 1, 4} : Begin(es, lost)

Loading == Load /\ UNCHANGED graph

Next ==
  \/ \E node \in LateNodes : AddNode(node)
  \/ Save
  \/ \E es \in File : Find(es)
  \/ Loading

\* The reader is one call: once begun, it takes its steps.
Spec == Init /\ [][Next]_vars /\ WF_vars(Loading)

-----------------------------------------------------------------------------
(* Properties.                                                             *)

\* Values that JSON keeps: neither tuples nor objects of other classes
RECURSIVE IsPlain(_)
IsPlain(v) ==
  CASE Is(v, "atom") -> TRUE
    [] Is(v, "list") -> \A i \in DOMAIN v.list : IsPlain(v.list[i])
    [] Is(v, "dict") -> \A k \in DOMAIN v.dict : IsPlain(v.dict[k])
    [] OTHER -> FALSE

\* Every Input node has its input listed, and its spec; building a graph sees to it,
\* add_node does not.
InputsListed(g) ==
  \A i \in DOMAIN g.nodes : DetectInput(g, g.nodes[i]) = g

IsWritable(shape) == \A d \in DOMAIN shape : ~Is(shape[d], "other")

RECURSIVE IsFaithful(_)
IsFaithful(g) ==
  /\ InputsListed(g)
  /\ \A k \in DOMAIN g.specs : IsWritable(g.specs[k].shape)
  /\ \A k \in DOMAIN g.inits : g.inits[k] # Null /\ IsPlain(g.inits[k])
  /\ \A i \in DOMAIN g.nodes :
       LET node == g.nodes[i].node IN
       /\ \A k \in DOMAIN node.attrs : IsPlain(node.attrs[k])
       /\ node.shape = None \/ IsWritable(node.shape)
       /\ \A o \in DOMAIN node.specs : IsWritable(node.specs[o].shape)
       /\ \A k \in DOMAIN node.subgraphs :
            LET v == node.subgraphs[k]
            IN  IF Is(v, "graph") THEN IsFaithful(v.graph) /\ v.graph = Sorted(v.graph)
                ELSE IsPlain(v) /\ (Is(v, "dict") => DOMAIN v.dict \cap {"nodes", "name"} = {})

(***************************************************************************)
(* A graph of plain values whose inputs are listed comes back from its     *)
(* file as it was, but for the order of its nodes: to_file, to_stream and  *)
(* from_file, through subgraphs, shardings, specs and names.  What is      *)
(* saved is always a file.                                                 *)
(***************************************************************************)
SavedGraphIsLoaded ==
  /\ IsFile(entries)
  /\ awaits = "done" /\ graph # None => (IsFaithful(graph) => result = Sorted(graph))

(***************************************************************************)
(* Whatever was read, saving it, reading it again and cloning it change    *)
(* nothing more: what JSON cannot keep is lost once (to_dict, from_dict,   *)
(* _coerce_attribute_value, clone).                                        *)
(***************************************************************************)
LoadedGraphIsSettled ==
  awaits = "done" =>
    /\ Loaded(Written(result)) = Sorted(result)
    /\ Clone(result) = result
=============================================================================
