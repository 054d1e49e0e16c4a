--------------------------- MODULE GraphDocuments ---------------------------
(***************************************************************************)
(* What a LogicalGraph is written as and read from: to_dict and from_dict  *)
(* of graph.py with the conversions of serialization.py, and the JSON in   *)
(* between.                                                                *)
(*                                                                         *)
(* A Python value is a record of one field.  Its scalars are atoms; values *)
(* of other classes (SymNode, SymInt, bytes, TensorSpec) are other, known  *)
(* by the text they print as.  A document is a dict of values.  In a node, *)
(* misc stands for domain, version, device, stream and source_ast_ref; a   *)
(* TensorSpec has no sparsity.                                             *)
(***************************************************************************)
EXTENDS Integers, Sequences, SequencesExt, FiniteSets

CONSTANTS
  None,
  IdOrder,     \* the ids of nodes in the order sorted() gives them
  Dtype,       \* the DType that each name or alias of one stands for
  DefaultMisc  \* misc of a document without those fields

Atom(x) == [atom |-> x]
PyList(s) == [list |-> s]
PyTuple(s) == [tuple |-> s]
PyDict(f) == [dict |-> f]
Other(text) == [other |-> text]
Subgraph(g) == [graph |-> g]

Is(v, type) == DOMAIN v = {type}
IsItems(v) == Is(v, "list") \/ Is(v, "tuple")
Items(v) == IF Is(v, "list") THEN v.list ELSE v.tuple
Null == Atom(None)
Empty == [k \in {} |-> None]

Each(s, Convert(_)) == [i \in DOMAIN s |-> Convert(s[i])]
Strings(names) == PyList(Each(names, Atom))
Names(v) == [i \in DOMAIN Items(v) |-> Items(v)[i].atom]

\* data.get(key, default)
Field(d, key, default) == IF key \in DOMAIN d.dict THEN d.dict[key] ELSE default

-----------------------------------------------------------------------------
(* JSON: what json.loads gives of what json.dumps made of a value.         *)

RECURSIVE Jsonified(_)
Jsonified(v) ==
  CASE Is(v, "atom") -> v
    [] IsItems(v) -> PyList([i \in DOMAIN Items(v) |-> Jsonified(Items(v)[i])])
    [] Is(v, "dict") -> PyDict([k \in DOMAIN v.dict |-> Jsonified(v.dict[k])])
    [] Is(v, "other") -> Atom(v.other)

-----------------------------------------------------------------------------
(* Reading values.                                                         *)

\* _coerce_attribute_value
RECURSIVE CoerceAttribute(_)
CoerceAttribute(v) ==
  CASE Is(v, "dict") -> PyDict([k \in DOMAIN v.dict |-> CoerceAttribute(v.dict[k])])
    [] IsItems(v) -> PyList([i \in DOMAIN Items(v) |-> CoerceAttribute(Items(v)[i])])
    [] OTHER -> v

\* _coerce_initializer_value: what is none of its types, None included, becomes its text.
RECURSIVE CoerceInitializer(_)
CoerceInitializer(v) ==
  CASE v = Null -> Atom("None")
    [] Is(v, "dict") -> PyDict([k \in DOMAIN v.dict |-> CoerceInitializer(v.dict[k])])
    [] IsItems(v) -> PyList([i \in DOMAIN Items(v) |-> CoerceInitializer(Items(v)[i])])
    [] Is(v, "other") -> Atom(v.other)
    [] OTHER -> v

\* int(d) if isinstance(d, int) else str(d)
Dimension(v) == IF Is(v, "other") THEN Atom(v.other) ELSE v

\* The dimensions of a shape, or default if there are none.
ShapeOf(v, default) == IF IsItems(v) THEN Each(Items(v), Dimension) ELSE default

\* DType.from_str; a node may have no dtype.
DtypeOf(v) == IF v = Null THEN None ELSE Dtype[v.atom]

\* A TensorSpec from what is written of it
SpecOf(v) ==
  LET d == IF Is(v, "dict") THEN v ELSE PyDict(Empty)
  IN  [dtype |-> Dtype[Field(d, "dtype", Atom("float32")).atom], shape |-> ShapeOf(Field(d, "shape", PyTuple(<<>>)), <<>>)]

\* _normalize_partition_axis: lists become tuples, two levels down, and what is neither
\* a name, a number nor None becomes its text (_normalize_partition_axis_atom).
PartitionAxis(v) ==
  LET Leaf(a) == IF Is(a, "other") THEN Atom(a.other) ELSE a
      Inner(a) == IF IsItems(a) THEN PyTuple(Each(Items(a), Leaf)) ELSE Leaf(a)
  IN  IF IsItems(v) THEN PyTuple(Each(Items(v), Inner)) ELSE Leaf(v)

\* _parse_mesh_dict, without the signalling topology.
ParseMesh(v) ==
  IF ~Is(v, "dict") THEN None
  ELSE IF v.dict = Empty THEN None
  ELSE LET shape == Field(v, "shape", PyDict(Empty)) IN IF Is(shape, "dict") THEN shape.dict ELSE Empty

\* _parse_input_specs_dict; what is not a dict is passed over.
ParseInputSpecs(v) ==
  IF ~Is(v, "dict") THEN Empty
  ELSE [k \in {k \in DOMAIN v.dict : Is(v.dict[k], "dict")} |-> SpecOf(v.dict[k])]

-----------------------------------------------------------------------------
(* Making a graph.  Its nodes are a sequence of [key, node].               *)

Keys(nodes) == {nodes[i].key : i \in DOMAIN nodes}
At(nodes, key) == SelectInSeq(nodes, LAMBDA e : e.key = key)

\* nodes[key] = node
Filed(nodes, key, node) ==
  IF key \in Keys(nodes) THEN [nodes EXCEPT ![At(nodes, key)].node = node]
  ELSE Append(nodes, [key |-> key, node |-> node])

\* The name an Input node gives its input
InputName(entry) == Field(PyDict(entry.node.attrs), "name", Atom(entry.key)).atom

\* The specs with the one an Input node has for its input, if it has any and none is there
WithSpec(specs, entry) ==
  LET name == InputName(entry)
      node == entry.node
      spec == [dtype |-> IF node.dtype = None THEN "float32" ELSE node.dtype,
               shape |-> IF node.shape = None THEN <<>> ELSE node.shape]
  IN  IF (node.dtype = None /\ node.shape = None) \/ name \in DOMAIN specs THEN specs
      ELSE [k \in DOMAIN specs \cup {name} |-> IF k = name THEN spec ELSE specs[k]]

\* Mutant of DetectInput: an input that is listed is listed again.
DetectInputAgain(g, entry) ==
  IF entry.node.op # "Input" THEN g
  ELSE [g EXCEPT !.inputs = Append(@, InputName(entry)), !.specs = WithSpec(@, entry)]

\* _auto_detect_input_pseudo_nodes, one node
DetectInput(g, entry) ==
  IF entry.node.op # "Input" THEN g
  ELSE [g EXCEPT !.inputs = IF Contains(@, InputName(entry)) THEN @ ELSE Append(@, InputName(entry)),
                 !.specs = WithSpec(@, entry)]

\* _infer_graph_outputs: what nothing consumes, unless there are Output nodes to name it.
InferOutputs(nodes) ==
  LET consumed == UNION {ToSet(nodes[i].node.inputs) : i \in DOMAIN nodes}
      Missing(outs, names) == SelectSeq(names, LAMBDA n : ~Contains(outs, n))
      Step(outs, e) ==
        IF e.node.op = "Output" THEN FoldLeft(LAMBDA o, n : o \o Missing(o, <<n>>), outs, e.node.inputs)
        ELSE IF ({e.key} \cup ToSet(e.node.outputs)) \cap consumed = {} THEN Append(outs, e.key)
        ELSE outs
  IN  FoldLeft(Step, <<>>, nodes)

\* LogicalGraph(...); outputs is None where they are to be inferred.
Graph(name, nodes, inputs, specs, outputs, inits, mesh) ==
  FoldLeft(DetectInput,
           [name |-> name, nodes |-> nodes, inputs |-> inputs, specs |-> specs, inits |-> inits, mesh |-> mesh,
            outputs |-> IF outputs = None THEN InferOutputs(nodes) ELSE outputs],
           nodes)

RECURSIVE Clone(_)

\* LogicalNode.clone without arguments: subgraphs that are graphs are made anew.
CloneNode(node) ==
  LET Copy(v) == IF Is(v, "graph") THEN Subgraph(Clone(v.graph)) ELSE v
  IN  [node EXCEPT !.subgraphs = [k \in DOMAIN @ |-> Copy(@[k])]]

\* LogicalGraph.clone
Clone(g) ==
  Graph(g.name, Each(g.nodes, LAMBDA e : [e EXCEPT !.node = CloneNode(@)]),
        g.inputs, g.specs, g.outputs, g.inits, g.mesh)

-----------------------------------------------------------------------------
(* Edges, of graphs without value names and references to ports.           *)

\* The index a name has among the outputs of the node that is last to list it.
OutputIndex(nodes, name) ==
  LET lists == SelectSeq(nodes, LAMBDA e : Contains(e.node.outputs, name))
      outputs == Last(lists).node.outputs
  IN  IF lists = <<>> THEN 0 ELSE SelectLastInSeq(outputs, LAMBDA o : o = name) - 1

EdgeDict(source, sourceIdx, target, targetIdx) ==
  PyDict([source |-> Atom(source), source_idx |-> Atom(sourceIdx), target |-> Atom(target), target_idx |-> Atom(targetIdx)])

\* The edges property, as to_dict lists it.
EdgeDicts(nodes) ==
  FlattenSeq(Each(nodes, LAMBDA e :
    [i \in DOMAIN e.node.inputs |->
       EdgeDict(e.node.inputs[i], OutputIndex(nodes, e.node.inputs[i]), e.node.id, i - 1)]))

\* One turn of _apply_edges_list, the inputs being kept.
ApplyEdge(done, d) ==
  LET nodes == done.nodes
      source == Field(d, "source", Atom("")).atom
      target == Field(d, "target", Atom("")).atom
      sourceIdx == Field(d, "source_idx", Atom(0)).atom
      targetIdx == Field(d, "target_idx", Atom(0)).atom
      Outs == nodes[At(nodes, source)].node.outputs
      name == IF source \in Keys(nodes) /\ sourceIdx # 0 THEN Outs[sourceIdx + 1] ELSE source
      port == <<target, targetIdx, name>>
      ins == nodes[At(nodes, target)].node.inputs
  IN  IF target \notin Keys(nodes) \/ port \in done.seen THEN done
      ELSE [seen |-> done.seen \cup {port},
            nodes |-> IF Contains(ins, name) /\ targetIdx < Len(ins) THEN nodes
                      ELSE [nodes EXCEPT ![At(nodes, target)].node.inputs = Append(@, name)]]

\* _apply_edges_list; what is not a dict is passed over.
ApplyEdges(nodes, v) ==
  IF ~Is(v, "list") THEN nodes
  ELSE FoldLeft(ApplyEdge, [nodes |-> nodes, seen |-> {}], SelectSeq(v.list, LAMBDA d : Is(d, "dict"))).nodes

-----------------------------------------------------------------------------
(* Documents.                                                              *)

RECURSIVE GraphDict(_)

SpecDict(spec) == PyDict([dtype |-> Atom(spec.dtype), shape |-> PyTuple(spec.shape)])

\* _serialize_node_dict
NodeDict(node) ==
  LET Written(v) == IF Is(v, "graph") THEN GraphDict(v.graph) ELSE v
  IN  PyDict([
        id |-> Atom(node.id), op_type |-> Atom(node.op), misc |-> node.misc, dtype |-> Atom(node.dtype),
        attributes |-> PyDict(node.attrs), inputs |-> Strings(node.inputs), outputs |-> Strings(node.outputs),
        shape_metadata |-> IF node.shape = None THEN Null ELSE PyTuple(node.shape),
        sharding |-> IF node.sharding = None THEN Null ELSE PyDict([axes |-> PyTuple(node.sharding)]),
        output_specs |-> PyList(Each(node.specs, SpecDict)),
        subgraphs |-> PyDict([k \in DOMAIN node.subgraphs |-> Written(node.subgraphs[k])])])

\* to_dict, with its nodes under nodes in a sequence of [key, node].
GraphDict(g) ==
  PyDict([
    edges |-> PyList(EdgeDicts(g.nodes)), initializers |-> PyDict(g.inits),
    input_specs |-> PyDict([k \in DOMAIN g.specs |-> SpecDict(g.specs[k])]),
    inputs |-> Strings(g.inputs), outputs |-> Strings(g.outputs), name |-> Atom(g.name),
    mesh |-> IF g.mesh = None THEN Null ELSE PyDict([shape |-> PyDict(g.mesh)]),
    nodes |-> PyDict([k \in Keys(g.nodes) |-> NodeDict(g.nodes[At(g.nodes, k)].node)])])

RECURSIVE FromDict(_)

\* _parse_subgraphs_from_node_dict: a dict that could be a graph is taken for one.
ParseSubgraphs(d) ==
  LET subs == Field(d, "subgraphs", Null)
      IsGraph(v) == Is(v, "dict") /\ DOMAIN v.dict \cap {"nodes", "name"} # {}
      Read(v) == IF IsGraph(v) THEN Subgraph(FromDict(v)) ELSE CoerceAttribute(v)
  IN  IF Is(subs, "dict") THEN [k \in DOMAIN subs.dict |-> Read(subs.dict[k])] ELSE Empty

\* Mutant of ParseNode: a node that lists no outputs is taken for one without the field.
ParseNodeFilling(d) ==
  LET outputs == Field(d, "outputs", Null)
      attrs == Field(d, "attributes", Null)
      inputs == Field(d, "inputs", Null)
      specs == Field(d, "output_specs", Null)
      sharding == Field(d, "sharding", Null)
      id == Field(d, "id", Atom("")).atom
  IN  [id |-> id, op |-> Field(d, "op_type", Atom("")).atom, misc |-> Field(d, "misc", DefaultMisc),
       dtype |-> DtypeOf(Field(d, "dtype", Null)),
       attrs |-> IF Is(attrs, "dict") THEN [k \in DOMAIN attrs.dict |-> CoerceAttribute(attrs.dict[k])] ELSE Empty,
       inputs |-> IF IsItems(inputs) THEN Names(inputs) ELSE <<>>,
       outputs |-> IF IsItems(outputs) /\ Items(outputs) # <<>> THEN Names(outputs) ELSE <<id>>,
       shape |-> ShapeOf(Field(d, "shape_metadata", Null), None),
       sharding |-> IF Is(sharding, "dict") THEN Each(Items(Field(sharding, "axes", PyTuple(<<>>))), PartitionAxis) ELSE None,
       specs |-> IF IsItems(specs) THEN Each(Items(specs), SpecOf) ELSE <<>>,
       subgraphs |-> ParseSubgraphs(d)]

\* _parse_node_dict
ParseNode(d) ==
  LET outputs == Field(d, "outputs", Null)
      attrs == Field(d, "attributes", Null)
      inputs == Field(d, "inputs", Null)
      specs == Field(d, "output_specs", Null)
      sharding == Field(d, "sharding", Null)
      id == Field(d, "id", Atom("")).atom
  IN  [id |-> id, op |-> Field(d, "op_type", Atom("")).atom, misc |-> Field(d, "misc", DefaultMisc),
       dtype |-> DtypeOf(Field(d, "dtype", Null)),
       attrs |-> IF Is(attrs, "dict") THEN [k \in DOMAIN attrs.dict |-> CoerceAttribute(attrs.dict[k])] ELSE Empty,
       inputs |-> IF IsItems(inputs) THEN Names(inputs) ELSE <<>>,
       outputs |-> IF IsItems(outputs) THEN Names(outputs) ELSE <<id>>,
       shape |-> ShapeOf(Field(d, "shape_metadata", Null), None),
       sharding |-> IF Is(sharding, "dict") THEN Each(Items(Field(sharding, "axes", PyTuple(<<>>))), PartitionAxis) ELSE None,
       specs |-> IF IsItems(specs) THEN Each(Items(specs), SpecOf) ELSE <<>>,
       subgraphs |-> ParseSubgraphs(d)]

\* A node without an id or an operator cannot be made.
IsNodeDict(d) == Is(d, "dict") /\ Atom("") \notin {Field(d, "id", Atom("")), Field(d, "op_type", Atom(""))}

\* _build_graph_from_parsed_sections
BuildGraph(nodes, meta) ==
  LET d == PyDict(meta)
      inits == Field(d, "initializers", Null)
      inputs == Field(d, "inputs", Null)
      outputs == Field(d, "outputs", Null)
  IN  Graph(Field(d, "name", Atom("Model")).atom,
            ApplyEdges(nodes, Field(d, "edges", Null)),
            IF IsItems(inputs) THEN Names(inputs) ELSE <<>>,
            ParseInputSpecs(Field(d, "input_specs", Null)),
            IF IsItems(outputs) THEN Names(outputs) ELSE None,
            IF Is(inits, "dict") THEN [k \in DOMAIN inits.dict |-> CoerceInitializer(inits.dict[k])] ELSE Empty,
            ParseMesh(Field(d, "mesh", Null)))

\* The nodes of a dict in the order of a document that was sorted; what is not a dict is passed over.
NodesInOrder(f) ==
  LET keys == SelectSeq(IdOrder, LAMBDA k : k \in DOMAIN f /\ Is(f[k], "dict"))
  IN  Each(keys, LAMBDA k : [key |-> k, node |-> ParseNode(f[k])])

\* from_dict
FromDict(d) == BuildGraph(NodesInOrder(Field(d, "nodes", PyDict(Empty)).dict), d.dict)
=============================================================================
