-------------------------- MODULE ShapePropagation --------------------------
(***************************************************************************)
(* propagate_shapes_and_constants (transforms.py): one action per node, in *)
(* topological order.                                                      *)
(*                                                                         *)
(*   nodes    the nodes made so far: shape_metadata, the shapes of         *)
(*            output_specs, and the value of a constant                    *)
(*   classes  the equalities the tracker of the propagation has accepted   *)
(*   calls    how each node was made: None for a graph input               *)
(*   phase    "propagating" until a rule raises or shapes are observed     *)
(***************************************************************************)
EXTENDS ShapeRules

CONSTANTS
  Input,     \* the nodes of the graph inputs and constants
  Call,      \* the nodes that may follow: operator, inputs, attributes, outputs
  MaxNodes,  \* bound on the nodes of the graph
  OpenInputs \* whether a node may read a shape with a size left open

VARIABLES nodes, classes, calls, phase

Node(shape, specs, value) == [shape |-> shape, specs |-> specs, value |-> value]

StartPropagation ==
  /\ nodes = Input /\ calls = [i \in DOMAIN Input |-> None]
  /\ classes = {} /\ phase = "propagating"

-----------------------------------------------------------------------------
(* The shape of a node.  An input is named by the id of its producer, by   *)
(* id:port, or by the name of one of the producer's outputs.               *)

ShapeById(ref) == IF ref.via = "id" THEN nodes[ref.node].shape ELSE None

\* _resolve_input_shape
ResolveInputShape(ref) ==
  LET producer == nodes[ref.node]
  IN  CASE ref.via = "id" -> producer.shape
        [] ref.via # "id" /\ ref.port < Len(producer.specs) -> producer.specs[ref.port + 1]
        [] ref.via = "port" /\ ref.port >= Len(producer.specs) -> producer.shape
        [] ref.via = "output" /\ ref.port >= Len(producer.specs) -> None

Has(call, name) == name \in DOMAIN call.attrs
Attr(call, name, default) == IF Has(call, name) THEN call.attrs[name] ELSE default

\* The axes attribute, the axis attribute, or the value of the second input.
AxesOf(call) ==
  IF Has(call, "axes") THEN call.attrs.axes
  ELSE IF Has(call, "axis") THEN <<call.attrs.axis>>
  ELSE IF Len(call.inputs) > 1 /\ call.inputs[2].via = "id" THEN nodes[call.inputs[2].node].value
  ELSE None

Shaped(shape) == Result(shape, classes)
Given(input, shape) == Shaped(IF input = None THEN None ELSE shape)

-----------------------------------------------------------------------------
(* Operators that need no more than their inputs' shapes.                  *)

Both(call) == {ResolveInputShape(call.inputs[1]), ResolveInputShape(call.inputs[2])}

\* _propagate_unary_op
UnaryShape(call) == Shaped(ResolveInputShape(call.inputs[1]))

\* _propagate_binary_op
BinaryShape(call) ==
  IF None \in Both(call) THEN Shaped(None)
  ELSE BroadcastShapes(ResolveInputShape(call.inputs[1]), ResolveInputShape(call.inputs[2]), classes, TRUE)

\* _propagate_matmul_op
ProductShape(call) ==
  Shaped(IF None \in Both(call) THEN None
         ELSE MatmulShape(ResolveInputShape(call.inputs[1]), ResolveInputShape(call.inputs[2])))

\* _propagate_shape_op: a vector as long as the input has dimensions
RankShape(call) ==
  LET input == ShapeById(call.inputs[1]) IN Given(input, <<Const(Len(input))>>)

\* _propagate_broadcast_in_dim_op
BroadcastInDimShape(call) == Shaped(call.attrs.shape)

\* _infer_node_shape
InferNodeShape(call) ==
  LET Plain(i) == IF i <= Len(call.inputs) THEN ShapeById(call.inputs[i]) ELSE None
      Anyhow(i) == ResolveInputShape(call.inputs[i])
      plain == [i \in DOMAIN call.inputs |-> Plain(i)]
  IN  CASE call.op = "Relu" -> UnaryShape(call)
        [] call.op = "Add" -> BinaryShape(call)
        [] call.op = "MatMul" -> ProductShape(call)
        [] call.op = "Gemm" ->
             GemmShape(Plain(1), Plain(2), Plain(3), Has(call, "transA"), Has(call, "transB"), classes)
        [] call.op = "Squeeze" -> Given(Plain(1), SqueezeShape(Plain(1), AxesOf(call)))
        [] call.op = "Unsqueeze" -> Given(Plain(1), UnsqueezeShape(Plain(1), AxesOf(call)))
        [] call.op = "Flatten" -> Given(Plain(1), FlattenShape(Plain(1), Attr(call, "axis", 1)))
        [] call.op = "Concat" ->
             Shaped(IF None \in ToSet(plain) THEN None ELSE ConcatShape(plain, Attr(call, "axis", 0)))
        [] call.op = "Split" ->
             Given(Anyhow(1), SplitShape(Anyhow(1), Attr(call, "axis", 0), Attr(call, "split", None),
                                      Attr(call, "num_outputs", call.outputs)))
        [] call.op = "Slice" -> Given(Plain(1), SliceShape(Plain(1), call.attrs.cuts))
        [] call.op = "Shape" -> RankShape(call)
        [] call.op = "Reshape" ->
             Given(Anyhow(1), ReshapeShape(Anyhow(1), call.attrs.shape, Has(call, "allowzero")))
        [] call.op = "Transpose" -> Given(Anyhow(1), TransposeShape(Anyhow(1), call.attrs.perm))
        [] call.op = "BroadcastInDim" -> BroadcastInDimShape(call)
        [] OTHER -> Shaped(None)

\* The specs a split with several outputs gets; its input must be named by id.
SplitSpecs(call, shape) ==
  LET input == ShapeById(call.inputs[1])
      at == NormalizeAxis(Attr(call, "axis", 0), Len(input))
  IN  IF call.op # "Split" \/ call.outputs <= 1 \/ None \in {input, shape} THEN <<>>
      ELSE IF Has(call, "split")
           THEN [i \in DOMAIN call.attrs.split |-> SetAxis(input, at, call.attrs.split[i])]
      ELSE [i \in 1 .. call.outputs |-> shape]

Outputs(node) == IF calls[node] = None THEN 1 ELSE calls[node].outputs

HasOpen(shape) == shape # None /\ Open \in ToSet(shape)

Propagate(call) ==
  /\ phase = "propagating" /\ Len(nodes) < MaxNodes
  /\ \A i \in DOMAIN call.inputs :
       /\ call.inputs[i].node \in DOMAIN nodes
       /\ call.inputs[i].port < Outputs(call.inputs[i].node)
       /\ OpenInputs \/ ~HasOpen(ResolveInputShape(call.inputs[i]))
  /\ \E inferred \in {InferNodeShape(call)} :
       LET shape == IF inferred.shape = None THEN call.declared ELSE inferred.shape
       IN  IF shape = Mismatch
           THEN phase' = "mismatch" /\ UNCHANGED <<nodes, classes, calls>>
           ELSE /\ nodes' = Append(nodes, Node(shape, SplitSpecs(call, shape), None))
                /\ classes' = inferred.classes
                /\ calls' = Append(calls, call)
                /\ UNCHANGED phase
=============================================================================
