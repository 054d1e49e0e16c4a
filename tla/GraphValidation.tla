--------------------------- MODULE GraphValidation ---------------------------
(***************************************************************************)
(* Validator (validation/schema_validator.py): what it reports of a node   *)
(* and of a graph, with the rules of hardware.py, distributed.py and       *)
(* quantization.py, and the defaults it gives to attributes on the way;    *)
(* and a graph that is built node by node and validated in between.        *)
(*                                                                         *)
(* A registry is a function from operators to schemas; a schema has its    *)
(* domain and, for each attribute, [type, required, default].              *)
(***************************************************************************)
EXTENDS DistributedRules, HardwareRules

CONSTANTS
  Onnx,        \* self.registry
  Registry,    \* _get_domain_registry, for the domains that have one
  Dialect,     \* CORE_MLIR_DIALECTS: the number of operands of each operation
  IsaAllowed,  \* _ISA_ALLOWED_ATTRIBUTES
  Primitive,   \* the instructions of a domain without a schema
  Ungrounded,  \* what the grounding validator reports; {} without one
  Family,      \* sets of nodes that make up a graph, their ids still open
  NodeId,      \* the ids, in order
  Inputs,      \* graph.inputs and graph.initializers
  Mesh         \* graph.mesh

Levels == {"STRICT", "WARNING", "LENIENT"}

Empty == [x \in {} |-> None]
At(f, x) == IF x \in DOMAIN f THEN f[x] ELSE Empty
Listed(f, x) == IF x \in DOMAIN f THEN f[x] ELSE {}

AdDomains == {"ad", "ml.switcheroo.ad"}
TangentSchema == [domain |-> "ad", attrs |-> Empty]

\* _get_schema
SchemaOf(node) ==
  LET here == At(Registry, node.domain)
      Onnxs == IF node.op \in DOMAIN Onnx THEN Onnx[node.op] ELSE None
      Heres == IF node.op \in DOMAIN here THEN here[node.op] ELSE None
  IN  CASE node.domain \in {"ml.switcheroo.custom", "stablehlo"} ->
             IF Onnxs # None /\ Onnxs.domain = node.domain THEN Onnxs ELSE Heres
        [] node.domain \in AdDomains /\ node.op \in {"ZeroTangent", "NoTangent"} -> TangentSchema
        [] OTHER -> IF node.domain # "ai.onnx" /\ Heres # None THEN Heres ELSE Onnxs

AttributesOf(node) == IF SchemaOf(node) = None THEN Empty ELSE SchemaOf(node).attrs

-----------------------------------------------------------------------------
(* One node.                                                               *)

\* validate_kind, _validate_secondary_domain_kind and _validate_core_mlir_dialect
KindReports(node, level) ==
  LET known == node.op \in DOMAIN Onnx
      severity == IF node.domain = "ml.switcheroo.custom" /\ level # "STRICT" THEN "WARNING" ELSE "ERROR"
      dialect == At(Dialect, node.domain)
  IN  IF node.op \in {"Input", "Output"} THEN {}
      ELSE
      CASE node.domain = "ai.onnx" -> If(~known, Report(node, "kind", "ERROR"))
        [] node.domain \in AdDomains -> If(node.op \notin {"ZeroTangent", "NoTangent"}, Report(node, "kind", "ERROR"))
        [] node.domain \in DOMAIN Registry ->
             If(node.op \notin DOMAIN Registry[node.domain] \cup Listed(Primitive, node.domain) /\ ~known,
                Report(node, "kind", severity))
        [] node.domain \in DOMAIN Dialect ->
             IF node.op \notin DOMAIN dialect THEN If(~known, Report(node, "kind", "ERROR"))
             ELSE If(Len(node.inputs) < dialect[node.op], Report(node, "inputs", "ERROR"))
        [] OTHER -> If(node.domain \notin {"ai.custom", "custom"} /\ ~known, Report(node, "domain", "ERROR"))

\* validate_required_attributes
RequiredReports(node) ==
  {Report(node, a, "ERROR") :
     a \in {b \in DOMAIN AttributesOf(node) : AttributesOf(node)[b].required /\ b \notin DOMAIN node.attrs}}

\* validate_attribute_types
TypeReports(node, level) ==
  LET known == DOMAIN AttributesOf(node)
      Of(a) == IF a \in known
               THEN If(~HasType(node.attrs[a], AttributesOf(node)[a].type), Report(node, a, "ERROR"))
               ELSE If(a \notin Listed(IsaAllowed, node.domain), Report(node, a, Advice(level)))
  IN  IF SchemaOf(node) = None THEN {} ELSE UNION {Of(a) : a \in DOMAIN node.attrs}

\* PopulateDefaults, but also where the attribute is given.
PopulateOver(node) ==
  LET given == {a \in DOMAIN AttributesOf(node) : AttributesOf(node)[a].default # None}
  IN  [node EXCEPT !.attrs = [a \in DOMAIN @ \cup given |->
                                IF a \in given THEN AttributesOf(node)[a].default ELSE @[a]]]

\* populate_defaults
PopulateDefaults(node) ==
  LET schema == AttributesOf(node)
      missing == {a \in DOMAIN schema :
                    ~schema[a].required /\ schema[a].default # None /\ a \notin DOMAIN node.attrs}
  IN  [node EXCEPT !.attrs = [a \in DOMAIN @ \cup missing |-> IF a \in missing THEN schema[a].default ELSE @[a]]]

\* _filter_by_level
Filtered(reports, level) == IF level = "LENIENT" THEN Fatal(reports) ELSE reports

\* validate_node, before it populates defaults
NodeReports(node, mesh, level) ==
  Filtered(
    KindReports(node, level) \cup RequiredReports(node) \cup TypeReports(node, level)
      \cup ShardingReports(node, mesh) \cup IsaReports(node, level) \cup QuantizationReports(node)
      \cup If(level = "STRICT" /\ node.shape = None /\ node.op # "NoTangent",
              Report(node, "shape_metadata", "ERROR"))
      \cup If(level # "LENIENT" /\ node.op \in Ungrounded, Report(node, "grounding", Advice(level))),
    level)

-----------------------------------------------------------------------------
(* A graph.                                                                *)

\* Nothing goes by the name: no node, no graph input, no initializer.
IsDangling(graph, inputs, name) == ProducerOf(graph, name) = None /\ name \notin inputs

\* The name stands for a port that its node, which has several, does not have.
IsOutOfBounds(graph, name) ==
  LET producer == ProducerOf(graph, name)
  IN  /\ producer # None /\ PortCount(producer) # None
      /\ ~(0 <= PortIndex(graph, name) /\ PortIndex(graph, name) < PortCount(producer))

\* validate_edges: the inputs, and the edges derived from them
EdgeReports(graph, inputs) ==
  UNION {If(\E name \in ToSet(graph[i].inputs) : IsDangling(graph, inputs, name),
            Report(graph[i], "inputs", "ERROR"))
           \cup If(\E name \in ToSet(graph[i].inputs) : IsOutOfBounds(graph, name),
                   Report(graph[i], "edges", "ERROR")) : i \in DOMAIN graph}

\* The nodes with their defaults, if those are asked for.
Populated(graph, populate) ==
  IF populate THEN [i \in DOMAIN graph |-> PopulateDefaults(graph[i])] ELSE graph

\* validate_graph: the nodes are validated, and then the graph of the nodes with their defaults.
GraphReports(graph, inputs, mesh, level, populate) ==
  LET populated == Populated(graph, populate)
  IN  Filtered(
        (UNION {NodeReports(graph[i], mesh, level) : i \in DOMAIN graph})
          \cup EdgeReports(populated, inputs)
          \cup ScoreboardReports(populated, level)
          \cup PropagationReports(populated, mesh, level)
          \cup PipelineReports(populated),
        level)

-----------------------------------------------------------------------------
(* What is assumed of nodes and of the tables of schemas.                  *)

\* The attributes that the rules look up in nodes of any operator.
ReadOfAny ==
  {"wavefront_size", "register_classes", "vgpr_operands", "barrier_predicate", "warp_sync", "memory_space",
   "stall_count", "stall", "yield_flag", "yield", "read_barrier", "write_barrier", "wait_barrier_mask", "dst_reg",
   "dst", "src_regs", "srcs", "workgroup_size", "address_space", "builtin", "struct_alignment", "alignment",
   "array_stride", "axes", "activation_checkpoint", "checkpoint_policy", "pipeline_stage", "stage_id"}

\* Those they look up for one operator.
ReadOf(op) ==
  CASE PlainOp(op) = "block_quantize" -> {"block_size"}
    [] PlainOp(op) = "dequantize_grouped_int4" -> {"group_size", "packing_format", "scales_shape"}
    [] PlainOp(op) = "all_reduce" -> {"reduction", "op", "axis", "mesh_axis"}
    [] PlainOp(op) \in {"all_gather", "reduce_scatter"} -> {"axis", "mesh_axis", "gather_dim", "scatter_dim"}
    [] PlainOp(op) = "all_to_all" -> {"split_axis", "split_dim", "concat_axis", "concat_dim"}
    [] OTHER -> {}

Flags == {"transA", "transB", "is_mutating", "pipeline_boundary"}

\* A default that makes no difference to the rules: they do not look it up, or do
\* without the attribute what they do with the default.
IsFallback(op, a, default) ==
  /\ a \notin ReadOfAny \cup ReadOf(op)
  /\ a \in Flags => ~Truthy(default)
  /\ PlainOp(op) = "block_quantize" /\ a = "axis" => default = IntValue(-1)
  /\ PlainOp(op) = "dequantize_grouped_int4" /\ a = "axis" => default = IntValue(0)

\* The schemas by operator give such defaults, of the type they declare.
GivesFallbacks(schemas) ==
  \A op \in DOMAIN schemas : \A a \in DOMAIN schemas[op].attrs :
    LET attr == schemas[op].attrs[a]
    IN  ~attr.required /\ attr.default # None =>
          HasType(attr.default, attr.type) /\ IsFallback(op, a, attr.default)

\* So do CUSTOM_OPS_REGISTRY and the tables written out in framework_registries.py.
ASSUME SchemaAssumption ==
  GivesFallbacks(Onnx) /\ \A domain \in DOMAIN Registry : GivesFallbacks(Registry[domain])

\* A node has its fields, and is never taken for the absence of one.
Fields == {"id", "op", "domain", "inputs", "outputs", "specs", "attrs", "shape", "sharding"}
IsNode(node) == Fields \subseteq DOMAIN node /\ None \notin {node, PopulateDefaults(node)}

ASSUME NodeAssumption ==
  /\ NodeId \in Seq(ToSet(NodeId))
  /\ \A nodes \in Family : \A node \in nodes : \A id \in ToSet(NodeId) : IsNode([node EXCEPT !.id = id])

-----------------------------------------------------------------------------
(* A graph that grows and is validated.                                    *)

VARIABLES
  graph,    \* the nodes, each under the id of its place
  family,   \* the kind of nodes this graph is built of
  level,    \* the level of the validator
  reports   \* what the last validation reported; None since a change

vars == <<graph, family, level, reports>>

Init == graph = <<>> /\ family \in Family /\ level \in Levels /\ reports = None

AddNode(node) ==
  /\ Len(graph) < Len(NodeId)
  /\ graph' = Append(graph, [node EXCEPT !.id = NodeId[Len(graph) + 1]])
  /\ reports' = None
  /\ UNCHANGED <<family, level>>

\* validate of a graph, without raise_on_error
Validate(populate) ==
  /\ graph # <<>> /\ reports = None
  /\ reports' = GraphReports(graph, Inputs, Mesh, level, populate)
  /\ graph' = Populated(graph, populate)
  /\ UNCHANGED <<family, level>>

Next == (\E node \in family : AddNode(node)) \/ (\E populate \in BOOLEAN : Validate(populate))

Spec == Init /\ [][Next]_vars

-----------------------------------------------------------------------------
(* Properties                                                              *)

\* Whether defaults are given, and given twice, makes no difference to what is
\* reported; in any later validation either.
ReportsIgnoreDefaults ==
  reports # None => \A populate \in BOOLEAN : GraphReports(graph, Inputs, Mesh, level, populate) = reports

\* The cycles that have gone by when the first k nodes have been issued.
CyclesAfter(nodes) ==
  LET cycles[k \in 0 .. Len(nodes)] ==
        IF k = 0 THEN 0
        ELSE IF IsSass(nodes[k]) THEN cycles[k - 1] + StallOf(nodes[k]) ELSE cycles[k - 1]
  IN  cycles

\* The scoreboard, written for the sequence as a whole: an instruction is flagged
\* exactly if the last write to one of its sources may still be under way, neither
\* waited out by stalls nor waited for by its barrier.  A stall that is not a
\* natural number, which SassReports complains of, voids the count.
Writers(r, i) == {w \in 1 .. i - 1 : IsSass(graph[w]) /\ r \in SassRegisters(graph[w], "dst")}
StillWriting(w, i) ==
  /\ CyclesAfter(graph)[i - 1] - CyclesAfter(graph)[w - 1] < LatencyOf(graph[w])
  /\ \A k \in w + 1 .. i : IsSass(graph[k]) => BarrierOf(graph[w]) \notin WaitedBarriers(graph[k])
ReadsUnfinished(i) ==
  \E r \in SassRegisters(graph[i], "src") : \E w \in Writers(r, i) :
    (\A v \in Writers(r, i) : v <= w) /\ StillWriting(w, i)
ScoreboardFlagsUnfinishedReads ==
  (\A i \in DOMAIN graph : IsSass(graph[i]) => StallOf(graph[i]) \in Nat) =>
    {r.node : r \in ScoreboardReports(graph, level)}
      = {graph[i].id : i \in {j \in DOMAIN graph : IsSass(graph[j]) /\ ReadsUnfinished(j)}}

\* Two instructions that may be paired may be paired the other way round.
PairsAreMutual ==
  \A i, j \in DOMAIN graph :
    /\ i # j
    /\ \A k \in {i, j} : graph[k].op \in DOMAIN VopdSlot /\ VopdSlot[graph[k].op] = "BOTH"
    /\ VopdReports(graph[i], graph[j]) = {}
    => VopdReports(graph[j], graph[i]) = {}

Accepted == reports # None /\ Fatal(reports) = {}

\* In an accepted graph no stage depends on a later one, through any number of nodes
\* that have stages.
Staged == {n \in ToSet(graph) : IsInt(Stage(n))}
StagedProducers(node) ==
  {p \in Staged : \E name \in ToSet(node.inputs) : p = ProducerOf(graph, name) /\ p # None}
StagedBefore(node) ==
  LET closed == {S \in SUBSET Staged :
                   \A n \in S \cup {node} : StagedProducers(n) \subseteq S}
  IN  {p \in Staged : \A S \in closed : p \in S}
AcceptedStagesRunForward ==
  Accepted => \A n \in Staged : \A p \in StagedBefore(n) : Stage(p).int <= Stage(n).int

\* The elements of one dimension a device has: device gives its place on every axis.
ShardOf(axes, size, device) ==
  LET place == FoldLeft(LAMBDA acc, a : [at |-> acc.at * Mesh[a] + device[a], of |-> acc.of * Mesh[a]],
                        [at |-> 0, of |-> 1], axes)
  IN  <<(place.at * size) \div place.of, ((place.at + 1) * size) \div place.of>>

\* In an accepted graph, when both matrices of a product are split along the dimension
\* that is summed over, each device has the same stretch of it from both.
FullySharded(node) == node # None /\ node.sharding # None /\ IsShaped(node) /\ Len(node.sharding) = Len(node.shape)
ShardedMatrix(node) == FullySharded(node) /\ Len(node.shape) = 2
AcceptedProductsAlign ==
  Accepted =>
    \A n \in {graph[i] : i \in {j \in DOMAIN graph : graph[j].op = "Gemm" /\ ~(Len(graph[j].inputs) < 2)}} :
      LET a == ProducerOf(graph, n.inputs[1])
          b == ProducerOf(graph, n.inputs[2])
          ka == IF Truthy(Get(n, "transA")) THEN 1 ELSE 2
          kb == IF Truthy(Get(n, "transB")) THEN 2 ELSE 1
      IN  ShardedMatrix(a) /\ ShardedMatrix(b) =>
            None \in {a.sharding[ka], b.sharding[kb]} \/ a.shape[ka] # b.shape[kb]
              \/ \A device \in [DOMAIN Mesh -> 0 .. 1] :
                   ShardOf(a.sharding[ka], a.shape[ka], device) = ShardOf(b.sharding[kb], b.shape[kb], device)
=============================================================================
