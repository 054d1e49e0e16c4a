-------------------------- MODULE DistributedRules --------------------------
(***************************************************************************)
(* validation/distributed.py: sharding, collectives and pipeline stages.   *)
(*                                                                         *)
(* A PartitionSpec is the sequence of its elements; an element is None or  *)
(* the sequence of its mesh axes (a name and the tuple of it are one).     *)
(* The mesh is a function from axes to sizes, or None.                     *)
(***************************************************************************)
EXTENDS AttributeValues

\* _check_single_sharding_axis, whether it complains: of a tuple the axes are checked one by one.
BadAxis(node, mesh, axis, i) ==
  \/ axis \notin DOMAIN mesh
  \/ /\ node.shape # None /\ i <= Len(node.shape) /\ IsSize(node.shape[i])
     /\ mesh[axis] > 0 /\ node.shape[i] % mesh[axis] # 0

\* validate_sharding_node
ShardingReports(node, mesh) ==
  IF node.sharding = None THEN {}
  ELSE If(\/ mesh = None
          \/ IsShaped(node) /\ Len(node.sharding) > Len(node.shape)
          \/ \E i \in DOMAIN node.sharding :
               node.sharding[i] # None /\ \E axis \in ToSet(node.sharding[i]) : BadAxis(node, mesh, axis, i),
          Report(node, "sharding", "ERROR"))

-----------------------------------------------------------------------------
(* Propagation of shardings along the edges of a graph.                    *)

ShardedInputs(node, graph) ==
  {p \in {ProducerOf(graph, node.inputs[i]) : i \in DOMAIN node.inputs} :
     p # None /\ p.sharding # None}

\* _validate_elementwise_sharding
ElementwiseReports(node, graph, level) ==
  If(node.sharding # None /\ \E p \in ShardedInputs(node, graph) : p.sharding # node.sharding,
     Report(node, "sharding_propagation", Advice(level)))

\* ContractAxis, but with the two ends the other way round.
OtherContractAxis(axes, secondLast) ==
  CASE axes = <<>> -> None
    [] axes # <<>> /\ ~secondLast -> axes[1]
    [] axes # <<>> /\ secondLast -> Last(axes)

\* _select_contract_axis: it counts from the end of the spec, which may be shorter than the shape.
ContractAxis(axes, secondLast) ==
  CASE axes = <<>> -> None
    [] axes # <<>> /\ ~secondLast -> Last(axes)
    [] axes # <<>> /\ secondLast -> IF Len(axes) >= 2 THEN axes[Len(axes) - 1] ELSE axes[1]

\* _validate_contraction_sharding
ContractionReports(node, graph) ==
  LET a == ProducerOf(graph, node.inputs[1])
      b == ProducerOf(graph, node.inputs[2])
      split == <<ContractAxis(a.sharding, Truthy(Get(node, "transA"))),
                 ContractAxis(b.sharding, ~Truthy(Get(node, "transB")))>>
  IN  IF Len(node.inputs) < 2 \/ None \in {a, b} THEN {}
      ELSE IF None \in {a.sharding, b.sharding} THEN {}
      ELSE If(None \notin ToSet(split) /\ split[1] # split[2], Report(node, "sharding_propagation", "ERROR"))

\* _validate_reduction_sharding; an axis counted from the end is not looked at.
ReductionReports(node, graph) ==
  LET input == ProducerOf(graph, node.inputs[1])
      axes == Get(node, "axes")
      Kept(v) == /\ IsNat(v) /\ v.int < Len(input.sharding)
                 /\ input.sharding[v.int + 1] # None /\ input.sharding[v.int + 1] \in ToSet(node.sharding)
  IN  IF ~Is(axes, "list") \/ input = None THEN {}
      ELSE If(input.sharding # None /\ \E v \in ToSet(axes.list) : Kept(v),
              Report(node, "sharding_propagation", "ERROR"))

-----------------------------------------------------------------------------
(* Collectives.                                                            *)

\* _validate_gather_or_scatter_sharding
GatherReports(node, graph, mesh, gather) ==
  LET dim == IF Get(node, "axis") # None THEN Get(node, "axis")
             ELSE Get(node, IF gather THEN "gather_dim" ELSE "scatter_dim")
      axis == Get(node, "mesh_axis")
      input == ProducerOf(graph, node.inputs[1])
      Within(s) == s # None /\ 0 <= NumberOf(dim) /\ NumberOf(dim) < Len(s)
      factor == mesh[axis.str]
      in == input.shape[NumberOf(dim) + 1]
      out == node.shape[NumberOf(dim) + 1]
  IN  IF ~IsNumber(dim) \/ None \in {mesh, axis} \/ node.inputs = <<>> THEN {}
      ELSE IF ~(Is(axis, "str") /\ axis.str \in DOMAIN mesh) \/ input = None THEN {}
      ELSE IF ~Within(input.shape) \/ ~Within(node.shape) \/ ~IsSize(in) \/ ~IsSize(out) THEN {}
      ELSE If(IF gather THEN out # in * factor ELSE in # out * factor,
              Report(node, IF gather THEN "gather_dim" ELSE "scatter_dim", "ERROR"))

\* _validate_collective_node_sharding; an axis of 0 counts as not given to all_to_all.
\* A reduction is compared in lower case, which a Str is taken to be in.
CollectiveReports(node, graph, mesh) ==
  LET reduction == IF Truthy(Get(node, "reduction")) THEN Get(node, "reduction")
                   ELSE IF Get(node, "op") # None THEN Get(node, "op") ELSE Str("sum")
      axis == GetTruthy(node, "axis", "mesh_axis")
      split == LET v == GetTruthy(node, "split_axis", "split_dim") IN IF v = None THEN IntValue(0) ELSE v
      concat == LET v == GetTruthy(node, "concat_axis", "concat_dim") IN IF v = None THEN IntValue(1) ELSE v
      Within(v) == 0 <= NumberOf(v) /\ NumberOf(v) < Len(node.shape)
      op == PlainOp(node.op)
  IN  CASE op = "all_reduce" ->
             If(reduction \notin {Str("sum"), Str("min"), Str("max"), Str("prod")}, Report(node, "reduction", "ERROR"))
               \cup If(None \notin {axis, mesh} /\ ~(Is(axis, "str") /\ axis.str \in DOMAIN mesh),
                       Report(node, "axis", "ERROR"))
        [] op \in {"all_gather", "reduce_scatter"} -> GatherReports(node, graph, mesh, op = "all_gather")
        [] op = "all_to_all" ->
             If(IsNumber(split) /\ IsNumber(concat) /\ node.shape # None /\ ~(Within(split) /\ Within(concat)),
                Report(node, "all_to_all_axes", "ERROR"))
        [] OTHER -> {}

\* _ELEMENTWISE_SHARDING_OPS and _REDUCTION_SHARDING_OPS
ElementwiseOps ==
  {"Add", "Sub", "Mul", "Div", "Relu", "GELU", "SwiGLU", "Exp", "Log", "Sqrt", "Tanh", "Neg", "Abs"}
ReductionOps == {"ReduceSum", "ReduceMean", "ReduceMax", "ReduceMin"}

\* validate_sharding_propagation_graph
PropagationReports(graph, mesh, level) ==
  LET Of(node) ==
        CASE node.op \in ElementwiseOps -> ElementwiseReports(node, graph, level)
          [] node.op \in {"MatMul", "Gemm"} -> ContractionReports(node, graph)
          [] node.op \in ReductionOps ->
               IF node.sharding # None /\ node.inputs # <<>> THEN ReductionReports(node, graph)
               ELSE CollectiveReports(node, graph, mesh)
          [] OTHER -> CollectiveReports(node, graph, mesh)
  IN  UNION {Of(graph[i]) : i \in DOMAIN graph}

-----------------------------------------------------------------------------
(* Pipelines.                                                              *)

\* _validate_node_checkpoint_tag
CheckpointReports(node) ==
  LET tag == GetEither(node, "activation_checkpoint", "checkpoint_policy")
  IN  If(tag # None /\ ~Is(tag, "bool")
           /\ ~(Is(tag, "str") /\ tag.str \in {"recompute", "offload", "save", "full"}),
         Report(node, "activation_checkpoint", "ERROR"))

Stage(node) == GetEither(node, "pipeline_stage", "stage_id")

\* StageReports, but comparing a stage with that of the first input only.
FirstStageReports(node, graph) ==
  LET stage == Stage(node)
      Before(n) == {p \in {ProducerOf(graph, n.inputs[i]) : i \in DOMAIN n.inputs \cap {1}} : p # None}
  IN  If(IsNat(stage) /\ \E p \in Before(node) : IsInt(Stage(p)) /\ Stage(p).int > stage.int,
         Report(node, "pipeline_stage", "ERROR"))

\* _validate_node_pipeline_stage: an input without a stage is passed over.
StageReports(node, graph) ==
  LET stage == Stage(node)
      inputs == {p \in {ProducerOf(graph, node.inputs[i]) : i \in DOMAIN node.inputs} : p # None}
      before == {Stage(p).int : p \in {q \in inputs : IsInt(Stage(q))}}
      bounded == Truthy(Get(node, "pipeline_boundary")) \/ node.op \in {"P2P", "collective.all_to_all"}
  IN  IF stage = None THEN {}
      ELSE IF ~IsNat(stage) THEN {Report(node, "pipeline_stage", "ERROR")}
      ELSE If(\E s \in before : s > stage.int, Report(node, "pipeline_stage", "ERROR"))
             \cup If(~bounded /\ \E s \in before : stage.int - s > 1, Report(node, "pipeline_boundary", "WARNING"))

\* validate_pipeline_and_checkpointing_graph
PipelineReports(graph) ==
  UNION {CheckpointReports(graph[i]) \cup StageReports(graph[i], graph) : i \in DOMAIN graph}
=============================================================================
