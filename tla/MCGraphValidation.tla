------------------------- MODULE MCGraphValidation -------------------------
(***************************************************************************)
(* Instance: graphs of up to three nodes of one family: SASS instructions, *)
(* RDNA instructions, sharded products, pipeline stages, operators with    *)
(* schemas, instructions with every attribute that is checked, or the      *)
(* ports of a node with two outputs.  The mesh is 2 x 2.                   *)
(***************************************************************************)
EXTENDS GraphValidation, TLC

MCNodeId == <<"n1", "n2", "n3">>
MCInputs == {"x", "R1", "R2", "v1"}
MCMesh == [data |-> 2, model |-> 2]
MCToken == ("n1:1" :> [id |-> "n1", idx |-> 1]) @@ ("n1:2" :> [id |-> "n1", idx |-> 2])
MCVgprPort == [v1 |-> 1, v4 |-> 4]
MCSassPort == [R1 |-> 1, R2 |-> 2]
MCLatency == [FFMA |-> 4, HMMA |-> 6]
MCVopdSlot == [v_mul |-> "BOTH", v_add |-> "BOTH", v_and |-> "Y"]

Attr(required, type, default) == [required |-> required, type |-> type, default |-> default]
Schema(domain, attrs) == [domain |-> domain, attrs |-> attrs]
NoSchema(domain) == Schema(domain, [a \in {} |-> None])

MCOnnx ==
  [Relu |-> NoSchema("ai.onnx"), Add |-> NoSchema("ai.onnx"), ReduceSum |-> NoSchema("ai.onnx"),
   Gemm |-> Schema("ai.onnx", [transA |-> Attr(FALSE, "int", IntValue(0)), transB |-> Attr(FALSE, "int", IntValue(0))])]
\* The defaults that CUSTOM_OPS_REGISTRY and the other tables of schema/custom_ops.py
\* and schema/framework_registries.py give.
Given(type, default) == Attr(FALSE, type, default)
Operators(domain, given) == [op \in DOMAIN given |-> Schema(domain, given[op])]
Eps == [eps |-> Given("float", Float("1e-6"))]
Stream == [stream |-> Given("int", IntValue(0))]
Adam ==
  [b1 |-> Given("float", Float("0.9")), b2 |-> Given("float", Float("0.999")), eps |-> Given("float", Float("1e-8")),
   nesterov |-> Given("bool", Bool(FALSE))]

MCCustomOps ==
  [RMSNorm |-> Eps, RMSNormBackward |-> Eps,
   SwiGLU |-> [dim |-> Given("int", IntValue(-1))], RoPE |-> [dim |-> Given("int", IntValue(-1))],
   FlashAttention |-> [causal |-> Given("bool", Bool(FALSE))],
   ScaledDotProductAttention |-> [dropout_p |-> Given("float", Float("0.0")), is_causal |-> Given("bool", Bool(FALSE))],
   PagedAttention |-> [block_size |-> Given("int", IntValue(16)), kv_cache_dtype |-> Given("str", Str("auto"))],
   RaggedPagedAttention |-> [block_size |-> Given("int", IntValue(16))],
   LayerNorm |-> [axis |-> Given("int", IntValue(-1)), epsilon |-> Given("float", Float("1e-5")),
                  elementwise_affine |-> Given("bool", Bool(TRUE))],
   GroupNorm |-> [epsilon |-> Given("float", Float("1e-5"))],
   GELU |-> [approximate |-> Given("str", Str("none"))],
   EmbeddingLookup |-> [scale_grad_by_freq |-> Given("bool", Bool(FALSE))]]
MCCollectives ==
  [all_reduce |-> Stream @@ [channel_id |-> Given("int", IntValue(0))],
   all_gather |-> Stream @@ [mesh_axis |-> Attr(TRUE, "str", None)],
   reduce_scatter |-> Stream, all_to_all |-> Stream]
MCQuantization ==
  [block_quantize |-> [block_size |-> Attr(TRUE, "int", None), axis |-> Given("int", IntValue(-1))],
   dequantize_grouped_int4 |->
     [group_size |-> Attr(TRUE, "int", None), packing_format |-> Attr(TRUE, "str", None),
      symmetric |-> Given("bool", Bool(FALSE)), axis |-> Given("int", IntValue(0)),
      scales_shape |-> Attr(FALSE, "list", None)]]
MCOptax ==
  [adam |-> Adam, adamw |-> Adam @@ [weight_decay |-> Given("float", Float("0.0001"))],
   sgd |-> [nesterov |-> Given("bool", Bool(FALSE))],
   cosine_decay_schedule |-> [alpha |-> Given("float", Float("0.0")), exponent |-> Given("float", Float("1.0"))],
   softmax_cross_entropy |-> [axis |-> Given("int", IntValue(-1))]]
MCOdl ==
  [softmax |-> [dim |-> Given("int", IntValue(-1))], layer_norm |-> Eps, rms_norm |-> Eps]

MCRegistry ==
  [nvidia_sass |-> [FFMA |-> NoSchema("nvidia_sass")],
   amd_rdna |-> [v_mul |-> NoSchema("amd_rdna")],
   webgpu_wgsl |-> [storageStore |-> NoSchema("webgpu_wgsl")],
   quantization |-> Operators("quantization", MCQuantization),
   collective |-> Operators("collective", MCCollectives),
   state |-> Operators("ml.switcheroo.state", [ScatterUpdate |-> [axis |-> Given("int", IntValue(0))]]),
   optax |-> Operators("optax", MCOptax),
   odl |-> Operators("odl", MCOdl)]
    @@ ("ml.switcheroo.custom" :> Operators("ml.switcheroo.custom", MCCustomOps))
MCDialect == [arith |-> [addf |-> 2]]
SassAttributes ==
  {"barrier_predicate", "warp_sync", "memory_space", "stall", "stall_count", "yield", "yield_flag", "read_barrier",
   "write_barrier", "wait_barrier_mask", "register_classes", "src_regs", "srcs", "dst_reg", "dst"}
RdnaAttributes == {"wavefront_size", "register_classes", "vgpr_operands", "dst_vgpr", "src_vgprs", "dst"}
WgslAttributes ==
  {"workgroup_size", "address_space", "struct_alignment", "alignment", "array_stride", "builtin", "is_mutating"}
MCIsaAllowed == [nvidia_sass |-> SassAttributes, amd_rdna |-> RdnaAttributes, webgpu_wgsl |-> WgslAttributes]
MCPrimitive == [nvidia_sass |-> {"HMMA"}, amd_rdna |-> {"v_add", "v_and"}]
MCUngrounded == {"addf"}

Blank ==
  [id |-> None, op |-> "Relu", domain |-> "ai.onnx", inputs |-> <<>>, outputs |-> <<>>, specs |-> 0,
   attrs |-> [a \in {} |-> None], shape |-> <<4, 4>>, sharding |-> None]
With(op, domain, inputs, attrs) == [Blank EXCEPT !.op = op, !.domain = domain, !.inputs = inputs, !.attrs = attrs]

Sass ==
  {With("HMMA", "nvidia_sass", <<>>, [dst_reg |-> Register(1), write_barrier |-> IntValue(3), stall |-> IntValue(n)]) : n \in {0, 3}}
    \cup {With("FFMA", "nvidia_sass", <<>>, [dst_reg |-> Register(1), stall_count |-> IntValue(n)]) : n \in {1, 5}}
    \cup {With("FFMA", "nvidia_sass", <<"R1">>, [dst_reg |-> Register(2), wait_barrier_mask |-> m, stall |-> IntValue(2)]) :
            m \in {IntValue(8), IntValue(4), ListOf(<<IntValue(3)>>), Digits({3})}}
    \cup {With("FADD", "sass", <<>>, [src_regs |-> ListOf(<<Register(1), Register(2)>>), stall |-> IntValue(16)]), Blank}

Rdna ==
  {With("v_mul", "amd_rdna", <<"v1">>, [vgpr_operands |-> ListOf(<<IntValue(n)>>), dst_vgpr |-> IntValue(d)]) :
      n \in {1, 4, 5}, d \in {0, 1}}
    \cup {[With("v_add", "amd_rdna", <<>>, [vgpr_operands |-> ListOf(<<IntValue(4), Register(8)>>),
                                            wavefront_size |-> IntValue(48)]) EXCEPT !.outputs = <<"v1">>]}
    \cup {With("v_and", "amd_rdna", <<>>, [dst_vgpr |-> Register(3)])}

Split(elements) == [Blank EXCEPT !.sharding = elements, !.shape = <<4, 4>>]
D == <<"data">>
M == <<"model">>
Sharded ==
  {Split(e) : e \in {<<None, M>>, <<M, D>>, <<D \o M, None>>, <<M \o D, None>>}}
    \cup {With("Gemm", "ai.onnx", <<"n1", "n2">>, attrs) :
            attrs \in {[transA |-> IntValue(1)], [transB |-> IntValue(1)]}}
    \cup {[With("Add", "ai.onnx", <<"n1", "n2">>, [a \in {} |-> None]) EXCEPT !.sharding = <<D, <<"pod">>>>],
          [Split(<<None, D \o M>>) EXCEPT !.shape = <<4, 2>>],
          [With("ReduceSum", "ai.onnx", <<"n1">>, [axes |-> ListOf(<<IntValue(0)>>)]) EXCEPT !.sharding = <<D>>, !.shape = <<4>>],
          [With("all_gather", "collective", <<"n1">>, [axis |-> IntValue(0), mesh_axis |-> Str("data")])
             EXCEPT !.shape = <<8, 4>>],
          With("all_to_all", "collective", <<"n1">>, [split_axis |-> IntValue(0), concat_axis |-> IntValue(2)]),
          With("all_reduce", "collective", <<"n1">>, [reduction |-> Str("avg"), mesh_axis |-> Str("pod")])}

Stages ==
  {With("Add", "ai.onnx", inputs, [pipeline_stage |-> IntValue(s)]) :
     inputs \in {<<"x", "n2">>, <<"n1", "n3">>}, s \in {0, 1, 2}}
    \cup {With("Relu", "ai.onnx", <<"n1">>, [a \in {} |-> None]),
          With("Relu", "ai.onnx", <<"n1">>, [stage_id |-> IntValue(-1), activation_checkpoint |-> Str("all")]),
          With("P2P", "custom", <<"n1">>, [stage_id |-> IntValue(2), checkpoint_policy |-> Bool(TRUE)])}

Schemas ==
  {With("Gemm", "ai.onnx", <<"x", "missing">>, [transA |-> Str("yes"), alpha |-> IntValue(1)]),
   With("Gemm", "ai.onnx", <<"x", "x">>, [transB |-> IntValue(1)]),
   [With("RMSNorm", "ml.switcheroo.custom", <<"x">>, [a \in {} |-> None]) EXCEPT !.shape = None],
   With("MyOp", "ml.switcheroo.custom", <<"n3">>, [a \in {} |-> None]),
   With("addf", "arith", <<"x">>, [a \in {} |-> None]),
   With("block_quantize", "quantization", <<"x">>, [a \in {} |-> None]),
   With("block_quantize", "quantization", <<"x">>, [block_size |-> IntValue(3)]),
   With("Mul", "unknown", <<>>, [a \in {} |-> None]),
   With("store", "wgsl", <<"x">>, [address_space |-> Str("storage, read"), is_mutating |-> Bool(TRUE)])}
    \cup {With("dequantize_grouped_int4", "quantization", <<"x">>,
                [packing_format |-> Str(f), group_size |-> IntValue(2), scales_shape |-> ListOf(<<IntValue(n)>>)]) :
             <<f, n>> \in {<<"exllama", 2>>, <<"nf4", 4>>}}

Kernels ==
  {With("v_mul", "amd_rdna", <<>>, [register_classes |-> DictOf([src0 |-> Str("VGPR"), src1 |-> Str(class)])]) :
      class \in {"SGPR", "LDS"}}
    \cup {With("FFMA", "nvidia_sass", <<>>, [barrier_predicate |-> v[1], yield |-> v[2], read_barrier |-> v[3]]) :
             v \in {<<Predicate("@!PT"), Str("Y"), Digits({0, 5})>>, <<Str("P0"), IntValue(1), Digits({6})>>}}
    \cup {With(v[1], "webgpu_wgsl", <<>>, [address_space |-> Str(v[2]), builtin |-> Str(v[3])]) :
             v \in {<<"storageStore", "storage_read", "workgroup_id">>, <<"storageStore", "workgroup", "workgroup_id">>,
                    <<"Relu", "storage, read", "vertex_index">>}}

Ports ==
  {[With("Split", "custom", <<"x">>, [a \in {} |-> None]) EXCEPT !.outputs = <<"p", "q">>],
   [With("Split", "custom", <<"q">>, [a \in {} |-> None]) EXCEPT !.specs = 2],
   With("Add", "ai.onnx", <<"p", "n1:1">>, [pipeline_stage |-> IntValue(1)]),
   With("Add", "ai.onnx", <<"q", "n1:2">>, [a \in {} |-> None]),
   With("collective.all_to_all", "custom", <<"n1:1", "n2">>, [pipeline_stage |-> IntValue(3)])}

MCFamily == {Sass, Rdna, Sharded, Stages, Schemas, Kernels, Ports}
=============================================================================
