---------------------------- MODULE HardwareRules ----------------------------
(***************************************************************************)
(* validation/hardware.py: the rules of instruction sets on the attributes *)
(* of a node, the pairing of two RDNA instructions, and the scoreboard of  *)
(* a sequence of SASS instructions; and validation/quantization.py.        *)
(***************************************************************************)
EXTENDS AttributeValues

CONSTANTS
  VgprPort,  \* the names of ports that name a VGPR (v<N>, vgpr<N>), and its number
  SassPort,  \* the names of ports that name a SASS register (R<N>), and its number
  Latency,   \* SASS_PIPELINE_LATENCIES
  VopdSlot   \* RDNA_VOPD_SLOTS of the canonical opcode: "X", "Y" or "BOTH"

ASSUME LatencyAssumption == \A op \in DOMAIN Latency : Latency[op] \in Nat

ValuesOf(v) == IF v = None THEN {} ELSE IF Is(v, "list") THEN ToSet(v.list) ELSE {v}

-----------------------------------------------------------------------------
(* RDNA.                                                                   *)

\* The VGPRs that values name, as numbers or as texts.
Vgprs(values) ==
  {v.int : v \in {w \in values : IsInt(w)}} \cup {v.reg : v \in {w \in values : Is(w, "reg")}}

\* _extract_vgpr_indices
SourceVgprs(node) ==
  LET Listed(key) == IF Is(Get(node, key), "list") THEN ToSet(Get(node, key).list) ELSE {}
  IN  Vgprs(Listed("vgpr_operands") \cup Listed("src_vgprs"))
        \cup {VgprPort[p] : p \in ToSet(node.inputs) \cap DOMAIN VgprPort}

\* _extract_dst_vgpr: the first of the attribute and the ports that names a register.
DestinationVgpr(node) ==
  LET dst == IF Get(node, "dst_vgpr") # None THEN Get(node, "dst_vgpr") ELSE Get(node, "dst")
      named == IF dst = None THEN {} ELSE Vgprs({dst})
      ports == SelectSeq(node.outputs, LAMBDA p : p \in DOMAIN VgprPort)
  IN  IF named # {} THEN CHOOSE r \in named : TRUE ELSE IF ports # <<>> THEN VgprPort[ports[1]] ELSE None

\* BankConflict, but for the registers only that the first does not read already.
BankConflictOfNew(x, y) == x # {} /\ y \ x # {}

\* Two sets of registers of one bank.
BankConflict(x, y) == x # {} /\ y # {} /\ (x # y \/ Cardinality(x) > 1 \/ Cardinality(y) > 1)

InBank(registers, bank) == {r \in registers : r % 4 = bank}

\* An opcode that is not paired, or not in this slot.
SlotReports(node, slot) ==
  IF node.op \notin DOMAIN VopdSlot THEN {Report(node, "vopd_opcode", "ERROR")}
  ELSE If(VopdSlot[node.op] \notin {slot, "BOTH"}, Report(node, "vopd_slot", "ERROR"))

\* validate_vopd_pairing
VopdReports(x, y) ==
  (UNION {If(n.domain # "amd_rdna", Report(n, "domain", "ERROR")) : n \in {x, y}})
    \cup SlotReports(x, "X") \cup SlotReports(y, "Y")
    \cup If(DestinationVgpr(x) # None /\ DestinationVgpr(x) = DestinationVgpr(y),
            Report(y, "vopd_destination", "ERROR"))
    \cup If(\E bank \in 0 .. 3 : BankConflict(InBank(SourceVgprs(x), bank), InBank(SourceVgprs(y), bank)),
            Report(x, "vopd_bank_conflict", "ERROR"))

\* _validate_rdna_isa; a class that is wrong is reported without the operand's name.
RdnaReports(node, level) ==
  LET wave == Get(node, "wavefront_size")
      classes == Get(node, "register_classes")
      operands == Get(node, "vgpr_operands")
      numbers == SelectSeq(operands.list, IsNumber)
      crowded == \E i, j \in DOMAIN numbers : i # j /\ NumberOf(numbers[i]) % 4 = NumberOf(numbers[j]) % 4
  IN  If(wave # None /\ wave \notin {IntValue(32), IntValue(64)}, Report(node, "wavefront_size", "ERROR"))
        \cup If(Is(classes, "dict")
                  /\ \E o \in DOMAIN classes.dict : classes.dict[o] \notin {Str("VGPR"), Str("SGPR"), Str("AGPR")},
                Report(node, "register_classes", "ERROR"))
        \cup If(Is(operands, "list") /\ crowded, Report(node, "vgpr_operands", Advice(level)))

-----------------------------------------------------------------------------
(* SASS.                                                                   *)

\* _validate_sass_barrier_attributes, of one value
BadBarrier(v) ==
  CASE v = None -> FALSE
    [] IsInt(v) -> v.int \notin 0 .. 63
    [] Is(v, "list") -> \E b \in ToSet(v.list) : ~IsInt(b) \/ b.int \notin 0 .. 5
    [] Is(v, "digits") -> ~(v.digits \subseteq 0 .. 5)
    [] OTHER -> v \notin {Str("-"), Str("")}

BarrierReports(node) ==
  UNION {If(BadBarrier(Get(node, key)), Report(node, key, "ERROR")) :
           key \in {"read_barrier", "write_barrier", "wait_barrier_mask"}}

\* _validate_sass_isa
SassReports(node) ==
  LET predicate == Get(node, "barrier_predicate")
      sync == Get(node, "warp_sync")
      space == Get(node, "memory_space")
      stall == GetEither(node, "stall_count", "stall")
      yields == GetEither(node, "yield_flag", "yield")
  IN  If(IsText(predicate) /\ ~Is(predicate, "pred"), Report(node, "barrier_predicate", "ERROR"))
        \cup If(sync # None /\ sync \notin {Str("sync"), Str("yield"), Str("diverge"), Str("arrive")},
                Report(node, "warp_sync", "ERROR"))
        \cup If(space # None /\ space \notin {Str("global"), Str("shared"), Str("constant"), Str("local")},
                Report(node, "memory_space", "ERROR"))
        \cup If(stall # None /\ ~(IsInt(stall) /\ stall.int \in 0 .. 15), Report(node, "stall_count", "ERROR"))
        \cup If(yields # None /\ ~Is(yields, "bool")
                  /\ yields \notin {Str("Y"), Str("-"), Str("yield"), Str("noyield")},
                Report(node, "yield_flag", "ERROR"))
        \cup BarrierReports(node)

\* _extract_sass_registers: any value counts for a register, under its text.
SassRegisters(node, role) ==
  LET raw == IF role = "dst"
             THEN IF Get(node, "dst_reg") # None THEN Get(node, "dst_reg") ELSE Get(node, "dst")
             ELSE IF Get(node, "src_regs") # None THEN Get(node, "src_regs") ELSE Get(node, "srcs")
      ports == IF role = "dst" THEN node.outputs ELSE node.inputs
  IN  ValuesOf(raw) \cup {Register(SassPort[p]) : p \in ToSet(ports) \cap DOMAIN SassPort}

\* _parse_wait_barrier_mask: the barriers an instruction waits for.
WaitedBarriers(node) ==
  LET mask == Get(node, "wait_barrier_mask")
  IN  CASE IsInt(mask) -> {b \in 0 .. 5 : (mask.int \div 2^b) % 2 = 1}
        [] Is(mask, "list") -> {v.int : v \in {w \in ToSet(mask.list) : IsInt(w)}}
        [] Is(mask, "digits") -> mask.digits \cap 0 .. 5
        [] OTHER -> {}

IsSass(node) == node.domain \in {"nvidia_sass", "sass"}
LatencyOf(node) == IF node.op \in DOMAIN Latency THEN Latency[node.op] ELSE 4
StallOf(node) ==
  IntOr(IF Get(node, "stall_count") # None THEN Get(node, "stall_count") ELSE Get(node, "stall"), 0)
BarrierOf(node) == IntOr(Get(node, "write_barrier"), None)

Board(pending, reports) == [pending |-> pending, reports |-> reports]

\* ScoreStep, but with barriers cleared only once the sources have been read.
ScoreStepClearingLate(board, node, level) ==
  LET clashes == SassRegisters(node, "src") \cap DOMAIN board.pending
      live == {r \in DOMAIN board.pending : board.pending[r].barrier \notin WaitedBarriers(node)}
      written == SassRegisters(node, "dst")
      Write(r) == IF r \in written
                  THEN [left |-> LatencyOf(node), barrier |-> BarrierOf(node)]
                  ELSE board.pending[r]
      kept == {r \in live \cup written : Write(r).left > StallOf(node)}
  IN  Board([r \in kept |-> [Write(r) EXCEPT !.left = @ - StallOf(node)]],
            board.reports \cup If(clashes # {}, Report(node, "scoreboarding", Advice(level))))

\* One instruction: barriers are cleared, sources looked up, destinations
\* entered in place of what was pending on them, and the stall counted down.
ScoreStep(board, node, level) ==
  LET live == {r \in DOMAIN board.pending : board.pending[r].barrier \notin WaitedBarriers(node)}
      clashes == SassRegisters(node, "src") \cap live
      written == SassRegisters(node, "dst")
      Write(r) == IF r \in written
                  THEN [left |-> LatencyOf(node), barrier |-> BarrierOf(node)]
                  ELSE board.pending[r]
      kept == {r \in live \cup written : Write(r).left > StallOf(node)}
  IN  Board([r \in kept |-> [Write(r) EXCEPT !.left = @ - StallOf(node)]],
            board.reports \cup If(clashes # {}, Report(node, "scoreboarding", Advice(level))))

\* validate_sass_scoreboarding_sequence: nodes of another domain are passed over.
ScoreboardReports(nodes, level) ==
  LET boards[k \in 0 .. Len(nodes)] ==
        IF k = 0 THEN Board([r \in {} |-> None], {})
        ELSE IF IsSass(nodes[k]) THEN ScoreStep(boards[k - 1], nodes[k], level) ELSE boards[k - 1]
  IN  boards[Len(nodes)].reports

-----------------------------------------------------------------------------
(* WGSL.                                                                   *)

AddressSpaces == {"uniform", "storage, read", "storage, read_write", "workgroup", "private", "function"}

\* WGSL_COMPUTE_BUILTINS
ComputeBuiltins ==
  {"workgroup_id", "local_invocation_id", "global_invocation_id", "local_invocation_index", "num_workgroups"}

\* WGSL_MUTATING_OPS
MutatingOps ==
  {"storageStore", "textureStore", "atomicAdd", "atomicSub", "atomicMax", "atomicMin", "atomicAnd", "atomicOr",
   "atomicXor", "atomicExchange", "atomicCompareExchangeWeak"}

\* What _validate_wgsl_isa says of memory; storage_read is refused as a name and
\* still read as one.
MemoryReports(node) ==
  LET space == Get(node, "address_space")
      Uneven(v) == v # None /\ ~(IsInt(v) /\ v.int % 16 = 0)
  IN  If(space # None /\ space \notin {Str(a) : a \in AddressSpaces}, Report(node, "address_space", "ERROR"))
        \cup If(space = Str("uniform") /\ Uneven(GetEither(node, "struct_alignment", "alignment")),
                Report(node, "struct_alignment", "ERROR"))
        \cup If(space = Str("uniform") /\ Uneven(Get(node, "array_stride")), Report(node, "array_stride", "ERROR"))
        \cup If(space \in {Str("storage, read"), Str("storage_read")}
                  /\ (node.op \in MutatingOps \/ Truthy(Get(node, "is_mutating"))),
                Report(node, "address_space", "ERROR"))

\* _validate_wgsl_isa
WgslReports(node) ==
  LET size == Get(node, "workgroup_size")
      builtin == Get(node, "builtin")
  IN  If(size # None /\ ~(Is(size, "list") /\ Len(size.list) \in 1 .. 3
                            /\ \A v \in ToSet(size.list) : IsInt(v) /\ v.int > 0),
         Report(node, "workgroup_size", "ERROR"))
        \cup If(builtin # None /\ builtin \notin {Str(b) : b \in ComputeBuiltins}, Report(node, "builtin", "ERROR"))
        \cup MemoryReports(node)

\* validate_isa_instruction_node
IsaReports(node, level) ==
  CASE node.domain \in {"amd_rdna", "rdna"} -> RdnaReports(node, level)
    [] IsSass(node) -> SassReports(node)
    [] node.domain \in {"webgpu_wgsl", "wgsl"} -> WgslReports(node)
    [] OTHER -> {}

-----------------------------------------------------------------------------
(* Quantization.                                                           *)

\* s[axis] of Python, which counts a negative axis from the end.
HasIndex(s, axis) == axis >= -Len(s) /\ axis < Len(s)
PyIndex(s, axis) == s[IF axis < 0 THEN axis + Len(s) + 1 ELSE axis + 1]

\* The dimension along the axis is known and not a multiple of the size.
Undivided(node, axis, size) ==
  /\ IsShaped(node) /\ HasIndex(node.shape, axis)
  /\ LET dim == PyIndex(node.shape, axis) IN IsSize(dim) /\ dim % size # 0

\* The scales do not number as many as the groups the dimension is divided into.
Unscaled(node, axis, size) ==
  LET scales == Get(node, "scales_shape")
      dim == PyIndex(node.shape, axis)
      scale == PyIndex(scales.list, axis)
  IN  /\ IsShaped(node) /\ Is(scales, "list") /\ HasIndex(node.shape, axis) /\ HasIndex(scales.list, axis)
      /\ IsSize(dim) /\ IsNumber(scale) /\ dim % size = 0 /\ NumberOf(scale) # dim \div size

\* _validate_block_quantize
BlockQuantizeReports(node) ==
  LET block == Get(node, "block_size")
  IN  If(~(IsInt(block) /\ block.int > 0) \/ Undivided(node, IntOr(Get(node, "axis"), -1), block.int),
         Report(node, "block_size", "ERROR"))

PackingFormats == {"marlin", "exllama", "tensorrt_llm", "awq", "gptq"}

\* _validate_dequantize_grouped_int4
DequantizeReports(node) ==
  LET group == Get(node, "group_size")
      axis == IntOr(Get(node, "axis"), 0)
      positive == IsInt(group) /\ group.int > 0
  IN  If(Get(node, "packing_format") \notin {Str(f) : f \in PackingFormats}, Report(node, "packing_format", "ERROR"))
        \cup If(~positive \/ Undivided(node, axis, group.int), Report(node, "group_size", "ERROR"))
        \cup If(positive /\ Unscaled(node, axis, group.int), Report(node, "scales_shape", "ERROR"))

\* validate_quantization_node
QuantizationReports(node) ==
  CASE PlainOp(node.op) = "block_quantize" -> BlockQuantizeReports(node)
    [] PlainOp(node.op) = "dequantize_grouped_int4" -> DequantizeReports(node)
    [] OTHER -> {}
=============================================================================
