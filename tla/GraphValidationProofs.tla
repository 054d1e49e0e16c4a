------------------------ MODULE GraphValidationProofs ------------------------
(***************************************************************************)
(* What an accepted graph guarantees, what the scoreboard and the pairing  *)
(* of instructions compute, and that reports do not depend on defaults,    *)
(* for graphs of any length over any registry, mesh and level.             *)
(*                                                                         *)
(* The properties of accepted graphs follow from Reported: what the rules  *)
(* on edges find fatal in the graph as it is now, defaults included, is    *)
(* among what was reported.  The scoreboard is compared with BoardAt,      *)
(* which says what is pending after k nodes without a loop.  Defaults make *)
(* no difference because a node with its defaults is Alike to the node: no *)
(* rule sees what it has been given.                                       *)
(***************************************************************************)
EXTENDS GraphValidation, TLAPS

\* The facts about folds in NodeTableProofs; there is no table here.
Fold == INSTANCE NodeTableProofs WITH
          Node <- {}, Key <- {}, Name <- {}, IdOf <- [n \in {} |-> None], Token <- [t \in {} |-> None]

-----------------------------------------------------------------------------
(* The graph is a sequence, and its fatal reports are known.               *)

Sequence == graph \in Seq(ToSet(graph))

Reported ==
  reports # None => Fatal(PropagationReports(graph, Mesh, level) \cup PipelineReports(graph)) \subseteq reports

\* A sequence has its elements, and stays one when it is extended or mapped.
LEMMA SequenceFacts ==
  ASSUME NEW s, s \in Seq(ToSet(s))
  PROVE  /\ Len(s) \in Nat /\ DOMAIN s = 1 .. Len(s)
         /\ \A x : Append(s, x) \in Seq(ToSet(Append(s, x)))
<1>1. Len(s) \in Nat /\ DOMAIN s = 1 .. Len(s)
  OBVIOUS
<1>2. ASSUME NEW x
      PROVE  Append(s, x) \in Seq(ToSet(Append(s, x)))
  <2> DEFINE T == ToSet(s) \cup {x}
             t == Append(s, x)
  <2>1. s \in Seq(T) /\ x \in T
    OBVIOUS
  <2> HIDE DEF T
  <2>2. t \in Seq(T)
    BY <2>1
  <2> HIDE DEF t
  <2>3. Len(t) \in Nat /\ DOMAIN t = 1 .. Len(t) /\ t = [i \in 1 .. Len(t) |-> t[i]]
    BY <2>2
  <2>4. \A i \in 1 .. Len(t) : t[i] \in ToSet(t)
    BY <2>3 DEF ToSet
  <2>5. t \in Seq(ToSet(t))
    BY <2>3, <2>4
  <2> QED  BY <2>5 DEF t
<1> QED  BY <1>1, <1>2

LEMMA MappedSequence ==
  ASSUME NEW s, Len(s) \in Nat, DOMAIN s = 1 .. Len(s), s = [i \in DOMAIN s |-> s[i]]
  PROVE  s \in Seq(ToSet(s))
<1>1. \A i \in 1 .. Len(s) : s[i] \in ToSet(s)
  BY DEF ToSet
<1> QED  BY <1>1

\* Giving the nodes of a sequence their defaults gives a sequence.
LEMMA PopulatedSequence ==
  ASSUME NEW s, s \in Seq(ToSet(s)), NEW populate
  PROVE  Populated(s, populate) \in Seq(ToSet(Populated(s, populate)))
<1> DEFINE t == [i \in DOMAIN s |-> PopulateDefaults(s[i])]
<1>1. Len(s) \in Nat /\ DOMAIN s = 1 .. Len(s)
  BY SequenceFacts
<1>2. DOMAIN t = 1 .. Len(s) /\ Len(t) = Len(s) /\ t = [i \in DOMAIN t |-> t[i]]
  BY <1>1
<1> HIDE DEF t
<1>3. t \in Seq(ToSet(t))
  BY <1>1, <1>2, MappedSequence
<1>4. CASE populate
  BY <1>3, <1>4 DEF Populated, t
<1>5. CASE ~populate
  BY <1>5 DEF Populated
<1> QED  BY <1>4, <1>5

\* Fatal reports pass the level.
LEMMA FatalPasses ==
  ASSUME NEW found, NEW all, found \subseteq all, NEW lvl
  PROVE  Fatal(found) \subseteq Filtered(all, lvl)
BY DEF Fatal, Filtered

LEMMA InitialState == Init => Sequence /\ Reported
<1> SUFFICES ASSUME Init PROVE Sequence /\ Reported
  OBVIOUS
<1>1. graph = <<>> /\ reports = None
  BY DEF Init
<1>2. <<>> \in Seq(ToSet(<<>>))
  OBVIOUS
<1> QED  BY <1>1, <1>2 DEF Sequence, Reported

LEMMA AddNodeKeeps ==
  ASSUME Sequence, NEW node \in family, AddNode(node)
  PROVE  Sequence' /\ Reported'
<1> DEFINE new == [node EXCEPT !.id = NodeId[Len(graph) + 1]]
<1>1. graph' = Append(graph, new) /\ reports' = None
  BY DEF AddNode
<1> HIDE DEF new
<1>2. graph' \in Seq(ToSet(graph'))
  BY <1>1, SequenceFacts DEF Sequence
<1> QED  BY <1>1, <1>2 DEF Sequence, Reported

LEMMA ValidateKeeps ==
  ASSUME Sequence, NEW populate \in BOOLEAN, Validate(populate)
  PROVE  Sequence' /\ Reported'
<1> DEFINE new == Populated(graph, populate)
           found == PropagationReports(new, Mesh, level) \cup PipelineReports(new)
           rest == (UNION {NodeReports(graph[i], Mesh, level) : i \in DOMAIN graph})
                     \cup EdgeReports(new, Inputs) \cup ScoreboardReports(new, level)
           all == rest \cup PropagationReports(new, Mesh, level) \cup PipelineReports(new)
<1>1. graph' = Populated(graph, populate) /\ level' = level
  BY DEF Validate
<1>2. Sequence'
  BY <1>1, PopulatedSequence DEF Sequence
<1>3. reports' = Filtered(all, level) /\ found \subseteq all
  <2>1. reports' = GraphReports(graph, Inputs, Mesh, level, populate)
    BY DEF Validate
  <2>2. GraphReports(graph, Inputs, Mesh, level, populate) = Filtered(all, level)
    BY DEF GraphReports
  <2>3. found \subseteq all
    <3> HIDE DEF rest, new
    <3> QED  OBVIOUS
  <2> HIDE DEF found, all
  <2> QED  BY <2>1, <2>2, <2>3
<1> HIDE DEF found, all
<1>4. Fatal(found) \subseteq reports'
  BY <1>3, FatalPasses
<1> QED  BY <1>1, <1>2, <1>4 DEF Reported, found

\* The graph stays a sequence, and what its rules on edges find fatal was reported.
THEOREM Knowledge == Spec => [](Sequence /\ Reported)
<1>1. Init => Sequence /\ Reported
  BY InitialState
<1>2. Sequence /\ Reported /\ [Next]_vars => Sequence' /\ Reported'
  <2> SUFFICES ASSUME Sequence, Reported, [Next]_vars
               PROVE  Sequence' /\ Reported'
    OBVIOUS
  <2>1. ASSUME NEW node \in family, AddNode(node)
        PROVE  Sequence' /\ Reported'
    BY <2>1, AddNodeKeeps
  <2>2. ASSUME NEW populate \in BOOLEAN, Validate(populate)
        PROVE  Sequence' /\ Reported'
    BY <2>2, ValidateKeeps
  <2>3. CASE UNCHANGED vars
    BY <2>3 DEF vars, Sequence, Reported
  <2> QED  BY <2>1, <2>2, <2>3 DEF Next
<1> QED  BY <1>1, <1>2, PTL DEF Spec

-----------------------------------------------------------------------------
(* Accepted graphs.                                                        *)

\* The rules on edges find nothing fatal in an accepted graph.
LEMMA AcceptedIsClean ==
  ASSUME Reported, Accepted
  PROVE  /\ \A r \in PropagationReports(graph, Mesh, level) : r.level # "ERROR"
         /\ \A r \in PipelineReports(graph) : r.level # "ERROR"
BY DEF Reported, Accepted, Fatal

\* A stage of an accepted graph is a natural number, and no less than that of any
\* node with a stage that it reads from.
LEMMA StagesRunForward ==
  ASSUME Reported, Accepted, NEW n \in Staged
  PROVE  /\ Stage(n).int \in Int
         /\ \A p \in StagedProducers(n) : Stage(p).int <= Stage(n).int
<1>1. Stage(n).int \in Int /\ Stage(n) # None
  BY DEF Staged, IsInt, Is
<1>2. PICK i \in DOMAIN graph : n = graph[i]
  BY DEF Staged, ToSet
<1>3. StageReports(n, graph) \subseteq PipelineReports(graph)
  BY <1>2 DEF PipelineReports
<1>4. \A r \in StageReports(n, graph) : r.level # "ERROR"
  BY <1>3, AcceptedIsClean
<1>5. \A a : Report(n, a, "ERROR").level = "ERROR"
  BY DEF Report
<1>6. IsNat(Stage(n))
  BY <1>1, <1>4, <1>5 DEF StageReports
<1>7. ASSUME NEW p \in StagedProducers(n), Stage(p).int > Stage(n).int
      PROVE  FALSE
  <2>1. PICK j \in DOMAIN n.inputs : p = ProducerOf(graph, n.inputs[j]) /\ p # None /\ IsInt(Stage(p))
    BY DEF StagedProducers, Staged, ToSet
  <2> DEFINE inputs == {q \in {ProducerOf(graph, n.inputs[k]) : k \in DOMAIN n.inputs} : q # None}
             before == {Stage(q).int : q \in {q \in inputs : IsInt(Stage(q))}}
  <2>2. p \in inputs
    BY <2>1
  <2>3. Stage(p).int \in before
    BY <2>1, <2>2
  <2> HIDE DEF inputs
  <2>4. \E t \in before : t > Stage(n).int
    BY <1>7, <2>3
  <2>5. Report(n, "pipeline_stage", "ERROR") \in StageReports(n, graph)
    BY <1>1, <1>6, <2>4 DEF StageReports, If, inputs
  <2> QED  BY <1>4, <1>5, <2>5
<1>8. ASSUME NEW p \in StagedProducers(n)
      PROVE  Stage(p).int <= Stage(n).int
  <2>1. Stage(p).int \in Int
    BY DEF StagedProducers, Staged, IsInt
  <2> QED  BY <1>1, <1>7, <2>1
<1> QED  BY <1>1, <1>8

LEMMA StagesBeforeRunForward ==
  ASSUME Reported, Accepted, NEW n \in Staged, NEW p \in StagedBefore(n)
  PROVE  Stage(p).int <= Stage(n).int
<1> DEFINE S == {q \in Staged : Stage(q).int <= Stage(n).int}
<1>1. Stage(n).int \in Int
  BY StagesRunForward
<1>2. n \in S
  BY <1>1
<1>3. ASSUME NEW m \in S
      PROVE  StagedProducers(m) \subseteq S
  <2> SUFFICES ASSUME NEW q \in StagedProducers(m)
               PROVE  q \in S
    OBVIOUS
  <2>1. q \in Staged
    BY DEF StagedProducers
  <2>2. Stage(q).int <= Stage(m).int /\ Stage(m).int <= Stage(n).int
    BY StagesRunForward
  <2>3. Stage(q).int \in Int /\ Stage(m).int \in Int
    BY <2>1, StagesRunForward
  <2> QED  BY <1>1, <2>1, <2>2, <2>3
<1>4. S \in SUBSET Staged /\ \A m \in S \cup {n} : StagedProducers(m) \subseteq S
  BY <1>2, <1>3
<1> HIDE DEF S
<1>5. p \in S
  BY <1>4 DEF StagedBefore
<1> QED  BY <1>5 DEF S

\* No stage of an accepted graph depends on a later one (_validate_node_pipeline_stage).
THEOREM AcceptedStagesRunForwardHolds == Spec => []AcceptedStagesRunForward
<1>1. Reported => AcceptedStagesRunForward
  BY StagesBeforeRunForward DEF AcceptedStagesRunForward
<1> QED  BY <1>1, Knowledge, PTL

\* The axis that _select_contract_axis takes of the sharding of a matrix.
LEMMA ContractAxisOfMatrix ==
  ASSUME NEW m, ShardedMatrix(m), NEW secondLast
  PROVE  ContractAxis(m.sharding, secondLast) = m.sharding[IF secondLast THEN 1 ELSE 2]
<1>1. Len(m.sharding) = 2
  BY DEF ShardedMatrix, FullySharded
<1>2. m.sharding # <<>>
  BY <1>1
<1>3. Last(m.sharding) = m.sharding[2] /\ m.sharding[Len(m.sharding) - 1] = m.sharding[1]
  BY <1>1 DEF Last
<1>4. CASE secondLast
  BY <1>1, <1>2, <1>3, <1>4 DEF ContractAxis
<1>5. CASE ~secondLast
  BY <1>2, <1>3, <1>5 DEF ContractAxis
<1> QED  BY <1>4, <1>5

\* The two matrices of a product in an accepted graph are split alike along the
\* dimension that is summed over, or one of them is not split.
LEMMA ContractedAlike ==
  ASSUME Reported, Accepted, NEW j \in DOMAIN graph,
         graph[j].op = "Gemm", ~(Len(graph[j].inputs) < 2), NEW a, NEW b,
         a = ProducerOf(graph, graph[j].inputs[1]), b = ProducerOf(graph, graph[j].inputs[2]),
         ShardedMatrix(a), ShardedMatrix(b)
  PROVE  LET ka == IF Truthy(Get(graph[j], "transA")) THEN 1 ELSE 2
             kb == IF Truthy(Get(graph[j], "transB")) THEN 2 ELSE 1
         IN  None \in {a.sharding[ka], b.sharding[kb]} \/ a.sharding[ka] = b.sharding[kb]
<1> DEFINE n == graph[j]
           ka == IF Truthy(Get(n, "transA")) THEN 1 ELSE 2
           kb == IF Truthy(Get(n, "transB")) THEN 2 ELSE 1
           split == <<ContractAxis(a.sharding, Truthy(Get(n, "transA"))),
                      ContractAxis(b.sharding, ~Truthy(Get(n, "transB")))>>
<1>1. split[1] = a.sharding[ka] /\ split[2] = b.sharding[kb]
  BY ContractAxisOfMatrix
<1>2. ToSet(split) = {split[1], split[2]}
  BY DEF ToSet
<1>3. None \notin {a, b} /\ None \notin {a.sharding, b.sharding}
  BY DEF ShardedMatrix, FullySharded
<1>4. n.op \notin ElementwiseOps /\ n.op \in {"MatMul", "Gemm"}
  BY DEF ElementwiseOps
<1>5. ContractionReports(n, graph) \subseteq PropagationReports(graph, Mesh, level)
  <2> DEFINE Of(node) ==
               CASE node.op \in ElementwiseOps -> ElementwiseReports(node, graph, level)
                 [] node.op \in {"MatMul", "Gemm"} -> ContractionReports(node, graph)
                 [] node.op \in ReductionOps ->
                      IF node.sharding # None /\ node.inputs # <<>> THEN ReductionReports(node, graph)
                      ELSE CollectiveReports(node, graph, Mesh)
                 [] OTHER -> CollectiveReports(node, graph, Mesh)
  <2>1. n.op \notin ReductionOps
    BY DEF ReductionOps
  <2>2. Of(n) = ContractionReports(n, graph)
    BY <1>4, <2>1
  <2>3. PropagationReports(graph, Mesh, level) = UNION {Of(graph[i]) : i \in DOMAIN graph}
    BY DEF PropagationReports
  <2> HIDE DEF Of
  <2> QED  BY <2>2, <2>3
<1>6. Report(n, "sharding_propagation", "ERROR") \notin ContractionReports(n, graph)
  BY <1>5, AcceptedIsClean DEF Report
<1>7. ContractionReports(n, graph)
        = If(None \notin ToSet(split) /\ split[1] # split[2], Report(n, "sharding_propagation", "ERROR"))
  BY <1>3 DEF ContractionReports
<1> HIDE DEF split
<1>8. None \in ToSet(split) \/ split[1] = split[2]
  BY <1>6, <1>7 DEF If
<1> QED  BY <1>1, <1>2, <1>8

\* In an accepted graph every device has the same stretch of the dimension summed over
\* from both matrices of a product (_validate_contraction_sharding).
THEOREM AcceptedProductsAlignHolds == Spec => []AcceptedProductsAlign
<1>1. ASSUME Reported, Accepted, NEW j \in DOMAIN graph,
             graph[j].op = "Gemm", ~(Len(graph[j].inputs) < 2), NEW a, NEW b,
             a = ProducerOf(graph, graph[j].inputs[1]), b = ProducerOf(graph, graph[j].inputs[2]),
             ShardedMatrix(a), ShardedMatrix(b), NEW ka, NEW kb,
             ka = IF Truthy(Get(graph[j], "transA")) THEN 1 ELSE 2,
             kb = IF Truthy(Get(graph[j], "transB")) THEN 2 ELSE 1,
             None \notin {a.sharding[ka], b.sharding[kb]}, a.shape[ka] = b.shape[kb], NEW device
      PROVE  ShardOf(a.sharding[ka], a.shape[ka], device) = ShardOf(b.sharding[kb], b.shape[kb], device)
  <2>1. a.sharding[ka] = b.sharding[kb]
    BY <1>1, ContractedAlike
  <2> QED  BY <1>1, <2>1
<1>2. Reported => AcceptedProductsAlign
  BY <1>1 DEF AcceptedProductsAlign
<1> QED  BY <1>2, Knowledge, PTL

-----------------------------------------------------------------------------
(* Pairs.                                                                  *)

\* What a pair that is not complained of satisfies.
LEMMA Pairable ==
  ASSUME NEW x, NEW y
  PROVE  VopdReports(x, y) = {} <=>
           /\ x.domain = "amd_rdna" /\ y.domain = "amd_rdna"
           /\ x.op \in DOMAIN VopdSlot /\ VopdSlot[x.op] \in {"X", "BOTH"}
           /\ y.op \in DOMAIN VopdSlot /\ VopdSlot[y.op] \in {"Y", "BOTH"}
           /\ DestinationVgpr(x) = None \/ DestinationVgpr(x) # DestinationVgpr(y)
           /\ \A bank \in 0 .. 3 : ~BankConflict(InBank(SourceVgprs(x), bank), InBank(SourceVgprs(y), bank))
<1> DEFINE d == UNION {If(n.domain # "amd_rdna", Report(n, "domain", "ERROR")) : n \in {x, y}}
           sx == SlotReports(x, "X")
           sy == SlotReports(y, "Y")
           dst == If(DestinationVgpr(x) # None /\ DestinationVgpr(x) = DestinationVgpr(y),
                     Report(y, "vopd_destination", "ERROR"))
           bnk == If(\E bank \in 0 .. 3 : BankConflict(InBank(SourceVgprs(x), bank), InBank(SourceVgprs(y), bank)),
                     Report(x, "vopd_bank_conflict", "ERROR"))
<1>1. VopdReports(x, y) = d \cup sx \cup sy \cup dst \cup bnk
  BY DEF VopdReports
<1>2. d = {} <=> x.domain = "amd_rdna" /\ y.domain = "amd_rdna"
  BY DEF If
<1>3. \A n, slot : SlotReports(n, slot) = {} <=> n.op \in DOMAIN VopdSlot /\ VopdSlot[n.op] \in {slot, "BOTH"}
  BY DEF SlotReports, If
<1>4. dst = {} <=> DestinationVgpr(x) = None \/ DestinationVgpr(x) # DestinationVgpr(y)
  BY DEF If
<1>5. bnk = {} <=>
        \A bank \in 0 .. 3 : ~BankConflict(InBank(SourceVgprs(x), bank), InBank(SourceVgprs(y), bank))
  BY DEF If
<1>6. VopdReports(x, y) = {} <=> d = {} /\ sx = {} /\ sy = {} /\ dst = {} /\ bnk = {}
  <2> HIDE DEF d, sx, sy, dst, bnk
  <2> QED  BY <1>1
<1>7. (sx = {} <=> x.op \in DOMAIN VopdSlot /\ VopdSlot[x.op] \in {"X", "BOTH"})
      /\ (sy = {} <=> y.op \in DOMAIN VopdSlot /\ VopdSlot[y.op] \in {"Y", "BOTH"})
  BY <1>3
<1> HIDE DEF d, sx, sy, dst, bnk
<1> QED  BY <1>2, <1>4, <1>5, <1>6, <1>7

\* A pair of instructions that fit both slots may be issued either way round
\* (validate_vopd_pairing).
THEOREM PairsAreMutualHolds == Spec => []PairsAreMutual
<1>1. ASSUME NEW x, NEW y, VopdSlot[x.op] = "BOTH", VopdSlot[y.op] = "BOTH", VopdReports(x, y) = {}
      PROVE  VopdReports(y, x) = {}
  <2>1. \A bank : BankConflict(InBank(SourceVgprs(x), bank), InBank(SourceVgprs(y), bank))
                    <=> BankConflict(InBank(SourceVgprs(y), bank), InBank(SourceVgprs(x), bank))
    BY DEF BankConflict
  <2> QED  BY <1>1, <2>1, Pairable
<1>2. PairsAreMutual
  BY <1>1 DEF PairsAreMutual
<1> QED  BY <1>2, PTL

-----------------------------------------------------------------------------
(* The scoreboard.                                                         *)

\* Stalls that are natural numbers, on a graph that is a sequence.
Counted ==
  /\ Len(graph) \in Nat /\ DOMAIN graph = 1 .. Len(graph)
  /\ \A i \in DOMAIN graph : IsSass(graph[i]) => StallOf(graph[i]) \in Nat

\* The cycles after k nodes, node by node.
LEMMA CyclesFold ==
  ASSUME Counted
  PROVE  LET c == CyclesAfter(graph)
         IN  /\ c \in [0 .. Len(graph) -> Nat] /\ c[0] = 0
             /\ \A k \in 1 .. Len(graph) :
                  c[k] = IF IsSass(graph[k]) THEN c[k - 1] + StallOf(graph[k]) ELSE c[k - 1]
<1> DEFINE n == Len(graph)
           step == [x \in (1 .. n) \X Nat |->
                      IF IsSass(graph[x[1]]) THEN x[2] + StallOf(graph[x[1]]) ELSE x[2]]
           Upto(f) == f = [k \in 0 .. n |-> IF k = 0 THEN 0
                                             ELSE IF IsSass(graph[k]) THEN f[k - 1] + StallOf(graph[k]) ELSE f[k - 1]]
<1>1. n \in Nat /\ \A k \in 1 .. n : k \in DOMAIN graph /\ k - 1 \in 0 .. n /\ k # 0
  BY DEF Counted
<1>2. step \in [(1 .. n) \X Nat -> Nat]
  BY <1>1 DEF Counted
<1>3. CyclesAfter(graph) = CHOOSE f : Upto(f)
  BY DEF CyclesAfter
<1>4. PICK g \in [0 .. n -> Nat] : g[0] = 0 /\ \A k \in 1 .. n : g[k] = step[<<k, g[k - 1]>>]
  <2> HIDE DEF n, step
  <2>1. step \in Fold!Steps(n, Nat)
    BY <1>2 DEF Fold!Steps
  <2>2. Fold!FoldOf(Nat, 0, n, step) # {}
    BY <1>1, <2>1, Fold!FoldExists
  <2> QED  BY <2>2 DEF Fold!FoldOf
<1>5. \A k \in 1 .. n : g[k] = IF IsSass(graph[k]) THEN g[k - 1] + StallOf(graph[k]) ELSE g[k - 1]
  BY <1>1, <1>4
<1>6. Upto(g)
  BY <1>1, <1>4, <1>5
<1>7. PICK c : c = CyclesAfter(graph)
  OBVIOUS
<1>8. Upto(c)
  <2> HIDE DEF Upto
  <2> QED  BY <1>3, <1>6, <1>7
<1>9. DOMAIN c = 0 .. n /\ c[0] = 0 /\ c = [k \in 0 .. n |-> c[k]]
  BY <1>1, <1>8
<1>10. \A k \in 1 .. n : c[k] = IF IsSass(graph[k]) THEN c[k - 1] + StallOf(graph[k]) ELSE c[k - 1]
  BY <1>1, <1>8
<1>11. \A k \in 0 .. n : c[k] \in Nat
  <2> DEFINE S == {k \in 0 .. n : c[k] \in Nat}
  <2>1. 0 \in S
    BY <1>1, <1>9
  <2>2. \A k \in 1 .. n : k - 1 \in S => k \in S
    BY <1>1, <1>10 DEF Counted
  <2> HIDE DEF S
  <2>3. 0 .. n \subseteq S
    BY <1>1, <2>1, <2>2, Fold!UpTo
  <2> QED  BY <2>3 DEF S
<1> QED  BY <1>7, <1>9, <1>10, <1>11

\* Node w writes register r; it is the last of the first k nodes to do so; what it
\* writes is not there yet after k nodes.
Writes(w, r) == IsSass(graph[w]) /\ r \in SassRegisters(graph[w], "dst")
LastWrite(w, r, k) == w \in 1 .. k /\ Writes(w, r) /\ \A v \in w + 1 .. k : ~Writes(v, r)
Left(w, k) == LatencyOf(graph[w]) - (CyclesAfter(graph)[k] - CyclesAfter(graph)[w - 1])
UnderWay(w, k) ==
  /\ Left(w, k) > 0
  /\ \A q \in w + 1 .. k : IsSass(graph[q]) => BarrierOf(graph[w]) \notin WaitedBarriers(graph[q])

\* The board after k nodes, from the nodes alone.
InFlight(k) ==
  {r \in UNION {SassRegisters(graph[i], "dst") : i \in DOMAIN graph} :
     \E w \in 1 .. k : LastWrite(w, r, k) /\ UnderWay(w, k)}
Writer(r, k) == CHOOSE w \in 1 .. k : LastWrite(w, r, k)
Entry(w, k) == [left |-> Left(w, k), barrier |-> BarrierOf(graph[w])]
Flagged(k) ==
  {Report(graph[i], "scoreboarding", Advice(level)) : i \in {j \in 1 .. k : IsSass(graph[j]) /\ ReadsUnfinished(j)}}
BoardAt(k) == Board([r \in InFlight(k) |-> Entry(Writer(r, k), k)], Flagged(k))

\* Latencies and what is left of them are integers, and a node takes its stall off.
LEMMA LeftFacts ==
  ASSUME Counted, NEW k \in 1 .. Len(graph), NEW w \in 1 .. k
  PROVE  /\ Left(w, k) \in Int /\ Left(w, k - 1) \in Int
         /\ Left(w, k) = IF IsSass(graph[k]) THEN Left(w, k - 1) - StallOf(graph[k]) ELSE Left(w, k - 1)
         /\ IsSass(graph[k]) => /\ StallOf(graph[k]) \in Nat /\ LatencyOf(graph[k]) \in Int
                                /\ Left(k, k) = LatencyOf(graph[k]) - StallOf(graph[k])
<1> DEFINE n == Len(graph)
<1>1. PICK c : /\ c = CyclesAfter(graph) /\ c \in [0 .. n -> Nat]
               /\ \A j \in 1 .. n : c[j] = IF IsSass(graph[j]) THEN c[j - 1] + StallOf(graph[j]) ELSE c[j - 1]
  BY CyclesFold
<1>2. n \in Nat /\ k \in 1 .. n /\ k - 1 \in 0 .. n /\ k \in 0 .. n /\ w \in 1 .. n /\ w - 1 \in 0 .. n
  BY DEF Counted
<1>3. LatencyOf(graph[w]) \in Int /\ LatencyOf(graph[k]) \in Int
  BY LatencyAssumption DEF LatencyOf
<1>4. c[k] \in Nat /\ c[k - 1] \in Nat /\ c[w - 1] \in Nat
  BY <1>1, <1>2
<1>5. IsSass(graph[k]) => StallOf(graph[k]) \in Nat
  BY <1>2 DEF Counted
<1>6. c[k] = IF IsSass(graph[k]) THEN c[k - 1] + StallOf(graph[k]) ELSE c[k - 1]
  BY <1>1, <1>2
<1> HIDE DEF n
<1>7. Left(w, k) = LatencyOf(graph[w]) - (c[k] - c[w - 1])
  BY <1>1 DEF Left
<1>8. Left(w, k - 1) = LatencyOf(graph[w]) - (c[k - 1] - c[w - 1])
  BY <1>1 DEF Left
<1>9. Left(k, k) = LatencyOf(graph[k]) - (c[k] - c[k - 1])
  BY <1>1 DEF Left
<1>10. \A lat, stall, now, before, start \in Int :
         /\ lat - (now - start) \in Int
         /\ now = before + stall => /\ lat - (now - start) = (lat - (before - start)) - stall
                                    /\ lat - (now - before) = lat - stall
  OBVIOUS
<1>11. c[k] \in Int /\ c[k - 1] \in Int /\ c[w - 1] \in Int
  BY <1>4
<1>12. Left(w, k) \in Int /\ Left(w, k - 1) \in Int
  <2>1. LatencyOf(graph[w]) - (c[k] - c[w - 1]) \in Int
    BY <1>3, <1>10, <1>11
  <2>2. LatencyOf(graph[w]) - (c[k - 1] - c[w - 1]) \in Int
    BY <1>3, <1>10, <1>11
  <2> QED  BY <1>7, <1>8, <2>1, <2>2
<1>13. CASE IsSass(graph[k])
  <2>1. c[k] = c[k - 1] + StallOf(graph[k]) /\ StallOf(graph[k]) \in Int
    BY <1>5, <1>6, <1>13
  <2>2. Left(w, k) = Left(w, k - 1) - StallOf(graph[k])
    <3>1. LatencyOf(graph[w]) - (c[k] - c[w - 1])
            = (LatencyOf(graph[w]) - (c[k - 1] - c[w - 1])) - StallOf(graph[k])
      BY <1>3, <1>10, <1>11, <2>1
    <3> QED  BY <1>7, <1>8, <3>1
  <2>3. Left(k, k) = LatencyOf(graph[k]) - StallOf(graph[k])
    BY <1>3, <1>9, <1>10, <1>11, <2>1
  <2> QED  BY <1>3, <1>5, <1>12, <1>13, <2>2, <2>3
<1>14. CASE ~IsSass(graph[k])
  <2>1. Left(w, k) = Left(w, k - 1)
    BY <1>6, <1>7, <1>8, <1>14
  <2> QED  BY <1>12, <1>14, <2>1
<1> QED  BY <1>13, <1>14

\* There is one last write.
LEMMA WriterOf ==
  ASSUME NEW k \in Nat, NEW r, NEW w, LastWrite(w, r, k)
  PROVE  Writer(r, k) = w
<1>1. ASSUME NEW v, LastWrite(v, r, k)
      PROVE  v = w
  <2>1. v \in 1 .. k /\ w \in 1 .. k /\ Writes(v, r) /\ Writes(w, r)
    BY <1>1 DEF LastWrite
  <2>2. v \notin w + 1 .. k /\ w \notin v + 1 .. k
    BY <1>1, <2>1 DEF LastWrite
  <2> QED  BY <2>1, <2>2
<1>2. w \in 1 .. k
  BY DEF LastWrite
<1> QED  BY <1>1, <1>2 DEF Writer

\* A register is in flight after k nodes if the last write to it is under way.
LEMMA InFlightIf ==
  ASSUME Counted, NEW k \in 0 .. Len(graph), NEW r, NEW w, LastWrite(w, r, k)
  PROVE  r \in InFlight(k) <=> UnderWay(w, k)
<1>1. k \in Nat /\ w \in 1 .. k /\ w \in DOMAIN graph /\ r \in SassRegisters(graph[w], "dst")
  BY DEF Counted, LastWrite, Writes
<1>2. \A v : LastWrite(v, r, k) => v = w
  BY <1>1, WriterOf
<1>3. r \in UNION {SassRegisters(graph[i], "dst") : i \in DOMAIN graph}
  BY <1>1
<1> QED  BY <1>1, <1>2, <1>3 DEF InFlight

\* Node k writes what it writes last; other registers were last written before.
LEMMA LastWriteStep ==
  ASSUME NEW k \in Nat \ {0}, NEW r
  PROVE  /\ Writes(k, r) => LastWrite(k, r, k)
         /\ ~Writes(k, r) => \A w : LastWrite(w, r, k) <=> LastWrite(w, r, k - 1)
<1>1. k \in 1 .. k /\ k + 1 .. k = {}
  OBVIOUS
<1>2. ASSUME ~Writes(k, r), NEW w
      PROVE  LastWrite(w, r, k) <=> LastWrite(w, r, k - 1)
  <2>1. CASE w \in 1 .. k - 1
    <3>1. w \in 1 .. k /\ w + 1 .. k = (w + 1 .. k - 1) \cup {k}
      BY <2>1
    <3> QED  BY <1>2, <2>1, <3>1 DEF LastWrite
  <2>2. CASE w \notin 1 .. k - 1
    <3>1. w \in 1 .. k => w = k
      BY <2>2
    <3> QED  BY <1>2, <2>2, <3>1 DEF LastWrite
  <2> QED  BY <2>1, <2>2
<1> QED  BY <1>1, <1>2 DEF LastWrite

\* A write before node k stays under way if node k neither waits for its barrier nor
\* stalls it out.
LEMMA UnderWayStep ==
  ASSUME Counted, NEW k \in 1 .. Len(graph), NEW w \in 1 .. k - 1
  PROVE  /\ IsSass(graph[k]) =>
              (UnderWay(w, k) <=> /\ UnderWay(w, k - 1) /\ BarrierOf(graph[w]) \notin WaitedBarriers(graph[k])
                                  /\ Left(w, k - 1) > StallOf(graph[k]))
         /\ ~IsSass(graph[k]) => (UnderWay(w, k) <=> UnderWay(w, k - 1))
<1>1. k \in Nat \ {0} /\ w \in 1 .. k /\ w < k /\ w + 1 .. k = (w + 1 .. k - 1) \cup {k}
  BY DEF Counted
<1>2. /\ Left(w, k) \in Int /\ Left(w, k - 1) \in Int
      /\ Left(w, k) = IF IsSass(graph[k]) THEN Left(w, k - 1) - StallOf(graph[k]) ELSE Left(w, k - 1)
      /\ IsSass(graph[k]) => StallOf(graph[k]) \in Nat
  BY <1>1, LeftFacts
<1>3. IsSass(graph[k]) => (Left(w, k) > 0 <=> Left(w, k - 1) > 0 /\ Left(w, k - 1) > StallOf(graph[k]))
  BY <1>2
<1>4. (\A q \in w + 1 .. k : IsSass(graph[q]) => BarrierOf(graph[w]) \notin WaitedBarriers(graph[q]))
        <=> /\ \A q \in w + 1 .. k - 1 : IsSass(graph[q]) => BarrierOf(graph[w]) \notin WaitedBarriers(graph[q])
            /\ IsSass(graph[k]) => BarrierOf(graph[w]) \notin WaitedBarriers(graph[k])
  BY <1>1
<1> QED  BY <1>2, <1>3, <1>4 DEF UnderWay

\* Nothing is in flight before the first node.
LEMMA BoardAtStart == BoardAt(0) = Board([r \in {} |-> None], {})
<1>1. InFlight(0) = {}
  BY DEF InFlight
<1>2. Flagged(0) = {}
  BY DEF Flagged
<1>3. [r \in InFlight(0) |-> Entry(Writer(r, 0), 0)] = [r \in {} |-> None]
  BY <1>1
<1> QED  BY <1>2, <1>3 DEF BoardAt

\* The reports of one more node.
LEMMA FlaggedStep ==
  ASSUME NEW k \in Nat \ {0}
  PROVE  Flagged(k) = Flagged(k - 1) \cup If(IsSass(graph[k]) /\ ReadsUnfinished(k),
                                             Report(graph[k], "scoreboarding", Advice(level)))
<1> DEFINE Hit(j) == IsSass(graph[j]) /\ ReadsUnfinished(j)
           J(m) == {j \in 1 .. m : Hit(j)}
<1>1. Flagged(k) = {Report(graph[i], "scoreboarding", Advice(level)) : i \in J(k)}
  BY DEF Flagged
<1>2. Flagged(k - 1) = {Report(graph[i], "scoreboarding", Advice(level)) : i \in J(k - 1)}
  BY DEF Flagged
<1>3. J(k) = J(k - 1) \cup {j \in {k} : Hit(j)}
  <2>1. 1 .. k = (1 .. k - 1) \cup {k}
    OBVIOUS
  <2> HIDE DEF Hit
  <2> QED  BY <2>1
<1> HIDE DEF J
<1>4. CASE Hit(k)
  BY <1>1, <1>2, <1>3, <1>4 DEF If
<1>5. CASE ~Hit(k)
  BY <1>1, <1>2, <1>3, <1>5 DEF If
<1> QED  BY <1>4, <1>5

\* A node of another domain changes nothing.
LEMMA BoardAtOther ==
  ASSUME Counted, NEW k \in 1 .. Len(graph), ~IsSass(graph[k])
  PROVE  BoardAt(k) = BoardAt(k - 1)
<1>1. k \in Nat \ {0} /\ k - 1 \in 0 .. Len(graph) /\ k \in 0 .. Len(graph)
  BY DEF Counted
<1>2. ASSUME NEW r, NEW w
      PROVE  LastWrite(w, r, k) <=> LastWrite(w, r, k - 1)
  BY <1>1, LastWriteStep DEF Writes
<1>3. ASSUME NEW r, NEW w, LastWrite(w, r, k)
      PROVE  /\ w \in 1 .. k - 1 /\ LastWrite(w, r, k - 1)
             /\ UnderWay(w, k) <=> UnderWay(w, k - 1)
             /\ Entry(w, k) = Entry(w, k - 1)
  <2>1. w \in 1 .. k - 1 /\ LastWrite(w, r, k - 1)
    BY <1>2, <1>3 DEF LastWrite
  <2>2. UnderWay(w, k) <=> UnderWay(w, k - 1)
    BY <2>1, UnderWayStep
  <2>3. w \in 1 .. k
    BY <1>1, <2>1
  <2>4. Left(w, k) = Left(w, k - 1)
    BY <2>3, LeftFacts
  <2> QED  BY <2>1, <2>2, <2>4 DEF Entry
<1>4. InFlight(k) = InFlight(k - 1)
  <2>1. \A r : (\E w \in 1 .. k : LastWrite(w, r, k) /\ UnderWay(w, k))
                 <=> (\E w \in 1 .. k - 1 : LastWrite(w, r, k - 1) /\ UnderWay(w, k - 1))
    BY <1>1, <1>2, <1>3
  <2> QED  BY <2>1 DEF InFlight
<1>5. ASSUME NEW r \in InFlight(k)
      PROVE  Entry(Writer(r, k), k) = Entry(Writer(r, k - 1), k - 1)
  <2>1. PICK w : LastWrite(w, r, k)
    BY DEF InFlight
  <2>2. Writer(r, k) = w /\ Writer(r, k - 1) = w
    BY <1>1, <1>3, <2>1, WriterOf
  <2> QED  BY <1>3, <2>1, <2>2
<1>6. Flagged(k) = Flagged(k - 1)
  BY <1>1, FlaggedStep DEF If
<1>7. [r \in InFlight(k) |-> Entry(Writer(r, k), k)] = [r \in InFlight(k - 1) |-> Entry(Writer(r, k - 1), k - 1)]
  BY <1>4, <1>5
<1> QED  BY <1>6, <1>7 DEF BoardAt

\* A register in flight has a last write, and that is under way.
LEMMA InFlightWriter ==
  ASSUME NEW k \in Nat, NEW r \in InFlight(k)
  PROVE  /\ Writer(r, k) \in 1 .. k
         /\ LastWrite(Writer(r, k), r, k) /\ UnderWay(Writer(r, k), k)
<1>1. PICK w \in 1 .. k : LastWrite(w, r, k) /\ UnderWay(w, k)
  BY DEF InFlight
<1>2. Writer(r, k) = w
  BY <1>1, WriterOf
<1> QED  BY <1>1, <1>2

\* What node k finds pending once the barriers it waits for are cleared.
Live(k) == {r \in InFlight(k - 1) : BarrierOf(graph[Writer(r, k - 1)]) \notin WaitedBarriers(graph[k])}

\* The last write to a register before node k, as ReadsUnfinished says it.
LEMMA LastWriter ==
  ASSUME NEW k \in Nat \ {0}, NEW r, NEW w
  PROVE  w \in Writers(r, k) /\ (\A v \in Writers(r, k) : v <= w) <=> LastWrite(w, r, k - 1)
<1>1. \A v : v \in Writers(r, k) <=> v \in 1 .. k - 1 /\ Writes(v, r)
  BY DEF Writers, Writes
<1>2. ASSUME w \in 1 .. k - 1
      PROVE  (\A v \in Writers(r, k) : v <= w) <=> \A v \in w + 1 .. k - 1 : ~Writes(v, r)
  <2>1. ASSUME NEW v \in 1 .. k - 1
        PROVE  v <= w <=> v \notin w + 1 .. k - 1
    BY <1>2
  <2>2. w + 1 .. k - 1 \subseteq 1 .. k - 1
    BY <1>2
  <2> QED  BY <1>1, <2>1, <2>2
<1> QED  BY <1>1, <1>2 DEF LastWrite

\* A write that is still under way at node k, as ReadsUnfinished says it.
LEMMA StillUnderWay ==
  ASSUME Counted, NEW k \in 1 .. Len(graph), IsSass(graph[k]), NEW w \in 1 .. k - 1
  PROVE  StillWriting(w, k) <=> UnderWay(w, k - 1) /\ BarrierOf(graph[w]) \notin WaitedBarriers(graph[k])
<1>1. k \in Nat \ {0} /\ w \in 1 .. k /\ w + 1 .. k = (w + 1 .. k - 1) \cup {k}
  BY DEF Counted
<1>2. PICK c : c = CyclesAfter(graph) /\ c[k - 1] \in Nat /\ c[w - 1] \in Nat
  <2>1. k - 1 \in 0 .. Len(graph) /\ w - 1 \in 0 .. Len(graph)
    BY DEF Counted
  <2> QED  BY <2>1, CyclesFold
<1>3. LatencyOf(graph[w]) \in Int
  BY LatencyAssumption DEF LatencyOf
<1>4. \A lat \in Int, x \in Nat, y \in Nat : x - y < lat <=> lat - (x - y) > 0
  OBVIOUS
<1>5. c[k - 1] - c[w - 1] < LatencyOf(graph[w]) <=> Left(w, k - 1) > 0
  BY <1>2, <1>3, <1>4 DEF Left
<1> QED  BY <1>1, <1>2, <1>5 DEF StillWriting, UnderWay

\* An instruction reads what is not finished exactly if it reads what it finds live.
LEMMA ReadsLive ==
  ASSUME Counted, NEW k \in 1 .. Len(graph), IsSass(graph[k])
  PROVE  ReadsUnfinished(k) <=> SassRegisters(graph[k], "src") \cap Live(k) # {}
<1>1. k \in Nat \ {0} /\ k - 1 \in Nat /\ k - 1 \in 0 .. Len(graph)
  BY DEF Counted
<1>2. ASSUME NEW r
      PROVE  r \in Live(k) <=> \E w \in Writers(r, k) : (\A v \in Writers(r, k) : v <= w) /\ StillWriting(w, k)
  <2>1. ASSUME r \in Live(k)
        PROVE  \E w \in Writers(r, k) : (\A v \in Writers(r, k) : v <= w) /\ StillWriting(w, k)
    <3>1. PICK w : w = Writer(r, k - 1)
      OBVIOUS
    <3>2. r \in InFlight(k - 1) /\ BarrierOf(graph[w]) \notin WaitedBarriers(graph[k])
      BY <2>1, <3>1 DEF Live
    <3>3. w \in 1 .. k - 1 /\ LastWrite(w, r, k - 1) /\ UnderWay(w, k - 1)
      BY <1>1, <3>1, <3>2, InFlightWriter
    <3>4. StillWriting(w, k)
      BY <3>2, <3>3, StillUnderWay
    <3> QED  BY <1>1, <3>3, <3>4, LastWriter
  <2>2. ASSUME NEW w \in Writers(r, k), \A v \in Writers(r, k) : v <= w, StillWriting(w, k)
        PROVE  r \in Live(k)
    <3>1. LastWrite(w, r, k - 1)
      BY <1>1, <2>2, LastWriter
    <3>2. w \in 1 .. k - 1
      BY <3>1 DEF LastWrite
    <3>3. UnderWay(w, k - 1) /\ BarrierOf(graph[w]) \notin WaitedBarriers(graph[k])
      BY <2>2, <3>2, StillUnderWay
    <3>4. r \in InFlight(k - 1)
      BY <1>1, <3>1, <3>3, InFlightIf
    <3>5. Writer(r, k - 1) = w
      BY <1>1, <3>1, WriterOf
    <3> QED  BY <3>3, <3>4, <3>5 DEF Live
  <2> QED  BY <2>1, <2>2
<1>3. ReadsUnfinished(k) <=> \E r \in SassRegisters(graph[k], "src") : r \in Live(k)
  BY <1>2 DEF ReadsUnfinished
<1> QED  BY <1>3

\* A register that node k does not write is pending after it if it was found live and
\* is not stalled out, and its write has then that much less left.
LEMMA PendingBefore ==
  ASSUME Counted, NEW k \in 1 .. Len(graph), IsSass(graph[k]), NEW r, ~Writes(k, r)
  PROVE  /\ r \in InFlight(k) <=> r \in Live(k) /\ Left(Writer(r, k - 1), k - 1) > StallOf(graph[k])
         /\ r \in InFlight(k) => /\ Writer(r, k) = Writer(r, k - 1)
                                 /\ Left(Writer(r, k), k) = Left(Writer(r, k - 1), k - 1) - StallOf(graph[k])
<1>1. k \in Nat \ {0} /\ k - 1 \in Nat /\ k - 1 \in 0 .. Len(graph) /\ k \in 0 .. Len(graph)
  BY DEF Counted
<1>2. \A w : LastWrite(w, r, k) <=> LastWrite(w, r, k - 1)
  BY <1>1, LastWriteStep
<1>3. ASSUME NEW w, LastWrite(w, r, k - 1)
      PROVE  /\ Writer(r, k) = w /\ Writer(r, k - 1) = w
             /\ r \in InFlight(k) <=> UnderWay(w, k)
             /\ r \in InFlight(k - 1) <=> UnderWay(w, k - 1)
             /\ UnderWay(w, k) <=> /\ UnderWay(w, k - 1)
                                  /\ BarrierOf(graph[w]) \notin WaitedBarriers(graph[k])
                                  /\ Left(w, k - 1) > StallOf(graph[k])
             /\ Left(w, k) = Left(w, k - 1) - StallOf(graph[k])
  <2>1. LastWrite(w, r, k)
    BY <1>2, <1>3
  <2>2. Writer(r, k) = w /\ Writer(r, k - 1) = w
    BY <1>1, <1>3, <2>1, WriterOf
  <2>3. (r \in InFlight(k) <=> UnderWay(w, k)) /\ (r \in InFlight(k - 1) <=> UnderWay(w, k - 1))
    BY <1>1, <1>3, <2>1, InFlightIf
  <2>4. w \in 1 .. k - 1 /\ w \in 1 .. k
    BY <1>1, <1>3 DEF LastWrite
  <2>5. UnderWay(w, k) <=> /\ UnderWay(w, k - 1)
                           /\ BarrierOf(graph[w]) \notin WaitedBarriers(graph[k])
                           /\ Left(w, k - 1) > StallOf(graph[k])
    BY <2>4, UnderWayStep
  <2>6. Left(w, k) = Left(w, k - 1) - StallOf(graph[k])
    BY <2>4, LeftFacts
  <2> QED  BY <2>2, <2>3, <2>5, <2>6
<1>4. CASE \E w : LastWrite(w, r, k - 1)
  <2>1. PICK w : LastWrite(w, r, k - 1)
    BY <1>4
  <2> QED  BY <1>3, <2>1 DEF Live
<1>5. CASE ~\E w : LastWrite(w, r, k - 1)
  BY <1>2, <1>5 DEF InFlight, Live
<1> QED  BY <1>4, <1>5

\* A register that node k writes is pending after it if its stall is less than its latency.
LEMMA PendingNow ==
  ASSUME Counted, NEW k \in 1 .. Len(graph), IsSass(graph[k]), NEW r, Writes(k, r)
  PROVE  /\ r \in InFlight(k) <=> LatencyOf(graph[k]) > StallOf(graph[k])
         /\ Writer(r, k) = k /\ Left(k, k) = LatencyOf(graph[k]) - StallOf(graph[k])
<1>1. k \in Nat \ {0} /\ k \in 0 .. Len(graph) /\ k \in 1 .. k /\ k + 1 .. k = {}
  BY DEF Counted
<1>2. LastWrite(k, r, k)
  BY <1>1, LastWriteStep
<1>3. (r \in InFlight(k) <=> UnderWay(k, k)) /\ Writer(r, k) = k
  BY <1>1, <1>2, InFlightIf, WriterOf
<1>4. /\ StallOf(graph[k]) \in Nat /\ LatencyOf(graph[k]) \in Int
      /\ Left(k, k) = LatencyOf(graph[k]) - StallOf(graph[k])
  BY <1>1, LeftFacts
<1>5. UnderWay(k, k) <=> Left(k, k) > 0
  BY <1>1 DEF UnderWay
<1>6. Left(k, k) > 0 <=> LatencyOf(graph[k]) > StallOf(graph[k])
  BY <1>4
<1> QED  BY <1>3, <1>4, <1>5, <1>6

\* One instruction takes the board after k - 1 nodes to the board after k.
LEMMA BoardAtSass ==
  ASSUME Counted, NEW k \in 1 .. Len(graph), IsSass(graph[k])
  PROVE  BoardAt(k) = ScoreStep(BoardAt(k - 1), graph[k], level)
<1> DEFINE node == graph[k]
           board == BoardAt(k - 1)
           live == {r \in DOMAIN board.pending : board.pending[r].barrier \notin WaitedBarriers(node)}
           clashes == SassRegisters(node, "src") \cap live
           written == SassRegisters(node, "dst")
           Write(r) == IF r \in written
                       THEN [left |-> LatencyOf(node), barrier |-> BarrierOf(node)]
                       ELSE board.pending[r]
           kept == {r \in live \cup written : Write(r).left > StallOf(node)}
<1>1. k \in Nat \ {0}
  BY DEF Counted
<1>2. /\ DOMAIN board.pending = InFlight(k - 1) /\ board.reports = Flagged(k - 1)
      /\ \A r \in InFlight(k - 1) : board.pending[r] = Entry(Writer(r, k - 1), k - 1)
  BY DEF BoardAt, Board
<1>3. live = Live(k)
  <2>1. \A r \in InFlight(k - 1) : board.pending[r].barrier = BarrierOf(graph[Writer(r, k - 1)])
    <3>1. \A w : Entry(w, k - 1).barrier = BarrierOf(graph[w])
      BY DEF Entry
    <3> HIDE DEF board
    <3> QED  BY <1>2, <3>1
  <2> HIDE DEF board
  <2> QED  BY <1>2, <2>1 DEF Live
<1>4. \A r : r \in written <=> Writes(k, r)
  BY DEF Writes
<1>5. \A r : r \in Live(k) => r \in InFlight(k - 1)
  BY DEF Live
<1>6. ASSUME NEW r, r \notin written, r \in Live(k)
      PROVE  Write(r) = Entry(Writer(r, k - 1), k - 1) /\ Write(r).left = Left(Writer(r, k - 1), k - 1)
  <2>1. Write(r) = Entry(Writer(r, k - 1), k - 1)
    BY <1>2, <1>5, <1>6
  <2> QED  BY <2>1 DEF Entry
<1>7. ASSUME NEW r, r \in written
      PROVE  Write(r) = [left |-> LatencyOf(node), barrier |-> BarrierOf(node)]
  BY <1>7
<1> HIDE DEF board, live, written, Write
<1>8. \A r : r \in kept <=> r \in InFlight(k)
  <2>1. ASSUME NEW r, r \in written
        PROVE  r \in kept <=> r \in InFlight(k)
    <3>1. Write(r).left = LatencyOf(node)
      BY <1>7, <2>1
    <3>2. r \in InFlight(k) <=> LatencyOf(node) > StallOf(node)
      BY <1>4, <2>1, PendingNow
    <3> QED  BY <2>1, <3>1, <3>2
  <2>2. ASSUME NEW r, r \notin written
        PROVE  r \in kept <=> r \in InFlight(k)
    <3>1. r \in InFlight(k) <=> r \in Live(k) /\ Left(Writer(r, k - 1), k - 1) > StallOf(node)
      BY <1>4, <2>2, PendingBefore
    <3> QED  BY <1>3, <1>6, <2>2, <3>1
  <2> QED  BY <2>1, <2>2
<1>9. ASSUME NEW r \in InFlight(k)
      PROVE  [Write(r) EXCEPT !.left = @ - StallOf(node)] = Entry(Writer(r, k), k)
  <2>1. CASE r \in written
    <3>1. Writer(r, k) = k /\ Left(k, k) = LatencyOf(node) - StallOf(node)
      BY <1>4, <2>1, PendingNow
    <3> QED  BY <1>7, <2>1, <3>1 DEF Entry
  <2>2. CASE r \notin written
    <3>1. /\ r \in Live(k) /\ Writer(r, k) = Writer(r, k - 1)
          /\ Left(Writer(r, k), k) = Left(Writer(r, k - 1), k - 1) - StallOf(node)
      BY <1>4, <2>2, PendingBefore
    <3>2. Write(r) = Entry(Writer(r, k), k - 1)
      BY <1>6, <2>2, <3>1
    <3>3. [Entry(Writer(r, k), k - 1) EXCEPT !.left = @ - StallOf(node)] = Entry(Writer(r, k), k)
      BY <3>1 DEF Entry
    <3> QED  BY <3>2, <3>3
  <2> QED  BY <2>1, <2>2
<1>10. [r \in kept |-> [Write(r) EXCEPT !.left = @ - StallOf(node)]] = [r \in InFlight(k) |-> Entry(Writer(r, k), k)]
  <2>1. kept = InFlight(k)
    BY <1>8
  <2> HIDE DEF kept
  <2> QED  BY <1>9, <2>1
<1>11. Flagged(k) = Flagged(k - 1) \cup If(clashes # {}, Report(node, "scoreboarding", Advice(level)))
  <2>1. ReadsUnfinished(k) <=> clashes # {}
    BY <1>3, ReadsLive
  <2> HIDE DEF clashes
  <2>2. Flagged(k) = Flagged(k - 1) \cup If(IsSass(node) /\ ReadsUnfinished(k), Report(node, "scoreboarding", Advice(level)))
    BY <1>1, FlaggedStep
  <2> QED  BY <2>1, <2>2
<1>12. ScoreStep(board, node, level)
         = Board([r \in kept |-> [Write(r) EXCEPT !.left = @ - StallOf(node)]],
                 board.reports \cup If(clashes # {}, Report(node, "scoreboarding", Advice(level))))
  BY DEF ScoreStep, live, written, Write
<1>13. board.reports = Flagged(k - 1)
  BY <1>2
<1> HIDE DEF kept, clashes, node
<1>14. ScoreStep(board, node, level) = Board([r \in InFlight(k) |-> Entry(Writer(r, k), k)], Flagged(k))
  BY <1>10, <1>11, <1>12, <1>13
<1> QED  BY <1>14 DEF BoardAt, board, node

\* The scoreboard of the sequence, without the loop.
LEMMA Scoreboard ==
  ASSUME Counted
  PROVE  ScoreboardReports(graph, level) = Flagged(Len(graph))
<1> DEFINE n == Len(graph)
           Upto(f) == f = [k \in 0 .. n |->
                             IF k = 0 THEN Board([r \in {} |-> None], {})
                             ELSE IF IsSass(graph[k]) THEN ScoreStep(f[k - 1], graph[k], level) ELSE f[k - 1]]
           g == [k \in 0 .. n |-> BoardAt(k)]
<1>1. n \in Nat /\ n \in 0 .. n
  BY DEF Counted
<1>2. \A k \in 0 .. n : k # 0 => k \in 1 .. n /\ k - 1 \in 0 .. n
  BY <1>1
<1>3. Upto(g)
  <2> SUFFICES ASSUME NEW k \in 0 .. n
               PROVE  BoardAt(k) = IF k = 0 THEN Board([r \in {} |-> None], {})
                                   ELSE IF IsSass(graph[k]) THEN ScoreStep(g[k - 1], graph[k], level) ELSE g[k - 1]
    OBVIOUS
  <2>1. CASE k = 0
    BY <2>1, BoardAtStart
  <2>2. CASE k # 0
    <3>1. k \in 1 .. n /\ g[k - 1] = BoardAt(k - 1)
      BY <1>2, <2>2
    <3> HIDE DEF g
    <3> QED  BY <2>2, <3>1, BoardAtSass, BoardAtOther
  <2> QED  BY <2>1, <2>2
<1>4. PICK b : b = CHOOSE f : Upto(f)
  OBVIOUS
<1>5. Upto(b)
  <2> HIDE DEF Upto
  <2> QED  BY <1>3, <1>4
<1>6. b[n] = BoardAt(n)
  <2> DEFINE S == {k \in 0 .. n : b[k] = BoardAt(k)}
  <2>1. b[0] = Board([r \in {} |-> None], {})
    BY <1>1, <1>5
  <2>2. 0 \in S
    BY <1>1, <2>1, BoardAtStart
  <2>3. \A k \in 1 .. n : k \in 0 .. n /\ b[k] = IF IsSass(graph[k]) THEN ScoreStep(b[k - 1], graph[k], level) ELSE b[k - 1]
    BY <1>1, <1>5
  <2>4. \A k \in 1 .. n : k - 1 \in S => k \in S
    BY <2>3, BoardAtSass, BoardAtOther
  <2> HIDE DEF S
  <2>5. 0 .. n \subseteq S
    BY <1>1, <2>2, <2>4, Fold!UpTo
  <2> QED  BY <1>1, <2>5 DEF S
<1>7. ScoreboardReports(graph, level) = b[n].reports
  BY <1>4 DEF ScoreboardReports
<1> QED  BY <1>6, <1>7 DEF BoardAt, Board

\* The scoreboard flags exactly the instructions that read what may still be being
\* written (validate_sass_scoreboarding_sequence).
THEOREM ScoreboardFlagsUnfinishedReadsHolds == Spec => []ScoreboardFlagsUnfinishedReads
<1>1. Sequence => ScoreboardFlagsUnfinishedReads
  <2> SUFFICES ASSUME Sequence, \A i \in DOMAIN graph : IsSass(graph[i]) => StallOf(graph[i]) \in Nat
               PROVE  {r.node : r \in ScoreboardReports(graph, level)}
                        = {graph[i].id : i \in {j \in DOMAIN graph : IsSass(graph[j]) /\ ReadsUnfinished(j)}}
    BY DEF ScoreboardFlagsUnfinishedReads
  <2>1. Counted
    BY SequenceFacts DEF Sequence, Counted
  <2>2. ScoreboardReports(graph, level) = Flagged(Len(graph))
    BY <2>1, Scoreboard
  <2> DEFINE J == {j \in DOMAIN graph : IsSass(graph[j]) /\ ReadsUnfinished(j)}
  <2>3. Flagged(Len(graph)) = {Report(graph[i], "scoreboarding", Advice(level)) : i \in J}
    BY <2>1 DEF Flagged, Counted
  <2>4. \A i : Report(graph[i], "scoreboarding", Advice(level)).node = graph[i].id
    BY DEF Report
  <2> HIDE DEF J
  <2>5. {r.node : r \in {Report(graph[i], "scoreboarding", Advice(level)) : i \in J}} = {graph[i].id : i \in J}
    BY <2>4
  <2> QED  BY <2>2, <2>3, <2>5 DEF J
<1> QED  BY <1>1, Knowledge, PTL

-----------------------------------------------------------------------------
(* Defaults and reports.                                                   *)

\* Two nodes that differ at most in attributes, and in none that matters to the rules.
SameFields(n, m) ==
  /\ m.id = n.id /\ m.op = n.op /\ m.domain = n.domain /\ m.inputs = n.inputs
  /\ m.outputs = n.outputs /\ m.specs = n.specs /\ m.shape = n.shape /\ m.sharding = n.sharding
SameReads(n, m) ==
  \A a \in ReadOfAny \cup ReadOf(n.op) :
    Get(m, a) = Get(n, a) /\ (a \in DOMAIN m.attrs <=> a \in DOMAIN n.attrs)
SameFlags(n, m) == \A a \in Flags : Truthy(Get(m, a)) <=> Truthy(Get(n, a))
SameAxis(n, m) ==
  /\ PlainOp(n.op) = "block_quantize" => IntOr(Get(m, "axis"), -1) = IntOr(Get(n, "axis"), -1)
  /\ PlainOp(n.op) = "dequantize_grouped_int4" => IntOr(Get(m, "axis"), 0) = IntOr(Get(n, "axis"), 0)
Alike(n, m) == SameFields(n, m) /\ SameReads(n, m) /\ SameFlags(n, m) /\ SameAxis(n, m)

\* The attributes a node is given.
Missing(node) ==
  {a \in DOMAIN AttributesOf(node) :
     /\ ~AttributesOf(node)[a].required /\ AttributesOf(node)[a].default # None
     /\ a \notin DOMAIN node.attrs}

LEMMA PopulatedFields ==
  ASSUME NEW n, IsNode(n)
  PROVE  LET m == PopulateDefaults(n)
         IN  /\ SameFields(n, m) /\ DOMAIN m = DOMAIN n
             /\ m = [f \in DOMAIN n |-> m[f]]
             /\ \A f \in DOMAIN n \ {"attrs"} : m[f] = n[f]
             /\ DOMAIN m.attrs = DOMAIN n.attrs \cup Missing(n)
             /\ m.attrs = [a \in DOMAIN m.attrs |-> m.attrs[a]]
             /\ \A a \in Missing(n) : m.attrs[a] = AttributesOf(n)[a].default
             /\ \A a \in DOMAIN n.attrs : m.attrs[a] = n.attrs[a]
<1> DEFINE attrs == [a \in DOMAIN n.attrs \cup Missing(n) |->
                       IF a \in Missing(n) THEN AttributesOf(n)[a].default ELSE n.attrs[a]]
<1>1. PopulateDefaults(n) = [n EXCEPT !.attrs = attrs]
  BY DEF PopulateDefaults, Missing
<1>2. Missing(n) \cap DOMAIN n.attrs = {}
  BY DEF Missing
<1> HIDE DEF attrs
<1>3. Fields \subseteq DOMAIN n
  BY DEF IsNode
<1>4. PopulateDefaults(n).attrs = attrs
  BY <1>1, <1>3 DEF Fields
<1>5. /\ DOMAIN PopulateDefaults(n) = DOMAIN n
      /\ PopulateDefaults(n) = [f \in DOMAIN n |-> PopulateDefaults(n)[f]]
      /\ \A f \in DOMAIN n \ {"attrs"} : PopulateDefaults(n)[f] = n[f]
  BY <1>1
<1>6. SameFields(n, PopulateDefaults(n))
  BY <1>3, <1>5 DEF SameFields, Fields
<1>7. /\ DOMAIN attrs = DOMAIN n.attrs \cup Missing(n)
      /\ attrs = [a \in DOMAIN attrs |-> attrs[a]]
      /\ \A a \in Missing(n) : attrs[a] = AttributesOf(n)[a].default
      /\ \A a \in DOMAIN n.attrs : attrs[a] = n.attrs[a]
  BY <1>2 DEF attrs
<1> QED  BY <1>4, <1>5, <1>6, <1>7

LEMMA SameSchema ==
  ASSUME NEW n, NEW m, SameFields(n, m)
  PROVE  SchemaOf(m) = SchemaOf(n) /\ AttributesOf(m) = AttributesOf(n)
<1>1. SchemaOf(m) = SchemaOf(n)
  BY DEF SchemaOf, SameFields
<1> QED  BY <1>1 DEF AttributesOf

\* What is given is of its type and makes no difference.
LEMMA MissingIsFallback ==
  ASSUME NEW n, NEW a \in Missing(n)
  PROVE  LET attr == AttributesOf(n)[a]
         IN  HasType(attr.default, attr.type) /\ IsFallback(n.op, a, attr.default)
<1> DEFINE schema == SchemaOf(n)
           attr == AttributesOf(n)[a]
<1>1. schema # None /\ a \in DOMAIN schema.attrs /\ AttributesOf(n) = schema.attrs
  BY DEF Missing, AttributesOf, Empty
<1>2. ~schema.attrs[a].required /\ schema.attrs[a].default # None
  BY <1>1 DEF Missing
<1>3. \/ n.op \in DOMAIN Onnx /\ schema = Onnx[n.op]
      \/ n.domain \in DOMAIN Registry /\ n.op \in DOMAIN Registry[n.domain] /\ schema = Registry[n.domain][n.op]
      \/ schema = TangentSchema
  BY <1>1 DEF SchemaOf, At, Empty
<1>4. schema # TangentSchema
  BY <1>1 DEF TangentSchema, Empty
<1>5. \E schemas : GivesFallbacks(schemas) /\ n.op \in DOMAIN schemas /\ schema = schemas[n.op]
  BY <1>3, <1>4, SchemaAssumption
<1> QED  BY <1>1, <1>2, <1>5 DEF GivesFallbacks

\* A node is like itself with its defaults.
LEMMA PopulatedIsAlike ==
  ASSUME NEW n, IsNode(n)
  PROVE  Alike(n, PopulateDefaults(n))
<1> DEFINE m == PopulateDefaults(n)
<1>1. /\ SameFields(n, m)
      /\ DOMAIN m.attrs = DOMAIN n.attrs \cup Missing(n)
      /\ \A a \in Missing(n) : m.attrs[a] = AttributesOf(n)[a].default
      /\ \A a \in DOMAIN n.attrs : m.attrs[a] = n.attrs[a]
  BY PopulatedFields
<1> HIDE DEF m
<1>2. \A a : a \notin Missing(n) => Get(m, a) = Get(n, a) /\ (a \in DOMAIN m.attrs <=> a \in DOMAIN n.attrs)
  BY <1>1 DEF Get
<1>3. \A a \in Missing(n) : Get(n, a) = None /\ Get(m, a) = AttributesOf(n)[a].default
  BY <1>1 DEF Get, Missing
<1>4. \A a \in Missing(n) : IsFallback(n.op, a, Get(m, a))
  BY <1>3, MissingIsFallback
<1>5. ~Truthy(None)
  BY DEF Truthy, IsInt, Is
<1>6. SameReads(n, m)
  BY <1>2, <1>4 DEF SameReads, IsFallback
<1>7. SameFlags(n, m)
  BY <1>2, <1>3, <1>4, <1>5 DEF SameFlags, IsFallback
<1>8. \A d : IntOr(None, d) = d
  BY DEF IntOr, IsInt, Is
<1>9. SameAxis(n, m)
  <2>1. ASSUME PlainOp(n.op) = "block_quantize"
        PROVE  IntOr(Get(m, "axis"), -1) = IntOr(Get(n, "axis"), -1)
    <3>1. CASE "axis" \in Missing(n)
      <4>1. Get(m, "axis") = IntValue(-1) /\ Get(n, "axis") = None
        BY <2>1, <3>1, <1>3, <1>4 DEF IsFallback
      <4>2. IntOr(IntValue(-1), -1) = -1
        BY DEF IntOr, IsInt, Is, IntValue
      <4> QED  BY <4>1, <4>2, <1>8
    <3> QED  BY <3>1, <1>2
  <2>2. ASSUME PlainOp(n.op) = "dequantize_grouped_int4"
        PROVE  IntOr(Get(m, "axis"), 0) = IntOr(Get(n, "axis"), 0)
    <3>1. CASE "axis" \in Missing(n)
      <4>1. Get(m, "axis") = IntValue(0) /\ Get(n, "axis") = None
        BY <2>2, <3>1, <1>3, <1>4 DEF IsFallback
      <4>2. IntOr(IntValue(0), 0) = 0
        BY DEF IntOr, IsInt, Is, IntValue
      <4> QED  BY <4>1, <4>2, <1>8
    <3> QED  BY <3>1, <1>2
  <2> QED  BY <2>1, <2>2 DEF SameAxis
<1> QED  BY <1>1, <1>6, <1>7, <1>9 DEF Alike, m

\* The attributes of any operator, one by one.
LEMMA AlikeReads ==
  ASSUME NEW n, NEW m, Alike(n, m)
  PROVE  /\ \A a \in ReadOfAny : Get(m, a) = Get(n, a)
         /\ \A a, b \in ReadOfAny : GetEither(m, a, b) = GetEither(n, a, b)
         /\ \A a \in ReadOf(n.op) : Get(m, a) = Get(n, a)
         /\ \A a, b \in ReadOf(n.op) : GetTruthy(m, a, b) = GetTruthy(n, a, b)
<1>1. \A a \in ReadOfAny \cup ReadOf(n.op) : Get(m, a) = Get(n, a) /\ (a \in DOMAIN m.attrs <=> a \in DOMAIN n.attrs)
  BY DEF Alike, SameReads
<1>2. \A a, b \in ReadOfAny : GetEither(m, a, b) = GetEither(n, a, b)
  <2> TAKE a, b \in ReadOfAny
  <2>1. CASE a \in DOMAIN n.attrs
    BY <2>1, <1>1 DEF GetEither, Get
  <2>2. CASE a \notin DOMAIN n.attrs
    BY <2>2, <1>1 DEF GetEither
  <2> QED  BY <2>1, <2>2
<1>3. \A a, b \in ReadOf(n.op) : GetTruthy(m, a, b) = GetTruthy(n, a, b)
  BY <1>1 DEF GetTruthy
<1> QED  BY <1>1, <1>2, <1>3

LEMMA SameReport ==
  ASSUME NEW n, NEW m, SameFields(n, m)
  PROVE  \A a, l : Report(m, a, l) = Report(n, a, l)
BY DEF Report, SameFields

LEMMA SameKindReports ==
  ASSUME NEW n, NEW m, SameFields(n, m), NEW lvl
  PROVE  KindReports(m, lvl) = KindReports(n, lvl)
BY SameReport DEF KindReports, SameFields

LEMMA SameShardingReports ==
  ASSUME NEW n, NEW m, SameFields(n, m), NEW mesh
  PROVE  ShardingReports(m, mesh) = ShardingReports(n, mesh)
<1>1. \A axis, i : BadAxis(m, mesh, axis, i) <=> BadAxis(n, mesh, axis, i)
  BY DEF BadAxis, SameFields
<1>2. IsShaped(m) <=> IsShaped(n)
  BY DEF IsShaped, SameFields
<1>3. m.sharding = n.sharding /\ m.shape = n.shape
  BY DEF SameFields
<1> DEFINE Split(x) ==
             \/ mesh = None
             \/ IsShaped(x) /\ Len(x.sharding) > Len(x.shape)
             \/ \E i \in DOMAIN x.sharding :
                  x.sharding[i] # None /\ \E axis \in ToSet(x.sharding[i]) : BadAxis(x, mesh, axis, i)
<1>4. Split(m) <=> Split(n)
  BY <1>1, <1>2, <1>3
<1>5. \A x : ShardingReports(x, mesh) = IF x.sharding = None THEN {} ELSE If(Split(x), Report(x, "sharding", "ERROR"))
  BY DEF ShardingReports
<1> HIDE DEF Split
<1> QED  BY <1>3, <1>4, <1>5, SameReport DEF If

LEMMA SameRdnaReports ==
  ASSUME NEW n, NEW m, Alike(n, m), NEW lvl
  PROVE  RdnaReports(m, lvl) = RdnaReports(n, lvl)
<1>1. \A a \in {"wavefront_size", "register_classes", "vgpr_operands"} : Get(m, a) = Get(n, a)
  BY AlikeReads DEF ReadOfAny
<1>2. \A a, l : Report(m, a, l) = Report(n, a, l)
  BY SameReport DEF Alike
<1> QED  BY <1>1, <1>2 DEF RdnaReports

LEMMA SameSassReports ==
  ASSUME NEW n, NEW m, Alike(n, m)
  PROVE  SassReports(m) = SassReports(n)
<1>1. \A a \in {"read_barrier", "write_barrier", "wait_barrier_mask", "barrier_predicate", "warp_sync", "memory_space"} :
        Get(m, a) = Get(n, a)
  BY AlikeReads DEF ReadOfAny
<1>2. GetEither(m, "stall_count", "stall") = GetEither(n, "stall_count", "stall")
      /\ GetEither(m, "yield_flag", "yield") = GetEither(n, "yield_flag", "yield")
  BY AlikeReads DEF ReadOfAny
<1>3. \A a, l : Report(m, a, l) = Report(n, a, l)
  BY SameReport DEF Alike
<1>4. BarrierReports(m) = BarrierReports(n)
  BY <1>1, <1>3 DEF BarrierReports
<1> QED  BY <1>1, <1>2, <1>3, <1>4 DEF SassReports

LEMMA SameMemoryReports ==
  ASSUME NEW n, NEW m, Alike(n, m)
  PROVE  MemoryReports(m) = MemoryReports(n)
<1> DEFINE Mutates(x) == x.op \in MutatingOps \/ Truthy(Get(x, "is_mutating"))
<1>1. Get(m, "address_space") = Get(n, "address_space") /\ Get(m, "array_stride") = Get(n, "array_stride")
  BY AlikeReads DEF ReadOfAny
<1>2. GetEither(m, "struct_alignment", "alignment") = GetEither(n, "struct_alignment", "alignment")
  BY AlikeReads DEF ReadOfAny
<1>3. Mutates(m) <=> Mutates(n)
  BY DEF Alike, SameFields, SameFlags, Flags
<1>4. \A a : Report(m, a, "ERROR") = Report(n, a, "ERROR")
  BY SameReport DEF Alike
<1>5. \A x : If(Get(x, "address_space") \in {Str("storage, read"), Str("storage_read")} /\ Mutates(x),
                Report(x, "address_space", "ERROR"))
             = IF Mutates(x) THEN If(Get(x, "address_space") \in {Str("storage, read"), Str("storage_read")},
                                    Report(x, "address_space", "ERROR")) ELSE {}
  BY DEF If
<1> HIDE DEF Mutates
<1> DEFINE Uneven(v) == v # None /\ ~(IsInt(v) /\ v.int % 16 = 0)
           Misplaced(s, r) == If(s # None /\ s \notin {Str(a) : a \in AddressSpaces}, r)
           Padded(s, v, r) == If(s = Str("uniform") /\ Uneven(v), r)
           Stored(s, r) == If(s \in {Str("storage, read"), Str("storage_read")}, r)
<1>6. \A x : MemoryReports(x) =
                Misplaced(Get(x, "address_space"), Report(x, "address_space", "ERROR"))
                  \cup Padded(Get(x, "address_space"), GetEither(x, "struct_alignment", "alignment"),
                              Report(x, "struct_alignment", "ERROR"))
                  \cup Padded(Get(x, "address_space"), Get(x, "array_stride"), Report(x, "array_stride", "ERROR"))
                  \cup (IF Mutates(x) THEN Stored(Get(x, "address_space"), Report(x, "address_space", "ERROR")) ELSE {})
  BY <1>5 DEF MemoryReports, Mutates
<1> HIDE DEF Misplaced, Padded, Stored
<1> QED  BY <1>1, <1>2, <1>3, <1>4, <1>6

LEMMA SameWgslReports ==
  ASSUME NEW n, NEW m, Alike(n, m)
  PROVE  WgslReports(m) = WgslReports(n)
<1>1. Get(m, "workgroup_size") = Get(n, "workgroup_size") /\ Get(m, "builtin") = Get(n, "builtin")
  BY AlikeReads DEF ReadOfAny
<1>2. \A a : Report(m, a, "ERROR") = Report(n, a, "ERROR")
  BY SameReport DEF Alike
<1> QED  BY <1>1, <1>2, SameMemoryReports DEF WgslReports

LEMMA SameIsaReports ==
  ASSUME NEW n, NEW m, Alike(n, m), NEW lvl
  PROVE  IsaReports(m, lvl) = IsaReports(n, lvl)
<1>1. m.domain = n.domain
  BY DEF Alike, SameFields
<1> QED  BY <1>1, SameRdnaReports, SameSassReports, SameWgslReports DEF IsaReports, IsSass

LEMMA SameQuantizationReports ==
  ASSUME NEW n, NEW m, Alike(n, m)
  PROVE  QuantizationReports(m) = QuantizationReports(n)
<1>1. m.op = n.op /\ m.shape = n.shape
  BY DEF Alike, SameFields
<1>2. \A a, l : Report(m, a, l) = Report(n, a, l)
  BY SameReport DEF Alike
<1>3. \A axis, size : Undivided(m, axis, size) <=> Undivided(n, axis, size)
  BY <1>1 DEF Undivided, IsShaped
<1>4. ASSUME PlainOp(n.op) = "block_quantize"
      PROVE  BlockQuantizeReports(m) = BlockQuantizeReports(n)
  <2>1. Get(m, "block_size") = Get(n, "block_size")
    BY <1>4, AlikeReads DEF ReadOf
  <2>2. IntOr(Get(m, "axis"), -1) = IntOr(Get(n, "axis"), -1)
    BY <1>4 DEF Alike, SameAxis
  <2> QED  BY <1>2, <1>3, <2>1, <2>2 DEF BlockQuantizeReports
<1>5. ASSUME PlainOp(n.op) = "dequantize_grouped_int4"
      PROVE  DequantizeReports(m) = DequantizeReports(n)
  <2>1. \A a \in {"group_size", "packing_format", "scales_shape"} : Get(m, a) = Get(n, a)
    BY <1>5, AlikeReads DEF ReadOf
  <2>2. IntOr(Get(m, "axis"), 0) = IntOr(Get(n, "axis"), 0)
    BY <1>5 DEF Alike, SameAxis
  <2>3. \A axis, size : Unscaled(m, axis, size) <=> Unscaled(n, axis, size)
    BY <1>1, <2>1 DEF Unscaled, IsShaped
  <2> QED  BY <1>2, <1>3, <2>1, <2>2, <2>3 DEF DequantizeReports
<1> QED  BY <1>1, <1>4, <1>5 DEF QuantizationReports

\* No attribute that is required is given.
LEMMA SameRequiredReports ==
  ASSUME NEW n, IsNode(n)
  PROVE  RequiredReports(PopulateDefaults(n)) = RequiredReports(n)
<1> DEFINE m == PopulateDefaults(n)
<1>1. SameFields(n, m) /\ DOMAIN m.attrs = DOMAIN n.attrs \cup Missing(n)
  BY PopulatedFields
<1> HIDE DEF m
<1>2. AttributesOf(m) = AttributesOf(n)
  BY <1>1, SameSchema
<1>3. {b \in DOMAIN AttributesOf(m) : AttributesOf(m)[b].required /\ b \notin DOMAIN m.attrs}
        = {b \in DOMAIN AttributesOf(n) : AttributesOf(n)[b].required /\ b \notin DOMAIN n.attrs}
  BY <1>1, <1>2 DEF Missing
<1>4. RequiredReports(m) = RequiredReports(n)
  BY <1>1, <1>3, SameReport DEF RequiredReports
<1> QED  BY <1>4 DEF m

\* What is given has the type that is asked for.
LEMMA SameTypeReports ==
  ASSUME NEW n, IsNode(n), NEW lvl
  PROVE  TypeReports(PopulateDefaults(n), lvl) = TypeReports(n, lvl)
<1> DEFINE m == PopulateDefaults(n)
           Of(x, a) == IF a \in DOMAIN AttributesOf(x)
                       THEN If(~HasType(x.attrs[a], AttributesOf(x)[a].type), Report(x, a, "ERROR"))
                       ELSE If(a \notin Listed(IsaAllowed, x.domain), Report(x, a, Advice(lvl)))
<1>1. /\ SameFields(n, m) /\ DOMAIN m.attrs = DOMAIN n.attrs \cup Missing(n)
      /\ \A a \in Missing(n) : m.attrs[a] = AttributesOf(n)[a].default
      /\ \A a \in DOMAIN n.attrs : m.attrs[a] = n.attrs[a]
  BY PopulatedFields
<1> HIDE DEF m
<1>2. SchemaOf(m) = SchemaOf(n) /\ AttributesOf(m) = AttributesOf(n)
  BY <1>1, SameSchema
<1>3. m.domain = n.domain /\ \A a, l : Report(m, a, l) = Report(n, a, l)
  BY <1>1, SameReport DEF SameFields
<1>4. \A a \in DOMAIN n.attrs : Of(m, a) = Of(n, a)
  BY <1>1, <1>2, <1>3
<1>5. \A a \in Missing(n) : Of(m, a) = {}
  <2> TAKE a \in Missing(n)
  <2>1. a \in DOMAIN AttributesOf(m) /\ HasType(m.attrs[a], AttributesOf(m)[a].type)
    BY <1>1, <1>2, MissingIsFallback DEF Missing
  <2> QED  BY <2>1 DEF If
<1> HIDE DEF Of
<1>6. UNION {Of(m, a) : a \in DOMAIN m.attrs} = UNION {Of(n, a) : a \in DOMAIN n.attrs}
  BY <1>1, <1>4, <1>5
<1>7. \A x : TypeReports(x, lvl) = IF SchemaOf(x) = None THEN {} ELSE UNION {Of(x, a) : a \in DOMAIN x.attrs}
  BY DEF TypeReports, Of
<1> QED  BY <1>2, <1>6, <1>7 DEF m

\* Its own defaults make no difference to what is reported of a node.
LEMMA SameNodeReports ==
  ASSUME NEW n, IsNode(n), NEW mesh, NEW lvl
  PROVE  NodeReports(PopulateDefaults(n), mesh, lvl) = NodeReports(n, mesh, lvl)
<1> DEFINE m == PopulateDefaults(n)
<1>1. Alike(n, m) /\ SameFields(n, m)
  BY PopulatedIsAlike DEF Alike
<1>2. RequiredReports(m) = RequiredReports(n) /\ TypeReports(m, lvl) = TypeReports(n, lvl)
  BY SameRequiredReports, SameTypeReports
<1> HIDE DEF m
<1>3. /\ KindReports(m, lvl) = KindReports(n, lvl) /\ ShardingReports(m, mesh) = ShardingReports(n, mesh)
      /\ IsaReports(m, lvl) = IsaReports(n, lvl) /\ QuantizationReports(m) = QuantizationReports(n)
  BY <1>1, SameKindReports, SameShardingReports, SameIsaReports, SameQuantizationReports
<1>4. m.op = n.op /\ m.shape = n.shape /\ \A a, l : Report(m, a, l) = Report(n, a, l)
  BY <1>1, SameReport DEF SameFields
<1>5. NodeReports(m, mesh, lvl) = NodeReports(n, mesh, lvl)
  BY <1>2, <1>3, <1>4 DEF NodeReports
<1> QED  BY <1>5 DEF m

\* Two graphs of the same nodes, but for attributes that make no difference.
AlikeGraphs(g, h) ==
  /\ Len(g) \in Nat /\ DOMAIN g = 1 .. Len(g)
  /\ Len(h) = Len(g) /\ DOMAIN h = DOMAIN g
  /\ \A i \in DOMAIN g : Alike(g[i], h[i]) /\ g[i] # None /\ h[i] # None

\* A name is found at the same place in both, and stands for the same port.
LEMMA AlikePlaces ==
  ASSUME NEW g, NEW h, AlikeGraphs(g, h), NEW name
  PROVE  /\ ProducerAt(h, name) = ProducerAt(g, name) /\ ProducerAt(g, name) \subseteq DOMAIN g
         /\ PortIndex(h, name) = PortIndex(g, name)
<1> DEFINE making == Making(g, name)
           last == Max(making)
<1>1. /\ Len(g) \in Nat /\ DOMAIN g = 1 .. Len(g) /\ DOMAIN h = DOMAIN g
      /\ \A i \in DOMAIN g : h[i].id = g[i].id /\ h[i].outputs = g[i].outputs
  BY DEF AlikeGraphs, Alike, SameFields
<1>2. \A id : Named(h, id) = Named(g, id) /\ Named(g, id) \subseteq DOMAIN g
  BY <1>1 DEF Named
<1>3. Making(h, name) = making /\ making \subseteq 1 .. Len(g)
  BY <1>1 DEF Making
<1>4. NamedByToken(h, name) = NamedByToken(g, name) /\ NamedByToken(g, name) \subseteq DOMAIN g
  BY <1>2 DEF NamedByToken
<1> HIDE DEF making
<1>5. ASSUME making # {}
      PROVE  last \in making
  <2>1. \E x \in making : \A y \in making : y <= x
    BY <1>1, <1>3, <1>5, Fold!GreatestExists
  <2>2. \A x, y \in making : y <= x <=> x >= y
    BY <1>3
  <2>3. \E x \in making : \A y \in making : x >= y
    BY <2>1, <2>2
  <2> QED  BY <2>3 DEF Max
<1> HIDE DEF last
<1>6. making # {} => h[last].outputs = g[last].outputs /\ last \in DOMAIN g
  BY <1>1, <1>3, <1>5
<1>7. PortIndex(h, name) = PortIndex(g, name)
  BY <1>3, <1>4, <1>6 DEF PortIndex, making, last
<1>8. ProducerAt(h, name) = ProducerAt(g, name)
  BY <1>2, <1>3, <1>4 DEF ProducerAt, making
<1>9. ProducerAt(g, name) \subseteq DOMAIN g
  BY <1>2, <1>4, <1>6 DEF ProducerAt, making, last
<1> QED  BY <1>7, <1>8, <1>9

\* A name has a producer in both or in none, and the producers are alike.
LEMMA AlikeProducers ==
  ASSUME NEW g, NEW h, AlikeGraphs(g, h), NEW name
  PROVE  LET p == ProducerOf(g, name)
             q == ProducerOf(h, name)
         IN  (p = None <=> q = None) /\ (p # None => Alike(p, q))
<1> DEFINE at == ProducerAt(g, name)
<1>1. ProducerAt(h, name) = at /\ at \subseteq DOMAIN g
  BY AlikePlaces
<1>2. \A f : ProducerOf(f, name) = IF ProducerAt(f, name) = {} THEN None
                                   ELSE f[CHOOSE i \in ProducerAt(f, name) : TRUE]
  BY DEF ProducerOf
<1>3. CASE at = {}
  BY <1>1, <1>2, <1>3
<1>4. CASE at # {}
  <2>1. PICK i : i = CHOOSE j \in at : TRUE
    OBVIOUS
  <2>2. i \in DOMAIN g
    BY <1>1, <1>4, <2>1
  <2>3. ProducerOf(g, name) = g[i] /\ ProducerOf(h, name) = h[i]
    BY <1>1, <1>2, <1>4, <2>1
  <2> QED  BY <2>2, <2>3 DEF AlikeGraphs
<1> QED  BY <1>3, <1>4

LEMMA SameEdgeReports ==
  ASSUME NEW g, NEW h, AlikeGraphs(g, h), NEW inputs
  PROVE  EdgeReports(h, inputs) = EdgeReports(g, inputs)
<1> DEFINE Of(f, i) ==
             If(\E name \in ToSet(f[i].inputs) : IsDangling(f, inputs, name), Report(f[i], "inputs", "ERROR"))
               \cup If(\E name \in ToSet(f[i].inputs) : IsOutOfBounds(f, name), Report(f[i], "edges", "ERROR"))
<1>1. \A name : IsDangling(h, inputs, name) <=> IsDangling(g, inputs, name)
  BY AlikeProducers DEF IsDangling
<1>2. DOMAIN h = DOMAIN g /\ \A i \in DOMAIN g : SameFields(g[i], h[i])
  BY DEF AlikeGraphs, Alike
<1>3. \A p, q : Alike(p, q) => PortCount(q) = PortCount(p)
  BY DEF Alike, SameFields, PortCount
<1>4. ASSUME NEW name
      PROVE  IsOutOfBounds(h, name) <=> IsOutOfBounds(g, name)
  <2> DEFINE p == ProducerOf(g, name)
             q == ProducerOf(h, name)
  <2>1. (p = None <=> q = None) /\ (p # None => PortCount(q) = PortCount(p))
    BY <1>3, AlikeProducers
  <2>2. PortIndex(h, name) = PortIndex(g, name)
    BY AlikePlaces
  <2> HIDE DEF p, q
  <2> QED  BY <2>1, <2>2 DEF IsOutOfBounds, p, q
<1>5. ASSUME NEW i \in DOMAIN g
      PROVE  Of(h, i) = Of(g, i)
  <2>1. h[i].inputs = g[i].inputs /\ \A a, l : Report(h[i], a, l) = Report(g[i], a, l)
    BY <1>2, SameReport DEF SameFields
  <2> QED  BY <1>1, <1>4, <2>1 DEF If
<1>6. \A f : EdgeReports(f, inputs) = UNION {Of(f, i) : i \in DOMAIN f}
  BY DEF EdgeReports
<1> HIDE DEF Of
<1> QED  BY <1>2, <1>5, <1>6

-----------------------------------------------------------------------------
(* The scoreboard.                                                         *)

LEMMA SameScoreStep ==
  ASSUME NEW n, NEW m, Alike(n, m), NEW lvl, NEW board
  PROVE  ScoreStep(board, m, lvl) = ScoreStep(board, n, lvl)
<1>1. \A a \in {"dst_reg", "dst", "src_regs", "srcs", "wait_barrier_mask", "stall_count", "stall", "write_barrier"} :
        Get(m, a) = Get(n, a)
  BY AlikeReads DEF ReadOfAny
<1>2. m.op = n.op /\ m.inputs = n.inputs /\ m.outputs = n.outputs
  BY DEF Alike, SameFields
<1>3. \A role : SassRegisters(m, role) = SassRegisters(n, role)
  BY <1>1, <1>2 DEF SassRegisters
<1>4. WaitedBarriers(m) = WaitedBarriers(n)
  BY <1>1 DEF WaitedBarriers
<1>5. StallOf(m) = StallOf(n) /\ BarrierOf(m) = BarrierOf(n) /\ LatencyOf(m) = LatencyOf(n)
  BY <1>1, <1>2 DEF StallOf, BarrierOf, LatencyOf
<1>6. \A a, l : Report(m, a, l) = Report(n, a, l)
  BY SameReport DEF Alike
<1> DEFINE Step(src, dst, waited, latency, barrier, stall, report) ==
             LET live == {r \in DOMAIN board.pending : board.pending[r].barrier \notin waited}
                 clashes == src \cap live
                 Write(r) == IF r \in dst THEN [left |-> latency, barrier |-> barrier] ELSE board.pending[r]
                 kept == {r \in live \cup dst : Write(r).left > stall}
             IN  Board([r \in kept |-> [Write(r) EXCEPT !.left = @ - stall]],
                       board.reports \cup If(clashes # {}, report))
<1>7. \A x : ScoreStep(board, x, lvl)
              = Step(SassRegisters(x, "src"), SassRegisters(x, "dst"), WaitedBarriers(x), LatencyOf(x),
                     BarrierOf(x), StallOf(x), Report(x, "scoreboarding", Advice(lvl)))
  BY DEF ScoreStep
<1> HIDE DEF Step
<1> QED  BY <1>3, <1>4, <1>5, <1>6, <1>7

\* The boards of two graphs satisfy the same equations, so they are the same.
LEMMA SameScoreboardReports ==
  ASSUME NEW g, NEW h, AlikeGraphs(g, h), NEW lvl
  PROVE  ScoreboardReports(h, lvl) = ScoreboardReports(g, lvl)
<1> DEFINE n == Len(g)
           Boards(x, f) == [k \in 0 .. n |->
                              IF k = 0 THEN Board([r \in {} |-> None], {})
                              ELSE IF IsSass(x[k]) THEN ScoreStep(f[k - 1], x[k], lvl) ELSE f[k - 1]]
<1>1. n \in Nat /\ Len(h) = n /\ \A k \in 1 .. n : Alike(g[k], h[k])
  BY DEF AlikeGraphs
<1>2. \A k \in 1 .. n : IsSass(h[k]) <=> IsSass(g[k])
  BY <1>1 DEF Alike, SameFields, IsSass
<1>3. \A k \in 1 .. n : \A board : ScoreStep(board, h[k], lvl) = ScoreStep(board, g[k], lvl)
  BY <1>1, SameScoreStep
<1>4. \A f : Boards(h, f) = Boards(g, f)
  <2> TAKE f
  <2>1. \A k \in 0 .. n : k # 0 => k \in 1 .. n
    BY <1>1
  <2> QED  BY <1>2, <1>3, <2>1
<1>5. \A x : Len(x) = n => ScoreboardReports(x, lvl) = (CHOOSE f : f = Boards(x, f))[n].reports
  BY DEF ScoreboardReports
<1> HIDE DEF Boards, n
<1>6. (CHOOSE f : f = Boards(h, f)) = (CHOOSE f : f = Boards(g, f))
  BY <1>4
<1> QED  BY <1>1, <1>5, <1>6 DEF n

-----------------------------------------------------------------------------
(* The rules on edges.                                                     *)

\* What a rule sees of the producer of a name.
LEMMA ProducerFields ==
  ASSUME NEW g, NEW h, AlikeGraphs(g, h), NEW name
  PROVE  LET p == ProducerOf(g, name)
             q == ProducerOf(h, name)
         IN  /\ q = None <=> p = None
             /\ p # None => q.shape = p.shape /\ q.sharding = p.sharding
BY AlikeProducers DEF Alike, SameFields

LEMMA SameElementwiseReports ==
  ASSUME NEW g, NEW h, AlikeGraphs(g, h), NEW n, NEW m, Alike(n, m), NEW lvl
  PROVE  ElementwiseReports(m, h, lvl) = ElementwiseReports(n, g, lvl)
<1> DEFINE Other(x, f, i) ==
             LET p == ProducerOf(f, x.inputs[i]) IN p # None /\ p.sharding # None /\ p.sharding # x.sharding
           Differs(x, f) == \E i \in DOMAIN x.inputs : Other(x, f, i)
<1>1. m.inputs = n.inputs /\ m.sharding = n.sharding /\ \A a, l : Report(m, a, l) = Report(n, a, l)
  BY SameReport DEF Alike, SameFields
<1>2. \A i : Other(m, h, i) <=> Other(n, g, i)
  BY <1>1, ProducerFields
<1>3. \A x, f : (\E p \in ShardedInputs(x, f) : p.sharding # x.sharding) <=> Differs(x, f)
  BY DEF ShardedInputs
<1> HIDE DEF Other
<1>4. Differs(m, h) <=> Differs(n, g)
  BY <1>1, <1>2
<1> HIDE DEF Differs
<1> QED  BY <1>1, <1>3, <1>4 DEF ElementwiseReports, If

LEMMA SameContractionReports ==
  ASSUME NEW g, NEW h, AlikeGraphs(g, h), NEW n, NEW m, Alike(n, m)
  PROVE  ContractionReports(m, h) = ContractionReports(n, g)
<1> DEFINE Axes(x, f) ==
             <<ContractAxis(ProducerOf(f, x.inputs[1]).sharding, Truthy(Get(x, "transA"))),
               ContractAxis(ProducerOf(f, x.inputs[2]).sharding, ~Truthy(Get(x, "transB")))>>
           Idle(x, f) == \/ Len(x.inputs) < 2
                         \/ None \in {ProducerOf(f, x.inputs[1]), ProducerOf(f, x.inputs[2])}
           Whole(x, f) == None \in {ProducerOf(f, x.inputs[1]).sharding, ProducerOf(f, x.inputs[2]).sharding}
<1>1. m.inputs = n.inputs /\ \A a, l : Report(m, a, l) = Report(n, a, l)
  BY SameReport DEF Alike, SameFields
<1>2. (Truthy(Get(m, "transA")) <=> Truthy(Get(n, "transA"))) /\ (Truthy(Get(m, "transB")) <=> Truthy(Get(n, "transB")))
  BY DEF Alike, SameFlags, Flags
<1>3. Idle(m, h) <=> Idle(n, g)
  BY <1>1, ProducerFields
<1>4. ASSUME ~Idle(n, g)
      PROVE  (Whole(m, h) <=> Whole(n, g)) /\ Axes(m, h) = Axes(n, g)
  <2>1. /\ ProducerOf(h, m.inputs[1]).sharding = ProducerOf(g, n.inputs[1]).sharding
        /\ ProducerOf(h, m.inputs[2]).sharding = ProducerOf(g, n.inputs[2]).sharding
    BY <1>1, <1>4, ProducerFields
  <2>2. \A s : /\ ContractAxis(s, Truthy(Get(m, "transA"))) = ContractAxis(s, Truthy(Get(n, "transA")))
               /\ ContractAxis(s, ~Truthy(Get(m, "transB"))) = ContractAxis(s, ~Truthy(Get(n, "transB")))
    BY <1>2 DEF ContractAxis
  <2> QED  BY <2>1, <2>2
<1>5. \A x, f : ContractionReports(x, f)
                = IF Idle(x, f) \/ Whole(x, f) THEN {}
                  ELSE If(None \notin ToSet(Axes(x, f)) /\ Axes(x, f)[1] # Axes(x, f)[2],
                          Report(x, "sharding_propagation", "ERROR"))
  BY DEF ContractionReports
<1> HIDE DEF Idle, Whole, Axes
<1> QED  BY <1>1, <1>3, <1>4, <1>5 DEF If

LEMMA SameReductionReports ==
  ASSUME NEW g, NEW h, AlikeGraphs(g, h), NEW n, NEW m, Alike(n, m)
  PROVE  ReductionReports(m, h) = ReductionReports(n, g)
<1> DEFINE Kept(v, in, out) == /\ IsNat(v) /\ v.int < Len(in)
                               /\ in[v.int + 1] # None /\ in[v.int + 1] \in ToSet(out)
           Keeps(x, in) == in # None /\ \E v \in ToSet(Get(x, "axes").list) : Kept(v, in, x.sharding)
<1>1. /\ m.inputs = n.inputs /\ m.sharding = n.sharding
      /\ \A a, l : Report(m, a, l) = Report(n, a, l)
  BY SameReport DEF Alike, SameFields
<1>2. Get(m, "axes") = Get(n, "axes")
  BY AlikeReads DEF ReadOfAny
<1>3. \A in : Keeps(m, in) <=> Keeps(n, in)
  BY <1>1, <1>2
<1>4. \A x, f : ReductionReports(x, f)
                = IF ~Is(Get(x, "axes"), "list") \/ ProducerOf(f, x.inputs[1]) = None THEN {}
                  ELSE If(Keeps(x, ProducerOf(f, x.inputs[1]).sharding), Report(x, "sharding_propagation", "ERROR"))
  BY DEF ReductionReports
<1> HIDE DEF Keeps
<1> QED  BY <1>1, <1>2, <1>3, <1>4, ProducerFields DEF If

LEMMA SameGatherReports ==
  ASSUME NEW g, NEW h, AlikeGraphs(g, h), NEW n, NEW m, Alike(n, m), PlainOp(n.op) \in {"all_gather", "reduce_scatter"},
         NEW mesh, NEW gather
  PROVE  GatherReports(m, h, mesh, gather) = GatherReports(n, g, mesh, gather)
<1> DEFINE Dim(x) == IF Get(x, "axis") # None THEN Get(x, "axis")
                     ELSE Get(x, IF gather THEN "gather_dim" ELSE "scatter_dim")
           Within(dim, s) == s # None /\ 0 <= NumberOf(dim) /\ NumberOf(dim) < Len(s)
           Found(x, dim, axis, from, to) ==
             LET in == from[NumberOf(dim) + 1]
                 out == to[NumberOf(dim) + 1]
             IN  IF ~Within(dim, from) \/ ~Within(dim, to) \/ ~IsSize(in) \/ ~IsSize(out) THEN {}
                 ELSE If(IF gather THEN out # in * mesh[axis.str] ELSE in # out * mesh[axis.str],
                         Report(x, IF gather THEN "gather_dim" ELSE "scatter_dim", "ERROR"))
           OnMesh(axis) == Is(axis, "str") /\ axis.str \in DOMAIN mesh
           Idle(x, f) == \/ ~IsNumber(Dim(x)) \/ None \in {mesh, Get(x, "mesh_axis")} \/ x.inputs = <<>>
                         \/ ~OnMesh(Get(x, "mesh_axis"))
                         \/ ProducerOf(f, x.inputs[1]) = None
           Result(x, f) == Found(x, Dim(x), Get(x, "mesh_axis"), ProducerOf(f, x.inputs[1]).shape, x.shape)
<1>1. m.inputs = n.inputs /\ m.shape = n.shape /\ \A a, l : Report(m, a, l) = Report(n, a, l)
  BY SameReport DEF Alike, SameFields
<1>2. \A a \in {"axis", "mesh_axis", "gather_dim", "scatter_dim"} : Get(m, a) = Get(n, a)
  BY AlikeReads DEF ReadOf
<1>3. Dim(m) = Dim(n)
  BY <1>2
<1>4. \A dim, axis, from, to : Found(m, dim, axis, from, to) = Found(n, dim, axis, from, to)
  BY <1>1
<1>5. /\ ProducerOf(h, m.inputs[1]) = None <=> ProducerOf(g, n.inputs[1]) = None
      /\ ProducerOf(g, n.inputs[1]) # None =>
           ProducerOf(h, m.inputs[1]).shape = ProducerOf(g, n.inputs[1]).shape
  BY <1>1, ProducerFields
<1>6. Get(m, "mesh_axis") = Get(n, "mesh_axis")
  BY <1>2
<1>7. Idle(m, h) <=> Idle(n, g)
  BY <1>1, <1>3, <1>5, <1>6
<1>8. ASSUME ~Idle(n, g)
      PROVE  Result(m, h) = Result(n, g)
  <2>1. ProducerOf(h, m.inputs[1]).shape = ProducerOf(g, n.inputs[1]).shape
    BY <1>5, <1>8
  <2> HIDE DEF Found, Dim
  <2> QED  BY <1>1, <1>3, <1>4, <1>6, <2>1
<1>9. \A x, f : GatherReports(x, f, mesh, gather) = IF Idle(x, f) THEN {} ELSE Result(x, f)
  BY DEF GatherReports
<1> HIDE DEF Idle, Result
<1> QED  BY <1>7, <1>8, <1>9

LEMMA SameCollectiveReports ==
  ASSUME NEW g, NEW h, AlikeGraphs(g, h), NEW n, NEW m, Alike(n, m), NEW mesh
  PROVE  CollectiveReports(m, h, mesh) = CollectiveReports(n, g, mesh)
<1>1. m.op = n.op /\ m.shape = n.shape /\ \A a, l : Report(m, a, l) = Report(n, a, l)
  BY SameReport DEF Alike, SameFields
<1>2. CASE PlainOp(n.op) = "all_reduce"
  <2>1. Get(m, "reduction") = Get(n, "reduction") /\ Get(m, "op") = Get(n, "op")
        /\ GetTruthy(m, "axis", "mesh_axis") = GetTruthy(n, "axis", "mesh_axis")
    BY <1>2, AlikeReads DEF ReadOf
  <2> QED  BY <1>1, <1>2, <2>1 DEF CollectiveReports
<1>3. CASE PlainOp(n.op) \in {"all_gather", "reduce_scatter"}
  <2>1. GatherReports(m, h, mesh, PlainOp(n.op) = "all_gather") = GatherReports(n, g, mesh, PlainOp(n.op) = "all_gather")
    BY <1>3, SameGatherReports
  <2> QED  BY <1>1, <1>3, <2>1 DEF CollectiveReports
<1>4. CASE PlainOp(n.op) = "all_to_all"
  <2>1. GetTruthy(m, "split_axis", "split_dim") = GetTruthy(n, "split_axis", "split_dim")
        /\ GetTruthy(m, "concat_axis", "concat_dim") = GetTruthy(n, "concat_axis", "concat_dim")
    BY <1>4, AlikeReads DEF ReadOf
  <2> QED  BY <1>1, <1>4, <2>1 DEF CollectiveReports
<1>5. CASE PlainOp(n.op) \notin {"all_reduce", "all_gather", "reduce_scatter", "all_to_all"}
  BY <1>1, <1>5 DEF CollectiveReports
<1> QED  BY <1>2, <1>3, <1>4, <1>5

LEMMA SamePropagationReports ==
  ASSUME NEW g, NEW h, AlikeGraphs(g, h), NEW mesh, NEW lvl
  PROVE  PropagationReports(h, mesh, lvl) = PropagationReports(g, mesh, lvl)
<1> DEFINE Of(x, f) ==
             CASE x.op \in ElementwiseOps -> ElementwiseReports(x, f, lvl)
               [] x.op \in {"MatMul", "Gemm"} -> ContractionReports(x, f)
               [] x.op \in ReductionOps ->
                    IF x.sharding # None /\ x.inputs # <<>> THEN ReductionReports(x, f)
                    ELSE CollectiveReports(x, f, mesh)
               [] OTHER -> CollectiveReports(x, f, mesh)
<1>1. DOMAIN h = DOMAIN g /\ \A i \in DOMAIN g : Alike(g[i], h[i])
  BY DEF AlikeGraphs
<1>2. ASSUME NEW i \in DOMAIN g
      PROVE  Of(h[i], h) = Of(g[i], g)
  <2>1. h[i].op = g[i].op /\ h[i].sharding = g[i].sharding /\ h[i].inputs = g[i].inputs
    BY <1>1 DEF Alike, SameFields
  <2>2. /\ ElementwiseReports(h[i], h, lvl) = ElementwiseReports(g[i], g, lvl)
        /\ ContractionReports(h[i], h) = ContractionReports(g[i], g)
        /\ ReductionReports(h[i], h) = ReductionReports(g[i], g)
        /\ CollectiveReports(h[i], h, mesh) = CollectiveReports(g[i], g, mesh)
    BY <1>1, SameElementwiseReports, SameContractionReports, SameReductionReports, SameCollectiveReports
  <2> QED  BY <2>1, <2>2
<1>3. \A f : PropagationReports(f, mesh, lvl) = UNION {Of(f[i], f) : i \in DOMAIN f}
  BY DEF PropagationReports
<1> HIDE DEF Of
<1>4. {Of(h[i], h) : i \in DOMAIN h} = {Of(g[i], g) : i \in DOMAIN g}
  BY <1>1, <1>2
<1> QED  BY <1>3, <1>4

LEMMA SamePipelineReports ==
  ASSUME NEW g, NEW h, AlikeGraphs(g, h)
  PROVE  PipelineReports(h) = PipelineReports(g)
<1> DEFINE StageAt(f, x, i) == LET p == ProducerOf(f, x.inputs[i]) IN p # None /\ IsInt(Stage(p))
           Before(x, f) ==
             {Stage(p).int : p \in {q \in {p \in {ProducerOf(f, x.inputs[i]) : i \in DOMAIN x.inputs} : p # None} :
                                      IsInt(Stage(q))}}
           BeforeAt(x, f) == {Stage(ProducerOf(f, x.inputs[i])).int : i \in {j \in DOMAIN x.inputs : StageAt(f, x, j)}}
           Bounded(x) == Truthy(Get(x, "pipeline_boundary")) \/ x.op \in {"P2P", "collective.all_to_all"}
<1>1. DOMAIN h = DOMAIN g /\ \A i \in DOMAIN g : Alike(g[i], h[i])
  BY DEF AlikeGraphs
<1>2. \A n, m : Alike(n, m) => Stage(m) = Stage(n)
  BY AlikeReads DEF Stage, ReadOfAny
<1>3. \A name : /\ ProducerOf(h, name) = None <=> ProducerOf(g, name) = None
                /\ ProducerOf(g, name) # None => Stage(ProducerOf(h, name)) = Stage(ProducerOf(g, name))
  BY <1>2, AlikeProducers
<1>4. \A x, f : Before(x, f) = BeforeAt(x, f)
  OBVIOUS
<1>5. \A n, m : Alike(n, m) => CheckpointReports(m) = CheckpointReports(n)
  <2> SUFFICES ASSUME NEW n, NEW m, Alike(n, m)
               PROVE  CheckpointReports(m) = CheckpointReports(n)
    OBVIOUS
  <2>1. GetEither(m, "activation_checkpoint", "checkpoint_policy") = GetEither(n, "activation_checkpoint", "checkpoint_policy")
    BY AlikeReads DEF ReadOfAny
  <2>2. \A a, l : Report(m, a, l) = Report(n, a, l)
    BY SameReport DEF Alike
  <2> QED  BY <2>1, <2>2 DEF CheckpointReports
<1>6. \A n, m : Alike(n, m) => StageReports(m, h) = StageReports(n, g)
  <2> SUFFICES ASSUME NEW n, NEW m, Alike(n, m)
               PROVE  StageReports(m, h) = StageReports(n, g)
    OBVIOUS
  <2>1. m.inputs = n.inputs /\ m.op = n.op /\ \A a, l : Report(m, a, l) = Report(n, a, l)
    BY SameReport DEF Alike, SameFields
  <2>2. Bounded(m) <=> Bounded(n)
    BY <2>1 DEF Alike, SameFlags, Flags
  <2>3. BeforeAt(m, h) = BeforeAt(n, g)
    BY <1>3, <2>1
  <2>4. \A x, f : StageReports(x, f)
                  = IF Stage(x) = None THEN {}
                    ELSE IF ~IsNat(Stage(x)) THEN {Report(x, "pipeline_stage", "ERROR")}
                    ELSE If(\E s \in Before(x, f) : s > Stage(x).int, Report(x, "pipeline_stage", "ERROR"))
                           \cup If(~Bounded(x) /\ \E s \in Before(x, f) : Stage(x).int - s > 1,
                                   Report(x, "pipeline_boundary", "WARNING"))
    BY DEF StageReports
  <2> HIDE DEF Before, BeforeAt, Bounded
  <2>5. Before(m, h) = Before(n, g)
    BY <1>4, <2>3
  <2> QED  BY <1>2, <2>1, <2>2, <2>4, <2>5 DEF If
<1>7. \A i \in DOMAIN g : CheckpointReports(h[i]) \cup StageReports(h[i], h)
                            = CheckpointReports(g[i]) \cup StageReports(g[i], g)
  BY <1>1, <1>5, <1>6
<1> QED  BY <1>1, <1>7 DEF PipelineReports

-----------------------------------------------------------------------------
(* Graphs with and without their defaults.                                 *)

\* A node with its defaults is a node, and is given nothing more.
LEMMA PopulatedTwice ==
  ASSUME NEW n, IsNode(n)
  PROVE  PopulateDefaults(PopulateDefaults(n)) = PopulateDefaults(n) /\ IsNode(PopulateDefaults(n))
<1> DEFINE m == PopulateDefaults(n)
<1>1. /\ SameFields(n, m) /\ DOMAIN m = DOMAIN n
      /\ m = [f \in DOMAIN n |-> m[f]]
      /\ DOMAIN m.attrs = DOMAIN n.attrs \cup Missing(n)
      /\ m.attrs = [a \in DOMAIN m.attrs |-> m.attrs[a]]
  BY PopulatedFields
<1>2. Fields \subseteq DOMAIN n /\ m # None
  BY DEF IsNode
<1> HIDE DEF m
<1>3. AttributesOf(m) = AttributesOf(n)
  BY <1>1, SameSchema
<1>4. Missing(m) = {}
  BY <1>1, <1>3 DEF Missing
<1>5. PopulateDefaults(m) = [m EXCEPT !.attrs = [a \in DOMAIN m.attrs \cup Missing(m) |->
                                 IF a \in Missing(m) THEN AttributesOf(m)[a].default ELSE m.attrs[a]]]
  BY DEF PopulateDefaults, Missing
<1>6. [a \in DOMAIN m.attrs \cup Missing(m) |->
         IF a \in Missing(m) THEN AttributesOf(m)[a].default ELSE m.attrs[a]] = m.attrs
  BY <1>1, <1>4
<1>7. PopulateDefaults(m) = [m EXCEPT !.attrs = m.attrs]
  BY <1>5, <1>6
<1>8. PopulateDefaults(m) = m
  BY <1>1, <1>7
<1>9. IsNode(m)
  BY <1>1, <1>2, <1>8 DEF IsNode
<1> QED  BY <1>8, <1>9 DEF m

OfNodes(g) == g \in Seq(ToSet(g)) /\ \A i \in DOMAIN g : IsNode(g[i])

LEMMA PopulatedGraph ==
  ASSUME NEW g, OfNodes(g), NEW populate
  PROVE  OfNodes(Populated(g, populate)) /\ AlikeGraphs(g, Populated(g, TRUE))
<1> DEFINE h == [i \in DOMAIN g |-> PopulateDefaults(g[i])]
<1>1. Len(g) \in Nat /\ DOMAIN g = 1 .. Len(g) /\ \A i \in DOMAIN g : IsNode(g[i])
  BY SequenceFacts DEF OfNodes
<1>2. DOMAIN h = DOMAIN g /\ Len(h) = Len(g) /\ \A i \in DOMAIN g : h[i] = PopulateDefaults(g[i])
  BY <1>1
<1>3. Populated(g, TRUE) = h /\ Populated(g, populate) \in {g, h}
  BY DEF Populated
<1> HIDE DEF h
<1>4. \A i \in DOMAIN g : Alike(g[i], h[i]) /\ IsNode(h[i]) /\ g[i] # None /\ h[i] # None
  <2> TAKE i \in DOMAIN g
  <2>1. IsNode(g[i]) /\ h[i] = PopulateDefaults(g[i])
    BY <1>1, <1>2
  <2>2. Alike(g[i], h[i]) /\ IsNode(h[i])
    BY <2>1, PopulatedIsAlike, PopulatedTwice
  <2> QED  BY <2>1, <2>2 DEF IsNode
<1>5. AlikeGraphs(g, h)
  BY <1>1, <1>2, <1>4 DEF AlikeGraphs
<1>6. OfNodes(h)
  <2>1. h \in Seq(ToSet(h))
    BY <1>3, PopulatedSequence DEF OfNodes
  <2> QED  BY <2>1, <1>2, <1>4 DEF OfNodes
<1> QED  BY <1>3, <1>5, <1>6

\* Giving defaults on the way makes no difference, nor does having given them before.
LEMMA SameGraphReports ==
  ASSUME NEW g, OfNodes(g), NEW inputs, NEW mesh, NEW lvl,
         NEW p, p \in BOOLEAN, NEW q, q \in BOOLEAN
  PROVE  GraphReports(Populated(g, p), inputs, mesh, lvl, q) = GraphReports(g, inputs, mesh, lvl, FALSE)
<1> DEFINE Rest(f) == EdgeReports(f, inputs) \cup ScoreboardReports(f, lvl)
                        \cup PropagationReports(f, mesh, lvl) \cup PipelineReports(f)
           Own(f) == UNION {NodeReports(f[i], mesh, lvl) : i \in DOMAIN f}
           Given(f) == Populated(f, TRUE)
<1>1. \A f : /\ GraphReports(f, inputs, mesh, lvl, TRUE) = Filtered(Own(f) \cup Rest(Given(f)), lvl)
             /\ GraphReports(f, inputs, mesh, lvl, FALSE) = Filtered(Own(f) \cup Rest(f), lvl)
  BY DEF GraphReports, Populated
<1>2. ASSUME NEW f, OfNodes(f)
      PROVE  Own(Given(f)) = Own(f) /\ Rest(Given(f)) = Rest(f) /\ OfNodes(Given(f))
  <2> DEFINE h == Given(f)
  <2>1. AlikeGraphs(f, h) /\ OfNodes(h)
    BY <1>2, PopulatedGraph
  <2>2. Own(h) = Own(f)
    <3>1. DOMAIN h = DOMAIN f /\ \A i \in DOMAIN f : h[i] = PopulateDefaults(f[i])
      BY DEF Populated
    <3> HIDE DEF h
    <3>2. ASSUME NEW i \in DOMAIN f
          PROVE  NodeReports(h[i], mesh, lvl) = NodeReports(f[i], mesh, lvl)
      <4>1. IsNode(f[i]) /\ h[i] = PopulateDefaults(f[i])
        BY <1>2, <3>1 DEF OfNodes
      <4> QED  BY <4>1, SameNodeReports
    <3>3. {NodeReports(h[i], mesh, lvl) : i \in DOMAIN h} = {NodeReports(f[i], mesh, lvl) : i \in DOMAIN f}
      BY <3>1, <3>2
    <3> QED  BY <3>3
  <2> HIDE DEF h
  <2>3. /\ EdgeReports(h, inputs) = EdgeReports(f, inputs)
        /\ ScoreboardReports(h, lvl) = ScoreboardReports(f, lvl)
        /\ PropagationReports(h, mesh, lvl) = PropagationReports(f, mesh, lvl)
        /\ PipelineReports(h) = PipelineReports(f)
    BY <2>1, SameEdgeReports, SameScoreboardReports, SamePropagationReports, SamePipelineReports
  <2>4. Rest(h) = Rest(f)
    BY <2>3
  <2> QED  BY <2>1, <2>2, <2>4 DEF h
<1>3. \A f : Populated(f, FALSE) = f /\ Populated(f, TRUE) = Given(f)
  BY DEF Populated
<1> HIDE DEF Rest, Own, Given
<1>4. ASSUME NEW f, OfNodes(f), NEW r \in BOOLEAN
      PROVE  GraphReports(f, inputs, mesh, lvl, r) = GraphReports(f, inputs, mesh, lvl, FALSE)
  <2>1. CASE r = TRUE
    BY <2>1, <1>1, <1>2, <1>4
  <2>2. CASE r = FALSE
    BY <2>2
  <2> QED  BY <2>1, <2>2, <1>4
<1>5. OfNodes(Given(g))
      /\ GraphReports(Given(g), inputs, mesh, lvl, FALSE) = GraphReports(g, inputs, mesh, lvl, FALSE)
  BY <1>1, <1>2
<1>6. CASE p = TRUE
  BY <1>3, <1>4, <1>5, <1>6
<1>7. CASE p = FALSE
  BY <1>3, <1>4, <1>7
<1> QED  BY <1>6, <1>7

\* The nodes of the graph are nodes, and its reports stand with or without defaults.
Settled == family \in Family /\ OfNodes(graph) /\ ReportsIgnoreDefaults

LEMMA AddNodeKeepsSettled ==
  ASSUME Settled, NEW node \in family, AddNode(node)
  PROVE  Settled'
<1> DEFINE new == [node EXCEPT !.id = NodeId[Len(graph) + 1]]
<1>1. graph' = Append(graph, new) /\ reports' = None /\ family' = family /\ Len(graph) < Len(NodeId)
  BY DEF AddNode
<1>2. Len(graph) \in Nat /\ DOMAIN graph = 1 .. Len(graph) /\ \A i \in DOMAIN graph : IsNode(graph[i])
  BY SequenceFacts DEF Settled, OfNodes
<1>3. Len(graph) + 1 \in DOMAIN NodeId
  <2>1. Len(NodeId) \in Nat /\ DOMAIN NodeId = 1 .. Len(NodeId)
    BY NodeAssumption, SequenceFacts
  <2> QED  BY <1>1, <1>2, <2>1
<1>4. IsNode(new)
  <2>1. NodeId[Len(graph) + 1] \in ToSet(NodeId)
    BY <1>3 DEF ToSet
  <2> QED  BY <2>1, NodeAssumption DEF Settled
<1> HIDE DEF new
<1>5. graph' \in Seq(ToSet(graph'))
  BY <1>1, SequenceFacts DEF Settled, OfNodes
<1>6. DOMAIN graph' = 1 .. Len(graph) + 1 /\ graph'[Len(graph) + 1] = new
      /\ \A i \in 1 .. Len(graph) : graph'[i] = graph[i]
  BY <1>1, <1>2 DEF Settled, OfNodes
<1>7. \A i \in DOMAIN graph' : IsNode(graph'[i])
  <2> TAKE i \in DOMAIN graph'
  <2>1. i \in 1 .. Len(graph) \/ i = Len(graph) + 1
    BY <1>2, <1>6
  <2> QED  BY <2>1, <1>2, <1>4, <1>6
<1> QED  BY <1>1, <1>5, <1>7 DEF Settled, OfNodes, ReportsIgnoreDefaults

LEMMA ValidateKeepsSettled ==
  ASSUME Settled, NEW populate \in BOOLEAN, Validate(populate)
  PROVE  Settled'
<1>1. /\ reports' = GraphReports(graph, Inputs, Mesh, level, populate)
      /\ graph' = Populated(graph, populate) /\ family' = family /\ level' = level
  BY DEF Validate
<1>2. OfNodes(graph) /\ family \in Family
  BY DEF Settled
<1>3. OfNodes(Populated(graph, populate))
  BY <1>2, PopulatedGraph
<1>4. graph = Populated(graph, FALSE)
  BY DEF Populated
<1>5. reports' = GraphReports(graph, Inputs, Mesh, level, FALSE)
  <2>1. FALSE \in BOOLEAN
    OBVIOUS
  <2>2. GraphReports(Populated(graph, FALSE), Inputs, Mesh, level, populate)
          = GraphReports(graph, Inputs, Mesh, level, FALSE)
    BY <1>2, <2>1, SameGraphReports
  <2> QED  BY <1>1, <1>4, <2>2
<1>6. \A q \in BOOLEAN : GraphReports(Populated(graph, populate), Inputs, Mesh, level, q) = reports'
  <2> DEFINE Of(p, q) == GraphReports(Populated(graph, p), Inputs, Mesh, level, q)
  <2>1. TRUE \in BOOLEAN /\ FALSE \in BOOLEAN
    OBVIOUS
  <2>2. Of(TRUE, TRUE) = GraphReports(graph, Inputs, Mesh, level, FALSE)
    BY <1>2, <2>1, SameGraphReports
  <2>3. Of(TRUE, FALSE) = GraphReports(graph, Inputs, Mesh, level, FALSE)
    BY <1>2, <2>1, SameGraphReports
  <2>4. Of(FALSE, TRUE) = GraphReports(graph, Inputs, Mesh, level, FALSE)
    BY <1>2, <2>1, SameGraphReports
  <2>5. Of(FALSE, FALSE) = GraphReports(graph, Inputs, Mesh, level, FALSE)
    BY <1>2, <2>1, SameGraphReports
  <2> HIDE DEF Of
  <2>6. ASSUME NEW q \in BOOLEAN
        PROVE  Of(populate, q) = GraphReports(graph, Inputs, Mesh, level, FALSE)
    <3>1. /\ populate = TRUE \/ populate = FALSE
          /\ q = TRUE \/ q = FALSE
      OBVIOUS
    <3> QED  BY <2>2, <2>3, <2>4, <2>5, <3>1
  <2> QED  BY <1>5, <2>6 DEF Of
<1>7. OfNodes(graph')
  BY <1>1, <1>3
<1>8. ReportsIgnoreDefaults'
  BY <1>1, <1>6 DEF ReportsIgnoreDefaults
<1> QED  BY <1>1, <1>2, <1>7, <1>8 DEF Settled

\* What is reported of a graph depends neither on whether the validator gives the nodes
\* their defaults (populate_defaults) nor on whether it did so in an earlier validation.
THEOREM ReportsIgnoreDefaultsHolds == Spec => []ReportsIgnoreDefaults
<1>1. Init => Settled
  <2> SUFFICES ASSUME Init PROVE Settled
    OBVIOUS
  <2>1. graph = <<>> /\ reports = None /\ family \in Family
    BY DEF Init
  <2>2. <<>> \in Seq(ToSet(<<>>)) /\ DOMAIN <<>> = {}
    OBVIOUS
  <2> QED  BY <2>1, <2>2 DEF Settled, OfNodes, ReportsIgnoreDefaults
<1>2. Settled /\ [Next]_vars => Settled'
  <2> SUFFICES ASSUME Settled, [Next]_vars
               PROVE  Settled'
    OBVIOUS
  <2>1. ASSUME NEW node \in family, AddNode(node)
        PROVE  Settled'
    BY <2>1, AddNodeKeepsSettled
  <2>2. ASSUME NEW populate \in BOOLEAN, Validate(populate)
        PROVE  Settled'
    BY <2>2, ValidateKeepsSettled
  <2>3. CASE UNCHANGED vars
    BY <2>3 DEF Settled, OfNodes, ReportsIgnoreDefaults, vars
  <2> QED  BY <2>1, <2>2, <2>3 DEF Next
<1>3. Settled => ReportsIgnoreDefaults
  BY DEF Settled
<1> QED  BY <1>1, <1>2, <1>3, PTL DEF Spec
=============================================================================
