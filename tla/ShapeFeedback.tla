--------------------------- MODULE ShapeFeedback ---------------------------
(***************************************************************************)
(* Shape propagation, and then ShapeTracker.resolve_dynamic_bounds         *)
(* (shapes/inference.py) with a tracker of its own: shapes observed at run *)
(* time take the place of the symbolic ones.                               *)
(*                                                                         *)
(*   bounds    resolved_bounds, by the dimension instead of its name       *)
(*   symbolic  the shapes before they were overwritten                     *)
(*   runs      the sizes of the variables in the run each node was         *)
(*             observed in                                                 *)
(*   real      for each sizing, the shapes a run of it gives the outputs   *)
(*             of every node, or None when the run fails                   *)
(***************************************************************************)
EXTENDS ShapePropagation

CONSTANTS
  NodeId,  \* the names of the nodes
  Sizing,  \* the sizes the variables may have at run time
  Report   \* what is observed: the sizes of the first nodes, from which node on others,
           \* whether the last dimension is left out, and whether ranks must match

VARIABLES bounds, symbolic, runs, real

vars == <<nodes, classes, calls, phase, bounds, symbolic, runs, real>>

Tensor == INSTANCE TensorShapes

NoBounds == [d \in {} |-> None]

-----------------------------------------------------------------------------
(* The shapes of a run in which the variables have the sizes of env.       *)

Instance(shape, env) == [i \in DOMAIN shape |-> Eval(shape[i], env)]

Init ==
  /\ StartPropagation /\ bounds = NoBounds /\ symbolic = <<>> /\ runs = <<>>
  /\ real = [env \in Sizing |-> [i \in DOMAIN Input |-> <<Instance(Input[i].shape, env)>>]]

\* The shapes of a node's outputs, from those of its inputs.
RealOutputs(call, ins) ==
  LET s == ins[1]
      Axis(default) == Attr(call, "axis", default)
      Numbers(dims) == Instance(dims, <<>>)
  IN  CASE call.op = "Relu" -> <<s>>
        [] call.op = "Add" ->
             LET sum == Tensor!Broadcast(s, ins[2]) IN IF sum = None THEN None ELSE <<sum>>
        [] call.op = "MatMul" -> Tensor!Matmul(s, ins[2])
        [] call.op = "Gemm" ->
             LET Turned(t, flag) == IF Has(call, flag) THEN Reverse(t) ELSE t
             IN  Tensor!Gemm(Turned(s, "transA"), Turned(ins[2], "transB"),
                             IF Len(ins) > 2 THEN ins[3] ELSE <<>>)
        [] call.op = "Squeeze" -> Tensor!Squeeze(s, AxesOf(call))
        [] call.op = "Unsqueeze" -> Tensor!Unsqueeze(s, AxesOf(call))
        [] call.op = "Flatten" -> Tensor!Flatten(s, Axis(1))
        [] call.op = "Concat" -> Tensor!Concat(ins, Axis(0))
        [] call.op = "Split" ->
             Tensor!Split(s, Axis(0), IF Has(call, "split") THEN Numbers(call.attrs.split) ELSE None,
                          call.outputs)
        [] call.op = "Slice" ->
             LET cut == FoldLeft(Tensor!Slice, s, call.attrs.cuts) IN IF cut = None THEN None ELSE <<cut>>
        [] call.op = "Shape" -> << <<Len(s)>> >>
        [] call.op = "Reshape" -> Tensor!Reshape(s, Numbers(call.attrs.shape), Has(call, "allowzero"))
        [] call.op = "Transpose" -> Tensor!Transpose(s, call.attrs.perm)
        [] call.op = "BroadcastInDim" -> <<Numbers(call.attrs.shape)>>

\* The shapes of every node's outputs in the run of env, once call is made too;
\* None from the first call that cannot run.
RealShapes(call, env) ==
  LET ins == [k \in DOMAIN call.inputs |-> real[env][call.inputs[k].node][call.inputs[k].port + 1]]
      outputs == IF real[env] = None THEN None ELSE RealOutputs(call, ins)
  IN  IF outputs = None THEN None ELSE Append(real[env], outputs)

-----------------------------------------------------------------------------
(* resolve_dynamic_bounds                                                  *)

Feedback(ns, cs, bs) == [nodes |-> ns, classes |-> cs, bounds |-> bs]

\* What is kept of a node whose shape is not to be resolved: everything.
Raised(fed) == [fed EXCEPT !.classes = Mismatch]

\* update_from_feedback: a node of one dimension names a symbol of its own.
FromTelemetry(observed) ==
  LET Note(cs, i) ==
        IF cs = Mismatch \/ Len(observed[i]) # 1 THEN cs
        ELSE Merged({Variable(NodeId[i]), Const(observed[i][1])}, cs)
  IN  FoldLeft(Note, {}, [i \in DOMAIN observed |-> i])

\* RecordBound, but without the tracker.
RecordBoundOnly(fed, dim, size) ==
  IF IsConst(dim) \/ fed.classes = Mismatch THEN fed
  ELSE [fed EXCEPT !.bounds =
          [d \in DOMAIN fed.bounds \cup {dim} |-> IF d = dim THEN size ELSE fed.bounds[d]]]

\* RecordBound, but giving the size of an expression to its variable.
RecordVariableBound(fed, dim, size) ==
  IF IsConst(dim) \/ fed.classes = Mismatch THEN fed
  ELSE Feedback(fed.nodes,
                Merged({Variable(CHOOSE v \in FreeVars(dim) : TRUE), Const(size)}, fed.classes),
                [d \in DOMAIN fed.bounds \cup {dim} |-> IF d = dim THEN size ELSE fed.bounds[d]])

\* _record_dynamic_dim_bound, for a dimension that is not an int.
RecordBound(fed, dim, size) ==
  IF IsConst(dim) \/ fed.classes = Mismatch THEN fed
  ELSE Feedback(fed.nodes, Merged({Canonical(dim), Const(size)}, fed.classes),
                [d \in DOMAIN fed.bounds \cup {dim} |-> IF d = dim THEN size ELSE fed.bounds[d]])

\* One node: a dimension that was not observed is taken to be 1.
ResolveNode(fed, i, observed, strict) ==
  LET shape == fed.nodes[i].shape
      sizes == [k \in DOMAIN shape |-> IF k <= Len(observed) THEN observed[k] ELSE 1]
      recorded == FoldLeftDomain(LAMBDA acc, k : RecordBound(acc, shape[k], sizes[k]), fed, shape)
  IN  IF fed.classes = Mismatch \/ shape = None THEN fed
      ELSE IF strict /\ Len(observed) # Len(shape) THEN Raised(fed)
      ELSE IF recorded.classes = Mismatch THEN recorded
      ELSE [recorded EXCEPT !.nodes[i].shape = [k \in DOMAIN shape |-> Const(sizes[k])]]

\* Shapes are observed, those of the nodes from r.from on in a run with other sizes.
\* A profiler that leaves out the last dimension reports shapes cut short.
ResolveDynamicBounds(r) ==
  LET run(i) == IF i < r.from THEN r.sizes ELSE r.others
      Seen(s) == IF r.short /\ s # <<>> THEN Front(s) ELSE s
      observed == [i \in DOMAIN nodes |-> Seen(real[run(i)][i][1])]
      fed == FoldLeft(LAMBDA acc, i : ResolveNode(acc, i, observed[i], r.strict),
                      Feedback(nodes, FromTelemetry(observed), NoBounds), [i \in DOMAIN nodes |-> i])
  IN  /\ phase = "propagating" /\ None \notin {real[r.sizes], real[r.others]}
      /\ symbolic' = [i \in DOMAIN nodes |-> nodes[i].shape]
      /\ runs' = [i \in DOMAIN nodes |-> IF r.short THEN None ELSE run(i)]
      /\ nodes' = fed.nodes
      /\ IF fed.classes = Mismatch
         THEN phase' = "refused" /\ UNCHANGED bounds
         ELSE phase' = "resolved" /\ bounds' = fed.bounds
      /\ UNCHANGED <<classes, calls, real>>

Next ==
  \/ \E call \in Call :
       /\ Propagate(call) /\ UNCHANGED <<bounds, symbolic, runs>>
       /\ real' = [env \in Sizing |-> RealShapes(call, env)]
  \/ \E r \in Report : ResolveDynamicBounds(r)

Spec == Init /\ [][Next]_vars

-----------------------------------------------------------------------------
(* Properties                                                              *)

\* The run has the sizes the tracker has been told are equal.
Satisfies(env) == \A c \in classes : \A d, e \in c : Eval(d, env) = Eval(e, env)

\* A size left open is any size.
Describes(shape, sizes, env) ==
  Len(shape) = Len(sizes)
    /\ \A i \in DOMAIN shape : shape[i] = Open \/ Eval(shape[i], env) = sizes[i]

\* In every run the accepted equalities allow, each output has the shape that is
\* read for it, whichever way it is named.
PropagatedShapesAreReal ==
  phase = "propagating" =>
    \A env \in Sizing :
      Satisfies(env) /\ real[env] # None =>
        \A i \in DOMAIN nodes : \A k \in DOMAIN real[env][i] :
          \A via \in {"port", "output"} \cup (IF k = 1 THEN {"id"} ELSE {}) :
            LET shape == ResolveInputShape([node |-> i, via |-> via, port |-> k - 1])
            IN  shape # None => Describes(shape, real[env][i][k], env)

\* The shapes of one run are accepted, and pin every variable to its size in it.
OneRunIsAccepted ==
  phase \in {"resolved", "refused"} /\ None \notin ToSet(runs) /\ Cardinality(ToSet(runs)) = 1 =>
    /\ phase = "resolved"
    /\ \A d \in DOMAIN bounds : bounds[d] = Eval(d, runs[1])
    /\ \A i \in DOMAIN nodes : symbolic[i] # None => \A k \in DOMAIN symbolic[i] :
         symbolic[i][k] # Open => nodes[i].shape[k] = Const(Eval(symbolic[i][k], runs[1]))

\* Observations that are accepted give a dimension one size wherever it stands.
ResolvedSizesAgree ==
  phase = "resolved" =>
    \A i, j \in DOMAIN nodes :
      None \notin {symbolic[i], symbolic[j]} =>
        \A k \in DOMAIN symbolic[i], l \in DOMAIN symbolic[j] :
          symbolic[i][k] = symbolic[j][l] /\ ~IsConst(symbolic[i][k]) =>
            nodes[i].shape[k] = nodes[j].shape[l]
=============================================================================
