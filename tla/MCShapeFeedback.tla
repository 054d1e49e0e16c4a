-------------------------- MODULE MCShapeFeedback --------------------------
(***************************************************************************)
(* Instance: graph inputs of shapes (x, 4), (y) and (4, 2), a constant     *)
(* <<0>>, and two operators, the second of which may read the first.       *)
(***************************************************************************)
EXTENDS ShapeFeedback

CONSTANT Cuts  \* the bounds of slices along the first axis

X == Variable("x")
Y == Variable("y")
C(n) == Const(n)

MCVarOrder == <<"x", "y">>
MCInput ==
  <<Node(<<X, C(4)>>, <<>>, None), Node(<<Y>>, <<>>, None), Node(<<C(4), C(2)>>, <<>>, None),
    Node(<<One>>, <<>>, <<0>>)>>
MCNodeId == <<"a", "b", "w", "axes", "f", "g">>
Sizes(x, y) == [v \in {"x", "y"} |-> IF v = "x" THEN x ELSE y]
MCSizing == {Sizes(4, 4), Sizes(4, 8), Sizes(8, 8)}
MCReport ==
  [sizes : MCSizing, others : {Sizes(4, 8)}, from : {2, 6}, short : {FALSE}, strict : {FALSE}]
    \cup [sizes : {Sizes(4, 8)}, others : {Sizes(4, 8)}, from : {2}, short : BOOLEAN, strict : {TRUE}]
    \cup [sizes : {Sizes(8, 8)}, others : {Sizes(8, 8)}, from : {2}, short : BOOLEAN, strict : {FALSE}]

MCCuts == {[start |-> 0, end |-> 2, axis |-> 0, step |-> 1],
           [start |-> 1, end |-> -1, axis |-> 0, step |-> 1],
           [start |-> -2, end |-> -1, axis |-> 0, step |-> 1],
           [start |-> 0, end |-> -1, axis |-> 0, step |-> 2],
           [start |-> -1, end |-> 0, axis |-> 0, step |-> -1]}
MCCutsBeyond == {[start |-> 0, end |-> 3, axis |-> 0, step |-> 1]}

Id(i) == [node |-> i, via |-> "id", port |-> 0]
F == 5
Ref == {Id(1), Id(2), Id(3), Id(F)}
FPort == {[node |-> F, via |-> via, port |-> k] : via \in {"port", "output"}, k \in 0 .. 1}

NoAttrs == [a \in {} |-> None]
With(op, inputs, attrs) ==
  [op |-> op, inputs |-> inputs, attrs |-> attrs, outputs |-> 1, declared |-> None]
Parts(r, attrs) == [With("Split", <<r>>, attrs) EXCEPT !.outputs = 2]

OneInput(r) ==
  {With("Relu", <<r>>, NoAttrs), With("Shape", <<r>>, NoAttrs),
   With("Unsqueeze", <<r>>, [axes |-> <<-1, 0>>]), With("Unsqueeze", <<r, Id(4)>>, NoAttrs),
   With("Squeeze", <<r>>, NoAttrs), With("Squeeze", <<r>>, [axis |-> 0]),
   With("Flatten", <<r>>, [axis |-> 0]), With("Transpose", <<r>>, [perm |-> <<1, 0>>]),
   With("Reshape", <<r>>, [shape |-> <<C(0), C(-1)>>]),
   With("Reshape", <<r>>, [shape |-> <<C(0), C(2), C(2)>>]),
   Parts(r, [axis |-> -1]), Parts(r, [axis |-> 0]), Parts(r, [axis |-> 1, split |-> <<C(1), C(3)>>])}
    \cup {With("Slice", <<r>>, [cuts |-> <<cut>>]) : cut \in Cuts}
TwoInputs(r, s) ==
  {With("Add", <<r, s>>, NoAttrs), With("MatMul", <<r, s>>, NoAttrs),
   With("Concat", <<r, s>>, [axis |-> 0])}

MCCall ==
  UNION {OneInput(r) : r \in Ref}
    \cup UNION {TwoInputs(r, s) : r \in {Id(1), Id(F)}, s \in {Id(1), Id(2), Id(3), Id(F)}}
    \cup {With(op, <<r>>, NoAttrs) : op \in {"Relu"}, r \in FPort}
    \cup {Parts(r, [axis |-> 1]) : r \in FPort}
    \cup {With("Gemm", <<Id(1), Id(3)>>, NoAttrs), With("Gemm", <<Id(3), Id(1), Id(2)>>, [transA |-> 1]),
          With("Gemm", <<Id(1), Id(3), Id(F)>>, NoAttrs),
          With("Gemm", <<Id(1), Id(F)>>, [transB |-> 1]),
          With("BroadcastInDim", <<Id(2)>>, [shape |-> <<C(3), C(1)>>])}
=============================================================================
