---------------------------- MODULE TensorShapes ----------------------------
(***************************************************************************)
(* The shapes tensors really have: what the operators of ONNX and NumPy    *)
(* make of tensors whose sizes are numbers, written for what they mean and *)
(* not after the code.  It is the reference ShapePropagation is compared   *)
(* with.  Each operator gives the sequence of the shapes of its outputs,   *)
(* or None when the operation is not legal.                                *)
(***************************************************************************)
EXTENDS Integers, Sequences, SequencesExt, FiniteSetsExt

CONSTANT None

LOCAL Volume(s) == FoldLeft(LAMBDA a, b : a * b, 1, s)
LOCAL Axis(a, rank) == (IF a < 0 THEN a + rank ELSE a) + 1
LOCAL Places(axes, rank) == {Axis(axes[i], rank) : i \in DOMAIN axes}
LOCAL IsAxis(a, rank) == -rank <= a /\ a < rank
LOCAL Legal(holds, shapes) == IF holds THEN shapes ELSE None
LOCAL Keeping(s, places) ==
  LET kept == SetToSortSeq(places, <) IN [i \in DOMAIN kept |-> s[kept[i]]]

\* Aligned at their last dimensions, two sizes agree or one of them is 1.
Broadcast(s, t) ==
  LET rank == Max({Len(s), Len(t)})
      At(u, i) == IF i > rank - Len(u) THEN u[i - (rank - Len(u))] ELSE 1
      Sizes(i) == {At(s, i), At(t, i)}
  IN  IF \E i \in 1 .. rank : Cardinality(Sizes(i) \ {1}) > 1 THEN None
      ELSE [i \in 1 .. rank |-> Max(Sizes(i))]

\* A vector is a row on the left and a column on the right, dropped from the result.
Matmul(s, t) ==
  LET a == IF Len(s) = 1 THEN <<1>> \o s ELSE s
      b == IF Len(t) = 1 THEN t \o <<1>> ELSE t
      batch == Broadcast(SubSeq(a, 1, Len(a) - 2), SubSeq(b, 1, Len(b) - 2))
      row == IF Len(s) = 1 THEN <<>> ELSE <<a[Len(a) - 1]>>
      column == IF Len(t) = 1 THEN <<>> ELSE <<b[Len(b)]>>
  IN  Legal(s # <<>> /\ t # <<>> /\ batch # None /\ a[Len(a)] = b[Len(b) - 1], <<batch \o row \o column>>)

Gemm(a, b, c) ==
  LET out == <<a[1], b[2]>>
  IN  Legal(Len(a) = 2 /\ Len(b) = 2 /\ a[2] = b[1] /\ Broadcast(out, c) = out, <<out>>)

Squeeze(s, axes) ==
  LET gone == IF axes = None THEN {i \in DOMAIN s : s[i] = 1} ELSE Places(axes, Len(s))
  IN  Legal(gone \subseteq DOMAIN s /\ \A i \in gone : s[i] = 1, <<Keeping(s, DOMAIN s \ gone)>>)

Unsqueeze(s, axes) ==
  LET rank == Len(s) + Len(axes)
      new == Places(axes, rank)
  IN  <<[i \in 1 .. rank |->
          IF i \in new THEN 1 ELSE s[i - Cardinality({j \in new : j < i})]]>>

Flatten(s, axis) ==
  LET at == Axis(axis, Len(s)) - 1
  IN  Legal(IsAxis(axis, Len(s)), << <<Volume(SubSeq(s, 1, at)), Volume(SubSeq(s, at + 1, Len(s)))>> >>)

Concat(shapes, axis) ==
  LET at == Axis(axis, Len(shapes[1]))
      total == FoldLeft(LAMBDA sum, s : sum + s[at], 0, shapes)
  IN  Legal(IsAxis(axis, Len(shapes[1])) /\ \A s \in ToSet(shapes) :
              Len(s) = Len(shapes[1]) /\ \A i \in DOMAIN s : i # at => s[i] = shapes[1][i],
            <<[shapes[1] EXCEPT ![at] = total]>>)

Split(s, axis, sizes, n) ==
  LET at == Axis(axis, Len(s))
      parts == IF sizes # None THEN sizes ELSE [i \in 1 .. n |-> s[at] \div n]
  IN  Legal(IsAxis(axis, Len(s)) /\ FoldLeft(LAMBDA sum, p : sum + p, 0, parts) = s[at],
            [i \in DOMAIN parts |-> [s EXCEPT ![at] = parts[i]]])

\* The elements a slice visits, one stride after another.
Slice(s, cut) ==
  LET at == Axis(cut.axis, Len(s))
      n == s[at]
      Low == IF cut.step > 0 THEN 0 ELSE -1
      Bound(b) == Max({Low, Min({n + Low, IF b < 0 THEN b + n ELSE b})})
      Before(i) == IF cut.step > 0 THEN i < Bound(cut.end) ELSE i > Bound(cut.end)
      visited == {k \in 0 .. n : Before(Bound(cut.start) + k * cut.step)}
  IN  IF s = None \/ ~IsAxis(cut.axis, Len(s)) THEN None ELSE [s EXCEPT ![at] = Cardinality(visited)]

Reshape(s, target, allowzero) ==
  LET copied(i) == target[i] = 0 /\ ~allowzero
      open == {i \in DOMAIN target : target[i] = -1}
      dims == [i \in DOMAIN target |->
                 IF i \in open THEN 1 ELSE IF ~copied(i) THEN target[i] ELSE IF i <= Len(s) THEN s[i] ELSE 0]
      rest == IF Volume(dims) = 0 THEN 0 ELSE Volume(s) \div Volume(dims)
      out == [i \in DOMAIN target |-> IF i \in open THEN rest ELSE dims[i]]
  IN  Legal(Cardinality(open) <= 1 /\ Volume(out) = Volume(s), <<out>>)

Transpose(s, perm) == Legal(Len(perm) = Len(s), <<[i \in DOMAIN s |-> s[perm[i] + 1]]>>)
=============================================================================
