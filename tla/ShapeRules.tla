----------------------------- MODULE ShapeRules -----------------------------
(***************************************************************************)
(* The shape rules of propagate_shapes_and_constants (transforms.py) and   *)
(* broadcast_shapes and matmul_shape (shapes/inference.py).                *)
(*                                                                         *)
(* A shape is a sequence of dimensions, a dimension an expression tree; an *)
(* int and the SymConst of it are one.  A rule gives a shape, None where   *)
(* it infers nothing, or Mismatch where it raises.  The rules that unify   *)
(* dimensions also give the classes of equal dimensions they leave: the    *)
(* tracker is taken by what DimensionClasses says of it, a set of disjoint *)
(* sets of canonical keys.                                                 *)
(***************************************************************************)
EXTENDS ExpressionText, FiniteSets

CONSTANT Mismatch

One == Const(1)
Open == Const(-1)  \* what a reshape leaves where it could not work out a size

\* normalize_axis; axes count from 0.
NormalizeAxis(axis, rank) ==
  IF axis < -rank \/ axis >= rank THEN Mismatch ELSE IF axis < 0 THEN axis + rank ELSE axis

SetAxis(s, axis, dim) == [s EXCEPT ![axis + 1] = dim]

Result(shape, classes) == [shape |-> shape, classes |-> classes]

-----------------------------------------------------------------------------
(* Broadcasting.                                                           *)

\* The classes once the keys are equal, or Mismatch if that gives a class two sizes.
Merged(keys, classes) ==
  LET touched == {c \in classes : c \cap keys # {}}
      joined == keys \cup UNION touched
  IN  IF Cardinality({k \in joined : IsConst(k)}) > 1 THEN Mismatch
      ELSE (classes \ touched) \cup {joined}

\* tracker.unify of two dimensions, neither of which is 1, by their keys: the size
\* of their class, or else the first of them.
Unified(keys, first, classes) ==
  LET merged == Merged(keys, classes)
      class == CHOOSE c \in merged : keys \subseteq c
      sizes == {k \in class : IsConst(k)}
  IN  IF merged = Mismatch THEN Result(Mismatch, classes)
      ELSE Result(IF sizes = {} THEN first ELSE CHOOSE k \in sizes : TRUE, merged)

BroadcastDimension(a, b, classes, tracked) ==
  CASE a = b -> Result(a, classes)
    [] a # b /\ a = One -> Result(b, classes)
    [] a # b /\ b = One -> Result(a, classes)
    [] OTHER ->
         IF IsConsistent(a, b) THEN Result(a, classes)
         ELSE IF tracked /\ ~(IsConst(a) /\ IsConst(b)) THEN Unified({Canonical(a), Canonical(b)}, a, classes)
         ELSE Result(Mismatch, classes)

\* One dimension more, unless it is refused.
Extended(acc, d) == IF d.shape = Mismatch THEN d ELSE Result(Append(acc.shape, d.shape), d.classes)

BroadcastShapes(s, t, classes, tracked) ==
  LET rank == Larger(Len(s), Len(t))
      Padded(u) == [i \in 1 .. rank - Len(u) |-> One] \o u
      Join(acc, i) ==
        IF acc.shape = Mismatch THEN acc
        ELSE Extended(acc, BroadcastDimension(Padded(s)[i], Padded(t)[i], acc.classes, tracked))
  IN  FoldLeft(Join, Result(<<>>, classes), [i \in 1 .. rank |-> i])

-----------------------------------------------------------------------------
(* Products of matrices.                                                   *)

Batched(batch, matrix) == IF batch = Mismatch THEN Mismatch ELSE batch \o matrix

\* matmul_shape, the way it treats operands of rank 1 included; no tracker.
MatmulShape(s, t) ==
  LET m == Len(s)
      n == Len(t)
      inner == IF n = 1 THEN t[1] ELSE t[n - 1]
      kept == IF m = 1 THEN <<>> ELSE <<s[m - 1]>>
      new == IF n = 1 THEN <<>> ELSE <<t[n]>>
  IN  IF 0 \in {m, n} THEN Mismatch
      ELSE IF ~IsConsistent(s[m], inner) THEN Mismatch
      ELSE Batched(BroadcastShapes(SubSeq(s, 1, m - 2), SubSeq(t, 1, n - 2), {}, FALSE).shape, kept \o new)

\* _propagate_gemm_op, on the shapes of its operands; c is None without a third.
GemmShape(a, b, c, transA, transB, classes) ==
  LET m == IF transA THEN a[2] ELSE a[1]
      inner == <<IF transA THEN a[1] ELSE a[2], IF transB THEN b[2] ELSE b[1]>>
      n == IF transB THEN b[1] ELSE b[2]
  IN  IF {a, b} \cap {None} # {} THEN Result(None, classes)
      ELSE IF Len(a) # 2 \/ Len(b) # 2 THEN Result(None, classes)
      ELSE IF ~IsConsistent(inner[1], inner[2]) THEN Result(Mismatch, classes)
      ELSE IF c = None THEN Result(<<m, n>>, classes)
      ELSE BroadcastShapes(<<m, n>>, c, classes, TRUE)

-----------------------------------------------------------------------------
(* Rearranging dimensions.                                                 *)

Axes(axes, rank) == {NormalizeAxis(axes[i], rank) : i \in DOMAIN axes}

\* Without axes, every dimension known to be 1 goes.
SqueezeShape(s, axes) ==
  LET gone == IF axes = None THEN {i - 1 : i \in {j \in DOMAIN s : s[j] = One}}
              ELSE Axes(axes, Len(s))
  IN  IF Mismatch \in gone THEN Mismatch
      ELSE FoldLeftDomain(LAMBDA acc, i : IF i - 1 \in gone THEN acc ELSE Append(acc, s[i]), <<>>, s)

\* The axes are of the shape that results, which they are inserted into in order.
UnsqueezeShape(s, axes) ==
  LET rank == Len(s) + Len(axes)
      places == SortSeq([i \in DOMAIN axes |-> NormalizeAxis(axes[i], rank)], <)
  IN  IF axes = None THEN s
      ELSE IF Mismatch \in Axes(axes, rank) THEN Mismatch
      ELSE FoldLeft(LAMBDA acc, axis : InsertAt(acc, axis + 1, One), s, places)

Product(dims) == FoldLeft(LAMBDA total, d : Simplify(Binary("*", total, d)), One, dims)

FlattenShape(s, axis) ==
  LET at == NormalizeAxis(axis, Len(s))
  IN  IF at = Mismatch THEN Mismatch
      ELSE <<Product(SubSeq(s, 1, at)), Product(SubSeq(s, at + 1, Len(s)))>>

\* The sizes along axis are added up; the other dimensions are the first shape's.
ConcatShape(shapes, axis) ==
  LET rank == Len(shapes[1])
      at == NormalizeAxis(axis, rank)
      total == FoldLeft(LAMBDA sum, s : Simplify(Binary("+", sum, s[at + 1])), Const(0), shapes)
  IN  IF at = Mismatch \/ \E s \in ToSet(shapes) : Len(s) # rank THEN Mismatch
      ELSE SetAxis(shapes[1], at, total)

TransposeShape(s, perm) ==
  IF Len(perm) # Len(s) THEN None
  ELSE IF {perm[i] : i \in DOMAIN perm} # 0 .. Len(s) - 1 THEN Mismatch
  ELSE [i \in DOMAIN perm |-> s[perm[i] + 1]]

-----------------------------------------------------------------------------
(* Cutting and reshaping.                                                  *)

\* The shape of the first part, in n parts or in parts of the sizes in split.
SplitShape(s, axis, split, n) ==
  LET at == NormalizeAxis(axis, Len(s))
      part == Simplify(Binary("//", s[at + 1], Const(n)))
  IN  IF at = Mismatch THEN Mismatch
      ELSE IF split # None THEN SetAxis(s, at, split[1])
      ELSE IF IsConst(s[at + 1]) /\ s[at + 1].value % n # 0 THEN Mismatch
      ELSE SetAxis(s, at, part)

\* A bound of a slice of n elements: counted from the end if negative, then cut to 0 .. n.
Clamped(at, n) == Larger(0, Smaller(n, IF at < 0 THEN at + n ELSE at))

Span(st, en, sp) == IF sp > 0 THEN Binary("-", en, st) ELSE Binary("-", st, en)
NotNegative(d) == IF IsConst(d) THEN Const(Larger(0, d.value)) ELSE d

\* SlicedDimension, but rounding the number of strides down.
SlicedRoundedDown(d, st, en, sp) ==
  LET Bound(at) == IF at < 0 THEN Simplify(Binary("+", d, Const(at))) ELSE Const(at)
      span == Simplify(Span(Bound(st), Bound(en), sp))
  IN  IF sp <= 0 THEN Const(0)
      ELSE IF IsConst(d) THEN Const(Larger(0, FloorDiv(Clamped(en, d.value) - Clamped(st, d.value), sp)))
      ELSE NotNegative(Simplify(Binary("//", span, Const(sp))))

\* _compute_sliced_dim: bounds are clamped only where the size is known.
SlicedDimension(d, st, en, sp) ==
  LET stride == Absolute(sp)
      Bound(at) == IF IsConst(d) THEN Const(Clamped(at, d.value))
                   ELSE IF at < 0 THEN Simplify(Binary("+", d, Const(at))) ELSE Const(at)
      rounded == Simplify(Binary("+", Span(Bound(st), Bound(en), sp), Const(stride - 1)))
  IN  IF sp = 0 THEN Const(0) ELSE NotNegative(Simplify(Binary("//", rounded, Const(stride))))

\* cuts is a sequence of [start, end, axis, step].
SliceShape(s, cuts) ==
  LET Cut(acc, c) ==
        LET at == NormalizeAxis(c.axis, Len(s))
        IN  IF Mismatch \in {acc, at} THEN Mismatch
            ELSE SetAxis(acc, at, SlicedDimension(acc[at + 1], c.start, c.end, c.step))
  IN  FoldLeft(Cut, s, cuts)

IsSize(d) == IsConst(d) /\ d.value > 0
Numel(dims) == FoldLeft(LAMBDA total, d : total * d.value, 1, dims)

\* 0 copies a dimension of the input, unless allowzero; -1 is worked out if all else is known.
ReshapeShape(s, target, allowzero) ==
  LET open == {i \in DOMAIN target : target[i] = Open}
      copied == {i \in DOMAIN target : target[i] = Const(0) /\ ~allowzero}
      dims == [i \in DOMAIN target |-> IF i \in copied THEN s[i] ELSE target[i]]
      known == SelectSeq(dims, LAMBDA d : d # Open)
      concrete == \A d \in ToSet(s \o known) : IsSize(d)
  IN  IF \/ Cardinality(open) > 1
         \/ \E i \in copied : i > Len(s)
         \/ \E i \in DOMAIN target \ (open \cup copied) :
              IsConst(target[i]) /\ target[i].value <= 0
      THEN Mismatch
      ELSE IF ~concrete THEN dims
      ELSE IF open = {} THEN IF Numel(s) = Numel(known) THEN dims ELSE Mismatch
      ELSE IF Numel(s) % Numel(known) # 0 THEN Mismatch
      ELSE [dims EXCEPT ![CHOOSE i \in open : TRUE] = Const(Numel(s) \div Numel(known))]
=============================================================================
