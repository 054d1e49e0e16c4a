--------------------------- MODULE Simplification ---------------------------
(***************************************************************************)
(* simplify, to_polynomial and canonical of SymNode (shapes/ast.py), and   *)
(* _poly_to_symnode (shapes/polynomial.py).  None is what a rule returns   *)
(* when it does not apply, and the polynomial of a tree that has none.     *)
(***************************************************************************)
EXTENDS Expressions

OrElse(reply, other) == IF reply # None THEN reply ELSE other

RECURSIVE ToPolynomial(_)

BinaryPolynomial(op, p, q) ==
  IF None \in {p, q} THEN None
  ELSE CASE op = "+" -> PolyAdd(p, q)
         [] op = "-" -> PolySub(p, q)
         [] op = "*" -> PolyMul(p, q)
         [] op = "//" -> DivExact(p, q)
         [] OTHER -> None

ToPolynomial(e) ==
  CASE e.kind = "const" -> FromConst(e.value)
    [] e.kind = "var" -> FromVar(e.name)
    [] e.kind = "binary" -> BinaryPolynomial(e.op, ToPolynomial(e.left), ToPolynomial(e.right))
    [] OTHER -> None

\* _build_monomial_symnode: the coefficient, unless it is 1, times the variables.
MonomialNode(mono, coeff) ==
  LET coefficient == IF coeff # 1 \/ mono = Unit THEN <<Const(coeff)>> ELSE <<>>
      factors == coefficient \o [i \in DOMAIN Factors(mono) |-> Variable(Factors(mono)[i])]
  IN  FoldLeft(LAMBDA acc, f : Binary("*", acc, f), factors[1], Tail(factors))

\* _poly_to_symnode: a first term that is negative is taken from 0.
PolyNode(p) ==
  LET Attach(acc, t) ==
        IF acc = None /\ t.coeff > 0 THEN MonomialNode(t.mono, t.coeff)
        ELSE Binary(IF t.coeff < 0 THEN "-" ELSE "+", OrElse(acc, Const(0)),
                    MonomialNode(t.mono, Absolute(t.coeff)))
  IN  IF p = <<>> THEN Const(0)
      ELSE IF Len(p) = 1 /\ p[1].mono = Unit THEN Const(p[1].coeff)
      ELSE FoldLeft(Attach, None, SortedTerms(p))

\* The tree of the polynomial p, or e if there is none.
TreeOf(p, e) == IF p = None THEN e ELSE PolyNode(p)

-----------------------------------------------------------------------------
(* The rules of each operator, on operands that are simplified already.    *)

FoldedOps == {"+", "-", "*", "**", "min", "max", "//", "%"}

Literal(v) == IF v = None THEN None ELSE Const(v)

\* _simplify_constants
Folded(op, l, r) ==
  IF ~(IsConst(l) /\ IsConst(r) /\ op \in FoldedOps) THEN None
  ELSE Literal(Operate(op, l.value, r.value))

SimplifyAdd(l, r) ==
  IF IsValue(r, 0) THEN l ELSE IF IsValue(l, 0) THEN r ELSE None

SimplifySub(l, r) ==
  IF IsValue(r, 0) THEN l
  ELSE IF l = r THEN Const(0)
  ELSE IF ~IsBinary(l, "+") THEN None
  ELSE IF l.right = r THEN l.left
  ELSE IF l.left = r THEN l.right
  ELSE None

SimplifyMul(l, r) ==
  IF IsValue(r, 1) THEN l
  ELSE IF IsValue(l, 1) THEN r
  ELSE IF IsValue(r, 0) \/ IsValue(l, 0) THEN Const(0)
  ELSE None

RECURSIVE Simplify(_)

\* _cancel_floordiv_mul_factor: l is a product.
CancelFactor(l, r) ==
  LET Multiple(e) == IsConst(e) /\ FloorMod(e.value, r.value) = 0
      Reduced(e, c) == Simplify(Binary("*", e, Const(FloorDiv(c.value, r.value))))
  IN  IF l.right = r THEN l.left
      ELSE IF l.left = r THEN l.right
      ELSE IF ~IsConst(r) \/ IsValue(r, 0) THEN None
      ELSE IF Multiple(l.right) THEN Reduced(l.left, l.right)
      ELSE IF Multiple(l.left) THEN Reduced(l.right, l.left)
      ELSE None

SimplifyFloorDiv(l, r) ==
  IF IsValue(r, 1) THEN l
  ELSE IF IsValue(l, 0) THEN Const(0)
  ELSE IF l = r /\ ~IsValue(r, 0) THEN Const(1)
  ELSE IF IsBinary(l, "*") THEN CancelFactor(l, r)
  ELSE None

SimplifyMod(l, r) ==
  IF IsValue(r, 1) \/ IsValue(l, 0) \/ (l = r /\ ~IsValue(r, 0)) THEN Const(0) ELSE None

\* x ** 0 is 1, but 0 ** x is 0 whatever x is.
SimplifyPow(l, r) ==
  IF IsValue(r, 1) THEN l
  ELSE IF IsValue(r, 0) THEN Const(1)
  ELSE IF IsValue(l, 0) THEN Const(0)
  ELSE IF IsValue(l, 1) THEN Const(1)
  ELSE None

\* An operand that is met again inside the other one is absorbed.
SimplifyMinMax(op, l, r) ==
  LET Holds(e, part) == IsBinary(e, op) /\ part \in {e.left, e.right}
  IN  IF l = r \/ Holds(l, r) THEN l ELSE IF Holds(r, l) THEN r ELSE None

Ruled(op, l, r) ==
  CASE op = "+" -> SimplifyAdd(l, r)
    [] op = "-" -> SimplifySub(l, r)
    [] op = "*" -> SimplifyMul(l, r)
    [] op = "//" -> SimplifyFloorDiv(l, r)
    [] op = "%" -> SimplifyMod(l, r)
    [] op = "**" -> SimplifyPow(l, r)
    [] op \in {"min", "max"} -> SimplifyMinMax(op, l, r)
    [] OTHER -> None

\* Constants are folded, then the rules tried, then the polynomial of the tree as it was.
SimplifyBinary(e, l, r) ==
  OrElse(Folded(e.op, l, r),
         OrElse(Ruled(e.op, l, r), TreeOf(ToPolynomial(e), Binary(e.op, l, r))))

SimplifyUnary(op, s) ==
  IF IsConst(s) THEN Const(IF op = "abs" THEN Absolute(s.value) ELSE -s.value)
  ELSE IF s.kind # "unary" \/ s.op # op THEN Unary(op, s)
  ELSE IF op = "-" THEN s.operand ELSE s

SimplifyPiecewise(e) ==
  Piecewise([i \in DOMAIN e.cases |-> [cond |-> Simplify(e.cases[i].cond),
                                       expr |-> Simplify(e.cases[i].expr)]],
            Simplify(e.default))

Simplify(e) ==
  CASE e.kind \in {"const", "var"} -> e
    [] e.kind = "binary" -> SimplifyBinary(e, Simplify(e.left), Simplify(e.right))
    [] e.kind = "unary" -> SimplifyUnary(e.op, Simplify(e.operand))
    [] e.kind = "piecewise" -> SimplifyPiecewise(e)

Canonical(e) == TreeOf(ToPolynomial(e), Simplify(e))
=============================================================================
