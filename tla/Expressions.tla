---------------------------- MODULE Expressions ----------------------------
(***************************************************************************)
(* The values of shapes/polynomial.py and shapes/ast.py.                   *)
(*                                                                         *)
(* A Polynomial is the sequence of its terms in the order the dict of      *)
(* terms holds them; no two have the same monomial and none has the        *)
(* coefficient zero.  A monomial maps every variable to its power.         *)
(* SymNode and its classes are expression trees over integers and named    *)
(* variables: how they evaluate and how they are rewritten.                *)
(***************************************************************************)
EXTENDS Integers, SequencesExt

CONSTANTS
  VarOrder,  \* the names of the variables, in the order sorted() gives them
  None

Var == ToSet(VarOrder)

\* Python's // and %, which round towards minus infinity.
FloorDiv(a, b) == IF b > 0 THEN a \div b ELSE (-a) \div (-b)
FloorMod(a, b) == a - b * FloorDiv(a, b)

Unit == [v \in Var |-> 0]
Term(mono, coeff) == [mono |-> mono, coeff |-> coeff]

FromConst(c) == IF c = 0 THEN <<>> ELSE <<Term(Unit, c)>>
FromVar(name) == <<Term([Unit EXCEPT ![name] = 1], 1)>>

\* Two polynomials are equal when their dicts are: the order does not count.
SamePolynomial(p, q) == ToSet(p) = ToSet(q)

\* poly[mono] = poly.get(mono, 0) + coeff
Accumulated(terms, mono, coeff) ==
  IF \E t \in ToSet(terms) : t.mono = mono
  THEN [i \in DOMAIN terms |-> IF terms[i].mono = mono
                               THEN Term(mono, terms[i].coeff + coeff) ELSE terms[i]]
  ELSE Append(terms, Term(mono, coeff))

\* Add coeff to the coefficient of mono; a term that reaches zero is popped.
WithTerm(terms, mono, coeff) ==
  SelectSeq(Accumulated(terms, mono, coeff), LAMBDA t : t.coeff # 0)

PolyAdd(p, q) == FoldLeft(LAMBDA acc, t : WithTerm(acc, t.mono, t.coeff), p, q)
PolySub(p, q) == FoldLeft(LAMBDA acc, t : WithTerm(acc, t.mono, -t.coeff), p, q)

Times(m, n) == [v \in Var |-> m[v] + n[v]]
PolyMul(p, q) ==
  LET AddProducts(acc, t) ==
        FoldLeft(LAMBDA a, u : WithTerm(a, Times(t.mono, u.mono), t.coeff * u.coeff), acc, q)
  IN  FoldLeft(AddProducts, <<>>, p)

\* _divide_monomial_term, for every term of the dividend.
TermDivides(d, t) ==
  FloorMod(t.coeff, d.coeff) = 0 /\ \A v \in Var : t.mono[v] >= d.mono[v]
DividedTerm(t, d) ==
  Term([v \in Var |-> t.mono[v] - d.mono[v]], FloorDiv(t.coeff, d.coeff))

\* DivExact, but dividing by the leading term of a divisor that has several.
DivLeading(p, q) ==
  IF q = <<>> THEN None
  ELSE IF SamePolynomial(p, q) THEN FromConst(1)
  ELSE IF ~\A t \in ToSet(p) : TermDivides(q[1], t) THEN None
  ELSE [i \in DOMAIN p |-> DividedTerm(p[i], q[1])]

\* div_exact: the quotient when the divisor is the dividend or a single term.
DivExact(p, q) ==
  IF q = <<>> THEN None
  ELSE IF SamePolynomial(p, q) THEN FromConst(1)
  ELSE IF Len(q) # 1 \/ ~\A t \in ToSet(p) : TermDivides(q[1], t) THEN None
  ELSE [i \in DOMAIN p |-> DividedTerm(p[i], q[1])]

Degree(m) == FoldLeft(LAMBDA sum, v : sum + m[v], 0, VarOrder)
VarsOf(m) == SelectSeq(VarOrder, LAMBDA v : m[v] > 0)

\* s comes before t in the order Python gives lists of names.
NamesPrecede(s, t) ==
  LET Rank(v) == CHOOSE i \in DOMAIN VarOrder : VarOrder[i] = v
  IN  \E i \in DOMAIN t : /\ \A j \in 1 .. i - 1 : j <= Len(s) /\ s[j] = t[j]
                          /\ i <= Len(s) => Rank(s[i]) < Rank(t[i])

\* The sort key: higher degree first, then by the names, the powers left out.
Precedes(t, u) ==
  \/ Degree(t.mono) > Degree(u.mono)
  \/ Degree(t.mono) = Degree(u.mono) /\ NamesPrecede(VarsOf(t.mono), VarsOf(u.mono))

\* sorted() is stable: terms with equal keys stay in the order of the dict.
SortedTerms(p) ==
  LET Insert(acc, t) == SelectSeq(acc, LAMBDA u : ~Precedes(t, u)) \o <<t>>
                          \o SelectSeq(acc, LAMBDA u : Precedes(t, u))
  IN  FoldLeft(Insert, <<>>, p)

\* The factors of a monomial, each variable as often as its power says.
Factors(mono) ==
  FlattenSeq([i \in DOMAIN VarOrder |-> [j \in 1 .. mono[VarOrder[i]] |-> VarOrder[i]]])

\* The lexemes of a text.
Sym(s) == [sym |-> s]
Num(n) == [num |-> n]
Name(v) == [name |-> v]

Absolute(c) == IF c < 0 THEN -c ELSE c

\* One signed term: the coefficient 1 is left out, and so is the power 1.
FormatTerm(first, t) ==
  LET size == Absolute(t.coeff)
      Power(v) == IF t.mono[v] = 1 THEN <<Name(v)>> ELSE <<Name(v), Sym("^"), Num(t.mono[v])>>
      coeff == IF t.mono = Unit \/ size # 1 THEN <<Num(size)>> ELSE <<>>
      Starred(acc, v) == acc \o (IF acc = <<>> THEN <<>> ELSE <<Sym("*")>>) \o Power(v)
      sign == IF t.coeff < 0 THEN <<Sym("-")>> ELSE IF first THEN <<>> ELSE <<Sym("+")>>
  IN  sign \o FoldLeft(Starred, coeff, VarsOf(t.mono))

\* canonical_str, as the lexemes of the text.
CanonicalText(p) ==
  IF p = <<>> THEN <<Num(0)>>
  ELSE FoldLeft(LAMBDA acc, t : acc \o FormatTerm(acc = <<>>, t), <<>>, SortedTerms(p))

-----------------------------------------------------------------------------
(* Expression trees.                                                       *)

Const(v) == [kind |-> "const", value |-> v]
Variable(name) == [kind |-> "var", name |-> name]
Binary(op, left, right) == [kind |-> "binary", op |-> op, left |-> left, right |-> right]
Unary(op, operand) == [kind |-> "unary", op |-> op, operand |-> operand]

\* SymPiecewise: cases is a sequence of [cond, expr].  A condition is a tree, a
\* bool being the constant 1 or 0; callables and texts are not modelled.
Piecewise(cases, default) == [kind |-> "piecewise", cases |-> cases, default |-> default]

IsConst(e) == e.kind = "const"
IsValue(e, v) == IsConst(e) /\ e.value = v
IsBinary(e, op) == e.kind = "binary" /\ e.op = op

-----------------------------------------------------------------------------
(* Evaluation.  None stands for an exception: a name that is not bound, or *)
(* a division by zero.                                                     *)

\* int(a ** b): a negative power of an integer is a fraction, cut towards zero.
Power(a, b) ==
  CASE b = 0 -> 1
    [] b > 0 -> a ^ b
    [] b < 0 /\ a = 0 -> None
    [] b < 0 /\ a = 1 -> 1
    [] b < 0 /\ a = -1 -> IF b % 2 = 0 THEN 1 ELSE -1
    [] OTHER -> 0

Smaller(a, b) == IF a <= b THEN a ELSE b
Larger(a, b) == IF a >= b THEN a ELSE b
Truth(holds) == IF holds THEN 1 ELSE 0

Operate(op, a, b) ==
  CASE op = "+" -> a + b
    [] op = "-" -> a - b
    [] op = "*" -> a * b
    [] op = "**" -> Power(a, b)
    [] op = "min" -> Smaller(a, b)
    [] op = "max" -> Larger(a, b)
    [] op = "==" -> Truth(a = b)
    [] op = "!=" -> Truth(a # b)
    [] op = "<" -> Truth(a < b)
    [] op = "<=" -> Truth(a <= b)
    [] op = ">" -> Truth(a > b)
    [] op = ">=" -> Truth(a >= b)
    [] op = "//" -> IF b = 0 THEN None ELSE FloorDiv(a, b)
    [] op = "%" -> IF b = 0 THEN None ELSE FloorMod(a, b)

RECURSIVE Eval(_, _)

\* The first case whose condition holds; a condition may raise.
EvalPiecewise(e, env) ==
  LET conds == [i \in DOMAIN e.cases |-> Eval(e.cases[i].cond, env)]
      stops == {i \in DOMAIN conds : conds[i] = None \/ conds[i] # 0}
      first == CHOOSE i \in stops : \A j \in stops : i <= j
  IN  IF stops = {} THEN Eval(e.default, env)
      ELSE IF conds[first] = None THEN None ELSE Eval(e.cases[first].expr, env)

EvalBinary(e, env) ==
  LET a == Eval(e.left, env)
      b == Eval(e.right, env)
  IN  IF None \in {a, b} THEN None ELSE Operate(e.op, a, b)

EvalUnary(e, env) ==
  LET a == Eval(e.operand, env)
  IN  IF a = None THEN None ELSE IF e.op = "abs" THEN Absolute(a) ELSE -a

Eval(e, env) ==
  CASE e.kind = "const" -> e.value
    [] e.kind = "var" -> IF e.name \in DOMAIN env THEN env[e.name] ELSE None
    [] e.kind = "binary" -> EvalBinary(e, env)
    [] e.kind = "unary" -> EvalUnary(e, env)
    [] e.kind = "piecewise" -> EvalPiecewise(e, env)

RECURSIVE FreeVars(_)
FreeVars(e) ==
  CASE e.kind = "const" -> {}
    [] e.kind = "var" -> {e.name}
    [] e.kind = "binary" -> FreeVars(e.left) \cup FreeVars(e.right)
    [] e.kind = "unary" -> FreeVars(e.operand)
    [] e.kind = "piecewise" ->
         FreeVars(e.default)
           \cup UNION {FreeVars(c.cond) \cup FreeVars(c.expr) : c \in ToSet(e.cases)}

=============================================================================
