--------------------------- MODULE ExpressionText ---------------------------
(***************************************************************************)
(* Expressions as text: str() of the classes of shapes/ast.py, and the     *)
(* tokenizer, the parser and SymbolicSolver of shapes/parser.py.  A text   *)
(* is the sequence of its lexemes: spaces are gone, a character the        *)
(* tokenizer does not know is Sym of it.                                   *)
(***************************************************************************)
EXTENDS Simplification

CONSTANT Whole  \* the name of the variable a text that does not parse becomes

Comparisons == {"==", "!=", "<", "<=", ">", ">="}
Symbols == Comparisons \cup {"(", ")", ",", "+", "-", "%", "*", "**", "//"}
Functions == {"abs", "min", "max"}

\* The operators that are printed as words.
OpLexeme(op) == IF op \in Functions THEN Name(op) ELSE Sym(op)

\* __str__; a piecewise expression prints as Python source, which does not parse.
RECURSIVE TextOf(_)
TextOf(e) ==
  CASE e.kind = "const" -> IF e.value < 0 THEN <<Sym("-"), Num(-e.value)>> ELSE <<Num(e.value)>>
    [] e.kind = "var" -> <<Name(e.name)>>
    [] e.kind = "binary" ->
         <<Sym("(")>> \o TextOf(e.left) \o <<OpLexeme(e.op)>> \o TextOf(e.right) \o <<Sym(")")>>
    [] e.kind = "unary" -> <<OpLexeme(e.op), Sym("(")>> \o TextOf(e.operand) \o <<Sym(")")>>
    [] e.kind = "piecewise" -> <<Name("Piecewise"), Sym("("), Sym("[")>>

\* Tokenize, but without spelling ^ and / out.
TokenizeAsIs(text) == SelectSeq(text, LAMBDA l : "sym" \in DOMAIN l => l.sym \in Symbols)

\* tokenize: ^ and / are spelt out, unknown characters are skipped.
Tokenize(text) ==
  LET Spelt(l) == IF l = Sym("^") THEN Sym("**") ELSE IF l = Sym("/") THEN Sym("//") ELSE l
      spelt == [i \in DOMAIN text |-> Spelt(text[i])]
  IN  SelectSeq(spelt, LAMBDA l : "sym" \in DOMAIN l => l.sym \in Symbols)

-----------------------------------------------------------------------------
(* The recursive descent: each operator takes the position to read from    *)
(* and gives the tree, the position reached, and whether it has failed.    *)

Parsed(node, idx, failed) == [node |-> node, idx |-> idx, failed |-> failed]

IsAt(toks, i, ops) == i <= Len(toks) /\ toks[i] \in {Sym(op) : op \in ops}

Joined(op, l, r) == Parsed(Binary(op, l.node, r.node), r.idx, l.failed \/ r.failed)

\* Step over the token expected next, or fail.
Expect(toks, s, p) ==
  IF IsAt(toks, p.idx, {s}) THEN [p EXCEPT !.idx = @ + 1] ELSE [p EXCEPT !.failed = TRUE]

RECURSIVE ParseFactor(_, _), ParseComparison(_, _), Terms(_, _), Summands(_, _)

\* A power binds to the factor before it and takes the factor after it.
WithPower(toks, p) ==
  IF IsAt(toks, p.idx, {"**"}) THEN Joined("**", p, ParseFactor(toks, p.idx + 1)) ELSE p

\* _parse_func_call, at the position after the name.
FuncCall(toks, name, i) ==
  LET arg1 == ParseComparison(toks, i + 1)
      arg2 == ParseComparison(toks, arg1.idx + 1)
  IN  IF name = "abs" THEN Expect(toks, ")", [arg1 EXCEPT !.node = Unary("abs", @)])
      ELSE IF IsAt(toks, arg1.idx, {","}) THEN Expect(toks, ")", Joined(name, arg1, arg2))
      ELSE Parsed(Const(0), arg1.idx, TRUE)

ParseName(toks, i) ==
  IF toks[i].name \in Functions /\ IsAt(toks, i + 1, {"("})
  THEN FuncCall(toks, toks[i].name, i + 1)
  ELSE Parsed(Variable(toks[i].name), i + 1, FALSE)

ParseFactor(toks, i) ==
  IF i > Len(toks) THEN Parsed(Const(0), i, TRUE)
  ELSE IF IsAt(toks, i, {"("}) THEN WithPower(toks, Expect(toks, ")", ParseComparison(toks, i + 1)))
  ELSE IF IsAt(toks, i, {"+"}) THEN ParseFactor(toks, i + 1)
  ELSE IF IsAt(toks, i, {"-"})
       THEN Joined("-", Parsed(Const(0), i, FALSE), ParseFactor(toks, i + 1))
  ELSE IF "num" \in DOMAIN toks[i] THEN WithPower(toks, Parsed(Const(toks[i].num), i + 1, FALSE))
  ELSE IF "name" \in DOMAIN toks[i] THEN WithPower(toks, ParseName(toks, i))
  ELSE WithPower(toks, Parsed(Variable(toks[i].sym), i + 1, FALSE))

\* The loops of parse_term and of parse_expr, from what they have read so far.
Terms(toks, p) ==
  IF IsAt(toks, p.idx, {"*", "//", "%"})
  THEN Terms(toks, Joined(toks[p.idx].sym, p, ParseFactor(toks, p.idx + 1)))
  ELSE p

ParseTerm(toks, i) == Terms(toks, ParseFactor(toks, i))

Summands(toks, p) ==
  IF IsAt(toks, p.idx, {"+", "-"})
  THEN Summands(toks, Joined(toks[p.idx].sym, p, ParseTerm(toks, p.idx + 1)))
  ELSE p

ParseExpr(toks, i) == Summands(toks, ParseTerm(toks, i))

ParseComparison(toks, i) ==
  LET p == ParseExpr(toks, i)
  IN  IF IsAt(toks, p.idx, Comparisons)
      THEN Joined(toks[p.idx].sym, p, ParseExpr(toks, p.idx + 1)) ELSE p

\* _parse_sym_str: a text that fails, or is not read to its end, is one variable.
Parse(text) ==
  LET toks == Tokenize(text)
      p == ParseComparison(toks, 1)
  IN  IF toks # <<>> /\ ~p.failed /\ p.idx = Len(toks) + 1 THEN p.node ELSE Variable(Whole)

-----------------------------------------------------------------------------
\* By the polynomials, or where one is missing by the texts.
Agree(p, q, text1, text2) ==
  IF None \in {p, q} THEN text1 = text2 ELSE SamePolynomial(p, q)

\* SymbolicSolver.is_consistent, on trees.
IsConsistent(e, f) ==
  \/ TextOf(e) = TextOf(f)
  \/ Agree(ToPolynomial(e), ToPolynomial(f), TextOf(Simplify(e)), TextOf(Simplify(f)))
=============================================================================
