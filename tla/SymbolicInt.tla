---------------------------- MODULE SymbolicInt ----------------------------
(***************************************************************************)
(* SymInt (shapes/ast.py): a symbolic dimension built up by Python's       *)
(* operators, rewritten, and written to text and read back.                *)
(*                                                                         *)
(*   node   SymInt.node                                                    *)
(*   ops    how many operators have been applied, to bound the tree        *)
(***************************************************************************)
EXTENDS ExpressionText, FiniteSets

CONSTANTS
  Atom,     \* the names and numbers a dimension starts from
  Op,       \* the operators callers use
  Operand,  \* what callers combine it with: trees, or texts [kind, text]
  Other,    \* the dimensions it is compared with
  Size,     \* the sizes a variable may have
  MaxOps,   \* bound on the operators applied to it
  MaxValue, MaxExponent  \* bounds on what it comes to, and on exponents

VARIABLES node, ops

vars == <<node, ops>>

Environment == [Var \ {Whole} -> Size]

\* SymNode.to_node
ToNode(val) == IF val.kind = "text" THEN Parse(val.text) ELSE val

\* Values stay small, and no power of 0 but the positive ones is taken.
InBounds(op, l, r) ==
  \A env \in Environment :
    LET a == Eval(l, env)
        b == Eval(r, env)
        value == Operate(op, a, b)
    IN  None \notin {a, b} =>
          /\ op = "**" => Absolute(b) <= MaxExponent /\ (a = 0 => b > 0)
          /\ value # None => Absolute(value) <= MaxValue

Init == node \in Atom /\ ops = 0

Built(e) == ops < MaxOps /\ ops' = ops + 1 /\ node' = e

\* The binary dunder methods: the dimension is the left or the right operand.
Combine(op, l, r) == ops < MaxOps /\ InBounds(op, l, r) /\ Built(Binary(op, l, r))

Negate == Built(Unary("-", node))
Abs == Built(Unary("abs", node))

Rewritten(e) == node' = e /\ UNCHANGED ops

ToSimplified == Rewritten(Simplify(node))
ToCanonical == Rewritten(Canonical(node))

\* SymInt(str(self)): the dimension is stored as text and read again.
ReadBack == Rewritten(Parse(TextOf(node)))

Next ==
  \/ \E op \in Op, o \in Operand :
       Combine(op, node, ToNode(o)) \/ Combine(op, ToNode(o), node)
  \/ Negate \/ Abs \/ ToSimplified \/ ToCanonical \/ ReadBack

Spec == Init /\ [][Next]_vars

-----------------------------------------------------------------------------
(* Properties                                                              *)

\* Wherever e has a value, f has that value.
Preserves(e, f) ==
  \A env \in Environment : Eval(e, env) # None => Eval(f, env) = Eval(e, env)

\* simplify and canonical keep the value of the dimension for all positive
\* sizes of its variables, and bring in no variable.
RewritingKeepsValue ==
  \A e \in {Simplify(node), Canonical(node)} :
    Preserves(node, e) /\ FreeVars(e) \subseteq FreeVars(node)

\* Dimensions that compare equal have the same size wherever both have one.
ConsistentMeansEqual ==
  \A o \in Other : IsConsistent(node, o) =>
    \A env \in Environment :
      None \notin {Eval(node, env), Eval(o, env)} => Eval(node, env) = Eval(o, env)

\* A tree whose text says what it is: min and max print as infix words, and
\* the sign of a base prints outside its power.
RECURSIVE Printable(_)
Printable(e) ==
  CASE e.kind = "binary" ->
         /\ e.op \notin {"min", "max"} /\ Printable(e.left) /\ Printable(e.right)
         /\ e.op = "**" => TextOf(e.left)[1] # Sym("-")
    [] e.kind = "unary" -> Printable(e.operand)
    [] e.kind = "piecewise" -> FALSE
    [] OTHER -> TRUE

\* What is written is read back with the same value: the text of a tree, and the
\* canonical text of its polynomial.
ReadsBack ==
  /\ Printable(node) => Preserves(node, Parse(TextOf(node)))
  /\ ToPolynomial(node) # None => Preserves(node, Parse(CanonicalText(ToPolynomial(node))))

\* __hash__: "consistent with canonical equivalence".  The key under which the
\* constraint tracker files a dimension is made the same way.
EqualMeansSameHash ==
  \A o \in Other : IsConsistent(node, o) => Canonical(node) = Canonical(o)
=============================================================================
