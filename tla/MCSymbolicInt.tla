--------------------------- MODULE MCSymbolicInt ---------------------------
(***************************************************************************)
(* Instance: two variables, small constants and products of the variables. *)
(***************************************************************************)
EXTENDS SymbolicInt

X == Variable("x")
Y == Variable("y")

MCVarOrder == <<"x", "y", "whole">>
MCAtom == {X, Const(2)}
MCOp == {"+", "-", "*", "//", "%", "**", "min"}
MCOperand ==
  {X, Y, Const(0), Const(2), Const(-1), Binary("*", X, Y),
   [kind |-> "text", text |-> <<Name("max"), Sym("("), Name("x"), Sym(","), Num(2), Sym(")")>>]}
MCOther ==
  {Y, Binary("+", X, X), Binary("-", X, Y), Binary("*", Y, X), Binary("//", X, Const(2)),
   Binary("%", X, Y), Binary("min", X, Y), Binary("*", X, Binary("*", X, Y)),
   Binary("*", Binary("+", Y, X), Binary("*", X, Y))}
=============================================================================
