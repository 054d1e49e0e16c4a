------------------------ MODULE MCConstraintTracker ------------------------
(***************************************************************************)
(* Instance: two variables, one composite expression, and the sizes 1 and  *)
(* 4, passed as ints.                                                      *)
(***************************************************************************)
EXTENDS ConstraintTracker, TLC

CONSTANTS n, m, composite, one, four

MCKey == {n, m, composite, one, four}
MCIdentifier == {n, m}
MCSizeOf ==
  [k \in MCKey |-> CASE k = one -> 1
                     [] k = four -> 4
                     [] OTHER -> None]
MCDim ==
  [key : {n, m, composite}, int : {FALSE}] \cup [key : {one, four}, int : {TRUE}]

\* No method reads the last answer, so states that differ in it alone are one;
\* every step into them is checked all the same.
MCView == <<parent, constOf, contradiction>>

\* The two variables play the same part.
MCSymmetry == Permutations(MCIdentifier)
=============================================================================
