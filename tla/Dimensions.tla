----------------------------- MODULE Dimensions -----------------------------
(***************************************************************************)
(* Dimensions as SymbolicConstraintTracker sees them: canonical keys, some *)
(* of which stand for a size, and the replies its methods give.  Whether a *)
(* size comes back as an int, a SymConst, a SymInt or the digit string the *)
(* caller passed is not told apart: a reply is a size or a symbolic key.   *)
(***************************************************************************)
EXTENDS Integers

CONSTANTS
  Key,         \* canonical keys of dimensions: symbols, expressions, literals
  Identifier,  \* the keys that are variable names
  SizeOf,      \* the size a constant key stands for, None for the others
  One,         \* the key "1"
  None

ASSUME KeyAssumption == Identifier \subseteq Key /\ One \in Key
ASSUME SizeAssumption ==
  /\ None \notin Int /\ None \notin Key
  /\ SizeOf \in [Key -> Int \cup {None}]
  /\ SizeOf[One] = 1
  /\ \A k \in Identifier : SizeOf[k] = None

NoBounds == [k \in {} |-> None]
Returned == [raised |-> FALSE, dim |-> None, size |-> None, bounds |-> NoBounds]
Raised == [Returned EXCEPT !.raised = TRUE]
Size(v) == [Returned EXCEPT !.size = v]
Dimension(k) ==
  IF SizeOf[k] = None THEN [Returned EXCEPT !.dim = k] ELSE Size(SizeOf[k])
Bounds(b) == [Returned EXCEPT !.bounds = b]
=============================================================================
