-------------------------- MODULE DimensionClasses --------------------------
(***************************************************************************)
(* What SymbolicConstraintTracker promises: the equalities it has accepted *)
(* partition the dimensions into classes of equal ones, a class never      *)
(* holds two different sizes, and an equality is refused exactly when      *)
(* accepting it would put two different sizes in one class.  A refused     *)
(* equality leaves the classes as they were, and is_consistent never       *)
(* forgets it.                                                             *)
(***************************************************************************)
EXTENDS Dimensions

VARIABLES
  class,          \* the dimensions known to equal each key
  contradiction,  \* an equality has been refused
  answer          \* what the last call returned

vars == <<class, contradiction, answer>>

Sizes(keys) == {SizeOf[k] : k \in keys} \ {None}
Conflicting(keys) == \E v, w \in Sizes(keys) : v # w
TheSize(keys) == CHOOSE v \in Sizes(keys) : TRUE

\* The known size of k's class, or k itself.
Resolved(keys, k) == IF Sizes(keys) = {} THEN Dimension(k) ELSE Size(TheSize(keys))

Init ==
  /\ class = [k \in Key |-> {k}]
  /\ contradiction = FALSE
  /\ answer = Returned

Joined(a, b) == class[a] \cup class[b]

\* Make a and b equal and answer reply, or refuse to.
Equate(a, b, reply) ==
  LET joined == Joined(a, b)
  IN  IF Conflicting(joined)
      THEN /\ contradiction' = TRUE
           /\ answer' = Raised
           /\ UNCHANGED class
      ELSE /\ answer' = reply
           /\ class' = [k \in Key |-> IF k \in joined THEN joined ELSE class[k]]
           /\ UNCHANGED contradiction

Record(a, b) == Equate(a, b, Returned)

\* A size of 1 broadcasts: unifying with it constrains nothing.
Unify(a, b) ==
  IF One \in {a, b}
  THEN /\ answer' = Dimension(IF a = One THEN b ELSE a)
       /\ UNCHANGED <<class, contradiction>>
  ELSE Equate(a, b, Resolved(Joined(a, b), a))

\* Reading changes nothing.
Substitute(k) ==
  /\ answer' = Resolved(class[k], k)
  /\ UNCHANGED <<class, contradiction>>

Solve ==
  /\ answer' = Bounds([k \in {i \in Identifier : Sizes(class[i]) # {}} |-> TheSize(class[k])])
  /\ UNCHANGED <<class, contradiction>>

Next ==
  \/ \E a, b \in Key : Record(a, b) \/ Unify(a, b)
  \/ \E k \in Key : Substitute(k)
  \/ Solve

Spec == Init /\ [][Next]_vars
=============================================================================
