------------------------- MODULE ConstraintTracker -------------------------
(***************************************************************************)
(* SymbolicConstraintTracker (shapes/tracker.py).                          *)
(*                                                                         *)
(*   parent         _parent, the disjoint-set forest over the keys seen    *)
(*   constOf        _const_map, the size known of a root; entries of keys  *)
(*                  that have stopped being roots stay behind in it        *)
(*   contradiction  _contradiction                                         *)
(*   answer         what the last call returned, or that it raised         *)
(*                                                                         *)
(* One action per public method.  A dimension argument is a key and        *)
(* whether it came as a Python int; bool arguments, refused before any     *)
(* state is touched, are not enumerated.                                   *)
(***************************************************************************)
EXTENDS Dimensions

CONSTANT Dim  \* the dimensions callers pass: a key, and whether as a Python int

ASSUME DimAssumption ==
  /\ Dim \subseteq [key : Key, int : BOOLEAN]
  /\ \A d \in Dim : d.int => SizeOf[d.key] # None
  /\ \A d, e \in Dim : d.int /\ e.int /\ SizeOf[d.key] = SizeOf[e.key] => d = e

-----------------------------------------------------------------------------
(* The disjoint-set forest, as pure operators on its parent map p.  A chain *)
(* is given as a least closed set rather than by recursion, so that facts   *)
(* about it can be proved.                                                  *)

\* What a walk along p from k cannot leave.
Closed(p, k) == {S \in SUBSET DOMAIN p : k \in S /\ \A y \in S : p[y] \in S}

\* The keys a walk from k along p visits: the least such set.  Short walks are
\* written out, which changes no value and spares TLC the enumeration.
Chain(p, k) ==
  IF p[k] = k THEN {k}
  ELSE IF p[p[k]] = p[k] THEN {k, p[k]}
  ELSE LET closed == Closed(p, k) IN {x \in DOMAIN p : \A S \in closed : x \in S}

\* The representative a walk from k ends in.
Root(p, k) ==
  IF p[p[k]] = p[k] THEN p[k] ELSE CHOOSE r \in Chain(p, k) : p[r] = r

\* Every walk ends, so _find returns on every key.
Forest(p) == \A k \in DOMAIN p : \E r \in Chain(p, k) : p[r] = r

\* A key that has not been seen becomes its own root.
Entered(p, k) ==
  IF k \in DOMAIN p THEN p
  ELSE [x \in DOMAIN p \cup {k} |-> IF x = k THEN k ELSE p[x]]

\* Path compression: everything on the walk from k points at its root.
Compressed(p, k) ==
  LET chain == Chain(p, k)
      root  == Root(p, k)
  IN  [x \in DOMAIN p |-> IF x \in chain THEN root ELSE p[x]]

\* The parent map after _find(k).
Find(p, k) == LET entered == Entered(p, k) IN Compressed(entered, k)

\* The tree rooted at rb is hung under the root ra.
Link(p, ra, rb) == [p EXCEPT ![rb] = ra]

\* The root of any key: one that has not been seen is its own.
RootIn(p, k) == IF k \in DOMAIN p THEN Root(p, k) ELSE k

-----------------------------------------------------------------------------

VARIABLES parent, constOf, contradiction, answer

vars == <<parent, constOf, contradiction, answer>>

TypeOK ==
  /\ parent \in [DOMAIN parent -> DOMAIN parent] /\ DOMAIN parent \subseteq Key
  /\ constOf \in [DOMAIN constOf -> Int] /\ DOMAIN constOf \subseteq DOMAIN parent
  /\ contradiction \in BOOLEAN
  /\ answer \in [raised : BOOLEAN, dim : Key \cup {None}, size : Int \cup {None},
                 bounds : {answer.bounds}]

Init ==
  /\ parent = [k \in {} |-> None]
  /\ constOf = NoBounds
  /\ contradiction = FALSE
  /\ answer = Returned

-----------------------------------------------------------------------------
\* _const_map.get(root)
Known(root) == IF root \in DOMAIN constOf THEN constOf[root] ELSE None

\* _extract_const_value, but forgetting that a literal is its own size.
ConstOfClass(key, root) == Known(root)

\* _extract_const_value: a literal's own size before its class's.
ConstOf(key, root) == IF SizeOf[key] # None THEN SizeOf[key] ELSE Known(root)

\* self._const_map[root] = v
WithConst(root, v) ==
  [k \in DOMAIN constOf \cup {root} |-> IF k = root THEN v ELSE constOf[k]]

\* What record_equality leaves behind, and whether it raised.
State(raised, p, consts) == [raised |-> raised, parent |-> p, constOf |-> consts]

\* EquatedKeys, but deciding on the keys, not on the roots, whether to link them.
EquatedByKey(a, b) ==
  LET pa == Find(parent, a)
      p  == Find(pa, b)
      ra == Root(pa, a)
      ca == ConstOf(a, ra)
      cb == ConstOf(b, Root(p, b))
      chosen == IF ca # None THEN ca ELSE cb
  IN  IF ca # None /\ cb # None /\ ca # cb THEN State(TRUE, p, constOf)
      ELSE State(FALSE, IF a = b THEN p ELSE Link(p, a, Root(p, b)),
                 IF chosen = None THEN constOf ELSE WithConst(ra, chosen))

\* record_equality once both dimensions have become keys.
EquatedKeys(a, b) ==
  LET pa == Find(parent, a)
      p  == Find(pa, b)
      ra == Root(pa, a)
      rb == Root(p, b)
      ca == ConstOf(a, ra)
      cb == ConstOf(b, rb)
      chosen == IF ca # None \/ ra = rb THEN ca ELSE cb
  IN  IF ca # None /\ cb # None /\ ca # cb THEN State(TRUE, p, constOf)
      ELSE State(FALSE, IF ra = rb THEN p ELSE Link(p, ra, rb),
                 IF chosen = None THEN constOf ELSE WithConst(ra, chosen))

\* record_equality: two ints are compared and leave no trace in the maps.
Equated(a, b) ==
  IF a.int /\ b.int
  THEN State(SizeOf[a.key] # SizeOf[b.key], parent, constOf)
  ELSE EquatedKeys(a.key, b.key)

-----------------------------------------------------------------------------
\* A call of record_equality, or of add_constraint: record_equality with an int.
Record(a, b) ==
  LET s == Equated(a, b)
  IN  /\ parent' = s.parent
      /\ constOf' = s.constOf
      /\ contradiction' = (contradiction \/ s.raised)
      /\ answer' = IF s.raised THEN Raised ELSE Returned

\* What is known of key, read at its root.
Read(p, consts, key) ==
  LET root == RootIn(p, key)
  IN  IF root \in DOMAIN consts THEN Size(consts[root]) ELSE Dimension(key)

Unify(a, b) ==
  LET s == Equated(a, b)
  IN  IF One \in {a.key, b.key}
      THEN /\ answer' = Dimension(IF a.key = One THEN b.key ELSE a.key)
           /\ UNCHANGED <<parent, constOf, contradiction>>
      ELSE /\ parent' = IF s.raised THEN s.parent ELSE Find(s.parent, a.key)
           /\ constOf' = s.constOf
           /\ contradiction' = (contradiction \/ s.raised)
           /\ answer' = IF s.raised THEN Raised ELSE Read(s.parent, s.constOf, a.key)

Substitute(d) ==
  /\ parent' = Find(parent, d.key)
  /\ answer' = Read(parent, constOf, d.key)
  /\ UNCHANGED <<constOf, contradiction>>

\* solve: _find on the parent of every variable; only variables with a known root are answered.
Solve ==
  LET named == Identifier \cap DOMAIN parent
      walked == UNION {Chain(parent, parent[k]) : k \in named}
  IN  /\ parent' = [k \in DOMAIN parent |-> IF k \in walked THEN Root(parent, k) ELSE parent[k]]
      /\ answer' = Bounds([k \in {v \in named : Root(parent, v) \in DOMAIN constOf} |->
                             constOf[Root(parent, k)]])
      /\ UNCHANGED <<constOf, contradiction>>

Next ==
  \/ \E a, b \in Dim : Record(a, b) \/ Unify(a, b)
  \/ \E d \in Dim : Substitute(d)
  \/ Solve

Spec == Init /\ [][Next]_vars

-----------------------------------------------------------------------------
(* Properties                                                              *)

\* _find returns on every key: no sequence of merges closes a cycle of parents.
FindReturns == Forest(parent)

\* The dimensions that share a root.
Class ==
  LET classes == {{j \in Key : RootIn(parent, j) = r} : r \in {RootIn(parent, k) : k \in Key}}
  IN  [k \in Key |-> CHOOSE c \in classes : k \in c]

Promise == INSTANCE DimensionClasses WITH class <- Class

\* Equalities partition the dimensions, a class has one size, exactly the
\* equalities that would give it two are refused, and every answer says so.
KeepsEqualities == Promise!Spec
=============================================================================
