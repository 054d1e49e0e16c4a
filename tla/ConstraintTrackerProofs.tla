---------------------- MODULE ConstraintTrackerProofs ----------------------
(***************************************************************************)
(* SymbolicConstraintTracker keeps its promise, for any keys and sizes.    *)
(*                                                                         *)
(* The argument has three parts.  The first is about the forest operators, *)
(* for any parent map p on any set D of keys: a walk has one root, and     *)
(* path compression, entering a new key and linking two roots keep every   *)
(* walk finite and move no key to another root, the linked tree excepted.  *)
(* The second reasons on the function R from keys to roots and the size    *)
(* map c alone, with no forest in sight.  What makes it work is Coherent:  *)
(* a live entry of c is the size of a literal in its class, and every      *)
(* literal in a class of two or more is in c.  The third applies both to   *)
(* each action.                                                            *)
(***************************************************************************)
EXTENDS ConstraintTracker, TLAPS

-----------------------------------------------------------------------------
(* The forest.                                                             *)

\* Nothing on a walk lies outside a set that the walk starts in and cannot leave.
LEMMA ChainLeast ==
  ASSUME NEW D, NEW p \in [D -> D], NEW k \in D,
         NEW S \in SUBSET D, k \in S, \A y \in S : p[y] \in S
  PROVE  Chain(p, k) \subseteq S
<1>1. p[k] \in S /\ p[p[k]] \in S
  OBVIOUS
<1>2. S \in Closed(p, k)
  BY DEF Closed
<1> QED
  BY <1>1, <1>2 DEF Chain

\* A walk starts at its key, stays among the keys, and goes on.
LEMMA ChainClosed ==
  ASSUME NEW D, NEW p \in [D -> D], NEW k \in D
  PROVE  /\ k \in Chain(p, k)
         /\ Chain(p, k) \subseteq D
         /\ \A y \in Chain(p, k) : p[y] \in Chain(p, k)
<1>1. p[k] \in D /\ p[p[k]] \in D
  OBVIOUS
<1>2. CASE p[k] = k
  BY <1>2 DEF Chain
<1>3. CASE p[k] # k /\ p[p[k]] = p[k]
  BY <1>1, <1>3 DEF Chain
<1>4. CASE p[k] # k /\ p[p[k]] # p[k]
  <2>1. Chain(p, k) = {x \in D : \A S \in Closed(p, k) : x \in S}
    BY <1>4 DEF Chain
  <2>2. \A S \in Closed(p, k) : k \in S /\ \A y \in S : p[y] \in S
    BY DEF Closed
  <2> QED
    BY <2>1, <2>2
<1> QED
  BY <1>2, <1>3, <1>4

\* A walk ends in at most one place.
LEMMA RootUnique ==
  ASSUME NEW D, NEW p \in [D -> D], NEW k \in D,
         NEW r \in Chain(p, k), p[r] = r,
         NEW s \in Chain(p, k), p[s] = s
  PROVE  r = s
<1> DEFINE T == {x \in D : r \in Chain(p, x)}
<1>1. r \in D /\ s \in D
  BY ChainClosed
<1>2. \A x \in T : p[x] \in T
  <2> SUFFICES ASSUME NEW x \in T, x # r PROVE r \in Chain(p, p[x])
    OBVIOUS
  <2> DEFINE S == {x} \cup Chain(p, p[x])
  <2>1. S \in SUBSET D /\ \A y \in S : p[y] \in S
    BY ChainClosed
  <2>2. Chain(p, x) \subseteq S
    <3> HIDE DEF S
    <3>1. x \in S
      BY DEF S
    <3> QED
      BY <2>1, <3>1, ChainLeast
  <2> QED
    BY <2>2
<1>3. Chain(p, k) \subseteq T
  <2>1. k \in T /\ T \in SUBSET D
    OBVIOUS
  <2> HIDE DEF T
  <2> QED
    BY <1>2, <2>1, ChainLeast
<1>4. Chain(p, s) \subseteq {s}
  <2>1. {s} \in SUBSET D /\ s \in {s} /\ \A y \in {s} : p[y] \in {s}
    BY <1>1
  <2> QED
    BY <1>1, <2>1, ChainLeast
<1> QED
  BY <1>3, <1>4

\* Root is the root.
LEMMA RootOfWalk ==
  ASSUME NEW D, NEW p \in [D -> D], NEW k \in D,
         NEW r \in Chain(p, k), p[r] = r
  PROVE  Root(p, k) = r
<1>1. p[k] \in Chain(p, k)
  BY ChainClosed
<1>2. CASE p[p[k]] = p[k]
  BY <1>1, <1>2, RootUnique DEF Root
<1>3. CASE p[p[k]] # p[k]
  <2>1. Root(p, k) = CHOOSE s \in Chain(p, k) : p[s] = s
    BY <1>3 DEF Root
  <2>2. Root(p, k) \in Chain(p, k) /\ p[Root(p, k)] = Root(p, k)
    BY <2>1
  <2> QED
    BY <2>2, RootUnique
<1> QED
  BY <1>2, <1>3

\* In a forest every walk reaches its root.
LEMMA RootExists ==
  ASSUME NEW D, NEW p \in [D -> D], Forest(p), NEW k \in D
  PROVE  /\ Root(p, k) \in Chain(p, k)
         /\ Root(p, k) \in D
         /\ p[Root(p, k)] = Root(p, k)
<1>1. PICK r \in Chain(p, k) : p[r] = r
  BY DEF Forest
<1>2. Root(p, k) = r
  BY <1>1, RootOfWalk
<1> QED
  BY <1>1, <1>2, ChainClosed

\* A root is its own root.
LEMMA RootOfRoot ==
  ASSUME NEW D, NEW p \in [D -> D], NEW r \in D, p[r] = r
  PROVE  Root(p, r) = r
BY DEF Root

\* One step of a walk does not change where it ends.
LEMMA RootStep ==
  ASSUME NEW D, NEW p \in [D -> D], Forest(p), NEW k \in D
  PROVE  Root(p, p[k]) = Root(p, k)
<1>1. p[k] \in D
  OBVIOUS
<1>2. Chain(p, p[k]) \subseteq Chain(p, k)
  <2>1. /\ Chain(p, k) \in SUBSET D /\ p[k] \in Chain(p, k)
        /\ \A y \in Chain(p, k) : p[y] \in Chain(p, k)
    BY ChainClosed
  <2> QED
    BY <1>1, <2>1, ChainLeast
<1>3. Root(p, p[k]) \in Chain(p, k) /\ p[Root(p, p[k])] = Root(p, p[k])
  BY <1>1, <1>2, RootExists
<1> QED
  BY <1>3, RootOfWalk

\* Everything on a walk has the walk's root.
LEMMA RootOnChain ==
  ASSUME NEW D, NEW p \in [D -> D], Forest(p), NEW k \in D, NEW x \in Chain(p, k)
  PROVE  Root(p, x) = Root(p, k)
<1> DEFINE S == {y \in D : Root(p, y) = Root(p, k)}
<1>1. k \in S /\ S \in SUBSET D
  OBVIOUS
<1>2. \A y \in S : p[y] \in S
  BY RootStep
<1>3. Chain(p, k) \subseteq S
  <2> HIDE DEF S
  <2> QED
    BY <1>1, <1>2, ChainLeast
<1> QED
  BY <1>3

\* Path compression of any set W of keys moves no key to another root.
LEMMA ShortcutForest ==
  ASSUME NEW D, NEW p \in [D -> D], Forest(p), NEW W \in SUBSET D,
         NEW q, q = [x \in D |-> IF x \in W THEN Root(p, x) ELSE p[x]]
  PROVE  /\ q \in [D -> D]
         /\ Forest(q)
         /\ \A k \in D : Root(q, k) = Root(p, k)
<1>1. q \in [D -> D]
  BY RootExists
<1>2. ASSUME NEW k \in D
      PROVE  Root(p, k) \in Chain(q, k) /\ q[Root(p, k)] = Root(p, k)
  <2> DEFINE r == Root(p, k)
             S == {x \in Chain(q, k) : Root(p, x) = r}
  <2>1. r \in Chain(p, k) /\ r \in D /\ p[r] = r
    BY RootExists
  <2>2. q[r] = r
    BY <2>1, RootOfRoot
  <2>3. k \in Chain(q, k) /\ Chain(q, k) \subseteq D
        /\ \A y \in Chain(q, k) : q[y] \in Chain(q, k)
    BY <1>1, ChainClosed
  <2>4. ASSUME r \notin Chain(q, k) PROVE FALSE
    <3>1. ASSUME NEW x \in S PROVE p[x] \in S
      <4>1. x \in D /\ q[x] \in Chain(q, k) /\ Root(p, x) = r
        BY <2>3
      <4>2. x \notin W
        BY <2>4, <4>1
      <4>3. q[x] = p[x]
        BY <4>1, <4>2
      <4>4. Root(p, p[x]) = r
        BY <4>1, RootStep
      <4> QED
        BY <4>1, <4>3, <4>4
    <3>2. k \in S /\ S \in SUBSET D
      BY <2>3
    <3>3. Chain(p, k) \subseteq S
      <4> HIDE DEF S
      <4> QED
        BY <3>1, <3>2, ChainLeast
    <3> QED
      BY <2>1, <2>4, <3>3
  <2> QED
    BY <2>2, <2>4
<1>3. \A k \in D : Root(q, k) = Root(p, k)
  BY <1>1, <1>2, RootOfWalk
<1>4. Forest(q)
  <2>1. DOMAIN q = D
    BY <1>1
  <2> QED
    BY <1>2, <2>1 DEF Forest
<1> QED
  BY <1>1, <1>3, <1>4

\* Hanging one root under another moves the keys of its tree, and only those.
LEMMA LinkForest ==
  ASSUME NEW D, NEW p \in [D -> D], Forest(p),
         NEW ra \in D, NEW rb \in D, p[ra] = ra, p[rb] = rb, ra # rb,
         NEW q, q = Link(p, ra, rb)
  PROVE  /\ q \in [D -> D]
         /\ Forest(q)
         /\ \A k \in D : Root(q, k) = IF Root(p, k) = rb THEN ra ELSE Root(p, k)
<1>0. q = [x \in D |-> IF x = rb THEN ra ELSE p[x]]
  BY DEF Link
<1>1. q \in [D -> D]
  BY <1>0
<1>2. ASSUME NEW k \in D,
             NEW r, r = IF Root(p, k) = rb THEN ra ELSE Root(p, k)
      PROVE  r \in Chain(q, k) /\ q[r] = r
  <2> DEFINE S == {x \in Chain(q, k) : Root(p, x) = Root(p, k)}
  <2>1. Root(p, k) \in Chain(p, k) /\ Root(p, k) \in D /\ p[Root(p, k)] = Root(p, k)
    BY RootExists
  <2>2. q[r] = r
    BY <1>0, <1>2, <2>1
  <2>3. k \in Chain(q, k) /\ Chain(q, k) \subseteq D
        /\ \A y \in Chain(q, k) : q[y] \in Chain(q, k)
    BY <1>1, ChainClosed
  <2>4. Root(p, k) \in Chain(q, k)
    <3> SUFFICES ASSUME Root(p, k) \notin Chain(q, k) PROVE FALSE
      OBVIOUS
    <3>1. ASSUME NEW x \in S PROVE p[x] \in S
      <4>1. x \in D /\ q[x] \in Chain(q, k) /\ Root(p, x) = Root(p, k)
        BY <2>3
      <4>2. x # rb
        BY <4>1, RootOfRoot
      <4>3. q[x] = p[x]
        BY <1>0, <4>1, <4>2
      <4>4. Root(p, p[x]) = Root(p, k)
        BY <4>1, RootStep
      <4> QED
        BY <4>1, <4>3, <4>4
    <3>2. k \in S /\ S \in SUBSET D
      BY <2>3
    <3>3. Chain(p, k) \subseteq S
      <4> HIDE DEF S
      <4> QED
        BY <3>1, <3>2, ChainLeast
    <3> QED
      BY <2>1, <3>3
  <2>5. r \in Chain(q, k)
    <3>1. CASE Root(p, k) = rb
      BY <1>0, <1>2, <2>3, <2>4, <3>1
    <3>2. CASE Root(p, k) # rb
      BY <1>2, <2>4, <3>2
    <3> QED
      BY <3>1, <3>2
  <2> QED
    BY <2>2, <2>5
<1>3. \A k \in D : Root(q, k) = IF Root(p, k) = rb THEN ra ELSE Root(p, k)
  BY <1>1, <1>2, RootOfWalk
<1>4. Forest(q)
  <2>1. DOMAIN q = D
    BY <1>1
  <2> QED
    BY <1>2, <2>1 DEF Forest
<1> QED
  BY <1>1, <1>3, <1>4

\* q is the forest p over D once k is entered.
Enters(D, p, k, q) == p \in [D -> D] /\ Forest(p) /\ q = Entered(p, k)

\* Entering a key adds a tree of its own at most.
LEMMA EnterForest ==
  ASSUME NEW D, NEW p, NEW k, NEW q, Enters(D, p, k, q)
  PROVE  /\ q \in [D \cup {k} -> D \cup {k}]
         /\ Forest(q)
         /\ \A x \in D : Root(q, x) = Root(p, x)
         /\ k \notin D => Root(q, k) = k
<1>0. p \in [D -> D] /\ Forest(p) /\ q = Entered(p, k)
  BY DEF Enters
<1>1. CASE k \in D
  <2>1. q = p /\ D \cup {k} = D
    BY <1>0, <1>1 DEF Entered
  <2> QED
    BY <1>0, <1>1, <2>1
<1>2. CASE k \notin D
  <2> DEFINE E == D \cup {k}
  <2>1. q = [x \in E |-> IF x = k THEN k ELSE p[x]]
    BY <1>0, <1>2 DEF Entered
  <2>2. q \in [E -> E]
    BY <1>0, <2>1
  <2>3. q[k] = k /\ \A x \in D : q[x] = p[x]
    BY <1>2, <2>1
  <2>4. ASSUME NEW x \in D
        PROVE  Root(p, x) \in Chain(q, x) /\ q[Root(p, x)] = Root(p, x)
    <3> DEFINE S == Chain(q, x) \cap D
    <3>1. Root(p, x) \in Chain(p, x) /\ Root(p, x) \in D /\ p[Root(p, x)] = Root(p, x)
      BY <1>0, RootExists
    <3>2. x \in E
      OBVIOUS
    <3>3. x \in Chain(q, x) /\ \A y \in Chain(q, x) : q[y] \in Chain(q, x)
      <4> HIDE DEF E
      <4> QED
        BY <2>2, <3>2, ChainClosed
    <3>4. x \in S /\ S \in SUBSET D /\ \A y \in S : p[y] \in S
      BY <1>0, <2>3, <3>3
    <3>5. Chain(p, x) \subseteq S
      <4> HIDE DEF S
      <4> QED
        BY <1>0, <3>4, ChainLeast
    <3> QED
      BY <2>3, <3>1, <3>5
  <2>5. \A x \in D : Root(q, x) = Root(p, x)
    <3>1. \A x \in D : x \in E
      OBVIOUS
    <3> HIDE DEF E
    <3> QED
      BY <2>2, <2>4, <3>1, RootOfWalk
  <2>6. k \in E /\ Root(q, k) = k
    <3>1. k \in E
      OBVIOUS
    <3> HIDE DEF E
    <3> QED
      BY <2>2, <2>3, <3>1, RootOfRoot
  <2>7. Forest(q)
    <3>1. k \in Chain(q, k)
      <4> HIDE DEF E
      <4> QED
        BY <2>2, <2>6, ChainClosed
    <3> QED
      BY <2>1, <2>3, <2>4, <3>1 DEF Forest
  <2> QED
    BY <2>2, <2>5, <2>6, <2>7
<1> QED
  BY <1>1, <1>2

\* _find enters its key and moves no key to another root.
LEMMA FindForest ==
  ASSUME NEW D, NEW p \in [D -> D], Forest(p), NEW k
  PROVE  /\ Find(p, k) \in [D \cup {k} -> D \cup {k}]
         /\ Forest(Find(p, k))
         /\ \A x \in D : Root(Find(p, k), x) = Root(p, x)
         /\ k \notin D => Root(Find(p, k), k) = k
<1> DEFINE E == D \cup {k}
           e == Entered(p, k)
           f == Find(p, k)
<1>1. /\ e \in [E -> E]
      /\ Forest(e)
      /\ \A x \in D : Root(e, x) = Root(p, x)
      /\ k \notin D => Root(e, k) = k
  <2> HIDE DEF e, f, E
  <2>1. Enters(D, p, k, e)
    BY DEF Enters, e
  <2>2. /\ e \in [D \cup {k} -> D \cup {k}]
        /\ Forest(e)
        /\ \A x \in D : Root(e, x) = Root(p, x)
        /\ k \notin D => Root(e, k) = k
    BY <2>1, EnterForest
  <2> QED
    BY <2>2 DEF E
<1>2. k \in E /\ D \subseteq E
  OBVIOUS
<1>3. f = Compressed(e, k)
  BY DEF Find
<1> HIDE DEF E, e, f
<1>4. Chain(e, k) \in SUBSET E
  BY <1>1, <1>2, ChainClosed
<1>5. f = [x \in E |-> IF x \in Chain(e, k) THEN Root(e, x) ELSE e[x]]
  <2>1. \A x \in Chain(e, k) : Root(e, x) = Root(e, k)
    BY <1>1, <1>2, RootOnChain
  <2>2. DOMAIN e = E
    BY <1>1
  <2> QED
    BY <1>3, <2>1, <2>2 DEF Compressed
<1>6. f \in [E -> E] /\ Forest(f) /\ \A x \in E : Root(f, x) = Root(e, x)
  BY <1>1, <1>4, <1>5, ShortcutForest
<1>7. (\A x \in D : Root(f, x) = Root(p, x)) /\ (k \notin D => Root(f, k) = k)
  BY <1>1, <1>2, <1>6
<1> QED
  BY <1>6, <1>7 DEF E, f

-----------------------------------------------------------------------------
(* Roots and sizes.                                                        *)

\* The keys that R puts with k.
ClassIn(R, k) == {j \in Key : R[j] = R[k]}

\* _extract_const_value in terms of roots.
SizeIn(R, c, k) ==
  IF SizeOf[k] # None THEN SizeOf[k]
  ELSE IF R[k] \in DOMAIN c THEN c[R[k]] ELSE None

\* R sends keys to roots and roots to themselves; c holds sizes of keys.
RootMap(R, c) ==
  /\ R \in [Key -> Key]
  /\ \A k \in Key : R[R[k]] = R[k]
  /\ c \in [DOMAIN c -> Int] /\ DOMAIN c \subseteq Key

\* The size known of a root is the size of a literal in its class...
SizesHold(R, c) ==
  \A r \in DOMAIN c : R[r] = r => \E k \in Key : R[k] = r /\ SizeOf[k] = c[r]

\* ... and the size of a literal that has been equated with anything is known.
SizesKnown(R, c) ==
  \A k \in Key : SizeOf[k] # None =>
    \/ R[k] \in DOMAIN c /\ c[R[k]] = SizeOf[k]
    \/ \A j \in Key : R[j] = R[k] => j = k

Coherent(R, c) == RootMap(R, c) /\ SizesHold(R, c) /\ SizesKnown(R, c)

\* What record_equality reads for a key is all that its class says.
LEMMA SizesOfClass ==
  ASSUME NEW R, NEW c, Coherent(R, c), NEW a \in Key
  PROVE  /\ SizeIn(R, c, a) \in Int \cup {None}
         /\ \A k \in ClassIn(R, a) : SizeOf[k] \in {None, SizeIn(R, c, a)}
         /\ SizeIn(R, c, a) # None =>
              \E k \in ClassIn(R, a) : SizeOf[k] = SizeIn(R, c, a)
         /\ Promise!Sizes(ClassIn(R, a)) = {SizeIn(R, c, a)} \ {None}
<1> USE SizeAssumption
<1>1. SizeIn(R, c, a) \in Int \cup {None}
  BY DEF SizeIn, Coherent, RootMap
<1>2. \A k \in ClassIn(R, a) : SizeOf[k] \in {None, SizeIn(R, c, a)}
  <2> SUFFICES ASSUME NEW k \in ClassIn(R, a), SizeOf[k] # None, k # a
               PROVE  SizeOf[k] = SizeIn(R, c, a)
    BY DEF SizeIn
  <2>1. k \in Key /\ R[k] = R[a]
    BY DEF ClassIn
  <2>2. R[k] \in DOMAIN c /\ c[R[k]] = SizeOf[k]
    BY <2>1 DEF Coherent, SizesKnown
  <2>3. SizeOf[a] # None => c[R[a]] = SizeOf[a]
    BY <2>1 DEF Coherent, SizesKnown
  <2> QED
    BY <2>1, <2>2, <2>3 DEF SizeIn
<1>3. SizeIn(R, c, a) # None => \E k \in ClassIn(R, a) : SizeOf[k] = SizeIn(R, c, a)
  <2>1. CASE SizeOf[a] # None
    BY <2>1 DEF SizeIn, ClassIn
  <2>2. CASE SizeOf[a] = None /\ R[a] \in DOMAIN c
    <3>1. R[R[a]] = R[a]
      BY DEF Coherent, RootMap
    <3>2. PICK k \in Key : R[k] = R[a] /\ SizeOf[k] = c[R[a]]
      BY <2>2, <3>1 DEF Coherent, SizesHold
    <3> QED
      BY <2>2, <3>2 DEF SizeIn, ClassIn
  <2>3. CASE SizeOf[a] = None /\ R[a] \notin DOMAIN c
    BY <2>3 DEF SizeIn
  <2> QED
    BY <2>1, <2>2, <2>3
<1>4. Promise!Sizes(ClassIn(R, a)) = {SizeIn(R, c, a)} \ {None}
  BY <1>2, <1>3 DEF Promise!Sizes
<1> QED
  BY <1>1, <1>2, <1>3, <1>4

\* Two trees become one under ra.
Merged(R, ra, rb) == [k \in Key |-> IF R[k] = rb THEN ra ELSE R[k]]

\* _const_map after self._const_map[r] = v, if there is a v.
Noted(c, r, v) ==
  IF v = None THEN c ELSE [k \in DOMAIN c \cup {r} |-> IF k = r THEN v ELSE c[k]]

Agree(v, w) == v = None \/ w = None \/ v = w

\* Linking two classes whose sizes agree, and noting the size, keeps Coherent.
LEMMA MergeCoherent ==
  ASSUME NEW R, NEW c, Coherent(R, c), NEW a \in Key, NEW b \in Key,
         R[a] # R[b], Agree(SizeIn(R, c, a), SizeIn(R, c, b)),
         NEW v, v = IF SizeIn(R, c, a) # None THEN SizeIn(R, c, a) ELSE SizeIn(R, c, b)
  PROVE  Coherent(Merged(R, R[a], R[b]), Noted(c, R[a], v))
<1> USE SizeAssumption
<1> DEFINE M == Merged(R, R[a], R[b])
           d == Noted(c, R[a], v)
<1>1. /\ R \in [Key -> Key] /\ \A k \in Key : R[R[k]] = R[k]
      /\ c \in [DOMAIN c -> Int] /\ DOMAIN c \subseteq Key
  BY DEF Coherent, RootMap
<1>2. v \in Int \cup {None}
  BY SizesOfClass
<1>3. \A k \in Key : M[k] = IF R[k] = R[b] THEN R[a] ELSE R[k]
  BY DEF Merged
<1>4. \A k \in Key : SizeOf[k] # None /\ R[k] \in {R[a], R[b]} => SizeOf[k] = v
  <2> SUFFICES ASSUME NEW k \in Key, SizeOf[k] # None, R[k] \in {R[a], R[b]}
               PROVE  SizeOf[k] = v
    OBVIOUS
  <2>1. CASE R[k] = R[a]
    <3>1. k \in ClassIn(R, a)
      BY <2>1 DEF ClassIn
    <3> QED
      BY <3>1, SizesOfClass
  <2>2. CASE R[k] = R[b]
    <3>1. k \in ClassIn(R, b)
      BY <2>2 DEF ClassIn
    <3>2. SizeOf[k] = SizeIn(R, c, b)
      BY <3>1, SizesOfClass
    <3> QED
      BY <3>2 DEF Agree
  <2> QED
    BY <2>1, <2>2
<1>5. v # None => \E k \in Key : R[k] \in {R[a], R[b]} /\ SizeOf[k] = v
  <2>1. SizeIn(R, c, a) # None =>
          \E k \in ClassIn(R, a) : SizeOf[k] = SizeIn(R, c, a)
    BY SizesOfClass
  <2>2. SizeIn(R, c, b) # None =>
          \E k \in ClassIn(R, b) : SizeOf[k] = SizeIn(R, c, b)
    BY SizesOfClass
  <2> QED
    BY <2>1, <2>2 DEF ClassIn
<1>6. RootMap(M, d)
  <2>1. M \in [Key -> Key]
    BY <1>1 DEF Merged
  <2>2. ASSUME NEW k \in Key
        PROVE  M[M[k]] = M[k]
    <3> HIDE DEF M, d
    <3>1. R[a] \in Key /\ R[b] \in Key /\ R[k] \in Key
      BY <1>1
    <3>2. R[R[a]] = R[a] /\ R[R[k]] = R[k]
      BY <1>1
    <3>3. M[R[a]] = R[a]
      BY <1>3, <3>1, <3>2
    <3>4. CASE R[k] = R[b]
      BY <1>3, <3>3, <3>4
    <3>5. CASE R[k] # R[b]
      BY <1>3, <3>1, <3>2, <3>5
    <3> QED
      BY <3>4, <3>5
  <2>3. d \in [DOMAIN d -> Int] /\ DOMAIN d \subseteq Key
    <3>1. CASE v = None
      BY <1>1, <3>1 DEF Noted
    <3>2. CASE v # None
      BY <1>1, <1>2, <3>2 DEF Noted
    <3> QED
      BY <3>1, <3>2
  <2> HIDE DEF M, d
  <2> QED
    BY <2>1, <2>2, <2>3 DEF RootMap
<1>7. SizesHold(M, d)
  <2> SUFFICES ASSUME NEW r \in DOMAIN d, M[r] = r
               PROVE  \E k \in Key : M[k] = r /\ SizeOf[k] = d[r]
    BY DEF SizesHold
  <2>1. r \in Key
    BY <1>6 DEF RootMap
  <2>2. CASE r = R[a] /\ v # None
    <3>1. d[r] = v
      BY <2>2 DEF Noted
    <3> HIDE DEF M, d
    <3> QED
      BY <1>3, <1>5, <2>2, <3>1
  <2>3. CASE r = R[a] /\ v = None
    <3>1. d = c
      BY <2>3 DEF Noted
    <3>2. PICK k \in Key : R[k] = r /\ SizeOf[k] = c[r]
      BY <1>1, <2>3, <3>1 DEF Coherent, SizesHold
    <3>3. c[r] \in Int
      BY <1>1, <3>1
    <3> QED
      BY <1>4, <2>3, <3>2, <3>3
  <2>4. CASE r # R[a]
    <3>1. r \in DOMAIN c /\ d[r] = c[r]
      BY <2>4 DEF Noted
    <3>2. R[r] = r /\ r # R[b]
      BY <1>1, <1>3, <2>1, <2>4
    <3>3. PICK k \in Key : R[k] = r /\ SizeOf[k] = c[r]
      BY <3>1, <3>2 DEF Coherent, SizesHold
    <3> QED
      BY <1>3, <3>1, <3>2, <3>3
  <2> QED
    BY <2>2, <2>3, <2>4
<1>8. SizesKnown(M, d)
  <2> SUFFICES ASSUME NEW k \in Key, SizeOf[k] # None,
                      NEW j \in Key, M[j] = M[k], j # k
               PROVE  M[k] \in DOMAIN d /\ d[M[k]] = SizeOf[k]
    BY DEF SizesKnown
  <2>1. CASE R[k] \in {R[a], R[b]}
    <3>1. M[k] = R[a] /\ SizeOf[k] = v
      BY <1>3, <1>4, <2>1
    <3> QED
      BY <3>1 DEF Noted
  <2>2. CASE R[k] \notin {R[a], R[b]}
    <3>1. M[k] = R[k] /\ R[j] = R[k]
      BY <1>3, <2>2
    <3>2. R[k] \in DOMAIN c /\ c[R[k]] = SizeOf[k]
      BY <3>1 DEF Coherent, SizesKnown
    <3> QED
      BY <2>2, <3>1, <3>2 DEF Noted
  <2> QED
    BY <2>1, <2>2
<1> HIDE DEF M, d
<1>9. Coherent(M, d)
  BY <1>6, <1>7, <1>8 DEF Coherent
<1> QED
  BY <1>9 DEF M, d

\* Equating two keys of one class notes at most what the class already says.
LEMMA SameCoherent ==
  ASSUME NEW R, NEW c, Coherent(R, c), NEW a \in Key
  PROVE  Coherent(R, Noted(c, R[a], SizeIn(R, c, a)))
<1> USE SizeAssumption
<1> DEFINE v == SizeIn(R, c, a)
           d == Noted(c, R[a], v)
<1>1. CASE v = None
  BY <1>1 DEF Noted
<1>2. CASE v # None
  <2>1. /\ R \in [Key -> Key] /\ \A k \in Key : R[R[k]] = R[k]
        /\ c \in [DOMAIN c -> Int] /\ DOMAIN c \subseteq Key
    BY DEF Coherent, RootMap
  <2>2. v \in Int
    BY <1>2, SizesOfClass
  <2>3. d = [k \in DOMAIN c \cup {R[a]} |-> IF k = R[a] THEN v ELSE c[k]]
    BY <1>2 DEF Noted
  <2>4. \E k \in Key : R[k] = R[a] /\ SizeOf[k] = v
    <3>1. \E k \in ClassIn(R, a) : SizeOf[k] = SizeIn(R, c, a)
      BY <1>2, SizesOfClass
    <3> QED
      BY <3>1 DEF ClassIn
  <2>5. \A k \in Key : R[k] = R[a] /\ SizeOf[k] # None => SizeOf[k] = v
    <3>1. \A k \in ClassIn(R, a) : SizeOf[k] \in {None, SizeIn(R, c, a)}
      BY SizesOfClass
    <3> QED
      BY <3>1 DEF ClassIn
  <2> HIDE DEF v, d
  <2>6. RootMap(R, d)
    BY <2>1, <2>2, <2>3 DEF RootMap
  <2>7. SizesHold(R, d)
    BY <2>3, <2>4 DEF SizesHold, Coherent
  <2>8. SizesKnown(R, d)
    BY <2>3, <2>5 DEF SizesKnown, Coherent
  <2>9. Coherent(R, d)
    BY <2>6, <2>7, <2>8 DEF Coherent
  <2> QED
    BY <2>9 DEF v, d
<1> QED
  BY <1>1, <1>2

\* The abstract specification's replies are the tracker's.
LEMMA SameReplies ==
  /\ Promise!Returned = Returned
  /\ Promise!Raised = Raised
  /\ \A v : Promise!Size(v) = Size(v)
  /\ \A k : Promise!Dimension(k) = Dimension(k)
  /\ \A b : Promise!Bounds(b) = Bounds(b)
<1>1. Promise!NoBounds = NoBounds
  BY DEF Promise!NoBounds, NoBounds
<1>2. Promise!Returned = Returned
  BY <1>1 DEF Promise!Returned, Returned
<1>3. Promise!Raised = Raised
  BY <1>2 DEF Promise!Raised, Raised
<1>4. \A v : Promise!Size(v) = Size(v)
  BY <1>2 DEF Promise!Size, Size
<1>5. \A k : Promise!Dimension(k) = Dimension(k)
  BY <1>2, <1>4 DEF Promise!Dimension, Dimension
<1>6. \A b : Promise!Bounds(b) = Bounds(b)
  BY <1>2 DEF Promise!Bounds, Bounds
<1> QED
  BY <1>2, <1>3, <1>4, <1>5, <1>6

\* Reading a key gives the size of its class, or the key.
LEMMA ReadResolves ==
  ASSUME NEW R, NEW c, Coherent(R, c), NEW k \in Key
  PROVE  (IF R[k] \in DOMAIN c THEN Size(c[R[k]]) ELSE Dimension(k))
           = Promise!Resolved(ClassIn(R, k), k)
<1> USE SizeAssumption
<1> DEFINE v == SizeIn(R, c, k)
           sizes == Promise!Sizes(ClassIn(R, k))
<1>1. v \in Int \cup {None} /\ sizes = {v} \ {None}
  BY SizesOfClass
<1>2. R[k] \in DOMAIN c => c[R[k]] = v
  <2> SUFFICES ASSUME R[k] \in DOMAIN c PROVE c[R[k]] = v
    OBVIOUS
  <2>1. R[R[k]] = R[k] /\ c[R[k]] \in Int
    BY DEF Coherent, RootMap
  <2>2. PICK j \in Key : R[j] = R[k] /\ SizeOf[j] = c[R[k]]
    BY <2>1 DEF Coherent, SizesHold
  <2>3. j \in ClassIn(R, k)
    BY <2>2 DEF ClassIn
  <2> QED
    BY <2>1, <2>2, <2>3, SizesOfClass
<1>3. R[k] \notin DOMAIN c => v = SizeOf[k]
  BY DEF SizeIn
<1>4. v # None => sizes = {v} /\ (CHOOSE w \in sizes : TRUE) = v
  BY <1>1
<1>5. R[k] \in DOMAIN c => v # None
  BY <1>1, <1>2 DEF Coherent, RootMap
<1>6. sizes = {} => v = None
  BY <1>1
<1> HIDE DEF v
<1>7. CASE v = None
  BY <1>1, <1>3, <1>5, <1>7, SameReplies DEF Promise!Resolved
<1>8. CASE v # None
  <2>1. Promise!Resolved(ClassIn(R, k), k) = Size(v)
    BY <1>4, <1>8, SameReplies DEF Promise!Resolved, Promise!TheSize
  <2>2. Dimension(k) = Size(SizeOf[k]) \/ SizeOf[k] = None
    BY DEF Dimension
  <2> QED
    BY <1>2, <1>3, <1>8, <2>1, <2>2
<1> QED
  BY <1>7, <1>8

-----------------------------------------------------------------------------
(* The tracker.                                                            *)

\* A parent map of keys in which every walk ends, and the roots it stands for.
Trees(p) == p \in [DOMAIN p -> DOMAIN p] /\ DOMAIN p \subseteq Key /\ Forest(p)

Roots(p) == [k \in Key |-> RootIn(p, k)]

\* The inductive invariant.
IInv == TypeOK /\ FindReturns /\ Coherent(Roots(parent), constOf)

\* The root of a key that has been seen has been seen.
LEMMA RootsSeen ==
  ASSUME NEW p, Trees(p), NEW k \in Key
  PROVE  /\ Roots(p)[k] \in Key
         /\ k \in DOMAIN p => /\ Roots(p)[k] = Root(p, k)
                              /\ Roots(p)[k] \in DOMAIN p
                              /\ p[Roots(p)[k]] = Roots(p)[k]
<1>1. CASE k \in DOMAIN p
  BY <1>1, RootExists DEF Trees, Roots, RootIn
<1>2. CASE k \notin DOMAIN p
  BY <1>2 DEF Roots, RootIn
<1> QED
  BY <1>1, <1>2

\* _find moves no key to another root, and leaves its key entered.
LEMMA FindRoots ==
  ASSUME NEW p, Trees(p), NEW k \in Key
  PROVE  /\ Trees(Find(p, k))
         /\ Roots(Find(p, k)) = Roots(p)
         /\ DOMAIN Find(p, k) = DOMAIN p \cup {k}
<1> DEFINE D == DOMAIN p
           f == Find(p, k)
<1>1. p \in [D -> D] /\ Forest(p) /\ D \subseteq Key
  BY DEF Trees
<1> HIDE DEF D
<1>2. /\ f \in [D \cup {k} -> D \cup {k}]
      /\ Forest(f)
      /\ \A x \in D : Root(f, x) = Root(p, x)
      /\ k \notin D => Root(f, k) = k
  BY <1>1, FindForest
<1> HIDE DEF f
<1>3. DOMAIN f = D \cup {k} /\ DOMAIN p = D
  BY <1>1, <1>2
<1>4. Trees(f)
  BY <1>1, <1>2, <1>3 DEF Trees
<1>5. \A x \in Key : RootIn(f, x) = RootIn(p, x)
  BY <1>2, <1>3 DEF RootIn
<1> QED
  BY <1>3, <1>4, <1>5 DEF f, Roots

\* What record_equality leaves behind when it is asked to equate a and b.
Does(s, a, b) ==
  LET R == Roots(parent)
      joined == ClassIn(R, a) \cup ClassIn(R, b)
  IN  /\ Trees(s.parent)
      /\ DOMAIN s.constOf \subseteq DOMAIN s.parent
      /\ Coherent(Roots(s.parent), s.constOf)
      /\ s.raised = Promise!Conflicting(joined)
      /\ s.raised => Roots(s.parent) = R /\ s.constOf = constOf
      /\ ~s.raised => \A k \in Key : ClassIn(Roots(s.parent), k) =
                        IF k \in joined THEN joined ELSE ClassIn(R, k)

\* Sizes of two classes conflict exactly when both are known and they differ.
LEMMA ConflictIsDisagreement ==
  ASSUME NEW R, NEW c, Coherent(R, c), NEW a \in Key, NEW b \in Key
  PROVE  Promise!Conflicting(ClassIn(R, a) \cup ClassIn(R, b))
           = ~Agree(SizeIn(R, c, a), SizeIn(R, c, b))
<1>1. /\ Promise!Sizes(ClassIn(R, a)) = {SizeIn(R, c, a)} \ {None}
      /\ Promise!Sizes(ClassIn(R, b)) = {SizeIn(R, c, b)} \ {None}
  BY SizesOfClass
<1>2. Promise!Sizes(ClassIn(R, a) \cup ClassIn(R, b))
        = Promise!Sizes(ClassIn(R, a)) \cup Promise!Sizes(ClassIn(R, b))
  BY DEF Promise!Sizes
<1> QED
  BY <1>1, <1>2 DEF Promise!Conflicting, Agree

\* M is the roots R once the trees of a and b are one.
Joins(R, a, b, M) == R \in [Key -> Key] /\ M = Merged(R, R[a], R[b])

\* M has one class for those of a and b in R, and the other classes of R.
OneClass(R, a, b, M) ==
  \A k \in Key : ClassIn(M, k) =
    IF k \in ClassIn(R, a) \cup ClassIn(R, b)
    THEN ClassIn(R, a) \cup ClassIn(R, b) ELSE ClassIn(R, k)

\* Merging two trees joins their classes and touches no other.
LEMMA MergedClasses ==
  ASSUME NEW R, NEW a \in Key, NEW b \in Key, NEW M, Joins(R, a, b, M)
  PROVE  OneClass(R, a, b, M)
<1>1. \A j \in Key : M[j] = IF R[j] = R[b] THEN R[a] ELSE R[j]
  BY DEF Joins, Merged
<1>2. \A k, j \in Key :
        M[j] = M[k]
          <=> (R[j] = R[k] \/ (R[j] \in {R[a], R[b]} /\ R[k] \in {R[a], R[b]}))
  BY <1>1
<1> QED
  BY <1>2 DEF ClassIn, OneClass

\* record_equality on keys does what it should.
LEMMA EquatedKeysDoes ==
  ASSUME Trees(parent), DOMAIN constOf \subseteq DOMAIN parent,
         Coherent(Roots(parent), constOf), NEW a \in Key, NEW b \in Key
  PROVE  Does(EquatedKeys(a, b), a, b)
<1> DEFINE R == Roots(parent)
           pa == Find(parent, a)
           p == Find(pa, b)
           ra == Root(pa, a)
           rb == Root(p, b)
           ca == ConstOf(a, ra)
           cb == ConstOf(b, rb)
           chosen == IF ca # None \/ ra = rb THEN ca ELSE cb
           s == EquatedKeys(a, b)
<1>1. Trees(pa) /\ Roots(pa) = R /\ DOMAIN pa = DOMAIN parent \cup {a}
  BY FindRoots
<1>2. Trees(p) /\ Roots(p) = R /\ DOMAIN p = DOMAIN parent \cup {a, b}
  <2> HIDE DEF pa
  <2> QED
    BY <1>1, FindRoots
<1>3. s = IF ca # None /\ cb # None /\ ca # cb THEN State(TRUE, p, constOf)
          ELSE State(FALSE, IF ra = rb THEN p ELSE Link(p, ra, rb),
                     IF chosen = None THEN constOf ELSE WithConst(ra, chosen))
  BY DEF EquatedKeys
<1> HIDE DEF s, p, pa, R
<1>4. ra = R[a] /\ rb = R[b]
  BY <1>1, <1>2, RootsSeen
<1>5. /\ ra \in DOMAIN p /\ rb \in DOMAIN p
      /\ p[ra] = ra /\ p[rb] = rb
  BY <1>2, <1>4, RootsSeen
<1> HIDE DEF ra, rb
<1>6. ca = SizeIn(R, constOf, a) /\ cb = SizeIn(R, constOf, b)
  BY <1>4 DEF ConstOf, Known, SizeIn
<1> HIDE DEF ca, cb
<1>7. Coherent(R, constOf)
  BY DEF R
<1>8. R \in [Key -> Key]
  <2>1. RootMap(R, constOf)
    BY <1>7 DEF Coherent
  <2> QED
    BY <2>1 DEF RootMap
<1>9. Promise!Conflicting(ClassIn(R, a) \cup ClassIn(R, b)) = ~Agree(ca, cb)
  BY <1>6, <1>7, ConflictIsDisagreement
<1>10. CASE ~Agree(ca, cb)
  <2>1. s = State(TRUE, p, constOf)
    BY <1>3, <1>10 DEF Agree
  <2>2. s.raised = TRUE /\ s.parent = p /\ s.constOf = constOf
    BY <2>1 DEF State
  <2> QED
    BY <1>2, <1>7, <1>9, <1>10, <2>2 DEF Does, s, R
<1>11. CASE Agree(ca, cb) /\ ra = rb
  <2>1. s = State(FALSE, p, Noted(constOf, ra, ca))
    BY <1>3, <1>11 DEF Agree, Noted, WithConst
  <2>2. s.raised = FALSE /\ s.parent = p /\ s.constOf = Noted(constOf, ra, ca)
    BY <2>1 DEF State
  <2>3. Coherent(R, s.constOf)
    BY <1>4, <1>6, <1>7, <2>2, SameCoherent
  <2>4. DOMAIN s.constOf \subseteq DOMAIN p
    BY <1>2, <1>5, <2>2 DEF Noted
  <2>5. \A k \in Key : ClassIn(R, k) =
          IF k \in ClassIn(R, a) \cup ClassIn(R, b)
          THEN ClassIn(R, a) \cup ClassIn(R, b) ELSE ClassIn(R, k)
    BY <1>4, <1>11 DEF ClassIn
  <2> QED
    BY <1>2, <1>9, <1>11, <2>2, <2>3, <2>4, <2>5 DEF Does, s, R
<1>12. CASE Agree(ca, cb) /\ ra # rb
  <2> DEFINE q == Link(p, ra, rb)
  <2>1. s = State(FALSE, q, Noted(constOf, ra, chosen))
    BY <1>3, <1>12 DEF Agree, Noted, WithConst
  <2>2. s.raised = FALSE /\ s.parent = q /\ s.constOf = Noted(constOf, ra, chosen)
    BY <2>1 DEF State
  <2>3. /\ q \in [DOMAIN p -> DOMAIN p]
        /\ Forest(q)
        /\ \A k \in DOMAIN p : Root(q, k) = IF Root(p, k) = rb THEN ra ELSE Root(p, k)
    <3> DEFINE D == DOMAIN p
    <3>1. p \in [D -> D] /\ Forest(p) /\ ra \in D /\ rb \in D
      BY <1>2, <1>5 DEF Trees
    <3> HIDE DEF D
    <3>2. /\ q \in [D -> D]
          /\ Forest(q)
          /\ \A k \in D : Root(q, k) = IF Root(p, k) = rb THEN ra ELSE Root(p, k)
      BY <1>5, <1>12, <3>1, LinkForest
    <3> QED
      BY <3>2 DEF D
  <2> HIDE DEF q
  <2>4. DOMAIN q = DOMAIN p
    BY <2>3
  <2>5. Trees(q)
    BY <1>2, <2>3, <2>4 DEF Trees
  <2>6. Roots(q) = Merged(R, ra, rb)
    <3>1. \A k \in Key : RootIn(q, k) = IF RootIn(p, k) = rb THEN ra ELSE RootIn(p, k)
      BY <1>5, <2>3, <2>4 DEF RootIn
    <3>2. \A k \in Key : R[k] = RootIn(p, k)
      BY <1>2 DEF Roots
    <3> QED
      BY <3>1, <3>2 DEF Roots, Merged
  <2>7. chosen = IF ca # None THEN ca ELSE cb
    BY <1>12
  <2>8. Coherent(Roots(q), s.constOf)
    BY <1>4, <1>6, <1>7, <1>12, <2>2, <2>6, <2>7, MergeCoherent
  <2>9. DOMAIN s.constOf \subseteq DOMAIN q
    BY <1>2, <1>5, <2>2, <2>4 DEF Noted
  <2>10. \A k \in Key : ClassIn(Roots(q), k) =
           IF k \in ClassIn(R, a) \cup ClassIn(R, b)
           THEN ClassIn(R, a) \cup ClassIn(R, b) ELSE ClassIn(R, k)
    <3>1. Joins(R, a, b, Roots(q))
      BY <1>4, <1>8, <2>6 DEF Joins
    <3>2. OneClass(R, a, b, Roots(q))
      BY <3>1, MergedClasses
    <3> QED
      BY <3>2 DEF OneClass
  <2> QED
    BY <1>9, <1>12, <2>2, <2>5, <2>8, <2>9, <2>10 DEF Does, s, R
<1> QED
  BY <1>10, <1>11, <1>12 DEF s

\* The one class a key lies in, among those the roots of a parent map p make.
LEMMA TheClass ==
  ASSUME NEW p, NEW k \in Key
  PROVE  LET classes == {{j \in Key : RootIn(p, j) = r} : r \in {RootIn(p, x) : x \in Key}}
         IN  (CHOOSE c \in classes : k \in c) = ClassIn(Roots(p), k)
<1> DEFINE classes == {{j \in Key : RootIn(p, j) = r} : r \in {RootIn(p, x) : x \in Key}}
           mine == ClassIn(Roots(p), k)
<1>1. mine = {j \in Key : RootIn(p, j) = RootIn(p, k)}
  BY DEF ClassIn, Roots
<1>2. mine \in classes /\ k \in mine
  BY <1>1
<1>3. \A c \in classes : k \in c => c = mine
  BY <1>1
<1> HIDE DEF classes, mine
<1>4. (CHOOSE c \in classes : k \in c) = mine
  BY <1>2, <1>3
<1> QED
  BY <1>4 DEF classes, mine

\* The class the refinement mapping gives a key.
LEMMA ClassIsClassIn ==
  Class = [k \in Key |-> ClassIn(Roots(parent), k)]
BY TheClass DEF Class

\* record_equality does what it should, whatever form its dimensions have.
LEMMA EquatedDoes ==
  ASSUME IInv, NEW a \in Dim, NEW b \in Dim
  PROVE  Does(Equated(a, b), a.key, b.key)
<1> USE SizeAssumption
<1> DEFINE R == Roots(parent)
           s == Equated(a, b)
<1>1. Trees(parent) /\ DOMAIN constOf \subseteq DOMAIN parent /\ Coherent(R, constOf)
  BY DEF IInv, TypeOK, FindReturns, Trees
<1>2. a.key \in Key /\ b.key \in Key
  BY DimAssumption
<1>3. CASE ~(a.int /\ b.int)
  <2>1. s = EquatedKeys(a.key, b.key)
    BY <1>3 DEF Equated
  <2> QED
    BY <1>1, <1>2, <2>1, EquatedKeysDoes
<1>4. CASE a.int /\ b.int
  <2>1. s = State(SizeOf[a.key] # SizeOf[b.key], parent, constOf)
    BY <1>4 DEF Equated
  <2>2. /\ s.raised = (SizeOf[a.key] # SizeOf[b.key])
        /\ s.parent = parent /\ s.constOf = constOf
    BY <2>1 DEF State
  <2>3. SizeOf[a.key] # None /\ SizeOf[b.key] # None
    BY <1>4, DimAssumption
  <2>4. SizeIn(R, constOf, a.key) = SizeOf[a.key] /\ SizeIn(R, constOf, b.key) = SizeOf[b.key]
    BY <2>3 DEF SizeIn
  <2>5. s.raised = Promise!Conflicting(ClassIn(R, a.key) \cup ClassIn(R, b.key))
    <3>1. Promise!Conflicting(ClassIn(R, a.key) \cup ClassIn(R, b.key))
            = ~Agree(SizeIn(R, constOf, a.key), SizeIn(R, constOf, b.key))
      BY <1>1, <1>2, ConflictIsDisagreement
    <3> QED
      BY <2>2, <2>3, <2>4, <3>1 DEF Agree
  <2>6. ~s.raised => a = b
    BY <1>4, <2>2, DimAssumption
  <2>7. ~s.raised => \A k \in Key : ClassIn(R, k) =
          IF k \in ClassIn(R, a.key) \cup ClassIn(R, b.key)
          THEN ClassIn(R, a.key) \cup ClassIn(R, b.key) ELSE ClassIn(R, k)
    BY <2>6 DEF ClassIn
  <2> HIDE DEF s
  <2> QED
    BY <1>1, <2>2, <2>5, <2>7 DEF Does, s
<1> QED
  BY <1>3, <1>4

Replies(bounds) ==
  [raised : BOOLEAN, dim : Key \cup {None}, size : Int \cup {None}, bounds : {bounds}]

\* The replies are well typed.
LEMMA ReplyType ==
  /\ Returned \in Replies(NoBounds)
  /\ Raised \in Replies(NoBounds)
  /\ \A v \in Int : Size(v) \in Replies(NoBounds)
  /\ \A k \in Key : Dimension(k) \in Replies(NoBounds)
  /\ \A b : Bounds(b) \in Replies(b)
  /\ \A b : \A reply \in Replies(b) : reply.bounds = b
<1>1. Returned \in Replies(NoBounds)
  BY DEF Returned, Replies
<1>2. Raised \in Replies(NoBounds)
  BY DEF Returned, Raised, Replies
<1>3. \A v \in Int : Size(v) \in Replies(NoBounds)
  BY DEF Returned, Size, Replies
<1>4. \A k \in Key : Dimension(k) \in Replies(NoBounds)
  <2> SUFFICES ASSUME NEW k \in Key PROVE Dimension(k) \in Replies(NoBounds)
    OBVIOUS
  <2>1. CASE SizeOf[k] = None
    BY <2>1 DEF Returned, Dimension, Replies
  <2>2. CASE SizeOf[k] # None
    BY <1>3, <2>2, SizeAssumption DEF Dimension
  <2> QED
    BY <2>1, <2>2
<1>5. \A b : Bounds(b) \in Replies(b)
  BY DEF Returned, Bounds, Replies
<1>6. \A b : \A reply \in Replies(b) : reply.bounds = b
  BY DEF Replies
<1> QED
  BY <1>1, <1>2, <1>3, <1>4, <1>5, <1>6

\* A well-typed forest and size map, and a typed reply, are TypeOK and FindReturns.
LEMMA StateType ==
  ASSUME Trees(parent), DOMAIN constOf \subseteq DOMAIN parent,
         Coherent(Roots(parent), constOf), contradiction \in BOOLEAN,
         answer \in Replies(answer.bounds)
  PROVE  IInv
BY DEF Replies, IInv, TypeOK, FindReturns, Trees, Coherent, RootMap

\* The invariant holds initially, and the initial state is the promised one.
LEMMA InitCorrect == Init => IInv /\ Promise!Init
<1> SUFFICES ASSUME Init PROVE IInv /\ Promise!Init
  OBVIOUS
<1>1. DOMAIN parent = {} /\ DOMAIN constOf = {}
  BY DEF Init, NoBounds
<1>2. \A k \in Key : Roots(parent)[k] = k
  BY <1>1 DEF Roots, RootIn
<1>3. Trees(parent)
  BY <1>1 DEF Init, Trees, Forest
<1>4. Coherent(Roots(parent), constOf)
  <2>1. RootMap(Roots(parent), constOf)
    <3>1. Roots(parent) \in [Key -> Key]
      BY <1>2 DEF Roots
    <3>2. constOf \in [DOMAIN constOf -> Int]
      BY <1>1 DEF Init, NoBounds
    <3> QED
      BY <1>1, <1>2, <3>1, <3>2 DEF RootMap
  <2>2. SizesHold(Roots(parent), constOf)
    BY <1>1 DEF SizesHold
  <2>3. SizesKnown(Roots(parent), constOf)
    BY <1>2 DEF SizesKnown
  <2> QED
    BY <2>1, <2>2, <2>3 DEF Coherent
<1>5. IInv
  <2>1. answer \in Replies(answer.bounds)
    BY ReplyType DEF Init
  <2>2. contradiction \in BOOLEAN
    BY DEF Init
  <2> QED
    BY <1>1, <1>3, <1>4, <2>1, <2>2, StateType
<1>6. Promise!Init
  <2>1. Class = [k \in Key |-> {k}]
    BY <1>2, ClassIsClassIn DEF ClassIn
  <2> QED
    BY <2>1, SameReplies DEF Init, Promise!Init
<1> QED
  BY <1>5, <1>6

-----------------------------------------------------------------------------
\* What a step must establish to keep the invariant.
LEMMA StepKeeps ==
  ASSUME Trees(parent'), DOMAIN constOf' \subseteq DOMAIN parent',
         Coherent(Roots(parent'), constOf'), contradiction' \in BOOLEAN,
         answer' \in Replies(answer'.bounds)
  PROVE  IInv'
BY DEF Replies, IInv, TypeOK, FindReturns, Trees, Coherent, RootMap

LEMMA ClassAfter ==
  Class' = [k \in Key |-> ClassIn(Roots(parent'), k)]
BY TheClass DEF Class

\* A step that leaves behind what record_equality does, whatever it compresses on
\* top of it, is the promised step.
LEMMA EquatedStep ==
  ASSUME IInv, NEW a \in Key, NEW b \in Key, NEW s, Does(s, a, b), NEW reply,
         Trees(parent'), DOMAIN s.parent \subseteq DOMAIN parent',
         Roots(parent') = Roots(s.parent),
         constOf' = s.constOf,
         contradiction' = (contradiction \/ s.raised),
         answer' = IF s.raised THEN Raised ELSE reply,
         ~s.raised => reply \in Replies(NoBounds)
  PROVE  IInv' /\ Promise!Equate(a, b, reply)
<1> DEFINE joined == Promise!Joined(a, b)
<1>1. s.raised \in BOOLEAN /\ contradiction \in BOOLEAN
  BY DEF Does, IInv, TypeOK, Promise!Conflicting
<1>2. IInv'
  <2>1. answer' \in Replies(NoBounds)
    BY <1>1, ReplyType
  <2>2. answer'.bounds = NoBounds
    BY <2>1, ReplyType
  <2>3. contradiction' \in BOOLEAN
    BY <1>1
  <2>4. DOMAIN constOf' \subseteq DOMAIN parent' /\ Coherent(Roots(parent'), constOf')
    BY DEF Does
  <2> QED
    BY <2>1, <2>2, <2>3, <2>4, StepKeeps
<1>3. Class = [k \in Key |-> ClassIn(Roots(parent), k)]
  BY ClassIsClassIn
<1>4. Class' = [k \in Key |-> ClassIn(Roots(parent'), k)]
  BY ClassAfter
<1>5. joined = ClassIn(Roots(parent), a) \cup ClassIn(Roots(parent), b)
  BY <1>3 DEF Promise!Joined
<1> HIDE DEF joined
<1>6. s.raised = Promise!Conflicting(joined)
  BY <1>5 DEF Does
<1>7. CASE s.raised
  <2>1. Class' = Class
    BY <1>3, <1>4, <1>7 DEF Does
  <2>2. contradiction' = TRUE /\ answer' = Promise!Raised
    BY <1>7, SameReplies
  <2> QED
    BY <1>2, <1>6, <1>7, <2>1, <2>2 DEF Promise!Equate, joined
<1>8. CASE ~s.raised
  <2>1. Class' = [k \in Key |-> IF k \in joined THEN joined ELSE Class[k]]
    <3>1. \A k \in Key : ClassIn(Roots(parent'), k) =
            IF k \in joined THEN joined ELSE ClassIn(Roots(parent), k)
      BY <1>5, <1>8 DEF Does
    <3>2. \A k \in Key : Class[k] = ClassIn(Roots(parent), k)
      BY <1>3
    <3> QED
      BY <1>4, <3>1, <3>2
  <2>2. contradiction' = contradiction /\ answer' = reply
    BY <1>1, <1>8
  <2> QED
    BY <1>2, <1>6, <1>8, <2>1, <2>2 DEF Promise!Equate, joined
<1> QED
  BY <1>1, <1>7, <1>8

\* record_equality and add_constraint.
LEMMA RecordStep ==
  ASSUME IInv, NEW a \in Dim, NEW b \in Dim, Record(a, b)
  PROVE  IInv' /\ Promise!Record(a.key, b.key)
<1> DEFINE s == Equated(a, b)
<1>1. Does(s, a.key, b.key)
  BY EquatedDoes
<1>2. a.key \in Key /\ b.key \in Key
  BY DimAssumption
<1>3. /\ parent' = s.parent /\ constOf' = s.constOf
      /\ contradiction' = (contradiction \/ s.raised)
      /\ answer' = IF s.raised THEN Raised ELSE Returned
  BY DEF Record
<1> HIDE DEF s
<1>4. Trees(parent')
  BY <1>1, <1>3 DEF Does
<1>5. IInv' /\ Promise!Equate(a.key, b.key, Returned)
  BY <1>1, <1>2, <1>3, <1>4, ReplyType, EquatedStep
<1> QED
  BY <1>5, SameReplies DEF Promise!Record

\* unify.
LEMMA UnifyStep ==
  ASSUME IInv, NEW a \in Dim, NEW b \in Dim, Unify(a, b)
  PROVE  IInv' /\ Promise!Unify(a.key, b.key)
<1> DEFINE s == Equated(a, b)
<1>1. Does(s, a.key, b.key)
  BY EquatedDoes
<1>2. a.key \in Key /\ b.key \in Key
  BY DimAssumption
<1>3. CASE One \in {a.key, b.key}
  <2> DEFINE d == IF a.key = One THEN b.key ELSE a.key
  <2>1. /\ answer' = Dimension(d) /\ parent' = parent /\ constOf' = constOf
        /\ contradiction' = contradiction
    BY <1>3 DEF Unify
  <2>2. answer' \in Replies(answer'.bounds)
    BY <1>2, <2>1, ReplyType
  <2>3. IInv'
    BY <2>1, <2>2, StepKeeps DEF IInv, TypeOK, FindReturns, Trees
  <2>4. Class' = Class
    BY <2>1, ClassIsClassIn, ClassAfter
  <2> QED
    BY <1>3, <2>1, <2>3, <2>4, SameReplies DEF Promise!Unify
<1>4. CASE One \notin {a.key, b.key}
  <2> DEFINE reply == Read(s.parent, s.constOf, a.key)
             R == Roots(s.parent)
  <2>1. /\ parent' = IF s.raised THEN s.parent ELSE Find(s.parent, a.key)
        /\ constOf' = s.constOf
        /\ contradiction' = (contradiction \/ s.raised)
        /\ answer' = IF s.raised THEN Raised ELSE reply
    BY <1>4 DEF Unify
  <2> HIDE DEF s
  <2>2. Trees(s.parent) /\ Coherent(R, s.constOf)
    BY <1>1 DEF Does
  <2>3. Trees(parent') /\ DOMAIN s.parent \subseteq DOMAIN parent' /\ Roots(parent') = R
    <3>1. /\ Trees(Find(s.parent, a.key))
          /\ Roots(Find(s.parent, a.key)) = R
          /\ DOMAIN Find(s.parent, a.key) = DOMAIN s.parent \cup {a.key}
      BY <1>2, <2>2, FindRoots
    <3>2. CASE s.raised
      BY <2>1, <2>2, <3>2
    <3>3. CASE ~s.raised
      BY <2>1, <3>1, <3>3
    <3> QED
      BY <3>2, <3>3
  <2>4. reply = Promise!Resolved(ClassIn(R, a.key), a.key)
    <3>1. R[a.key] = RootIn(s.parent, a.key)
      BY <1>2 DEF Roots
    <3>2. reply = IF R[a.key] \in DOMAIN s.constOf THEN Size(s.constOf[R[a.key]])
                  ELSE Dimension(a.key)
      BY <3>1 DEF Read
    <3> HIDE DEF reply, R
    <3> QED
      BY <1>2, <2>2, <3>2, ReadResolves
  <2>5. reply \in Replies(NoBounds)
    <3>1. RootIn(s.parent, a.key) \in DOMAIN s.constOf =>
            s.constOf[RootIn(s.parent, a.key)] \in Int
      BY <2>2 DEF Coherent, RootMap
    <3> QED
      BY <1>2, <3>1, ReplyType DEF Read
  <2>6. ~s.raised => reply = Promise!Resolved(Promise!Joined(a.key, b.key), a.key)
    <3>1. Promise!Joined(a.key, b.key)
            = ClassIn(Roots(parent), a.key) \cup ClassIn(Roots(parent), b.key)
      BY <1>2, ClassIsClassIn DEF Promise!Joined
    <3>2. a.key \in ClassIn(Roots(parent), a.key)
      BY <1>2 DEF ClassIn
    <3>3. ~s.raised => ClassIn(R, a.key) = Promise!Joined(a.key, b.key)
      BY <1>1, <1>2, <3>1, <3>2 DEF Does
    <3> QED
      BY <2>4, <3>3
  <2> HIDE DEF reply, R
  <2>7. IInv' /\ Promise!Equate(a.key, b.key, reply)
    BY <1>1, <1>2, <2>1, <2>3, <2>5, EquatedStep DEF R
  <2>8. Promise!Equate(a.key, b.key, Promise!Resolved(Promise!Joined(a.key, b.key), a.key))
    <3>1. Promise!Joined(a.key, b.key)
            = ClassIn(Roots(parent), a.key) \cup ClassIn(Roots(parent), b.key)
      BY <1>2, ClassIsClassIn DEF Promise!Joined
    <3>2. s.raised = Promise!Conflicting(Promise!Joined(a.key, b.key))
      BY <1>1, <3>1 DEF Does
    <3>3. CASE s.raised
      BY <2>7, <3>2, <3>3 DEF Promise!Equate
    <3>4. CASE ~s.raised
      BY <2>6, <2>7, <3>4
    <3> QED
      BY <3>3, <3>4
  <2> QED
    BY <1>4, <2>7, <2>8 DEF Promise!Unify
<1> QED
  BY <1>3, <1>4

\* substitute.
LEMMA SubstituteStep ==
  ASSUME IInv, NEW d \in Dim, Substitute(d)
  PROVE  IInv' /\ Promise!Substitute(d.key)
<1> DEFINE R == Roots(parent)
<1>1. d.key \in Key
  BY DimAssumption
<1>2. /\ parent' = Find(parent, d.key)
      /\ answer' = Read(parent, constOf, d.key)
      /\ constOf' = constOf /\ contradiction' = contradiction
  BY DEF Substitute
<1>3. Trees(parent) /\ Coherent(R, constOf) /\ DOMAIN constOf \subseteq DOMAIN parent
  BY DEF IInv, TypeOK, FindReturns, Trees
<1>4. Trees(parent') /\ Roots(parent') = R /\ DOMAIN parent \subseteq DOMAIN parent'
  BY <1>1, <1>2, <1>3, FindRoots
<1>5. answer' = Promise!Resolved(Class[d.key], d.key)
  <2>1. R[d.key] = RootIn(parent, d.key)
    BY <1>1 DEF Roots
  <2>2. answer' = IF R[d.key] \in DOMAIN constOf THEN Size(constOf[R[d.key]])
                  ELSE Dimension(d.key)
    BY <1>2, <2>1 DEF Read
  <2>3. Class[d.key] = ClassIn(R, d.key)
    BY <1>1, ClassIsClassIn
  <2> HIDE DEF R
  <2> QED
    BY <1>1, <1>3, <2>2, <2>3, ReadResolves
<1>6. answer' \in Replies(answer'.bounds)
  <2>1. RootIn(parent, d.key) \in DOMAIN constOf => constOf[RootIn(parent, d.key)] \in Int
    BY <1>3 DEF Coherent, RootMap
  <2>2. answer' \in Replies(NoBounds)
    BY <1>1, <1>2, <2>1, ReplyType DEF Read
  <2> QED
    BY <2>2, ReplyType
<1>7. IInv'
  <2>1. contradiction' \in BOOLEAN
    BY <1>2 DEF IInv, TypeOK
  <2> QED
    BY <1>2, <1>3, <1>4, <1>6, <2>1, StepKeeps
<1>8. Class' = Class
  BY <1>4, ClassIsClassIn, ClassAfter
<1> QED
  BY <1>2, <1>5, <1>7, <1>8 DEF Promise!Substitute

\* solve.
LEMMA SolveStep ==
  ASSUME IInv, Solve
  PROVE  IInv' /\ Promise!Solve
<1> USE SizeAssumption
<1> DEFINE R == Roots(parent)
           D == DOMAIN parent
           named == Identifier \cap DOMAIN parent
           walked == UNION {Chain(parent, parent[k]) : k \in named}
           bounds == [k \in {v \in named : Root(parent, v) \in DOMAIN constOf} |->
                        constOf[Root(parent, k)]]
<1>1. /\ parent' = [k \in D |-> IF k \in walked THEN Root(parent, k) ELSE parent[k]]
      /\ answer' = Bounds(bounds)
      /\ constOf' = constOf /\ contradiction' = contradiction
  BY DEF Solve
<1>2. /\ Trees(parent) /\ Coherent(R, constOf) /\ DOMAIN constOf \subseteq DOMAIN parent
      /\ contradiction \in BOOLEAN
  BY DEF IInv, TypeOK, FindReturns, Trees
<1>3. parent \in [D -> D] /\ Forest(parent) /\ D \subseteq Key
  BY <1>2 DEF Trees
<1>4. walked \in SUBSET D
  <2>1. \A k \in named : parent[k] \in D
    BY <1>3
  <2> HIDE DEF D
  <2>2. \A k \in named : Chain(parent, parent[k]) \subseteq D
    BY <1>3, <2>1, ChainClosed
  <2> QED
    BY <2>2
<1>5. /\ parent' \in [D -> D]
      /\ Forest(parent')
      /\ \A k \in D : Root(parent', k) = Root(parent, k)
  <2> HIDE DEF D, walked, bounds, named, R
  <2>1. parent' = [k \in D |-> IF k \in walked THEN Root(parent, k) ELSE parent[k]]
    BY <1>1
  <2>2. parent \in [D -> D] /\ Forest(parent)
    BY <1>3
  <2> QED
    BY <1>4, <2>1, <2>2, ShortcutForest
<1>6. DOMAIN parent' = D
  BY <1>5
<1>7. Trees(parent')
  BY <1>3, <1>5, <1>6 DEF Trees
<1>8. Roots(parent') = R
  BY <1>5, <1>6 DEF Roots, RootIn
<1>9. Class' = Class
  BY <1>8, ClassIsClassIn, ClassAfter
<1>10. IInv'
  <2>1. answer' \in Replies(answer'.bounds)
    BY <1>1, ReplyType
  <2> QED
    BY <1>1, <1>2, <1>6, <1>7, <1>8, <2>1, StepKeeps
<1>11. ASSUME NEW i \in Identifier
       PROVE  /\ (i \in DOMAIN bounds) = (Promise!Sizes(Class[i]) # {})
              /\ i \in DOMAIN bounds => bounds[i] = Promise!TheSize(Class[i])
  <2>1. i \in Key /\ SizeOf[i] = None
    BY KeyAssumption
  <2>2. Class[i] = ClassIn(R, i)
    BY <2>1, ClassIsClassIn
  <2>3. /\ SizeIn(R, constOf, i) \in Int \cup {None}
        /\ Promise!Sizes(Class[i]) = {SizeIn(R, constOf, i)} \ {None}
    BY <1>2, <2>1, <2>2, SizesOfClass
  <2>4. SizeIn(R, constOf, i) =
          IF R[i] \in DOMAIN constOf THEN constOf[R[i]] ELSE None
    BY <2>1 DEF SizeIn
  <2>5. R[i] = IF i \in D THEN Root(parent, i) ELSE i
    BY <2>1 DEF Roots, RootIn
  <2>6. constOf \in [DOMAIN constOf -> Int]
    BY <1>2 DEF Coherent, RootMap
  <2>7. (i \in DOMAIN bounds) = (R[i] \in DOMAIN constOf)
    BY <1>2, <2>5
  <2>8. i \in DOMAIN bounds => bounds[i] = SizeIn(R, constOf, i)
    BY <1>2, <2>4, <2>5, <2>7
  <2>9. SizeIn(R, constOf, i) # None => Promise!TheSize(Class[i]) = SizeIn(R, constOf, i)
    BY <2>3 DEF Promise!TheSize
  <2> HIDE DEF bounds, R
  <2>10. (i \in DOMAIN bounds) = (SizeIn(R, constOf, i) # None)
    BY <2>4, <2>6, <2>7
  <2> QED
    BY <2>3, <2>8, <2>9, <2>10
<1>12. bounds = [k \in {i \in Identifier : Promise!Sizes(Class[i]) # {}} |->
                   Promise!TheSize(Class[k])]
  <2>1. DOMAIN bounds \subseteq Identifier /\ bounds = [k \in DOMAIN bounds |-> bounds[k]]
    OBVIOUS
  <2> HIDE DEF bounds
  <2>2. DOMAIN bounds = {i \in Identifier : Promise!Sizes(Class[i]) # {}}
    BY <1>11, <2>1
  <2> QED
    BY <1>11, <2>1, <2>2
<1> QED
  BY <1>1, <1>9, <1>10, <1>12, SameReplies DEF Promise!Solve

\* Every step keeps the invariant and is a promised step or changes nothing promised.
LEMMA StepCorrect ==
  IInv /\ [Next]_vars => IInv' /\ [Promise!Next]_(Promise!vars)
<1> SUFFICES ASSUME IInv, [Next]_vars
             PROVE  IInv' /\ [Promise!Next]_(Promise!vars)
  OBVIOUS
<1>0. \A d \in Dim : d.key \in Key
  BY DimAssumption
<1>1. ASSUME NEW a \in Dim, NEW b \in Dim, Record(a, b)
      PROVE  IInv' /\ Promise!Next
  BY <1>0, <1>1, RecordStep DEF Promise!Next
<1>2. ASSUME NEW a \in Dim, NEW b \in Dim, Unify(a, b)
      PROVE  IInv' /\ Promise!Next
  BY <1>0, <1>2, UnifyStep DEF Promise!Next
<1>3. ASSUME NEW d \in Dim, Substitute(d)
      PROVE  IInv' /\ Promise!Next
  BY <1>0, <1>3, SubstituteStep DEF Promise!Next
<1>4. ASSUME Solve PROVE IInv' /\ Promise!Next
  BY <1>4, SolveStep DEF Promise!Next
<1>5. CASE UNCHANGED vars
  <2>1. /\ parent' = parent /\ constOf' = constOf
        /\ contradiction' = contradiction /\ answer' = answer
    BY <1>5 DEF vars
  <2>2. IInv'
    BY <2>1 DEF IInv, TypeOK, FindReturns
  <2>3. Class' = Class
    BY <2>1, ClassIsClassIn, ClassAfter
  <2> QED
    BY <2>1, <2>2, <2>3 DEF Promise!vars
<1> QED
  BY <1>1, <1>2, <1>3, <1>4, <1>5 DEF Next

-----------------------------------------------------------------------------
\* Types, and no chain of parents ever closes into a cycle: _find returns.
THEOREM Termination == Spec => [](TypeOK /\ FindReturns)
<1>1. IInv => TypeOK /\ FindReturns
  BY DEF IInv
<1> QED
  BY <1>1, InitCorrect, StepCorrect, PTL DEF Spec

\* SymbolicConstraintTracker implements DimensionClasses: its classes are those of
\* the accepted equalities, it refuses exactly what would give a class two sizes,
\* and its answers are the sizes of the classes.
THEOREM Equalities == Spec => KeepsEqualities
BY InitCorrect, StepCorrect, PTL DEF Spec, KeepsEqualities, Promise!Spec
=============================================================================
