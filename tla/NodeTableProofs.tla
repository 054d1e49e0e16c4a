-------------------------- MODULE NodeTableProofs --------------------------
(***************************************************************************)
(* Facts about folds over sequences, and about the node-table operators:   *)
(* what they return.                                                       *)
(***************************************************************************)
EXTENDS NodeTable, NaturalsInduction, WellFoundedInduction, TLAPS

\* A non-empty set of positive integers with an upper bound has a greatest element.
LEMMA GreatestExists ==
  ASSUME NEW m \in Nat, NEW S, S \subseteq 1..m, S # {}
  PROVE  \E x \in S : \A y \in S : y <= x
<1> DEFINE T == {m - x : x \in S}
           R == OpToRel(<, Nat)
<1>0. \A x \in S : x \in Nat /\ m - x \in Nat
  OBVIOUS
<1>1. T \subseteq Nat /\ T # {}
  BY <1>0
<1>2. IsWellFoundedOn(R, Nat)
  BY NatLessThanWellFounded
<1>3. \E t \in T : \A u \in T : ~ (<<u, t>> \in R)
  <2> HIDE DEF R, T
  <2> QED  BY <1>1, <1>2, WFMin
<1>4. PICK t \in T : \A u \in T : ~ (u < t)
  BY <1>1, <1>3 DEF OpToRel
<1>5. PICK x \in S : t = m - x
  BY <1>4
<1>6. \A y \in S : y <= x
  <2> TAKE y \in S
  <2>1. ~ (m - y < m - x)
    BY <1>4, <1>5
  <2> QED  BY <1>0, <2>1
<1> QED
  BY <1>6

-----------------------------------------------------------------------------
(* Folds: recursive functions on the positions of a sequence.              *)

\* Induction over 0..n, with a set for the predicate.
LEMMA UpTo ==
  ASSUME NEW n \in Nat, NEW S, 0 \in S, \A i \in 1..n : i - 1 \in S => i \in S
  PROVE  0..n \subseteq S
<1> SUFFICES ASSUME NEW k \in 0..n, k \notin S
             PROVE  FALSE
  OBVIOUS
<1> DEFINE T == {i \in 0..n : i \notin S}
           R == OpToRel(<, Nat)
<1>1. T \subseteq Nat /\ T # {}
  OBVIOUS
<1>2. IsWellFoundedOn(R, Nat)
  BY NatLessThanWellFounded
<1>3. \E x \in T : \A y \in T : ~ (<<y, x>> \in R)
  <2> HIDE DEF R, T
  <2> QED  BY <1>1, <1>2, WFMin
<1>4. PICK x \in T : \A y \in T : ~ (y < x)
  BY <1>1, <1>3 DEF OpToRel
<1>5. x # 0 /\ x - 1 \in 0..n /\ x \in 1..n
  OBVIOUS
<1>6. x - 1 \in S
  BY <1>4, <1>5
<1> QED  BY <1>5, <1>6

\* What each of n steps makes of a value in V, and what they make of start in turn.
Steps(n, V) == [(1..n) \X V -> V]
FoldOf(V, start, n, step) ==
  {f \in [0..n -> V] : f[0] = start /\ \A i \in 1..n : f[i] = step[<<i, f[i - 1]>>]}

\* A fold has a value at every position: each step takes what the steps before made.
LEMMA FoldExists ==
  ASSUME NEW V, NEW start, start \in V, NEW n, n \in Nat, NEW step, step \in Steps(n, V)
  PROVE  FoldOf(V, start, n, step) # {}
<1> DEFINE Folds(m, f) == f[0] = start /\ \A i \in 1..m : f[i] = step[<<i, f[i - 1]>>]
           S == {m \in 0..n : \E f \in [0..m -> V] : Folds(m, f)}
<1>0. \A i \in 1..n, v \in V : step[<<i, v>>] \in V
  BY DEF Steps
<1>1. 0 \in S
  <2> DEFINE z == [i \in 0..0 |-> start]
  <2>1. z \in [0..0 -> V] /\ Folds(0, z)
    OBVIOUS
  <2> HIDE DEF z, Folds
  <2> QED  BY <2>1
<1>2. ASSUME NEW m \in 1..n, m - 1 \in S
      PROVE  m \in S
  <2>1. PICK f \in [0..(m - 1) -> V] : Folds(m - 1, f)
    BY <1>2
  <2> DEFINE next == step[<<m, f[m - 1]>>]
             g == [i \in 0..m |-> IF i = m THEN next ELSE f[i]]
  <2>2. next \in V
    <3>1. m - 1 \in 0..(m - 1)
      OBVIOUS
    <3> QED  BY <1>0, <3>1
  <2>3. g \in [0..m -> V] /\ g[m] = next /\ \A i \in 0..(m - 1) : g[i] = f[i]
    <3> HIDE DEF next
    <3> QED  BY <2>2
  <2>4. ASSUME NEW i \in 1..m
        PROVE  g[i] = step[<<i, g[i - 1]>>]
    <3>1. g[i - 1] = f[i - 1]
      BY <2>3
    <3>2. CASE i = m
      BY <2>3, <3>1, <3>2
    <3>3. CASE i # m
      BY <2>1, <2>3, <3>1, <3>3
    <3> QED  BY <3>2, <3>3
  <2>5. Folds(m, g)
    <3>1. 0 \in 0..(m - 1)
      OBVIOUS
    <3> HIDE DEF g
    <3> QED  BY <2>1, <2>3, <2>4, <3>1
  <2> HIDE DEF g, Folds
  <2> QED  BY <2>3, <2>5
<1>3. n \in S
  <2> HIDE DEF S
  <2> QED  BY <1>1, <1>2, UpTo
<1> QED  BY <1>3 DEF FoldOf

\* How Selected gets its result, element by element.
Selects(f, s, P) ==
  /\ f[0] = <<>> /\ Selected(s, P) = f[Len(s)]
  /\ \A i \in 1..Len(s) : f[i] = IF i \in P THEN Append(f[i - 1], s[i]) ELSE f[i - 1]

\* Selected keeps or leaves out one element after the other.
LEMMA SelectedFold ==
  ASSUME NEW T, NEW s \in Seq(T), NEW P
  PROVE  \E f \in [0..Len(s) -> Seq(T)] : Selects(f, s, P)
<1> DEFINE n == Len(s)
           V == Seq(T)
           Next(i, v) == IF i \in P THEN Append(v, s[i]) ELSE v
           step == [p \in (1..n) \X V |-> Next(p[1], p[2])]
           Upto(f) == f = [i \in 0..n |-> IF i = 0 THEN <<>> ELSE Next(i, f[i - 1])]
<1>1. n \in Nat /\ <<>> \in V /\ \A i \in 1..n, v \in V : Next(i, v) \in V
  OBVIOUS
<1>2. \E f \in [0..n -> V] : Upto(f)
  <2> HIDE DEF n, V, Next
  <2>1. step \in Steps(n, V)
    BY <1>1 DEF Steps
  <2>2. PICK f \in [0..n -> V] :
          f[0] = <<>> /\ \A i \in 1..n : f[i] = step[<<i, f[i - 1]>>]
    <3> HIDE DEF step
    <3>1. PICK f \in FoldOf(V, <<>>, n, step) : TRUE
      BY <1>1, <2>1, FoldExists
    <3> QED  BY <3>1 DEF FoldOf
  <2>3. \A i \in 1..n : f[i - 1] \in V /\ step[<<i, f[i - 1]>>] = Next(i, f[i - 1])
    BY <1>1
  <2>4. \A i \in 0..n : f[i] = IF i = 0 THEN <<>> ELSE Next(i, f[i - 1])
    <3> HIDE DEF step
    <3>1. ASSUME NEW i \in 0..n, i # 0
          PROVE  f[i] = Next(i, f[i - 1])
      <4>1. i \in 1..n
        BY <1>1, <3>1
      <4> QED  BY <2>2, <2>3, <4>1
    <3> QED  BY <1>1, <2>2, <3>1
  <2>5. Upto(f)
    <3> HIDE DEF step
    <3> QED  BY <2>4, <2>2
  <2> QED  BY <2>5
<1> DEFINE g == CHOOSE h : Upto(h)
<1>3. Upto(g)
  <2> HIDE DEF Upto
  <2> QED  BY <1>2
<1>4. Selected(s, P) = g[n]
  BY DEF Selected
<1> HIDE DEF g, V, Next, n
<1>5. /\ g[0] = <<>>
      /\ \A i \in 1..n : g[i] = Next(i, g[i - 1])
      /\ DOMAIN g = 0..n
  BY <1>1, <1>3
<1>6. g \in [0..n -> V]
  <2> DEFINE S == {i \in 0..n : g[i] \in V}
  <2>1. 0 \in S
    BY <1>1, <1>5
  <2>2. \A i \in 1..n : i - 1 \in S => i \in S
    BY <1>1, <1>5
  <2>3. 0..n \subseteq S
    <3> HIDE DEF S
    <3> QED  BY <1>1, <2>1, <2>2, UpTo
  <2> QED  BY <1>3, <2>3
<1> QED  BY <1>4, <1>5, <1>6 DEF n, V, Next, Selects

\* r is what s has at the positions in P, in that order: r[k] was s[at[k]].
Picks(r, s, P, at) ==
  /\ at \in [DOMAIN r -> DOMAIN s \cap P]
  /\ \A k \in DOMAIN r : r[k] = s[at[k]]
  /\ \A k, l \in DOMAIN r : k < l => at[k] < at[l]
  /\ \A i \in DOMAIN s \cap P : \E k \in DOMAIN r : at[k] = i

\* What is selected, and in which order: the elements at the positions of P in s.
LEMMA SelectedFacts ==
  ASSUME NEW T, NEW s \in Seq(T), NEW P
  PROVE  Selected(s, P) \in Seq(T) /\ \E at : Picks(Selected(s, P), s, P, at)
<1> DEFINE n == Len(s)
           Places(m, r, at) ==
             /\ at \in [1..Len(r) -> (1..m) \cap P]
             /\ \A k \in 1..Len(r) : r[k] = s[at[k]]
             /\ \A k, l \in 1..Len(r) : k < l => at[k] < at[l]
             /\ \A i \in (1..m) \cap P : \E k \in 1..Len(r) : at[k] = i
<1>1. PICK f \in [0..n -> Seq(T)] : Selects(f, s, P)
  BY SelectedFold, Zenon
<1> DEFINE S == {m \in 0..n : \E at : Places(m, f[m], at)}
<1>2. 0 \in S
  <2> DEFINE none == [k \in 1..0 |-> 0]
  <2>1. Places(0, <<>>, none)
    OBVIOUS
  <2> HIDE DEF Places, none
  <2> QED  BY <1>1, <2>1 DEF Selects
<1>3. ASSUME NEW m \in 1..n, m - 1 \in S
      PROVE  m \in S
  <2>1. PICK at : Places(m - 1, f[m - 1], at)
    BY <1>3
  <2>2. f[m - 1] \in Seq(T) /\ Len(f[m - 1]) \in Nat
    OBVIOUS
  <2>3. CASE m \notin P
    <3>1. f[m] = f[m - 1]
      BY <1>1, <2>3 DEF Selects
    <3>2. Places(m, f[m - 1], at)
      <4>1. (1..m) \cap P = (1..(m - 1)) \cap P
        BY <2>3
      <4> QED  BY <2>1, <4>1
    <3> HIDE DEF Places
    <3> QED  BY <3>1, <3>2
  <2>4. CASE m \in P
    <3> DEFINE r == f[m - 1]
               q == Append(r, s[m])
               new == [k \in 1..Len(q) |-> IF k = Len(q) THEN m ELSE at[k]]
    <3>1. /\ Len(q) = Len(r) + 1 /\ q[Len(q)] = s[m] /\ Len(r) \in Nat
          /\ \A k \in 1..Len(r) : q[k] = r[k]
      <4>1. s[m] \in T
        OBVIOUS
      <4> QED  BY <2>2, <4>1
    <3>2. f[m] = q
      BY <1>1, <2>4 DEF Selects
    <3> HIDE DEF r, q
    <3>3. Places(m - 1, r, at)
      BY <2>1 DEF r
    <3>4. \A k \in 1..Len(r) : at[k] \in 1..(m - 1) /\ at[k] \in P /\ new[k] = at[k]
      BY <3>1, <3>3
    <3>5. new[Len(q)] = m /\ Len(q) \in 1..Len(q)
      BY <3>1
    <3>6. new \in [1..Len(q) -> (1..m) \cap P]
      <4>1. \A k \in 1..Len(q) : k # Len(q) => k \in 1..Len(r)
        BY <3>1
      <4>2. \A k \in 1..Len(q) : (IF k = Len(q) THEN m ELSE at[k]) \in (1..m) \cap P
        <5> TAKE k \in 1..Len(q)
        <5>1. CASE k = Len(q)
          BY <2>4, <5>1
        <5>2. CASE k # Len(q)
          BY <3>4, <4>1, <5>2
        <5> QED  BY <5>1, <5>2
      <4> QED  BY <4>2
    <3> HIDE DEF new
    <3>0. \A k \in 1..Len(q) : k = Len(q) \/ k \in 1..Len(r)
      BY <3>1
    <3>7. \A k \in 1..Len(q) : q[k] = s[new[k]]
      BY <3>0, <3>1, <3>3, <3>4, <3>5
    <3>8. \A k, l \in 1..Len(q) : k < l => new[k] < new[l]
      <4> SUFFICES ASSUME NEW k \in 1..Len(q), NEW l \in 1..Len(q), k < l
                   PROVE  new[k] < new[l]
        OBVIOUS
      <4>1. k \in 1..Len(r) /\ new[k] = at[k] /\ at[k] \in 1..(m - 1)
        BY <3>1, <3>4
      <4>2. CASE l = Len(q)
        BY <3>5, <4>1, <4>2
      <4>3. CASE l # Len(q)
        BY <3>0, <3>3, <3>4, <4>1, <4>3
      <4> QED  BY <4>2, <4>3
    <3>9. \A i \in (1..m) \cap P : \E k \in 1..Len(q) : new[k] = i
      <4> SUFFICES ASSUME NEW i \in (1..m) \cap P
                   PROVE  \E k \in 1..Len(q) : new[k] = i
        OBVIOUS
      <4>1. CASE i = m
        BY <3>5, <4>1
      <4>2. CASE i # m
        <5>1. PICK k \in 1..Len(r) : at[k] = i
          BY <3>3, <4>2
        <5> QED  BY <3>1, <3>4, <5>1
      <4> QED  BY <4>1, <4>2
    <3>10. Places(m, q, new)
      BY <3>6, <3>7, <3>8, <3>9
    <3> HIDE DEF Places
    <3> QED  BY <3>2, <3>10
  <2> QED  BY <2>3, <2>4
<1>4. n \in S
  <2>1. n \in Nat
    OBVIOUS
  <2> HIDE DEF S, n
  <2>2. 0..n \subseteq S
    BY <1>2, <1>3, <2>1, UpTo
  <2> QED  BY <2>1, <2>2
<1>5. PICK at : Places(n, f[n], at)
  BY <1>4
<1>6. f[n] \in Seq(T) /\ DOMAIN f[n] = 1..Len(f[n]) /\ DOMAIN s = 1..n
  OBVIOUS
<1>7. Selected(s, P) = f[n]
  BY <1>1 DEF Selects
<1> DEFINE r == Selected(s, P)
<1>8. Picks(r, s, P, at)
  <2> HIDE DEF n
  <2> QED  BY <1>5, <1>6, <1>7 DEF Picks
<1> QED  BY <1>6, <1>7, <1>8

\* The positions 1..n in order, and the elements of s at the positions in at.
Positions(n) == [i \in 1..n |-> i]
At(s, at) == [k \in DOMAIN at |-> s[at[k]]]

LEMMA AppendAt ==
  ASSUME NEW T, NEW s \in Seq(T), NEW at \in Seq(1..Len(s)), NEW i \in 1..Len(s)
  PROVE  Append(At(s, at), s[i]) = At(s, Append(at, i))
<1> DEFINE l == Append(At(s, at), s[i])
           r == At(s, Append(at, i))
<1>1. At(s, at) \in Seq(T) /\ Len(At(s, at)) = Len(at) /\ \A k \in 1..Len(at) : At(s, at)[k] = s[at[k]]
  <2>1. Len(at) \in Nat /\ DOMAIN at = 1..Len(at) /\ \A k \in 1..Len(at) : s[at[k]] \in T
    OBVIOUS
  <2>2. At(s, at) \in [1..Len(at) -> T] /\ \A k \in 1..Len(at) : At(s, at)[k] = s[at[k]]
    BY <2>1 DEF At
  <2>3. At(s, at) \in Seq(T)
    BY <2>1, <2>2
  <2> QED  BY <2>1, <2>2, <2>3
<1>2. Append(at, i) \in Seq(1..Len(s)) /\ Len(Append(at, i)) = Len(at) + 1
  OBVIOUS
<1>3. DOMAIN r = 1..(Len(at) + 1) /\ \A k \in 1..(Len(at) + 1) : r[k] = s[Append(at, i)[k]]
  BY <1>2 DEF At
<1>4. DOMAIN l = 1..(Len(at) + 1) /\ \A k \in 1..Len(at) : l[k] = s[at[k]]
  BY <1>1
<1>5. l[Len(at) + 1] = s[i] /\ Append(at, i)[Len(at) + 1] = i
  BY <1>1
<1>6. \A k \in 1..Len(at) : Append(at, i)[k] = at[k]
  OBVIOUS
<1>7. l = [k \in 1..(Len(at) + 1) |-> l[k]] /\ r = [k \in 1..(Len(at) + 1) |-> r[k]]
  BY <1>1, <1>3, <1>4 DEF At
<1>8. \A k \in 1..(Len(at) + 1) : l[k] = r[k]
  <2> SUFFICES ASSUME NEW k \in 1..(Len(at) + 1)
               PROVE  l[k] = r[k]
    OBVIOUS
  <2> HIDE DEF l, r
  <2>1. k \in 1..Len(at) \/ k = Len(at) + 1
    OBVIOUS
  <2> QED  BY <1>3, <1>4, <1>5, <1>6, <2>1
<1> HIDE DEF l, r
<1>9. l = r
  BY <1>7, <1>8
<1> QED  BY <1>9 DEF l, r

\* Which elements are selected depends on the positions alone.
LEMMA SelectedPositions ==
  ASSUME NEW T, NEW s \in Seq(T), NEW P
  PROVE  Selected(s, P) = At(s, Selected(Positions(Len(s)), P))
<1> DEFINE n == Len(s)
           pos == Positions(n)
<1>1. n \in Nat /\ pos \in Seq(1..n) /\ Len(pos) = n /\ \A i \in 1..n : pos[i] = i
  BY DEF Positions
<1> HIDE DEF pos
<1>2. PICK f \in [0..n -> Seq(T)] : Selects(f, s, P)
  BY SelectedFold
<1>0. n \in Nat
  BY <1>1
<1>3. PICK g \in [0..n -> Seq(1..n)] : Selects(g, pos, P)
  BY <1>1, SelectedFold
<1>4. /\ f[0] = <<>> /\ Selected(s, P) = f[n]
      /\ \A i \in 1..n : f[i] = IF i \in P THEN Append(f[i - 1], s[i]) ELSE f[i - 1]
  BY <1>2 DEF Selects
<1>5. /\ g[0] = <<>> /\ Selected(pos, P) = g[n]
      /\ \A i \in 1..n : g[i] = IF i \in P THEN Append(g[i - 1], i) ELSE g[i - 1]
  BY <1>1, <1>3 DEF Selects
<1> DEFINE Same(i) == f[i] = At(s, g[i])
           S == {i \in 0..n : Same(i)}
<1>6. 0 \in S
  <2>1. At(s, <<>>) = <<>>
    BY DEF At
  <2> QED  BY <1>1, <1>4, <1>5, <2>1
<1>7. \A i \in 1..n : i - 1 \in S => i \in S
  <2> HIDE DEF n, Same
  <2> SUFFICES ASSUME NEW i \in 1..n, Same(i - 1)
               PROVE  Same(i)
    BY <1>0
  <2>1. i - 1 \in 0..n
    BY <1>0
  <2> USE DEF n, Same
  <2>3. g[i - 1] \in Seq(1..n)
    BY <1>3, <2>1
  <2>2. Append(At(s, g[i - 1]), s[i]) = At(s, Append(g[i - 1], i))
    BY <2>3, AppendAt
  <2> QED  BY <1>4, <1>5, <2>2
<1> HIDE DEF S
<1>8. 0..n \subseteq S
  BY <1>1, <1>6, <1>7, UpTo
<1>9. n \in S
  BY <1>1, <1>8
<1> QED  BY <1>4, <1>5, <1>9 DEF S, pos

\* Selecting every position leaves a sequence as it is.
LEMMA SelectedAll ==
  ASSUME NEW T, NEW s \in Seq(T), NEW P, DOMAIN s \subseteq P
  PROVE  Selected(s, P) = s
<1> DEFINE n == Len(s)
<1>1. n \in Nat /\ 1..n \subseteq P
  OBVIOUS
<1>2. PICK f \in [0..n -> Seq(T)] : Selects(f, s, P)
  BY SelectedFold
<1>3. /\ f[0] = <<>> /\ Selected(s, P) = f[n]
      /\ \A i \in 1..n : f[i] = Append(f[i - 1], s[i])
  BY <1>1, <1>2 DEF Selects
<1> DEFINE Prefix(i) == Len(f[i]) = i /\ \A j \in 1..i : f[i][j] = s[j]
           S == {i \in 0..n : Prefix(i)}
<1>4. 0 \in S
  BY <1>1, <1>3
<1>5. \A i \in 1..n : i - 1 \in S => i \in S
  <2> SUFFICES ASSUME NEW i \in 1..n, Prefix(i - 1)
               PROVE  Prefix(i)
    BY <1>1
  <2>1. i - 1 \in 0..n /\ s[i] \in T
    OBVIOUS
  <2>2. f[i - 1] \in Seq(T) /\ f[i] = Append(f[i - 1], s[i])
    BY <1>2, <1>3, <2>1
  <2> QED  BY <2>1, <2>2
<1>6. 0..n \subseteq S
  <2> HIDE DEF S
  <2> QED  BY <1>1, <1>4, <1>5, UpTo
<1>7. n \in S
  BY <1>1, <1>6
<1>8. PICK r : r = f[n]
  OBVIOUS
<1>9. r \in Seq(T) /\ Len(r) = n /\ \A j \in 1..n : r[j] = s[j]
  BY <1>7, <1>8
<1>10. r = s
  BY <1>9
<1> QED  BY <1>3, <1>8, <1>10

\* The positions selected are those in P, in increasing order.
LEMMA SelectedInOrder ==
  ASSUME NEW n \in Nat, NEW P
  PROVE  LET at == Selected(Positions(n), P)
         IN  /\ at \in Seq(1..n)
             /\ \A k, l \in 1..Len(at) : k < l => at[k] < at[l]
             /\ \A k \in 1..Len(at) : at[k] >= k
<1> DEFINE at == Selected(Positions(n), P)
<1> SUFFICES /\ at \in Seq(1..n)
             /\ \A k, l \in 1..Len(at) : k < l => at[k] < at[l]
             /\ \A k \in 1..Len(at) : at[k] >= k
  OBVIOUS
<1>1. Positions(n) \in Seq(1..n) /\ \A i \in 1..n : Positions(n)[i] = i
  BY DEF Positions
<1>2. at \in Seq(1..n) /\ \E h : Picks(at, Positions(n), P, h)
  BY <1>1, SelectedFacts
<1> HIDE DEF at
<1>3. PICK h : Picks(at, Positions(n), P, h)
  BY <1>2
<1>4. Len(at) \in Nat /\ DOMAIN at = 1..Len(at) /\ DOMAIN Positions(n) = 1..n
  BY <1>2 DEF Positions
<1>5. \A k \in 1..Len(at) : at[k] = h[k]
  <2> SUFFICES ASSUME NEW k \in 1..Len(at)
               PROVE  at[k] = h[k]
    OBVIOUS
  <2>1. h[k] \in 1..n /\ at[k] = Positions(n)[h[k]]
    BY <1>3, <1>4 DEF Picks
  <2> QED  BY <1>1, <2>1
<1>6. \A k, l \in 1..Len(at) : k < l => at[k] < at[l]
  BY <1>3, <1>4, <1>5 DEF Picks
<1> DEFINE S == {k \in 0..Len(at) : k = 0 \/ at[k] >= k}
<1>7. 0 \in S
  BY <1>4
<1>8. \A k \in 1..Len(at) : k - 1 \in S => k \in S
  <2> SUFFICES ASSUME NEW k \in 1..Len(at), k - 1 \in S
               PROVE  at[k] >= k
    BY <1>4
  <2>1. at[k] \in 1..n
    BY <1>2
  <2>2. CASE k = 1
    BY <2>1, <2>2
  <2>3. CASE k > 1
    <3>1. k - 1 \in 1..Len(at) /\ k - 1 < k /\ at[k - 1] >= k - 1
      BY <1>4, <2>3
    <3>2. at[k - 1] \in 1..n /\ at[k - 1] < at[k]
      BY <1>2, <1>6, <3>1
    <3> QED  BY <2>1, <3>1, <3>2
  <2> QED  BY <1>4, <2>2, <2>3
<1> HIDE DEF S
<1>9. 0..Len(at) \subseteq S
  BY <1>4, <1>7, <1>8, UpTo
<1>10. \A k \in 1..Len(at) : at[k] >= k
  BY <1>4, <1>9 DEF S
<1> QED  BY <1>2, <1>6, <1>10

-----------------------------------------------------------------------------
NodePort == (Node \X Int) \cup {None}

\* A key that is present has a position.
LEMMA PositionExists ==
  ASSUME NEW items \in Seq(Node), NEW k \in Keys(items)
  PROVE  PositionOf(items, k) \in DOMAIN items
BY DEF Keys, PositionOf

\* Filing a node in a table of nodes gives a table of nodes.
LEMMA PutType ==
  ASSUME NEW items \in Seq(Node), NEW n \in Node
  PROVE  Put(items, n) \in Seq(Node)
<1>1. CASE IdOf[n] \in Keys(items)
  <2> DEFINE p == PositionOf(items, IdOf[n])
  <2>1. Put(items, n) = [items EXCEPT ![p] = n]
    BY <1>1 DEF Put
  <2> HIDE DEF p
  <2>2. Len(items) \in Nat /\ items \in [1..Len(items) -> Node]
    OBVIOUS
  <2>3. [items EXCEPT ![p] = n] \in [1..Len(items) -> Node]
    BY <2>2
  <2> QED  BY <2>1, <2>2, <2>3
<1>2. CASE IdOf[n] \notin Keys(items)
  BY <1>2 DEF Put
<1> QED  BY <1>1, <1>2

\* Dropping a key from a table of nodes gives a table of nodes.
LEMMA DropType ==
  ASSUME NEW items \in Seq(Node), NEW k
  PROVE  Drop(items, k) \in Seq(Node)
<1>1. CASE k \in Keys(items)
  <2> DEFINE p == PositionOf(items, k)
             f == [j \in 1..(Len(items) - 1) |-> IF j < p THEN items[j] ELSE items[j + 1]]
  <2>1. p \in DOMAIN items
    BY <1>1, PositionExists
  <2>2. Len(items) - 1 \in Nat
    BY <2>1
  <2>3. \A j \in 1..(Len(items) - 1) : f[j] \in Node
    BY <2>1
  <2>4. f \in Seq(Node)
    <3> HIDE DEF p
    <3> QED  BY <2>2, <2>3
  <2> QED  BY <1>1, <2>4 DEF Drop
<1>2. CASE k \notin Keys(items)
  BY <1>2 DEF Drop
<1> QED  BY <1>1, <1>2

\* The j-th output of the i-th node is nm, and no later one is.
LastListing(items, outs, nm, i, j) ==
  /\ i \in DOMAIN items /\ j \in DOMAIN outs[items[i]] /\ outs[items[i]][j] = nm
  /\ \A k \in DOMAIN items : \A l \in DOMAIN outs[items[k]] :
       outs[items[k]][l] = nm => k < i \/ (k = i /\ l <= j)

Unlisted(items, outs, nm) ==
  \A k \in DOMAIN items : \A l \in DOMAIN outs[items[k]] : outs[items[k]][l] # nm

\* The rebuilt map sends a name to the last port that lists it, or to None if none does.
LEMMA OutputMapFacts ==
  ASSUME NEW items \in Seq(Node), NEW outs \in [Node -> Seq(Name)], NEW nm \in Name
  PROVE  \/ Unlisted(items, outs, nm) /\ OutputMapOf(items, outs)[nm] = None
         \/ \E i, j \in Int : /\ LastListing(items, outs, nm, i, j)
                              /\ OutputMapOf(items, outs)[nm] = <<items[i], j - 1>>
<1> DEFINE ports == UNION {{<<i, j>> : j \in DOMAIN outs[items[i]]} : i \in DOMAIN items}
           found == {p \in ports : outs[items[p[1]]][p[2]] = nm}
           IsLast(p) == \A q \in found : q[1] < p[1] \/ (q[1] = p[1] /\ q[2] <= p[2])
           last  == CHOOSE p \in found : IsLast(p)
<1>0. \A k \in DOMAIN items : \A l \in DOMAIN outs[items[k]] :
        outs[items[k]][l] = nm => <<k, l>> \in found
  OBVIOUS
<1>1. CASE found = {}
  <2>1. Unlisted(items, outs, nm)
    <3> HIDE DEF found
    <3> QED  BY <1>0, <1>1 DEF Unlisted
  <2> QED  BY <1>1, <2>1 DEF OutputMapOf
<1>2. CASE found # {}
  <2>1. \A p \in found : /\ p = <<p[1], p[2]>>
                         /\ p[1] \in 1..Len(items)
                         /\ p[2] \in 1..Len(outs[items[p[1]]])
    OBVIOUS
  <2>2. \E p \in found : IsLast(p)
    <3> DEFINE I == {p[1] : p \in found}
    <3>1. I \subseteq 1..Len(items) /\ I # {}
      BY <1>2, <2>1
    <3>2. PICK i \in I : \A y \in I : y <= i
      <4> HIDE DEF I
      <4>1. Len(items) \in Nat
        OBVIOUS
      <4> QED  BY <3>1, <4>1, GreatestExists
    <3> DEFINE J == {p[2] : p \in {q \in found : q[1] = i}}
    <3>3. J \subseteq 1..Len(outs[items[i]]) /\ J # {}
      BY <2>1, <3>2
    <3>4. Len(outs[items[i]]) \in Nat
      BY <3>1, <3>2
    <3>5. PICK j \in J : \A y \in J : y <= j
      <4> HIDE DEF J
      <4> QED  BY <3>3, <3>4, GreatestExists
    <3>6. PICK p \in found : p[1] = i /\ p[2] = j
      BY <3>5
    <3>7. ASSUME NEW q \in found
          PROVE  q[1] < p[1] \/ (q[1] = p[1] /\ q[2] <= p[2])
      <4>1. q[1] \in I /\ q[1] \in Int /\ p[1] \in Int
        <5>1. q[1] \in I
          OBVIOUS
        <5> HIDE DEF found, I, J
        <5>2. q[1] \in Int /\ p[1] \in Int
          BY <2>1
        <5> QED  BY <5>1, <5>2
      <4>2. q[1] = i => q[2] \in J
        OBVIOUS
      <4>3. q[1] <= i
        <5> HIDE DEF I, found
        <5> QED  BY <3>2, <4>1
      <4>4. CASE q[1] = i
        <5>1. q[2] <= j
          <6> HIDE DEF J
          <6> QED  BY <3>5, <4>2, <4>4
        <5> QED  BY <3>6, <4>4, <5>1
      <4>5. CASE q[1] # i
        <5> HIDE DEF found, I, J
        <5> QED  BY <3>6, <4>1, <4>3, <4>5
      <4> QED  BY <4>4, <4>5
    <3> QED  BY <3>7
  <2>3. last \in found /\ IsLast(last)
    <3> HIDE DEF found
    <3> QED  BY <2>2
  <2>4. /\ last[1] \in DOMAIN items /\ last[2] \in DOMAIN outs[items[last[1]]]
        /\ outs[items[last[1]]][last[2]] = nm /\ last[1] \in Int /\ last[2] \in Int
    <3>1. outs[items[last[1]]][last[2]] = nm
      <4> HIDE DEF last
      <4> QED  BY <2>3
    <3>2. last[1] \in 1..Len(items) /\ last[2] \in 1..Len(outs[items[last[1]]])
      <4> HIDE DEF found, last
      <4> QED  BY <2>1, <2>3
    <3> HIDE DEF last
    <3> QED  BY <3>1, <3>2
  <2>5. \A k \in DOMAIN items : \A l \in DOMAIN outs[items[k]] :
          outs[items[k]][l] = nm => k < last[1] \/ (k = last[1] /\ l <= last[2])
    <3> SUFFICES ASSUME NEW k \in DOMAIN items, NEW l \in DOMAIN outs[items[k]],
                        outs[items[k]][l] = nm
                 PROVE  k < last[1] \/ (k = last[1] /\ l <= last[2])
      OBVIOUS
    <3>1. <<k, l>> \in found
      BY <1>0
    <3> HIDE DEF found, last
    <3> QED  BY <2>3, <3>1
  <2>6. OutputMapOf(items, outs)[nm] = <<items[last[1]], last[2] - 1>>
    BY <1>2 DEF OutputMapOf
  <2> HIDE DEF last
  <2> QED  BY <2>4, <2>5, <2>6 DEF LastListing
<1> QED  BY <1>1, <1>2

\* The rebuilt map sends every name to a port of a node of the table, or to None.
LEMMA OutputMapType ==
  ASSUME NEW items \in Seq(Node), NEW outs \in [Node -> Seq(Name)]
  PROVE  OutputMapOf(items, outs) \in [Name -> NodePort]
<1> SUFFICES ASSUME NEW nm \in Name
             PROVE  OutputMapOf(items, outs)[nm] \in NodePort
  BY DEF OutputMapOf
<1>1. CASE OutputMapOf(items, outs)[nm] = None
  BY <1>1 DEF NodePort
<1>2. ASSUME NEW i \in Int, NEW j \in Int, LastListing(items, outs, nm, i, j),
             OutputMapOf(items, outs)[nm] = <<items[i], j - 1>>
      PROVE  OutputMapOf(items, outs)[nm] \in NodePort
  <2>1. items[i] \in Node
    BY <1>2 DEF LastListing
  <2> QED  BY <1>2, <2>1 DEF NodePort
<1> QED  BY <1>1, <1>2, OutputMapFacts

\* What a lookup returns is a port of a node, or None.
LEMMA ResolvePortType ==
  ASSUME NEW map \in [Name -> NodePort], NEW items \in Seq(Node), NEW nm \in Name
  PROVE  ResolvePort(map, items, nm) \in NodePort
<1>1. CASE map[nm] # None
  BY <1>1 DEF ResolvePort
<1>2. CASE map[nm] = None /\ nm \in DOMAIN Token /\ Token[nm].id \in Keys(items)
  <2>1. PositionOf(items, Token[nm].id) \in DOMAIN items
    BY <1>2, PositionExists
  <2>2. Token[nm].idx \in Int
    BY <1>2, TokenAssumption
  <2> QED  BY <1>2, <2>1, <2>2 DEF ResolvePort, NodePort
<1>3. CASE map[nm] = None /\ ~(nm \in DOMAIN Token /\ Token[nm].id \in Keys(items))
  BY <1>3 DEF ResolvePort, NodePort
<1> QED  BY <1>1, <1>2, <1>3
=============================================================================
