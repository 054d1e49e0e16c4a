----------------------- MODULE TopologicalSortProofs -----------------------
(***************************************************************************)
(* For every graph, of any finite size and with any inputs: topological_   *)
(* sort returns every node once, puts a node before one of its producers   *)
(* only where a cycle feeds it, and with strict raises exactly on graphs   *)
(* with a cycle.                                                           *)
(***************************************************************************)
EXTENDS TopologicalSort, FiniteSetTheorems, TLAPS

Distinct(s) == \A i, j \in DOMAIN s : s[i] = s[j] => i = j

-----------------------------------------------------------------------------
(* Sequences and sets                                                      *)

\* A non-empty set of naturals has a least element.
LEMMA LeastExists ==
  ASSUME NEW S, S \subseteq Nat, S # {}
  PROVE  \E x \in S : \A y \in S : x <= y
<1> DEFINE R == OpToRel(<, Nat)
<1>1. IsWellFoundedOn(R, Nat)
  BY NatLessThanWellFounded
<1>2. \E x \in S : \A y \in S : ~ (<<y, x>> \in R)
  <2> HIDE DEF R
  <2> QED  BY <1>1, WFMin
<1>3. PICK x \in S : \A y \in S : ~ (y < x)
  BY <1>2 DEF OpToRel
<1>4. \A y \in S : x <= y
  <2> TAKE y \in S
  <2> QED  BY <1>3
<1> QED
  BY <1>4

\* Appending a new element keeps the elements distinct.
LEMMA AppendElements ==
  ASSUME NEW T, NEW s \in Seq(T), NEW e \in T
  PROVE  /\ Append(s, e) \in Seq(T)
         /\ Elements(Append(s, e)) = Elements(s) \cup {e}
         /\ Distinct(s) /\ e \notin Elements(s) => Distinct(Append(s, e))
         /\ \A i \in DOMAIN s : Append(s, e)[i] = s[i]
         /\ DOMAIN Append(s, e) = DOMAIN s \cup {Len(s) + 1}
         /\ Append(s, e)[Len(s) + 1] = e
<1>1. /\ Append(s, e) \in Seq(T) /\ Len(s) \in Nat
      /\ DOMAIN s = 1..Len(s) /\ DOMAIN Append(s, e) = 1..(Len(s) + 1)
  OBVIOUS
<1>2. /\ \A i \in DOMAIN s : Append(s, e)[i] = s[i]
      /\ Append(s, e)[Len(s) + 1] = e
  BY <1>1
<1>3. DOMAIN Append(s, e) = DOMAIN s \cup {Len(s) + 1}
  BY <1>1
<1>4. Elements(Append(s, e)) = Elements(s) \cup {e}
  BY <1>2, <1>3, Zenon DEF Elements
<1>5. ASSUME Distinct(s), e \notin Elements(s) PROVE Distinct(Append(s, e))
  <2>1. \A i \in DOMAIN s : Append(s, e)[i] # e
    BY <1>2, <1>5 DEF Elements
  <2> QED
    BY <1>2, <1>3, <1>5, <2>1 DEF Distinct
<1> QED
  BY <1>1, <1>2, <1>3, <1>4, <1>5

\* A concatenation holds the elements of both parts, the first part first.
LEMMA ConcatElements ==
  ASSUME NEW T, NEW s \in Seq(T), NEW t \in Seq(T)
  PROVE  /\ s \o t \in Seq(T)
         /\ Elements(s \o t) = Elements(s) \cup Elements(t)
         /\ Distinct(s) /\ Distinct(t) /\ Elements(s) \cap Elements(t) = {}
              => Distinct(s \o t)
         /\ \A i \in DOMAIN s : (s \o t)[i] = s[i]
         /\ \A i \in DOMAIN (s \o t) : i \notin DOMAIN s => (s \o t)[i] \in Elements(t)
<1> DEFINE n == Len(s)
           w == s \o t
<1>1. /\ w \in Seq(T) /\ n \in Nat /\ Len(t) \in Nat
      /\ DOMAIN s = 1..n /\ DOMAIN t = 1..Len(t) /\ DOMAIN w = 1..(n + Len(t))
  OBVIOUS
<1>2. \A i \in DOMAIN s : w[i] = s[i]
  OBVIOUS
<1>3. \A i \in DOMAIN w : i \notin DOMAIN s => i - n \in DOMAIN t /\ w[i] = t[i - n]
  BY <1>1
<1>4. \A i \in DOMAIN t : n + i \in DOMAIN w /\ w[n + i] = t[i]
  <2> TAKE i \in DOMAIN t
  <2>1. n + i \in DOMAIN w /\ n + i \notin DOMAIN s /\ (n + i) - n = i
    BY <1>1
  <2> QED
    BY <1>3, <2>1
<1>5. DOMAIN s \subseteq DOMAIN w /\ \A i \in DOMAIN w : i \in Int
  BY <1>1
<1> HIDE DEF w, n
<1>6. Elements(w) = Elements(s) \cup Elements(t)
  <2>1. Elements(w) \subseteq Elements(s) \cup Elements(t)
    BY <1>2, <1>3 DEF Elements
  <2>2. Elements(s) \subseteq Elements(w)
    BY <1>2, <1>5 DEF Elements
  <2>3. Elements(t) \subseteq Elements(w)
    BY <1>4 DEF Elements
  <2> QED
    BY <2>1, <2>2, <2>3
<1>7. ASSUME Distinct(s), Distinct(t), Elements(s) \cap Elements(t) = {}
      PROVE  Distinct(w)
  <2> SUFFICES ASSUME NEW i \in DOMAIN w, NEW j \in DOMAIN w, w[i] = w[j]
               PROVE  i = j
    BY DEF Distinct
  <2>1. \A k \in DOMAIN w : IF k \in DOMAIN s THEN w[k] \in Elements(s)
                            ELSE w[k] \in Elements(t)
    BY <1>2, <1>3 DEF Elements
  <2>2. CASE i \in DOMAIN s /\ j \in DOMAIN s
    BY <1>2, <1>7, <2>2 DEF Distinct
  <2>3. CASE i \notin DOMAIN s /\ j \notin DOMAIN s
    <3>1. i - n = j - n
      BY <1>3, <1>7, <2>3 DEF Distinct
    <3> QED  BY <1>1, <1>5, <3>1
  <2> QED
    BY <1>7, <2>1, <2>2, <2>3
<1>8. \A i \in DOMAIN w : i \notin DOMAIN s => w[i] \in Elements(t)
  BY <1>3 DEF Elements
<1> QED
  BY <1>1, <1>2, <1>6, <1>7, <1>8 DEF w

\* The head of a sequence and the elements of its tail.
LEMMA TailElements ==
  ASSUME NEW T, NEW q \in Seq(T), q # <<>>
  PROVE  /\ Head(q) \in T /\ Tail(q) \in Seq(T)
         /\ Elements(q) = {Head(q)} \cup Elements(Tail(q))
         /\ Distinct(q) => Distinct(Tail(q)) /\ Head(q) \notin Elements(Tail(q))
<1> DEFINE r == Tail(q)
<1>1. /\ Len(q) \in Nat \ {0} /\ DOMAIN q = 1..Len(q)
      /\ Head(q) = q[1] /\ q[1] \in T
      /\ r \in Seq(T) /\ DOMAIN r = 1..(Len(q) - 1)
      /\ \A i \in DOMAIN r : r[i] = q[i + 1]
  OBVIOUS
<1>2. /\ 1 \in DOMAIN q
      /\ \A i \in DOMAIN r : i + 1 \in DOMAIN q /\ i + 1 # 1
      /\ \A i \in DOMAIN q : i # 1 => i - 1 \in DOMAIN r /\ (i - 1) + 1 = i
      /\ \A i, j \in DOMAIN r : i + 1 = j + 1 => i = j
  BY <1>1
<1> HIDE DEF r
<1>3. Elements(q) = {Head(q)} \cup Elements(r)
  <2>1. Elements(q) \subseteq {Head(q)} \cup Elements(r)
    <3> SUFFICES ASSUME NEW i \in DOMAIN q PROVE q[i] \in {Head(q)} \cup Elements(r)
      BY DEF Elements
    <3>1. CASE i = 1  BY <1>1, <3>1
    <3>2. CASE i # 1
      <4>1. r[i - 1] = q[i]
        BY <1>1, <1>2, <3>2
      <4> QED  BY <1>2, <3>2, <4>1 DEF Elements
    <3> QED  BY <3>1, <3>2
  <2>2. {Head(q)} \cup Elements(r) \subseteq Elements(q)
    BY <1>1, <1>2 DEF Elements
  <2> QED
    BY <2>1, <2>2
<1>4. ASSUME Distinct(q) PROVE Distinct(r) /\ Head(q) \notin Elements(r)
  BY <1>1, <1>2, <1>4 DEF Distinct, Elements
<1> QED
  BY <1>1, <1>3, <1>4 DEF r

\* An arrangement of a finite set of nodes lists each of them once.
LEMMA ArrangementFacts ==
  ASSUME NEW S, IsFiniteSet(S), NEW rank \in [S -> Int], NEW s \in Arrangements(S, rank)
  PROVE  s \in Seq(S) /\ Elements(s) = S /\ Distinct(s)
<1>1. Cardinality(S) \in Nat /\ s \in [1..Cardinality(S) -> S]
  BY FS_CardinalityType DEF Arrangements
<1>2. s \in Seq(S)
  BY <1>1
<1>3. \A i, j \in DOMAIN s : i < j => rank[s[i]] < rank[s[j]]
  BY DEF Arrangements
<1>4. Distinct(s)
  <2> SUFFICES ASSUME NEW i \in DOMAIN s, NEW j \in DOMAIN s, s[i] = s[j], i # j
               PROVE  FALSE
    BY DEF Distinct
  <2>1. i \in Int /\ j \in Int /\ s[i] \in S /\ rank[s[i]] \in Int
    BY <1>1
  <2>2. i < j \/ j < i
    BY <2>1
  <2>3. rank[s[i]] < rank[s[i]]
    BY <1>3, <2>2
  <2> QED
    BY <2>1, <2>3
<1> QED
  BY <1>2, <1>4 DEF Arrangements

\* The length of a sequence without repetitions is the number of its elements.
LEMMA DistinctLength ==
  ASSUME NEW T, NEW s \in Seq(T), Distinct(s)
  PROVE  Cardinality(Elements(s)) = Len(s)
<1>1. Len(s) \in Nat /\ DOMAIN s = 1..Len(s)
  OBVIOUS
<1>2. s \in [1..Len(s) -> Elements(s)]
  BY <1>1 DEF Elements
<1>3. s \in Bijection(1..Len(s), Elements(s))
  BY <1>1, <1>2 DEF Bijection, Injection, IsInjective, Surjection, Elements, Distinct
<1>4. ExistsBijection(1..Len(s), Elements(s))
  BY <1>3 DEF ExistsBijection
<1> QED
  BY <1>1, <1>4, FS_CountingElements

-----------------------------------------------------------------------------
(* The inductive invariant                                                 *)

\* The nodes popped or queued are those that wait for nothing, each counted
\* once; a node still waiting counts the producers not yet popped.
Counted ==
  /\ Distinct(sorted) /\ Distinct(queue)
  /\ Elements(sorted) \cap Elements(queue) = {}
  /\ \A v \in Nodes : inDegree[v] = Cardinality(Upstream(v) \ Elements(sorted))
  /\ \A v \in Nodes : inDegree[v] = 0 <=> v \in Elements(sorted) \cup Elements(queue)

\* Every node popped comes after all its producers.
Ordered ==
  \A i \in DOMAIN sorted : Upstream(sorted[i]) \subseteq {sorted[j] : j \in 1..(i - 1)}

IInv ==
  /\ TypeOK
  /\ Distinct(order)
  /\ pc # "done" => Counted /\ Ordered
  /\ pc = "raised" => queue = <<>> /\ ~Complete
  /\ pc = "done" => DependenciesFirst /\ ReturnsEveryNode /\ StrictFindsCycles

-----------------------------------------------------------------------------
(* Facts about the graph                                                   *)

\* Nodes are finitely many integers, and so are the producers of each.
LEMMA FiniteNodes ==
  ASSUME order \in Seq(Id)
  PROVE  /\ Nodes \subseteq Id /\ Nodes \subseteq Int /\ IsFiniteSet(Nodes)
         /\ Cardinality(Nodes) \in Nat
         /\ \A S \in SUBSET Nodes : IsFiniteSet(S) /\ Cardinality(S) \in Nat
<1>1. Nodes \subseteq Id
  BY DEF Nodes, Elements
<1>2. IsFiniteSet(Nodes) /\ \A S \in SUBSET Nodes : IsFiniteSet(S)
  BY <1>1, FS_Subset, IdAssumption
<1> QED
  BY <1>1, <1>2, FS_CardinalityType, IdAssumption

\* Both orders of the nodes are ranks.
LEMMA RankTypes ==
  ASSUME order \in Seq(Id)
  PROVE  /\ ById \in [Nodes -> Int]
         /\ ByDefinition \in [Nodes -> Int]
<1>1. ById \in [Nodes -> Int]
  BY FiniteNodes DEF ById
<1>2. \A v \in Nodes : (CHOOSE i \in DOMAIN order : order[i] = v) \in Int
  <2> TAKE v \in Nodes
  <2>1. \E i \in DOMAIN order : order[i] = v
    BY DEF Nodes, Elements
  <2>2. DOMAIN order \subseteq Int
    OBVIOUS
  <2> QED  BY <2>1, <2>2
<1> QED
  BY <1>1, <1>2 DEF ByDefinition

\* An arrangement by id of some nodes, or of some by definition order.
LEMMA ArrangedNodes ==
  ASSUME order \in Seq(Id), NEW S \in SUBSET Nodes, NEW rank \in [Nodes -> Int],
         NEW s \in Arrangements(S, rank)
  PROVE  s \in Seq(Nodes) /\ Elements(s) = S /\ Distinct(s)
<1> DEFINE r == [v \in S |-> rank[v]]
<1>1. r \in [S -> Int] /\ IsFiniteSet(S)
  BY FiniteNodes
<1>2. s \in Arrangements(S, r)
  <2>1. IsFiniteSet(S) /\ Cardinality(S) \in Nat
    BY FiniteNodes
  <2>2. \A i \in DOMAIN s : s[i] \in S /\ r[s[i]] = rank[s[i]]
    BY <2>1 DEF Arrangements
  <2> HIDE DEF r
  <2> QED  BY <2>2 DEF Arrangements
<1> HIDE DEF r
<1>3. s \in Seq(S) /\ Elements(s) = S /\ Distinct(s)
  BY <1>1, <1>2, ArrangementFacts
<1> QED
  BY <1>3

\* The list is complete exactly when it holds every node.
LEMMA CompleteIsAll ==
  ASSUME order \in Seq(Id), sorted \in Seq(Nodes), Distinct(sorted)
  PROVE  Complete <=> Elements(sorted) = Nodes
<1>1. Elements(sorted) \in SUBSET Nodes
  BY DEF Elements
<1>2. Cardinality(Elements(sorted)) = Len(sorted)
  BY DistinctLength
<1>3. /\ Cardinality(Elements(sorted)) <= Cardinality(Nodes)
      /\ Cardinality(Nodes) = Cardinality(Elements(sorted)) => Nodes = Elements(sorted)
      /\ Cardinality(Nodes) \in Nat /\ Len(sorted) \in Nat
  BY <1>1, FiniteNodes, FS_Subset
<1> QED
  BY <1>2, <1>3 DEF Complete

\* What is left when the queue is empty waits for itself.
LEMMA LeftoverKnotted ==
  ASSUME TypeOK, Counted, queue = <<>>
  PROVE  Knotted(Nodes \ Elements(sorted))
<1> SUFFICES ASSUME NEW v \in Nodes \ Elements(sorted)
             PROVE  Upstream(v) \cap (Nodes \ Elements(sorted)) # {}
  BY DEF Knotted
<1>1. inDegree[v] # 0
  BY DEF Counted, Elements
<1>2. Upstream(v) \ Elements(sorted) # {}
  BY <1>1, FS_EmptySet DEF Counted
<1> QED
  BY <1>2 DEF Upstream

\* Nodes listed after all their producers hold no cycle.
LEMMA OrderedAcyclic ==
  ASSUME sorted \in Seq(Nodes), Ordered, NEW S \in SUBSET Elements(sorted), Knotted(S)
  PROVE  S = {}
<1> SUFFICES ASSUME S # {} PROVE FALSE
  OBVIOUS
<1> DEFINE P == {i \in DOMAIN sorted : sorted[i] \in S}
<1>1. P \subseteq Nat /\ P # {}
  BY DEF Elements
<1>2. PICK i \in P : \A j \in P : i <= j
  <2> HIDE DEF P
  <2> QED  BY <1>1, LeastExists
<1>3. PICK u \in S : u \in Upstream(sorted[i])
  BY DEF Knotted
<1>4. PICK j \in 1..(i - 1) : u = sorted[j]
  BY <1>3 DEF Ordered
<1>5. j \in P /\ j < i
  BY <1>3, <1>4
<1> QED
  BY <1>2, <1>5

-----------------------------------------------------------------------------
(* The invariant holds, step by step                                       *)

LEMMA InitInvariant == Init => IInv
<1> SUFFICES ASSUME Init PROVE IInv
  OBVIOUS
<1>1. order \in Seq(Id) /\ Distinct(order)
  BY FS_CardinalityType, IdAssumption DEF Init, Lists, Distinct
<1>2. inputs \in [Nodes -> Seq(Id)]
  <2>1. Lists(Id, MaxInputs) \subseteq Seq(Id)
    BY MaxInputsAssumption DEF Lists
  <2> QED  BY <2>1 DEF Init
<1>3. \A v \in Nodes : Upstream(v) \in SUBSET Nodes
  BY DEF Upstream
<1>4. inDegree \in [Nodes -> Nat]
  BY <1>1, <1>3, FiniteNodes DEF Init
<1> DEFINE ready == {v \in Nodes : inDegree[v] = 0}
<1>5. queue \in Seq(Nodes) /\ Elements(queue) = ready /\ Distinct(queue)
  <2>1. ready \in SUBSET Nodes /\ queue \in Arrangements(ready, ById)
    BY DEF Init
  <2> HIDE DEF ready
  <2> QED  BY <1>1, <2>1, RankTypes, ArrangedNodes
<1>6. sorted = <<>> /\ sorted \in Seq(Nodes) /\ Elements(sorted) = {} /\ Distinct(sorted)
  BY DEF Init, Elements, Distinct
<1>7. TypeOK
  BY <1>1, <1>2, <1>4, <1>5, <1>6 DEF TypeOK, Init
<1>8. Counted
  <2>1. \A v \in Nodes : inDegree[v] = Cardinality(Upstream(v) \ Elements(sorted))
    <3> TAKE v \in Nodes
    <3>1. Upstream(v) \ Elements(sorted) = Upstream(v)
      BY <1>6
    <3> QED  BY <3>1 DEF Init
  <2> QED  BY <1>5, <1>6, <2>1 DEF Counted
<1>9. Ordered
  BY <1>6 DEF Ordered
<1> QED
  BY <1>1, <1>7, <1>8, <1>9 DEF IInv, Init

\* Popping u: each node u feeds waits for one producer fewer.
LEMMA PopInvariant == IInv /\ Pop => IInv'
<1> SUFFICES ASSUME IInv, Pop PROVE IInv'
  OBVIOUS
<1> DEFINE u == Head(queue)
           ready == {v \in Nodes : u \in Upstream(v) /\ Visit(u)[v] = 0}
<1>0. PICK next \in Arrangements(ready, ById) : queue' = Tail(queue) \o next
  BY DEF Pop
<1>1. /\ TypeOK /\ Counted /\ Ordered /\ pc = "sorting" /\ queue # <<>>
      /\ Distinct(order)
  BY DEF IInv, Pop
<1>2. UNCHANGED <<order, inputs, strict, pc>> /\ Nodes' = Nodes
  BY DEF Pop, Nodes
<1>3. sorted' = Append(sorted, u) /\ inDegree' = Visit(u)
  BY DEF Pop
<1>4. /\ u \in Nodes /\ Tail(queue) \in Seq(Nodes)
      /\ Elements(queue) = {u} \cup Elements(Tail(queue))
      /\ Distinct(Tail(queue)) /\ u \notin Elements(Tail(queue))
  BY <1>1, TailElements DEF TypeOK, Counted
<1>5. u \notin Elements(sorted) /\ inDegree[u] = 0
  BY <1>1, <1>4 DEF Counted
<1>6. /\ sorted' \in Seq(Nodes) /\ Distinct(sorted')
      /\ Elements(sorted') = Elements(sorted) \cup {u}
      /\ DOMAIN sorted' = DOMAIN sorted \cup {Len(sorted) + 1}
      /\ sorted'[Len(sorted) + 1] = u
      /\ \A i \in DOMAIN sorted : sorted'[i] = sorted[i]
  <2>1. sorted \in Seq(Nodes) /\ Distinct(sorted)
    BY <1>1 DEF TypeOK, Counted
  <2> HIDE DEF u
  <2> QED  BY <1>3, <1>4, <1>5, <2>1, AppendElements
<1>7. \A v \in Nodes : /\ Upstream(v)' = Upstream(v)
                       /\ Upstream(v) \in SUBSET Nodes
  BY <1>2 DEF Upstream
<1>8. order \in Seq(Id)
  BY <1>1 DEF TypeOK
<1>9. \A v \in Nodes : /\ inDegree'[v] = Cardinality(Upstream(v) \ Elements(sorted'))
                       /\ inDegree'[v] \in Nat
                       /\ u \notin Upstream(v) => inDegree'[v] = inDegree[v]
                       /\ u \in Upstream(v) => inDegree'[v] = inDegree[v] - 1
  <2> TAKE v \in Nodes
  <2> DEFINE waits == Upstream(v) \ Elements(sorted)
  <2>1. waits \in SUBSET Nodes /\ IsFiniteSet(waits) /\ Cardinality(waits) \in Nat
    BY <1>7, <1>8, FiniteNodes
  <2>2. /\ IsFiniteSet(waits \ {u})
        /\ Cardinality(waits \ {u}) = IF u \in waits THEN Cardinality(waits) - 1
                                      ELSE Cardinality(waits)
    BY <2>1, FS_RemoveElement
  <2>3. Cardinality(waits \ {u}) \in Nat
    BY <2>2, FS_CardinalityType
  <2>4. Upstream(v) \ Elements(sorted') = waits \ {u}
    BY <1>6
  <2>5. inDegree[v] = Cardinality(waits)
    BY <1>1 DEF Counted
  <2>6. inDegree'[v] = IF u \in Upstream(v) THEN inDegree[v] - 1 ELSE inDegree[v]
    BY <1>3 DEF Visit
  <2>7. u \in Upstream(v) <=> u \in waits
    BY <1>5
  <2> HIDE DEF waits
  <2> QED  BY <2>2, <2>3, <2>4, <2>5, <2>6, <2>7
<1>10. next \in Seq(Nodes) /\ Elements(next) = ready /\ Distinct(next)
  <2>1. ready \in SUBSET Nodes
    OBVIOUS
  <2> HIDE DEF ready
  <2> QED  BY <1>0, <1>8, <2>1, RankTypes, ArrangedNodes
<1>11. ready = {v \in Nodes : inDegree[v] # 0 /\ inDegree'[v] = 0}
  <2>1. \A v \in Nodes : inDegree[v] \in Nat
    BY <1>1 DEF TypeOK
  <2>2. \A v \in Nodes : (u \in Upstream(v) /\ Visit(u)[v] = 0)
                            <=> (inDegree[v] # 0 /\ inDegree'[v] = 0)
    <3> TAKE v \in Nodes
    <3>1. Visit(u)[v] = inDegree'[v]
      BY <1>3
    <3>2. /\ inDegree[v] \in Nat /\ inDegree'[v] \in Nat
          /\ u \notin Upstream(v) => inDegree'[v] = inDegree[v]
          /\ u \in Upstream(v) => inDegree'[v] = inDegree[v] - 1
      BY <1>9, <2>1
    <3> HIDE DEF u
    <3> QED  BY <3>1, <3>2
  <2> QED  BY <2>2
<1> HIDE DEF ready, u
<1>12. Elements(next) \cap (Elements(sorted) \cup Elements(queue)) = {}
  BY <1>1, <1>10, <1>11 DEF Counted
<1>13. /\ queue' \in Seq(Nodes) /\ Distinct(queue')
       /\ Elements(queue') = Elements(Tail(queue)) \cup ready
  <2>1. Elements(Tail(queue)) \cap Elements(next) = {}
    BY <1>4, <1>12
  <2> QED  BY <1>0, <1>4, <1>10, <2>1, ConcatElements
<1>14. TypeOK'
  <2>1. inDegree' \in [Nodes -> Nat]
    BY <1>3, <1>9 DEF Visit
  <2> QED  BY <1>1, <1>2, <1>6, <1>13, <2>1 DEF TypeOK
<1>15. Counted'
  <2>1. Elements(sorted') \cap Elements(queue') = {}
    BY <1>1, <1>4, <1>6, <1>10, <1>12, <1>13 DEF Counted
  <2>2. \A v \in Nodes : inDegree'[v] = 0 <=> v \in Elements(sorted') \cup Elements(queue')
    <3> TAKE v \in Nodes
    <3>1. inDegree[v] = 0 <=> v \in Elements(sorted) \cup Elements(queue)
      BY <1>1 DEF Counted
    <3>2. inDegree[v] = 0 => inDegree'[v] = 0
      <4>1. /\ inDegree'[v] \in Nat
            /\ u \notin Upstream(v) => inDegree'[v] = inDegree[v]
            /\ u \in Upstream(v) => inDegree'[v] = inDegree[v] - 1
        BY <1>9
      <4> QED  BY <4>1
    <3> QED  BY <1>4, <1>6, <1>11, <1>13, <3>1, <3>2
  <2>3. \A v \in Nodes : inDegree'[v] = Cardinality(Upstream(v)' \ Elements(sorted'))
    BY <1>7, <1>9
  <2>4. Elements(sorted)' = Elements(sorted') /\ Elements(queue)' = Elements(queue')
    BY DEF Elements
  <2>5. Distinct(sorted)' /\ Distinct(queue)'
    BY <1>6, <1>13 DEF Distinct
  <2> QED  BY <1>2, <2>1, <2>2, <2>3, <2>4, <2>5 DEF Counted
<1>16. Ordered'
  <2> SUFFICES ASSUME NEW i \in DOMAIN sorted'
               PROVE  Upstream(sorted'[i]) \subseteq {sorted'[j] : j \in 1..(i - 1)}
    BY <1>2 DEF Ordered, Upstream
  <2>0. Len(sorted) \in Nat /\ DOMAIN sorted = 1..Len(sorted)
    BY <1>1 DEF TypeOK
  <2>1. CASE i \in DOMAIN sorted
    <3>1. Upstream(sorted[i]) \subseteq {sorted[j] : j \in 1..(i - 1)}
      BY <1>1, <2>1 DEF Ordered
    <3>2. \A j \in 1..(i - 1) : j \in DOMAIN sorted
      BY <2>0, <2>1
    <3>3. \A j \in 1..(i - 1) : sorted'[j] = sorted[j]
      BY <1>6, <3>2
    <3>4. sorted[i] \in Nodes /\ sorted'[i] = sorted[i]
      BY <1>1, <1>6, <2>1 DEF TypeOK
    <3> QED  BY <3>1, <3>3, <3>4
  <2>2. CASE i = Len(sorted) + 1
    <3>1. Upstream(u) \ Elements(sorted) = {}
      <4>1. Upstream(u) \ Elements(sorted) \in SUBSET Nodes
        BY <1>4, <1>7
      <4>2. Cardinality(Upstream(u) \ Elements(sorted)) = 0
        BY <1>1, <1>4, <1>5 DEF Counted
      <4> QED  BY <1>8, <4>1, <4>2, FiniteNodes, FS_EmptySet
    <3>2. \A j \in DOMAIN sorted : j \in 1..(i - 1) /\ sorted'[j] = sorted[j]
      BY <1>6, <2>0, <2>2
    <3>3. Elements(sorted) \subseteq {sorted'[j] : j \in 1..(i - 1)}
      BY <3>2 DEF Elements
    <3> QED  BY <1>6, <2>2, <3>1, <3>3
  <2> QED
    BY <1>6, <2>1, <2>2
<1>17. Distinct(order)'
  BY <1>1, <1>2 DEF Distinct
<1> QED
  BY <1>1, <1>2, <1>14, <1>15, <1>16, <1>17 DEF IInv

LEMMA RaiseInvariant == IInv /\ Raise => IInv'
<1> SUFFICES ASSUME IInv, Raise PROVE IInv'
  OBVIOUS
<1>1. /\ UNCHANGED <<order, inputs, strict, inDegree, queue, sorted>>
      /\ pc = "sorting" /\ queue = <<>> /\ ~Complete /\ strict /\ pc' = "raised"
  BY DEF Raise
<1>2. Nodes' = Nodes /\ \A v \in Nodes : Upstream(v)' = Upstream(v)
  BY <1>1 DEF Nodes, Upstream
<1>3. TypeOK' /\ Distinct(order)'
  BY <1>1, <1>2 DEF IInv, TypeOK, Distinct
<1>4. Counted'
  BY <1>1, <1>2 DEF IInv, Counted, Distinct, Elements
<1>5. Ordered'
  <2>1. Ordered
    BY <1>1 DEF IInv
  <2>2. sorted' = sorted /\ \A v : Upstream(v)' = Upstream(v)
    BY <1>1 DEF Upstream, Nodes
  <2> QED
    BY <2>1, <2>2 DEF Ordered
<1>6. queue' = <<>> /\ ~Complete'
  BY <1>1, <1>2 DEF Complete
<1> QED
  BY <1>1, <1>3, <1>4, <1>5, <1>6 DEF IInv

\* What Return appends waits for itself; with nothing to append the order stands.
LEMMA ReturnInvariant == IInv /\ Return => IInv'
<1> SUFFICES ASSUME IInv, Return PROVE IInv'
  OBVIOUS
<1> DEFINE left == Nodes \ Elements(sorted)
<1>1. PICK rest \in Arrangements(left, ByDefinition) : sorted' = sorted \o rest
  BY DEF Return
<1>2. /\ UNCHANGED <<order, inputs, strict, inDegree, queue>>
      /\ pc = "sorting" /\ queue = <<>> /\ (Complete \/ ~strict) /\ pc' = "done"
      /\ TypeOK /\ Distinct(order) /\ Counted /\ Ordered
  BY DEF IInv, Return
<1>3. order \in Seq(Id) /\ sorted \in Seq(Nodes) /\ Distinct(sorted)
  BY <1>2 DEF TypeOK, Counted
<1>4. rest \in Seq(Nodes) /\ Elements(rest) = left /\ Distinct(rest)
  <2>1. left \in SUBSET Nodes
    OBVIOUS
  <2> HIDE DEF left
  <2> QED  BY <1>1, <1>3, <2>1, RankTypes, ArrangedNodes
<1>5. /\ sorted' \in Seq(Nodes) /\ Distinct(sorted')
      /\ Elements(sorted') = Elements(sorted) \cup left
      /\ \A i \in DOMAIN sorted : sorted'[i] = sorted[i]
      /\ \A i \in DOMAIN sorted' : i \notin DOMAIN sorted => sorted'[i] \in left
  <2>1. Elements(sorted) \cap Elements(rest) = {}
    BY <1>4
  <2> HIDE DEF left
  <2> QED  BY <1>1, <1>3, <1>4, <2>1, ConcatElements
<1>6. Knotted(left) /\ left \in SUBSET Nodes
  BY <1>2, LeftoverKnotted
<1>7. Elements(sorted') = Nodes
  BY <1>3, <1>5 DEF Elements
<1>8. TypeOK' /\ Distinct(order)'
  <2>1. Nodes' = Nodes
    BY <1>2 DEF Nodes
  <2> QED  BY <1>2, <1>5, <2>1 DEF TypeOK, Distinct
<1>9. ReturnsEveryNode'
  BY <1>2, <1>5, <1>7 DEF ReturnsEveryNode, Distinct, Nodes, Elements
<1>10. Nodes' = Nodes /\ inputs' = inputs
  BY <1>2 DEF Nodes
<1>11. \A S \in SUBSET Nodes : Knotted(S)' <=> Knotted(S)
  BY <1>10 DEF Knotted, Upstream
<1>12. DependenciesFirst'
  <2> SUFFICES ASSUME NEW i \in DOMAIN sorted'
               PROVE  \/ Upstream(sorted'[i]) \subseteq {sorted'[j] : j \in 1..(i - 1)}
                      \/ \E S \in SUBSET Nodes : sorted'[i] \in S /\ Knotted(S)
    BY <1>10, <1>11 DEF DependenciesFirst, Upstream
  <2>1. CASE i \in DOMAIN sorted
    <3>1. Upstream(sorted[i]) \subseteq {sorted[j] : j \in 1..(i - 1)}
      BY <1>2, <2>1 DEF Ordered
    <3>2. \A j \in 1..(i - 1) : j \in DOMAIN sorted
      BY <1>3, <2>1
    <3>3. \A j \in 1..(i - 1) : sorted'[j] = sorted[j]
      BY <1>5, <3>2
    <3> QED  BY <1>5, <2>1, <3>1, <3>3
  <2>2. CASE i \notin DOMAIN sorted
    <3>1. sorted'[i] \in left
      BY <1>5, <2>2
    <3> HIDE DEF left
    <3> QED  BY <1>6, <3>1
  <2> QED
    BY <2>1, <2>2
<1>13. StrictFindsCycles'
  <2> SUFFICES ASSUME strict, NEW S \in SUBSET Nodes, S # {}, Knotted(S)
               PROVE  FALSE
    <3>1. StrictFindsCycles' <=>
            (strict => ~ \E S \in SUBSET Nodes : S # {} /\ Knotted(S))
      BY <1>2, <1>10, <1>11 DEF StrictFindsCycles
    <3> QED  BY <3>1
  <2>1. Elements(sorted) = Nodes
    BY <1>2, <1>3, CompleteIsAll
  <2> QED
    BY <1>2, <1>3, <2>1, OrderedAcyclic
<1> QED
  BY <1>2, <1>8, <1>9, <1>12, <1>13 DEF IInv

LEMMA StutterInvariant == IInv /\ UNCHANGED vars => IInv'
<1> SUFFICES ASSUME IInv, UNCHANGED vars PROVE IInv'
  OBVIOUS
<1>1. UNCHANGED <<order, inputs, strict, inDegree, queue, sorted, pc>>
  BY DEF vars
<1>2. Nodes' = Nodes /\ \A v : Upstream(v)' = Upstream(v)
  BY <1>1 DEF Nodes, Upstream
<1>3. TypeOK' /\ Distinct(order)'
  BY <1>1, <1>2 DEF IInv, TypeOK, Distinct
<1>4. (Counted <=> Counted') /\ (Ordered <=> Ordered') /\ (Complete <=> Complete')
  BY <1>1 DEF Counted, Ordered, Complete, Distinct, Upstream, Nodes, Elements
<1>5. /\ DependenciesFirst <=> DependenciesFirst'
      /\ ReturnsEveryNode <=> ReturnsEveryNode'
      /\ StrictFindsCycles <=> StrictFindsCycles'
  BY <1>1 DEF DependenciesFirst, ReturnsEveryNode, StrictFindsCycles,
              Knotted, Upstream, Nodes, Elements
<1> QED
  BY <1>1, <1>3, <1>4, <1>5 DEF IInv

LEMMA Invariance == Spec => []IInv
<1>1. IInv /\ [Next]_vars => IInv'
  BY PopInvariant, RaiseInvariant, ReturnInvariant, StutterInvariant DEF Next
<1> QED
  BY <1>1, InitInvariant, PTL DEF Spec

\* The three promises follow from the invariant in every state.
LEMMA InvariantImplies ==
  IInv => TypeOK /\ DependenciesFirst /\ ReturnsEveryNode /\ StrictFindsCycles
<1> SUFFICES ASSUME IInv
             PROVE  TypeOK /\ DependenciesFirst /\ ReturnsEveryNode /\ StrictFindsCycles
  OBVIOUS
<1>1. CASE pc = "done"
  BY <1>1 DEF IInv
<1>2. CASE pc # "done"
  <2>1. DependenciesFirst /\ ReturnsEveryNode
    BY <1>2 DEF IInv, Ordered, DependenciesFirst, ReturnsEveryNode
  <2>2. StrictFindsCycles
    <3> SUFFICES ASSUME pc = "raised"
                 PROVE  \E S \in SUBSET Nodes : S # {} /\ Knotted(S)
      BY <1>2 DEF IInv, TypeOK, StrictFindsCycles
    <3> DEFINE left == Nodes \ Elements(sorted)
    <3>1. Knotted(left)
      BY LeftoverKnotted DEF IInv
    <3>2. left # {}
      <4>1. Elements(sorted) # Nodes /\ Elements(sorted) \subseteq Nodes
        BY CompleteIsAll DEF IInv, Counted, TypeOK, Elements
      <4> QED  BY <4>1
    <3>3. left \in SUBSET Nodes
      OBVIOUS
    <3> HIDE DEF left
    <3> QED  BY <3>1, <3>2, <3>3
  <2> QED
    BY <2>1, <2>2 DEF IInv
<1> QED
  BY <1>1, <1>2

-----------------------------------------------------------------------------
(* The theorems                                                            *)

\* A node is put before one of its producers only where a cycle feeds it.
THEOREM OrderTheorem == Spec => []DependenciesFirst
BY Invariance, InvariantImplies, PTL

\* What topological_sort returns is every node of the graph, once.
THEOREM CompletenessTheorem == Spec => [](TypeOK /\ ReturnsEveryNode)
BY Invariance, InvariantImplies, PTL

\* strict raises CyclicGraphError on the graphs with a cycle and on no other.
THEOREM StrictTheorem == Spec => []StrictFindsCycles
BY Invariance, InvariantImplies, PTL
=============================================================================
