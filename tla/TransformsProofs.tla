-------------------------- MODULE TransformsProofs --------------------------
(***************************************************************************)
(* For every graph, with any names, cycles included: eliminate_dead_nodes  *)
(* keeps exactly the nodes that outputs and effects need, every name that  *)
(* is left stands for what it stood for, and both passes return graphs.    *)
(* For those without a cycle and with names that say one thing: whatever   *)
(* eliminate_common_subexpressions merges away, outputs keep their values, *)
(* effects their arguments, and no value is computed twice.                *)
(***************************************************************************)
EXTENDS Transforms, NodeTableProofs, FiniteSetTheorems

-----------------------------------------------------------------------------
(* Names and nodes of one graph                                            *)

\* An id leads to the node that has it.
LEMMA NodeAtFacts ==
  ASSUME NEW g, IsGraph(g), NEW k \in Ids(g)
  PROVE  NodeAt(g, k) \in Node /\ IdOf[NodeAt(g, k)] = k
<1>1. PICK i \in DOMAIN g.items : IdOf[g.items[i]] = k
  BY DEF Ids, Keys
<1>2. PositionOf(g.items, k) \in DOMAIN g.items /\ IdOf[g.items[PositionOf(g.items, k)]] = k
  BY <1>1 DEF PositionOf
<1>3. g.items \in Seq(Node)
  BY DEF IsGraph
<1> QED  BY <1>2, <1>3 DEF NodeAt

\* The node a name leads to, if it leads to one.
LEMMA ResolveFacts ==
  ASSUME NEW g, IsGraph(g), NEW nm \in Name, Resolve(g, nm) # None
  PROVE  /\ Resolve(g, nm) \in Node \X Int
         /\ \E i \in DOMAIN g.items : Resolve(g, nm)[1] = g.items[i]
         /\ IdOf[Resolve(g, nm)[1]] \in Ids(g)
<1>0. g.items \in Seq(Node) /\ Outputs \in [Node -> Seq(Name)]
  BY OutputsAssumption DEF IsGraph
<1> SUFFICES \E i \in DOMAIN g.items, j \in Int : Resolve(g, nm) = <<g.items[i], j>>
  BY <1>0 DEF Ids, Keys
<1>1. CASE nm \in Ids(g)
  <2>1. PositionOf(g.items, nm) \in DOMAIN g.items
    BY <1>0, <1>1, PositionExists DEF Ids
  <2>2. Resolve(g, nm) = <<g.items[PositionOf(g.items, nm)], 0>>
    BY <1>1 DEF Resolve, NodeAt
  <2> QED  BY <2>1, <2>2
<1>2. CASE nm \notin Ids(g)
  <2> DEFINE map == OutputMapOf(g.items, Outputs)
  <2>1. Resolve(g, nm) = ResolvePort(map, g.items, nm)
    BY <1>2 DEF Resolve, PortOf
  <2>2. CASE map[nm] # None
    <3>1. PICK i \in Int, j \in Int : LastListing(g.items, Outputs, nm, i, j)
                                       /\ map[nm] = <<g.items[i], j - 1>>
      BY <1>0, <2>2, OutputMapFacts
    <3>2. i \in DOMAIN g.items
      BY <3>1 DEF LastListing
    <3>3. Resolve(g, nm) = <<g.items[i], j - 1>>
      BY <2>1, <2>2, <3>1 DEF ResolvePort
    <3> QED  BY <3>2, <3>3
  <2>3. CASE map[nm] = None
    <3> HIDE DEF map
    <3>1. nm \in DOMAIN Token /\ Token[nm].id \in Keys(g.items)
      BY <2>1, <2>3 DEF ResolvePort
    <3>2. PositionOf(g.items, Token[nm].id) \in DOMAIN g.items /\ Token[nm].idx \in Int
      BY <1>0, <3>1, PositionExists, TokenAssumption
    <3>3. Resolve(g, nm) = <<g.items[PositionOf(g.items, Token[nm].id)], Token[nm].idx>>
      BY <2>1, <2>3, <3>1 DEF ResolvePort
    <3> QED  BY <3>2, <3>3
  <2> QED  BY <2>2, <2>3
<1> QED  BY <1>1, <1>2

\* The producer of a name, as a set.
ProducerOf(g, nm) == IF Resolve(g, nm) = None THEN {} ELSE {IdOf[Resolve(g, nm)[1]]}

LEMMA ProducersUnion ==
  ASSUME NEW g, NEW names
  PROVE  Producers(g, names) = UNION {ProducerOf(g, names[i]) : i \in DOMAIN names}
BY DEF Producers, ProducerOf, ToSet

LEMMA ProducersType ==
  ASSUME NEW g, IsGraph(g), NEW names \in Seq(Name)
  PROVE  Producers(g, names) \subseteq Ids(g)
<1>1. \A nm \in ToSet(names) : nm \in Name
  BY DEF ToSet
<1> QED  BY <1>1, ResolveFacts DEF Producers

-----------------------------------------------------------------------------
(* The search                                                              *)

Worklist == [live : SUBSET Ids(graph), queue : Seq(Ids(graph))]

\* From w to u the ids in more were found, and those that are new were queued.
Grows(w, u, more) ==
  /\ u \in Worklist
  /\ u.live = w.live \cup more
  /\ ToSet(u.queue) = ToSet(w.queue) \cup (more \ w.live)

\* What two searches find in turn is what both of them find.
LEMMA GrowsOn ==
  ASSUME NEW w, NEW u, NEW v, NEW A, NEW B, Grows(w, u, A), Grows(u, v, B)
  PROVE  Grows(w, v, A \cup B)
BY DEF Grows

\* A name adds its producer.
LEMMA EnqueueFacts ==
  ASSUME IsGraph(graph), NEW w \in Worklist, NEW nm \in Name
  PROVE  Grows(w, Enqueue(w, nm), ProducerOf(graph, nm))
<1> DEFINE port == Resolve(graph, nm)
           k == IdOf[port[1]]
<1>1. CASE port = None \/ k \in w.live
  <2>1. Enqueue(w, nm) = w
    BY <1>1 DEF Enqueue
  <2>2. ProducerOf(graph, nm) \subseteq w.live
    BY <1>1 DEF ProducerOf
  <2> QED  BY <2>1, <2>2 DEF Grows
<1>2. CASE ~(port = None \/ k \in w.live)
  <2>1. Enqueue(w, nm) = [live |-> w.live \cup {k}, queue |-> Append(w.queue, k)]
    BY <1>2 DEF Enqueue
  <2>2. ProducerOf(graph, nm) = {k}
    BY <1>2 DEF ProducerOf
  <2>3. k \in Ids(graph)
    BY <1>2, ResolveFacts
  <2> HIDE DEF port, k
  <2>4. w.queue \in Seq(Ids(graph)) /\ w.live \subseteq Ids(graph)
    BY DEF Worklist
  <2>5. Append(w.queue, k) \in Seq(Ids(graph)) /\ ToSet(Append(w.queue, k)) = ToSet(w.queue) \cup {k}
    <3> DEFINE q == Append(w.queue, k)
    <3>1. q \in Seq(Ids(graph)) /\ Len(q) = Len(w.queue) + 1 /\ Len(w.queue) \in Nat
      BY <2>3, <2>4
    <3>2. \A i \in 1..Len(q) : q[i] = IF i = Len(q) THEN k ELSE w.queue[i]
      BY <2>3, <2>4
    <3>3. DOMAIN q = 1..Len(q) /\ DOMAIN w.queue = 1..Len(w.queue)
      BY <2>4, <3>1
    <3> HIDE DEF q
    <3>4. ToSet(q) \subseteq ToSet(w.queue) \cup {k}
      BY <3>1, <3>2, <3>3 DEF ToSet
    <3>5. k \in ToSet(q)
      <4>1. Len(q) \in 1..Len(q)
        BY <3>1
      <4> QED  BY <3>2, <3>3, <4>1 DEF ToSet
    <3>6. \A i \in 1..Len(w.queue) : i \in 1..Len(q) /\ q[i] = w.queue[i]
      BY <3>1, <3>2
    <3>7. ToSet(w.queue) \subseteq ToSet(q)
      BY <3>3, <3>6 DEF ToSet
    <3> QED  BY <3>1, <3>4, <3>5, <3>7 DEF q
  <2>6. Enqueue(w, nm) \in Worklist
    BY <2>1, <2>3, <2>4, <2>5 DEF Worklist
  <2>7. k \notin w.live
    BY <1>2 DEF port, k
  <2> QED  BY <2>1, <2>2, <2>5, <2>6, <2>7 DEF Grows
<1> QED  BY <1>1, <1>2

\* The worklists before and after each of the names.
Enqueues(f, w, names) ==
  /\ f[0] = w /\ EnqueueAll(w, names) = f[Len(names)]
  /\ \A i \in 1..Len(names) : f[i] = Enqueue(f[i - 1], names[i])

LEMMA EnqueueAllFold ==
  ASSUME IsGraph(graph), NEW w \in Worklist, NEW names \in Seq(Name)
  PROVE  \E f \in [0..Len(names) -> Worklist] : Enqueues(f, w, names)
<1> DEFINE n == Len(names)
           Next_(i, v) == Enqueue(v, names[i])
           step == [p \in (1..n) \X Worklist |-> Next_(p[1], p[2])]
           Upto(f) == f = [i \in 0..n |-> IF i = 0 THEN w ELSE Next_(i, f[i - 1])]
<1>1. n \in Nat /\ w \in Worklist /\ \A i \in 1..n, v \in Worklist : Next_(i, v) \in Worklist
  <2>1. ASSUME NEW i \in 1..n, NEW v \in Worklist
        PROVE  Next_(i, v) \in Worklist
    <3>1. names[i] \in Name
      OBVIOUS
    <3> QED  BY <3>1, EnqueueFacts DEF Grows
  <2> QED  BY <2>1
<1>2. \E f \in [0..n -> Worklist] : Upto(f)
  <2> HIDE DEF n, Next_
  <2>1. step \in Steps(n, Worklist)
    BY <1>1 DEF Steps
  <2>2. PICK f \in [0..n -> Worklist] :
          f[0] = w /\ \A i \in 1..n : f[i] = step[<<i, f[i - 1]>>]
    <3> HIDE DEF step
    <3>1. PICK f \in FoldOf(Worklist, w, n, step) : TRUE
      BY <1>1, <2>1, FoldExists
    <3> QED  BY <3>1 DEF FoldOf
  <2>3. \A i \in 1..n : f[i - 1] \in Worklist /\ step[<<i, f[i - 1]>>] = Next_(i, f[i - 1])
    BY <1>1
  <2>4. \A i \in 0..n : f[i] = IF i = 0 THEN w ELSE Next_(i, f[i - 1])
    <3> HIDE DEF step
    <3>1. ASSUME NEW i \in 0..n, i # 0
          PROVE  f[i] = Next_(i, f[i - 1])
      <4>1. i \in 1..n
        BY <1>1, <3>1
      <4> QED  BY <2>2, <2>3, <4>1
    <3> QED  BY <1>1, <2>2, <3>1
  <2>5. Upto(f)
    <3> HIDE DEF step
    <3> QED  BY <2>4, <2>2
  <2> QED  BY <2>5
<1> DEFINE g == CHOOSE h : Upto(h)
<1>3. Upto(g)
  <2> HIDE DEF Upto
  <2> QED  BY <1>2
<1>4. EnqueueAll(w, names) = g[n]
  BY DEF EnqueueAll
<1> HIDE DEF g, Next_, n
<1>5. /\ g[0] = w
      /\ \A i \in 1..n : g[i] = Next_(i, g[i - 1])
      /\ DOMAIN g = 0..n
  BY <1>1, <1>3
<1>6. g \in [0..n -> Worklist]
  <2> DEFINE S == {i \in 0..n : g[i] \in Worklist}
  <2>1. 0 \in S
    BY <1>1, <1>5
  <2>2. \A i \in 1..n : i - 1 \in S => i \in S
    BY <1>1, <1>5
  <2>3. 0..n \subseteq S
    <3> HIDE DEF S
    <3> QED  BY <1>1, <2>1, <2>2, UpTo
  <2> QED  BY <1>3, <2>3
<1> QED  BY <1>4, <1>5, <1>6 DEF n, Next_, Enqueues

\* All names add all their producers.
LEMMA EnqueueAllFacts ==
  ASSUME IsGraph(graph), NEW w \in Worklist, NEW names \in Seq(Name)
  PROVE  Grows(w, EnqueueAll(w, names), Producers(graph, names))
<1> DEFINE n == Len(names)
           Found(m) == UNION {ProducerOf(graph, names[i]) : i \in 1..m}
<1>1. PICK f \in [0..n -> Worklist] : Enqueues(f, w, names)
  BY EnqueueAllFold, Zenon
<1> DEFINE S == {m \in 0..n : Grows(w, f[m], Found(m))}
<1>2. 0 \in S
  <2>1. Found(0) = {} /\ f[0] = w
    BY <1>1 DEF Enqueues
  <2> HIDE DEF Found
  <2> QED  BY <2>1 DEF Grows
<1>3. ASSUME NEW m \in 1..n, m - 1 \in S
      PROVE  m \in S
  <2>1. Grows(w, f[m - 1], Found(m - 1)) /\ f[m - 1] \in Worklist
    BY <1>3
  <2>2. f[m] = Enqueue(f[m - 1], names[m]) /\ names[m] \in Name
    BY <1>1 DEF Enqueues
  <2>3. Grows(f[m - 1], f[m], ProducerOf(graph, names[m]))
    BY <2>1, <2>2, EnqueueFacts
  <2>4. Found(m) = Found(m - 1) \cup ProducerOf(graph, names[m])
    <3>1. 1..m = 1..(m - 1) \cup {m}
      OBVIOUS
    <3> QED  BY <3>1
  <2> HIDE DEF Found
  <2>5. Grows(w, f[m], Found(m))
    BY <2>1, <2>3, <2>4, GrowsOn
  <2> QED  BY <2>5
<1>4. n \in S
  <2>1. n \in Nat
    OBVIOUS
  <2> HIDE DEF S, n
  <2>2. 0..n \subseteq S
    BY <1>2, <1>3, <2>1, UpTo
  <2> QED  BY <2>1, <2>2
<1>5. Found(n) = Producers(graph, names)
  <2>1. DOMAIN names = 1..n
    OBVIOUS
  <2> QED  BY <2>1, ProducersUnion
<1> HIDE DEF Found
<1> QED  BY <1>1, <1>4, <1>5 DEF Enqueues

\* The ids of the nodes with effects.
EffectIds == {IdOf[n] : n \in ToSet(graph.items) \cap Effectful}

\* A list of ids leads to those ids.
LEMMA ProducersOfIds ==
  ASSUME NEW g, IsGraph(g), NEW names, ToSet(names) \subseteq Ids(g)
  PROVE  Producers(g, names) = ToSet(names)
<1>1. \A k \in ToSet(names) : Resolve(g, k) # None /\ IdOf[Resolve(g, k)[1]] = k
  <2> SUFFICES ASSUME NEW k \in ToSet(names)
               PROVE  Resolve(g, k) # None /\ IdOf[Resolve(g, k)[1]] = k
    OBVIOUS
  <2>1. Resolve(g, k) = <<NodeAt(g, k), 0>>
    BY DEF Resolve
  <2>2. NodeAt(g, k) \in Node /\ IdOf[NodeAt(g, k)] = k
    BY NodeAtFacts
  <2> QED  BY <2>1, <2>2, NoneAssumption
<1> QED  BY <1>1 DEF Producers

\* The search starts with the producers of the outputs and the nodes with effects.
LEMMA SeededFacts ==
  ASSUME IsGraph(graph)
  PROVE  /\ Seeded \in Worklist
         /\ Seeded.live = Producers(graph, graph.outputs) \cup EffectIds
         /\ ToSet(Seeded.queue) = Seeded.live
<1> DEFINE ids == [i \in DOMAIN graph.items |-> IdOf[graph.items[i]]]
           P == {i \in DOMAIN ids : graph.items[i] \in Effectful}
           effects == Selected(ids, P)
           start == [live |-> {}, queue |-> <<>>]
           u == EnqueueAll(start, graph.outputs)
<1>1. graph.items \in Seq(Node) /\ graph.outputs \in Seq(Name) /\ Ids(graph) \subseteq Name
  <2>1. graph.items \in Seq(Node) /\ graph.outputs \in Seq(Name)
    BY DEF IsGraph
  <2>2. \A i \in DOMAIN graph.items : IdOf[graph.items[i]] \in Key
    BY <2>1, IdOfAssumption
  <2> QED  BY <2>1, <2>2, OutputsAssumption DEF Ids, Keys
<1>2. ids \in Seq(Ids(graph)) /\ DOMAIN ids = DOMAIN graph.items
  <2>1. DOMAIN graph.items = 1..Len(graph.items) /\ Len(graph.items) \in Nat
    BY <1>1
  <2>2. \A i \in DOMAIN graph.items : ids[i] \in Ids(graph)
    BY DEF Ids, Keys
  <2>3. ids \in [1..Len(graph.items) -> Ids(graph)] /\ DOMAIN ids = DOMAIN graph.items
    BY <2>1, <2>2
  <2> HIDE DEF ids
  <2> QED  BY <2>1, <2>3
<1>3. effects \in Seq(Ids(graph)) /\ ToSet(effects) = {ids[i] : i \in P}
  <2> HIDE DEF ids
  <2>1. PICK at : Picks(effects, ids, P, at)
    <3> HIDE DEF P
    <3> QED  BY <1>2, SelectedFacts
  <2>2. effects \in Seq(Ids(graph))
    BY <1>2, SelectedFacts
  <2>3. P \subseteq DOMAIN ids
    OBVIOUS
  <2> HIDE DEF effects, P
  <2>4. ToSet(effects) \subseteq {ids[i] : i \in P}
    BY <2>1, <2>3 DEF ToSet, Picks
  <2>5. \A i \in P : \E k \in DOMAIN effects : effects[k] = ids[i]
    BY <2>1, <2>3 DEF Picks
  <2> QED  BY <2>2, <2>4, <2>5 DEF ToSet
<1>4. {ids[i] : i \in P} = EffectIds
  <2>1. \A i \in P : ids[i] = IdOf[graph.items[i]] /\ graph.items[i] \in ToSet(graph.items) \cap Effectful
    BY DEF ToSet
  <2>2. \A n \in ToSet(graph.items) \cap Effectful : \E i \in P : n = graph.items[i]
    BY DEF ToSet
  <2>3. \A i \in P : IdOf[graph.items[i]] = ids[i]
    OBVIOUS
  <2> HIDE DEF P, ids
  <2> QED  BY <2>1, <2>2, <2>3 DEF EffectIds
<1>5. ToSet(effects) = EffectIds /\ ToSet(effects) \subseteq Ids(graph) /\ effects \in Seq(Name)
  <2> HIDE DEF effects, ids, P
  <2>1. ToSet(effects) \subseteq Ids(graph) /\ effects \in Seq(Name)
    BY <1>1, <1>3 DEF ToSet
  <2> QED  BY <1>3, <1>4, <2>1
<1>6. Producers(graph, effects) = EffectIds
  <2> HIDE DEF effects
  <2> QED  BY <1>5, ProducersOfIds
<1>7. start \in Worklist /\ start.live = {} /\ ToSet(start.queue) = {}
  BY DEF Worklist, ToSet
<1>8. Grows(start, u, Producers(graph, graph.outputs))
  <2> HIDE DEF start
  <2> QED  BY <1>1, <1>7, EnqueueAllFacts
<1>9. Grows(u, EnqueueAll(u, effects), EffectIds)
  <2>1. u \in Worklist
    BY <1>8 DEF Grows
  <2> HIDE DEF u, effects
  <2> QED  BY <1>5, <1>6, <2>1, EnqueueAllFacts
<1>10. Seeded = EnqueueAll(u, effects)
  BY DEF Seeded
<1>11. Grows(start, Seeded, Producers(graph, graph.outputs) \cup EffectIds)
  <2> HIDE DEF start, u, effects
  <2> QED  BY <1>8, <1>9, <1>10, GrowsOn
<1> HIDE DEF start
<1> QED  BY <1>7, <1>11 DEF Grows

-----------------------------------------------------------------------------
(* Invariant of the search                                                 *)

\* What was found is needed, and what it needs was found, but for the ids that
\* are still queued.
SearchInv ==
  /\ IsGraph(graph)
  /\ live \subseteq Ids(graph) /\ queue \in Seq(Ids(graph)) /\ ToSet(queue) \subseteq live
  /\ Producers(graph, graph.outputs) \cup EffectIds \subseteq live
  /\ \A k \in live \ ToSet(queue) : Producers(graph, graph.inputs[k]) \subseteq live
  /\ \A S \in SUBSET Ids(graph) : Sufficient(S) => live \subseteq S
  /\ pc # "sweeping" => queue = <<>>

LEMMA SearchInit == Init => SearchInv
<1> SUFFICES ASSUME Init
             PROVE  SearchInv
  OBVIOUS
<1>1. IsGraph(graph) /\ live = Seeded.live /\ queue = Seeded.queue /\ pc = "sweeping"
  BY GraphAssumption DEF Init, SweepInit
<1>2. Seeded.live \subseteq Ids(graph) /\ Seeded.queue \in Seq(Ids(graph))
  BY <1>1, SeededFacts DEF Worklist
<1>3. ASSUME NEW S, Sufficient(S)
      PROVE  live \subseteq S
  BY <1>1, <1>3, SeededFacts DEF Sufficient, EffectIds
<1> QED  BY <1>1, <1>2, <1>3, SeededFacts DEF SearchInv

\* A turn takes one id from the queue and adds what that node reads.
LEMMA SweepFacts ==
  ASSUME SearchInv, Sweep
  PROVE  LET k == Head(queue)
             more == Producers(graph, graph.inputs[k])
         IN  /\ k \in live /\ graph.inputs[k] \in Seq(Name)
             /\ more \subseteq Ids(graph)
             /\ live' = live \cup more
             /\ queue' \in Seq(Ids(graph))
             /\ ToSet(queue) \subseteq {k} \cup ToSet(Tail(queue))
             /\ ToSet(queue') = ToSet(Tail(queue)) \cup (more \ live)
             /\ ToSet(Tail(queue)) \subseteq ToSet(queue)
<1> DEFINE k == Head(queue)
           w == [live |-> live, queue |-> Tail(queue)]
           u == EnqueueAll(w, graph.inputs[k])
<1>1. queue \in Seq(Ids(graph)) /\ queue # <<>> /\ IsGraph(graph) /\ ToSet(queue) \subseteq live
  BY DEF SearchInv, Sweep
<1>2. /\ k \in ToSet(queue) /\ Tail(queue) \in Seq(Ids(graph))
      /\ ToSet(Tail(queue)) \subseteq ToSet(queue)
      /\ ToSet(queue) \subseteq {k} \cup ToSet(Tail(queue))
  <2> DEFINE q == Tail(queue)
  <2>1. /\ Len(queue) \in Nat \ {0} /\ Len(q) = Len(queue) - 1 /\ q \in Seq(Ids(graph))
        /\ k = queue[1] /\ \A i \in 1..Len(q) : q[i] = queue[i + 1]
    BY <1>1
  <2>2. DOMAIN queue = 1..Len(queue) /\ DOMAIN q = 1..Len(q)
    BY <1>1
  <2> HIDE DEF q
  <2>3. k \in ToSet(queue)
    <3>1. 1 \in DOMAIN queue
      BY <2>1, <2>2
    <3> QED  BY <2>1, <3>1 DEF ToSet
  <2>4. \A i \in DOMAIN q : i + 1 \in DOMAIN queue
    BY <2>1, <2>2
  <2>5. ToSet(q) \subseteq ToSet(queue)
    BY <2>1, <2>2, <2>4 DEF ToSet
  <2>6. \A i \in DOMAIN queue : i = 1 \/ (i - 1 \in DOMAIN q /\ q[i - 1] = queue[i])
    BY <2>1, <2>2
  <2>7. ToSet(queue) \subseteq {k} \cup ToSet(q)
    BY <2>1, <2>6 DEF ToSet
  <2> QED  BY <2>1, <2>3, <2>5, <2>7 DEF q
<1>3. k \in live /\ k \in Ids(graph)
  BY <1>1, <1>2 DEF SearchInv
<1>4. graph.inputs[k] \in Seq(Name)
  BY <1>1, <1>3 DEF IsGraph
<1>5. w \in Worklist /\ w.live = live /\ w.queue = Tail(queue)
  BY <1>2 DEF Worklist, SearchInv
<1>6. live' = u.live /\ queue' = u.queue
  BY DEF Sweep
<1>7. Grows(w, u, Producers(graph, graph.inputs[k]))
  <2> HIDE DEF w, k
  <2> QED  BY <1>1, <1>4, <1>5, EnqueueAllFacts
<1>8. Producers(graph, graph.inputs[k]) \subseteq Ids(graph)
  <2> HIDE DEF k
  <2> QED  BY <1>1, <1>4, ProducersType
<1> HIDE DEF w, u, k
<1>9. /\ queue' \in Seq(Ids(graph))
      /\ live' = live \cup Producers(graph, graph.inputs[k])
      /\ ToSet(queue') = ToSet(Tail(queue)) \cup (Producers(graph, graph.inputs[k]) \ live)
  BY <1>5, <1>6, <1>7 DEF Grows, Worklist
<1> QED  BY <1>2, <1>3, <1>4, <1>8, <1>9 DEF k

LEMMA SearchStep == SearchInv /\ Sweep => SearchInv'
<1> SUFFICES ASSUME SearchInv, Sweep
             PROVE  SearchInv'
  OBVIOUS
<1> DEFINE k == Head(queue)
           more == Producers(graph, graph.inputs[k])
<1>1. /\ k \in live /\ more \subseteq Ids(graph)
      /\ live' = live \cup more
      /\ queue' \in Seq(Ids(graph))
      /\ ToSet(queue) \subseteq {k} \cup ToSet(Tail(queue))
      /\ ToSet(queue') = ToSet(Tail(queue)) \cup (more \ live)
      /\ ToSet(Tail(queue)) \subseteq ToSet(queue)
  BY SweepFacts
<1>2. graph' = graph /\ pc' = pc /\ pc = "sweeping" /\ IsGraph(graph)'
  BY DEF Sweep, SearchInv
<1>3. /\ live \subseteq Ids(graph) /\ ToSet(queue) \subseteq live
      /\ Producers(graph, graph.outputs) \cup EffectIds \subseteq live
      /\ \A j \in live \ ToSet(queue) : Producers(graph, graph.inputs[j]) \subseteq live
      /\ \A S \in SUBSET Ids(graph) : Sufficient(S) => live \subseteq S
  BY DEF SearchInv
<1>4. EffectIds' = EffectIds /\ \A S : Sufficient(S)' <=> Sufficient(S)
  BY <1>2 DEF EffectIds, Sufficient
<1>5. ASSUME NEW j \in live' \ ToSet(queue')
      PROVE  Producers(graph, graph.inputs[j]) \subseteq live'
  <2>1. CASE j = k
    BY <1>1, <2>1
  <2>2. CASE j # k
    <3> HIDE DEF k, more
    <3>1. j \in live /\ j \notin ToSet(queue)
      BY <1>1, <2>2
    <3> QED  BY <1>1, <1>3, <3>1
  <2> QED  BY <2>1, <2>2
<1>6. ASSUME NEW S \in SUBSET Ids(graph), Sufficient(S)
      PROVE  live' \subseteq S
  <2>1. live \subseteq S
    BY <1>3, <1>6
  <2>2. more \subseteq S
    BY <1>1, <1>6, <2>1 DEF Sufficient
  <2> HIDE DEF k, more
  <2> QED  BY <1>1, <2>1, <2>2
<1>7. /\ live' \subseteq Ids(graph) /\ ToSet(queue') \subseteq live'
      /\ Producers(graph, graph.outputs) \cup EffectIds \subseteq live'
  <2> HIDE DEF k, more
  <2> QED  BY <1>1, <1>3
<1> HIDE DEF k, more
<1> QED  BY <1>1, <1>2, <1>4, <1>5, <1>6, <1>7 DEF SearchInv

\* Nothing but the search changes what it found.
LEMMA SearchKept ==
  SearchInv /\ UNCHANGED <<graph, live, queue>> /\ (pc' # "sweeping" => queue = <<>>) => SearchInv'
BY DEF SearchInv, EffectIds, Sufficient

\* What the search of _collect_live_nodes keeps true: whatever is live and not queued
\* has its producers live, and nothing is live that could be left out.
THEOREM SearchInvariant == Spec => []SearchInv
<1>1. SearchInv /\ [Next]_vars => SearchInv'
  <2> SUFFICES ASSUME SearchInv, [Next]_vars
               PROVE  SearchInv'
    OBVIOUS
  <2>1. CASE Sweep
    BY <2>1, SearchStep
  <2>2. CASE Build
    BY <2>2, SearchKept DEF Build
  <2>3. CASE MergeNext
    <3>1. UNCHANGED <<graph, live, queue>> /\ pc # "sweeping" /\ pc' # "sweeping"
      BY <2>3 DEF MergeNext, Sort, Merge, Keep, Return
    <3>2. queue = <<>>
      BY <3>1 DEF SearchInv
    <3> QED  BY <3>1, <3>2, SearchKept
  <2>4. CASE UNCHANGED vars
    <3>1. UNCHANGED <<graph, live, queue>> /\ pc' = pc
      BY <2>4 DEF vars
    <3> QED  BY <3>1, SearchKept DEF SearchInv
  <2> QED  BY <2>1, <2>2, <2>3, <2>4 DEF Next, SweepNext
<1> QED  BY <1>1, SearchInit, PTL DEF Spec

-----------------------------------------------------------------------------
(* The graph of the live nodes                                             *)

\* A node of the table is the node that its id leads to.
LEMMA NodeAtPosition ==
  ASSUME NEW g, IsGraph(g), NEW i \in DOMAIN g.items
  PROVE  IdOf[g.items[i]] \in Ids(g) /\ NodeAt(g, IdOf[g.items[i]]) = g.items[i]
<1> DEFINE k == IdOf[g.items[i]]
<1>1. k \in Ids(g)
  BY DEF Ids, Keys
<1>2. PositionOf(g.items, k) \in DOMAIN g.items /\ IdOf[g.items[PositionOf(g.items, k)]] = k
  BY DEF PositionOf
<1>3. PositionOf(g.items, k) = i
  BY <1>2 DEF IsGraph
<1> QED  BY <1>1, <1>3 DEF NodeAt

\* Its nodes are the live ones, each of them once and in the order they had.
LEMMA PrunedItems ==
  ASSUME SearchInv
  PROVE  /\ Pruned.items \in Seq(Node) /\ Ids(Pruned) = live
         /\ \E at : /\ Picks(Pruned.items, graph.items, {i \in DOMAIN graph.items : IdOf[graph.items[i]] \in live}, at)
                   /\ \A k, l \in DOMAIN Pruned.items : k # l => at[k] # at[l]
<1> DEFINE P == {i \in DOMAIN graph.items : IdOf[graph.items[i]] \in live}
           items == Selected(graph.items, P)
<1>1. graph.items \in Seq(Node) /\ live \subseteq Ids(graph)
  BY DEF SearchInv, IsGraph
<1>2. items \in Seq(Node) /\ \E at : Picks(items, graph.items, P, at)
  <2> HIDE DEF P
  <2> QED  BY <1>1, SelectedFacts
<1>3. Pruned.items = items
  BY DEF Pruned
<1> HIDE DEF items
<1>4. PICK at : Picks(items, graph.items, P, at)
  BY <1>2
<1>5. \A k \in DOMAIN items : items[k] = graph.items[at[k]] /\ at[k] \in P
  BY <1>4 DEF Picks
<1>6. Keys(items) \subseteq live
  BY <1>5 DEF Keys
<1>7. ASSUME NEW j \in live
      PROVE  j \in Keys(items)
  <2>1. PICK i \in DOMAIN graph.items : IdOf[graph.items[i]] = j
    BY <1>1 DEF Ids, Keys
  <2>2. i \in DOMAIN graph.items \cap P
    BY <2>1
  <2>3. PICK k \in DOMAIN items : at[k] = i
    BY <1>4, <2>2 DEF Picks
  <2>4. IdOf[items[k]] = j
    BY <1>5, <2>1, <2>3
  <2> QED  BY <2>4 DEF Keys
<1>8. ASSUME NEW k \in DOMAIN items, NEW l \in DOMAIN items, k # l
      PROVE  at[k] # at[l]
  <2>1. DOMAIN items = 1..Len(items) /\ DOMAIN graph.items = 1..Len(graph.items)
    BY <1>1, <1>2
  <2>2. k \in Int /\ l \in Int /\ at[k] \in Int /\ at[l] \in Int
    BY <1>5, <2>1
  <2>3. k < l \/ l < k
    BY <1>8, <2>2
  <2>4. at[k] < at[l] \/ at[l] < at[k]
    BY <1>4, <2>3 DEF Picks
  <2> QED  BY <2>2, <2>4
<1> QED  BY <1>2, <1>3, <1>4, <1>6, <1>7, <1>8 DEF Ids

\* It is a graph, in which ids lead to the nodes they led to.
LEMMA PrunedGraph ==
  ASSUME SearchInv
  PROVE  /\ IsGraph(Pruned) /\ Ids(Pruned) = live
         /\ \A k \in live : NodeAt(Pruned, k) = NodeAt(graph, k) /\ Pruned.inputs[k] = graph.inputs[k]
<1>1. /\ IsGraph(graph) /\ graph.items \in Seq(Node) /\ graph.outputs \in Seq(Name)
      /\ live \subseteq Ids(graph)
  BY DEF SearchInv, IsGraph
<1>2. PICK at : /\ Picks(Pruned.items, graph.items, {i \in DOMAIN graph.items : IdOf[graph.items[i]] \in live}, at)
                /\ \A k, l \in DOMAIN Pruned.items : k # l => at[k] # at[l]
  BY PrunedItems
<1>3. \A i \in DOMAIN Pruned.items : Pruned.items[i] = graph.items[at[i]] /\ at[i] \in DOMAIN graph.items
  BY <1>2 DEF Picks
<1>4. \A i, j \in DOMAIN Pruned.items : IdOf[Pruned.items[i]] = IdOf[Pruned.items[j]] => i = j
  BY <1>1, <1>2, <1>3 DEF IsGraph
<1>5. Pruned.inputs = [k \in live |-> graph.inputs[k]]
  BY DEF Pruned
<1>6. Pruned.outputs \in Seq(Name)
  BY <1>1, SelectedFacts DEF Pruned
<1>7. Pruned.items \in Seq(Node) /\ Ids(Pruned) = live
  BY PrunedItems
<1>8. \A k \in live : graph.inputs[k] \in Seq(Name)
  BY <1>1 DEF IsGraph
<1>9. IsGraph(Pruned)
  BY <1>4, <1>5, <1>6, <1>7, <1>8 DEF IsGraph
<1>10. ASSUME NEW k \in live
       PROVE  NodeAt(Pruned, k) = NodeAt(graph, k)
  <2>1. PICK i \in DOMAIN Pruned.items : IdOf[Pruned.items[i]] = k
    BY <1>7 DEF Ids, Keys
  <2>2. NodeAt(Pruned, k) = Pruned.items[i]
    BY <1>9, <2>1, NodeAtPosition
  <2>3. NodeAt(graph, k) = graph.items[at[i]]
    BY <1>1, <1>3, <2>1, NodeAtPosition
  <2> QED  BY <1>3, <2>2, <2>3
<1> QED  BY <1>5, <1>7, <1>9, <1>10

\* A name that led to a live node, or to none, leads to what it led to.
LEMMA PrunedNames ==
  ASSUME SearchInv, NEW nm \in Name, ProducerOf(graph, nm) \subseteq live
  PROVE  Resolve(Pruned, nm) = Resolve(graph, nm)
<1>1. /\ IsGraph(graph) /\ graph.items \in Seq(Node) /\ Outputs \in [Node -> Seq(Name)]
      /\ IsGraph(Pruned) /\ Pruned.items \in Seq(Node)
      /\ Ids(Pruned) = live /\ live \subseteq Ids(graph)
      /\ \A k \in live : NodeAt(Pruned, k) = NodeAt(graph, k)
  BY PrunedGraph, OutputsAssumption DEF SearchInv, IsGraph
<1>2. PICK at : /\ Picks(Pruned.items, graph.items, {i \in DOMAIN graph.items : IdOf[graph.items[i]] \in live}, at)
                /\ \A k, l \in DOMAIN Pruned.items : k # l => at[k] # at[l]
  BY PrunedItems
<1>3. \A i \in DOMAIN Pruned.items : Pruned.items[i] = graph.items[at[i]] /\ at[i] \in DOMAIN graph.items
  BY <1>2 DEF Picks
<1>4. CASE nm \in Ids(graph)
  <2>1. Resolve(graph, nm) = <<NodeAt(graph, nm), 0>>
    BY <1>4 DEF Resolve
  <2>2. IdOf[NodeAt(graph, nm)] = nm
    BY <1>1, <1>4, NodeAtFacts
  <2>3. nm \in live
    <3>1. Resolve(graph, nm) # None
      BY <1>1, <1>4, <2>1, NodeAtFacts, NoneAssumption
    <3> QED  BY <2>1, <2>2, <3>1 DEF ProducerOf
  <2>4. Resolve(Pruned, nm) = <<NodeAt(Pruned, nm), 0>>
    BY <1>1, <2>3 DEF Resolve
  <2> QED  BY <1>1, <2>1, <2>3, <2>4
<1>5. CASE nm \notin Ids(graph)
  <2> DEFINE before == OutputMapOf(graph.items, Outputs)
             after == OutputMapOf(Pruned.items, Outputs)
  <2>1. /\ Resolve(graph, nm) = ResolvePort(before, graph.items, nm)
        /\ Resolve(Pruned, nm) = ResolvePort(after, Pruned.items, nm)
    BY <1>1, <1>5 DEF Resolve, PortOf
  <2>2. ASSUME NEW i \in Int, NEW j \in Int, LastListing(graph.items, Outputs, nm, i, j),
               before[nm] = <<graph.items[i], j - 1>>
        PROVE  after[nm] = before[nm] /\ before[nm] # None
    <3>1. graph.items[i] \in Node /\ before[nm] # None
      BY <1>1, <2>2, NoneAssumption DEF LastListing
    <3>2. Resolve(graph, nm) = <<graph.items[i], j - 1>>
      <4> HIDE DEF before
      <4> QED  BY <2>1, <2>2, <3>1 DEF ResolvePort
    <3>3. IdOf[graph.items[i]] \in live
      BY <2>2, <3>1, <3>2 DEF ProducerOf
    <3>4. PICK p \in DOMAIN Pruned.items : at[p] = i
      BY <1>2, <2>2, <3>3 DEF Picks, LastListing
    <3>5. LastListing(Pruned.items, Outputs, nm, p, j)
      <4>1. DOMAIN Pruned.items = 1..Len(Pruned.items) /\ p \in Int
        BY <1>1
      <4>2. ASSUME NEW q \in DOMAIN Pruned.items, NEW l \in DOMAIN Outputs[Pruned.items[q]],
                   Outputs[Pruned.items[q]][l] = nm
            PROVE  q < p \/ (q = p /\ l <= j)
        <5>1. at[q] < i \/ (at[q] = i /\ l <= j)
          BY <1>3, <2>2, <4>2 DEF LastListing
        <5>2. q \in Int /\ at[q] \in Int
          <6>1. DOMAIN graph.items = 1..Len(graph.items)
            BY <1>1
          <6> QED  BY <1>3, <4>1, <6>1
        <5>3. CASE q = p
          BY <2>2, <3>4, <5>1, <5>3
        <5>4. CASE q # p
          <6>1. ~(p < q)
            BY <1>2, <2>2, <3>4, <5>1, <5>2 DEF Picks
          <6> QED  BY <4>1, <5>2, <5>4, <6>1
        <5> QED  BY <5>3, <5>4
      <4>3. j \in DOMAIN Outputs[Pruned.items[p]] /\ Outputs[Pruned.items[p]][j] = nm
        BY <1>3, <2>2, <3>4 DEF LastListing
      <4> QED  BY <4>2, <4>3 DEF LastListing
    <3>6. PICK p2 \in Int, j2 \in Int : LastListing(Pruned.items, Outputs, nm, p2, j2)
                                       /\ after[nm] = <<Pruned.items[p2], j2 - 1>>
      <4>1. ~Unlisted(Pruned.items, Outputs, nm)
        BY <3>5 DEF LastListing, Unlisted
      <4> QED  BY <1>1, <4>1, OutputMapFacts
    <3>7. p2 = p /\ j2 = j
      <4>1. (p2 < p \/ (p2 = p /\ j2 <= j)) /\ (p < p2 \/ (p = p2 /\ j <= j2))
        BY <3>5, <3>6 DEF LastListing
      <4>2. p \in Int
        BY <1>1
      <4> QED  BY <4>1, <4>2
    <3> QED  BY <1>3, <2>2, <3>1, <3>4, <3>6, <3>7
  <2>3. ASSUME Unlisted(graph.items, Outputs, nm), before[nm] = None
        PROVE  after[nm] = None /\ ResolvePort(after, Pruned.items, nm) = ResolvePort(before, graph.items, nm)
    <3>1. Unlisted(Pruned.items, Outputs, nm)
      <4>1. ASSUME NEW i \in DOMAIN Pruned.items, NEW l \in DOMAIN Outputs[Pruned.items[i]]
            PROVE  Outputs[Pruned.items[i]][l] # nm
        <5>1. Pruned.items[i] = graph.items[at[i]] /\ at[i] \in DOMAIN graph.items
          BY <1>3
        <5>2. \A m \in DOMAIN Outputs[graph.items[at[i]]] : Outputs[graph.items[at[i]]][m] # nm
          BY <2>3, <5>1 DEF Unlisted
        <5> QED  BY <5>1, <5>2
      <4> QED  BY <4>1 DEF Unlisted
    <3>2. after[nm] = None
      <4>1. \A i, j \in Int : ~LastListing(Pruned.items, Outputs, nm, i, j)
        BY <3>1 DEF LastListing, Unlisted
      <4> QED  BY <1>1, <4>1, OutputMapFacts
    <3> HIDE DEF before, after
    <3>3. CASE nm \in DOMAIN Token /\ Token[nm].id \in Ids(graph)
      <4> DEFINE k == Token[nm].id
      <4>1. ResolvePort(before, graph.items, nm) = <<NodeAt(graph, k), Token[nm].idx>>
        BY <2>3, <3>3 DEF ResolvePort, NodeAt, Ids
      <4>2. NodeAt(graph, k) \in Node /\ IdOf[NodeAt(graph, k)] = k
        BY <1>1, <3>3, NodeAtFacts
      <4>3. Resolve(graph, nm) # None
        BY <2>1, <3>3, <4>1, <4>2, NoneAssumption, TokenAssumption
      <4>4. k \in live
        BY <2>1, <4>1, <4>2, <4>3 DEF ProducerOf
      <4>5. ResolvePort(after, Pruned.items, nm) = <<NodeAt(Pruned, k), Token[nm].idx>>
        BY <1>1, <3>2, <3>3, <4>4 DEF ResolvePort, NodeAt, Ids
      <4> QED  BY <1>1, <3>2, <4>1, <4>4, <4>5
    <3>4. CASE ~(nm \in DOMAIN Token /\ Token[nm].id \in Ids(graph))
      <4>1. ~(nm \in DOMAIN Token /\ Token[nm].id \in Ids(Pruned))
        BY <1>1, <3>4
      <4> QED  BY <2>3, <3>2, <3>4, <4>1 DEF ResolvePort, Ids
    <3> QED  BY <3>3, <3>4
  <2> HIDE DEF before, after
  <2>4. CASE Unlisted(graph.items, Outputs, nm) /\ before[nm] = None
    BY <2>1, <2>3, <2>4
  <2>5. CASE \E i, j \in Int : LastListing(graph.items, Outputs, nm, i, j) /\ before[nm] = <<graph.items[i], j - 1>>
    <3>1. after[nm] = before[nm] /\ before[nm] # None
      BY <2>2, <2>5
    <3> QED  BY <2>1, <3>1 DEF ResolvePort
  <2> QED  BY <1>1, <2>4, <2>5, OutputMapFacts DEF before
<1> QED  BY <1>4, <1>5

-----------------------------------------------------------------------------
(* What eliminate_dead_nodes promises                                      *)

\* Until it is done, the result is the graph itself, then that of the live nodes.
SweptInv ==
  /\ pc \in {"sweeping", "swept", "merging", "merged"} /\ graph \in Graph
  /\ pc = "sweeping" => result = graph
  /\ pc \in {"swept", "merging"} => result = Pruned

LEMMA SweptInvariant == Spec => []SweptInv
<1>1. Init => SweptInv
  BY DEF Init, SweepInit, SweptInv
<1>2. SweptInv /\ [Next]_vars => SweptInv'
  <2> SUFFICES ASSUME SweptInv, [Next]_vars
               PROVE  SweptInv'
    OBVIOUS
  <2>1. ASSUME UNCHANGED <<graph, live>>
        PROVE  Pruned' = Pruned
    BY <2>1 DEF Pruned, IsLive, PortOf
  <2>2. CASE Sweep
    BY <2>2 DEF Sweep, SweptInv
  <2>3. CASE Build
    BY <2>1, <2>3 DEF Build, SweptInv
  <2>4. CASE MergeNext
    BY <2>1, <2>4 DEF MergeNext, Sort, Merge, Keep, Return, SweptInv
  <2>5. CASE UNCHANGED vars
    BY <2>1, <2>5 DEF vars, SweptInv
  <2> QED  BY <2>2, <2>3, <2>4, <2>5 DEF Next, SweepNext
<1> QED  BY <1>1, <1>2, PTL DEF Spec

\* When the search is over, what is live needs nothing that is not.
LEMMA LiveIsSufficient ==
  ASSUME SearchInv, pc # "sweeping"
  PROVE  Sufficient(live)
<1>1. ToSet(queue) = {}
  BY DEF SearchInv, ToSet
<1> QED  BY <1>1 DEF SearchInv, Sufficient, EffectIds

\* eliminate_dead_nodes keeps a node exactly if an output or an effect needs it.
THEOREM KeepsExactlyWhatIsNeededHolds == Spec => []KeepsExactlyWhatIsNeeded
<1>1. SearchInv /\ SweptInv => KeepsExactlyWhatIsNeeded
  <2> SUFFICES ASSUME SearchInv, SweptInv, pc = "swept"
               PROVE  /\ Ids(result) = live /\ Sufficient(live)
                      /\ \A S \in SUBSET live : Sufficient(S) => S = live
    BY DEF KeepsExactlyWhatIsNeeded
  <2>1. result = Pruned
    BY DEF SweptInv
  <2>2. Ids(result) = live
    BY <2>1, PrunedGraph
  <2>3. \A S \in SUBSET live : Sufficient(S) => S = live
    BY DEF SearchInv
  <2> QED  BY <2>2, <2>3, LiveIsSufficient
<1> QED  BY <1>1, SearchInvariant, SweptInvariant, PTL

\* The names that the graph of the live nodes reads and returns lead to live nodes.
LEMMA PrunedReads ==
  ASSUME SearchInv, pc # "sweeping",
         NEW nm \in ToSet(Pruned.outputs) \cup UNION {ToSet(Pruned.inputs[k]) : k \in live}
  PROVE  nm \in Name /\ ProducerOf(graph, nm) \subseteq live /\ nm \in Reads(graph)
<1>1. Sufficient(live) /\ IsGraph(graph) /\ live \subseteq Ids(graph)
  BY LiveIsSufficient DEF SearchInv
<1>2. ASSUME NEW names \in Seq(Name), nm \in ToSet(names), Producers(graph, names) \subseteq live
      PROVE  nm \in Name /\ ProducerOf(graph, nm) \subseteq live
  <2>1. nm \in Name
    BY <1>2 DEF ToSet
  <2>2. ProducerOf(graph, nm) \subseteq Producers(graph, names)
    BY <1>2 DEF ProducerOf, Producers
  <2> QED  BY <1>2, <2>1, <2>2
<1>3. CASE nm \in ToSet(Pruned.outputs)
  <2> DEFINE P == {i \in DOMAIN graph.outputs : IsLive(graph.outputs[i])}
  <2>1. graph.outputs \in Seq(Name)
    BY <1>1 DEF IsGraph
  <2>2. PICK at : Picks(Pruned.outputs, graph.outputs, P, at)
    <3>1. Pruned.outputs = Selected(graph.outputs, P)
      BY DEF Pruned
    <3> HIDE DEF P
    <3> QED  BY <2>1, <3>1, SelectedFacts
  <2>3. nm \in ToSet(graph.outputs)
    BY <1>3, <2>2 DEF ToSet, Picks
  <2> QED  BY <1>1, <1>2, <2>1, <2>3 DEF Sufficient, Reads
<1>4. CASE \E k \in live : nm \in ToSet(Pruned.inputs[k])
  <2>1. PICK k \in live : nm \in ToSet(graph.inputs[k])
    BY <1>4 DEF Pruned
  <2>2. graph.inputs[k] \in Seq(Name) /\ Producers(graph, graph.inputs[k]) \subseteq live
    BY <1>1 DEF IsGraph, Sufficient
  <2>3. nm \in Reads(graph)
    BY <1>1, <2>1 DEF Reads
  <2> QED  BY <1>2, <2>1, <2>2, <2>3
<1> QED  BY <1>3, <1>4

\* Every name that is left leads to the port it led to, through ids, output names
\* and tokens, even where nodes that are gone listed the same name.
THEOREM NamesResolveAlikeHolds == Spec => []NamesResolveAlike
<1>1. SearchInv /\ SweptInv => NamesResolveAlike
  <2> SUFFICES ASSUME SearchInv, SweptInv, pc = "swept",
                      NEW nm \in ToSet(result.outputs) \cup UNION {ToSet(result.inputs[k]) : k \in live}
               PROVE  Resolve(result, nm) = Resolve(graph, nm)
    BY DEF NamesResolveAlike
  <2>1. result = Pruned
    BY DEF SweptInv
  <2> QED  BY <2>1, PrunedReads, PrunedNames
<1> QED  BY <1>1, SearchInvariant, SweptInvariant, PTL

-----------------------------------------------------------------------------
(* Merging                                                                 *)

\* Names that lead to n: its id, its outputs, and tokens for any port of it.
NamesOf(n) == {IdOf[n]} \cup ToSet(Outputs[n]) \cup {t \in DOMAIN Token : Token[t].id = IdOf[n]}

Distinct(s) == \A i, j \in DOMAIN s : s[i] = s[j] => i = j

\* The survivors are a graph; those still to be looked at are others; and what
\* is read instead of a node that is gone is a survivor.
MergeInv ==
  /\ todo \in Seq(live) /\ Distinct(todo)
  /\ ToSet(todo) \cap Keys(merged.items) = {}
  /\ merged.items \in Seq(Node) /\ Keys(merged.items) \subseteq live
  /\ \A i, j \in DOMAIN merged.items : IdOf[merged.items[i]] = IdOf[merged.items[j]] => i = j
  /\ DOMAIN merged.inputs = Keys(merged.items)
  /\ \A k \in DOMAIN merged.inputs : merged.inputs[k] \in Seq(Name)
  /\ DOMAIN alias \subseteq Name
  /\ \A nm \in DOMAIN alias : \E n \in ToSet(merged.items) : alias[nm] \in NamesOf(n)
  /\ pc \in {"sweeping", "swept"} => todo = <<>> /\ merged.items = <<>>
  /\ pc = "merged" => IsGraph(result)

LEMMA NamesOfType ==
  ASSUME NEW n \in Node
  PROVE  NamesOf(n) \subseteq Name
BY OutputsAssumption, IdOfAssumption, TokenAssumption DEF NamesOf, ToSet

\* A name of a graph is read as a name.
LEMMA RenamedType ==
  ASSUME MergeInv, NEW names \in Seq(Name)
  PROVE  RenamedAll(names) \in Seq(Name)
<1>1. ASSUME NEW nm \in Name
      PROVE  Renamed(nm) \in Name
  <2>1. CASE nm \in DOMAIN alias
    <3>1. PICK n \in ToSet(merged.items) : alias[nm] \in NamesOf(n)
      BY <2>1 DEF MergeInv
    <3>2. n \in Node
      BY DEF MergeInv, ToSet
    <3> QED  BY <2>1, <3>1, <3>2, NamesOfType DEF Renamed
  <2>2. CASE nm \notin DOMAIN alias
    BY <2>2 DEF Renamed
  <2> QED  BY <2>1, <2>2
<1>2. DOMAIN names = 1..Len(names) /\ Len(names) \in Nat /\ \A i \in 1..Len(names) : names[i] \in Name
  OBVIOUS
<1>3. RenamedAll(names) \in [1..Len(names) -> Name]
  BY <1>1, <1>2 DEF RenamedAll
<1> QED  BY <1>2, <1>3

\* The ids of a graph are finitely many.
LEMMA IdsFinite ==
  ASSUME NEW g, IsGraph(g)
  PROVE  IsFiniteSet(Ids(g)) /\ Cardinality(Ids(g)) \in Nat
<1>1. g.items \in Seq(Node)
  BY DEF IsGraph
<1> DEFINE D == 1..Len(g.items)
           f == [i \in D |-> IdOf[g.items[i]]]
<1>2. IsFiniteSet(D)
  BY <1>1, FS_Interval
<1>3. f \in Surjection(D, Ids(g))
  <2>1. DOMAIN g.items = D
    BY <1>1
  <2> QED  BY <2>1 DEF Surjection, Ids, Keys
<1>4. IsFiniteSet(Ids(g))
  <2> HIDE DEF f, D
  <2> QED  BY <1>2, <1>3, FS_Surjection
<1> QED  BY <1>4, FS_CardinalityType

\* A sorted order has every node of the graph once.
LEMMA OrdersFacts ==
  ASSUME NEW g, IsGraph(g), NEW s \in Orders(g)
  PROVE  s \in Seq(Ids(g)) /\ Distinct(s)
<1> DEFINE D == 1..Cardinality(Ids(g))
<1>1. s \in [D -> Ids(g)] /\ \A i, j \in D : i # j => s[i] # s[j]
  BY DEF Orders, SetToSeqs
<1>2. Cardinality(Ids(g)) \in Nat
  BY IdsFinite
<1> QED  BY <1>1, <1>2 DEF Distinct

\* The head of a list without repetitions is not in its tail.
LEMMA TailOfDistinct ==
  ASSUME NEW T, NEW s \in Seq(T), s # <<>>, Distinct(s)
  PROVE  /\ Tail(s) \in Seq(T) /\ Distinct(Tail(s)) /\ Head(s) \in ToSet(s)
         /\ ToSet(Tail(s)) = ToSet(s) \ {Head(s)}
<1> DEFINE q == Tail(s)
<1>1. /\ Len(s) \in Nat \ {0} /\ Len(q) = Len(s) - 1 /\ q \in Seq(T)
      /\ Head(s) = s[1] /\ \A i \in 1..Len(q) : q[i] = s[i + 1]
  OBVIOUS
<1>2. DOMAIN s = 1..Len(s) /\ DOMAIN q = 1..Len(q)
  OBVIOUS
<1> HIDE DEF q
<1>3. Distinct(q)
  <2> SUFFICES ASSUME NEW i \in 1..Len(q), NEW j \in 1..Len(q), q[i] = q[j]
               PROVE  i = j
    BY <1>2 DEF Distinct
  <2>1. i + 1 \in DOMAIN s /\ j + 1 \in DOMAIN s /\ s[i + 1] = s[j + 1]
    BY <1>1, <1>2
  <2>2. i + 1 = j + 1
    BY <2>1 DEF Distinct
  <2> QED  BY <2>2
<1>4. 1 \in DOMAIN s
  BY <1>1, <1>2
<1>5. \A i \in DOMAIN q : i + 1 \in DOMAIN s /\ i + 1 # 1 /\ q[i] = s[i + 1]
  BY <1>1, <1>2
<1>6. \A i \in DOMAIN s : i # 1 => i - 1 \in DOMAIN q /\ q[i - 1] = s[i]
  BY <1>1, <1>2
<1>7. ToSet(q) \subseteq ToSet(s) \ {Head(s)}
  BY <1>1, <1>4, <1>5 DEF ToSet, Distinct
<1>8. ToSet(s) \ {Head(s)} \subseteq ToSet(q)
  BY <1>1, <1>6 DEF ToSet
<1> QED  BY <1>1, <1>3, <1>4, <1>7, <1>8 DEF q, ToSet

\* The name of a port that some node has: a listed output, or a token for it.
LEMMA OutputNameFacts ==
  ASSUME NEW n \in Node, NEW m \in Node, NEW i \in DOMAIN Outputs[m]
  PROVE  LET nm == OutputName(n, i - 1)
         IN  /\ nm \in NamesOf(n)
             /\ \/ i \in DOMAIN Outputs[n] /\ nm = Outputs[n][i]
                \/ nm \in DOMAIN Token /\ Token[nm] = [id |-> IdOf[n], idx |-> i - 1]
<1>1. i \in Int /\ (i - 1) + 1 = i
  <2>1. Outputs[m] \in Seq(Name)
    BY OutputsAssumption
  <2>2. DOMAIN Outputs[m] = 1..Len(Outputs[m])
    BY <2>1
  <2> QED  BY <2>2
<1>2. CASE i \in DOMAIN Outputs[n]
  BY <1>1, <1>2 DEF OutputName, NamesOf, ToSet
<1>3. CASE i \notin DOMAIN Outputs[n]
  <2> DEFINE IsToken(t) == Token[t] = [id |-> IdOf[n], idx |-> i - 1]
             nm == CHOOSE t \in DOMAIN Token : IsToken(t)
  <2>1. OutputName(n, i - 1) = nm
    BY <1>1, <1>3 DEF OutputName
  <2>2. \E t \in DOMAIN Token : IsToken(t)
    BY PortTokensAssumption
  <2>3. nm \in DOMAIN Token /\ IsToken(nm)
    <3> HIDE DEF IsToken
    <3> QED  BY <2>2
  <2> HIDE DEF nm
  <2> QED  BY <2>1, <2>3 DEF NamesOf
<1> QED  BY <1>2, <1>3

\* The alias of a name of n is a name of the node that n is merged into: its id, or
\* what it calls the last port that n has the name for.
LEMMA AliasForFacts ==
  ASSUME NEW n \in Node, NEW canonical \in Node, NEW nm
  PROVE  /\ AliasFor(nm, n, canonical) \in NamesOf(canonical)
         /\ \/ PortsNamed(n, nm) = {} /\ AliasFor(nm, n, canonical) = IdOf[canonical]
            \/ \E i \in PortsNamed(n, nm) : AliasFor(nm, n, canonical) = OutputName(canonical, i - 1)
<1>1. CASE PortsNamed(n, nm) = {}
  BY <1>1 DEF AliasFor, NamesOf
<1>2. CASE PortsNamed(n, nm) # {}
  <2> DEFINE S == PortsNamed(n, nm)
             i == Max(S)
  <2>1. S \subseteq DOMAIN Outputs[n] /\ S \subseteq 1..Len(Outputs[n]) /\ Len(Outputs[n]) \in Nat
    <3>1. Outputs[n] \in Seq(Name)
      BY OutputsAssumption
    <3>2. DOMAIN Outputs[n] = 1..Len(Outputs[n]) /\ Len(Outputs[n]) \in Nat
      BY <3>1
    <3> QED  BY <3>2 DEF PortsNamed
  <2> HIDE DEF S
  <2>2. \E x \in S : \A y \in S : y <= x
    BY <1>2, <2>1, GreatestExists DEF S
  <2>3. i \in S
    <3>1. \E x \in S : \A y \in S : x >= y
      BY <2>1, <2>2
    <3> QED  BY <3>1 DEF Max
  <2> HIDE DEF i
  <2>4. AliasFor(nm, n, canonical) = OutputName(canonical, i - 1)
    BY <1>2 DEF AliasFor, S, i
  <2> QED  BY <2>1, <2>3, <2>4, OutputNameFacts DEF S
<1> QED  BY <1>1, <1>2

LEMMA MergeStarts == Init => MergeInv
BY DEF Init, SweepInit, MergeInit, MergeInv, Distinct, ToSet, Keys

\* A step that leaves the survivors and the aliases alone, or comes before them.
LEMMA SortKeeps ==
  ASSUME SearchInv, SweptInv, MergeInv, Sort
  PROVE  MergeInv'
<1>1. /\ pc = "swept" /\ pc' = "merging" /\ todo' \in Orders(result)
      /\ UNCHANGED <<graph, live, queue, result, alias, merged>>
  BY DEF Sort
<1>2. result = Pruned /\ merged.items = <<>>
  BY <1>1 DEF SweptInv, MergeInv
<1>3. IsGraph(Pruned) /\ Ids(Pruned) = live
  BY PrunedGraph
<1>4. todo' \in Seq(live) /\ Distinct(todo')
  BY <1>1, <1>2, <1>3, OrdersFacts
<1>5. Keys(merged.items) = {}
  BY <1>2 DEF Keys
<1> QED  BY <1>1, <1>4, <1>5 DEF MergeInv, Distinct

\* The head of the list is a node of the graph of the live nodes.
LEMMA HeadFacts ==
  ASSUME SearchInv, SweptInv, MergeInv, pc = "merging", todo # <<>>
  PROVE  LET k == Head(todo)
             n == NodeAt(result, k)
         IN  /\ result = Pruned /\ IsGraph(result) /\ Ids(result) = live
             /\ k \in live /\ n \in Node /\ IdOf[n] = k /\ n = NodeAt(graph, k)
             /\ result.inputs[k] = graph.inputs[k] /\ result.inputs[k] \in Seq(Name)
             /\ k \notin Keys(merged.items)
<1>1. result = Pruned /\ IsGraph(result) /\ Ids(result) = live
  BY PrunedGraph DEF SweptInv
<1>2. todo \in Seq(live) /\ Distinct(todo) /\ ToSet(todo) \cap Keys(merged.items) = {}
  BY DEF MergeInv
<1>3. Head(todo) \in ToSet(todo) /\ Head(todo) \in live
  <2>1. Head(todo) \in ToSet(todo)
    BY <1>2, TailOfDistinct
  <2> QED  BY <1>2, <2>1 DEF ToSet
<1>4. NodeAt(result, Head(todo)) \in Node /\ IdOf[NodeAt(result, Head(todo))] = Head(todo)
  BY <1>1, <1>3, NodeAtFacts
<1>5. /\ NodeAt(result, Head(todo)) = NodeAt(graph, Head(todo))
      /\ result.inputs[Head(todo)] = graph.inputs[Head(todo)]
  BY <1>1, <1>3, PrunedGraph
<1>6. result.inputs[Head(todo)] \in Seq(Name)
  BY <1>1, <1>3 DEF IsGraph
<1> QED  BY <1>1, <1>2, <1>3, <1>4, <1>5, <1>6

LEMMA MergeKeeps ==
  ASSUME SearchInv, SweptInv, MergeInv, Merge
  PROVE  MergeInv'
<1> DEFINE n == NodeAt(result, Head(todo))
<1>1. PICK canonical \in Alike(Head(todo)) :
        alias' = [nm \in DOMAIN alias \cup Spellings(n) |->
                    IF nm \in Spellings(n) THEN AliasFor(nm, n, canonical) ELSE alias[nm]]
  BY DEF Merge
<1>2. /\ pc = "merging" /\ todo # <<>> /\ todo' = Tail(todo)
      /\ UNCHANGED <<graph, live, queue, result, pc, merged>>
  BY DEF Merge
<1>3. n \in Node /\ canonical \in ToSet(merged.items) /\ canonical \in Node
  <2>1. canonical \in ToSet(merged.items)
    BY DEF Alike
  <2>2. merged.items \in Seq(Node)
    BY DEF MergeInv
  <2> QED  BY <1>2, <2>1, <2>2, HeadFacts DEF ToSet
<1>4. todo' \in Seq(live) /\ Distinct(todo') /\ ToSet(todo') \subseteq ToSet(todo)
  BY <1>2, TailOfDistinct DEF MergeInv
<1>5. Spellings(n) \subseteq Name
  BY <1>3, IdOfAssumption, OutputsAssumption DEF Spellings
<1> HIDE DEF n
<1>6. DOMAIN alias' \subseteq Name
  BY <1>1, <1>5 DEF MergeInv
<1>7. ASSUME NEW nm \in DOMAIN alias'
      PROVE  \E m \in ToSet(merged.items) : alias'[nm] \in NamesOf(m)
  <2>1. CASE nm \in Spellings(n)
    <3>1. alias'[nm] = AliasFor(nm, n, canonical)
      BY <1>1, <2>1
    <3>2. AliasFor(nm, n, canonical) \in NamesOf(canonical)
      BY <1>3, AliasForFacts
    <3> QED  BY <1>3, <3>1, <3>2
  <2>2. CASE nm \notin Spellings(n)
    <3>1. nm \in DOMAIN alias /\ alias'[nm] = alias[nm]
      BY <1>1, <2>2
    <3> QED  BY <3>1 DEF MergeInv
  <2> QED  BY <2>1, <2>2
<1> QED  BY <1>2, <1>4, <1>6, <1>7 DEF MergeInv, Distinct

\* Filing a node that is not there yet.
LEMMA AppendFacts ==
  ASSUME NEW items \in Seq(Node), NEW n \in Node, IdOf[n] \notin Keys(items),
         \A i, j \in DOMAIN items : IdOf[items[i]] = IdOf[items[j]] => i = j
  PROVE  LET more == Append(items, n)
         IN  /\ more \in Seq(Node) /\ Keys(more) = Keys(items) \cup {IdOf[n]}
             /\ ToSet(more) = ToSet(items) \cup {n}
             /\ DOMAIN more = 1..(Len(items) + 1) /\ more[Len(items) + 1] = n
             /\ \A i \in DOMAIN items : i \in DOMAIN more /\ more[i] = items[i]
             /\ \A i, j \in DOMAIN more : IdOf[more[i]] = IdOf[more[j]] => i = j
<1> DEFINE more == Append(items, n)
           l == Len(items) + 1
<1>1. /\ more \in Seq(Node) /\ Len(items) \in Nat /\ DOMAIN more = 1..l /\ DOMAIN items = 1..Len(items)
      /\ more[l] = n /\ l \in DOMAIN more
      /\ \A i \in DOMAIN items : i \in DOMAIN more /\ more[i] = items[i] /\ i # l
      /\ \A i \in DOMAIN more : i = l \/ i \in DOMAIN items
  OBVIOUS
<1> HIDE DEF more, l
<1>2. \A i \in DOMAIN items : IdOf[items[i]] # IdOf[n]
  BY DEF Keys
<1>3. \A i, j \in DOMAIN more : IdOf[more[i]] = IdOf[more[j]] => i = j
  <2> SUFFICES ASSUME NEW i \in DOMAIN more, NEW j \in DOMAIN more, IdOf[more[i]] = IdOf[more[j]]
               PROVE  i = j
    OBVIOUS
  <2>1. CASE i = l \/ j = l
    BY <1>1, <1>2, <2>1
  <2>2. CASE i # l /\ j # l
    BY <1>1, <2>2
  <2> QED  BY <2>1, <2>2
<1>4. Keys(more) = Keys(items) \cup {IdOf[n]}
  <2>1. Keys(more) \subseteq Keys(items) \cup {IdOf[n]}
    BY <1>1 DEF Keys
  <2>2. Keys(items) \subseteq Keys(more) /\ IdOf[n] \in Keys(more)
    BY <1>1 DEF Keys
  <2> QED  BY <2>1, <2>2
<1>5. ToSet(more) = ToSet(items) \cup {n}
  <2>1. ToSet(more) \subseteq ToSet(items) \cup {n}
    BY <1>1 DEF ToSet
  <2>2. ToSet(items) \subseteq ToSet(more) /\ n \in ToSet(more)
    BY <1>1 DEF ToSet
  <2> QED  BY <2>1, <2>2
<1> QED  BY <1>1, <1>3, <1>4, <1>5 DEF more, l

LEMMA KeepKeeps ==
  ASSUME SearchInv, SweptInv, MergeInv, Keep
  PROVE  MergeInv'
<1> DEFINE k == Head(todo)
           n == NodeAt(result, k)
           ins == [j \in DOMAIN merged.inputs \cup {k} |->
                     IF j = k THEN RenamedAll(result.inputs[k]) ELSE merged.inputs[j]]
<1>1. /\ pc = "merging" /\ todo # <<>> /\ todo' = Tail(todo)
      /\ merged'.items = Append(merged.items, n) /\ merged'.inputs = ins
      /\ UNCHANGED <<graph, live, queue, result, pc, alias>>
  BY DEF Keep
<1>2. /\ n \in Node /\ IdOf[n] = k /\ k \in live /\ result.inputs[k] \in Seq(Name)
      /\ k \notin Keys(merged.items)
  BY <1>1, HeadFacts
<1>3. /\ todo' \in Seq(live) /\ Distinct(todo') /\ ToSet(todo') = ToSet(todo) \ {k}
  BY <1>1, TailOfDistinct DEF MergeInv
<1>4. RenamedAll(result.inputs[k]) \in Seq(Name)
  <2> HIDE DEF k
  <2> QED  BY <1>2, RenamedType
<1> HIDE DEF n, k
<1>5. DOMAIN ins = Keys(merged.items) \cup {k} /\ \A j \in DOMAIN ins : ins[j] \in Seq(Name)
  BY <1>4 DEF MergeInv
<1> HIDE DEF ins
<1>6. /\ merged.items \in Seq(Node) /\ Keys(merged.items) \subseteq live
      /\ \A i, j \in DOMAIN merged.items : IdOf[merged.items[i]] = IdOf[merged.items[j]] => i = j
      /\ ToSet(todo) \cap Keys(merged.items) = {}
  BY DEF MergeInv
<1>7. /\ merged'.items \in Seq(Node) /\ Keys(merged'.items) = Keys(merged.items) \cup {k}
      /\ ToSet(merged'.items) = ToSet(merged.items) \cup {n}
      /\ \A i, j \in DOMAIN merged'.items : IdOf[merged'.items[i]] = IdOf[merged'.items[j]] => i = j
  <2> DEFINE more == Append(merged.items, n)
  <2>1. /\ more \in Seq(Node) /\ Keys(more) = Keys(merged.items) \cup {k}
        /\ ToSet(more) = ToSet(merged.items) \cup {n}
        /\ \A i, j \in DOMAIN more : IdOf[more[i]] = IdOf[more[j]] => i = j
    <3>1. IdOf[n] \notin Keys(merged.items)
      BY <1>2
    <3> QED  BY <1>2, <1>6, <3>1, AppendFacts
  <2> HIDE DEF more
  <2> QED  BY <1>1, <2>1 DEF more
<1>8. DOMAIN alias \subseteq Name /\ \A nm \in DOMAIN alias : \E m \in ToSet(merged'.items) : alias[nm] \in NamesOf(m)
  BY <1>7 DEF MergeInv
<1>9. ToSet(todo') \cap Keys(merged'.items) = {} /\ Keys(merged'.items) \subseteq live
  BY <1>2, <1>3, <1>6, <1>7
<1>10. DOMAIN merged'.inputs = Keys(merged'.items) /\ \A j \in DOMAIN merged'.inputs : merged'.inputs[j] \in Seq(Name)
  BY <1>1, <1>5, <1>7
<1> QED  BY <1>1, <1>3, <1>7, <1>8, <1>9, <1>10 DEF MergeInv, Distinct

LEMMA ReturnKeeps ==
  ASSUME SearchInv, SweptInv, MergeInv, Return
  PROVE  MergeInv'
<1>1. /\ pc = "merging" /\ pc' = "merged" /\ UNCHANGED <<graph, live, queue, todo, alias, merged>>
      /\ result' = [items |-> merged.items, inputs |-> merged.inputs, outputs |-> RenamedAll(result.outputs)]
  BY DEF Return
<1>2. result.outputs \in Seq(Name)
  BY <1>1, PrunedGraph DEF SweptInv, IsGraph
<1>3. IsGraph(result')
  BY <1>1, <1>2, RenamedType DEF IsGraph, MergeInv, Ids
<1> QED  BY <1>1, <1>3 DEF MergeInv, IsGraph, Distinct

\* What the loop of eliminate_common_subexpressions keeps true: no node is looked at
\* twice, survivors are nodes that were kept, and an alias is a survivor's name.
THEOREM MergeInvariant == Spec => []MergeInv
<1>1. SearchInv /\ SweptInv /\ MergeInv /\ [Next]_vars => MergeInv'
  <2> SUFFICES ASSUME SearchInv, SweptInv, MergeInv, [Next]_vars
               PROVE  MergeInv'
    OBVIOUS
  <2>1. ASSUME UNCHANGED mergeVars, pc' # "merged", pc' \in {"sweeping", "swept"} => pc \in {"sweeping", "swept"},
               live \subseteq live'
        PROVE  MergeInv'
    <3>1. todo' \in Seq(live')
      <4>1. todo \in Seq(live) /\ todo' = todo
        BY <2>1 DEF MergeInv, mergeVars
      <4>2. DOMAIN todo = 1..Len(todo) /\ Len(todo) \in Nat /\ todo \in [1..Len(todo) -> live]
        BY <4>1
      <4>3. todo \in [1..Len(todo) -> live']
        BY <2>1, <4>2
      <4> QED  BY <4>1, <4>2, <4>3
    <3>2. todo' = todo /\ alias' = alias /\ merged' = merged
      BY <2>1 DEF mergeVars
    <3>3. Keys(merged.items) \subseteq live'
      BY <2>1 DEF MergeInv
    <3> QED  BY <2>1, <3>1, <3>2, <3>3 DEF MergeInv, Distinct
  <2>2. CASE Sweep /\ UNCHANGED mergeVars
    <3>1. live \subseteq live'
      BY <2>2, SweepFacts
    <3> QED  BY <2>1, <2>2, <3>1 DEF Sweep
  <2>3. CASE Build /\ UNCHANGED mergeVars
    BY <2>1, <2>3 DEF Build
  <2>4. CASE MergeNext
    BY <2>4, SortKeeps, MergeKeeps, KeepKeeps, ReturnKeeps DEF MergeNext
  <2>5. CASE UNCHANGED vars
    BY <2>5 DEF vars, MergeInv, Distinct, IsGraph
  <2> QED  BY <2>2, <2>3, <2>4, <2>5 DEF Next, SweepNext
<1> QED  BY <1>1, MergeStarts, SearchInvariant, SweptInvariant, PTL DEF Spec

\* Types: of what the passes return, and of what they work on.
THEOREM TypeCorrect == Spec => []TypeOK
<1>1. SearchInv /\ SweptInv /\ MergeInv => TypeOK
  <2> SUFFICES ASSUME SearchInv, SweptInv, MergeInv
               PROVE  TypeOK
    OBVIOUS
  <2>1. IsGraph(result)
    <3>1. CASE pc = "sweeping"
      BY <3>1 DEF SweptInv, SearchInv
    <3>2. CASE pc \in {"swept", "merging"}
      BY <3>2, PrunedGraph DEF SweptInv
    <3>3. CASE pc = "merged"
      BY <3>3 DEF MergeInv
    <3> QED  BY <3>1, <3>2, <3>3 DEF SweptInv
  <2>2. pc = "merging" => ToSet(todo) \subseteq Ids(result)
    <3>1. pc = "merging" => Ids(result) = live
      BY PrunedGraph DEF SweptInv
    <3>2. ToSet(todo) \subseteq live
      BY DEF MergeInv, ToSet
    <3> QED  BY <3>1, <3>2
  <2>3. /\ graph \in Graph /\ pc \in {"sweeping", "swept", "merging", "merged"}
        /\ live \subseteq Ids(graph) /\ ToSet(queue) \subseteq live
        /\ ToSet(todo) \cap Keys(merged.items) = {} /\ Keys(merged.items) \subseteq live
    BY DEF SweptInv, SearchInv, MergeInv
  <2>4. \A nm \in DOMAIN alias : \E n \in ToSet(merged.items) :
          alias[nm] \in {IdOf[n]} \cup ToSet(Outputs[n]) \cup {t \in DOMAIN Token : Token[t].id = IdOf[n]}
    BY DEF MergeInv, NamesOf
  <2> QED  BY <2>1, <2>2, <2>3, <2>4 DEF TypeOK
<1> QED  BY <1>1, SearchInvariant, SweptInvariant, MergeInvariant, PTL

-----------------------------------------------------------------------------
(* Values                                                                  *)

\* The values at each depth.
Deepens(f, g) ==
  /\ Values(g) = f[Len(g.items)]
  /\ \A nm \in Name : f[0][nm] = External(nm)
  /\ \A d \in 1..Len(g.items) : \A nm \in Name : f[d][nm] = ValueFrom(g, f[d - 1], nm)

LEMMA ValuesFold ==
  ASSUME NEW g, IsGraph(g)
  PROVE  \E f : Deepens(f, g)
<1> DEFINE n == Len(g.items)
           Layer(d, f) == [nm \in Name |-> IF d = 0 THEN External(nm) ELSE ValueFrom(g, f[d - 1], nm)]
           Upto(m, f) == f = [d \in 0..m |-> Layer(d, f)]
           S == {m \in 0..n : \E f : Upto(m, f)}
<1>1. n \in Nat
  BY DEF IsGraph
<1> HIDE DEF n
<1>2. 0 \in S
  <2> DEFINE f == [d \in 0..0 |-> [nm \in Name |-> External(nm)]]
  <2>1. Upto(0, f)
    OBVIOUS
  <2> HIDE DEF f, Upto
  <2> QED  BY <1>1, <2>1
<1>3. ASSUME NEW m \in 1..n, m - 1 \in S
      PROVE  m \in S
  <2>1. PICK f : Upto(m - 1, f)
    BY <1>3
  <2> DEFINE h == [d \in 0..m |-> IF d = m THEN Layer(m, f) ELSE f[d]]
  <2>2. ASSUME NEW d \in 0..m
        PROVE  h[d] = Layer(d, h)
    <3>1. d # 0 => h[d - 1] = f[d - 1]
      BY <1>1
    <3>2. Layer(d, h) = Layer(d, f)
      <4>1. CASE d = 0
        BY <4>1
      <4>2. CASE d # 0
        <5> HIDE DEF h
        <5> QED  BY <3>1, <4>2
      <4> QED  BY <4>1, <4>2
    <3>3. CASE d = m
      BY <3>2, <3>3
    <3>4. CASE d # m
      <4>1. d \in 0..(m - 1) /\ h[d] = f[d]
        BY <1>1, <3>4
      <4> HIDE DEF Layer
      <4> QED  BY <2>1, <3>2, <4>1
    <3> QED  BY <3>3, <3>4
  <2>3. h = [d \in 0..m |-> Layer(d, h)]
    <3> HIDE DEF Layer
    <3>1. h = [d \in 0..m |-> h[d]]
      OBVIOUS
    <3> HIDE DEF h
    <3> QED  BY <2>2, <3>1
  <2>4. Upto(m, h)
    BY <2>3
  <2> HIDE DEF h, Upto
  <2> QED  BY <1>1, <2>4
<1>4. n \in S
  <2> HIDE DEF S
  <2>1. 0..n \subseteq S
    BY <1>1, <1>2, <1>3, UpTo
  <2> QED  BY <1>1, <2>1
<1> DEFINE v == CHOOSE f : Upto(n, f)
<1>5. Upto(n, v)
  <2> HIDE DEF Upto
  <2> QED  BY <1>4
<1>6. Values(g) = v[n]
  BY DEF Values, n
<1> HIDE DEF v
<1>7. \A nm \in Name : v[0][nm] = External(nm)
  BY <1>1, <1>5
<1>8. ASSUME NEW d \in 1..n, NEW nm \in Name
      PROVE  v[d][nm] = ValueFrom(g, v[d - 1], nm)
  <2>1. d \in 0..n /\ d # 0
    BY <1>1
  <2>2. v[d] = Layer(d, v)
    <3> HIDE DEF Layer
    <3> QED  BY <1>5, <2>1
  <2> QED  BY <2>1, <2>2
<1> QED  BY <1>6, <1>7, <1>8 DEF Deepens, n

\* The node that makes nm, if one does, reads only values that u and v agree on.
Agree(g, u, v, nm) ==
  Resolve(g, nm) # None =>
    LET read == g.inputs[IdOf[Resolve(g, nm)[1]]]
    IN  \A i \in DOMAIN read : u[read[i]] = v[read[i]]

LEMMA ValueFromAgreed ==
  ASSUME NEW g, NEW u, NEW v, NEW nm, Agree(g, u, v, nm)
  PROVE  ValueFrom(g, u, nm) = ValueFrom(g, v, nm)
<1>1. CASE Resolve(g, nm) = None
  BY <1>1 DEF ValueFrom
<1>2. CASE Resolve(g, nm) # None
  <2> DEFINE read == g.inputs[IdOf[Resolve(g, nm)[1]]]
  <2>1. [i \in DOMAIN read |-> u[read[i]]] = [i \in DOMAIN read |-> v[read[i]]]
    <3>1. \A i \in DOMAIN read : u[read[i]] = v[read[i]]
      BY <1>2 DEF Agree
    <3> HIDE DEF read
    <3> QED  BY <3>1
  <2> QED  BY <1>2, <2>1 DEF ValueFrom
<1> QED  BY <1>1, <1>2

First(s, m) == {s[j] : j \in 1..m}

\* The nodes of s read only what nodes before them in s make, and what no node makes.
Sorted(g, s) ==
  /\ s \in Seq(Ids(g))
  /\ \A i \in DOMAIN s : Producers(g, g.inputs[s[i]]) \subseteq First(s, i - 1)

\* What the producer of nm reads is made by nodes before it.
LEMMA SortedReads ==
  ASSUME NEW g, IsGraph(g), NEW s, Sorted(g, s), NEW m \in DOMAIN s,
         NEW nm, Resolve(g, nm) # None, IdOf[Resolve(g, nm)[1]] = s[m]
  PROVE  LET read == g.inputs[IdOf[Resolve(g, nm)[1]]]
         IN  read \in Seq(Name) /\ \A i \in DOMAIN read : read[i] \in Name /\ ProducerOf(g, read[i]) \subseteq First(s, m - 1)
<1> DEFINE read == g.inputs[s[m]]
<1>1. s[m] \in Ids(g)
  BY DEF Sorted
<1>2. read \in Seq(Name)
  BY <1>1 DEF IsGraph
<1>3. Producers(g, read) \subseteq First(s, m - 1)
  BY DEF Sorted
<1> HIDE DEF read
<1>4. \A i \in DOMAIN read : read[i] \in Name /\ ProducerOf(g, read[i]) \subseteq Producers(g, read)
  BY <1>2, ProducersUnion
<1> QED  BY <1>2, <1>3, <1>4 DEF read

\* The values of names that sorted nodes make are made of the values of what these read.
LEMMA ValuesSettle ==
  ASSUME NEW g, IsGraph(g), NEW s, Sorted(g, s), Len(s) <= Len(g.items),
         NEW nm \in Name, ProducerOf(g, nm) \subseteq ToSet(s)
  PROVE  Values(g)[nm] = ValueFrom(g, Values(g), nm)
<1> DEFINE n == Len(g.items)
           l == Len(s)
<1>1. n \in Nat /\ l \in Nat /\ l <= n /\ DOMAIN s = 1..l
  BY DEF IsGraph, Sorted
<1>2. PICK f : Deepens(f, g)
  BY ValuesFold
<1>3. f[n] = Values(g)
  BY <1>2 DEF Deepens
<1> DEFINE Settled(m) == \A d \in m..n : \A x \in Name : ProducerOf(g, x) \subseteq First(s, m) => f[d][x] = f[n][x]
           S == {m \in 0..l : Settled(m)}
<1>4. ASSUME NEW x \in Name, Resolve(g, x) = None, NEW d \in 0..n
      PROVE  f[d][x] = External(x)
  <2>1. CASE d = 0
    BY <1>2, <2>1 DEF Deepens
  <2>2. CASE d # 0
    <3>1. d \in 1..n
      BY <1>1, <2>2
    <3>2. f[d][x] = ValueFrom(g, f[d - 1], x)
      BY <1>2, <3>1 DEF Deepens
    <3> QED  BY <1>4, <3>2 DEF ValueFrom
  <2> QED  BY <2>1, <2>2
<1>5. 0 \in S
  <2>1. ASSUME NEW d \in 0..n, NEW x \in Name, ProducerOf(g, x) \subseteq First(s, 0)
        PROVE  f[d][x] = f[n][x]
    <3>1. Resolve(g, x) = None
      BY <2>1 DEF ProducerOf, First
    <3>2. n \in 0..n
      BY <1>1
    <3> HIDE DEF n
    <3> QED  BY <1>4, <3>1, <3>2
  <2> QED  BY <1>1, <2>1
<1>6. ASSUME NEW m \in 1..l, Settled(m - 1),
             NEW x \in Name, Resolve(g, x) # None, IdOf[Resolve(g, x)[1]] = s[m],
             NEW d \in m..n
      PROVE  f[d - 1] = f[n] \/ Agree(g, f[d - 1], f[n], x)
  <2> DEFINE read == g.inputs[IdOf[Resolve(g, x)[1]]]
  <2>1. \A i \in DOMAIN read : read[i] \in Name /\ ProducerOf(g, read[i]) \subseteq First(s, m - 1)
    BY <1>1, <1>6, SortedReads
  <2>2. d - 1 \in (m - 1)..n
    BY <1>1
  <2>3. \A i \in DOMAIN read : f[d - 1][read[i]] = f[n][read[i]]
    <3> HIDE DEF read, n, l
    <3> QED  BY <1>6, <2>1, <2>2
  <2> QED  BY <2>3 DEF Agree
<1>7. ASSUME NEW m \in 1..l, Settled(m - 1),
             NEW x \in Name, Resolve(g, x) # None, IdOf[Resolve(g, x)[1]] = s[m],
             NEW d \in m..n
      PROVE  f[d][x] = ValueFrom(g, f[n], x)
  <2>1. f[d][x] = ValueFrom(g, f[d - 1], x)
    <3>1. d \in 1..n
      BY <1>1
    <3> QED  BY <1>2, <3>1 DEF Deepens
  <2>2. f[d - 1] = f[n] \/ Agree(g, f[d - 1], f[n], x)
    <3> HIDE DEF Settled, n, l
    <3> QED  BY <1>6, <1>7
  <2> QED  BY <2>1, <2>2, ValueFromAgreed
<1> HIDE DEF n, l
<1>8. ASSUME NEW m \in 1..l, m - 1 \in S
      PROVE  m \in S
  <2>1. Settled(m - 1)
    BY <1>8
  <2>2. ASSUME NEW d \in m..n, NEW x \in Name, ProducerOf(g, x) \subseteq First(s, m)
        PROVE  f[d][x] = f[n][x]
    <3>1. CASE ProducerOf(g, x) \subseteq First(s, m - 1)
      <4>1. d \in (m - 1)..n
        BY <1>1
      <4> QED  BY <2>1, <3>1, <4>1
    <3>2. CASE ~(ProducerOf(g, x) \subseteq First(s, m - 1))
      <4>1. Resolve(g, x) # None /\ ProducerOf(g, x) = {IdOf[Resolve(g, x)[1]]}
        BY <3>2 DEF ProducerOf
      <4>2. 1..m = 1..(m - 1) \cup {m}
        BY <1>1
      <4>3. IdOf[Resolve(g, x)[1]] = s[m]
        BY <2>2, <3>2, <4>1, <4>2 DEF First
      <4>4. n \in m..n
        BY <1>1
      <4> HIDE DEF Settled
      <4>5. f[d][x] = ValueFrom(g, f[n], x)
        BY <1>7, <2>1, <4>1, <4>3
      <4>6. f[n][x] = ValueFrom(g, f[n], x)
        BY <1>7, <2>1, <4>1, <4>3, <4>4
      <4> QED  BY <4>5, <4>6
    <3> QED  BY <3>1, <3>2
  <2>3. Settled(m) /\ m \in 0..l
    BY <1>1, <2>2
  <2> HIDE DEF Settled
  <2> QED  BY <2>3
<1>9. 0..l \subseteq S
  <2> HIDE DEF S
  <2> QED  BY <1>1, <1>5, <1>8, UpTo
<1>10. CASE Resolve(g, nm) = None
  <2>1. f[n][nm] = External(nm)
    <3>1. n \in 0..n
      BY <1>1
    <3> QED  BY <1>4, <1>10, <3>1
  <2> QED  BY <1>3, <1>10, <2>1 DEF ValueFrom
<1>11. CASE Resolve(g, nm) # None
  <2>1. PICK m \in 1..l : IdOf[Resolve(g, nm)[1]] = s[m]
    BY <1>1, <1>11 DEF ProducerOf, ToSet
  <2>2. m - 1 \in S /\ n \in m..n
    BY <1>1, <1>9
  <2>3. Settled(m - 1)
    <3> HIDE DEF Settled
    <3> QED  BY <2>2
  <2> HIDE DEF Settled
  <2> QED  BY <1>3, <1>7, <1>11, <2>1, <2>2, <2>3
<1> QED  BY <1>10, <1>11

\* Where no nodes wait for each other, a sorted order is one in which each reads
\* what is made before it.
LEMMA OrderIsSorted ==
  ASSUME SearchInv, pc # "sweeping", Acyclic, NEW s \in Orders(Pruned)
  PROVE  /\ Sorted(graph, s) /\ Distinct(s) /\ ToSet(s) = live /\ s \in Seq(live)
         /\ Len(s) <= Len(graph.items)
<1> DEFINE D == 1..Cardinality(live)
           From(i) == {s[j] : j \in i..Len(s)}
<1>1. IsGraph(Pruned) /\ Ids(Pruned) = live /\ IsGraph(graph) /\ live \subseteq Ids(graph) /\ Sufficient(live)
  BY PrunedGraph, LiveIsSufficient DEF SearchInv
<1>2. IsFiniteSet(live) /\ Cardinality(live) \in Nat
  BY <1>1, IdsFinite
<1>3. s \in Seq(live) /\ Distinct(s) /\ s \in [D -> live]
  BY <1>1, OrdersFacts DEF Orders, SetToSeqs
<1>4. DOMAIN s = D /\ Len(s) = Cardinality(live)
  BY <1>2, <1>3
<1>5. ToSet(s) = live
  <2>1. s \in Injection(D, live)
    BY <1>3, <1>4 DEF Injection, Distinct, IsInjective
  <2>2. Cardinality(D) = Cardinality(live)
    BY <1>2, FS_Interval
  <2>3. s \in Surjection(D, live)
    <3> HIDE DEF D
    <3> QED  BY <1>2, <2>1, <2>2, FS_Injection
  <2>4. \A k \in live : \E i \in D : s[i] = k
    BY <2>3 DEF Surjection
  <2> HIDE DEF D
  <2> QED  BY <1>3, <1>4, <2>4 DEF ToSet
<1>6. Len(s) <= Len(graph.items)
  <2> DEFINE E == 1..Len(graph.items)
             f == [i \in E |-> IdOf[graph.items[i]]]
  <2>1. graph.items \in Seq(Node) /\ Len(graph.items) \in Nat /\ DOMAIN graph.items = E
    BY <1>1 DEF IsGraph
  <2>2. IsFiniteSet(E) /\ Cardinality(E) = Len(graph.items)
    BY <2>1, FS_Interval
  <2>3. f \in Surjection(E, Ids(graph))
    BY <2>1 DEF Surjection, Ids, Keys
  <2>4. Cardinality(Ids(graph)) <= Cardinality(E) /\ IsFiniteSet(Ids(graph))
    <3> HIDE DEF E, f
    <3> QED  BY <2>2, <2>3, FS_Surjection
  <2>5. Cardinality(live) <= Cardinality(Ids(graph)) /\ Cardinality(Ids(graph)) \in Nat
    BY <1>1, <2>4, FS_Subset, FS_CardinalityType
  <2> HIDE DEF E
  <2> QED  BY <1>2, <1>4, <2>1, <2>2, <2>4, <2>5
<1>7. ASSUME NEW k \in live
      PROVE  Producers(Pruned, Pruned.inputs[k]) = Producers(graph, graph.inputs[k])
  <2>1. Pruned.inputs[k] = graph.inputs[k]
    BY PrunedGraph
  <2>2. \A nm \in ToSet(graph.inputs[k]) : Resolve(Pruned, nm) = Resolve(graph, nm)
    BY <2>1, PrunedReads, PrunedNames
  <2> QED  BY <2>1, <2>2 DEF Producers
<1>8. PICK k \in 0..Len(s) : /\ \A i \in 1..k : ~WaitsIn(Pruned, s[i], From(i))
                             /\ \A j \in From(k + 1) : WaitsIn(Pruned, j, From(k + 1))
  BY DEF Orders
<1>9. \A i \in Nat \ {0} : From(i) \subseteq live
  BY <1>3, <1>4
<1>10. From(k + 1) = {}
  <2>1. From(k + 1) \in SUBSET live
    BY <1>4, <1>9
  <2> HIDE DEF From
  <2>2. \A j \in From(k + 1) : WaitsIn(graph, j, From(k + 1))
    BY <1>7, <1>8, <2>1 DEF WaitsIn
  <2> QED  BY <2>1, <2>2 DEF Acyclic
<1>11. k = Len(s)
  <2>1. \A j \in (k + 1)..Len(s) : s[j] \in From(k + 1)
    OBVIOUS
  <2> HIDE DEF From
  <2> QED  BY <1>2, <1>4, <1>10, <2>1
<1>12. ASSUME NEW i \in DOMAIN s
       PROVE  Producers(graph, graph.inputs[s[i]]) \subseteq First(s, i - 1)
  <2>1. i \in 1..k /\ s[i] \in live
    BY <1>2, <1>3, <1>4, <1>11
  <2>2. Producers(graph, graph.inputs[s[i]]) \subseteq live
    BY <1>1, <2>1 DEF Sufficient
  <2>3. Producers(graph, graph.inputs[s[i]]) \cap From(i) = {}
    <3> HIDE DEF From
    <3> QED  BY <1>7, <1>8, <2>1 DEF WaitsIn
  <2>4. \A j \in D : j \in 1..(i - 1) \/ j \in i..Len(s)
    BY <1>2, <1>4
  <2>5. live \subseteq First(s, i - 1) \cup From(i)
    <3> HIDE DEF D
    <3> QED  BY <1>4, <1>5, <2>4 DEF First, ToSet
  <2> HIDE DEF From
  <2> QED  BY <2>2, <2>3, <2>5
<1>13. s \in Seq(Ids(graph))
  BY <1>1, <1>3
<1> QED  BY <1>3, <1>5, <1>6, <1>12, <1>13 DEF Sorted

-----------------------------------------------------------------------------
(* Names that no two ports share                                           *)

\* A name that n is written for stands for that port of n.
LEMMA NamedPort ==
  ASSUME IsGraph(graph), NamesAreUnambiguous, NEW n \in ToSet(graph.items),
         NEW nm, NEW i \in PortsNamed(n, nm)
  PROVE  Resolve(graph, nm) = <<n, i - 1>>
<1>1. n \in Node /\ i \in DOMAIN Outputs[n]
  BY DEF IsGraph, ToSet, PortsNamed
<1>2. NodeAt(graph, IdOf[n]) = n /\ IdOf[n] \in Ids(graph)
  BY NodeAtPosition DEF ToSet
<1>3. CASE Outputs[n][i] = nm
  BY <1>1, <1>3 DEF NamesAreUnambiguous
<1>4. CASE nm \in DOMAIN Token /\ Token[nm] = [id |-> IdOf[n], idx |-> i - 1]
  BY <1>2, <1>4 DEF NamesAreUnambiguous
<1> QED  BY <1>3, <1>4 DEF PortsNamed

\* Every name that leads to a node by what it says does lead there.
LEMMA NamesLead ==
  ASSUME IsGraph(graph), NamesAreUnambiguous, NEW n \in ToSet(graph.items),
         NEW nm \in NamesOf(n) \cup Spellings(n)
  PROVE  Resolve(graph, nm) # None /\ Resolve(graph, nm)[1] = n /\ ProducerOf(graph, nm) = {IdOf[n]}
<1>1. n \in Node /\ NodeAt(graph, IdOf[n]) = n /\ IdOf[n] \in Ids(graph)
  BY NodeAtPosition DEF IsGraph, ToSet
<1> SUFFICES \E j \in Int : Resolve(graph, nm) = <<n, j>>
  BY <1>1, NoneAssumption DEF ProducerOf
<1>2. CASE nm = IdOf[n]
  BY <1>1, <1>2 DEF Resolve
<1>3. ASSUME NEW i \in DOMAIN Outputs[n]
      PROVE  i - 1 \in Int
  <2>1. Outputs[n] \in Seq(Name)
    BY <1>1, OutputsAssumption
  <2>2. DOMAIN Outputs[n] = 1..Len(Outputs[n])
    BY <2>1
  <2> QED  BY <2>2
<1>4. CASE \E i \in DOMAIN Outputs[n] : nm = Outputs[n][i]
  BY <1>3, <1>4 DEF NamesAreUnambiguous
<1>5. CASE nm \in DOMAIN Token /\ Token[nm].id = IdOf[n]
  BY <1>1, <1>5, TokenAssumption DEF NamesAreUnambiguous
<1>6. CASE PortsNamed(n, nm) # {}
  <2>1. PICK i \in PortsNamed(n, nm) : TRUE
    BY <1>6
  <2>2. i \in DOMAIN Outputs[n]
    BY DEF PortsNamed
  <2> QED  BY <1>3, <2>1, <2>2, NamedPort
<1> QED  BY <1>2, <1>4, <1>5, <1>6 DEF NamesOf, Spellings, ToSet

\* The name of a port stands for the port.
LEMMA OutputNameLeads ==
  ASSUME IsGraph(graph), NamesAreUnambiguous, NEW n \in ToSet(graph.items),
         NEW m \in Node, NEW i \in DOMAIN Outputs[m]
  PROVE  Resolve(graph, OutputName(n, i - 1)) = <<n, i - 1>>
<1> DEFINE nm == OutputName(n, i - 1)
<1>1. n \in Node /\ NodeAt(graph, IdOf[n]) = n /\ IdOf[n] \in Ids(graph)
  BY NodeAtPosition DEF IsGraph, ToSet
<1>2. \/ i \in DOMAIN Outputs[n] /\ nm = Outputs[n][i]
      \/ nm \in DOMAIN Token /\ Token[nm] = [id |-> IdOf[n], idx |-> i - 1]
  BY <1>1, OutputNameFacts
<1> HIDE DEF nm
<1>3. Resolve(graph, nm) = <<n, i - 1>>
  BY <1>1, <1>2 DEF NamesAreUnambiguous
<1> QED  BY <1>3 DEF nm

\* In a graph of some of the nodes, the names of these lead where they led.
LEMMA SameNames ==
  ASSUME IsGraph(graph), NamesAreUnambiguous, NEW g, IsGraph(g), ToSet(g.items) \subseteq ToSet(graph.items),
         NEW nm \in Name, Resolve(graph, nm) # None => Resolve(graph, nm)[1] \in ToSet(g.items)
  PROVE  Resolve(g, nm) = Resolve(graph, nm)
<1>1. /\ graph.items \in Seq(Node) /\ g.items \in Seq(Node) /\ Outputs \in [Node -> Seq(Name)]
      /\ \A n \in ToSet(g.items) : n \in Node /\ NodeAt(g, IdOf[n]) = n /\ IdOf[n] \in Ids(g)
      /\ \A n \in ToSet(graph.items) : n \in Node /\ NodeAt(graph, IdOf[n]) = n /\ IdOf[n] \in Ids(graph)
  <2>1. graph.items \in Seq(Node) /\ g.items \in Seq(Node) /\ Outputs \in [Node -> Seq(Name)]
    BY OutputsAssumption DEF IsGraph
  <2>2. ASSUME NEW n \in ToSet(g.items)
        PROVE  n \in Node /\ NodeAt(g, IdOf[n]) = n /\ IdOf[n] \in Ids(g)
    BY <2>1, NodeAtPosition DEF ToSet
  <2>3. ASSUME NEW n \in ToSet(graph.items)
        PROVE  n \in Node /\ NodeAt(graph, IdOf[n]) = n /\ IdOf[n] \in Ids(graph)
    BY <2>1, NodeAtPosition DEF ToSet
  <2> QED  BY <2>1, <2>2, <2>3
<1>2. ASSUME NEW k \in Ids(g)
      PROVE  k \in Ids(graph) /\ NodeAt(graph, k) = NodeAt(g, k) /\ NodeAt(g, k) \in ToSet(g.items)
  <2>1. PICK i \in DOMAIN g.items : IdOf[g.items[i]] = k
    BY DEF Ids, Keys
  <2>2. g.items[i] \in ToSet(g.items)
    BY DEF ToSet
  <2> QED  BY <1>1, <2>1, <2>2
<1>3. ASSUME NEW i \in DOMAIN g.items, NEW j \in DOMAIN Outputs[g.items[i]], Outputs[g.items[i]][j] = nm
      PROVE  Resolve(graph, nm) = <<g.items[i], j - 1>>
  <2>1. g.items[i] \in ToSet(graph.items)
    BY DEF ToSet
  <2> QED  BY <1>3, <2>1 DEF NamesAreUnambiguous
<1>4. CASE nm \in Ids(g)
  BY <1>2, <1>4 DEF Resolve
<1>5. CASE nm \notin Ids(g)
  <2>1. nm \notin Ids(graph)
    <3>1. CASE nm \in Ids(graph)
      <4>1. Resolve(graph, nm) = <<NodeAt(graph, nm), 0>> /\ IdOf[NodeAt(graph, nm)] = nm /\ NodeAt(graph, nm) \in Node
        BY <3>1, NodeAtFacts DEF Resolve
      <4>2. NodeAt(graph, nm) \in ToSet(g.items)
        BY <4>1, NoneAssumption
      <4> QED  BY <1>1, <1>5, <4>1, <4>2
    <3> QED  BY <3>1
  <2> DEFINE before == OutputMapOf(graph.items, Outputs)
             after == OutputMapOf(g.items, Outputs)
  <2>2. /\ Resolve(graph, nm) = ResolvePort(before, graph.items, nm)
        /\ Resolve(g, nm) = ResolvePort(after, g.items, nm)
    BY <1>5, <2>1 DEF Resolve, PortOf
  <2>3. CASE Unlisted(g.items, Outputs, nm) /\ after[nm] = None
    <3>1. before[nm] = None
      <4>1. ASSUME NEW i \in Int, NEW j \in Int, LastListing(graph.items, Outputs, nm, i, j),
                   before[nm] = <<graph.items[i], j - 1>>
            PROVE  FALSE
        <5>1. Resolve(graph, nm) = <<graph.items[i], j - 1>> /\ graph.items[i] \in Node
          <6>1. graph.items[i] \in Node
            BY <1>1, <4>1 DEF LastListing
          <6> HIDE DEF before
          <6> QED  BY <2>2, <4>1, <6>1, NoneAssumption DEF ResolvePort
        <5>2. graph.items[i] \in ToSet(g.items)
          BY <5>1, NoneAssumption
        <5>3. PICK p \in DOMAIN g.items : g.items[p] = graph.items[i]
          BY <5>2 DEF ToSet
        <5> QED  BY <2>3, <4>1, <5>3 DEF Unlisted, LastListing
      <4> QED  BY <1>1, <4>1, OutputMapFacts
    <3> HIDE DEF before, after
    <3>2. CASE nm \in DOMAIN Token /\ Token[nm].id \in Ids(graph)
      <4> DEFINE k == Token[nm].id
      <4>1. Resolve(graph, nm) = <<NodeAt(graph, k), Token[nm].idx>>
        BY <2>2, <3>1, <3>2 DEF ResolvePort, NodeAt, Ids
      <4>2. NodeAt(graph, k) \in ToSet(g.items) /\ IdOf[NodeAt(graph, k)] = k
        <5>1. NodeAt(graph, k) \in Node /\ IdOf[NodeAt(graph, k)] = k
          BY <3>2, NodeAtFacts
        <5>2. Resolve(graph, nm) # None
          BY <3>2, <4>1, <5>1, NoneAssumption, TokenAssumption
        <5> QED  BY <4>1, <5>1, <5>2
      <4>3. k \in Ids(g) /\ NodeAt(g, k) = NodeAt(graph, k)
        BY <1>1, <4>2
      <4>4. Resolve(g, nm) = <<NodeAt(g, k), Token[nm].idx>>
        BY <2>2, <2>3, <3>2, <4>3 DEF ResolvePort, NodeAt, Ids
      <4> QED  BY <4>1, <4>3, <4>4
    <3>3. CASE ~(nm \in DOMAIN Token /\ Token[nm].id \in Ids(graph))
      <4>1. ~(nm \in DOMAIN Token /\ Token[nm].id \in Ids(g))
        BY <1>2, <3>3
      <4> QED  BY <2>2, <2>3, <3>1, <3>3, <4>1 DEF ResolvePort, Ids
    <3> QED  BY <3>2, <3>3
  <2>4. ASSUME NEW i \in Int, NEW j \in Int, LastListing(g.items, Outputs, nm, i, j),
               after[nm] = <<g.items[i], j - 1>>
        PROVE  Resolve(g, nm) = Resolve(graph, nm)
    <3>1. i \in DOMAIN g.items /\ j \in DOMAIN Outputs[g.items[i]] /\ Outputs[g.items[i]][j] = nm
      BY <2>4 DEF LastListing
    <3>2. Resolve(graph, nm) = <<g.items[i], j - 1>>
      BY <1>3, <3>1
    <3>3. g.items[i] \in Node
      BY <1>1, <3>1
    <3> HIDE DEF after
    <3>4. Resolve(g, nm) = <<g.items[i], j - 1>>
      BY <2>2, <2>4, <3>3, NoneAssumption DEF ResolvePort
    <3> QED  BY <3>2, <3>4
  <2> HIDE DEF before, after
  <2> QED  BY <1>1, <2>3, <2>4, OutputMapFacts DEF after
<1> QED  BY <1>4, <1>5

\* A name that is read, and made by n, is among the names of n that get an alias.
LEMMA ReadIsSpelled ==
  ASSUME IsGraph(graph), PortsAreListed, NEW nm \in Reads(graph) \cup Ids(graph), nm \in Name,
         Resolve(graph, nm) # None
  PROVE  nm \in Spellings(Resolve(graph, nm)[1])
<1> DEFINE n == Resolve(graph, nm)[1]
<1>1. CASE nm \in Ids(graph)
  <2>1. Resolve(graph, nm) = <<NodeAt(graph, nm), 0>> /\ IdOf[NodeAt(graph, nm)] = nm
    BY <1>1, NodeAtFacts DEF Resolve
  <2> QED  BY <2>1 DEF Spellings
<1>2. CASE nm \notin Ids(graph)
  <2> DEFINE map == OutputMapOf(graph.items, Outputs)
  <2>1. /\ graph.items \in Seq(Node) /\ Outputs \in [Node -> Seq(Name)]
        /\ Resolve(graph, nm) = PortOf(graph, nm) /\ PortOf(graph, nm) = ResolvePort(map, graph.items, nm)
    BY <1>2, OutputsAssumption DEF IsGraph, Resolve, PortOf
  <2>2. Resolve(graph, nm)[2] + 1 \in DOMAIN Outputs[n]
    BY <1>2, <2>1 DEF PortsAreListed
  <2>3. ASSUME NEW i \in Int, NEW j \in Int, LastListing(graph.items, Outputs, nm, i, j),
               map[nm] = <<graph.items[i], j - 1>>
        PROVE  \E p \in DOMAIN Outputs[n] : p \in PortsNamed(n, nm)
    <3>1. graph.items[i] \in Node /\ Outputs[graph.items[i]][j] = nm /\ j \in DOMAIN Outputs[graph.items[i]]
      BY <2>1, <2>3 DEF LastListing
    <3> HIDE DEF map
    <3>2. Resolve(graph, nm) = <<graph.items[i], j - 1>>
      BY <2>1, <2>3, <3>1, NoneAssumption DEF ResolvePort
    <3> QED  BY <3>1, <3>2 DEF PortsNamed
  <2>4. CASE map[nm] = None
    <3> HIDE DEF map
    <3>1. nm \in DOMAIN Token /\ Token[nm].id \in Keys(graph.items)
      BY <2>1, <2>4 DEF ResolvePort
    <3>2. Resolve(graph, nm) = <<NodeAt(graph, Token[nm].id), Token[nm].idx>>
      BY <2>1, <2>4, <3>1 DEF ResolvePort, NodeAt
    <3>3. IdOf[n] = Token[nm].id
      BY <3>1, <3>2, NodeAtFacts DEF Ids
    <3>4. Token[nm] = [id |-> Token[nm].id, idx |-> Token[nm].idx] /\ Token[nm].idx \in Int
      BY <3>1, TokenAssumption
    <3> DEFINE p == Resolve(graph, nm)[2] + 1
    <3>5. p - 1 = Token[nm].idx
      BY <3>2, <3>4
    <3>6. p \in PortsNamed(n, nm)
      <4> HIDE DEF p, n
      <4>1. p \in DOMAIN Outputs[n]
        BY <2>2 DEF p
      <4> QED  BY <3>1, <3>3, <3>4, <3>5, <4>1 DEF PortsNamed
    <3> QED  BY <3>6 DEF Spellings
  <2>5. CASE \E i, j \in Int : LastListing(graph.items, Outputs, nm, i, j) /\ map[nm] = <<graph.items[i], j - 1>>
    <3> HIDE DEF map
    <3> QED  BY <2>3, <2>5 DEF Spellings
  <2> QED  BY <2>1, <2>4, <2>5, OutputMapFacts
<1> QED  BY <1>1, <1>2

\* What is read instead of a port of n is the port of the same number of canonical.
LEMMA AliasLeads ==
  ASSUME IsGraph(graph), NamesAreUnambiguous, NEW n \in ToSet(graph.items), NEW canonical \in ToSet(graph.items),
         NEW nm \in Spellings(n)
  PROVE  Resolve(graph, AliasFor(nm, n, canonical)) = <<canonical, Resolve(graph, nm)[2]>>
<1>1. /\ n \in Node /\ NodeAt(graph, IdOf[n]) = n /\ IdOf[n] \in Ids(graph)
      /\ canonical \in Node /\ NodeAt(graph, IdOf[canonical]) = canonical /\ IdOf[canonical] \in Ids(graph)
  BY NodeAtPosition DEF IsGraph, ToSet
<1>2. CASE PortsNamed(n, nm) = {}
  <2>1. nm = IdOf[n]
    BY <1>2 DEF Spellings
  <2> QED  BY <1>1, <1>2, <2>1, AliasForFacts DEF Resolve
<1>3. CASE PortsNamed(n, nm) # {}
  <2>1. PICK i \in PortsNamed(n, nm) : AliasFor(nm, n, canonical) = OutputName(canonical, i - 1)
    BY <1>1, <1>3, AliasForFacts
  <2>2. Resolve(graph, nm) = <<n, i - 1>>
    BY NamedPort
  <2>3. i \in DOMAIN Outputs[n]
    BY DEF PortsNamed
  <2>4. Resolve(graph, OutputName(canonical, i - 1)) = <<canonical, i - 1>>
    BY <1>1, <2>3, OutputNameLeads
  <2> QED  BY <2>1, <2>2, <2>4
<1> QED  BY <1>2, <1>3

-----------------------------------------------------------------------------
(* How far merging has come                                                *)

\* n is gone: its names lead to c, which does what n does with what n reads.
MergedInto(n, c) ==
  /\ Mergeable(n) /\ Mergeable(c) /\ Op[n] = Op[c]
  /\ merged.inputs[IdOf[c]] = RenamedAll(graph.inputs[IdOf[n]])
  /\ \A nm \in Spellings(n) : nm \in DOMAIN alias /\ alias[nm] = AliasFor(nm, n, c)

IsOrder(s) ==
  /\ Sorted(graph, s) /\ Distinct(s) /\ ToSet(s) = live /\ s \in Seq(live)
  /\ Len(s) <= Len(graph.items)

\* The first m nodes of s have been looked at: each has been kept, reading what it
\* read by the names that are left, or merged into one that was.
Merging(s, m) ==
  /\ m \in Nat /\ Len(s) = m + Len(todo) /\ \A i \in 1..Len(todo) : todo[i] = s[m + i]
  /\ Keys(merged.items) \subseteq First(s, m) /\ ToSet(merged.items) \subseteq ToSet(graph.items)
  /\ \A k \in Keys(merged.items) : merged.inputs[k] = RenamedAll(graph.inputs[k])
  /\ \A k \in First(s, m) \ Keys(merged.items) :
       \E c \in ToSet(merged.items) : MergedInto(NodeAt(graph, k), c)
  /\ \A nm \in DOMAIN alias :
       \E k \in First(s, m) \ Keys(merged.items) : nm \in Spellings(NodeAt(graph, k))
  /\ \A i \in DOMAIN merged.items : \A nm \in ToSet(merged.inputs[IdOf[merged.items[i]]]) :
       ProducerOf(graph, nm) \subseteq {IdOf[merged.items[j]] : j \in 1..(i - 1)}

Readable == Acyclic /\ NamesAreUnambiguous /\ PortsAreListed

ProgressInv ==
  /\ pc \in {"merging", "merged"} /\ Readable => \E s, m : IsOrder(s) /\ Merging(s, m)
  /\ pc = "merged" =>
       /\ todo = <<>>
       /\ result = [items |-> merged.items, inputs |-> merged.inputs, outputs |-> RenamedAll(Pruned.outputs)]
  /\ \A i, j \in DOMAIN merged.items :
       LET c == merged.items[i]  d == merged.items[j]
       IN  Mergeable(c) /\ Mergeable(d) /\ Op[c] = Op[d] /\ merged.inputs[IdOf[c]] = merged.inputs[IdOf[d]] => i = j

\* A name that only nodes looked at so far make is read by its name, or by its alias;
\* either way it leads to a survivor.
LEMMA RenamedLeads ==
  ASSUME IsGraph(graph), Readable, NEW s, NEW m, IsOrder(s), Merging(s, m), live \subseteq Ids(graph),
         NEW nm \in Reads(graph) \cup Ids(graph), nm \in Name, ProducerOf(graph, nm) \subseteq First(s, m)
  PROVE  ProducerOf(graph, Renamed(nm)) \subseteq Keys(merged.items)
<1>1. CASE nm \in DOMAIN alias
  <2>1. PICK k \in First(s, m) \ Keys(merged.items) : nm \in Spellings(NodeAt(graph, k))
    BY <1>1 DEF Merging
  <2>2. PICK c \in ToSet(merged.items) : MergedInto(NodeAt(graph, k), c)
    BY DEF Merging
  <2>3. Renamed(nm) = AliasFor(nm, NodeAt(graph, k), c)
    BY <1>1, <2>1, <2>2 DEF Renamed, MergedInto
  <2>4. k \in Ids(graph)
    <3>1. Len(s) \in Nat /\ DOMAIN s = 1..Len(s) /\ m <= Len(s) /\ m \in Nat
      BY DEF IsOrder, Merging
    <3> QED  BY <3>1 DEF IsOrder, First
  <2>5. NodeAt(graph, k) \in Node /\ c \in ToSet(graph.items) /\ c \in Node /\ IdOf[c] \in Keys(merged.items)
    <3>1. c \in ToSet(graph.items)
      BY DEF Merging
    <3> QED  BY <2>4, <3>1, NodeAtFacts DEF IsGraph, ToSet, Keys
  <2>6. Renamed(nm) \in NamesOf(c)
    BY <2>3, <2>5, AliasForFacts
  <2> QED  BY <2>5, <2>6, NamesLead DEF Readable
<1>2. CASE nm \notin DOMAIN alias
  <2>1. Renamed(nm) = nm
    BY <1>2 DEF Renamed
  <2>2. CASE Resolve(graph, nm) = None
    BY <2>1, <2>2 DEF ProducerOf
  <2>3. CASE Resolve(graph, nm) # None
    <3> DEFINE n == Resolve(graph, nm)[1]
               k == IdOf[n]
    <3>1. ProducerOf(graph, nm) = {k} /\ k \in First(s, m) /\ k \in Ids(graph)
      BY <2>3, ResolveFacts DEF ProducerOf
    <3>2. nm \in Spellings(n)
      BY <2>3, ReadIsSpelled DEF Readable
    <3>3. NodeAt(graph, k) = n
      BY <2>3, ResolveFacts, NodeAtPosition
    <3> HIDE DEF k, n
    <3>4. k \in Keys(merged.items)
      BY <1>2, <3>1, <3>2, <3>3 DEF Merging, MergedInto
    <3> QED  BY <2>1, <3>1, <3>4
  <2> QED  BY <2>2, <2>3
<1> QED  BY <1>1, <1>2

\* The next node in the order, and what the nodes up to it read.
LEMMA NextInOrder ==
  ASSUME IsGraph(graph), live \subseteq Ids(graph), NEW s, NEW m, IsOrder(s), Merging(s, m), todo # <<>>, todo \in Seq(live)
  PROVE  LET k == Head(todo)
         IN  /\ m + 1 \in DOMAIN s /\ k = s[m + 1] /\ k \notin First(s, m)
             /\ First(s, m + 1) = First(s, m) \cup {k} /\ First(s, m + 1) \subseteq Ids(graph)
             /\ Len(s) = (m + 1) + Len(Tail(todo)) /\ \A i \in 1..Len(Tail(todo)) : Tail(todo)[i] = s[(m + 1) + i]
             /\ \A j \in First(s, m + 1) : \A x \in ToSet(graph.inputs[j]) :
                  x \in Name /\ x \in Reads(graph) /\ ProducerOf(graph, x) \subseteq First(s, m)
<1>1. /\ s \in Seq(live) /\ Len(s) = m + Len(todo) /\ m \in Nat /\ Distinct(s)
      /\ \A i \in 1..Len(todo) : todo[i] = s[m + i]
  BY DEF IsOrder, Merging
<1>2. /\ Len(todo) \in Nat \ {0} /\ Len(Tail(todo)) = Len(todo) - 1 /\ Head(todo) = todo[1]
      /\ \A i \in 1..Len(Tail(todo)) : Tail(todo)[i] = todo[i + 1]
  OBVIOUS
<1>3. DOMAIN s = 1..Len(s) /\ Len(s) \in Nat
  BY <1>1
<1>4. m + 1 \in DOMAIN s /\ Head(todo) = s[m + 1]
  BY <1>1, <1>2, <1>3
<1>5. Len(s) = (m + 1) + Len(Tail(todo)) /\ \A i \in 1..Len(Tail(todo)) : Tail(todo)[i] = s[(m + 1) + i]
  <2>1. \A i \in 1..Len(Tail(todo)) : i + 1 \in 1..Len(todo) /\ m + (i + 1) = (m + 1) + i
    BY <1>1, <1>2
  <2> QED  BY <1>1, <1>2, <2>1
<1>6. 1..(m + 1) = 1..m \cup {m + 1} /\ \A i \in 1..m : i \in DOMAIN s /\ i # m + 1
  BY <1>1, <1>3, <1>4
<1>7. s[m + 1] \notin First(s, m)
  BY <1>1, <1>4, <1>6 DEF First, Distinct
<1>8. First(s, m + 1) = First(s, m) \cup {s[m + 1]}
  BY <1>6 DEF First
<1>9. First(s, m + 1) \subseteq Ids(graph)
  BY <1>1, <1>4, <1>6 DEF First
<1>10. ASSUME NEW j \in First(s, m + 1), NEW x \in ToSet(graph.inputs[j])
       PROVE  x \in Name /\ x \in Reads(graph) /\ ProducerOf(graph, x) \subseteq First(s, m)
  <2>1. PICK i \in 1..(m + 1) : j = s[i]
    BY DEF First
  <2>2. i \in DOMAIN s /\ j \in Ids(graph)
    BY <1>4, <1>6, <1>9, <2>1
  <2>3. graph.inputs[j] \in Seq(Name)
    BY <2>2 DEF IsGraph
  <2>4. Producers(graph, graph.inputs[j]) \subseteq First(s, i - 1)
    BY <2>1, <2>2 DEF IsOrder, Sorted
  <2>5. First(s, i - 1) \subseteq First(s, m)
    <3>1. 1..(i - 1) \subseteq 1..m
      BY <1>1
    <3> QED  BY <3>1 DEF First
  <2>6. ProducerOf(graph, x) \subseteq Producers(graph, graph.inputs[j])
    BY DEF ProducerOf, Producers
  <2>7. x \in Name
    BY <2>3 DEF ToSet
  <2>8. x \in Reads(graph)
    BY <2>2 DEF Reads
  <2> QED  BY <2>4, <2>5, <2>6, <2>7, <2>8
<1> QED  BY <1>4, <1>5, <1>7, <1>8, <1>9, <1>10

\* Nothing that Readable and IsOrder speak of changes any more.
LEMMA ReadableKept ==
  ASSUME UNCHANGED <<graph, live>>
  PROVE  (Readable' <=> Readable) /\ Pruned' = Pruned /\ \A s : IsOrder(s)' <=> IsOrder(s)
BY DEF Readable, Acyclic, NamesAreUnambiguous, PortsAreListed, Pruned, IsLive, IsOrder

LEMMA SortProgress ==
  ASSUME SearchInv, SweptInv, MergeInv, Sort
  PROVE  ProgressInv'
<1>1. /\ pc = "swept" /\ pc' = "merging" /\ todo' \in Orders(result)
      /\ UNCHANGED <<graph, live, queue, result, alias, merged>>
  BY DEF Sort
<1>2. result = Pruned /\ merged.items = <<>> /\ DOMAIN alias = {}
  <2>1. result = Pruned /\ merged.items = <<>>
    BY <1>1 DEF SweptInv, MergeInv
  <2>2. ToSet(merged.items) = {}
    BY <2>1 DEF ToSet
  <2> QED  BY <2>1, <2>2 DEF MergeInv
<1>3. ASSUME Readable
      PROVE  \E s, m : IsOrder(s) /\ Merging(s, m)'
  <2>0. PICK s : s = todo'
    OBVIOUS
  <2>1. IsOrder(s)
    BY <1>1, <1>2, <1>3, <2>0, OrderIsSorted DEF Readable, IsOrder
  <2>2. Len(s) \in Nat
    BY <2>1 DEF IsOrder
  <2>3. Keys(merged'.items) = {} /\ ToSet(merged'.items) = {} /\ First(s, 0) = {} /\ DOMAIN merged'.items = {}
    BY <1>1, <1>2 DEF Keys, ToSet, First
  <2>4. Merging(s, 0)'
    <3>1. Len(s) = 0 + Len(todo') /\ \A i \in 1..Len(todo') : todo'[i] = s[0 + i]
      BY <2>0, <2>2
    <3> QED  BY <1>1, <1>2, <2>3, <3>1 DEF Merging
  <2> QED  BY <2>1, <2>4
<1>4. DOMAIN merged'.items = {}
  BY <1>1, <1>2
<1> QED  BY <1>1, <1>3, <1>4, ReadableKept DEF ProgressInv

\* Names that the node under the hand does not make are read as before.
LEMMA RenamedKept ==
  ASSUME IsGraph(graph), NamesAreUnambiguous, NEW n \in ToSet(graph.items),
         DOMAIN alias' = DOMAIN alias \cup Spellings(n),
         \A nm \in DOMAIN alias : nm \notin Spellings(n) => alias'[nm] = alias[nm],
         NEW x, IdOf[n] \notin ProducerOf(graph, x)
  PROVE  (Renamed(x))' = Renamed(x) /\ x \notin Spellings(n)
<1>1. x \notin Spellings(n)
  BY NamesLead
<1> QED  BY <1>1 DEF Renamed

LEMMA MergeProgress ==
  ASSUME SearchInv, SweptInv, MergeInv, ProgressInv, Merge
  PROVE  ProgressInv'
<1>0. PICK k, n : k = Head(todo) /\ n = NodeAt(result, k)
  OBVIOUS
<1>1. PICK canonical \in Alike(k) :
        alias' = [nm \in DOMAIN alias \cup Spellings(n) |->
                    IF nm \in Spellings(n) THEN AliasFor(nm, n, canonical) ELSE alias[nm]]
  BY <1>0 DEF Merge
<1>2. /\ pc = "merging" /\ todo # <<>> /\ todo' = Tail(todo) /\ IsGraph(graph) /\ live \subseteq Ids(graph)
      /\ UNCHANGED <<graph, live, queue, result, pc, merged>>
  BY DEF Merge, SearchInv
<1>3. /\ n \in Node /\ IdOf[n] = k /\ k \in live /\ n = NodeAt(graph, k) /\ result.inputs[k] = graph.inputs[k]
      /\ k \notin Keys(merged.items)
  BY <1>0, <1>2, HeadFacts
<1>4. /\ canonical \in ToSet(merged.items) /\ Mergeable(n) /\ Mergeable(canonical) /\ Op[canonical] = Op[n]
      /\ merged.inputs[IdOf[canonical]] = RenamedAll(graph.inputs[k])
  BY <1>0, <1>3 DEF Alike
<1>5. n \in ToSet(graph.items)
  <2>1. PICK i \in DOMAIN graph.items : IdOf[graph.items[i]] = k
    BY <1>2, <1>3 DEF Ids, Keys
  <2>2. graph.items[i] = n
    BY <1>2, <1>3, <2>1, NodeAtPosition
  <2> QED  BY <2>2 DEF ToSet
<1>6. ASSUME Readable
      PROVE  \E s, m : IsOrder(s) /\ Merging(s, m)'
  <2>1. PICK s, m : IsOrder(s) /\ Merging(s, m)
    BY <1>2, <1>6 DEF ProgressInv
  <2>2. /\ m + 1 \in DOMAIN s /\ k = s[m + 1] /\ k \notin First(s, m) /\ m \in Nat
        /\ First(s, m + 1) = First(s, m) \cup {k}
        /\ Len(s) = (m + 1) + Len(todo') /\ \A i \in 1..Len(todo') : todo'[i] = s[(m + 1) + i]
        /\ \A j \in First(s, m + 1) : \A x \in ToSet(graph.inputs[j]) : ProducerOf(graph, x) \subseteq First(s, m)
    <3>1. todo \in Seq(live) /\ m \in Nat
      BY <2>1 DEF MergeInv, Merging
    <3>2. /\ m + 1 \in DOMAIN s /\ Head(todo) = s[m + 1] /\ Head(todo) \notin First(s, m)
          /\ First(s, m + 1) = First(s, m) \cup {Head(todo)}
          /\ Len(s) = (m + 1) + Len(Tail(todo)) /\ \A i \in 1..Len(Tail(todo)) : Tail(todo)[i] = s[(m + 1) + i]
          /\ \A j \in First(s, m + 1) : \A x \in ToSet(graph.inputs[j]) :
               x \in Name /\ x \in Reads(graph) /\ ProducerOf(graph, x) \subseteq First(s, m)
      <4>1. IsGraph(graph) /\ live \subseteq Ids(graph) /\ todo # <<>>
        BY <1>2
      <4> QED  BY <2>1, <3>1, <4>1, NextInOrder
    <3>3. k = Head(todo) /\ todo' = Tail(todo)
      BY <1>0, <1>2
    <3> QED  BY <3>1, <3>2, <3>3
  <2>3. ASSUME NEW j \in First(s, m + 1)
        PROVE  (RenamedAll(graph.inputs[j]))' = RenamedAll(graph.inputs[j])
    <3>1. \A i \in DOMAIN graph.inputs[j] : (Renamed(graph.inputs[j][i]))' = Renamed(graph.inputs[j][i])
      <4> SUFFICES ASSUME NEW i \in DOMAIN graph.inputs[j]
                   PROVE  (Renamed(graph.inputs[j][i]))' = Renamed(graph.inputs[j][i])
        OBVIOUS
      <4>0. PICK x : x = graph.inputs[j][i]
        OBVIOUS
      <4>1. k \notin ProducerOf(graph, x)
        BY <2>2, <4>0 DEF ToSet
      <4>2. (Renamed(x))' = Renamed(x)
        <5>1. /\ DOMAIN alias' = DOMAIN alias \cup Spellings(n)
              /\ \A nm \in DOMAIN alias : nm \notin Spellings(n) => alias'[nm] = alias[nm]
          BY <1>1
        <5> QED  BY <1>2, <1>3, <1>5, <1>6, <4>1, <5>1, RenamedKept DEF Readable
      <4> QED  BY <1>2, <4>0, <4>2 DEF Renamed
    <3> QED  BY <1>2, <3>1 DEF RenamedAll
  <2>4. MergedInto(n, canonical)'
    <3>1. k \in First(s, m + 1)
      BY <2>2
    <3>2. merged'.inputs[IdOf[canonical]] = (RenamedAll(graph.inputs[k]))'
      BY <1>2, <1>4, <2>3, <3>1
    <3> QED  BY <1>1, <1>2, <1>3, <1>4, <3>2 DEF MergedInto
  <2>5. ASSUME NEW j \in First(s, m + 1) \ Keys(merged.items)
        PROVE  \E c \in ToSet(merged.items) : MergedInto(NodeAt(graph, j), c)'
    <3>1. CASE j = k
      <4>1. n = NodeAt(graph, j)
        BY <1>3, <3>1
      <4> QED  BY <1>2, <1>4, <2>4, <4>1 DEF MergedInto
    <3>2. CASE j # k
      <4>0. PICK o : o = NodeAt(graph, j)
        OBVIOUS
      <4>1. j \in First(s, m) \ Keys(merged.items)
        BY <2>2, <3>2
      <4>2. PICK c \in ToSet(merged.items) : MergedInto(o, c)
        BY <2>1, <4>0, <4>1 DEF Merging
      <4>3. o \in ToSet(graph.items) /\ IdOf[o] = j
        <5>1. j \in Ids(graph)
          <6>1. todo \in Seq(live)
            BY DEF MergeInv
          <6>2. First(s, m + 1) \subseteq Ids(graph)
            BY <1>2, <2>1, <6>1, NextInOrder
          <6> QED  BY <6>2
        <5>2. PICK i \in DOMAIN graph.items : IdOf[graph.items[i]] = j
          BY <5>1 DEF Ids, Keys
        <5>3. graph.items[i] = o
          BY <1>2, <4>0, <5>2, NodeAtPosition
        <5> QED  BY <5>2, <5>3 DEF ToSet
      <4>4. \A nm \in Spellings(o) : nm \notin Spellings(n)
        <5> SUFFICES ASSUME NEW nm \in Spellings(o), nm \in Spellings(n)
                     PROVE  FALSE
          OBVIOUS
        <5>1. Resolve(graph, nm)[1] = o
          BY <1>2, <1>6, <4>3, NamesLead DEF Readable
        <5>2. Resolve(graph, nm)[1] = n
          BY <1>2, <1>5, <1>6, NamesLead DEF Readable
        <5> QED  BY <1>3, <3>2, <4>3, <5>1, <5>2
      <4>5. merged'.inputs[IdOf[c]] = (RenamedAll(graph.inputs[j]))'
        BY <1>2, <2>3, <4>2, <4>3 DEF MergedInto
      <4>6. MergedInto(o, c)'
        BY <1>1, <1>2, <4>2, <4>3, <4>4, <4>5 DEF MergedInto
      <4> QED  BY <1>2, <4>0, <4>6 DEF MergedInto
    <3> QED  BY <3>1, <3>2
  <2>6. ASSUME NEW nm \in DOMAIN alias'
        PROVE  \E j \in First(s, m + 1) \ Keys(merged.items) : nm \in Spellings(NodeAt(graph, j))
    <3>1. CASE nm \in Spellings(n)
      BY <1>3, <2>2, <3>1
    <3>2. CASE nm \notin Spellings(n)
      <4>1. nm \in DOMAIN alias
        BY <1>1, <3>2
      <4> QED  BY <2>1, <2>2, <4>1 DEF Merging
    <3> QED  BY <3>1, <3>2
  <2>7. /\ Keys(merged.items) \subseteq First(s, m) /\ ToSet(merged.items) \subseteq ToSet(graph.items)
        /\ \A j \in Keys(merged.items) : merged.inputs[j] = RenamedAll(graph.inputs[j])
        /\ \A i \in DOMAIN merged.items : \A nm \in ToSet(merged.inputs[IdOf[merged.items[i]]]) :
             ProducerOf(graph, nm) \subseteq {IdOf[merged.items[j]] : j \in 1..(i - 1)}
    BY <2>1 DEF Merging
  <2>8. \A j \in Keys(merged.items) : merged.inputs[j] = (RenamedAll(graph.inputs[j]))'
    BY <2>2, <2>3, <2>7
  <2>9. Merging(s, m + 1)'
    <3>1. Keys(merged.items) \subseteq First(s, m + 1) /\ m + 1 \in Nat
      BY <2>2, <2>7
    <3> QED  BY <1>2, <2>2, <2>5, <2>6, <2>7, <2>8, <3>1 DEF Merging
  <2> QED  BY <2>1, <2>9
<1> QED  BY <1>2, <1>6, ReadableKept DEF ProgressInv

\* What Keep does, in the terms of the graph that was given.
LEMMA KeepFacts ==
  ASSUME SearchInv, SweptInv, MergeInv, Keep
  PROVE  \E k, n :
           /\ k = Head(todo) /\ todo # <<>> /\ k \in live /\ k \notin Keys(merged.items) /\ Alike(k) = {}
           /\ n \in ToSet(graph.items) /\ n \in Node /\ IdOf[n] = k /\ n = NodeAt(graph, k) /\ n = NodeAt(result, k)
           /\ result.inputs[k] = graph.inputs[k] /\ todo' = Tail(todo) /\ pc = "merging"
           /\ merged'.items = Append(merged.items, n)
           /\ merged'.inputs[k] = RenamedAll(graph.inputs[k])
           /\ \A j \in Keys(merged.items) : merged'.inputs[j] = merged.inputs[j]
           /\ UNCHANGED <<graph, live, queue, result, pc, alias>>
<1>1. PICK k, n : k = Head(todo) /\ n = NodeAt(result, k)
  OBVIOUS
<1>2. /\ pc = "merging" /\ todo # <<>> /\ todo' = Tail(todo) /\ Alike(k) = {}
      /\ merged'.items = Append(merged.items, n)
      /\ merged'.inputs = [j \in DOMAIN merged.inputs \cup {k} |->
                             IF j = k THEN RenamedAll(result.inputs[k]) ELSE merged.inputs[j]]
      /\ UNCHANGED <<graph, live, queue, result, pc, alias>>
  BY <1>1 DEF Keep
<1>3. /\ n \in Node /\ IdOf[n] = k /\ k \in live /\ n = NodeAt(graph, k) /\ result.inputs[k] = graph.inputs[k]
      /\ k \notin Keys(merged.items)
  BY <1>1, <1>2, HeadFacts
<1>4. merged'.inputs[k] = RenamedAll(graph.inputs[k])
  BY <1>2, <1>3
<1>5. \A j \in Keys(merged.items) : merged'.inputs[j] = merged.inputs[j]
  <2>1. DOMAIN merged.inputs = Keys(merged.items)
    BY DEF MergeInv
  <2> QED  BY <1>2, <1>3, <2>1
<1>6. n \in ToSet(graph.items)
  <2>1. k \in Ids(graph) /\ IsGraph(graph)
    BY <1>3 DEF SearchInv
  <2>2. PICK i \in DOMAIN graph.items : IdOf[graph.items[i]] = k
    BY <2>1 DEF Ids, Keys
  <2>3. graph.items[i] = n
    BY <1>3, <2>1, <2>2, NodeAtPosition
  <2> QED  BY <2>3 DEF ToSet
<1> QED  BY <1>1, <1>2, <1>3, <1>4, <1>5, <1>6

LEMMA KeepProgress ==
  ASSUME SearchInv, SweptInv, MergeInv, ProgressInv, Keep
  PROVE  ProgressInv'
<1>1. PICK k, n :
           /\ k = Head(todo) /\ todo # <<>> /\ k \in live /\ k \notin Keys(merged.items) /\ Alike(k) = {}
           /\ n \in ToSet(graph.items) /\ n \in Node /\ IdOf[n] = k /\ n = NodeAt(graph, k) /\ n = NodeAt(result, k)
           /\ result.inputs[k] = graph.inputs[k] /\ todo' = Tail(todo) /\ pc = "merging"
           /\ merged'.items = Append(merged.items, n)
           /\ merged'.inputs[k] = RenamedAll(graph.inputs[k])
           /\ \A j \in Keys(merged.items) : merged'.inputs[j] = merged.inputs[j]
           /\ UNCHANGED <<graph, live, queue, result, pc, alias>>
  BY KeepFacts
<1>2. PICK l : l = Len(merged.items)
  OBVIOUS
<1>3. /\ l \in Nat /\ DOMAIN merged.items = 1..l
      /\ Keys(merged'.items) = Keys(merged.items) \cup {k}
      /\ ToSet(merged'.items) = ToSet(merged.items) \cup {n}
      /\ DOMAIN merged'.items = 1..(l + 1) /\ merged'.items[l + 1] = n
      /\ \A i \in 1..l : merged'.items[i] = merged.items[i] /\ IdOf[merged.items[i]] \in Keys(merged.items)
  <2> DEFINE more == Append(merged.items, n)
  <2>1. /\ merged.items \in Seq(Node)
        /\ \A i, j \in DOMAIN merged.items : IdOf[merged.items[i]] = IdOf[merged.items[j]] => i = j
    BY DEF MergeInv
  <2>2. l \in Nat /\ DOMAIN merged.items = 1..l
    BY <1>2, <2>1
  <2>3. /\ Keys(more) = Keys(merged.items) \cup {IdOf[n]}
        /\ ToSet(more) = ToSet(merged.items) \cup {n}
        /\ DOMAIN more = 1..(l + 1) /\ more[l + 1] = n
        /\ \A i \in DOMAIN merged.items : more[i] = merged.items[i]
    BY <1>1, <1>2, <2>1, AppendFacts
  <2> HIDE DEF more
  <2>4. merged'.items = more
    BY <1>1 DEF more
  <2>5. \A i \in 1..l : IdOf[merged.items[i]] \in Keys(merged.items)
    BY <2>2 DEF Keys
  <2> QED  BY <1>1, <2>2, <2>3, <2>4, <2>5
<1>4. IsGraph(graph) /\ live \subseteq Ids(graph) /\ todo \in Seq(live)
  BY DEF SearchInv, MergeInv
<1>5. 1..(l + 1) = 1..l \cup {l + 1} /\ (l + 1) - 1 = l /\ \A i \in 1..l : i # l + 1 /\ 1..(i - 1) \subseteq 1..l
  BY <1>3
<1>6. ASSUME Readable
      PROVE  \E s, m : IsOrder(s) /\ Merging(s, m)'
  <2>1. PICK s, m : IsOrder(s) /\ Merging(s, m)
    BY <1>1, <1>6 DEF ProgressInv
  <2>2. /\ m \in Nat
        /\ Keys(merged.items) \subseteq First(s, m) /\ ToSet(merged.items) \subseteq ToSet(graph.items)
        /\ \A j \in Keys(merged.items) : merged.inputs[j] = RenamedAll(graph.inputs[j])
    BY <2>1 DEF Merging
  <2>3. /\ m + 1 \in DOMAIN s /\ k = s[m + 1] /\ k \notin First(s, m)
        /\ First(s, m + 1) = First(s, m) \cup {k}
        /\ Len(s) = (m + 1) + Len(todo') /\ \A i \in 1..Len(todo') : todo'[i] = s[(m + 1) + i]
        /\ \A j \in First(s, m + 1) : \A x \in ToSet(graph.inputs[j]) :
             x \in Name /\ x \in Reads(graph) /\ ProducerOf(graph, x) \subseteq First(s, m)
    <3>1. /\ m + 1 \in DOMAIN s /\ Head(todo) = s[m + 1] /\ Head(todo) \notin First(s, m)
          /\ First(s, m + 1) = First(s, m) \cup {Head(todo)}
          /\ Len(s) = (m + 1) + Len(Tail(todo)) /\ \A i \in 1..Len(Tail(todo)) : Tail(todo)[i] = s[(m + 1) + i]
          /\ \A j \in First(s, m + 1) : \A x \in ToSet(graph.inputs[j]) :
               x \in Name /\ x \in Reads(graph) /\ ProducerOf(graph, x) \subseteq First(s, m)
      BY <1>1, <1>4, <2>1, NextInOrder
    <3> QED  BY <1>1, <3>1
  <2>4. \A j : (RenamedAll(graph.inputs[j]))' = RenamedAll(graph.inputs[j])
    BY <1>1 DEF RenamedAll, Renamed
  <2>5. \A j \in Keys(merged'.items) : merged'.inputs[j] = (RenamedAll(graph.inputs[j]))'
    BY <1>1, <1>3, <2>2, <2>4
  <2>6. First(s, m + 1) \ Keys(merged'.items) = First(s, m) \ Keys(merged.items)
    BY <1>3, <2>2, <2>3
  <2>7. ASSUME NEW j \in First(s, m) \ Keys(merged.items)
        PROVE  \E c \in ToSet(merged'.items) : MergedInto(NodeAt(graph, j), c)'
    <3>1. PICK o : o = NodeAt(graph, j)
      OBVIOUS
    <3>2. PICK c \in ToSet(merged.items) : MergedInto(o, c)
      BY <2>1, <3>1 DEF Merging
    <3>3. IdOf[c] \in Keys(merged.items)
      BY DEF ToSet, Keys
    <3>4. merged'.inputs[IdOf[c]] = (RenamedAll(graph.inputs[IdOf[o]]))'
      BY <1>1, <2>4, <3>2, <3>3 DEF MergedInto
    <3>5. MergedInto(o, c)'
      BY <1>1, <3>2, <3>4 DEF MergedInto
    <3> QED  BY <1>1, <1>3, <3>1, <3>5 DEF MergedInto
  <2>8. \A nm \in DOMAIN alias' :
          \E j \in First(s, m + 1) \ Keys(merged'.items) : nm \in Spellings(NodeAt(graph, j))
    BY <1>1, <2>1, <2>6 DEF Merging
  <2>9. ASSUME NEW i \in DOMAIN merged'.items, NEW nm \in ToSet(merged'.inputs[IdOf[merged'.items[i]]])
        PROVE  ProducerOf(graph, nm) \subseteq {IdOf[merged'.items[j]] : j \in 1..(i - 1)}
    <3>1. CASE i \in 1..l
      <4>1. merged'.inputs[IdOf[merged'.items[i]]] = merged.inputs[IdOf[merged.items[i]]]
        BY <1>1, <1>3, <3>1
      <4>2. ProducerOf(graph, nm) \subseteq {IdOf[merged.items[j]] : j \in 1..(i - 1)}
        BY <1>3, <2>1, <3>1, <4>1 DEF Merging
      <4>3. \A j \in 1..(i - 1) : merged'.items[j] = merged.items[j]
        BY <1>3, <1>5, <3>1
      <4> QED  BY <4>2, <4>3
    <3>2. CASE i = l + 1
      <4>1. nm \in ToSet(RenamedAll(graph.inputs[k]))
        BY <1>1, <1>3, <3>2
      <4>2. PICK x \in ToSet(graph.inputs[k]) : nm = Renamed(x)
        BY <4>1 DEF ToSet, RenamedAll
      <4>3. x \in Name /\ x \in Reads(graph) /\ ProducerOf(graph, x) \subseteq First(s, m)
        BY <2>3
      <4>4. ProducerOf(graph, nm) \subseteq Keys(merged.items)
        BY <1>4, <1>6, <2>1, <4>2, <4>3, RenamedLeads
      <4>5. Keys(merged.items) = {IdOf[merged'.items[j]] : j \in 1..l}
        <5>1. DOMAIN merged.items = 1..l /\ \A j \in 1..l : merged'.items[j] = merged.items[j]
          BY <1>3
        <5> QED  BY <5>1 DEF Keys
      <4>6. i - 1 = l
        BY <1>5, <3>2
      <4> QED  BY <4>4, <4>5, <4>6
    <3> QED  BY <1>3, <1>5, <3>1, <3>2
  <2>10. Merging(s, m + 1)'
    <3>1. m + 1 \in Nat /\ Keys(merged'.items) \subseteq First(s, m + 1)
      BY <1>3, <2>2, <2>3
    <3>2. ToSet(merged'.items) \subseteq ToSet(graph.items)
      BY <1>1, <1>3, <2>2
    <3>3. graph' = graph
      BY <1>1
    <3>4. \A j \in First(s, m + 1) \ Keys(merged'.items) :
            \E c \in ToSet(merged'.items) : MergedInto(NodeAt(graph, j), c)'
      BY <2>6, <2>7
    <3> QED  BY <2>3, <2>5, <2>8, <2>9, <3>1, <3>2, <3>3, <3>4 DEF Merging
  <2> QED  BY <2>1, <2>10
<1>7. ASSUME NEW j \in 1..l, Mergeable(n), Mergeable(merged.items[j]), Op[merged.items[j]] = Op[n],
             merged.inputs[IdOf[merged.items[j]]] = RenamedAll(graph.inputs[k])
      PROVE  FALSE
  <2>1. merged.items[j] \in ToSet(merged.items)
    BY <1>3 DEF ToSet
  <2>2. merged.items[j] \in Alike(k)
    BY <1>1, <1>7, <2>1 DEF Alike
  <2> QED  BY <1>1, <2>2
<1>8. ASSUME NEW i \in DOMAIN merged'.items, NEW j \in DOMAIN merged'.items,
             Mergeable(merged'.items[i]), Mergeable(merged'.items[j]), Op[merged'.items[i]] = Op[merged'.items[j]],
             merged'.inputs[IdOf[merged'.items[i]]] = merged'.inputs[IdOf[merged'.items[j]]]
      PROVE  i = j
  <2>0. ASSUME NEW p \in 1..l
        PROVE  merged'.items[p] = merged.items[p] /\ merged'.inputs[IdOf[merged'.items[p]]] = merged.inputs[IdOf[merged.items[p]]]
    BY <1>1, <1>3
  <2>1. CASE i \in 1..l /\ j \in 1..l
    <3>1. /\ Mergeable(merged.items[i]) /\ Mergeable(merged.items[j]) /\ Op[merged.items[i]] = Op[merged.items[j]]
          /\ merged.inputs[IdOf[merged.items[i]]] = merged.inputs[IdOf[merged.items[j]]]
      BY <1>8, <2>0, <2>1
    <3> QED  BY <1>3, <2>1, <3>1 DEF ProgressInv
  <2>2. CASE i \in 1..l /\ j = l + 1
    <3>0. /\ merged'.items[i] = merged.items[i] /\ merged'.items[l + 1] = n
          /\ merged'.inputs[IdOf[merged'.items[i]]] = merged.inputs[IdOf[merged.items[i]]]
          /\ merged'.inputs[IdOf[merged'.items[l + 1]]] = RenamedAll(graph.inputs[k])
      BY <1>1, <1>3, <2>0, <2>2
    <3>1. /\ Mergeable(n) /\ Mergeable(merged.items[i]) /\ Op[merged.items[i]] = Op[n]
          /\ merged.inputs[IdOf[merged.items[i]]] = RenamedAll(graph.inputs[k])
      BY <1>8, <2>2, <3>0
    <3> QED  BY <1>7, <2>2, <3>1
  <2>3. CASE i = l + 1 /\ j \in 1..l
    <3>0. /\ merged'.items[j] = merged.items[j] /\ merged'.items[l + 1] = n
          /\ merged'.inputs[IdOf[merged'.items[j]]] = merged.inputs[IdOf[merged.items[j]]]
          /\ merged'.inputs[IdOf[merged'.items[l + 1]]] = RenamedAll(graph.inputs[k])
      BY <1>1, <1>3, <2>0, <2>3
    <3>1. /\ Mergeable(n) /\ Mergeable(merged.items[j]) /\ Op[merged.items[j]] = Op[n]
          /\ merged.inputs[IdOf[merged.items[j]]] = RenamedAll(graph.inputs[k])
      BY <1>8, <2>3, <3>0
    <3> QED  BY <1>7, <2>3, <3>1
  <2> QED  BY <1>3, <1>5, <2>1, <2>2, <2>3
<1>9. pc' # "merged"
  BY <1>1
<1> QED  BY <1>1, <1>6, <1>8, <1>9, ReadableKept DEF ProgressInv, Mergeable

LEMMA MergingKept ==
  ASSUME UNCHANGED <<graph, todo, alias, merged>>, NEW s, NEW m, Merging(s, m)
  PROVE  Merging(s, m)'
<1>1. graph' = graph /\ todo' = todo /\ alias' = alias /\ merged' = merged
  OBVIOUS
<1>2. \A names : (RenamedAll(names))' = RenamedAll(names)
  BY <1>1 DEF RenamedAll, Renamed
<1>3. \A n, c : MergedInto(n, c)' <=> MergedInto(n, c)
  BY <1>1, <1>2 DEF MergedInto
<1>4. \A k \in First(s, m) \ Keys(merged.items) : \E c \in ToSet(merged.items) : MergedInto(NodeAt(graph, k), c)'
  BY <1>1, <1>3 DEF Merging
<1> QED  BY <1>1, <1>2, <1>4 DEF Merging

LEMMA ReturnProgress ==
  ASSUME SearchInv, SweptInv, MergeInv, ProgressInv, Return
  PROVE  ProgressInv'
<1>1. /\ pc = "merging" /\ pc' = "merged" /\ todo = <<>>
      /\ UNCHANGED <<graph, live, queue, todo, alias, merged>>
      /\ result' = [items |-> merged.items, inputs |-> merged.inputs, outputs |-> RenamedAll(result.outputs)]
  BY DEF Return
<1>2. result = Pruned
  BY <1>1 DEF SweptInv
<1>3. result' = [items |-> merged'.items, inputs |-> merged'.inputs, outputs |-> (RenamedAll(Pruned.outputs))']
  BY <1>1, <1>2, ReadableKept DEF RenamedAll, Renamed
<1>4. ASSUME NEW s, NEW m, Merging(s, m)
      PROVE  Merging(s, m)'
  BY <1>1, <1>4, MergingKept
<1>5. Readable => \E s, m : IsOrder(s) /\ Merging(s, m)'
  BY <1>1, <1>4 DEF ProgressInv
<1>6. \A i, j \in DOMAIN merged.items :
        LET c == merged.items[i]  d == merged.items[j]
        IN  Mergeable(c) /\ Mergeable(d) /\ Op[c] = Op[d] /\ merged.inputs[IdOf[c]] = merged.inputs[IdOf[d]] => i = j
  BY DEF ProgressInv
<1> QED  BY <1>1, <1>3, <1>5, <1>6, ReadableKept DEF ProgressInv

LEMMA ProgressInvariant == Spec => []ProgressInv
<1>1. Init => ProgressInv
  BY DEF Init, SweepInit, MergeInit, ProgressInv
<1>2. SearchInv /\ SweptInv /\ MergeInv /\ ProgressInv /\ [Next]_vars => ProgressInv'
  <2> SUFFICES ASSUME SearchInv, SweptInv, MergeInv, ProgressInv, [Next]_vars
               PROVE  ProgressInv'
    OBVIOUS
  <2>1. ASSUME merged' = merged, pc' \notin {"merging", "merged"}
        PROVE  ProgressInv'
    BY <2>1 DEF ProgressInv, Mergeable
  <2>2. CASE SweepNext /\ UNCHANGED mergeVars
    BY <2>1, <2>2 DEF SweepNext, Sweep, Build, mergeVars
  <2>3. CASE MergeNext
    BY <2>3, SortProgress, MergeProgress, KeepProgress, ReturnProgress DEF MergeNext
  <2>4. CASE UNCHANGED vars
    <3>1. UNCHANGED <<graph, live, queue, result, pc, todo, alias, merged>>
      BY <2>4 DEF vars
    <3>2. ASSUME NEW s, NEW m, Merging(s, m)
          PROVE  Merging(s, m)'
      BY <3>1, <3>2, MergingKept
    <3>3. (RenamedAll(Pruned.outputs))' = RenamedAll(Pruned.outputs)
      BY <3>1, ReadableKept DEF RenamedAll, Renamed
    <3>4. pc \in {"merging", "merged"} /\ Readable => \E s, m : IsOrder(s) /\ Merging(s, m)'
      BY <3>2 DEF ProgressInv
    <3> QED  BY <3>1, <3>3, <3>4, ReadableKept DEF ProgressInv
  <2> QED  BY <2>2, <2>3, <2>4 DEF Next
<1> QED  BY <1>1, <1>2, SearchInvariant, SweptInvariant, MergeInvariant, PTL DEF Spec

-----------------------------------------------------------------------------
(* What merging comes to                                                   *)

IdList(items) == [i \in DOMAIN items |-> IdOf[items[i]]]

\* All of s has been looked at, and result is the graph of what was kept.
Finished(s) ==
  /\ IsOrder(s) /\ Merging(s, Len(s)) /\ Len(s) \in Nat /\ First(s, Len(s)) = live
  /\ IsGraph(graph) /\ live \subseteq Ids(graph) /\ Readable /\ Sufficient(live)
  /\ IsGraph(result) /\ Ids(result) \subseteq live /\ ToSet(result.items) \subseteq ToSet(graph.items)
  /\ result = [items |-> merged.items, inputs |-> merged.inputs, outputs |-> RenamedAll(Pruned.outputs)]
  /\ \A k \in Ids(result) : result.inputs[k] = RenamedAll(graph.inputs[k]) /\ NodeAt(result, k) = NodeAt(graph, k)

LEMMA MergingFinishes ==
  ASSUME SearchInv, SweptInv, MergeInv, ProgressInv, pc = "merged", Readable
  PROVE  \E s : Finished(s)
<1>1. PICK s, m : IsOrder(s) /\ Merging(s, m)
  BY DEF ProgressInv
<1>2. todo = <<>> /\ result = [items |-> merged.items, inputs |-> merged.inputs, outputs |-> RenamedAll(Pruned.outputs)]
  BY DEF ProgressInv
<1>3. m = Len(s) /\ Len(s) \in Nat /\ DOMAIN s = 1..Len(s)
  <2>1. Len(s) = m + Len(todo) /\ s \in Seq(live) /\ m \in Nat
    BY <1>1 DEF Merging, IsOrder
  <2>2. Len(todo) = 0
    BY <1>2
  <2> QED  BY <2>1, <2>2
<1>4. First(s, Len(s)) = live
  BY <1>1, <1>3 DEF First, IsOrder, ToSet
<1>5. IsGraph(graph) /\ live \subseteq Ids(graph) /\ Sufficient(live) /\ IsGraph(result)
  BY LiveIsSufficient DEF SearchInv, MergeInv
<1>6. Ids(result) = Keys(merged.items) /\ Ids(result) \subseteq live /\ ToSet(result.items) \subseteq ToSet(graph.items)
  <2>1. Ids(result) = Keys(merged.items) /\ ToSet(result.items) = ToSet(merged.items)
    BY <1>2 DEF Ids
  <2> QED  BY <1>1, <2>1 DEF MergeInv, Merging
<1>7. ASSUME NEW k \in Ids(result)
      PROVE  result.inputs[k] = RenamedAll(graph.inputs[k]) /\ NodeAt(result, k) = NodeAt(graph, k)
  <2>1. result.inputs[k] = RenamedAll(graph.inputs[k])
    BY <1>1, <1>2, <1>6 DEF Merging
  <2>2. PICK i \in DOMAIN result.items : IdOf[result.items[i]] = k
    BY DEF Ids, Keys
  <2>3. NodeAt(result, k) = result.items[i]
    BY <1>5, <2>2, NodeAtPosition
  <2>4. PICK j \in DOMAIN graph.items : graph.items[j] = result.items[i]
    BY <1>6, <2>2 DEF ToSet
  <2>5. NodeAt(graph, k) = graph.items[j]
    BY <1>5, <2>2, <2>4, NodeAtPosition
  <2> QED  BY <2>1, <2>3, <2>4, <2>5
<1> QED  BY <1>1, <1>2, <1>3, <1>4, <1>5, <1>6, <1>7 DEF Finished

\* The survivors, as they were kept, read only what survivors before them make.
LEMMA SurvivorsAreSorted ==
  ASSUME NEW s, Finished(s)
  PROVE  /\ Sorted(result, IdList(result.items)) /\ Len(IdList(result.items)) = Len(result.items)
         /\ ToSet(IdList(result.items)) = Ids(result) /\ Len(result.items) \in Nat
         /\ DOMAIN result.items = 1..Len(result.items)
         /\ \A nm \in Name : ProducerOf(graph, nm) \subseteq Ids(result) => Resolve(result, nm) = Resolve(graph, nm)
<1> DEFINE ids == IdList(result.items)
<1>1. /\ IsGraph(graph) /\ IsGraph(result) /\ result.items \in Seq(Node) /\ NamesAreUnambiguous
      /\ ToSet(result.items) \subseteq ToSet(graph.items)
      /\ result.items = merged.items /\ result.inputs = merged.inputs /\ Ids(result) = Keys(merged.items)
  BY DEF Finished, IsGraph, Readable, Ids
<1>2. /\ Len(result.items) \in Nat /\ DOMAIN result.items = 1..Len(result.items)
      /\ DOMAIN ids = DOMAIN result.items /\ ids \in Seq(Ids(result)) /\ Len(ids) = Len(result.items)
      /\ \A i \in DOMAIN result.items : ids[i] = IdOf[result.items[i]]
  BY <1>1 DEF IdList, Ids, Keys
<1> HIDE DEF ids
<1>3. ToSet(ids) = Ids(result)
  BY <1>2 DEF ToSet, Ids, Keys
<1>4. ASSUME NEW nm \in Name, ProducerOf(graph, nm) \subseteq Ids(result)
      PROVE  Resolve(result, nm) = Resolve(graph, nm)
  <2>1. Resolve(graph, nm) # None => Resolve(graph, nm)[1] \in ToSet(result.items)
    <3> SUFFICES ASSUME Resolve(graph, nm) # None
                 PROVE  Resolve(graph, nm)[1] \in ToSet(result.items)
      OBVIOUS
    <3>1. PICK i \in DOMAIN graph.items : Resolve(graph, nm)[1] = graph.items[i]
      BY <1>1, ResolveFacts
    <3>2. IdOf[graph.items[i]] \in Ids(result)
      BY <1>4, <3>1 DEF ProducerOf
    <3>3. PICK j \in DOMAIN result.items : IdOf[result.items[j]] = IdOf[graph.items[i]]
      BY <3>2 DEF Ids, Keys
    <3>4. PICK l \in DOMAIN graph.items : graph.items[l] = result.items[j]
      BY <1>1 DEF ToSet
    <3>5. l = i
      BY <1>1, <3>3, <3>4 DEF IsGraph
    <3> QED  BY <3>1, <3>4, <3>5 DEF ToSet
  <2> QED  BY <1>1, <2>1, SameNames
<1>5. ASSUME NEW i \in DOMAIN ids
      PROVE  Producers(result, result.inputs[ids[i]]) \subseteq First(ids, i - 1)
  <2>1. ids[i] \in Ids(result) /\ ids[i] = IdOf[merged.items[i]] /\ i \in DOMAIN merged.items
    BY <1>1, <1>2
  <2>2. result.inputs[ids[i]] \in Seq(Name)
    BY <1>1, <2>1 DEF IsGraph
  <2>3. \A j \in 1..(i - 1) : ids[j] = IdOf[merged.items[j]] /\ ids[j] \in Ids(result)
    BY <1>1, <1>2
  <2>4. ASSUME NEW nm \in ToSet(result.inputs[ids[i]]), Resolve(result, nm) # None
        PROVE  IdOf[Resolve(result, nm)[1]] \in First(ids, i - 1)
    <3>1. ProducerOf(graph, nm) \subseteq {IdOf[merged.items[j]] : j \in 1..(i - 1)}
      BY <1>1, <2>1 DEF Finished, Merging
    <3>2. ProducerOf(graph, nm) \subseteq First(ids, i - 1) /\ ProducerOf(graph, nm) \subseteq Ids(result)
      BY <2>3, <3>1 DEF First
    <3>3. Resolve(result, nm) = Resolve(graph, nm)
      BY <1>4, <2>2, <3>2 DEF ToSet
    <3> QED  BY <2>4, <3>2, <3>3 DEF ProducerOf
  <2> QED  BY <2>4 DEF Producers
<1> QED  BY <1>2, <1>3, <1>4, <1>5 DEF Sorted, ids

\* The port that is read now for a port of n: it has the same number, and its node
\* does the same with the same.
Stands(r, port) ==
  LET n == r[1]
      c == port[1]
  IN  /\ port = <<c, r[2]>> /\ c \in Node /\ IdOf[c] \in Ids(result) /\ NodeAt(result, IdOf[c]) = c /\ Op[c] = Op[n]
      /\ (n \in Effectful \cup Source \/ c \in Effectful \cup Source => c = n)
      /\ result.inputs[IdOf[c]] = RenamedAll(graph.inputs[IdOf[n]])

\* What is read instead of a name leads to a port that does the same; a name that
\* no node makes is read by itself.
LEMMA RenamedStands ==
  ASSUME MergeInv, NEW s, Finished(s), NEW nm \in Name, nm \in Reads(graph) \cup Ids(graph), ProducerOf(graph, nm) \subseteq live
  PROVE  /\ Renamed(nm) \in Name /\ ProducerOf(graph, Renamed(nm)) \subseteq Ids(result)
         /\ ProducerOf(result, Renamed(nm)) \subseteq Ids(result)
         /\ Resolve(graph, nm) = None => Renamed(nm) = nm /\ Resolve(result, nm) = None
         /\ Resolve(graph, nm) # None => Stands(Resolve(graph, nm), Resolve(result, Renamed(nm)))
<1>1. /\ IsGraph(graph) /\ IsGraph(result) /\ live \subseteq Ids(graph) /\ Readable
      /\ NamesAreUnambiguous /\ PortsAreListed
      /\ IsOrder(s) /\ Merging(s, Len(s)) /\ First(s, Len(s)) = live
      /\ Ids(result) = Keys(merged.items) /\ result.inputs = merged.inputs /\ result.items = merged.items
  BY DEF Finished, Readable, Ids
<1>2. PICK x : x = Renamed(nm)
  OBVIOUS
<1>3. x \in Name
  <2>1. <<nm>> \in Seq(Name) /\ DOMAIN <<nm>> = 1..1 /\ <<nm>>[1] = nm
    OBVIOUS
  <2>2. RenamedAll(<<nm>>) \in Seq(Name)
    BY <2>1, RenamedType
  <2>3. DOMAIN RenamedAll(<<nm>>) = 1..1 /\ RenamedAll(<<nm>>)[1] = x
    BY <1>2, <2>1 DEF RenamedAll
  <2> QED  BY <2>2, <2>3
<1>4. ProducerOf(graph, x) \subseteq Ids(result)
  BY <1>1, <1>2, RenamedLeads
<1>5. Resolve(result, x) = Resolve(graph, x)
  BY <1>3, <1>4, SurvivorsAreSorted
<1>6. ProducerOf(result, x) \subseteq Ids(result)
  BY <1>4, <1>5 DEF ProducerOf
<1>7. CASE nm \in DOMAIN alias
  <2>1. PICK k \in live \ Keys(merged.items) : nm \in Spellings(NodeAt(graph, k))
    BY <1>1, <1>7 DEF Merging
  <2>2. PICK n : n = NodeAt(graph, k)
    OBVIOUS
  <2>3. PICK c \in ToSet(merged.items) : MergedInto(n, c)
    BY <1>1, <2>2 DEF Merging
  <2>4. x = AliasFor(nm, n, c)
    BY <1>2, <1>7, <2>1, <2>2, <2>3 DEF Renamed, MergedInto
  <2>5. /\ n \in ToSet(graph.items) /\ IdOf[n] = k /\ c \in ToSet(graph.items)
        /\ IdOf[c] \in Ids(result) /\ NodeAt(result, IdOf[c]) = c /\ c \in Node
    <3>1. n \in ToSet(graph.items) /\ IdOf[n] = k
      <4>1. PICK i \in DOMAIN graph.items : IdOf[graph.items[i]] = k
        BY <1>1 DEF Ids, Keys
      <4>2. graph.items[i] = n
        BY <1>1, <2>2, <4>1, NodeAtPosition
      <4> QED  BY <4>1, <4>2 DEF ToSet
    <3>2. c \in ToSet(graph.items)
      BY <1>1 DEF Merging
    <3>3. PICK i \in DOMAIN result.items : result.items[i] = c
      BY <1>1 DEF ToSet
    <3>4. IdOf[c] \in Ids(result) /\ NodeAt(result, IdOf[c]) = c
      BY <1>1, <3>3, NodeAtPosition
    <3>5. c \in Node
      BY <1>1, <3>4, NodeAtFacts
    <3> QED  BY <3>1, <3>2, <3>4, <3>5
  <2>6. Resolve(graph, nm) # None /\ Resolve(graph, nm)[1] = n
    BY <1>1, <2>1, <2>2, <2>5, NamesLead
  <2>7. Resolve(graph, x) = <<c, Resolve(graph, nm)[2]>>
    BY <1>1, <2>1, <2>2, <2>4, <2>5, AliasLeads
  <2>8. /\ c \notin Effectful \cup Source /\ n \notin Effectful \cup Source /\ Op[c] = Op[n]
        /\ result.inputs[IdOf[c]] = RenamedAll(graph.inputs[IdOf[n]])
    BY <1>1, <2>3 DEF MergedInto, Mergeable
  <2>9. Stands(Resolve(graph, nm), Resolve(result, x))
    BY <1>5, <2>5, <2>6, <2>7, <2>8 DEF Stands
  <2> QED  BY <1>2, <1>3, <1>4, <1>6, <2>6, <2>9
<1>8. CASE nm \notin DOMAIN alias
  <2>1. x = nm
    BY <1>2, <1>8 DEF Renamed
  <2>2. ASSUME Resolve(graph, nm) # None
        PROVE  Stands(Resolve(graph, nm), Resolve(result, x))
    <3>1. PICK c : c = Resolve(graph, nm)[1]
      OBVIOUS
    <3>2. Resolve(graph, nm) \in Node \X Int /\ \E i \in DOMAIN graph.items : c = graph.items[i]
      BY <1>1, <2>2, <3>1, ResolveFacts
    <3>3. IdOf[c] \in Ids(result)
      BY <1>4, <2>1, <2>2, <3>1 DEF ProducerOf
    <3>4. NodeAt(result, IdOf[c]) = c
      <4>1. NodeAt(graph, IdOf[c]) = c
        BY <1>1, <3>2, NodeAtPosition
      <4> QED  BY <3>3, <4>1 DEF Finished
    <3>5. result.inputs[IdOf[c]] = RenamedAll(graph.inputs[IdOf[c]])
      BY <3>3 DEF Finished
    <3>6. Resolve(result, x) = <<c, Resolve(graph, nm)[2]>> /\ c \in Node
      <4>1. PICK r : r = Resolve(graph, nm)
        OBVIOUS
      <4>2. r = <<r[1], r[2]>> /\ r[1] \in Node
        BY <3>2, <4>1
      <4> QED  BY <1>5, <2>1, <3>1, <4>1, <4>2
    <3> QED  BY <3>1, <3>3, <3>4, <3>5, <3>6 DEF Stands
  <2> QED  BY <1>2, <1>3, <1>4, <1>5, <1>6, <2>1, <2>2
<1> QED  BY <1>7, <1>8

\* The values of names made by nodes in the order are the values of what is read
\* instead of them.
LEMMA ValuesKept ==
  ASSUME MergeInv, NEW s, Finished(s), NEW nm \in Name, nm \in Reads(graph) \cup Ids(graph), ProducerOf(graph, nm) \subseteq live
  PROVE  Values(result)[Renamed(nm)] = Values(graph)[nm]
<1>1. /\ IsGraph(graph) /\ IsGraph(result) /\ live \subseteq Ids(graph)
      /\ Sorted(graph, s) /\ ToSet(s) = live /\ Len(s) <= Len(graph.items)
      /\ First(s, Len(s)) = live /\ Len(s) \in Nat /\ DOMAIN s = 1..Len(s)
  BY DEF Finished, IsOrder
<1>2. PICK u, v : u = Values(graph) /\ v = Values(result)
  OBVIOUS
<1> DEFINE Named(x) == x \in Name /\ x \in Reads(graph) \cup Ids(graph)
           Same(m) == \A x : Named(x) /\ ProducerOf(graph, x) \subseteq First(s, m) => v[Renamed(x)] = u[x]
           l == Len(s)
           S == {m \in 0..l : Same(m)}
<1>3. ASSUME NEW x, Named(x), ProducerOf(graph, x) \subseteq live
      PROVE  u[x] = ValueFrom(graph, u, x) /\ v[Renamed(x)] = ValueFrom(result, v, Renamed(x))
  <2>1. u[x] = ValueFrom(graph, u, x)
    BY <1>1, <1>2, <1>3, ValuesSettle
  <2>2. PICK y : y = Renamed(x)
    OBVIOUS
  <2>3. y \in Name /\ ProducerOf(result, y) \subseteq Ids(result)
    BY <1>3, <2>2, RenamedStands
  <2>4. PICK ids : ids = IdList(result.items)
    OBVIOUS
  <2>5. Sorted(result, ids) /\ Len(ids) = Len(result.items) /\ Len(result.items) \in Nat /\ ToSet(ids) = Ids(result)
    BY <2>4, SurvivorsAreSorted
  <2>6. v[y] = ValueFrom(result, v, y)
    BY <1>1, <1>2, <2>3, <2>5, ValuesSettle
  <2> QED  BY <2>1, <2>2, <2>6
<1>4. ASSUME NEW x, Named(x), Resolve(graph, x) = None
      PROVE  v[Renamed(x)] = u[x]
  <2>1. ProducerOf(graph, x) \subseteq live
    BY <1>4 DEF ProducerOf
  <2>2. Renamed(x) = x /\ Resolve(result, x) = None
    BY <1>4, <2>1, RenamedStands
  <2>3. u[x] = ValueFrom(graph, u, x) /\ v[x] = ValueFrom(result, v, x)
    BY <1>3, <1>4, <2>1, <2>2
  <2> QED  BY <1>4, <2>2, <2>3 DEF ValueFrom
<1>5. ASSUME NEW m \in 1..l, Same(m - 1), NEW x, Named(x), Resolve(graph, x) # None, IdOf[Resolve(graph, x)[1]] = s[m]
      PROVE  v[Renamed(x)] = u[x]
  <2>1. PICK y, r, port : y = Renamed(x) /\ r = Resolve(graph, x) /\ port = Resolve(result, y)
    OBVIOUS
  <2>2. ProducerOf(graph, x) \subseteq live /\ m \in DOMAIN s
    <3>1. s[m] \in live /\ m \in DOMAIN s
      BY <1>1 DEF ToSet
    <3> QED  BY <1>5, <3>1 DEF ProducerOf
  <2>3. u[x] = ValueFrom(graph, u, x) /\ v[y] = ValueFrom(result, v, y)
    BY <1>3, <1>5, <2>1, <2>2
  <2>4. Stands(r, port)
    BY <1>5, <2>1, <2>2, RenamedStands
  <2>5. PICK n, c, read, new : n = r[1] /\ c = port[1] /\ read = graph.inputs[IdOf[n]] /\ new = result.inputs[IdOf[c]]
    OBVIOUS
  <2>6. /\ port = <<c, r[2]>> /\ c \in Node /\ Op[c] = Op[n] /\ new = RenamedAll(read)
        /\ (n \in Effectful \cup Source \/ c \in Effectful \cup Source => c = n)
    BY <2>4, <2>5 DEF Stands
  <2>7. port # None /\ r # None
    BY <1>5, <2>1, <2>4, NoneAssumption, ResolveFacts, <1>1 DEF Stands
  <2>8. DOMAIN new = DOMAIN read /\ \A i \in DOMAIN read : new[i] = Renamed(read[i])
    BY <2>6 DEF RenamedAll
  <2>9. ASSUME NEW i \in DOMAIN read
        PROVE  v[new[i]] = u[read[i]]
    <3>1. read[i] \in Name /\ ProducerOf(graph, read[i]) \subseteq First(s, m - 1)
      <4>1. /\ graph.inputs[IdOf[Resolve(graph, x)[1]]] \in Seq(Name)
            /\ \A p \in DOMAIN graph.inputs[IdOf[Resolve(graph, x)[1]]] :
                 /\ graph.inputs[IdOf[Resolve(graph, x)[1]]][p] \in Name
                 /\ ProducerOf(graph, graph.inputs[IdOf[Resolve(graph, x)[1]]][p]) \subseteq First(s, m - 1)
        BY <1>1, <1>5, <2>2, SortedReads
      <4> QED  BY <2>1, <2>5, <4>1
    <3>2. read[i] \in Reads(graph)
      <4>1. IdOf[n] \in Ids(graph)
        BY <1>1, <1>5, <2>1, <2>5, ResolveFacts
      <4> QED  BY <2>5, <4>1 DEF Reads, ToSet
    <3> QED  BY <1>5, <2>8, <3>1, <3>2
  <2>10. [i \in DOMAIN new |-> v[new[i]]] = [i \in DOMAIN read |-> u[read[i]]]
    BY <2>8, <2>9
  <2>11. (IF n \in Effectful \cup Source THEN IdOf[n] ELSE None) = (IF c \in Effectful \cup Source THEN IdOf[c] ELSE None)
    BY <2>6
  <2>12. /\ ValueFrom(graph, u, x) = Term(Op[n], IF n \in Effectful \cup Source THEN IdOf[n] ELSE None,
                                          [i \in DOMAIN read |-> u[read[i]]], r[2])
         /\ ValueFrom(result, v, y) = Term(Op[c], IF c \in Effectful \cup Source THEN IdOf[c] ELSE None,
                                           [i \in DOMAIN new |-> v[new[i]]], port[2])
    BY <2>1, <2>5, <2>7 DEF ValueFrom
  <2>13. port[2] = r[2]
    BY <2>6
  <2> QED  BY <2>1, <2>3, <2>6, <2>10, <2>11, <2>12, <2>13
<1> HIDE DEF Named
<1>6. 0 \in S
  <2>1. ASSUME NEW x, Named(x), ProducerOf(graph, x) \subseteq First(s, 0)
        PROVE  v[Renamed(x)] = u[x]
    <3>1. Resolve(graph, x) = None
      BY <2>1 DEF ProducerOf, First
    <3> QED  BY <1>4, <2>1, <3>1
  <2> QED  BY <1>1, <2>1
<1>7. ASSUME NEW m \in 1..l, m - 1 \in S
      PROVE  m \in S
  <2>1. Same(m - 1)
    BY <1>7
  <2>2. ASSUME NEW x, Named(x), ProducerOf(graph, x) \subseteq First(s, m)
        PROVE  v[Renamed(x)] = u[x]
    <3>1. CASE Resolve(graph, x) = None
      BY <1>4, <2>2, <3>1
    <3>2. CASE Resolve(graph, x) # None /\ IdOf[Resolve(graph, x)[1]] = s[m]
      <4> HIDE DEF Same
      <4> QED  BY <1>5, <2>1, <2>2, <3>2
    <3>3. CASE Resolve(graph, x) # None /\ IdOf[Resolve(graph, x)[1]] # s[m]
      <4>1. 1..m = 1..(m - 1) \cup {m}
        BY <1>1
      <4>2. ProducerOf(graph, x) \subseteq First(s, m - 1)
        BY <2>2, <3>3, <4>1 DEF ProducerOf, First
      <4> QED  BY <2>1, <2>2, <4>2
    <3> QED  BY <3>1, <3>2, <3>3
  <2>3. Same(m) /\ m \in 0..l
    BY <1>1, <2>2
  <2> HIDE DEF Same
  <2> QED  BY <2>3
<1>8. 0..l \subseteq S
  <2> HIDE DEF S
  <2> QED  BY <1>1, <1>6, <1>7, UpTo
<1>9. Same(l)
  <2> HIDE DEF Same
  <2>1. l \in 0..l
    BY <1>1
  <2> QED  BY <1>8, <2>1
<1> QED  BY <1>1, <1>2, <1>9 DEF Named

\* eliminate_dead_nodes keeps every output when nodes make them all.
LEMMA LiveOutputs ==
  ASSUME SearchInv, pc # "sweeping", OutputsAreMade
  PROVE  Pruned.outputs = graph.outputs
<1>1. /\ IsGraph(graph) /\ live \subseteq Ids(graph) /\ graph.outputs \in Seq(Name)
      /\ Producers(graph, graph.outputs) \subseteq live
  BY LiveIsSufficient DEF SearchInv, Sufficient, IsGraph
<1>2. ASSUME NEW i \in DOMAIN graph.outputs
      PROVE  IsLive(graph.outputs[i]) <=> Resolve(graph, graph.outputs[i]) # None
  <2>1. PICK nm : nm = graph.outputs[i]
    OBVIOUS
  <2>2. nm \in Name /\ ProducerOf(graph, nm) \subseteq live
    <3>1. ProducerOf(graph, nm) \subseteq Producers(graph, graph.outputs)
      BY <2>1, ProducersUnion
    <3> QED  BY <1>1, <2>1, <3>1
  <2>3. CASE nm \in Ids(graph)
    <3>1. Resolve(graph, nm) = <<NodeAt(graph, nm), 0>> /\ NodeAt(graph, nm) \in Node /\ IdOf[NodeAt(graph, nm)] = nm
      BY <1>1, <2>3, NodeAtFacts DEF Resolve
    <3>2. Resolve(graph, nm) # None
      BY <3>1, NoneAssumption
    <3>3. nm \in live
      BY <2>2, <3>1, <3>2 DEF ProducerOf
    <3> QED  BY <2>1, <3>2, <3>3 DEF IsLive
  <2>4. CASE nm \notin Ids(graph)
    <3>1. Resolve(graph, nm) = PortOf(graph, nm) /\ nm \notin live
      BY <1>1, <2>4 DEF Resolve
    <3> QED  BY <2>1, <2>2, <3>1 DEF IsLive, ProducerOf
  <2> QED  BY <2>3, <2>4
<1>3. DOMAIN graph.outputs \subseteq {i \in DOMAIN graph.outputs : IsLive(graph.outputs[i])}
  BY <1>2 DEF OutputsAreMade, ToSet
<1>4. Pruned.outputs = Selected(graph.outputs, {i \in DOMAIN graph.outputs : IsLive(graph.outputs[i])})
  BY DEF Pruned
<1>5. Selected(graph.outputs, {i \in DOMAIN graph.outputs : IsLive(graph.outputs[i])}) = graph.outputs
  BY <1>1, <1>3, SelectedAll
<1> QED  BY <1>4, <1>5

\* Whatever names are merged away, the graph that comes out returns what the graph that
\* went in returned, value by value, when a node makes each output.
THEOREM OutputsKeepTheirValuesHolds == Spec => []OutputsKeepTheirValues
<1>1. SearchInv /\ SweptInv /\ MergeInv /\ ProgressInv => OutputsKeepTheirValues
  <2> SUFFICES ASSUME SearchInv, SweptInv, MergeInv, ProgressInv, pc = "merged", Readable, OutputsAreMade
               PROVE  SameOutputs
    BY DEF OutputsKeepTheirValues, Readable
  <2>1. PICK s : Finished(s)
    BY MergingFinishes
  <2>2. PICK made : made = Pruned.outputs
    OBVIOUS
  <2>3. made = graph.outputs
    BY <2>2, LiveOutputs
  <2>4. result.outputs = RenamedAll(made)
    BY <2>1, <2>2 DEF Finished
  <2>5. ASSUME NEW i \in DOMAIN made
        PROVE  Values(result)[Renamed(made[i])] = Values(graph)[made[i]]
    <3>1. made[i] \in ToSet(Pruned.outputs)
      BY <2>2 DEF ToSet
    <3>2. made[i] \in Name /\ ProducerOf(graph, made[i]) \subseteq live /\ made[i] \in Reads(graph)
      BY <3>1, PrunedReads
    <3> QED  BY <2>1, <3>2, ValuesKept
  <2>6. DOMAIN result.outputs = DOMAIN made /\ \A i \in DOMAIN made : result.outputs[i] = Renamed(made[i])
    BY <2>4 DEF RenamedAll
  <2>7. [i \in DOMAIN result.outputs |-> Values(result)[result.outputs[i]]] = [i \in DOMAIN made |-> Values(graph)[made[i]]]
    BY <2>5, <2>6
  <2> QED  BY <2>3, <2>7 DEF SameOutputs
<1> QED  BY <1>1, SearchInvariant, SweptInvariant, MergeInvariant, ProgressInvariant, PTL

\* A node that was kept reads under its own id what it read.
LEMMA SurvivorKeepsItsId ==
  ASSUME NEW s, Finished(s), NEW k \in Ids(result)
  PROVE  Renamed(k) = k
<1>1. /\ IsGraph(graph) /\ IsGraph(result) /\ live \subseteq Ids(graph) /\ NamesAreUnambiguous
      /\ Ids(result) = Keys(merged.items) /\ Ids(result) \subseteq live
      /\ Merging(s, Len(s)) /\ First(s, Len(s)) = live
  BY DEF Finished, Readable, Ids
<1>2. ASSUME k \in DOMAIN alias
      PROVE  FALSE
  <2>1. PICK j \in live \ Ids(result) : k \in Spellings(NodeAt(graph, j))
    BY <1>1, <1>2 DEF Merging
  <2>2. PICK i \in DOMAIN graph.items : IdOf[graph.items[i]] = j
    BY <1>1 DEF Ids, Keys
  <2>3. NodeAt(graph, j) = graph.items[i] /\ graph.items[i] \in ToSet(graph.items)
    BY <1>1, <2>2, NodeAtPosition DEF ToSet
  <2>4. ProducerOf(graph, k) = {j} /\ Resolve(graph, k) # None
    BY <1>1, <2>1, <2>2, <2>3, NamesLead
  <2>5. Resolve(graph, k) = <<NodeAt(graph, k), 0>> /\ IdOf[NodeAt(graph, k)] = k
    BY <1>1, NodeAtFacts DEF Resolve
  <2> QED  BY <2>1, <2>4, <2>5 DEF ProducerOf
<1> QED  BY <1>2 DEF Renamed

\* What acts outside the graph is there once, and acts on what it acted on.
THEOREM EffectsKeepTheirArgumentsHolds == Spec => []EffectsKeepTheirArguments
<1>1. SearchInv /\ SweptInv /\ MergeInv /\ ProgressInv => EffectsKeepTheirArguments
  <2> SUFFICES ASSUME SearchInv, SweptInv, MergeInv, ProgressInv, pc = "merged", Readable,
                      NEW n \in ToSet(graph.items), n \in Effectful \/ (n \in Source /\ IdOf[n] \in live)
               PROVE  /\ Cardinality({i \in DOMAIN result.items : result.items[i] = n}) = 1
                      /\ Values(result)[IdOf[n]] = Values(graph)[IdOf[n]]
    BY DEF EffectsKeepTheirArguments, Readable
  <2>1. PICK s : Finished(s)
    BY MergingFinishes
  <2>2. /\ IsGraph(graph) /\ IsGraph(result) /\ live \subseteq Ids(graph) /\ Sufficient(live)
        /\ Ids(result) = Keys(merged.items) /\ Merging(s, Len(s)) /\ First(s, Len(s)) = live
    BY <2>1 DEF Finished, Ids
  <2>3. PICK k : k = IdOf[n]
    OBVIOUS
  <2>4. NodeAt(graph, k) = n /\ n \in Node /\ k \in Ids(graph) /\ k \in Name
    <3>1. PICK i \in DOMAIN graph.items : graph.items[i] = n
      BY DEF ToSet
    <3>2. NodeAt(graph, k) = n /\ k \in Ids(graph)
      BY <2>2, <2>3, <3>1, NodeAtPosition
    <3>3. n \in Node
      BY <2>2, <3>2, NodeAtFacts
    <3> QED  BY <2>3, <3>2, <3>3, IdOfAssumption, OutputsAssumption
  <2>5. k \in live
    BY <2>2, <2>3 DEF Sufficient
  <2>6. k \in Ids(result)
    <3> SUFFICES ASSUME k \notin Ids(result)
                 PROVE  FALSE
      OBVIOUS
    <3>1. PICK c : MergedInto(n, c)
      BY <2>2, <2>4, <2>5 DEF Merging
    <3> QED  BY <3>1 DEF MergedInto, Mergeable
  <2>7. Values(result)[k] = Values(graph)[k]
    <3>1. Resolve(graph, k) = <<n, 0>>
      BY <2>4 DEF Resolve
    <3>2. ProducerOf(graph, k) \subseteq live
      BY <2>3, <2>5, <3>1 DEF ProducerOf
    <3>3. Renamed(k) = k
      BY <2>1, <2>6, SurvivorKeepsItsId
    <3> QED  BY <2>1, <2>4, <3>2, <3>3, ValuesKept
  <2>8. PICK i \in DOMAIN result.items : IdOf[result.items[i]] = k
    BY <2>6 DEF Ids, Keys
  <2>9. result.items[i] = n
    <3>1. NodeAt(result, k) = result.items[i]
      BY <2>2, <2>8, NodeAtPosition
    <3> QED  BY <2>1, <2>4, <2>6, <3>1 DEF Finished
  <2>10. {j \in DOMAIN result.items : result.items[j] = n} = {i}
    BY <2>2, <2>9 DEF IsGraph
  <2> QED  BY <2>3, <2>7, <2>10, FS_Singleton
<1> QED  BY <1>1, SearchInvariant, SweptInvariant, MergeInvariant, ProgressInvariant, PTL

\* What nodes make is read by ids, of nodes that list no other output.
ReadById ==
  \A nm \in Reads(graph) : Resolve(graph, nm) # None =>
    nm \in Ids(graph) /\ Outputs[NodeAt(graph, nm)] = <<nm>>

\* A survivor is then referred to by one name only.
LEMMA OneNameEach ==
  ASSUME MergeInv, ReadById, NEW s, Finished(s), NEW nm \in Name, nm \in Reads(graph), ProducerOf(graph, nm) \subseteq live,
         Resolve(result, Renamed(nm)) # None
  PROVE  \E c \in Node : Resolve(result, Renamed(nm)) = <<c, 0>> /\ Renamed(nm) = OutputName(c, 0)
<1>1. /\ IsGraph(graph) /\ live \subseteq Ids(graph) /\ NamesAreUnambiguous
      /\ Merging(s, Len(s)) /\ First(s, Len(s)) = live
  BY DEF Finished, Readable
<1>2. PICK x : x = Renamed(nm)
  OBVIOUS
<1>3. Resolve(graph, nm) # None /\ Stands(Resolve(graph, nm), Resolve(result, x))
  BY <1>2, RenamedStands
<1>4. PICK n : n = NodeAt(graph, nm)
  OBVIOUS
<1>5. nm \in Ids(graph) /\ Outputs[n] = <<nm>> /\ n \in Node /\ IdOf[n] = nm /\ Resolve(graph, nm) = <<n, 0>>
  BY <1>1, <1>3, <1>4, NodeAtFacts DEF ReadById, Resolve
<1>6. PICK c : c = Resolve(result, x)[1]
  OBVIOUS
<1>7. Resolve(result, x) = <<c, 0>> /\ c \in Node
  BY <1>3, <1>5, <1>6 DEF Stands
<1>8. Resolve(graph, x) = <<c, 0>>
  <2>1. x \in Name /\ ProducerOf(graph, x) \subseteq Ids(result)
    BY <1>2, RenamedStands
  <2> QED  BY <1>7, <2>1, SurvivorsAreSorted
<1>9. CASE nm \in DOMAIN alias
  <2>1. PICK k \in live \ Keys(merged.items) : nm \in Spellings(NodeAt(graph, k))
    BY <1>1, <1>9 DEF Merging
  <2>2. PICK o : o = NodeAt(graph, k)
    OBVIOUS
  <2>3. PICK d \in ToSet(merged.items) : MergedInto(o, d)
    BY <1>1, <2>1, <2>2 DEF Merging
  <2>4. x = AliasFor(nm, o, d)
    BY <1>2, <1>9, <2>1, <2>2, <2>3 DEF Renamed, MergedInto
  <2>5. o \in ToSet(graph.items) /\ d \in ToSet(graph.items) /\ o \in Node /\ d \in Node
    <3>1. PICK i \in DOMAIN graph.items : IdOf[graph.items[i]] = k
      BY <1>1, <2>1 DEF Ids, Keys
    <3>2. graph.items[i] = o
      BY <1>1, <2>2, <3>1, NodeAtPosition
    <3>3. d \in ToSet(graph.items)
      BY <1>1 DEF Merging
    <3> QED  BY <1>1, <3>2, <3>3 DEF ToSet, IsGraph
  <2>6. o = n
    BY <1>1, <1>5, <2>1, <2>2, <2>5, NamesLead
  <2>7. d = c
    <3>1. Resolve(graph, x) = <<d, Resolve(graph, nm)[2]>>
      BY <1>1, <2>1, <2>2, <2>4, <2>5, AliasLeads
    <3> QED  BY <1>8, <3>1
  <2>8. PortsNamed(n, nm) = {1}
    <3>1. DOMAIN Outputs[n] = {1} /\ Outputs[n][1] = nm
      BY <1>5
    <3> QED  BY <3>1 DEF PortsNamed
  <2>9. x = OutputName(c, 1 - 1)
    BY <2>4, <2>5, <2>6, <2>7, <2>8, AliasForFacts
  <2> QED  BY <1>2, <1>7, <2>9
<1>10. CASE nm \notin DOMAIN alias
  <2>1. x = nm /\ c = n
    BY <1>2, <1>5, <1>8, <1>10 DEF Renamed
  <2>2. OutputName(n, 0) = nm
    <3>1. 0 + 1 \in DOMAIN Outputs[n] /\ Outputs[n][0 + 1] = nm
      BY <1>5
    <3> QED  BY <3>1 DEF OutputName
  <2> QED  BY <1>2, <1>7, <2>1, <2>2
<1> QED  BY <1>9, <1>10

\* Two values of one operation are values of the same arguments; what no node makes
\* differs from what a node makes.
LEMMA TermFacts ==
  ASSUME NEW op, NEW by, NEW args, NEW idx, NEW op2, NEW by2, NEW args2, NEW idx2, NEW x, NEW y
  PROVE  /\ Term(op, by, args, idx) = Term(op2, by2, args2, idx2) => op = op2 /\ by = by2 /\ args = args2
         /\ External(x) = External(y) => x = y
         /\ External(x) # Term(op, by, args, idx)
<1>1. Term(op, by, args, idx) = Term(op2, by2, args2, idx2) => op = op2 /\ by = by2 /\ args = args2
  BY DEF Term
<1>2. External(x) = External(y) => x = y
  BY DEF External
<1>3. External(x) # Term(op, by, args, idx)
  <2>1. DOMAIN External(x) = {"external"} /\ "op" \in DOMAIN Term(op, by, args, idx) /\ "op" # "external"
    BY DEF External, Term
  <2> QED  BY <2>1
<1> QED  BY <1>1, <1>2, <1>3

\* The value of a name that leads to port j of n.
By(n) == IF n \in Effectful \cup Source THEN IdOf[n] ELSE None
Args(v, read) == [i \in DOMAIN read |-> v[read[i]]]

LEMMA ValueFromNode ==
  ASSUME NEW g, NEW v, NEW nm, NEW n \in Node, NEW j \in Int, Resolve(g, nm) = <<n, j>>
  PROVE  ValueFrom(g, v, nm) = Term(Op[n], By(n), Args(v, g.inputs[IdOf[n]]), j)
<1>1. Resolve(g, nm) # None /\ Resolve(g, nm)[1] = n /\ Resolve(g, nm)[2] = j
  BY NoneAssumption
<1> QED  BY <1>1 DEF ValueFrom, Args, By

\* The first m survivors have different values.
Differ(m) ==
  \A i, j \in 1..m : Values(result)[IdOf[result.items[i]]] = Values(result)[IdOf[result.items[j]]] => i = j

\* The value of a survivor is made of the values of what it reads.
LEMMA SurvivorValues ==
  ASSUME NEW s, Finished(s)
  PROVE  /\ \A x \in Name : ProducerOf(result, x) \subseteq Ids(result) =>
              Values(result)[x] = ValueFrom(result, Values(result), x)
         /\ \A i \in DOMAIN result.items :
              LET k == IdOf[result.items[i]]
              IN  k \in Name /\ Resolve(result, k) = <<result.items[i], 0>>
                  /\ Values(result)[k] = ValueFrom(result, Values(result), k)
<1>1. IsGraph(result) /\ result.items \in Seq(Node)
  BY DEF Finished, IsGraph
<1>2. PICK ids : ids = IdList(result.items)
  OBVIOUS
<1>3. Sorted(result, ids) /\ Len(ids) = Len(result.items) /\ ToSet(ids) = Ids(result) /\ Len(result.items) \in Nat
  BY <1>2, SurvivorsAreSorted
<1>4. ASSUME NEW x \in Name, ProducerOf(result, x) \subseteq Ids(result)
      PROVE  Values(result)[x] = ValueFrom(result, Values(result), x)
  BY <1>1, <1>3, <1>4, ValuesSettle
<1>5. ASSUME NEW i \in DOMAIN result.items
      PROVE  LET k == IdOf[result.items[i]]
             IN  k \in Name /\ Resolve(result, k) = <<result.items[i], 0>> /\ ProducerOf(result, k) \subseteq Ids(result)
  <2>1. PICK k : k = IdOf[result.items[i]]
    OBVIOUS
  <2>2. result.items[i] \in Node
    BY <1>1
  <2>3. k \in Name
    BY <2>1, <2>2, IdOfAssumption, OutputsAssumption
  <2>4. k \in Ids(result) /\ NodeAt(result, k) = result.items[i]
    BY <1>1, <2>1, NodeAtPosition
  <2>5. Resolve(result, k) = <<result.items[i], 0>>
    BY <2>4 DEF Resolve
  <2>6. ProducerOf(result, k) \subseteq Ids(result)
    BY <2>1, <2>4, <2>5 DEF ProducerOf
  <2> QED  BY <2>1, <2>3, <2>5, <2>6
<1> QED  BY <1>4, <1>5

\* Equal values of what survivors i and j read have one name, if the values of the
\* survivors before them differ.
LEMMA SameReads ==
  ASSUME MergeInv, ReadById, NEW s, Finished(s), NEW m \in Nat, m <= Len(result.items), Differ(m - 1),
         NEW i \in 1..m, NEW j \in 1..m,
         NEW x \in ToSet(result.inputs[IdOf[result.items[i]]]), NEW y \in ToSet(result.inputs[IdOf[result.items[j]]]),
         Values(result)[x] = Values(result)[y]
  PROVE  x = y
<1>1. /\ IsGraph(graph) /\ IsGraph(result) /\ live \subseteq Ids(graph) /\ Ids(result) \subseteq live
      /\ Sufficient(live) /\ result.items \in Seq(Node) /\ Len(result.items) \in Nat
      /\ DOMAIN result.items = 1..Len(result.items)
  <2>1. /\ IsGraph(graph) /\ IsGraph(result) /\ live \subseteq Ids(graph) /\ Ids(result) \subseteq live
        /\ Sufficient(live)
    BY DEF Finished
  <2>2. result.items \in Seq(Node)
    BY <2>1 DEF IsGraph
  <2> QED  BY <2>1, <2>2
<1>2. PICK v, ids : v = Values(result) /\ ids = IdList(result.items)
  OBVIOUS
<1>3. Sorted(result, ids) /\ DOMAIN ids = DOMAIN result.items /\ \A p \in DOMAIN ids : ids[p] = IdOf[result.items[p]]
  BY <1>2, SurvivorsAreSorted DEF IdList
<1>4. ASSUME NEW p \in 1..m, NEW z \in ToSet(result.inputs[IdOf[result.items[p]]])
      PROVE  /\ v[z] = ValueFrom(result, v, z)
             /\ Resolve(result, z) # None =>
                  \E q \in 1..(m - 1) : Resolve(result, z) = <<result.items[q], 0>> /\ z = OutputName(result.items[q], 0)
  <2>1. PICK k : k = IdOf[result.items[p]]
    OBVIOUS
  <2>2. p \in DOMAIN ids /\ k = ids[p] /\ k \in Ids(result) /\ p \in 1..Len(result.items)
    <3>1. p \in 1..Len(result.items)
      BY <1>1
    <3> QED  BY <1>1, <1>3, <2>1, <3>1 DEF Ids, Keys
  <2>3. result.inputs[k] = RenamedAll(graph.inputs[k]) /\ k \in Ids(graph) /\ k \in live
    BY <1>1, <2>2 DEF Finished
  <2>4. PICK nm \in ToSet(graph.inputs[k]) : z = Renamed(nm)
    <3>1. z \in ToSet(RenamedAll(graph.inputs[k]))
      BY <2>1, <2>3
    <3> QED  BY <3>1 DEF RenamedAll, ToSet
  <2>5. nm \in Name /\ nm \in Reads(graph) /\ ProducerOf(graph, nm) \subseteq live
    <3>1. graph.inputs[k] \in Seq(Name) /\ Producers(graph, graph.inputs[k]) \subseteq live
      BY <1>1, <2>3 DEF IsGraph, Sufficient
    <3>2. ProducerOf(graph, nm) \subseteq Producers(graph, graph.inputs[k])
      BY DEF ProducerOf, Producers
    <3>3. nm \in Name
      BY <3>1 DEF ToSet
    <3>4. nm \in Reads(graph)
      BY <2>3 DEF Reads
    <3> QED  BY <3>1, <3>2, <3>3, <3>4
  <2>6. z \in Name /\ ProducerOf(result, z) \subseteq Ids(result)
    BY <2>4, <2>5, RenamedStands
  <2>7. v[z] = ValueFrom(result, v, z)
    BY <1>2, <2>6, SurvivorValues
  <2>8. ASSUME Resolve(result, z) # None
        PROVE  \E q \in 1..(m - 1) : Resolve(result, z) = <<result.items[q], 0>> /\ z = OutputName(result.items[q], 0)
    <3>1. PICK c \in Node : Resolve(result, z) = <<c, 0>> /\ z = OutputName(c, 0)
      BY <2>4, <2>5, <2>8, OneNameEach
    <3>2. IdOf[c] \in Producers(result, result.inputs[k])
      <4>1. Resolve(result, z)[1] = c
        BY <3>1
      <4>2. z \in {u \in ToSet(result.inputs[k]) : Resolve(result, u) # None}
        BY <2>1, <2>8
      <4> QED  BY <4>1, <4>2 DEF Producers
    <3>3. PICK q \in 1..(p - 1) : IdOf[c] = ids[q]
      BY <1>3, <2>2, <3>2 DEF Sorted, First
    <3>4. q \in 1..(m - 1) /\ q \in DOMAIN result.items
      BY <1>1
    <3>5. result.items[q] = c
      <4>1. NodeAt(result, IdOf[result.items[q]]) = result.items[q]
        BY <1>1, <3>4, NodeAtPosition
      <4>2. PICK l \in DOMAIN result.items : Resolve(result, z)[1] = result.items[l]
        BY <1>1, <2>6, <2>8, ResolveFacts
      <4>3. NodeAt(result, IdOf[result.items[l]]) = result.items[l]
        BY <1>1, NodeAtPosition
      <4>4. c = result.items[l]
        BY <3>1, <4>2
      <4>5. IdOf[c] = IdOf[result.items[q]]
        BY <1>3, <3>3, <3>4
      <4> QED  BY <4>1, <4>3, <4>4, <4>5
    <3> QED  BY <3>1, <3>4, <3>5
  <2> QED  BY <2>7, <2>8
<1>5. ASSUME NEW z, v[z] = ValueFrom(result, v, z)
      PROVE  /\ Resolve(result, z) = None => v[z] = External(z)
             /\ Resolve(result, z) # None => \A w : v[z] # External(w)
  <2>1. CASE Resolve(result, z) = None
    BY <1>5, <2>1 DEF ValueFrom
  <2>2. CASE Resolve(result, z) # None
    <3>1. PICK op, by, args, idx : v[z] = Term(op, by, args, idx)
      BY <1>5, <2>2 DEF ValueFrom
    <3> QED  BY <2>2, <3>1, TermFacts
  <2> QED  BY <2>1, <2>2
<1>6. v[x] = v[y] /\ v[x] = ValueFrom(result, v, x) /\ v[y] = ValueFrom(result, v, y)
  BY <1>2, <1>4
<1>7. CASE Resolve(result, x) = None \/ Resolve(result, y) = None
  BY <1>5, <1>6, <1>7, TermFacts
<1>8. CASE Resolve(result, x) # None /\ Resolve(result, y) # None
  <2>1. PICK p \in 1..(m - 1) : Resolve(result, x) = <<result.items[p], 0>> /\ x = OutputName(result.items[p], 0)
    BY <1>4, <1>8
  <2>2. PICK q \in 1..(m - 1) : Resolve(result, y) = <<result.items[q], 0>> /\ y = OutputName(result.items[q], 0)
    BY <1>4, <1>8
  <2>3. ASSUME NEW z, NEW r \in 1..(m - 1), Resolve(result, z) = <<result.items[r], 0>>, v[z] = ValueFrom(result, v, z)
        PROVE  v[z] = v[IdOf[result.items[r]]]
    <3>1. PICK k : k = IdOf[result.items[r]]
      OBVIOUS
    <3>2. r \in DOMAIN result.items
      BY <1>1
    <3>3. Resolve(result, k) = <<result.items[r], 0>> /\ v[k] = ValueFrom(result, v, k)
      BY <1>2, <3>1, <3>2, SurvivorValues
    <3>4. result.items[r] \in Node
      BY <1>1, <3>2
    <3>5. ValueFrom(result, v, k) = ValueFrom(result, v, z)
      <4>1. Resolve(result, k) = Resolve(result, z)
        BY <2>3, <3>3
      <4>2. Resolve(result, k) # None
        BY <3>3, <3>4, NoneAssumption
      <4> QED  BY <4>1, <4>2 DEF ValueFrom
    <3> QED  BY <2>3, <3>1, <3>3, <3>5
  <2>4. v[IdOf[result.items[p]]] = v[IdOf[result.items[q]]]
    BY <1>6, <2>1, <2>2, <2>3
  <2>5. p = q
    BY <1>2, <2>4 DEF Differ
  <2> QED  BY <2>1, <2>2, <2>5
<1> QED  BY <1>7, <1>8

LEMMA SurvivorsDiffer ==
  ASSUME MergeInv, ProgressInv, ReadById, pc = "merged", NEW s, Finished(s)
  PROVE  Differ(Len(result.items))
<1> DEFINE n == Len(result.items)
           S == {m \in 0..n : Differ(m)}
<1>1. /\ IsGraph(result) /\ result.items \in Seq(Node) /\ n \in Nat /\ DOMAIN result.items = 1..n
      /\ result.items = merged.items /\ result.inputs = merged.inputs
  BY DEF Finished, IsGraph
<1>2. 0 \in S
  BY <1>1 DEF Differ
<1>3. ASSUME NEW m \in 1..n, m - 1 \in S
      PROVE  m \in S
  <2>1. PICK v : v = Values(result)
    OBVIOUS
  <2>2. ASSUME NEW i \in 1..m, NEW j \in 1..m, v[IdOf[result.items[i]]] = v[IdOf[result.items[j]]]
        PROVE  i = j
    <3>1. PICK c, d, new, other : /\ c = result.items[i] /\ d = result.items[j]
                                  /\ new = result.inputs[IdOf[c]] /\ other = result.inputs[IdOf[d]]
      OBVIOUS
    <3>2. i \in DOMAIN result.items /\ j \in DOMAIN result.items /\ c \in Node /\ d \in Node /\ m \in Nat /\ m <= n
      BY <1>1, <3>1
    <3>3. /\ Resolve(result, IdOf[c]) = <<c, 0>> /\ v[IdOf[c]] = ValueFrom(result, v, IdOf[c])
          /\ Resolve(result, IdOf[d]) = <<d, 0>> /\ v[IdOf[d]] = ValueFrom(result, v, IdOf[d])
      BY <2>1, <3>1, <3>2, SurvivorValues
    <3>4. v[IdOf[c]] = Term(Op[c], By(c), Args(v, new), 0)
      <4>1. Resolve(result, IdOf[c]) = <<c, 0>> /\ c \in Node /\ 0 \in Int
        BY <3>2, <3>3
      <4>2. ValueFrom(result, v, IdOf[c]) = Term(Op[c], By(c), Args(v, result.inputs[IdOf[c]]), 0)
        BY <4>1, ValueFromNode
      <4> QED  BY <3>1, <3>3, <4>2
    <3>5. v[IdOf[d]] = Term(Op[d], By(d), Args(v, other), 0)
      <4>1. Resolve(result, IdOf[d]) = <<d, 0>> /\ d \in Node /\ 0 \in Int
        BY <3>2, <3>3
      <4>2. ValueFrom(result, v, IdOf[d]) = Term(Op[d], By(d), Args(v, result.inputs[IdOf[d]]), 0)
        BY <4>1, ValueFromNode
      <4> QED  BY <3>1, <3>3, <4>2
    <3>6. Op[c] = Op[d] /\ By(c) = By(d) /\ Args(v, new) = Args(v, other)
      <4>1. Term(Op[c], By(c), Args(v, new), 0) = Term(Op[d], By(d), Args(v, other), 0)
        BY <2>2, <3>1, <3>4, <3>5
      <4> QED  BY <4>1, TermFacts
    <3>7. IdOf[c] # None /\ IdOf[d] # None
      BY <3>2, KindAssumption, IdOfAssumption
    <3>8. CASE c \in Effectful \cup Source \/ d \in Effectful \cup Source
      <4>1. IdOf[c] = IdOf[d]
        BY <3>6, <3>7, <3>8 DEF By
      <4> QED  BY <1>1, <3>1, <3>2, <4>1 DEF IsGraph
    <3>9. CASE c \notin Effectful \cup Source /\ d \notin Effectful \cup Source
      <4>1. DOMAIN new = DOMAIN other
        BY <3>6 DEF Args
      <4>2. ASSUME NEW p \in DOMAIN new
            PROVE  new[p] = other[p]
        <5>1. v[new[p]] = v[other[p]]
          <6>1. Args(v, new)[p] = Args(v, other)[p]
            BY <3>6
          <6> QED  BY <4>1, <6>1 DEF Args
        <5>2. new[p] \in ToSet(new) /\ other[p] \in ToSet(other)
          BY <4>1 DEF ToSet
        <5>3. Differ(m - 1)
          BY <1>3
        <5> QED  BY <2>1, <3>1, <3>2, <5>1, <5>2, <5>3, SameReads
      <4>3. new = other
        <5>1. new \in Seq(Name) /\ other \in Seq(Name)
          <6>1. IdOf[c] \in Ids(result) /\ IdOf[d] \in Ids(result)
            BY <3>1, <3>2 DEF Ids, Keys
          <6> QED  BY <1>1, <3>1, <6>1 DEF IsGraph
        <5>2. new = [p \in DOMAIN new |-> new[p]] /\ other = [p \in DOMAIN other |-> other[p]]
          BY <5>1
        <5> QED  BY <4>1, <4>2, <5>2
      <4>4. Mergeable(c) /\ Mergeable(d)
        BY <3>9 DEF Mergeable
      <4>5. /\ i \in DOMAIN merged.items /\ j \in DOMAIN merged.items /\ c = merged.items[i] /\ d = merged.items[j]
            /\ merged.inputs[IdOf[c]] = merged.inputs[IdOf[d]]
        BY <1>1, <3>1, <3>2, <4>3
      <4> QED  BY <3>6, <4>4, <4>5 DEF ProgressInv
    <3> QED  BY <3>8, <3>9
  <2>3. Differ(m) /\ m \in 0..n
    BY <1>1, <2>1, <2>2 DEF Differ
  <2> QED  BY <2>3
<1>4. 0..n \subseteq S
  <2> HIDE DEF S
  <2> QED  BY <1>1, <1>2, <1>3, UpTo
<1>5. n \in 0..n
  BY <1>1
<1> QED  BY <1>4, <1>5

\* Every value that is still computed is computed by one node.
THEOREM NothingIsComputedTwiceHolds == Spec => []NothingIsComputedTwice
<1>1. SearchInv /\ SweptInv /\ MergeInv /\ ProgressInv => NothingIsComputedTwice
  <2> SUFFICES ASSUME SearchInv, SweptInv, MergeInv, ProgressInv, pc = "merged", Acyclic, NamesAreUnambiguous, ReadById
               PROVE  Cardinality({Values(result)[k] : k \in Ids(result)}) = Cardinality(Ids(result))
    BY DEF NothingIsComputedTwice, ReadById
  <2>1. PortsAreListed
    <3> SUFFICES ASSUME NEW nm \in Reads(graph), nm \notin Ids(graph), PortOf(graph, nm) # None
                 PROVE  FALSE
      BY DEF PortsAreListed
    <3>1. Resolve(graph, nm) # None
      BY DEF Resolve
    <3> QED  BY <3>1 DEF ReadById
  <2>2. PICK s : Finished(s)
    BY <2>1, MergingFinishes DEF Readable
  <2>3. IsGraph(result) /\ result.items \in Seq(Node) /\ DOMAIN result.items = 1..Len(result.items)
    BY <2>2 DEF Finished, IsGraph
  <2> DEFINE T == Ids(result)
             U == {Values(result)[k] : k \in T}
             f == [k \in T |-> Values(result)[k]]
  <2>4. ASSUME NEW k \in T, NEW l \in T, Values(result)[k] = Values(result)[l]
        PROVE  k = l
    <3>1. PICK i \in 1..Len(result.items), j \in 1..Len(result.items) : IdOf[result.items[i]] = k /\ IdOf[result.items[j]] = l
      BY <2>3 DEF Ids, Keys
    <3>2. Differ(Len(result.items))
      BY <2>2, SurvivorsDiffer
    <3>3. i = j
      BY <2>4, <3>1, <3>2 DEF Differ
    <3> QED  BY <3>1, <3>3
  <2>5. f \in Surjection(T, U)
    BY DEF Surjection
  <2>6. f \in Injection(T, U)
    BY <2>4 DEF Injection, IsInjective
  <2>7. IsFiniteSet(T)
    BY <2>3, IdsFinite
  <2>8. Cardinality(U) = Cardinality(T)
    <3> HIDE DEF f, U, T
    <3> QED  BY <2>5, <2>6, <2>7, FS_Surjection
  <2> QED  BY <2>8
<1> QED  BY <1>1, SearchInvariant, SweptInvariant, MergeInvariant, ProgressInvariant, PTL
=============================================================================
