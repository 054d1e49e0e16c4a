------------------------------ MODULE DeadNodes ------------------------------
(***************************************************************************)
(* eliminate_dead_nodes (transforms.py): a search backwards from the       *)
(* outputs and the nodes with effects, then a graph of what it found.  A   *)
(* step is one turn of the search.  Subgraphs are graphs of their own, on  *)
(* which the same pass runs by itself.                                     *)
(*                                                                         *)
(*   graph        the graph the pass is given, which it leaves alone       *)
(*   live, queue  the ids found so far, and those still to be looked at    *)
(*   result       the graph the last pass returned                         *)
(*   pc           "sweeping", "swept", and then the stages of the next pass*)
(***************************************************************************)
EXTENDS ValueGraph

CONSTANT Graph   \* bound: the graphs the pass is run on

\* nodes is a dict, so no id occurs twice in it.
IsGraph(g) ==
  /\ g.items \in Seq(Node) /\ g.outputs \in Seq(Name)
  /\ \A i, j \in DOMAIN g.items : IdOf[g.items[i]] = IdOf[g.items[j]] => i = j
  /\ Ids(g) \subseteq DOMAIN g.inputs
  /\ \A k \in DOMAIN g.inputs : g.inputs[k] \in Seq(Name)

ASSUME GraphAssumption == \A g \in Graph : IsGraph(g)

VARIABLES graph, live, queue, result, pc

sweepVars == <<graph, live, queue, result, pc>>

\* Mutant of Enqueue: the name goes into the set of live nodes, not the producer's id.
EnqueueName(w, nm) ==
  IF Resolve(graph, nm) = None \/ nm \in w.live THEN w
  ELSE [live |-> w.live \cup {nm}, queue |-> Append(w.queue, IdOf[Resolve(graph, nm)[1]])]

\* Mutant of Enqueue: names listed as outputs are found, tokens are not.
EnqueueListed(w, nm) ==
  LET producers == {n \in Node : \E i \in DOMAIN graph.items :
                      /\ graph.items[i] = n
                      /\ nm = IdOf[n] \/ \E j \in DOMAIN Outputs[n] : Outputs[n][j] = nm}
      found == {IdOf[n] : n \in producers} \ w.live
  IN  IF found = {} THEN w
      ELSE [live |-> w.live \cup found, queue |-> Append(w.queue, CHOOSE k \in found : TRUE)]

\* Mutant of Enqueue: a node is queued again although it is live already.
EnqueueAgain(w, nm) ==
  LET port == Resolve(graph, nm)
  IN  IF port = None THEN w
      ELSE [live |-> w.live \cup {IdOf[port[1]]}, queue |-> Append(w.queue, IdOf[port[1]])]

\* _enqueue_ssa_target
Enqueue(w, nm) ==
  LET port == Resolve(graph, nm)
      k == IdOf[port[1]]
  IN  IF port = None \/ k \in w.live THEN w
      ELSE [live |-> w.live \cup {k}, queue |-> Append(w.queue, k)]

\* Mutant of EnqueueAll: the last of the names is left out.
EnqueueAllButLast(w, names) ==
  LET after[i \in 0..Len(names)] ==
        IF i = 0 THEN w ELSE IF i = Len(names) THEN after[i - 1]
        ELSE Enqueue(after[i - 1], names[i])
  IN  after[Len(names)]

EnqueueAll(w, names) ==
  LET after[i \in 0..Len(names)] ==
        IF i = 0 THEN w ELSE Enqueue(after[i - 1], names[i])
  IN  after[Len(names)]

\* Where the search starts: at the outputs, then at the nodes with effects.
Seeded ==
  LET ids == [i \in DOMAIN graph.items |-> IdOf[graph.items[i]]]
      effects == Selected(ids, {i \in DOMAIN ids : graph.items[i] \in Effectful})
  IN  EnqueueAll(EnqueueAll([live |-> {}, queue |-> <<>>], graph.outputs), effects)

SweepInit ==
  /\ graph \in Graph
  /\ live = Seeded.live /\ queue = Seeded.queue
  /\ result = graph
  /\ pc = "sweeping"

\* One turn of the while loop of _collect_live_nodes.
Sweep ==
  /\ pc = "sweeping" /\ queue # <<>>
  /\ LET w == EnqueueAll([live |-> live, queue |-> Tail(queue)], graph.inputs[Head(queue)])
     IN  live' = w.live /\ queue' = w.queue
  /\ UNCHANGED <<graph, result, pc>>

\* _is_ssa_live
IsLive(nm) == nm \in live \/ (PortOf(graph, nm) # None /\ IdOf[PortOf(graph, nm)[1]] \in live)

\* The graph of the live nodes.  Its edges repeat inputs the nodes have, which
\* leaves them as they are (EdgeSync).
Pruned ==
  [items   |-> Selected(graph.items, {i \in DOMAIN graph.items : IdOf[graph.items[i]] \in live}),
   inputs  |-> [k \in live |-> graph.inputs[k]],
   outputs |-> Selected(graph.outputs, {i \in DOMAIN graph.outputs : IsLive(graph.outputs[i])})]

Build ==
  /\ pc = "sweeping" /\ queue = <<>>
  /\ result' = Pruned
  /\ pc' = "swept"
  /\ UNCHANGED <<graph, live, queue>>

SweepNext == Sweep \/ Build

-----------------------------------------------------------------------------
(* Properties                                                              *)

\* S holds what returns a value or has an effect, and what S reads.
Sufficient(S) ==
  /\ Producers(graph, graph.outputs) \subseteq S
  /\ {IdOf[n] : n \in ToSet(graph.items) \cap Effectful} \subseteq S
  /\ \A k \in S : Producers(graph, graph.inputs[k]) \subseteq S

\* What is kept is enough for every output and every effect, through ids, output
\* names and tokens, and there is nothing in it that could be left out.
KeepsExactlyWhatIsNeeded ==
  pc = "swept" =>
    /\ Ids(result) = live /\ Sufficient(live)
    /\ \A S \in SUBSET live : Sufficient(S) => S = live

\* Whatever a node that was kept reads, and whatever the graph still returns,
\* stands for the same port of the same node as before.
NamesResolveAlike ==
  pc = "swept" =>
    \A nm \in ToSet(result.outputs) \cup UNION {ToSet(result.inputs[k]) : k \in live} :
      Resolve(result, nm) = Resolve(graph, nm)

\* The search ends, on graphs with cycles too.
SweepEnds == <>(pc # "sweeping")
=============================================================================
