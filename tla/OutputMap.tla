----------------------------- MODULE OutputMap -----------------------------
(***************************************************************************)
(* LogicalGraph's name lookup as graph.py implements it: the map from SSA  *)
(* names to producing ports is cached, and the cache is reused as long as  *)
(* a few counters stand where they stood when it was built.                *)
(*                                                                         *)
(*   dict      graph.nodes, a NodeDict: its items and its mutation counter *)
(*   outputs   each node's VersionedOutputList: the names, the counter     *)
(*             that append advances, and the identity of the list object   *)
(*             (how many times the node has been given a new list)         *)
(*   cache     the five _cached_* private attributes                       *)
(*   answer    what the last call returned, NoQuery if it was not a lookup *)
(*   unrecorded  history: since the cache was built, the graph was changed *)
(*             in a way no counter that the cache looks at records         *)
(*                                                                         *)
(* One action per public operation.  Those under "unrecorded" are ordinary *)
(* Python calls that NodeDict and VersionedOutputList inherit unchanged,   *)
(* output changes on nodes the cache does not track, and assignment of a   *)
(* new mapping to graph.nodes.                                             *)
(***************************************************************************)
EXTENDS NodeTable, FiniteSets

CONSTANTS
  OutputLists,   \* bound: the output lists a node may be given
  MaxDictVersion,\* bound on NodeDict.version
  MaxChanges     \* bound, per node, on its list's version and on its lists

ASSUME OutputListsAssumption == OutputLists \subseteq Seq(Name)
ASSUME BoundsAssumption ==
  MaxDictVersion \in Nat /\ MaxChanges \in [Node -> Nat]

VARIABLES dict, outputs, cache, answer, unrecorded

vars == <<dict, outputs, cache, answer, unrecorded>>

NoMap == [nm \in {} |-> None]
NoQuery == [name |-> None, port |-> None]

Ports == (Node \X Int) \cup {None}
Names == [n \in Node |-> outputs[n].names]

\* The graphs a caller can assemble: no id twice.
Tables ==
  {items \in UNION {[1..k -> Node] : k \in 0..Cardinality(Key)} :
     \A i, j \in DOMAIN items : IdOf[items[i]] = IdOf[items[j]] => i = j}

TypeOK ==
  /\ dict \in [items : Seq(Node), version : Nat]
  /\ outputs \in [Node -> [names : Seq(Name), version : Nat, list : Nat]]
  /\ cache.map = NoMap \/ cache.map \in [Name -> Ports]
  /\ cache \in [map : {cache.map}, dictVersion : Int, node : Node \cup {None},
                list : Int, listVersion : Int]
  /\ answer \in [name : Name \cup {None}, port : Ports]
  /\ unrecorded \in BOOLEAN

Init ==
  /\ dict \in [items : Tables, version : {0}]
  /\ outputs \in [Node -> [names : OutputLists, version : {0}, list : {0}]]
  /\ cache = [map |-> NoMap, dictVersion |-> -1, node |-> None,
              list |-> -1, listVersion |-> -1]
  /\ answer = NoQuery
  /\ unrecorded = FALSE

-----------------------------------------------------------------------------
(* The cache                                                               *)

Cached == cache.map # NoMap

\* Reuse the cache even though the tracked node was given another list object.
FreshIgnoringList ==
  /\ Cached
  /\ dict.version = cache.dictVersion
  /\ cache.node # None => outputs[cache.node].version = cache.listVersion

\* The test at the top of _output_map.
Fresh ==
  /\ Cached
  /\ dict.version = cache.dictVersion
  /\ cache.node # None =>
       /\ outputs[cache.node].list = cache.list
       /\ outputs[cache.node].version = cache.listVersion

\* The rest of _output_map: only the first node of the table is tracked.
Rebuilt ==
  LET first == IF dict.items = <<>> THEN None ELSE dict.items[1]
  IN  [map |-> OutputMapOf(dict.items, Names), dictVersion |-> dict.version, node |-> first,
       list |-> IF first = None THEN -1 ELSE outputs[first].list,
       listVersion |-> IF first = None THEN 0 ELSE outputs[first].version]

\* get_producing_output_index, and get_output_producer on top of it.
Lookup(nm) ==
  /\ cache' = IF Fresh THEN cache ELSE Rebuilt
  /\ answer' = [name |-> nm, port |-> ResolvePort(cache'.map, dict.items, nm)]
  /\ unrecorded' = (Fresh /\ unrecorded)
  /\ UNCHANGED <<dict, outputs>>

\* self._cached_output_map = None
Invalidate ==
  /\ cache' = [cache EXCEPT !.map = NoMap]
  /\ unrecorded' = FALSE

-----------------------------------------------------------------------------
(* Changes the counters record                                             *)

\* NodeDict methods: the table changes and its counter advances by one.
DictStep(items) ==
  /\ dict' = [items |-> items, version |-> dict.version + 1]
  /\ answer' = NoQuery
  /\ UNCHANGED <<outputs, cache, unrecorded>>

\* A __delitem__ that forgets to advance the counter.
DeleteUncounted(k) ==
  /\ k \in Keys(dict.items)
  /\ dict' = [dict EXCEPT !.items = Drop(@, k)]
  /\ answer' = NoQuery
  /\ UNCHANGED <<outputs, cache, unrecorded>>

DictSet(n) == DictStep(Put(dict.items, n))
DictDelete(k) == k \in Keys(dict.items) /\ DictStep(Drop(dict.items, k))
DictPop(k) == DictStep(Drop(dict.items, k))
DictClear == DictStep(<<>>)
DictUpdate(n, m) == DictStep(Put(Put(dict.items, n), m))

\* LogicalGraph.add_node
AddNode(n) ==
  /\ dict' = [items |-> Put(dict.items, n), version |-> dict.version + 1]
  /\ answer' = NoQuery
  /\ Invalidate
  /\ UNCHANGED outputs

\* LogicalGraph.replace_nodes: clear, update, invalidate.
ReplaceNodes(items) ==
  /\ dict' = [items |-> items, version |-> dict.version + 2]
  /\ answer' = NoQuery
  /\ Invalidate
  /\ UNCHANGED outputs

\* A change of one node's output list; the cache notices it only on its tracked node.
ListStep(n, list) ==
  /\ outputs' = [outputs EXCEPT ![n] = list]
  /\ answer' = NoQuery
  /\ unrecorded' = (unrecorded \/ (Cached /\ n # cache.node))
  /\ UNCHANGED <<dict, cache>>

\* VersionedOutputList.append
AppendOutput(n, nm) ==
  /\ Append(outputs[n].names, nm) \in OutputLists
  /\ ListStep(n, [outputs[n] EXCEPT !.names = Append(@, nm), !.version = @ + 1])

\* set_outputs storing the plain list it was given, which has no counter.
SetOutputsUnwrapped(n, names) ==
  ListStep(n, [names |-> names, version |-> None, list |-> outputs[n].list + 1])

\* LogicalNode.set_outputs, and assignment to node.outputs: a new list object.
SetOutputs(n, names) ==
  ListStep(n, [names |-> names, version |-> 0, list |-> outputs[n].list + 1])

-----------------------------------------------------------------------------
(* Changes no counter records                                              *)

\* extend, insert, __setitem__, pop, remove, clear... on node.outputs
EditOutputs(n, names) ==
  /\ names # outputs[n].names
  /\ outputs' = [outputs EXCEPT ![n].names = names]
  /\ answer' = NoQuery
  /\ unrecorded' = (unrecorded \/ Cached)
  /\ UNCHANGED <<dict, cache>>

\* graph.nodes.setdefault, graph.nodes |= ...
DictInherited(n) ==
  /\ dict' = [dict EXCEPT !.items = Put(@, n)]
  /\ answer' = NoQuery
  /\ unrecorded' = (unrecorded \/ Cached)
  /\ UNCHANGED <<outputs, cache>>

\* graph.nodes = mapping: a new NodeDict, whose counter starts again at zero.
AssignNodes(items) ==
  /\ dict' = [items |-> items, version |-> 0]
  /\ answer' = NoQuery
  /\ unrecorded' = (unrecorded \/ Cached)
  /\ UNCHANGED <<outputs, cache>>

-----------------------------------------------------------------------------
DictOperation ==
  /\ dict.version < MaxDictVersion
  /\ \/ \E n \in Node : DictSet(n)
     \/ \E k \in Key : DictDelete(k)
     \/ \E k \in Key : DictPop(k)
     \/ DictClear
     \/ \E n, m \in Node : DictUpdate(n, m)
     \/ \E n \in Node : AddNode(n)
     \/ \E items \in Tables : ReplaceNodes(items)

ListOperation ==
  \E n \in Node :
    \/ outputs[n].version < MaxChanges[n] /\ \E nm \in Name : AppendOutput(n, nm)
    \/ outputs[n].list < MaxChanges[n] /\ \E names \in OutputLists : SetOutputs(n, names)

UnrecordedOperation ==
  \/ \E n \in Node, names \in OutputLists : EditOutputs(n, names)
  \/ \E n \in Node : DictInherited(n)
  \/ \E items \in Tables : AssignNodes(items)

Next ==
  \/ \E nm \in Name : Lookup(nm)
  \/ DictOperation
  \/ ListOperation
  \/ UnrecordedOperation

Spec == Init /\ [][Next]_vars

-----------------------------------------------------------------------------
(* Properties                                                              *)

Current == cache.map = OutputMapOf(dict.items, Names)

\* Whenever _output_map would hand out its cache, and every change since it was
\* built was one the counters record, the cache is the map a rebuild would make.
ReusedCacheIsCurrent == Fresh /\ ~unrecorded => Current

Promise ==
  INSTANCE SsaLookup WITH nodes <- dict.items, outs <- Names

\* Every lookup answers what SsaLookup promises.
AnswersFromCurrentGraph == Promise!Spec
=============================================================================
