-------------------------- MODULE OutputMapProofs --------------------------
(***************************************************************************)
(* For every set of nodes, ids and names: the cache of OutputMap is current*)
(* whenever it is reused after recorded changes only, and OutputMap        *)
(* implements SsaLookup.                                                   *)
(***************************************************************************)
EXTENDS OutputMap, NodeTableProofs

\* The model's tuple of an answer is well typed with these ports.
LEMMA PortsIsNodePort == Ports = NodePort
BY DEF Ports, NodePort

-----------------------------------------------------------------------------
(* Type correctness                                                        *)

\* The tables a caller can assemble are tables of nodes.
LEMMA TablesType == Tables \subseteq Seq(Node)
BY DEF Tables

LEMMA NamesType ==
  ASSUME TypeOK
  PROVE  Names \in [Node -> Seq(Name)]
BY DEF TypeOK, Names

\* A cache just rebuilt has the type of a cache.
LEMMA RebuiltType ==
  ASSUME TypeOK
  PROVE  /\ Rebuilt.map \in [Name -> Ports]
         /\ Rebuilt \in [map : {Rebuilt.map}, dictVersion : Int, node : Node \cup {None},
                         list : Int, listVersion : Int]
<1> DEFINE first == IF dict.items = <<>> THEN None ELSE dict.items[1]
<1>1. OutputMapOf(dict.items, Names) \in [Name -> Ports]
  BY NamesType, OutputMapType, PortsIsNodePort DEF TypeOK
<1>2. dict.version \in Int
  BY DEF TypeOK
<1>3. first \in Node \cup {None}
  BY DEF TypeOK
<1>4. first # None => outputs[first].list \in Int /\ outputs[first].version \in Int
  <2> HIDE DEF first
  <2>1. outputs \in [Node -> [names : Seq(Name), version : Nat, list : Nat]]
    BY DEF TypeOK
  <2>2. first # None => first \in Node
    BY <1>3
  <2>3. first # None => outputs[first] \in [names : Seq(Name), version : Nat, list : Nat]
    BY <2>1, <2>2
  <2> QED  BY <2>3
<1> HIDE DEF first
<1>5. Rebuilt = [map |-> OutputMapOf(dict.items, Names), dictVersion |-> dict.version,
                 node |-> first,
                 list |-> IF first = None THEN -1 ELSE outputs[first].list,
                 listVersion |-> IF first = None THEN 0 ELSE outputs[first].version]
  BY DEF Rebuilt, first
<1> QED  BY <1>1, <1>2, <1>3, <1>4, <1>5

LEMMA InitType == Init => TypeOK
<1> SUFFICES ASSUME Init PROVE TypeOK
  OBVIOUS
<1>1. dict \in [items : Seq(Node), version : Nat]
  BY TablesType DEF Init
<1>2. outputs \in [Node -> [names : Seq(Name), version : Nat, list : Nat]]
  BY OutputListsAssumption DEF Init
<1>3. answer \in [name : Name \cup {None}, port : Ports]
  BY DEF Init, NoQuery, Ports
<1>4. /\ cache.map = NoMap
      /\ cache \in [map : {cache.map}, dictVersion : Int, node : Node \cup {None},
                    list : Int, listVersion : Int]
  BY DEF Init
<1>5. unrecorded \in BOOLEAN
  BY DEF Init
<1> QED  BY <1>1, <1>2, <1>3, <1>4, <1>5 DEF TypeOK

\* Every operation on the node dictionary keeps the types.
LEMMA DictStepType ==
  ASSUME TypeOK, NEW items \in Seq(Node), NEW v \in Nat,
         dict' = [items |-> items, version |-> v],
         answer' = NoQuery, unrecorded' \in BOOLEAN, UNCHANGED outputs,
         cache' = cache \/ cache' = [cache EXCEPT !.map = NoMap]
  PROVE  TypeOK'
<1>1. dict' \in [items : Seq(Node), version : Nat]
  OBVIOUS
<1>2. answer' \in [name : Name \cup {None}, port : Ports]
  BY DEF NoQuery, Ports
<1>3. /\ cache'.map = NoMap \/ cache'.map \in [Name -> Ports]
      /\ cache' \in [map : {cache'.map}, dictVersion : Int, node : Node \cup {None},
                     list : Int, listVersion : Int]
  BY DEF TypeOK
<1>4. outputs' \in [Node -> [names : Seq(Name), version : Nat, list : Nat]]
  BY DEF TypeOK
<1> QED  BY <1>1, <1>2, <1>3, <1>4 DEF TypeOK, Ports, NoMap

\* Every operation on one node's outputs keeps the types.
LEMMA OutputsStepType ==
  ASSUME TypeOK, NEW n \in Node,
         NEW list \in [names : Seq(Name), version : Nat, list : Nat],
         outputs' = [outputs EXCEPT ![n] = list],
         answer' = NoQuery, unrecorded' \in BOOLEAN, UNCHANGED <<dict, cache>>
  PROVE  TypeOK'
<1>1. answer' \in [name : Name \cup {None}, port : Ports]
  BY DEF NoQuery, Ports
<1>2. outputs' \in [Node -> [names : Seq(Name), version : Nat, list : Nat]]
  BY DEF TypeOK
<1> QED  BY <1>1, <1>2 DEF TypeOK, Ports, NoMap

LEMMA LookupType ==
  ASSUME TypeOK, NEW nm \in Name, Lookup(nm)
  PROVE  TypeOK'
<1>1. /\ cache'.map = NoMap \/ cache'.map \in [Name -> Ports]
      /\ cache' \in [map : {cache'.map}, dictVersion : Int, node : Node \cup {None},
                     list : Int, listVersion : Int]
  <2>1. CASE Fresh
    BY <2>1 DEF Lookup, TypeOK
  <2>2. CASE ~Fresh
    BY <2>2, RebuiltType DEF Lookup
  <2> QED  BY <2>1, <2>2
<1>2. cache'.map \in [Name -> Ports]
  <2>1. CASE Fresh
    BY <2>1 DEF Lookup, TypeOK, Fresh, Cached
  <2>2. CASE ~Fresh
    BY <2>2, RebuiltType DEF Lookup
  <2> QED  BY <2>1, <2>2
<1>3. answer' \in [name : Name \cup {None}, port : Ports]
  <2>1. ResolvePort(cache'.map, dict.items, nm) \in NodePort
    BY <1>2, ResolvePortType, PortsIsNodePort DEF TypeOK
  <2> QED  BY <2>1, PortsIsNodePort DEF Lookup
<1>4. unrecorded' \in BOOLEAN
  BY DEF Lookup, TypeOK
<1>5. /\ dict' \in [items : Seq(Node), version : Nat]
      /\ outputs' \in [Node -> [names : Seq(Name), version : Nat, list : Nat]]
  BY DEF Lookup, TypeOK
<1> QED  BY <1>1, <1>3, <1>4, <1>5 DEF TypeOK, Ports, NoMap

LEMMA DictOperationType ==
  ASSUME TypeOK, DictOperation
  PROVE  TypeOK'
<1>1. dict.items \in Seq(Node) /\ dict.version + 1 \in Nat /\ dict.version + 2 \in Nat
  BY DEF TypeOK
<1>2. ASSUME NEW items \in Seq(Node), DictStep(items)
      PROVE  TypeOK'
  BY <1>1, <1>2, DictStepType DEF DictStep, TypeOK
<1>3. ASSUME NEW items \in Seq(Node), NEW v \in Nat,
             dict' = [items |-> items, version |-> v],
             answer' = NoQuery, Invalidate, UNCHANGED outputs
      PROVE  TypeOK'
  BY <1>3, DictStepType DEF Invalidate
<1>4. ASSUME NEW n \in Node, DictSet(n)  PROVE TypeOK'
  BY <1>1, <1>2, <1>4, PutType DEF DictSet
<1>5. ASSUME NEW k \in Key, DictDelete(k) \/ DictPop(k)  PROVE TypeOK'
  BY <1>1, <1>2, <1>5, DropType DEF DictDelete, DictPop
<1>6. CASE DictClear
  <2>1. <<>> \in Seq(Node)
    OBVIOUS
  <2> QED  BY <1>2, <1>6, <2>1 DEF DictClear
<1>7. ASSUME NEW n \in Node, NEW m \in Node, DictUpdate(n, m)  PROVE TypeOK'
  <2>1. Put(Put(dict.items, n), m) \in Seq(Node)
    BY <1>1, PutType
  <2> QED  BY <1>2, <1>7, <2>1 DEF DictUpdate
<1>8. ASSUME NEW n \in Node, AddNode(n)  PROVE TypeOK'
  BY <1>1, <1>3, <1>8, PutType DEF AddNode
<1>9. ASSUME NEW items \in Tables, ReplaceNodes(items)  PROVE TypeOK'
  BY <1>1, <1>3, <1>9, TablesType DEF ReplaceNodes
<1> QED
  BY <1>4, <1>5, <1>6, <1>7, <1>8, <1>9 DEF DictOperation

LEMMA ListOperationType ==
  ASSUME TypeOK, ListOperation
  PROVE  TypeOK'
<1> PICK n \in Node : \/ \E nm \in Name : AppendOutput(n, nm)
                      \/ \E names \in OutputLists : SetOutputs(n, names)
  BY DEF ListOperation
<1>1. ASSUME NEW list \in [names : Seq(Name), version : Nat, list : Nat], ListStep(n, list)
      PROVE  TypeOK'
  <2>1. unrecorded' \in BOOLEAN
    BY <1>1 DEF ListStep, TypeOK
  <2> QED  BY <1>1, <2>1, OutputsStepType DEF ListStep
<1>2. ASSUME NEW nm \in Name, AppendOutput(n, nm)  PROVE TypeOK'
  <2>1. [outputs[n] EXCEPT !.names = Append(@, nm), !.version = @ + 1]
          \in [names : Seq(Name), version : Nat, list : Nat]
    <3>1. outputs[n] \in [names : Seq(Name), version : Nat, list : Nat]
      BY DEF TypeOK
    <3>2. Append(outputs[n].names, nm) \in Seq(Name) /\ outputs[n].version + 1 \in Nat
      BY <3>1
    <3> QED  BY <3>1, <3>2
  <2> QED  BY <1>1, <1>2, <2>1 DEF AppendOutput
<1>3. ASSUME NEW names \in OutputLists, SetOutputs(n, names)  PROVE TypeOK'
  <2>1. [names |-> names, version |-> 0, list |-> outputs[n].list + 1]
          \in [names : Seq(Name), version : Nat, list : Nat]
    BY OutputListsAssumption DEF TypeOK
  <2> QED  BY <1>1, <1>3, <2>1 DEF SetOutputs
<1> QED  BY <1>2, <1>3

LEMMA UnrecordedOperationType ==
  ASSUME TypeOK, UnrecordedOperation
  PROVE  TypeOK'
<1>1. ASSUME NEW n \in Node, NEW names \in OutputLists, EditOutputs(n, names)
      PROVE  TypeOK'
  <2> DEFINE list == [outputs[n] EXCEPT !.names = names]
  <2>1. list \in [names : Seq(Name), version : Nat, list : Nat]
    BY OutputListsAssumption DEF TypeOK
  <2>2. outputs' = [outputs EXCEPT ![n] = list]
    BY <1>1 DEF EditOutputs
  <2>3. unrecorded' \in BOOLEAN
    BY <1>1 DEF EditOutputs, TypeOK
  <2> HIDE DEF list
  <2> QED  BY <1>1, <2>1, <2>2, <2>3, OutputsStepType DEF EditOutputs
<1>2. ASSUME NEW items \in Seq(Node), NEW v \in Nat,
             dict' = [items |-> items, version |-> v],
             answer' = NoQuery, unrecorded' = (unrecorded \/ Cached),
             UNCHANGED <<outputs, cache>>
      PROVE  TypeOK'
  <2>1. unrecorded' \in BOOLEAN
    BY <1>2 DEF TypeOK
  <2> QED  BY <1>2, <2>1, DictStepType
<1>3. ASSUME NEW n \in Node, DictInherited(n)  PROVE TypeOK'
  <2>1. dict' = [items |-> Put(dict.items, n), version |-> dict.version]
    BY <1>3 DEF DictInherited, TypeOK
  <2>2. Put(dict.items, n) \in Seq(Node) /\ dict.version \in Nat
    BY PutType DEF TypeOK
  <2> QED  BY <1>2, <1>3, <2>1, <2>2 DEF DictInherited
<1>4. ASSUME NEW items \in Tables, AssignNodes(items)  PROVE TypeOK'
  BY <1>2, <1>4, TablesType DEF AssignNodes
<1> QED  BY <1>1, <1>3, <1>4 DEF UnrecordedOperation

LEMMA NextType == TypeOK /\ [Next]_vars => TypeOK'
<1> SUFFICES ASSUME TypeOK, [Next]_vars PROVE TypeOK'
  OBVIOUS
<1>1. CASE Next
  BY <1>1, LookupType, DictOperationType, ListOperationType, UnrecordedOperationType
     DEF Next
<1>2. CASE UNCHANGED vars
  BY <1>2 DEF vars, TypeOK, Ports, NoMap
<1> QED  BY <1>1, <1>2

\* Every reachable state is well typed, whatever the nodes, names and bounds.
THEOREM TypeCorrect == Spec => []TypeOK
BY InitType, NextType, PTL DEF Spec

-----------------------------------------------------------------------------
(* Coherence of the cache                                                  *)

\* ReusedCacheIsCurrent is not inductive: a counter that stood above its cached
\* value, or a list that was replaced, must not come back to the cached value.
\* It cannot, because while every change is recorded the cached values are
\* never ahead of the counters.
CountersAhead ==
  Cached /\ ~unrecorded =>
    /\ cache.dictVersion <= dict.version
    /\ cache.node # None =>
         /\ cache.list <= outputs[cache.node].list
         /\ outputs[cache.node].list = cache.list =>
              cache.listVersion <= outputs[cache.node].version

IInv == TypeOK /\ CountersAhead /\ ReusedCacheIsCurrent

LEMMA InitIInv == Init => IInv
<1> SUFFICES ASSUME Init PROVE IInv
  OBVIOUS
<1>1. ~Cached
  BY DEF Init, Cached
<1> QED
  BY <1>1, InitType DEF IInv, CountersAhead, ReusedCacheIsCurrent, Fresh

\* A lookup leaves a current cache, and a rebuilt one is level with the counters.
LEMMA LookupIInv ==
  ASSUME IInv, NEW nm \in Name, Lookup(nm)
  PROVE  IInv'
<1>1. TypeOK'
  BY LookupType DEF IInv
<1>2. CASE Fresh
  <2>1. UNCHANGED <<dict, outputs, cache>> /\ unrecorded' = unrecorded
    BY <1>2 DEF Lookup, IInv, TypeOK
  <2> QED
    BY <1>1, <2>1 DEF IInv, CountersAhead, ReusedCacheIsCurrent, Fresh, Cached,
                      Current, Names, NoMap
<1>3. CASE ~Fresh
  <2>1. cache' = Rebuilt /\ UNCHANGED <<dict, outputs>>
    BY <1>3 DEF Lookup
  <2>2. Current'
    BY <2>1 DEF Current, Rebuilt, Names
  <2>3. /\ Rebuilt.dictVersion = dict.version
        /\ Rebuilt.node # None => /\ Rebuilt.list = outputs[Rebuilt.node].list
                                 /\ Rebuilt.listVersion = outputs[Rebuilt.node].version
    BY DEF Rebuilt
  <2>4. dict.version \in Nat
    BY DEF IInv, TypeOK
  <2>5. Rebuilt.node # None => Rebuilt.node \in Node
    BY RebuiltType DEF IInv
  <2>6. \A n \in Node : outputs[n].list \in Nat /\ outputs[n].version \in Nat
    BY DEF IInv, TypeOK
  <2>7. CountersAhead'
    BY <2>1, <2>3, <2>4, <2>5, <2>6 DEF CountersAhead
  <2> QED  BY <1>1, <2>2, <2>7 DEF IInv, ReusedCacheIsCurrent
<1> QED  BY <1>2, <1>3

\* An operation on the dictionary moves its counter past the cached value, or
\* drops the map.
LEMMA DictOperationIInv ==
  ASSUME IInv, DictOperation
  PROVE  IInv'
<1>1. TypeOK'
  BY DictOperationType DEF IInv
<1>2. /\ dict'.version > dict.version /\ UNCHANGED outputs
      /\ \/ UNCHANGED <<cache, unrecorded>>
         \/ cache' = [cache EXCEPT !.map = NoMap] /\ unrecorded' = FALSE
  <2>1. \A items : DictStep(items) =>
          dict'.version = dict.version + 1 /\ UNCHANGED <<outputs, cache, unrecorded>>
    BY DEF DictStep
  <2>2. dict.version \in Nat
    BY DEF IInv, TypeOK
  <2>3. \A n : AddNode(n) => dict'.version = dict.version + 1 /\ Invalidate /\ UNCHANGED outputs
    BY DEF AddNode
  <2>4. \A items : ReplaceNodes(items) =>
          dict'.version = dict.version + 2 /\ Invalidate /\ UNCHANGED outputs
    BY DEF ReplaceNodes
  <2>5. (\E items : DictStep(items)) \/ (\E n : AddNode(n)) \/ (\E items : ReplaceNodes(items))
    BY DEF DictOperation, DictSet, DictDelete, DictPop, DictClear, DictUpdate
  <2> QED  BY <2>1, <2>2, <2>3, <2>4, <2>5 DEF Invalidate
<1>3. CASE UNCHANGED <<cache, unrecorded>>
  <2>0. /\ dict.version \in Int /\ dict'.version \in Int /\ cache.dictVersion \in Int
        /\ UNCHANGED <<outputs, cache, unrecorded>> /\ Cached' = Cached
    BY <1>1, <1>2, <1>3 DEF IInv, TypeOK, Cached, NoMap
  <2>1. CountersAhead'
    BY <1>2, <2>0 DEF IInv, CountersAhead
  <2>2. unrecorded \/ ~Fresh'
    BY <1>2, <2>0 DEF IInv, CountersAhead, Fresh
  <2> QED  BY <1>1, <1>3, <2>1, <2>2 DEF IInv, ReusedCacheIsCurrent
<1>4. CASE cache' = [cache EXCEPT !.map = NoMap] /\ unrecorded' = FALSE
  <2>1. ~Cached'
    BY <1>4 DEF IInv, TypeOK, Cached, NoMap
  <2> QED
    BY <1>1, <2>1 DEF IInv, CountersAhead, ReusedCacheIsCurrent, Fresh
<1> QED  BY <1>2, <1>3, <1>4

\* A change of the tracked node's outputs advances its counter or replaces its
\* list; a change of any other node's outputs is not recorded.
LEMMA ListStepIInv ==
  ASSUME IInv, TypeOK', NEW n \in Node,
         NEW list \in [names : Seq(Name), version : Nat, list : Nat], ListStep(n, list),
         \/ list.list = outputs[n].list + 1
         \/ list.list = outputs[n].list /\ list.version = outputs[n].version + 1
  PROVE  IInv'
<1>1. CASE ~Cached
  BY <1>1 DEF IInv, ListStep, CountersAhead, ReusedCacheIsCurrent, Fresh, Cached, NoMap
<1>2. CASE unrecorded'
  BY <1>2 DEF IInv, CountersAhead, ReusedCacheIsCurrent
<1>3. CASE Cached /\ ~unrecorded'
  <2>1. ~unrecorded /\ n = cache.node
    BY <1>3 DEF ListStep
  <2>2. outputs'[n] = list /\ UNCHANGED <<dict, cache>> /\ Cached'
    BY <1>3 DEF ListStep, IInv, TypeOK, Cached, NoMap
  <2>3. /\ outputs[n].list \in Nat /\ outputs[n].version \in Nat
        /\ cache.list \in Int /\ cache.listVersion \in Int
        /\ list.list \in Nat /\ list.version \in Nat
    BY DEF IInv, TypeOK
  <2>4. /\ cache.dictVersion <= dict.version
        /\ n # None => /\ cache.list <= outputs[n].list
                       /\ outputs[n].list = cache.list => cache.listVersion <= outputs[n].version
    BY <1>3, <2>1 DEF IInv, CountersAhead
  <2>5. n # None
    BY NoneAssumption
  <2>6. /\ cache'.dictVersion <= dict'.version
        /\ cache'.list <= list.list
        /\ list.list = cache'.list => cache'.listVersion < list.version
    <3>1. CASE list.list = outputs[n].list + 1
      BY <2>2, <2>3, <2>4, <2>5, <3>1
    <3>2. CASE list.list = outputs[n].list /\ list.version = outputs[n].version + 1
      BY <2>2, <2>3, <2>4, <2>5, <3>2
    <3> QED  BY <3>1, <3>2
  <2>7. cache'.node = n /\ outputs'[cache'.node] = list /\ cache'.listVersion \in Int
    BY <2>1, <2>2, <2>3
  <2>8. CountersAhead'
    BY <2>3, <2>6, <2>7 DEF CountersAhead
  <2>9. ~Fresh'
    BY <2>3, <2>5, <2>6, <2>7 DEF Fresh
  <2> QED  BY <2>8, <2>9 DEF IInv, ReusedCacheIsCurrent
<1> QED  BY <1>1, <1>2, <1>3

\* What no counter records is excused for as long as the cache stands.
LEMMA UnrecordedIInv ==
  ASSUME IInv, TypeOK', unrecorded' = (unrecorded \/ Cached), UNCHANGED cache
  PROVE  IInv'
<1>1. ~Cached' \/ unrecorded'
  BY DEF Cached, NoMap
<1> QED  BY <1>1 DEF IInv, CountersAhead, ReusedCacheIsCurrent, Fresh

LEMMA NextIInv == IInv /\ [Next]_vars => IInv'
<1> SUFFICES ASSUME IInv, [Next]_vars PROVE IInv'
  OBVIOUS
<1>0. TypeOK'
  BY NextType DEF IInv
<1>1. ASSUME NEW nm \in Name, Lookup(nm)  PROVE IInv'
  BY <1>1, LookupIInv
<1>2. CASE DictOperation
  BY <1>2, DictOperationIInv
<1>3. ASSUME NEW n \in Node, NEW nm \in Name, AppendOutput(n, nm)  PROVE IInv'
  <2> DEFINE list == [outputs[n] EXCEPT !.names = Append(@, nm), !.version = @ + 1]
  <2>1. outputs[n] \in [names : Seq(Name), version : Nat, list : Nat]
    BY DEF IInv, TypeOK
  <2>2. Append(outputs[n].names, nm) \in Seq(Name) /\ outputs[n].version + 1 \in Nat
    BY <2>1
  <2>3. /\ list \in [names : Seq(Name), version : Nat, list : Nat]
        /\ list.list = outputs[n].list /\ list.version = outputs[n].version + 1
    BY <2>1, <2>2
  <2>4. ListStep(n, list)
    BY <1>3 DEF AppendOutput
  <2> HIDE DEF list
  <2> QED  BY <1>0, <2>3, <2>4, ListStepIInv
<1>4. ASSUME NEW n \in Node, NEW names \in OutputLists, SetOutputs(n, names)  PROVE IInv'
  <2> DEFINE list == [names |-> names, version |-> 0, list |-> outputs[n].list + 1]
  <2>1. list \in [names : Seq(Name), version : Nat, list : Nat] /\ list.list = outputs[n].list + 1
    BY OutputListsAssumption DEF IInv, TypeOK
  <2>2. ListStep(n, list)
    BY <1>4 DEF SetOutputs
  <2> HIDE DEF list
  <2> QED  BY <1>0, <2>1, <2>2, ListStepIInv
<1>5. CASE UnrecordedOperation
  BY <1>0, <1>5, UnrecordedIInv
     DEF UnrecordedOperation, EditOutputs, DictInherited, AssignNodes
<1>6. CASE UNCHANGED vars
  BY <1>0, <1>6 DEF vars, IInv, CountersAhead, ReusedCacheIsCurrent, Fresh, Cached, Current,
                    Names, NoMap
<1> QED  BY <1>1, <1>2, <1>3, <1>4, <1>5, <1>6 DEF Next, ListOperation

\* A cache that _output_map would reuse after recorded changes only is the map a
\* rebuild would make.
THEOREM CacheCoherence == Spec => []ReusedCacheIsCurrent
<1>1. IInv => ReusedCacheIsCurrent
  BY DEF IInv
<1> QED  BY <1>1, InitIInv, NextIInv, PTL DEF Spec

-----------------------------------------------------------------------------
(* Refinement of SsaLookup                                                 *)

LEMMA InitRefines == Init => Promise!Init
BY DEF Init, Promise!Init, NoQuery, Promise!NoQuery

\* Every step of the implementation is a step the promise allows, or a stutter.
LEMMA NextRefines == IInv /\ [Next]_vars => [Promise!Next]_(Promise!vars)
<1> SUFFICES ASSUME IInv, [Next]_vars PROVE [Promise!Next]_(Promise!vars)
  OBVIOUS
<1>1. ASSUME NEW nm \in Name, Lookup(nm)
      PROVE  Promise!Query
  <2>1. answer'.name = nm /\ answer'.port = ResolvePort(cache'.map, dict.items, nm)
    BY <1>1 DEF Lookup
  <2>2. ~unrecorded => cache'.map = OutputMapOf(dict.items, Names)
    <3>1. CASE Fresh
      BY <1>1, <3>1 DEF Lookup, IInv, ReusedCacheIsCurrent, Current
    <3>2. CASE ~Fresh
      BY <1>1, <3>2 DEF Lookup, Rebuilt
    <3> QED  BY <3>1, <3>2
  <2>3. unrecorded' \in {unrecorded, FALSE}
    BY <1>1 DEF Lookup, IInv, TypeOK
  <2>4. dict'.items = dict.items /\ Names' = Names
    BY <1>1 DEF Lookup, Names
  <2>5. ResolvePort(OutputMapOf(dict.items, Names), dict.items, nm) =
          Promise!ResolvePort(Promise!OutputMapOf(dict.items, Names), dict.items, nm)
    BY DEF ResolvePort, Promise!ResolvePort, OutputMapOf, Promise!OutputMapOf,
           Keys, Promise!Keys, PositionOf, Promise!PositionOf
  <2> QED  BY <2>1, <2>2, <2>3, <2>4, <2>5 DEF Promise!Query
<1>2. CASE DictOperation
  <2>1. answer' = NoQuery /\ unrecorded' \in {unrecorded, FALSE}
    BY <1>2 DEF DictOperation, DictSet, DictDelete, DictPop, DictClear, DictUpdate, DictStep,
                AddNode, ReplaceNodes, Invalidate
  <2> QED  BY <2>1 DEF Promise!Next, Promise!Change, NoQuery, Promise!NoQuery
<1>3. CASE ListOperation \/ UnrecordedOperation
  <2>1. answer' = NoQuery /\ unrecorded' \in {unrecorded, TRUE}
    BY <1>3 DEF ListOperation, AppendOutput, SetOutputs, ListStep, UnrecordedOperation,
                EditOutputs, DictInherited, AssignNodes, IInv, TypeOK
  <2> QED
    BY <2>1 DEF Promise!Next, Promise!Change, Promise!UnrecordedChange, NoQuery, Promise!NoQuery
<1>4. CASE UNCHANGED vars
  BY <1>4 DEF vars, Promise!vars, Names
<1> QED  BY <1>1, <1>2, <1>3, <1>4 DEF Next, Promise!Next

\* OutputMap implements SsaLookup: outside the licence that unrecorded changes
\* give, every lookup answers from the graph as it is.
THEOREM Refinement == Spec => AnswersFromCurrentGraph
<1>1. IInv /\ [Next]_vars => [Promise!Next]_(Promise!vars)
  BY NextRefines
<1> QED
  BY <1>1, InitRefines, InitIInv, NextIInv, PTL DEF Spec, AnswersFromCurrentGraph, Promise!Spec
=============================================================================
