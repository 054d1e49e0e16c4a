------------------------------ MODULE EdgeSync ------------------------------
(***************************************************************************)
(* Edges and inputs of a LogicalGraph.  The inputs of the nodes are the    *)
(* connections; edges are derived from them, and lists of edges are folded *)
(* back into them, by the edges setter and by every path that builds a     *)
(* graph from nodes together with edges (from_dict, from_json, the stream  *)
(* parser, the transformations).                                           *)
(*                                                                         *)
(*   inputs      each node's inputs: node ids, SSA names, 'id:idx' tokens  *)
(*   valueNames  _edge_value_names: the value name noted at some positions *)
(*               of a node's inputs                                        *)
(*                                                                         *)
(* An edge touches nothing but the inputs and the value names of its       *)
(* target, so a list of edges is given here target by target.  Positions   *)
(* in inputs count from 1, the target_idx of an edge from 0.               *)
(***************************************************************************)
EXTENDS NodeTable

CONSTANTS
  Table,      \* the nodes of the graph, in insertion order
  Outputs,    \* the output names of each node
  Target,     \* bound: the ids of the nodes that edges lead to
  Inputs,     \* bound: the inputs such a node is built with
  PortIdx,    \* bound: the output ports that edges name
  Connection, \* bound: what add_edge is given beside the target
  Edge,       \* bound: the edges callers make themselves
  EdgeList,   \* bound: the lists assigned to graph.edges, for one target
  MaxInputs   \* bound: no add_edge beyond this many inputs

ASSUME TableAssumption ==
  /\ Table \in Seq(Node) /\ Outputs \in [Node -> Seq(Name)]
  /\ Target \subseteq Keys(Table) /\ Key \subseteq Name /\ None \notin Name
  /\ Inputs \subseteq Seq(Name)

EdgeRecord(indices) ==
  [source : Name, sourceIdx : PortIdx \cup {None}, targetIdx : indices,
   valueName : Name \cup {None}]

\* PortIdx holds every port that a list of outputs or a token speaks of, and an
\* id with any of these ports makes a token.
ASSUME PortsAssumption ==
  /\ 0 \in PortIdx /\ PortIdx \subseteq Int /\ None \notin Int
  /\ \A n \in Node : \A j \in DOMAIN Outputs[n] : j - 1 \in PortIdx
  /\ \A t \in DOMAIN Token : Token[t].idx \in PortIdx
  /\ \A k \in Key, i \in PortIdx : [id |-> k, idx |-> i] \in {Token[t] : t \in DOMAIN Token}

ASSUME EdgesAssumption ==
  /\ Connection \subseteq EdgeRecord(Nat \cup {None})
  /\ Edge \subseteq EdgeRecord(Nat) /\ EdgeList \subseteq Seq(Edge)
  /\ MaxInputs \in Nat

VARIABLES inputs, valueNames

vars == <<inputs, valueNames>>

TypeOK ==
  /\ inputs \in [Target -> Seq(Name)]
  /\ valueNames \in [Target -> {valueNames[t] : t \in Target}]
  /\ \A t \in Target : /\ DOMAIN valueNames[t] \subseteq DOMAIN inputs[t]
                       /\ valueNames[t] \in [DOMAIN valueNames[t] -> Name]

NoNames == [i \in {} |-> None]

Init ==
  /\ inputs \in [Target -> Inputs]
  /\ valueNames = [t \in Target |-> NoNames]

-----------------------------------------------------------------------------
(* Names and ports                                                         *)

Ids == Keys(Table)
Port == [nm \in Name |-> ResolvePort(OutputMapOf(Table, Outputs), Table, nm)]

\* get_output_name
OutputName(k, idx) ==
  LET names == Outputs[Table[PositionOf(Table, k)]]
  IN  IF idx + 1 \in DOMAIN names THEN names[idx + 1]
      ELSE CHOOSE t \in DOMAIN Token : Token[t] = [id |-> k, idx |-> idx]

\* Mutant of SourceName: the port is looked up when the inputs are being kept, too.
SourceNameClearing(e, clear) ==
  CASE e.source \notin Ids /\ e.valueName # None -> e.valueName
    [] e.source \in Ids /\ e.sourceIdx # None    -> OutputName(e.source, e.sourceIdx)
    [] OTHER -> IF e.valueName # None THEN e.valueName ELSE e.source

\* _resolve_edge_src_name: the name an edge contributes to its target's inputs.
SourceName(e, clear) ==
  CASE e.source \notin Ids /\ e.valueName # None -> e.valueName
    [] e.source \in Ids /\ e.sourceIdx # None /\ (clear \/ e.sourceIdx # 0)
                                                 -> OutputName(e.source, e.sourceIdx)
    [] OTHER -> IF e.valueName # None THEN e.valueName ELSE e.source

\* Mutant of Edges: target_idx counts from 1.
EdgesFromOne(ins, names) ==
  [i \in DOMAIN ins |->
     [source    |-> ins[i],
      sourceIdx |-> IF Port[ins[i]] = None THEN 0 ELSE Port[ins[i]][2],
      targetIdx |-> i,
      valueName |-> IF i \in DOMAIN names THEN names[i] ELSE None]]

\* The edges property, for one target whose inputs are ins.
Edges(ins, names) ==
  [i \in DOMAIN ins |->
     [source    |-> ins[i],
      sourceIdx |-> IF Port[ins[i]] = None THEN 0 ELSE Port[ins[i]][2],
      targetIdx |-> i - 1,
      valueName |-> IF i \in DOMAIN names THEN names[i] ELSE None]]

-----------------------------------------------------------------------------
(* Folding a list of edges into the inputs of their target                 *)

Wired(ins, names) == [inputs |-> ins, names |-> names]
Listed(nm, ins) == \E i \in DOMAIN ins : ins[i] = nm
FirstAt(nm, ins) == CHOOSE i \in DOMAIN ins : ins[i] = nm /\ \A j \in 1..(i - 1) : ins[j] # nm

\* edge_value_names[(target, i - 1)] = value_name, if there is one.
Noted(names, i, vn) ==
  IF vn = None THEN names
  ELSE [j \in DOMAIN names \cup {i} |-> IF j = i THEN vn ELSE names[j]]

\* Mutant of ApplyEdge: a name that is listed already is never listed again.
ApplyEdgeOnce(w, e, clear) ==
  LET nm == SourceName(e, clear)
      appended == ~Listed(nm, w.inputs)
      ins == IF appended THEN Append(w.inputs, nm) ELSE w.inputs
  IN  Wired(ins, Noted(w.names, FirstAt(nm, ins), e.valueName))

\* Mutant of ApplyEdge: the value name is noted at the edge's target_idx.
ApplyEdgeNotingPort(w, e, clear) ==
  LET nm == SourceName(e, clear)
      appended == ~Listed(nm, w.inputs) \/ e.targetIdx >= Len(w.inputs)
      ins == IF appended THEN Append(w.inputs, nm) ELSE w.inputs
  IN  Wired(ins, Noted(w.names, e.targetIdx + 1, e.valueName))

\* One turn of the loop in _apply_edges_list.
ApplyEdge(w, e, clear) ==
  LET nm == SourceName(e, clear)
      appended == ~Listed(nm, w.inputs) \/ e.targetIdx >= Len(w.inputs)
      ins == IF appended THEN Append(w.inputs, nm) ELSE w.inputs
  IN  Wired(ins, Noted(w.names, IF appended THEN Len(ins) ELSE FirstAt(nm, ins), e.valueName))

\* Mutant of Repeated: the port is left out of the key.
RepeatedSource(list, i, clear) ==
  \E j \in 1..(i - 1) : SourceName(list[j], clear) = SourceName(list[i], clear)

\* port_key in seen_ports
Repeated(list, i, clear) ==
  \E j \in 1..(i - 1) : /\ list[j].targetIdx = list[i].targetIdx
                        /\ SourceName(list[j], clear) = SourceName(list[i], clear)

\* _apply_edges_list on the edges that lead to one target.
Applied(start, list, clear) ==
  LET after[i \in 0..Len(list)] ==
        IF i = 0 THEN start
        ELSE IF Repeated(list, i, clear) THEN after[i - 1]
        ELSE ApplyEdge(after[i - 1], list[i], clear)
  IN  after[Len(list)]

Assigned(list) == Applied(Wired(<<>>, NoNames), list, TRUE)
Reloaded(w) == Applied(Wired(w.inputs, NoNames), Edges(w.inputs, w.names), FALSE)

-----------------------------------------------------------------------------
Now(t) == Wired(inputs[t], valueNames[t])

\* Every target's wiring becomes what after says.
Rewire(after) ==
  /\ inputs' = [t \in Target |-> after[t].inputs]
  /\ valueNames' = [t \in Target |-> after[t].names]

\* graph.add_edge(c.source, t, c.sourceIdx, c.targetIdx, c.valueName)
AddEdge(t, c) ==
  LET ins == inputs[t]
      nm == IF c.source \in Ids /\ c.sourceIdx \notin {None, 0}
            THEN OutputName(c.source, c.sourceIdx)
            ELSE IF c.source \notin Ids /\ c.valueName # None THEN c.valueName ELSE c.source
      appended == ~Listed(nm, ins) \/ (c.targetIdx # None /\ c.targetIdx >= Len(ins))
  IN  /\ Len(ins) < MaxInputs
      /\ inputs' = [inputs EXCEPT ![t] = IF appended THEN Append(ins, nm) ELSE ins]
      /\ valueNames' = [valueNames EXCEPT ![t] =
                          IF appended THEN Noted(@, Len(ins) + 1, c.valueName) ELSE @]

\* graph.edges = list
SetEdges(lists) == Rewire([t \in Target |-> Assigned(lists[t])])

\* The wiring of t after graph.edges = [e for e in graph.edges if ...], the
\* edges at the positions in gone being those left out.
Filtered(t, gone) ==
  Assigned(Selected(Edges(inputs[t], valueNames[t]), DOMAIN inputs[t] \ gone))

Places == UNION {{t} \X DOMAIN inputs[t] : t \in Target}

FilterEdges(gone) ==
  Rewire([t \in Target |-> Filtered(t, {p[2] : p \in {q \in gone : q[1] = t}})])

\* The wiring of t after graph.edges = graph.edges + [edge], the edge leading to
\* the first port of t that is free.
Extended(t, e) ==
  Assigned(Append(Edges(inputs[t], valueNames[t]), [e EXCEPT !.targetIdx = Len(inputs[t])]))

ExtendEdges(t, e) ==
  /\ Len(inputs[t]) < MaxInputs
  /\ Rewire([u \in Target |-> IF u = t THEN Extended(t, e) ELSE Filtered(u, {})])

\* from_dict(graph.to_dict()), from_json(graph.to_json()), and the graph that
\* propagate_shapes_and_constants returns: copies of the nodes, inputs
\* included, and then the edges on top of them.
Reload == Rewire([t \in Target |-> Reloaded(Now(t))])

Next ==
  \/ \E t \in Target, c \in Connection : AddEdge(t, c)
  \/ \E lists \in [Target -> EdgeList] : SetEdges(lists)
  \/ \E gone \in SUBSET Places : FilterEdges(gone)
  \/ \E t \in Target, e \in Edge : ExtendEdges(t, e)
  \/ Reload

Spec == Init /\ [][Next]_vars

-----------------------------------------------------------------------------
(* Properties                                                              *)
(*                                                                         *)
(* The round trips are promised where a name says one thing.  With the id  *)
(* of one node listed as the second output of another, say, an input of    *)
(* that name is resolved by the map of outputs in the edges property and   *)
(* by the table of nodes in _resolve_edge_src_name.                        *)

\* What an input names: a port of a node, or something outside the graph.
Operand(nm) ==
  CASE nm \in Ids        -> [id |-> nm, idx |-> 0]
    [] nm \notin Ids /\ Port[nm] # None -> [id |-> IdOf[Port[nm][1]], idx |-> Port[nm][2]]
    [] OTHER             -> [external |-> nm]

\* Every name that is some node's, an output it lists or a token with its id,
\* names that port and no other.
NamesAreUnambiguous ==
  /\ \A i \in DOMAIN Table : \A j \in DOMAIN Outputs[Table[i]] :
       Operand(Outputs[Table[i]][j]) = [id |-> IdOf[Table[i]], idx |-> j - 1]
  /\ \A t \in DOMAIN Token : Token[t].id \in Ids => Operand(t) = Token[t]

Operands(ins) == [i \in DOMAIN ins |-> Operand(ins[i])]

\* Every value name recorded for an edge is the name its target takes as input.
Aligned ==
  \A t \in Target : \A i \in DOMAIN valueNames[t] : valueNames[t][i] = inputs[t][i]

\* Taking edges away through the edges property leaves the operands of the
\* others what they were, in their order; taking none away changes none.
FilterKeepsOperands ==
  NamesAreUnambiguous /\ Aligned =>
    \A t \in Target : \A gone \in SUBSET DOMAIN inputs[t] :
      Operands(Filtered(t, gone).inputs) =
        Selected(Operands(inputs[t]), DOMAIN inputs[t] \ gone)

\* A graph whose value names are its inputs comes back from a round trip with
\* the inputs it went in with.
ReloadKeepsInputs ==
  [][NamesAreUnambiguous /\ Aligned /\ inputs' # inputs => ~Reload]_vars

\* Reloading what was reloaded changes nothing more, whatever the value names.
ReloadIsIdempotent ==
  NamesAreUnambiguous =>
    \A t \in Target : LET once == Reloaded(Now(t)) IN Reloaded(once) = once

\* An edge added for the next free port of a target becomes the operand there,
\* under its value name, and leaves the other operands what they were, even if
\* it comes from a source that feeds the target already.
ExtendingAddsOperand ==
  NamesAreUnambiguous /\ Aligned =>
    \A t \in Target, e \in Edge :
      LET w == Extended(t, e)
      IN  /\ Operands(w.inputs) =
               Append(Operands(inputs[t]), Operand(SourceName(e, TRUE)))
          /\ e.valueName # None => w.names[Len(w.inputs)] = e.valueName
=============================================================================
