----------------------------- MODULE MCEdgeSync -----------------------------
(***************************************************************************)
(* Instance: split lists the outputs s0 and s1; relu and add were built    *)
(* with no outputs given, so that each lists its own id, and what relu has *)
(* at port 1 goes by its token; add is where the edges lead.  x is         *)
(* nobody's output, and v a value name that any edge can be given.         *)
(***************************************************************************)
EXTENDS EdgeSync

CONSTANTS split, relu, add, s0, s1, x, v

MCNode == {split, relu, add}
MCPortIdx == {0, 1}
MCTokens == MCNode \X MCPortIdx
MCName == MCNode \cup {s0, s1, x, v} \cup MCTokens
MCToken == [t \in MCTokens |-> [id |-> t[1], idx |-> t[2]]]
MCIdOf == [n \in MCNode |-> n]
MCTable == <<split, relu, add>>
MCOutputs == [n \in MCNode |-> IF n = split THEN <<s0, s1>> ELSE <<n>>]
MCTarget == {add}
MCInputs ==
  UNION {[1..k -> {split, s1, x, relu}] : k \in 0..2} \cup {<<x, s1, x>>, <<relu, s0, <<relu, 1>>>>}

Source(n, idx) == [source |-> n, sourceIdx |-> idx]
MCSource == {Source(split, 1), Source(relu, 0), Source(relu, 1), Source(x, 0)}

MCConnection ==
  {[source |-> s.source, sourceIdx |-> s.sourceIdx, targetIdx |-> i, valueName |-> n] :
     s \in MCSource \cup {Source(split, 0), Source(s1, None)},
     i \in {None, 0, 2}, n \in {None, v, s1}}

MCEdge ==
  {[source |-> s.source, sourceIdx |-> s.sourceIdx, targetIdx |-> i, valueName |-> n] :
     s \in MCSource, i \in {0, 1}, n \in {None, v}}
MCEdgeList ==
  {list \in UNION {[1..k -> MCEdge] : k \in 0..2} :
     list # <<>> => \E i \in DOMAIN list : list[i].targetIdx = 0}
=============================================================================
