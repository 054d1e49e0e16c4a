----------------------------- MODULE NodeTable -----------------------------
(***************************************************************************)
(* Pure operators on a graph's node table.  NodeDict (graph.py) is a       *)
(* Python dict in insertion order, modelled by the sequence of its values; *)
(* every value is filed under its own id, as add_node files it.  A node    *)
(* object and its id are different things: two objects can carry one id,   *)
(* and filing the second replaces the first in place.                      *)
(***************************************************************************)
EXTENDS Integers, Sequences

CONSTANTS
  Node,     \* node objects
  Key,      \* node ids
  IdOf,     \* the id of each node object
  Name,     \* SSA names and 'node_id:idx' tokens
  Token,    \* what a name of the form 'node_id:idx' parses to
  None      \* Python's None

ASSUME IdOfAssumption == IdOf \in [Node -> Key]
ASSUME NoneAssumption == None \notin Node /\ None \notin Node \X Int
ASSUME TokenAssumption ==
  /\ DOMAIN Token \subseteq Name
  /\ \A t \in DOMAIN Token : Token[t] \in [id : Key, idx : Int]

Keys(items) == {IdOf[items[i]] : i \in DOMAIN items}

PositionOf(items, k) == CHOOSE i \in DOMAIN items : IdOf[items[i]] = k

\* dict[node.id] = node: replaces in place, or appends.
Put(items, n) ==
  IF IdOf[n] \in Keys(items)
  THEN [items EXCEPT ![PositionOf(items, IdOf[n])] = n]
  ELSE Append(items, n)

\* dict.pop(k, default)
Drop(items, k) ==
  IF k \in Keys(items)
  THEN [j \in 1..(Len(items) - 1) |->
          IF j < PositionOf(items, k) THEN items[j] ELSE items[j + 1]]
  ELSE items

\* [x for x in s if ...], P being the positions of s that are kept.  SelectSeq,
\* as a recursive function, which proofs can expand.
Selected(s, P) ==
  LET upto[i \in 0..Len(s)] ==
        IF i = 0 THEN <<>> ELSE IF i \in P THEN Append(upto[i - 1], s[i]) ELSE upto[i - 1]
  IN  upto[Len(s)]

-----------------------------------------------------------------------------
\* The rebuilt map: a later entry for the same name overwrites an earlier one.
OutputMapOf(items, outs) ==
  [nm \in Name |->
     LET ports == UNION {{<<i, j>> : j \in DOMAIN outs[items[i]]} : i \in DOMAIN items}
         found == {p \in ports : outs[items[p[1]]][p[2]] = nm}
         last  == CHOOSE p \in found : \A q \in found :
                     q[1] < p[1] \/ (q[1] = p[1] /\ q[2] <= p[2])
     IN  IF found = {} THEN None ELSE <<items[last[1]], last[2] - 1>>]

\* _resolve_output_port: the map first, then the 'node_id:idx' reading of the name.
ResolvePort(map, items, nm) ==
  IF map[nm] # None THEN map[nm]
  ELSE IF nm \in DOMAIN Token /\ Token[nm].id \in Keys(items)
       THEN <<items[PositionOf(items, Token[nm].id)], Token[nm].idx>>
       ELSE None
=============================================================================
