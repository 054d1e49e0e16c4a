----------------------------- MODULE SsaLookup -----------------------------
(***************************************************************************)
(* What name lookup on a LogicalGraph promises, with no cache in sight:    *)
(* get_output_producer and get_producing_output_index answer from the      *)
(* nodes and output lists as they are at the moment of the call.           *)
(*                                                                         *)
(* The one licence: after a mutation that no version counter records, an   *)
(* answer is unspecified (unrecorded = TRUE) until a lookup rebuilds or a  *)
(* recorded change forces a rebuild.                                       *)
(***************************************************************************)
EXTENDS NodeTable

VARIABLES
  nodes,        \* the node table, in insertion order
  outs,         \* the output names each node object lists
  answer,       \* what the last call returned, NoQuery if it was not a lookup
  unrecorded    \* a mutation escaped the counters since the last rebuild

vars == <<nodes, outs, answer, unrecorded>>

NoQuery == [name |-> None, port |-> None]

Init ==
  /\ answer = NoQuery
  /\ unrecorded = FALSE

\* A change of the graph that the counters see never widens the licence.
Change ==
  /\ unrecorded' \in {unrecorded, FALSE}
  /\ answer' = NoQuery

\* A change that they do not see.
UnrecordedChange ==
  /\ unrecorded' = TRUE
  /\ answer' = NoQuery

\* A lookup changes neither nodes nor outputs, and outside the licence its
\* answer is computed from the graph as it is now.
Query ==
  \E nm \in Name :
    /\ answer'.name = nm
    /\ ~unrecorded => answer'.port = ResolvePort(OutputMapOf(nodes, outs), nodes, nm)
    /\ unrecorded' \in {unrecorded, FALSE}
    /\ UNCHANGED <<nodes, outs>>

Next == Change \/ UnrecordedChange \/ Query

Spec == Init /\ [][Next]_vars
=============================================================================
