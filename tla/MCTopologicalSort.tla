------------------------- MODULE MCTopologicalSort -------------------------
(***************************************************************************)
(* Instance: every graph over at most three of the ids 1, 2 and 3 with at  *)
(* most two inputs per node, so that two inputs can come from one node, a  *)
(* node can feed itself, and an input can resolve to nothing.              *)
(***************************************************************************)
EXTENDS TopologicalSort

MCId == 1..3
=============================================================================
