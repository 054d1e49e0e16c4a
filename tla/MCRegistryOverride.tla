------------------------- MODULE MCRegistryOverride -------------------------
(***************************************************************************)
(* Instance: two threads, two calls each, three operators, two registries *)
(***************************************************************************)
EXTENDS RegistryOverride

MCInitial == [sass |-> [FFMA |-> "own"], onnx |-> [MatMul |-> "own"]]
MCOverride ==
  {[reg |-> "sass", overrides |-> [HMMA |-> "temp"], clear |-> FALSE],
   [reg |-> "onnx", overrides |-> [FFMA |-> "temp"], clear |-> TRUE],
   [reg |-> "onnx", overrides |-> Nothing, clear |-> TRUE]}
Read(name, latency) == [name |-> name, schema |-> "read", latency |-> latency]
MCFile ==
  [whole |-> <<Read("FFMA", 6), Read("HMMA", 8)>>, broken |-> <<Read("HMMA", 9), None>>,
   empty |-> <<>>, bundled |-> <<>>]
MCCanonical == [FFMA |-> "canonical"]
MCCanonicalLatency == [FFMA |-> 4]
=============================================================================
