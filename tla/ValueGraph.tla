----------------------------- MODULE ValueGraph -----------------------------
(***************************************************************************)
(* The graphs that the passes of transforms.py work on, and what the names *)
(* in them stand for.  A graph is a record: items, its node table; inputs, *)
(* the names each node reads; outputs, the names it returns.               *)
(***************************************************************************)
EXTENDS NodeTable, SequencesExt

CONSTANTS
  Outputs,    \* the output names each node lists
  Op,         \* everything else of a node that CSE compares: operator, domain,
              \* attributes, shape, dtype, device, stream, subgraphs
  Effectful,  \* nodes that act on something outside the graph
  Source      \* nodes that make a value of their own: inputs, random numbers

ASSUME OutputsAssumption == Outputs \in [Node -> Seq(Name)] /\ Key \subseteq Name
ASSUME KindAssumption == Effectful \subseteq Node /\ Source \subseteq Node /\ None \notin Key
\* Each port has one token: a second spelling of it, as 'a:01', is not among the names.
ASSUME PortTokensAssumption ==
  /\ \A m, n \in Node : \A i \in DOMAIN Outputs[m] :
       [id |-> IdOf[n], idx |-> i - 1] \in {Token[t] : t \in DOMAIN Token}
  /\ \A s, t \in DOMAIN Token : Token[s] = Token[t] => s = t

Ids(g) == Keys(g.items)
NodeAt(g, k) == g.items[PositionOf(g.items, k)]

\* get_output_producer, and the port beside the producer.
PortOf(g, nm) == ResolvePort(OutputMapOf(g.items, Outputs), g.items, nm)

\* What a name among inputs or outputs stands for: an id is its node's first
\* port, whatever the output names say.
Resolve(g, nm) == IF nm \in Ids(g) THEN <<NodeAt(g, nm), 0>> ELSE PortOf(g, nm)

\* The ids that names lead to.
Producers(g, names) ==
  {IdOf[Resolve(g, nm)[1]] : nm \in {x \in ToSet(names) : Resolve(g, x) # None}}

\* Node k reads from a node in S.
WaitsIn(g, k, S) == Producers(g, g.inputs[k]) \cap S # {}

\* get_output_name
OutputName(n, idx) ==
  IF idx + 1 \in DOMAIN Outputs[n] THEN Outputs[n][idx + 1]
  ELSE CHOOSE t \in DOMAIN Token : Token[t] = [id |-> IdOf[n], idx |-> idx]

-----------------------------------------------------------------------------
\* A value is the operation that makes it and the values it is made of, or the
\* name of what no node makes.  A node with an effect or with a value of its own
\* makes a value that no other makes.
External(nm) == [external |-> nm]
Term(op, by, args, idx) == [op |-> op, by |-> by, args |-> args, idx |-> idx]

\* The value of nm, if values has those of the names that its node reads.
ValueFrom(g, values, nm) ==
  LET port == Resolve(g, nm)
      n == port[1]
      read == g.inputs[IdOf[n]]
  IN  IF port = None THEN External(nm)
      ELSE Term(Op[n], IF n \in Effectful \cup Source THEN IdOf[n] ELSE None,
                [i \in DOMAIN read |-> values[read[i]]], port[2])

\* The value of each name; on a path that leads into a cycle, an approximation.
Values(g) ==
  LET upto[d \in 0..Len(g.items)] ==
        [nm \in Name |-> IF d = 0 THEN External(nm) ELSE ValueFrom(g, upto[d - 1], nm)]
  IN  upto[Len(g.items)]
=============================================================================
