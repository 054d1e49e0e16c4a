-------------------------- MODULE AttributeValues --------------------------
(***************************************************************************)
(* Attribute values as the validators tell them apart, and what they       *)
(* report.  A value is a record of one field, its Python type.  The texts  *)
(* the rules take apart have types of their own: reg names a register of   *)
(* the node's instruction set, in any spelling (R1, v1, vgpr1, and 1 where *)
(* that names a VGPR); digits is a mask of at most six characters that     *)
(* lists barriers by their digits; pred is a predicate, @P... or @!P...;   *)
(* str is any other text, and never that of a number.  A node is a record  *)
(* with the fields of LogicalNode the validators read, and specs, the      *)
(* number of its output_specs.                                             *)
(***************************************************************************)
EXTENDS Integers, Sequences, SequencesExt, FiniteSets, FiniteSetsExt

CONSTANTS
  None,
  Sym,   \* a dimension that is not an int
  Token  \* what a name of the form 'node_id:idx' parses to

IntValue(n) == [int |-> n]
Float(text) == [float |-> text]
Str(s) == [str |-> s]
Bool(b) == [bool |-> b]
ListOf(s) == [list |-> s]
Register(n) == [reg |-> n]
Digits(barriers) == [digits |-> barriers]
Predicate(text) == [pred |-> text]
DictOf(f) == [dict |-> f]

Is(v, type) == v # None /\ DOMAIN v = {type}
IsText(v) == \E type \in {"str", "reg", "digits", "pred"} : Is(v, type)
IsInt(v) == Is(v, "int") /\ v.int \in Int
IsNat(v) == IsInt(v) /\ v.int >= 0

\* isinstance(v, int) takes a bool too, for 0 or 1.
IsNumber(v) == IsInt(v) \/ Is(v, "bool")
NumberOf(v) == IF IsInt(v) THEN v.int ELSE IF v.bool THEN 1 ELSE 0

\* node.attributes.get(name)
Get(node, name) == IF name \in DOMAIN node.attrs THEN node.attrs[name] ELSE None

\* The attribute, or the other one if it is not given.
GetEither(node, name, other) == IF name \in DOMAIN node.attrs THEN node.attrs[name] ELSE Get(node, other)

\* bool(v): whether "v or other" takes v.
Truthy(v) ==
  CASE v = None -> FALSE
    [] IsInt(v) -> v.int # 0
    [] Is(v, "bool") -> v.bool
    [] Is(v, "float") -> v.float # "0.0"
    [] Is(v, "str") -> v.str # ""
    [] Is(v, "list") -> v.list # <<>>
    [] Is(v, "dict") -> DOMAIN v.dict # {}
    [] OTHER -> TRUE

\* The attribute, or the other one if it is not given or falsy.
GetTruthy(node, name, other) == IF Truthy(Get(node, name)) THEN Get(node, name) ELSE Get(node, other)

IntOr(v, default) == IF IsInt(v) THEN v.int ELSE default

\* _ATTRIBUTE_TYPE_CHECKERS; a type it does not list takes everything.
HasType(v, type) ==
  CASE type = "int" -> IsInt(v)
    [] type = "float" -> IsInt(v) \/ Is(v, "float")
    [] type = "str" -> IsText(v)
    [] type = "bool" -> Is(v, "bool")
    [] type = "dict" -> Is(v, "dict")
    [] type = "List[int]" -> Is(v, "list") /\ \A x \in ToSet(v.list) : IsInt(x)
    [] type = "List[float]" -> Is(v, "list") /\ \A x \in ToSet(v.list) : IsInt(x) \/ Is(x, "float")
    [] type = "List[str]" -> Is(v, "list") /\ \A x \in ToSet(v.list) : IsText(x)
    [] OTHER -> TRUE

-----------------------------------------------------------------------------
(* Reports: ValidationError without its wording.                           *)

Report(node, attribute, level) == [node |-> node.id, attribute |-> attribute, level |-> level]

\* A report if the condition holds.
If(cond, report) == IF cond THEN {report} ELSE {}

\* The severity of what is only an error in STRICT mode.
Advice(level) == IF level = "STRICT" THEN "ERROR" ELSE "WARNING"

Fatal(reports) == {r \in reports : r.level = "ERROR"}

-----------------------------------------------------------------------------
(* Graphs: sequences of nodes, in the order of the table.                  *)

Named(graph, id) == {i \in DOMAIN graph : graph[i].id = id}
Making(graph, name) == {i \in DOMAIN graph : name \in ToSet(graph[i].outputs)}

\* The nodes whose id is that of the token, if the name is one.
NamedByToken(graph, name) == IF name \in DOMAIN Token THEN Named(graph, Token[name].id) ELSE {}

\* Where graph.nodes.get(name) or graph.get_output_producer(name) finds a node.
ProducerAt(graph, name) ==
  LET named == Named(graph, name)
      making == Making(graph, name)
  IN  IF named # {} THEN named ELSE IF making # {} THEN {Max(making)} ELSE NamedByToken(graph, name)
ProducerOf(graph, name) ==
  IF ProducerAt(graph, name) = {} THEN None ELSE graph[CHOOSE i \in ProducerAt(graph, name) : TRUE]

\* The port of a derived edge (source_idx), which is that of a listed name even where
\* the name is also an id.
PortIndex(graph, name) ==
  LET making == Making(graph, name)
      outputs == graph[Max(making)].outputs
  IN  IF making # {} THEN Max({j \in DOMAIN outputs : outputs[j] = name}) - 1
      ELSE IF NamedByToken(graph, name) # {} THEN Token[name].idx ELSE 0

\* The ports of a node with multiple outputs; None of another.
PortCount(node) ==
  CASE Len(node.outputs) > 1 -> Len(node.outputs)
    [] Len(node.outputs) <= 1 /\ node.specs > 1 -> node.specs
    [] OTHER -> None

\* The operators that some rules know under two names.
PlainOp(op) ==
  CASE op = "AllReduce" -> "all_reduce"
    [] op = "AllGather" -> "all_gather"
    [] op = "ReduceScatter" -> "reduce_scatter"
    [] op = "AllToAll" -> "all_to_all"
    [] op = "quantization.block_quantize" -> "block_quantize"
    [] op = "quantization.dequantize_grouped_int4" -> "dequantize_grouped_int4"
    [] OTHER -> op

IsShaped(node) == node.shape # None /\ node.shape # <<>>
IsSize(dim) == dim # Sym
=============================================================================
