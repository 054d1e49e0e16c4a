# A TLA+ model of ml-switcheroo-ir

`ml-switcheroo-ir` is a Python library: an intermediate representation for
neural-network graphs with the registries, validators and transformations
around it. This directory specifies its stateful core in TLA+, checks the
specifications with TLC and proves the most important facts with TLAPS.

Paths below are relative to the repository; package files are named relative
to `src/ml_switcheroo_ir/`.

## 1. Inventory

The library has no threads, no network and no daemon of its own. What is hard
in it is state that is kept twice and must agree (a cache and its source, edges
and inputs, value names and positions), algorithms whose result must not
depend on the order of calls, and operations that stop half-way. The one place
with concurrency is the registry lock.

| Component | Code | State | Operations | Correct means |
|---|---|---|---|---|
| Name lookup | `graph.py`: `NodeDict`, `VersionedOutputList`, `LogicalGraph._output_map` | the node table, each node's outputs, version counters, the cached map | table and output changes, `get_output_producer`, `get_producing_output_index` | an answer is computed from the graph as it is now |
| Edges and inputs | `graph.py`: `edges`, `add_edge`; `serialization.py`: `_apply_edges_list` | each node's inputs, value names by position | `add_edge`, assignment to `edges`, rebuilding from nodes and edges | operands survive going through the edge view |
| Topological sort | `graph.py`: `topological_sort` | in-degrees, worklist, result | one call | dependencies first, no node lost, cycles found, the loop ends |
| Constraint tracker | `shapes/tracker.py` | a disjoint-set forest, sizes by root, a flag | `record_equality`, `add_constraint`, `unify`, `substitute`, `solve` | equality classes with one size each |
| Transformations | `transforms.py` | none between calls | DCE, CSE, shape propagation | outputs and effects mean what they meant |
| Shape inference | `shapes/inference.py` | shapes on nodes, a tracker | broadcasting, elementwise inference, `resolve_dynamic_bounds` | shapes agree with the tracker's equalities |
| Expressions | `shapes/ast.py`, `polynomial.py`, `parser.py` | none (immutable values) | arithmetic, canonical forms, parsing | canonical forms of equal expressions are equal |
| Serialization | `serialization.py` | a buffer and a position while streaming | dict, JSON and streamed reading and writing | a graph comes back as it was |
| Registries | `schema/*.py` | operator tables, `REGISTRY_LOCK` | lazy loading, registration, `override_registry` | an override ends with the table it began with |
| Schema validation | `validation/schema_validator.py`, `core.py`, `quantization.py` | none between calls | validation by level, default population | a report lists exactly the violations |
| Hardware validation | `validation/hardware.py` | pending writes while scanning | SASS scoreboard, RDNA VOPD pairing | a hazard in the sequence is reported |
| Distributed validation | `validation/distributed.py`, `distributed.py` | none between calls | sharding propagation, pipeline order, cost model | inconsistent placements are reported |
| Grounding, snapshots | `validation/grounding.py`, `snapshots.py`, `schema/ghost.py` | loaded symbol tables | load, ground, suggest | a symbol is found iff a snapshot has it |
| Translation | `translation.py` | tables | translate a name, an attribute set | no invented parameter |
| Types, export, compliance, CLI | `types.py`, `export.py`, `compliance.py`, `cli.py` | none | code generation, scanning, I/O | - |

How they interact. The sort, the transformations and the validators all
resolve the names in a node's inputs through the lookup. The transformations
sort first and then build a new graph from cloned nodes together with a list of
edges, which goes through `_apply_edges_list`, as reading a serialized graph
does. Shape propagation and `resolve_dynamic_bounds` drive the constraint
tracker. Validators and translation read the registries.

The hazards (in `PROJECT.json`) are in these places: the cache-reuse test of
`_output_map` and the mutations it does not see; edge lists folded into inputs
that are there already; the order of unions and the entries old roots leave
behind in the tracker; cycles and duplicate inputs in the sort; aliases in CSE;
rewrites of dimensions and the two notions of their equality; shapes read
through ports; observations that contradict the tracker; the registry lock,
its nesting and its readers; chunk boundaries and cut files in the stream
reader; defaults that validation writes; the scoreboard; stage and sharding
rules that look at one edge at a time.

## 2. Modules

| Module | Role |
|---|---|
| `NodeTable` | the node table as a sequence of node objects, the name map a rebuild gives, and the resolution of a name: pure operators |
| `SsaLookup` | abstract: what lookup promises, with no cache |
| `OutputMap` | detailed: table, output lists, counters, cache |
| `EdgeSync` | inputs, value names and the edge view; uses `NodeTable` to resolve ports |
| `TopologicalSort` | the sort, one step per turn of its loop |
| `Dimensions` | keys, sizes and replies of the tracker |
| `DimensionClasses` | abstract: what the tracker promises |
| `ConstraintTracker` | detailed: the tracker and its disjoint-set forest |
| `ValueGraph` | graphs as records, what a name in one stands for, the value it denotes: pure operators on top of `NodeTable` |
| `DeadNodes` | `eliminate_dead_nodes`, one step per turn of its search |
| `CommonSubexpressions` | `eliminate_common_subexpressions`, on what `DeadNodes` returned |
| `Transforms` | the two passes composed, and what they promise together |
| `Expressions` | the polynomials of dimensions and their exact division, the classes of `SymNode` and their evaluation: pure operators |
| `Simplification` | `simplify`, `to_polynomial`, `canonical`: pure operators |
| `ExpressionText` | `str`, tokenizer, parser and solver: pure operators |
| `SymbolicInt` | a dimension built by operators, rewritten, written and read |
| `ShapeRules` | the shape rules of propagation and of broadcasting: pure operators |
| `TensorShapes` | reference: the shapes tensors really have, when all sizes are numbers |
| `ShapePropagation` | `propagate_shapes_and_constants`, one action per node |
| `ShapeFeedback` | propagation composed with `resolve_dynamic_bounds` |
| `RegistryOverride` | threads that override, load and read the registries |
| `AttributeValues` | attribute values and reports: pure operators |
| `HardwareRules` | SASS, RDNA and WGSL rules, VOPD pairs, the scoreboard, quantization |
| `DistributedRules` | sharding, collectives, pipeline stages |
| `GraphValidation` | `Validator`: levels, schemas, attributes, defaults, and a graph that grows and is validated by all those rules |
| `GraphDocuments` | `to_dict`, `from_dict`, `clone` and what JSON makes of values |
| `StreamReader` | the incremental reader, for values of any kind |
| `GraphFiles` | building and saving graphs, and reading them back: `StreamReader` with the documents of `GraphDocuments` |
| `MC*` | instances for TLC |
| `*Proofs` | theorems and proofs for TLAPS |

### OutputMap

`dict` is `graph.nodes`: its values in insertion order and `NodeDict.version`.
`outputs[n]` is the `VersionedOutputList` of the node object `n`: its names, its
version, and how many lists `n` has been given, which stands for the identity
of the list object. `cache` is the five `_cached_*` attributes. Each public
operation is an action. Those whose change no counter records (`extend` or item
assignment on `outputs`, `setdefault` on the table, assignment of a mapping to
`graph.nodes`, whose new `NodeDict` counts from zero again) are actions too:
they set the history variable `unrecorded` when a cached map exists, and so does
an output change on a node other than the one the cache watches.

`SsaLookup` says that a lookup changes nothing and, unless `unrecorded` holds,
answers what the current nodes and outputs give. `OutputMap` implements it
under the mapping `nodes <- dict.items`, `outs <- Names`.

### EdgeSync

`inputs` holds each target's inputs, `valueNames` the names that
`_edge_value_names` has for positions in it. An edge reads nothing but the ids
and output names of nodes, and changes nothing but its target, so a list of
edges is given target by target. `ApplyEdge` is one turn of the loop in
`_apply_edges_list`, `Applied` the loop, `Assigned` the setter (inputs are
cleared first), `Reloaded` reading back what was written (inputs are there
already). `FilterEdges` and `ExtendEdges` are the two edits that go through the
derived list: `graph.edges = [e for e in graph.edges if ...]` and
`graph.edges = graph.edges + [edge]`; `SetEdges` assigns a list made from scratch.
The list comprehension is `Selected` of `NodeTable`: the elements at given
positions, as a recursive function, which proofs can expand where they cannot
expand `SelectSeq`.

The four properties of round trips are about graphs whose names say one thing
(`NamesAreUnambiguous`): a listed output, and a token with a node's id, stands for
that port. Otherwise they are false of the code: with the id of one node listed
as the second output of another, `edges` looks an input of that name up in the map
of outputs and finds port 1, `_resolve_edge_src_name` looks it up in the table of
nodes and asks that node for its second output.

### TopologicalSort

The initial states are all small graphs, with `inputs` resolved to ids already
(`NodeTable` models the resolution), both values of `strict`, and the local
variables as they are when the loop begins. `Pop` is one turn of the loop;
`Return` and `Raise` are the two ends. `sorted(...)` on ids and iteration in
definition order are given by `Arrangements`: the one sequence of a set's
elements in increasing order of a rank.

### ConstraintTracker

`parent` is `_parent`, `constOf` is `_const_map` with the entries that old roots
leave in it, `contradiction` is `_contradiction`. A dimension is its canonical
key and whether it came as an `int`, which `record_equality` treats apart.
`Find` compresses paths as `_find` does. `Solve` calls `_find` on parents while it
walks the table, as the code does. The walk from a key to its root is given as a
least closed set instead of by recursion.

`DimensionClasses` knows no forest: a class of equal dimensions for every key,
and the flag. An equality whose union would hold two sizes is refused and
changes no class; all others unite two classes; every answer is the size of a
class or the dimension that was asked about.

### DeadNodes, CommonSubexpressions, Transforms

`graph` is what the first pass is given. `live` and `queue` are the locals of
`_collect_live_nodes`; `Sweep` is one turn of its loop, `Build` the construction
of the new graph, which is `result`. The second pass starts from `result`: `Sort`
takes any order that `topological_sort` may return, `todo` is what is left of it,
`alias` is `alias_map`, `merged` is `surviving_nodes` with the inputs they got.
`sig_map` follows from `merged` and has no variable. `Merge` and `Keep` are the two
ends of one turn, `Return` builds the graph. USAGE.md runs the passes in this
order.

`Op` stands for everything else the signature compares. `Values` gives each name
the term it denotes: the operation, its operands' terms and the port; nodes with
effects and sources of their own values denote terms of their own. The
properties compare terms before and after. The edges handed to the new graph
repeat inputs the nodes have, which adds nothing as long as no value name differs
from the input (`EdgeSync` has the case where one does). One graph level is
modelled: subgraphs are part of `Op`. Output names differ from each other and
from the ids of other nodes (SSA form). Graphs with cycles go through both
passes, since the sort is not strict there, with the nodes left over in table
order; the value properties are about acyclic graphs, because on a cycle a node
may be rewritten before the node it reads is merged.

### SymbolicInt and its operators

`node` is `SymInt.node`, a tree of records. `Combine` is what Python's operators
do on either side of a dimension, an `int` or a text; `ToSimplified`,
`ToCanonical` and `ReadBack` are `simplify`, `canonical` and writing a dimension
to its text and parsing it. `Expressions!Eval` is the evaluation of the code and
so the meaning against which the rewrites are judged: `None` where Python raises.
A text is the sequence of its lexemes. A polynomial keeps the order in which a
Python dict holds the terms, because the canonical form depends on it.

### ShapePropagation, ShapeFeedback

A graph is built from inputs by adding one operator after another, in an order in
which producers come first, as the sort gives it. `Propagate` is one turn of the
loop of `propagate_shapes_and_constants`: it resolves the shapes of the inputs (by
id, output name or token), applies the operator's rule of `ShapeRules`, writes
`shape_metadata` and `output_specs`, and leaves the equalities that the tracker
accepted in `classes`; the tracker itself is taken by `DimensionClasses`, which
`ConstraintTracker` is shown to implement. `ResolveDynamicBounds` is the method of
`ShapeTracker`: it looks at what was observed for each node in turn, binds
dimensions, overwrites shapes and may raise half-way. `real` holds the shapes
that a run with numbers gives the same operators; it comes from `TensorShapes`,
which says what operators mean and does not follow the code.

### RegistryOverride

Each thread has a stack of open calls (`frames`); it holds `REGISTRY_LOCK` while
the stack is not empty. `override_registry` is a save when it is entered, then
`clear` and `update`, the block, `clear` and `update` again, each one step, because
each is one call of a dict method that other threads may see the result of. In
the block, the thread may make further calls, overrides of the same or of another
registry included. An exception in the block is the same as its end. The SASS
loader reads its catalog entry by entry, writes latencies as it goes, and gives
up on a malformed entry; an empty catalog is replaced by the built-in tables only
when no path was given. The ONNX loader clears and refills. The other loaders
have the shape of the one or the other. `CheckOperator` and `FetchSchema` are the
two lookups of `Validator._get_schema`, which takes no lock. `base` is a history
variable: what the writes outside every override have made of a registry.

### GraphValidation and its rules

A graph grows node by node and is validated in between, with or without
`populate_defaults`. An attribute value is a record with its Python type as the
field, because the rules branch on types. A text that a rule takes apart has a type
of its own: `reg` names a register, `digits` is a barrier mask and says which barriers
it lists, `pred` is a predicate; `str` is every other text. Which port names are
tokens, VGPRs or SASS registers, and their numbers, are constants. Every check of the
functions in the map is there, with what it reads and the attribute it reports on.
A report is a node, a level and a kind; the wording is left out. `ScoreboardReports` folds over the nodes as the
code's loop does, passing over those that are not SASS. The properties say the
same without a loop: `ReadsUnfinished` from the writes before an instruction and the
cycles between, `StagedBefore` as the least set closed under what its nodes read.
A stall that is not a natural number is an error of its own (`SassReports`), and
`ScoreboardFlagsUnfinishedReads` speaks of graphs whose stalls are natural numbers.

### GraphDocuments, StreamReader, GraphFiles

`GraphDocuments` is the conversion of a graph to plain values and back, with what
each conversion loses: tuples become lists, other objects their text, a missing
value the default. Element types go through `Dtype`, the table of names and aliases
of `DType`; a `TensorSpec` is an element type and a shape, and an `Input` node that has
either gives its input one (`WithSpec`). `GraphFiles` is a graph that is built (input nodes add
themselves to `inputs` only at construction), saved, and read back; or a file by
another writer, which may name a section twice, have none, or be cut short.

`StreamReader` is `_stream_parse_graph` with its helpers: `buf` and `pos` are its
buffer and its place, `awaits` is where in its loops it stands, `Read(n)` is
`_read_next_chunk` with a chunk of n units, `meta` the dict of top-level values. The
nodes it files are recorded as the assignments `nodes[str(nid)] = ...` in their
order. What a value is does not matter to the reader: the constants say how many
parts it is spelled with (`Spelling`), whether a node can be made of it (`IsNode`)
and what graph the assignments and top-level values give (`Built`), and
`GraphFiles` fills them in with the conversions of `GraphDocuments`. A key is a
string of two parts, so that a chunk can cut it. `Decoded` is `raw_decode` of
Python's `json`, as it behaves at the end of a buffer: a value that is not all
there is an error, except a number, whose beginning is a number too. `IsFile`
says what a file is; TLC checks that what is saved is one (`SavedGraphIsLoaded`).
`ReaderSpec` is the reader by itself, on any file of `File`, cut anywhere. In
`GraphFiles` it also reads what was saved, so what holds for every set of files
holds there with the saved ones among them.

## 3. What is checked

All runs are exhaustive.

| Run | Distinct states | What it shows |
|---|---|---|
| `output_map` | 783,648 | `TypeOK`; `ReusedCacheIsCurrent`: a cache that would be reused equals a rebuilt one unless a change escaped the counters; `AnswersFromCurrentGraph`: `OutputMap` implements `SsaLookup` |
| `constraint_tracker` | 2,640 | `FindReturns`: no cycle of parents; `KeepsEqualities`: `ConstraintTracker` implements `DimensionClasses` |
| `topological_sort` | 66,814 | `DependenciesFirst`; `ReturnsEveryNode`; `StrictFindsCycles`; `Terminates` |
| `edge_sync` | 5,611 | `TypeOK`; `FilterKeepsOperands`, `ExtendingAddsOperand`: edits of the edge view change only the operands they name; `ReloadKeepsInputs`; `ReloadIsIdempotent` |
| `transforms` | 60,402 | `TypeOK`; `KeepsExactlyWhatIsNeeded`: what is kept suffices and nothing in it could go; `NamesResolveAlike`; `OutputsKeepTheirValues`, of graphs whose outputs are all made by nodes, and `EffectsKeepTheirArguments`: through both passes; `NothingIsComputedTwice`; `SweepEnds` |
| `symbolic_int` | 21,775 | `RewritingKeepsValue`: `simplify` and `canonical` keep the size for all positive sizes of variables; `ConsistentMeansEqual`: what the solver calls equal is; `ReadsBack`: texts read back as what they mean |
| `symbolic_int_hash` | violation | `EqualMeansSameHash`, finding 1 |
| `shape_feedback` | 36,132 | `PropagatedShapesAreReal`: inferred shapes are those of every run the equalities allow, by whatever name a port is read; `OneRunIsAccepted`; `ResolvedSizesAgree`: accepted observations give a dimension one size wherever it stands |
| `registry_override` | 23,306 | `OverridesAreUndone`; `OverriddenByOneThread`; `EveryCallIsServed` |
| `registry_readers` | violation | `FoundSchemasAreThere`, finding 2 |
| `graph_validation` | 63,279 | `ReportsIgnoreDefaults`; `ScoreboardFlagsUnfinishedReads`: against a definition over the whole sequence; `PairsAreMutual`; `AcceptedStagesRunForward`: through paths; `AcceptedProductsAlign`: devices hold matching stretches |
| `graph_files` | 16,559 | `ReadsWhatIsThere`: chunks make no difference, and a file cut short is an error; `SavedGraphIsLoaded`; `LoadedGraphIsSettled`; `BufferHoldsOneValue`; `LoadingEnds` |

Bounds, and why they are enough.

- `MCOutputMap`: two ids, three node objects (two of them for one id, so that a
  table entry can be replaced by another object), two names of which one is a
  token `a:1` that a node can also list as a plain name, tables of up to two
  nodes, `MaxDictVersion = 2` and one new list and one append for each of two
  nodes. A stale reuse needs a build, a change and a state in which all
  remembered values agree again; replacing the first node, swapping it with the
  second and giving it an equal list all fit.
- `MCConstraintTracker`: two variables, a composite expression, the sizes 1 and
  4. Chains of three links, two different sizes meeting through symbols, the
  unit dimension and literal against recorded size all occur. The view leaves
  out the last answer, which no method reads; properties of steps are still
  checked on every step. The two variables are symmetric: nothing orders them.
- `MCTopologicalSort`: all graphs with at most three nodes and two inputs each,
  inputs outside the graph, self loops and double edges included. Two-node
  cycles with a tail, and tails into cycles, need three nodes.
- `MCEdgeSync`: one target, a two-output node, a node that lists its own id
  (what a node built without outputs does) and a token for its second port, an
  external name, a value name that can be given to any edge; up to three inputs
  by `add_edge`, lists of up to two edges. Reloading may go beyond three inputs.
- `MCTransforms`: four nodes; b may do what a does and d what c does, so that
  merging d depends on the alias made by merging b. a and b list no, one or two
  outputs and are read by id, output name and token; b may be a source or have an
  effect, d may have an effect; a may read d, which closes a cycle through c or b.
  Outputs are both ends, a port of b and c, or a port of b and a name that no node
  makes. Of a b with one output that port does not exist. Chains of
  more than two merges repeat the step from the first to the second.
- `MCSymbolicInt`: two variables, operands 0, 2, -1, a variable, a product and a
  text with a call, on both sides of seven operators, two operators deep (plus
  negation, `abs` and any rewriting in between). Each rule of `simplify` matches a
  tree of at most two operators. Sizes 1 to 3 tell apart even and odd, equal and
  different, and dividing and not dividing; `MaxValue` and `MaxExponent` cap
  powers. The third name is a variable that the text may bring in.
- `MCShapeFeedback`: graph inputs of shapes (x, 4), (y) and (4, 2), a constant,
  and two operators, the second of which may read any port of the first.
  Sizings (4,4), (4,8), (8,8) make x and y equal or not, and both equal to a
  literal or not. `Cuts` lie within the sizes: see below. Observations come from one run,
  or from two that differ from some node on.
- `MCRegistryOverride`: two threads with two calls each, three operators, two
  registries, overrides with and without `clear`, a whole, a malformed and an
  empty catalog, and an empty default one. Nesting, a load inside an override and
  a load between two overrides of another thread all take two calls.
- `MCGraphValidation`: up to three nodes of one of seven families (SASS, RDNA,
  sharded, staged, operators with schemas, instructions that have every attribute
  that is checked, and readers of the ports of a node with two outputs), a 2 by 2
  mesh, and every default of the tables in `schema/custom_ops.py` and
  `schema/framework_registries.py`. A slow write, a stall or wait, and a read need three
  instructions; a product needs two operands. `Token`, `VgprPort` and `SassPort` say
  what the few names of this instance parse to.
- `MCGraphFiles`: graphs of up to three nodes, chunks of 1, 2 or 3 units in any
  sequence, files that end anywhere. A value has at least two units, so every
  chunk boundary in and between values occurs.

`CHECK_DEADLOCK FALSE` is set where the system may really stop: when an algorithm
has returned, and where counters and lengths are bounded. `MaxDictVersion`,
`MaxChanges`, `MaxInputs`, `OutputLists`, `Inputs`, `Connection`, `Edge`, `EdgeList`,
`PortIdx`, `Graph`, `MaxOps`, `MaxValue`, `MaxExponent`, `Size`, `MaxNodes`, `Call`,
`Cuts`, `Sizing`, `Report`, `Family`, `NodeId` and `ChunkSize` are the bounds; each is
named where it is declared.

Fairness. `Terminates` and `SweepEnds` assume `WF_vars(Next)` of the sort and of the
passes, `LoadingEnds` assumes `WF_vars(Loading)`. These loops are sequential code
within one call, and a step is enabled until the call ends, so weak fairness says
no more than that Python goes on executing it. `EveryCallIsServed` assumes
`WF_vars(Proceed(t))` for each thread: it is scheduled, the block of its override
ends, and it gets a lock that stays free. Calls are not assumed to be made. Weak
fairness is enough for a lock that others may take first only because `MaxOps`
bounds how often they do; nothing is claimed of an unfair lock under unlimited
contention.

### Findings

1. *Equal dimensions with different hashes.* `SymInt.__eq__` asks the solver whether
   the difference is zero; `__hash__` (`shapes/ast.py:1369`) hashes the text of the
   canonical form. The terms of that form are sorted by degree and by names
   without powers (`shapes/polynomial.py:348-351`), so x·x·y and x·y·y stay in the order
   in which they arose: (x + y)·(x·y) and (y + x)·(x·y) are equal and have different
   hashes. The docstring at `shapes/ast.py:1361` claims consistency. The constraint
   tracker files dimensions under the same text.
2. *Readers see an override half-way.* `override_registry` is documented as
   thread-safe (`schema/base.py:433`), but clears the registry in place, and
   `Validator._get_schema` looks an operator up and then fetches it without the
   lock (`validation/schema_validator.py:316-317`): the fetch can raise `KeyError`.

The properties that pass make room for the following, which the models contain
and no document of the repository contradicts sharply enough to be listed above:

- the cache of `_output_map` watches the first node's outputs only (`graph.py:1149`);
  other changes set `unrecorded`, and lookups after them may be stale. `SsaLookup`
  licenses that and does not catch it;
- reading a graph back adds an input when an edge's value name is not what its
  target takes as input (`serialization.py:669-674`); `ReloadKeepsInputs` says when
  it does not, `ReloadIsIdempotent` that it happens once;
- `_apply_edges_list` appends in list order whatever `target_idx` says
  (`serialization.py:714-716`);
- CSE has no alias for a port that its node does not list (`transforms.py:333`);
  `OutputsKeepTheirValues` assumes `PortsAreListed`;
- DCE "preserves explicit graph outputs" (`transforms.py:230`), but keeps only those
  that a node makes (`transforms.py:258`): a graph input or an initializer that is
  returned as it is disappears from the outputs, and those after it move up by one
  place. `OutputsKeepTheirValues` assumes `OutputsAreMade` and says nothing of such
  graphs; the states of the run have them;
- a name that is both an id and another node's output is read in two ways
  (`graph.py:1031`, `serialization.py:671`); the properties of `EdgeSync` and the value
  properties of `Transforms` assume `NamesAreUnambiguous`;
- a fraction or a character of several bytes cut by a chunk boundary can make the
  reader fail (`CanBeCutBadly`), never read something else;
- texts of `min`, `max` and of a power with a signed base do not read back
  (`Printable`);
- a symbolic slice is not clamped to its dimension, so `Cuts` lie within it;
- divisibility of a dimension split over several mesh axes is checked axis by axis;
- a malformed catalog leaves the latencies read before it;
- a node without a stage hides a backward edge between two that have one;
- the scoreboard remembers one write per register.

## 4. What is proved

Each theorem holds for all values of the constants that satisfy the named
assumptions, and is listed in `PROJECT.json`.

**OutputMap** (`NodeTableProofs`, `OutputMapProofs`), from `IdOfAssumption`,
`NoneAssumption`, `TokenAssumption`, `OutputListsAssumption`, `BoundsAssumption`.
`TypeCorrect` by induction on steps. `CacheCoherence`: the property is not
inductive by itself, because a cache that is out of date now could look fresh
again if a counter came back to the value it remembers. The inductive invariant
adds `CountersAhead`: while every change is recorded, no remembered value is
ahead of its counter, so a counter that has moved never comes back. `Refinement`
follows: a lookup step maps to `Query`, a recorded change to `Change`, another
to `UnrecordedChange`.

**ConstraintTracker** (`ConstraintTrackerProofs`), from
`KeyAssumption`, `SizeAssumption`, `DimAssumption`. About the forest: entering a
key, compressing a path and linking two roots keep it a forest and change roots
as expected (`Termination`). About sizes, `Coherent`: an entry of `_const_map` at
a root is the size of some literal in the root's class, and a literal that has
been equated with anything has its size entered at its root; entries at keys
that are no longer roots may hold anything. With both, each method is a step of
`DimensionClasses` (`Equalities`). Type correctness is part of the invariant.

**TopologicalSort** (`TopologicalSortProofs`), from `IdAssumption` and
`MaxInputsAssumption`. The invariant, until the sort returns: result and queue
hold no node twice; the in-degree of a node is the number of its producers that
are not in the result; exactly the nodes with in-degree zero are in the result
or the queue (`Counted`); producers of a sorted node come before it (`Ordered`).
When the queue is empty, every node left over waits for another one left over,
so the rest is `Knotted`, and a sorted node is in no knotted set: `OrderTheorem`,
`CompletenessTheorem`, `StrictTheorem`. Type correctness is part of the invariant.

**EdgeSync** (`SerializationProofs`), from `IdOfAssumption`, `TokenAssumption`,
`NoneAssumption`, `TableAssumption`, `PortsAssumption`, `EdgesAssumption`: for all tables,
output lists, ports, also negative ones, and lists of edges of any length.
`TypeCorrect` is inductive as it stands, once a fold over a list of edges is known
to give a wiring after every edge (`AppliedFold`). The other four follow from the
type and from facts about the folds, each an induction along the list.
A list whose edges lead to ports of their own, none of them behind what the edges
before it fill (`Spread`), becomes the inputs edge by edge (`AssignedInOrder`); what
is left of the derived list when edges are taken away is spread, because the
positions left are increasing (`SelectedInOrder`), and so is the derived list with
an edge for the next free port: `FilterKeepsOperandsHolds` and
`ExtendingAddsOperandHolds`. A reload never repeats an edge (`ReloadTurns`). If the
value names are the inputs, each turn finds its name listed: `ReloadKeepsInputsHolds`.
Whatever the value names were, after one reload each of them is an input and is
noted where its name first occurs (`Settled`, shown along the fold by
`ReloadSettles`), and a reload of what is settled notes the same names at the same
positions: `ReloadIsIdempotentHolds`.

**Transforms** (`TransformsProofs`), from the assumptions of `NodeTable`,
`OutputsAssumption`, `KindAssumption`, `PortTokensAssumption`, `GraphAssumption`: for all
graphs that `IsGraph` describes, of any size, with any names and cycles.

- *The search.* `SearchInv`: outputs and effects are live; a live node that is not
  queued has its producers live; and every sufficient set contains what is live.
  The second part says how far the search is and is what makes the first useful
  at the end; the third says that no step goes too far. When the queue is empty,
  `live` is the least sufficient set: `KeepsExactlyWhatIsNeededHolds`.
- *Names after the search.* `SweptInv`: until CSE is done, `result` is `Pruned`. A
  name leads to the last port that lists it. If that node is live it is the last
  one in the pruned table too; a name that is still read has a live producer, so
  `NamesResolveAlikeHolds` needs no assumption about names.
- *The merging loop.* `MergeInv`: no node is looked at twice, survivors are nodes
  that were kept, under distinct ids, and an alias is a name of a survivor.
  `TypeCorrect` follows.
- *Values.* `ProgressInv` adds, for graphs that are `Readable` (acyclic, names
  unambiguous, ports listed): there is an order of the nodes, producers first, of
  which `todo` is the rest (`Merging`); every node looked at so far either survives,
  with renamed inputs, or is represented by a survivor with the same operation
  and the same renamed inputs, and its names lead to that survivor's ports
  (`RenamedStands`); and no two survivors that may be merged have one signature.
  `ValuesKept` then goes along the order: when the names that a node reads have
  kept their values, so has the node, whether it survived or was merged.
  `EffectsKeepTheirArgumentsHolds` follows, and so does `OutputsKeepTheirValuesHolds`:
  under `OutputsAreMade` the comprehension that picks the outputs takes all of them,
  in place (`SelectedAll`, `LiveOutputs`). Besides, it has the premises of the
  property: the graph acyclic, its names unambiguous, its ports listed.
  `NothingIsComputedTwiceHolds` goes along the survivors: equal values of the names
  they read come from one name (`SameReads`), so equal values mean equal
  signatures, and those mean one node.
- The value of a name is a recursive function of the depth; no induction over
  terms is needed, because two graphs are compared at the same depth and the depth
  of the table is enough on an acyclic graph (`ValuesSettle`).

`PortTokensAssumption` says that no two names of a model are tokens for one port:
`a:01` is not among the names. The passes would read it as the port `a:1`, and CSE has
no alias for it.

**StreamReader** (`SerializationProofs`), from `FileAssumption` (the files satisfy
`IsFile`), `ChunkAssumption` (a chunk is not empty) and `ShortenedAssumption` (a
number is no node): for all sets of files, with any number of entries, nodes and
parts of a value, cut off anywhere, for all chunk sizes, and for any meaning of
the values. `ReadsWhatIsThere` speaks of the end only and `BufferHoldsOneValue` of a
length; neither says where in the text the reader is. The inductive invariant
`ReaderInvariant` does, in three parts.

- *The window* (`IsWindow`). The buffer is the stretch of the text that ends where
  the next read begins, so cutting the buffer at its front and adding a chunk at
  its end (`GoToMoves`, `ReadMoves`) move the window and never the place in the text.
- *The place* (`IsPlace`). The unit at that place, or the one after the tokens
  that will be skipped, is one that `awaits` allows. For this, the text, which is
  written by nested concatenation, is turned into a chain (`TextIsChained`): which
  unit follows a unit depends on that unit alone (`Follows`). So a step of the
  reader looks at one unit and its successor (`NextUnit`), a token at most is
  skipped (`SkipOne`), and a key or a value is taken whole (`WholeKey`, `WholeValue`).
- *What was read* (`ReadEntries`, `ReadMembers`). `nodes` and `meta` are what
  `json.loads` has of exactly the entries, and the members of a nodes section,
  before that place. A later section replaces an earlier one and a later entry
  the one with its key, which `MetaStep`, `NodesStep` and `MemberRead` carry on.

Two more places are possible, from which the reader never returns a graph: behind
a number that a chunk boundary has cut it stands inside a value, where no key can
be decoded (`AtRest`); and where a text that lost its end stops, it may expect a
value that never comes (`AtLoss`). There is one lemma for each action (`ReadStep` to `BeginStep`). `StreamIsReadAsText` follows: at
the closing brace all entries have been read, and each failure has its reason
(`MayFail`). `BufferIsBounded` adds to the invariant that the buffer is not longer
than what is held of one key or value, and a chunk: the reader reads on only
where nothing is left to skip, where a key or value is not whole, or where a
scalar ends with the buffer, and the chunk then goes behind what is held of that
one (`HoldsOneValue`, `BufferStep`). That value may be the whole list of edges, which
the code reads as one value, so the bound is that of a node, which the docstring of
the reader speaks of, only while it reads nodes.

The lemmas about operators that these proofs share are in `NodeTableProofs`:
`UpTo` (induction along a range, from the well-foundedness of < on the naturals),
`FoldExists` (a fold has a value at every position), `SelectedFacts`,
`SelectedPositions`, `SelectedInOrder` (what a list comprehension returns, and that
which positions it takes depends on the positions alone), `OutputMapFacts` (the
last port that lists a name), `ResolvePortType`.

**RegistryOverride** (`RegistryOverrideProofs`), from `InitialAssumption`,
`OverrideAssumption`, `FileAssumption`, `CanonicalAssumption`, `NoneAssumption`, for any
number of threads, registries and calls. That overrides are undone is not
inductive: it speaks of the moment when the last override is left, and depends on
what was saved when the first was entered. The invariant adds that only one
thread has open calls (`Exclusive`); that all its calls but the last are blocks
of overrides, and the last is too while it waits for the lock again (`Nested`);
that the outermost override of a registry has saved `base` (`OutermostSaved`),
which cannot change while it is open; and that a registry is empty when it is
restored (`EmptyToRestore`), so that `update` puts back exactly what was saved.
`Invariance` states the invariant, `Undone` and `Isolation` the two properties.

**GraphValidation** (`GraphValidationProofs`), from `LatencyAssumption` (latencies are
natural numbers), and for defaults the two assumptions named there: for graphs of
any length over any registry, mesh and level.

- *Accepted graphs.* That a report is empty of errors says something about the
  graph that was checked, which may be without the defaults that validation has
  written into it since. `Knowledge` is the inductive
  invariant: whatever `PropagationReports` and `PipelineReports` find fatal in the
  graph as it is now is among `reports`, while there are any; so in an accepted
  graph they find nothing fatal. `AcceptedStagesRunForwardHolds` then closes the
  nodes whose stage is no later than a given one under what they read
  (`StagesBeforeRunForward`), on cyclic graphs too. `AcceptedProductsAlignHolds`
  reads off the two contracted axes (`ContractedAlike`) and concludes for every
  device.
- *The scoreboard.* `BoardAt(k)` is the board after k nodes, from the nodes alone:
  a register is pending if its last write is under way, with what its latency has
  left after the stalls since. One node takes `BoardAt(k - 1)` to `BoardAt(k)`
  (`BoardAtSass`, `BoardAtOther`), separately for the registers it writes
  (`PendingNow`) and those it leaves (`PendingBefore`), so the fold computes `BoardAt`
  (`Scoreboard`), and a source is found live exactly if its last write may still be
  under way (`ReadsLive`): `ScoreboardFlagsUnfinishedReadsHolds`.
- *Pairs.* `Pairable` says what a pair without a report satisfies; every part of it
  is symmetric for opcodes that fit both slots: `PairsAreMutualHolds`.
- *Defaults.* `ReportsIgnoreDefaultsHolds` also needs `SchemaAssumption`, about the
  tables and not the code: every default has its attribute's type, and is either of
  an attribute that no rule looks up in nodes of that operator (`ReadOfAny` and `ReadOf`
  list all that the rules look up, those of the instruction sets included) or what
  the rules fall back on without it (an axis of -1 or 0, a flag that is not set). The tables
  written out in `schema/custom_ops.py` and `schema/framework_registries.py` satisfy it,
  and `MCGraphValidation` has all their defaults, so TLC checks that; of a table
  that is loaded from a file nothing is known, and with a default `stall` of 2 there
  the scoreboard would see other graphs with defaults than without.
  `NodeAssumption` says that nodes have their fields. A node with its defaults is
  `Alike` to the node (`PopulatedIsAlike`), each rule reports the same of nodes that are alike, names
  have producers that are alike (`AlikeProducers`), and the boards of two alike
  graphs solve the same equations (`SameScoreboardReports`). Giving defaults twice is
  giving them once (`PopulatedTwice`). The invariant is `Settled`: the property, with
  every node in the graph a node.

Only model-checked. Liveness (`Terminates`, `SweepEnds`, `EveryCallIsServed`,
`LoadingEnds`) is out of the prover's reach. `SymbolicInt`, `ShapeFeedback` and
`GraphFiles` are built from RECURSIVE operators on trees (`Expressions`,
`Simplification`, `ExpressionText`, `ShapeRules`, `GraphDocuments`); what those compute
needs induction over data, and the prover has no theory of them. For the files of
graphs that leaves `SavedGraphIsLoaded` and `LoadedGraphIsSettled`, which are about
the conversions; the reader between them is proved.

## 5. What is not modelled

Formatting, error messages, logging and pydantic's validation are left out. So
are `bool` dimensions (refused before any state is touched), empty value names,
and writes of nodes under an id other than their own. Names that are both the id
of one node and an output of another are modelled; the value properties of
`Transforms` and the properties of `EdgeSync` assume there are none
(`NamesAreUnambiguous`), and `NamesResolveAlike` does not.

- *Transformations*: subgraphs (on which the passes call themselves), identity of
  cloned nodes, sharding and element types copied by shape propagation. Outputs
  that no node makes are modelled, but no value property speaks of them (§3).
- *Expressions*: floats, and piecewise conditions that are callables or texts.
- *Inference*: observations under keys of mixed types, and node ids that are taken
  for symbols.
- *Serialization*: sentinels, tensors as bytes, meshes and topologies field by
  field, compressed files, sparsity of a `TensorSpec`, names of element types that
  `DType` does not have (which raise), and `from_json`'s guess whether it was given a
  path or a text (`graph.py:1453-1461`): the model begins with the text.
- *Registries*: the operator tables, which are data, and the loaders that repeat
  the two patterns that are modelled.
- *Validation*: wording and suggestions, and which operand a wrong register class
  belongs to; the communication estimates, which are float arithmetic that nothing
  else reads; topology configurations; operator names in other cases (the code
  compares some in lower case); numbers given as floats (a wavefront of 32.0 is 32 to
  Python); a list or dict where the code asks whether a value is in a set, which
  raises. A register in two spellings (`R1`, `r1`) is one value, as in the code, but
  what the spellings are is left open. These rules are therefore marked as partly
  modelled.
- *Refused observations*: `resolve_dynamic_bounds` raises half-way, and the model
  keeps what that leaves behind and no property judges it. `OneRunIsAccepted` and
  `ResolvedSizesAgree` speak of what is accepted.
- *Grounding and snapshots* (`validation/grounding.py`, `snapshots.py`,
  `schema/ghost.py`) read files that do not change and compare names; *translation*
  (`translation.py`) looks names up in tables and is correct only relative to
  them; *types, export, compliance and the command line* are data types, code
  generation and I/O. None keeps state between calls that another call could
  find wrong; they are not modelled.

## 6. Plan

What a further step would take up, in this order.

1. *Subgraphs in the passes*, with names captured from the enclosing graph.
2. *Tables from files.* The defaults that the loaders read from snapshots, against
   `SchemaAssumption`.
