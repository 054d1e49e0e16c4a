---------------------------- MODULE MCGraphFiles ----------------------------
(***************************************************************************)
(* Graphs with what JSON keeps and what it does not, built in any order,   *)
(* and files of other writers, read in chunks of every length.             *)
(***************************************************************************)
EXTENDS GraphFiles

MCIdOrder == <<"a", "b", "s", "x", "z">>
MCMisc == Atom("defaults")
MCDtype == [float32 |-> "float32", float16 |-> "float16", half |-> "float16"]

Node(nid, op, ins, outs) ==
  [id |-> nid, op |-> op, misc |-> MCMisc, dtype |-> None, attrs |-> Empty, inputs |-> ins, outputs |-> outs,
   shape |-> None, sharding |-> None, specs |-> <<>>, subgraphs |-> Empty]

Vector(dtype, d) == [dtype |-> dtype, shape |-> <<Atom(d)>>]
Input == [Node("x", "Input", <<>>, <<"x">>) EXCEPT !.shape = <<Atom("N")>>]
NamedInput == [Node("z", "Input", <<>>, <<"z">>) EXCEPT !.attrs = [name |-> Atom("weights")], !.dtype = "float16"]
Relu == [Node("b", "Relu", <<"x">>, <<"b">>) EXCEPT
           !.misc = Atom("on a stream"),
           !.attrs = [axes |-> PyList(<<Atom("0")>>), scale |-> Null],
           !.sharding = <<Atom("data"), Null, PyTuple(<<Atom("model"), PyTuple(<<Atom("data")>>)>>)>>]
Silent == Node("b", "Store", <<"x">>, <<>>)
Split == [Node("s", "Split", <<"b">>, <<"s0", "s1">>) EXCEPT !.specs = <<Vector("float32", "N"), Vector("float16", "M")>>]
Sum == [Node("a", "Add", <<"s1", "s1">>, <<"a">>) EXCEPT
          !.shape = <<Other("N + 1")>>, !.attrs = [pads |-> PyTuple(<<Atom("1")>>), to |-> Other("int32")]]

Made(ns) == Graph("Model", Each(ns, LAMBDA n : [key |-> n.id, node |-> n]), <<>>, Empty, None, Empty, None)
Body == Made(<<Silent, Input>>)
Branch == [Node("s", "If", <<"b">>, <<"s">>) EXCEPT
             !.subgraphs = [then |-> Subgraph(Body), options |-> PyDict([mode |-> Atom("fast")])]]
Ambiguous == [Node("s", "If", <<"b">>, <<"s">>) EXCEPT !.subgraphs = [table |-> PyDict([name |-> Atom("fast")])]]

MCNewGraphs ==
  {Made(<<>>), Made(<<Input, Relu>>), Made(<<Relu, Split, Sum>>),
   Graph("Net", <<[key |-> "s", node |-> Branch]>>, <<"b">>, [b |-> Vector("float16", "N")], <<"s">>,
         [w |-> PyList(<<Atom("0")>>)], [data |-> Atom("2")]),
   Graph("Net", <<[key |-> "s", node |-> Ambiguous]>>, <<>>, Empty, <<>>, [w |-> Null], Empty)}

MCLateNodes == {Silent, Input, NamedInput}

Entry(k, v) == [key |-> k, value |-> v]
Bare(nid, op) == Entry(nid, PyDict([id |-> Atom(nid), op_type |-> Atom(op)]))
Edge(src, idx, tgt) == PyDict([source |-> Atom(src), source_idx |-> Atom(idx), target |-> Atom(tgt), target_idx |-> Atom(0)])
HalfInput == Entry("a", PyDict([id |-> Atom("a"), op_type |-> Atom("Input"), dtype |-> Atom("half")]))
Split2 == Entry("s", PyDict([id |-> Atom("s"), op_type |-> Atom("Split"), outputs |-> Strings(<<"s0", "s1">>)]))

MCFile ==
  {<<Entry("nodes", Section(<<Split2, Bare("b", "Relu"), Bare("a", "Output")>>)),
     Entry("edges", PyList(<<Edge("s", 1, "b"), Edge("b", 0, "a"), Edge("b", 0, "a"), Null>>)), Entry("mesh", Null)>>,
   <<Entry("format", Fraction), Entry("nodes", Section(<<Bare("b", "Relu")>>))>>,
   <<Entry("nodes", Section(<<Bare("b", "Relu")>>)), Entry("name", Accented)>>,
   <<Entry("nodes", Section(<<Bare("b", "Relu")>>)), Entry("nodes", Section(<<HalfInput>>)), Entry("name", Null)>>,
   <<Entry("nodes", Section(<<Bare("b", "Relu"), Entry("a", Null)>>))>>,
   <<Entry("nodes", Section(<<Bare("b", "")>>))>>,
   <<Entry("nodes", Null)>>}

MCShortened == Atom("1")
=============================================================================
