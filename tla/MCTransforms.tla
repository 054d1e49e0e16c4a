---------------------------- MODULE MCTransforms ----------------------------
(***************************************************************************)
(* Instance: four nodes, of which b may do what a does and d what c does,  *)
(* so that the second merge depends on the first.  A node lists its own id *)
(* unless it is given outputs: a and b may have two, or b none; b may also *)
(* be a node with an effect or a source, d a node with an effect, and a    *)
(* may read d, which closes a cycle.  c and d read a and b by id, by       *)
(* output name and by token, and the graph returns c and d, or a port of b *)
(* and c, or a port of b and a name that no node makes.                    *)
(***************************************************************************)
EXTENDS Transforms

a(outs) == [id |-> "a", op |-> "f", outs |-> outs, kind |-> "pure"]
b(outs, kind) == [id |-> "b", op |-> "f", outs |-> outs, kind |-> kind]
c == [id |-> "c", op |-> "g", outs |-> <<"c">>, kind |-> "pure"]
d(kind) == [id |-> "d", op |-> "g", outs |-> <<"d">>, kind |-> kind]

As == {a(<<"a">>), a(<<"p", "q">>)}
Bs == {b(<<>>, "pure"), b(<<"b">>, "pure"), b(<<"r", "s">>, "pure"),
       b(<<"b">>, "effect"), b(<<"b">>, "source")}
Ds == {d("pure"), d("effect")}

MCKey == {"a", "b", "c", "d"}
MCNode == As \cup Bs \cup {c} \cup Ds
MCIdOf == [n \in MCNode |-> n.id]
MCOp == [n \in MCNode |-> n.op]
MCOutputs == [n \in MCNode |-> n.outs]
MCEffectful == {n \in MCNode : n.kind = "effect"}
MCSource == {n \in MCNode : n.kind = "source"}

MCToken == [t \in {"a:0", "a:1", "b:0", "b:1", "c:0", "c:1", "d:0", "d:1"} |->
  CASE t = "a:0" -> [id |-> "a", idx |-> 0] [] t = "a:1" -> [id |-> "a", idx |-> 1]
    [] t = "b:0" -> [id |-> "b", idx |-> 0] [] t = "b:1" -> [id |-> "b", idx |-> 1]
    [] t = "c:0" -> [id |-> "c", idx |-> 0] [] t = "c:1" -> [id |-> "c", idx |-> 1]
    [] t = "d:0" -> [id |-> "d", idx |-> 0] [] t = "d:1" -> [id |-> "d", idx |-> 1]]
MCName == MCKey \cup DOMAIN MCToken \cup {"p", "q", "r", "s", "x"}

\* c reads a and d reads b, unless d reads c or both a and b.
Wirings(m, n) ==
  [a : {<<"x">>, <<"d">>}, b : {<<"x">>, <<"a">>},
   c : {<<nm>> : nm \in {"a", "a:1"} \cup {m.outs[i] : i \in DOMAIN m.outs}},
   d : {<<nm>> : nm \in {"b", "b:0", "b:1"} \cup {n.outs[i] : i \in DOMAIN n.outs}}
         \cup {<<"c">>, <<"b", "a">>}]

MCGraph ==
  UNION {[items : {<<t[3], c, t[2], t[1]>>},
          inputs : Wirings(t[1], t[2]),
          outputs : {<<"c", "d">>, <<"b:1", "c">>, <<"b:1", "x">>}] : t \in As \X Bs \X Ds}
=============================================================================
