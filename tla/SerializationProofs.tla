------------------------ MODULE SerializationProofs ------------------------
(***************************************************************************)
(* The edges of serialized graphs, and the reader of their files.          *)
(*                                                                         *)
(* For every graph, whatever lists of edges are folded into it: the inputs *)
(* of its nodes stay lists of names, with a value name at some of their    *)
(* positions, and what the round trips through the edges promise holds.    *)
(*                                                                         *)
(* For all files, cut short anywhere, and for all chunks: what the         *)
(* incremental reader takes from a stream is what the text says, and its   *)
(* buffer holds no more than a key or a value and a chunk.                 *)
(***************************************************************************)
EXTENDS EdgeSync, StreamReader, NodeTableProofs

-----------------------------------------------------------------------------
(* Names and ports                                                         *)

LEMMA TableFacts ==
  /\ Table \in Seq(Node) /\ Outputs \in [Node -> Seq(Name)] /\ Key \subseteq Name
  /\ None \notin Name /\ None \notin PortIdx /\ Ids \subseteq Key
<1>1. Ids \subseteq Key
  BY TableAssumption, IdOfAssumption DEF Ids, Keys
<1> QED  BY <1>1, TableAssumption, PortsAssumption

\* The node with an id of the table.
LEMMA PositionFacts ==
  ASSUME NEW k \in Ids
  PROVE  /\ PositionOf(Table, k) \in DOMAIN Table /\ IdOf[Table[PositionOf(Table, k)]] = k
         /\ Table[PositionOf(Table, k)] \in Node
<1>1. \E i \in DOMAIN Table : IdOf[Table[i]] = k
  BY DEF Ids, Keys
<1>2. PositionOf(Table, k) \in DOMAIN Table /\ IdOf[Table[PositionOf(Table, k)]] = k
  BY <1>1 DEF PositionOf
<1> QED  BY <1>2, TableFacts

\* A port of a node is a name the node lists, or the token for it.
LEMMA OutputNameFacts ==
  ASSUME NEW k \in Ids, NEW idx \in PortIdx
  PROVE  /\ OutputName(k, idx) \in Name
         /\ \/ \E i \in DOMAIN Table : /\ IdOf[Table[i]] = k /\ idx + 1 \in DOMAIN Outputs[Table[i]]
                                       /\ OutputName(k, idx) = Outputs[Table[i]][idx + 1]
            \/ /\ OutputName(k, idx) \in DOMAIN Token
               /\ Token[OutputName(k, idx)] = [id |-> k, idx |-> idx]
<1> DEFINE p == PositionOf(Table, k)
<1>1. p \in DOMAIN Table /\ IdOf[Table[p]] = k /\ Table[p] \in Node
  BY PositionFacts
<1> HIDE DEF p
<1>2. CASE idx + 1 \in DOMAIN Outputs[Table[p]]
  <2>1. OutputName(k, idx) = Outputs[Table[p]][idx + 1]
    BY <1>2 DEF OutputName, p
  <2>2. Outputs[Table[p]] \in Seq(Name)
    BY <1>1, TableFacts
  <2> QED  BY <1>1, <1>2, <2>1, <2>2
<1>3. CASE idx + 1 \notin DOMAIN Outputs[Table[p]]
  <2>1. OutputName(k, idx) = CHOOSE t \in DOMAIN Token : Token[t] = [id |-> k, idx |-> idx]
    BY <1>3 DEF OutputName, p
  <2>2. \E t \in DOMAIN Token : Token[t] = [id |-> k, idx |-> idx]
    BY PortsAssumption, TableFacts
  <2>3. /\ OutputName(k, idx) \in DOMAIN Token
        /\ Token[OutputName(k, idx)] = [id |-> k, idx |-> idx]
    BY <2>1, <2>2
  <2> QED  BY <2>3, TokenAssumption
<1> QED  BY <1>2, <1>3

\* What the edges property looks up for a name: a listed output, a token, or nothing.
ListedPort(nm, n, idx) ==
  \E i \in DOMAIN Table : /\ n = Table[i] /\ idx + 1 \in DOMAIN Outputs[n]
                          /\ Outputs[n][idx + 1] = nm
TokenPort(nm, n, idx) ==
  /\ nm \in DOMAIN Token /\ Token[nm].id \in Ids
  /\ n = Table[PositionOf(Table, Token[nm].id)] /\ idx = Token[nm].idx

LEMMA PortFacts ==
  ASSUME NEW nm \in Name
  PROVE  \/ Port[nm] = None
         \/ \E n \in Node, idx \in PortIdx :
              /\ Port[nm] = <<n, idx>>
              /\ ListedPort(nm, n, idx) \/ TokenPort(nm, n, idx)
<1> DEFINE map == OutputMapOf(Table, Outputs)
<1>1. Port[nm] = ResolvePort(map, Table, nm)
  BY DEF Port
<1>2. \/ Unlisted(Table, Outputs, nm) /\ map[nm] = None
      \/ \E i, j \in Int : LastListing(Table, Outputs, nm, i, j) /\ map[nm] = <<Table[i], j - 1>>
  BY TableFacts, OutputMapFacts
<1> HIDE DEF map
<1>3. ASSUME NEW i \in Int, NEW j \in Int, LastListing(Table, Outputs, nm, i, j), map[nm] = <<Table[i], j - 1>>
      PROVE  \E n \in Node, idx \in PortIdx :
               Port[nm] = <<n, idx>> /\ ListedPort(nm, n, idx)
  <2>1. i \in DOMAIN Table /\ j \in DOMAIN Outputs[Table[i]] /\ Outputs[Table[i]][j] = nm
    BY <1>3 DEF LastListing
  <2>2. Table[i] \in Node /\ j - 1 \in PortIdx
    BY <2>1, TableFacts, PortsAssumption
  <2>3. ListedPort(nm, Table[i], j - 1)
    <3>1. (j - 1) + 1 = j
      OBVIOUS
    <3> QED  BY <2>1, <3>1 DEF ListedPort
  <2>4. map[nm] # None
    BY <1>3, <2>2, NoneAssumption, PortsAssumption
  <2>5. Port[nm] = <<Table[i], j - 1>>
    BY <1>1, <1>3, <2>4 DEF ResolvePort
  <2> QED  BY <2>2, <2>3, <2>5
<1>4. ASSUME map[nm] = None, Port[nm] # None
      PROVE  \E n \in Node, idx \in PortIdx :
               Port[nm] = <<n, idx>> /\ TokenPort(nm, n, idx)
  <2>1. nm \in DOMAIN Token /\ Token[nm].id \in Keys(Table)
    BY <1>1, <1>4 DEF ResolvePort
  <2>2. Port[nm] = <<Table[PositionOf(Table, Token[nm].id)], Token[nm].idx>>
    BY <1>1, <1>4, <2>1 DEF ResolvePort
  <2>3. Token[nm].id \in Ids
    BY <2>1 DEF Ids
  <2>4. Table[PositionOf(Table, Token[nm].id)] \in Node /\ Token[nm].idx \in PortIdx
    BY <2>1, <2>3, PositionFacts, PortsAssumption
  <2> QED  BY <2>1, <2>2, <2>3, <2>4 DEF TokenPort
<1> QED  BY <1>2, <1>3, <1>4

\* The output port that an edge records for a name.
PortIndex(nm) == IF Port[nm] = None THEN 0 ELSE Port[nm][2]

LEMMA PortIndexType ==
  ASSUME NEW nm \in Name
  PROVE  PortIndex(nm) \in PortIdx
BY PortFacts, PortsAssumption DEF PortIndex

\* The name an edge contributes is a name.
LEMMA SourceNameType ==
  ASSUME NEW S, NEW e \in EdgeRecord(S), NEW clear
  PROVE  SourceName(e, clear) \in Name
<1>1. /\ e.source \in Name /\ e.valueName \in Name \cup {None}
      /\ e.sourceIdx \in PortIdx \cup {None}
  BY DEF EdgeRecord
<1>2. ASSUME e.source \in Ids, e.sourceIdx # None
      PROVE  OutputName(e.source, e.sourceIdx) \in Name
  BY <1>1, <1>2, OutputNameFacts
<1> QED  BY <1>1, <1>2 DEF SourceName

LEMMA EdgesType ==
  ASSUME NEW ins \in Seq(Name), NEW names, names \in [DOMAIN names -> Name]
  PROVE  /\ Edges(ins, names) \in Seq(EdgeRecord(Nat)) /\ Len(Edges(ins, names)) = Len(ins)
         /\ \A i \in 1..Len(ins) :
              Edges(ins, names)[i] =
                [source |-> ins[i], sourceIdx |-> PortIndex(ins[i]), targetIdx |-> i - 1,
                 valueName |-> IF i \in DOMAIN names THEN names[i] ELSE None]
<1> DEFINE edge(i) == [source |-> ins[i], sourceIdx |-> PortIndex(ins[i]), targetIdx |-> i - 1,
                       valueName |-> IF i \in DOMAIN names THEN names[i] ELSE None]
<1>1. Edges(ins, names) = [i \in DOMAIN ins |-> edge(i)]
  BY DEF Edges, PortIndex
<1>2. DOMAIN ins = 1..Len(ins) /\ Len(ins) \in Nat
  OBVIOUS
<1>3. ASSUME NEW i \in 1..Len(ins)
      PROVE  edge(i) \in EdgeRecord(Nat)
  <2>1. ins[i] \in Name /\ i - 1 \in Nat
    OBVIOUS
  <2>2. PortIndex(ins[i]) \in PortIdx
    BY <2>1, PortIndexType
  <2>3. (IF i \in DOMAIN names THEN names[i] ELSE None) \in Name \cup {None}
    OBVIOUS
  <2> QED  BY <2>1, <2>2, <2>3 DEF EdgeRecord
<1> HIDE DEF edge
<1>4. Edges(ins, names) \in Seq(EdgeRecord(Nat)) /\ Len(Edges(ins, names)) = Len(ins)
  BY <1>1, <1>2, <1>3
<1>5. \A i \in 1..Len(ins) : Edges(ins, names)[i] = edge(i)
  BY <1>1, <1>2
<1> QED  BY <1>4, <1>5 DEF edge

-----------------------------------------------------------------------------
(* Wirings, and lists of edges folded into them                            *)

NameMap == UNION {[S -> Name] : S \in SUBSET (Nat \ {0})}
Wiring == {w \in [inputs : Seq(Name), names : NameMap] : DOMAIN w.names \subseteq DOMAIN w.inputs}

LEMMA WiringFacts ==
  ASSUME NEW w \in Wiring
  PROVE  /\ w = Wired(w.inputs, w.names) /\ w.inputs \in Seq(Name)
         /\ w.names \in [DOMAIN w.names -> Name] /\ DOMAIN w.names \subseteq 1..Len(w.inputs)
<1>1. w \in [inputs : Seq(Name), names : NameMap] /\ DOMAIN w.names \subseteq DOMAIN w.inputs
  BY DEF Wiring
<1>2. w = Wired(w.inputs, w.names) /\ w.inputs \in Seq(Name) /\ w.names \in NameMap
  BY <1>1 DEF Wired
<1>3. w.names \in [DOMAIN w.names -> Name]
  BY <1>2 DEF NameMap
<1> QED  BY <1>1, <1>2, <1>3

LEMMA WiringType ==
  ASSUME NEW ins \in Seq(Name), NEW names, names \in [DOMAIN names -> Name],
         DOMAIN names \subseteq 1..Len(ins)
  PROVE  /\ Wired(ins, names) \in Wiring
         /\ Wired(ins, names).inputs = ins /\ Wired(ins, names).names = names
<1>1. DOMAIN names \in SUBSET (Nat \ {0})
  OBVIOUS
<1>2. names \in NameMap
  BY <1>1 DEF NameMap
<1> QED  BY <1>2 DEF Wired, Wiring

LEMMA NoNamesFacts == DOMAIN NoNames = {} /\ NoNames \in [{} -> Name]
BY DEF NoNames

\* Noting a value name at a position.
NotedAt(noted, names, i, vn) ==
  /\ DOMAIN noted = DOMAIN names \cup {i} /\ noted \in [DOMAIN names \cup {i} -> Name]
  /\ noted[i] = vn /\ \A j \in DOMAIN names : j # i => noted[j] = names[j]

LEMMA NotedFacts ==
  ASSUME NEW names, names \in [DOMAIN names -> Name], NEW i, NEW vn \in Name
  PROVE  NotedAt(Noted(names, i, vn), names, i, vn)
<1>1. vn # None
  BY TableFacts
<1>2. Noted(names, i, vn) = [j \in DOMAIN names \cup {i} |-> IF j = i THEN vn ELSE names[j]]
  BY <1>1 DEF Noted
<1> QED  BY <1>2 DEF NotedAt

LEMMA FirstAtFacts ==
  ASSUME NEW ins \in Seq(Name), NEW nm, Listed(nm, ins)
  PROVE  /\ FirstAt(nm, ins) \in 1..Len(ins) /\ ins[FirstAt(nm, ins)] = nm
         /\ \A j \in 1..(FirstAt(nm, ins) - 1) : ins[j] # nm
<1>1. \E i \in 1..Len(ins) : ins[i] = nm /\ \A j \in 1..(i - 1) : ins[j] # nm
  <2> DEFINE S == {i \in 0..Len(ins) : \A j \in 1..i : ins[j] # nm}
  <2> SUFFICES ASSUME \A i \in 1..Len(ins) : ins[i] = nm => ~ \A j \in 1..(i - 1) : ins[j] # nm
               PROVE  FALSE
    OBVIOUS
  <2>1. 0 \in S
    OBVIOUS
  <2>2. \A i \in 1..Len(ins) : i - 1 \in S => i \in S
    <3> SUFFICES ASSUME NEW i \in 1..Len(ins), i - 1 \in S
                 PROVE  i \in S
      OBVIOUS
    <3>1. \A j \in 1..(i - 1) : ins[j] # nm
      OBVIOUS
    <3>2. ins[i] # nm
      BY <3>1
    <3> QED  BY <3>1, <3>2
  <2>3. Len(ins) \in Nat
    OBVIOUS
  <2> HIDE DEF S
  <2>4. 0..Len(ins) \subseteq S
    BY <2>1, <2>2, <2>3, UpTo
  <2>5. Len(ins) \in S
    BY <2>3, <2>4
  <2> QED  BY <2>5 DEF S, Listed
<1>2. DOMAIN ins = 1..Len(ins)
  OBVIOUS
<1> QED  BY <1>1, <1>2 DEF FirstAt

\* One turn: the edge's name is appended at the end, or it is listed already.
Appends(w, e, clear) ==
  ~Listed(SourceName(e, clear), w.inputs) \/ e.targetIdx >= Len(w.inputs)

LEMMA ApplyEdgeAppends ==
  ASSUME NEW w, NEW e, NEW clear, Appends(w, e, clear)
  PROVE  ApplyEdge(w, e, clear) =
           Wired(Append(w.inputs, SourceName(e, clear)),
                 Noted(w.names, Len(Append(w.inputs, SourceName(e, clear))), e.valueName))
BY DEF ApplyEdge, Appends

LEMMA ApplyEdgeFinds ==
  ASSUME NEW w, NEW e, NEW clear, ~Appends(w, e, clear)
  PROVE  ApplyEdge(w, e, clear) =
           Wired(w.inputs, Noted(w.names, FirstAt(SourceName(e, clear), w.inputs), e.valueName))
BY DEF ApplyEdge, Appends

\* Names noted within a list of inputs make a wiring of it.
LEMMA NotedType ==
  ASSUME NEW ins \in Seq(Name), NEW names, names \in [DOMAIN names -> Name],
         DOMAIN names \subseteq 1..Len(ins), NEW i \in 1..Len(ins), NEW vn \in Name \cup {None}
  PROVE  /\ Wired(ins, Noted(names, i, vn)) \in Wiring
         /\ Wired(ins, Noted(names, i, vn)).inputs = ins
         /\ Wired(ins, Noted(names, i, vn)).names = Noted(names, i, vn)
<1>1. CASE vn = None
  <2>1. Noted(names, i, vn) = names
    BY <1>1 DEF Noted
  <2> QED  BY <2>1, WiringType
<1>2. CASE vn \in Name
  <2> DEFINE noted == Noted(names, i, vn)
  <2>1. DOMAIN noted = DOMAIN names \cup {i} /\ noted \in [DOMAIN names \cup {i} -> Name]
    BY <1>2, NotedFacts DEF NotedAt
  <2> HIDE DEF noted
  <2>2. noted \in [DOMAIN noted -> Name] /\ DOMAIN noted \subseteq 1..Len(ins)
    BY <2>1
  <2>3. Wired(ins, noted) \in Wiring /\ Wired(ins, noted).inputs = ins /\ Wired(ins, noted).names = noted
    BY <2>2, WiringType
  <2> QED  BY <2>3 DEF noted
<1> QED  BY <1>1, <1>2

LEMMA ApplyEdgeType ==
  ASSUME NEW w \in Wiring, NEW S, NEW e \in EdgeRecord(S), NEW clear
  PROVE  ApplyEdge(w, e, clear) \in Wiring
<1> DEFINE nm == SourceName(e, clear)
           longer == Append(w.inputs, nm)
<1>1. /\ w.inputs \in Seq(Name) /\ w.names \in [DOMAIN w.names -> Name]
      /\ DOMAIN w.names \subseteq 1..Len(w.inputs) /\ nm \in Name /\ e.valueName \in Name \cup {None}
  BY WiringFacts, SourceNameType DEF EdgeRecord
<1>2. CASE Appends(w, e, clear)
  <2>1. /\ longer \in Seq(Name) /\ DOMAIN w.names \subseteq 1..Len(longer)
        /\ Len(longer) \in 1..Len(longer)
    BY <1>1
  <2>2. ApplyEdge(w, e, clear) = Wired(longer, Noted(w.names, Len(longer), e.valueName))
    BY <1>2, ApplyEdgeAppends
  <2> HIDE DEF longer
  <2> QED  BY <1>1, <2>1, <2>2, NotedType
<1>3. CASE ~Appends(w, e, clear)
  <2>1. FirstAt(nm, w.inputs) \in 1..Len(w.inputs)
    BY <1>1, <1>3, FirstAtFacts DEF Appends
  <2>2. ApplyEdge(w, e, clear) = Wired(w.inputs, Noted(w.names, FirstAt(nm, w.inputs), e.valueName))
    BY <1>3, ApplyEdgeFinds
  <2> HIDE DEF nm
  <2> QED  BY <1>1, <2>1, <2>2, NotedType
<1> QED  BY <1>2, <1>3

\* f is the wiring after each edge of the list.
Applies(f, start, list, clear) ==
  /\ f \in [0..Len(list) -> Wiring] /\ f[0] = start /\ Applied(start, list, clear) = f[Len(list)]
  /\ \A i \in 1..Len(list) :
       f[i] = IF Repeated(list, i, clear) THEN f[i - 1] ELSE ApplyEdge(f[i - 1], list[i], clear)

LEMMA AppliedFold ==
  ASSUME NEW start \in Wiring, NEW S, NEW list \in Seq(EdgeRecord(S)), NEW clear
  PROVE  \E f : Applies(f, start, list, clear)
<1> DEFINE n == Len(list)
           Turn(i, w) == IF Repeated(list, i, clear) THEN w ELSE ApplyEdge(w, list[i], clear)
           step == [p \in (1..n) \X Wiring |-> Turn(p[1], p[2])]
           Upto(f) == f = [i \in 0..n |-> IF i = 0 THEN start ELSE Turn(i, f[i - 1])]
<1>1. n \in Nat
  OBVIOUS
<1>2. \A i \in 1..n, w \in Wiring : Turn(i, w) \in Wiring
  <2> SUFFICES ASSUME NEW i \in 1..n, NEW w \in Wiring
               PROVE  Turn(i, w) \in Wiring
    OBVIOUS
  <2>1. list[i] \in EdgeRecord(S)
    OBVIOUS
  <2>2. ApplyEdge(w, list[i], clear) \in Wiring
    BY <2>1, ApplyEdgeType
  <2> QED  BY <2>2
<1>3. Applied(start, list, clear) = (CHOOSE f : Upto(f))[n]
  BY DEF Applied
<1> HIDE DEF n, Turn
<1>4. step \in Steps(n, Wiring)
  BY <1>2 DEF Steps
<1>5. PICK g \in FoldOf(Wiring, start, n, step) : TRUE
  <2> HIDE DEF step
  <2> QED  BY <1>1, <1>4, FoldExists
<1>6. /\ g \in [0..n -> Wiring] /\ g[0] = start
      /\ \A i \in 1..n : g[i] = step[<<i, g[i - 1]>>]
  BY <1>5 DEF FoldOf
<1>7. \A i \in 1..n : g[i] = Turn(i, g[i - 1])
  <2> SUFFICES ASSUME NEW i \in 1..n
               PROVE  g[i] = Turn(i, g[i - 1])
    OBVIOUS
  <2>1. i - 1 \in 0..n /\ g[i - 1] \in Wiring
    BY <1>1, <1>6
  <2>2. <<i, g[i - 1]>> \in (1..n) \X Wiring
    BY <2>1
  <2> QED  BY <1>6, <2>2
<1> HIDE DEF step
<1>8. Upto(g)
  BY <1>1, <1>6, <1>7
<1>9. PICK f : f = CHOOSE h : Upto(h)
  OBVIOUS
<1>10. Upto(f)
  BY <1>8, <1>9
<1> HIDE DEF Upto
<1>11. Applied(start, list, clear) = f[n]
  BY <1>3, <1>9
<1>12. f[0] = start /\ \A i \in 1..n : f[i] = Turn(i, f[i - 1])
  BY <1>1, <1>10 DEF Upto
<1>13. f \in [0..n -> Wiring]
  <2> DEFINE D == {i \in 0..n : f[i] \in Wiring}
  <2>1. 0 \in D
    BY <1>1, <1>12
  <2>2. \A i \in 1..n : i - 1 \in D => i \in D
    BY <1>1, <1>2, <1>12
  <2> HIDE DEF D
  <2>3. 0..n \subseteq D
    BY <1>1, <2>1, <2>2, UpTo
  <2>4. \A i \in 0..n : f[i] \in Wiring
    BY <2>3 DEF D
  <2>5. f = [i \in 0..n |-> IF i = 0 THEN start ELSE Turn(i, f[i - 1])]
    BY <1>10 DEF Upto
  <2>6. f = [i \in 0..n |-> f[i]]
    BY <2>5
  <2> QED  BY <2>4, <2>6
<1> QED  BY <1>11, <1>12, <1>13 DEF Applies, n, Turn

LEMMA AppliedType ==
  ASSUME NEW start \in Wiring, NEW S, NEW list \in Seq(EdgeRecord(S)), NEW clear
  PROVE  Applied(start, list, clear) \in Wiring
<1>1. PICK f : Applies(f, start, list, clear)
  BY AppliedFold
<1>2. Len(list) \in 0..Len(list)
  OBVIOUS
<1> QED  BY <1>1, <1>2 DEF Applies

LEMMA EmptyWiring == Wired(<<>>, NoNames) \in Wiring
<1>1. <<>> \in Seq(Name) /\ DOMAIN NoNames \subseteq 1..Len(<<>>) /\ NoNames \in [DOMAIN NoNames -> Name]
  BY NoNamesFacts
<1> QED  BY <1>1, WiringType

LEMMA AssignedType ==
  ASSUME NEW S, NEW list \in Seq(EdgeRecord(S))
  PROVE  Assigned(list) \in Wiring
BY EmptyWiring, AppliedType DEF Assigned

LEMMA ReloadedType ==
  ASSUME NEW w \in Wiring
  PROVE  Reloaded(w) \in Wiring
<1>1. w.inputs \in Seq(Name) /\ w.names \in [DOMAIN w.names -> Name]
  BY WiringFacts
<1>2. DOMAIN NoNames \subseteq 1..Len(w.inputs) /\ NoNames \in [DOMAIN NoNames -> Name]
  BY NoNamesFacts
<1>3. Wired(w.inputs, NoNames) \in Wiring
  BY <1>1, <1>2, WiringType
<1>4. Edges(w.inputs, w.names) \in Seq(EdgeRecord(Nat))
  BY <1>1, EdgesType
<1> QED  BY <1>3, <1>4, AppliedType DEF Reloaded

-----------------------------------------------------------------------------
(* Type correctness                                                        *)

\* The wirings of the targets.
Wires == \A t \in Target : Now(t) \in Wiring

LEMMA TypeOKWires ==
  TypeOK <=> /\ inputs \in [Target -> Seq(Name)] /\ Wires
             /\ valueNames \in [Target -> {valueNames[t] : t \in Target}]
<1>1. ASSUME NEW t \in Target, TypeOK
      PROVE  Now(t) \in Wiring
  <2>1. /\ inputs[t] \in Seq(Name) /\ valueNames[t] \in [DOMAIN valueNames[t] -> Name]
        /\ DOMAIN valueNames[t] \subseteq 1..Len(inputs[t])
    BY <1>1 DEF TypeOK
  <2> QED  BY <2>1, WiringType DEF Now
<1>2. ASSUME NEW t \in Target, Now(t) \in Wiring
      PROVE  /\ DOMAIN valueNames[t] \subseteq DOMAIN inputs[t]
             /\ valueNames[t] \in [DOMAIN valueNames[t] -> Name]
  <2>1. Now(t).inputs = inputs[t] /\ Now(t).names = valueNames[t]
    BY DEF Now, Wired
  <2>2. /\ Now(t).names \in [DOMAIN Now(t).names -> Name] /\ Now(t).inputs \in Seq(Name)
        /\ DOMAIN Now(t).names \subseteq 1..Len(Now(t).inputs)
    BY <1>2, WiringFacts
  <2> QED  BY <2>1, <2>2
<1> QED  BY <1>1, <1>2 DEF TypeOK, Wires

\* Rewiring every target.
LEMMA RewireType ==
  ASSUME NEW after, \A t \in Target : after[t] \in Wiring, Rewire(after)
  PROVE  TypeOK'
<1>1. /\ inputs' = [t \in Target |-> after[t].inputs]
      /\ valueNames' = [t \in Target |-> after[t].names]
  BY DEF Rewire
<1>2. ASSUME NEW t \in Target
      PROVE  /\ inputs'[t] \in Seq(Name) /\ DOMAIN valueNames'[t] \subseteq DOMAIN inputs'[t]
             /\ valueNames'[t] \in [DOMAIN valueNames'[t] -> Name]
  <2>1. inputs'[t] = after[t].inputs /\ valueNames'[t] = after[t].names
    BY <1>1
  <2>2. /\ after[t].inputs \in Seq(Name) /\ after[t].names \in [DOMAIN after[t].names -> Name]
        /\ DOMAIN after[t].names \subseteq 1..Len(after[t].inputs)
    BY WiringFacts
  <2> QED  BY <2>1, <2>2
<1>3. inputs' \in [Target -> Seq(Name)]
  BY <1>1, <1>2
<1>4. valueNames' \in [Target -> {valueNames'[t] : t \in Target}]
  BY <1>1
<1> QED  BY <1>2, <1>3, <1>4 DEF TypeOK

LEMMA SelectedEdgesType ==
  ASSUME TypeOK, NEW t \in Target, NEW P
  PROVE  Selected(Edges(inputs[t], valueNames[t]), P) \in Seq(EdgeRecord(Nat))
<1>1. inputs[t] \in Seq(Name) /\ valueNames[t] \in [DOMAIN valueNames[t] -> Name]
  BY DEF TypeOK
<1>2. Edges(inputs[t], valueNames[t]) \in Seq(EdgeRecord(Nat))
  BY <1>1, EdgesType
<1> QED  BY <1>2, SelectedFacts

LEMMA FilteredType ==
  ASSUME TypeOK, NEW t \in Target, NEW gone
  PROVE  Filtered(t, gone) \in Wiring
BY SelectedEdgesType, AssignedType DEF Filtered

LEMMA ExtendedType ==
  ASSUME TypeOK, NEW t \in Target, NEW e \in Edge
  PROVE  /\ Append(Edges(inputs[t], valueNames[t]), [e EXCEPT !.targetIdx = Len(inputs[t])])
              \in Seq(EdgeRecord(Nat))
         /\ Extended(t, e) \in Wiring
<1>1. inputs[t] \in Seq(Name) /\ valueNames[t] \in [DOMAIN valueNames[t] -> Name]
  BY DEF TypeOK
<1>2. Edges(inputs[t], valueNames[t]) \in Seq(EdgeRecord(Nat))
  BY <1>1, EdgesType
<1>3. [e EXCEPT !.targetIdx = Len(inputs[t])] \in EdgeRecord(Nat)
  BY <1>1, EdgesAssumption DEF EdgeRecord
<1>4. Append(Edges(inputs[t], valueNames[t]), [e EXCEPT !.targetIdx = Len(inputs[t])])
        \in Seq(EdgeRecord(Nat))
  BY <1>2, <1>3
<1> QED  BY <1>4, AssignedType DEF Extended

LEMMA AddEdgeType ==
  ASSUME TypeOK, NEW t \in Target, NEW c \in Connection, AddEdge(t, c)
  PROVE  TypeOK'
<1> DEFINE ins == inputs[t]
           nm == IF c.source \in Ids /\ c.sourceIdx \notin {None, 0}
                 THEN OutputName(c.source, c.sourceIdx)
                 ELSE IF c.source \notin Ids /\ c.valueName # None THEN c.valueName ELSE c.source
           appended == ~Listed(nm, ins) \/ (c.targetIdx # None /\ c.targetIdx >= Len(ins))
<1>1. /\ c.source \in Name /\ c.valueName \in Name \cup {None}
      /\ c.sourceIdx \in PortIdx \cup {None}
  BY EdgesAssumption DEF EdgeRecord
<1>2. nm \in Name
  <2>1. ASSUME c.source \in Ids, c.sourceIdx # None
        PROVE  OutputName(c.source, c.sourceIdx) \in Name
    BY <1>1, <2>1, OutputNameFacts
  <2> QED  BY <1>1, <2>1
<1>3. /\ inputs' = [inputs EXCEPT ![t] = IF appended THEN Append(ins, nm) ELSE ins]
      /\ valueNames' = [valueNames EXCEPT ![t] =
           IF appended THEN Noted(@, Len(ins) + 1, c.valueName) ELSE @]
  BY DEF AddEdge
<1> HIDE DEF nm
<1>4. /\ inputs \in [Target -> Seq(Name)] /\ Wires
      /\ valueNames \in [Target -> {valueNames[u] : u \in Target}]
  BY TypeOKWires
<1>5. /\ ins \in Seq(Name) /\ valueNames[t] \in [DOMAIN valueNames[t] -> Name]
      /\ DOMAIN valueNames[t] \subseteq 1..Len(ins)
  BY DEF TypeOK
<1>6. CASE ~appended
  <2>1. inputs' = inputs /\ valueNames' = valueNames
    BY <1>3, <1>4, <1>6
  <2> QED  BY <2>1 DEF TypeOK
<1>7. CASE appended
  <2> DEFINE longer == Append(ins, nm)
             noted == Noted(valueNames[t], Len(ins) + 1, c.valueName)
  <2>1. /\ longer \in Seq(Name) /\ DOMAIN valueNames[t] \subseteq 1..Len(longer)
        /\ Len(ins) + 1 \in 1..Len(longer)
    BY <1>2, <1>5
  <2>2. inputs' = [inputs EXCEPT ![t] = longer] /\ valueNames' = [valueNames EXCEPT ![t] = noted]
    BY <1>3, <1>7
  <2> HIDE DEF longer, appended, ins
  <2>3. Wired(longer, noted) \in Wiring
    BY <1>1, <1>5, <2>1, NotedType
  <2> HIDE DEF noted
  <2> DEFINE after == [u \in Target |-> IF u = t THEN Wired(longer, noted) ELSE Now(u)]
  <2>4. \A u \in Target : after[u] \in Wiring
    BY <1>4, <2>3 DEF Wires
  <2>5. Rewire(after)
    <3>1. \A u \in Target : /\ after[u].inputs = inputs'[u]
                            /\ after[u].names = valueNames'[u]
      BY <1>4, <2>2 DEF Now, Wired
    <3>2. DOMAIN inputs' = Target /\ DOMAIN valueNames' = Target
      BY <1>4, <2>2
    <3>3. inputs' = [u \in Target |-> inputs'[u]] /\ valueNames' = [u \in Target |-> valueNames'[u]]
      BY <1>4, <2>2
    <3> HIDE DEF after
    <3> QED  BY <3>1, <3>3 DEF Rewire
  <2> HIDE DEF after
  <2> QED  BY <2>4, <2>5, RewireType
<1> QED  BY <1>6, <1>7

\* Inputs are lists of names, and value names are noted within them (TypeOK),
\* whatever edges are added, assigned, filtered or reloaded.
THEOREM TypeCorrect == Spec => []TypeOK
<1>1. Init => TypeOK
  <2> SUFFICES ASSUME Init
               PROVE  TypeOK
    OBVIOUS
  <2>1. inputs \in [Target -> Seq(Name)]
    BY TableAssumption DEF Init
  <2>2. valueNames = [t \in Target |-> NoNames]
    BY DEF Init
  <2>3. \A t \in Target : valueNames[t] = NoNames
    BY <2>2
  <2> QED  BY <2>1, <2>2, <2>3, NoNamesFacts DEF TypeOK
<1>2. TypeOK /\ [Next]_vars => TypeOK'
  <2> SUFFICES ASSUME TypeOK, [Next]_vars
               PROVE  TypeOK'
    OBVIOUS
  <2>1. ASSUME NEW t \in Target, NEW c \in Connection, AddEdge(t, c)
        PROVE  TypeOK'
    BY <2>1, AddEdgeType
  <2>2. ASSUME NEW lists \in [Target -> EdgeList], SetEdges(lists)
        PROVE  TypeOK'
    <3> DEFINE after == [t \in Target |-> Assigned(lists[t])]
    <3>1. ASSUME NEW t \in Target
          PROVE  after[t] \in Wiring
      <4>1. lists[t] \in Seq(EdgeRecord(Nat))
        BY <2>2, EdgesAssumption
      <4> QED  BY <4>1, AssignedType
    <3>2. Rewire(after)
      BY <2>2 DEF SetEdges
    <3> HIDE DEF after
    <3> QED  BY <3>1, <3>2, RewireType
  <2>3. ASSUME NEW gone \in SUBSET Places, FilterEdges(gone)
        PROVE  TypeOK'
    <3> DEFINE after == [t \in Target |-> Filtered(t, {p[2] : p \in {q \in gone : q[1] = t}})]
    <3>1. \A t \in Target : after[t] \in Wiring
      BY FilteredType
    <3>2. Rewire(after)
      BY <2>3 DEF FilterEdges
    <3> HIDE DEF after
    <3> QED  BY <3>1, <3>2, RewireType
  <2>4. ASSUME NEW t \in Target, NEW e \in Edge, ExtendEdges(t, e)
        PROVE  TypeOK'
    <3> DEFINE after == [u \in Target |-> IF u = t THEN Extended(t, e) ELSE Filtered(u, {})]
    <3>1. \A u \in Target : after[u] \in Wiring
      BY FilteredType, ExtendedType
    <3>2. Rewire(after)
      BY <2>4 DEF ExtendEdges
    <3> HIDE DEF after
    <3> QED  BY <3>1, <3>2, RewireType
  <2>5. ASSUME Reload
        PROVE  TypeOK'
    <3> DEFINE after == [t \in Target |-> Reloaded(Now(t))]
    <3>1. \A t \in Target : after[t] \in Wiring
      BY TypeOKWires, ReloadedType DEF Wires
    <3>2. Rewire(after)
      BY <2>5 DEF Reload
    <3> HIDE DEF after
    <3> QED  BY <3>1, <3>2, RewireType
  <2>6. ASSUME UNCHANGED vars
        PROVE  TypeOK'
    BY <2>6 DEF vars, TypeOK
  <2> QED  BY <2>1, <2>2, <2>3, <2>4, <2>5, <2>6 DEF Next
<1> QED  BY <1>1, <1>2, PTL DEF Spec

-----------------------------------------------------------------------------
(* Names that say one thing                                                *)

\* What a name is looked up to be, it stands for.
LEMMA PortIsOperand ==
  ASSUME NamesAreUnambiguous, NEW nm \in Name, Port[nm] # None
  PROVE  Operand(nm) = [id |-> IdOf[Port[nm][1]], idx |-> Port[nm][2]]
<1>1. PICK n \in Node, idx \in PortIdx : /\ Port[nm] = <<n, idx>>
                                         /\ ListedPort(nm, n, idx) \/ TokenPort(nm, n, idx)
  BY PortFacts
<1>2. ASSUME ListedPort(nm, n, idx)
      PROVE  Operand(nm) = [id |-> IdOf[n], idx |-> idx]
  <2>1. PICK i \in DOMAIN Table : /\ n = Table[i] /\ idx + 1 \in DOMAIN Outputs[n]
                                  /\ Outputs[n][idx + 1] = nm
    BY <1>2 DEF ListedPort
  <2>2. Operand(Outputs[Table[i]][idx + 1]) = [id |-> IdOf[Table[i]], idx |-> (idx + 1) - 1]
    BY <2>1 DEF NamesAreUnambiguous
  <2>3. (idx + 1) - 1 = idx
    BY PortsAssumption
  <2> QED  BY <2>1, <2>2, <2>3
<1>3. ASSUME TokenPort(nm, n, idx)
      PROVE  Operand(nm) = [id |-> IdOf[n], idx |-> idx]
  <2>1. /\ nm \in DOMAIN Token /\ Token[nm].id \in Ids
        /\ n = Table[PositionOf(Table, Token[nm].id)] /\ idx = Token[nm].idx
    BY <1>3 DEF TokenPort
  <2>2. IdOf[n] = Token[nm].id
    BY <2>1, PositionFacts
  <2>3. Operand(nm) = Token[nm]
    BY <2>1 DEF NamesAreUnambiguous
  <2>4. Token[nm] = [id |-> Token[nm].id, idx |-> Token[nm].idx]
    BY <2>1, TokenAssumption
  <2> QED  BY <2>1, <2>2, <2>3, <2>4
<1> QED  BY <1>1, <1>2, <1>3

\* An id is the first output of its node, and of no other port.
LEMMA IdsAreFirst ==
  ASSUME NamesAreUnambiguous, NEW k \in Ids
  PROVE  PortIndex(k) = 0 /\ Operand(k) = [id |-> k, idx |-> 0]
<1>1. k \in Name
  BY TableFacts
<1>2. Operand(k) = [id |-> k, idx |-> 0]
  BY DEF Operand
<1>3. Port[k] # None => PortIndex(k) = 0
  BY <1>1, <1>2, PortIsOperand DEF PortIndex
<1> QED  BY <1>2, <1>3 DEF PortIndex

\* The name of a port stands for that port.
LEMMA OutputNameIsOperand ==
  ASSUME NamesAreUnambiguous, NEW k \in Ids, NEW idx \in PortIdx
  PROVE  Operand(OutputName(k, idx)) = [id |-> k, idx |-> idx]
<1>1. CASE \E i \in DOMAIN Table : /\ IdOf[Table[i]] = k /\ idx + 1 \in DOMAIN Outputs[Table[i]]
                                   /\ OutputName(k, idx) = Outputs[Table[i]][idx + 1]
  <2>1. PICK i \in DOMAIN Table : /\ IdOf[Table[i]] = k /\ idx + 1 \in DOMAIN Outputs[Table[i]]
                                  /\ OutputName(k, idx) = Outputs[Table[i]][idx + 1]
    BY <1>1
  <2>2. Operand(Outputs[Table[i]][idx + 1]) = [id |-> IdOf[Table[i]], idx |-> (idx + 1) - 1]
    BY <2>1 DEF NamesAreUnambiguous
  <2>3. (idx + 1) - 1 = idx
    BY PortsAssumption
  <2> QED  BY <2>1, <2>2, <2>3
<1>2. CASE /\ OutputName(k, idx) \in DOMAIN Token
           /\ Token[OutputName(k, idx)] = [id |-> k, idx |-> idx]
  BY <1>2 DEF NamesAreUnambiguous
<1> QED  BY <1>1, <1>2, OutputNameFacts

\* The edge that the edges property derives from an input, the name noted for it
\* being the input itself or none.
LEMMA DerivedEdge ==
  ASSUME NamesAreUnambiguous, NEW nm \in Name, NEW vn \in {nm, None}, NEW targetIdx
  PROVE  LET e == [source |-> nm, sourceIdx |-> PortIndex(nm), targetIdx |-> targetIdx,
                   valueName |-> vn]
         IN  SourceName(e, FALSE) = nm /\ Operand(SourceName(e, TRUE)) = Operand(nm)
<1> DEFINE e == [source |-> nm, sourceIdx |-> PortIndex(nm), targetIdx |-> targetIdx,
                 valueName |-> vn]
<1> SUFFICES SourceName(e, FALSE) = nm /\ Operand(SourceName(e, TRUE)) = Operand(nm)
  OBVIOUS
<1>0. /\ e.source = nm /\ e.sourceIdx = PortIndex(nm) /\ e.valueName = vn
      /\ PortIndex(nm) # None
  BY PortIndexType, TableFacts
<1> HIDE DEF e
<1>1. CASE nm \in Ids
  <2>1. PortIndex(nm) = 0 /\ Operand(nm) = [id |-> nm, idx |-> 0]
    BY <1>1, IdsAreFirst
  <2>2. Operand(OutputName(nm, 0)) = [id |-> nm, idx |-> 0]
    BY <1>1, OutputNameIsOperand, PortsAssumption
  <2>3. SourceName(e, FALSE) = nm
    BY <1>0, <1>1, <2>1 DEF SourceName
  <2>4. SourceName(e, TRUE) = OutputName(nm, 0)
    BY <1>0, <1>1, <2>1 DEF SourceName
  <2> QED  BY <2>1, <2>2, <2>3, <2>4
<1>2. CASE nm \notin Ids
  <2>1. SourceName(e, FALSE) = nm /\ SourceName(e, TRUE) = nm
    BY <1>0, <1>2 DEF SourceName
  <2> QED  BY <2>1
<1> QED  BY <1>1, <1>2

\* An edge derived from an input and a value name noted for it contributes the
\* value name, when the inputs are kept.
LEMMA DerivedName ==
  ASSUME NamesAreUnambiguous, NEW nm \in Name, NEW vn \in Name, NEW targetIdx
  PROVE  LET e == [source |-> nm, sourceIdx |-> PortIndex(nm), targetIdx |-> targetIdx,
                   valueName |-> vn]
         IN  SourceName(e, FALSE) = vn
<1> DEFINE e == [source |-> nm, sourceIdx |-> PortIndex(nm), targetIdx |-> targetIdx,
                 valueName |-> vn]
<1> SUFFICES SourceName(e, FALSE) = vn
  OBVIOUS
<1>0. /\ e.source = nm /\ e.sourceIdx = PortIndex(nm) /\ e.valueName = vn /\ vn # None
  BY TableFacts
<1> HIDE DEF e
<1>1. nm \in Ids => PortIndex(nm) = 0
  BY IdsAreFirst
<1> QED  BY <1>0, <1>1 DEF SourceName

-----------------------------------------------------------------------------
(* Reloading                                                               *)

\* Where value names are noted, they are the inputs.
Matched(w) == \A i \in DOMAIN w.names : w.names[i] = w.inputs[i]

\* And each is noted where its name occurs first.
Settled(w) ==
  Matched(w) /\ \A i \in DOMAIN w.names : \A j \in 1..(i - 1) : w.inputs[j] # w.inputs[i]

\* The turns of a reload: one for each input, none of them a repetition.
Turns(f, w) ==
  /\ f \in [0..Len(w.inputs) -> Wiring] /\ f[0] = Wired(w.inputs, NoNames)
  /\ Reloaded(w) = f[Len(w.inputs)]
  /\ \A i \in 1..Len(w.inputs) :
       f[i] = ApplyEdge(f[i - 1], Edges(w.inputs, w.names)[i], FALSE)

LEMMA ReloadTurns ==
  ASSUME NEW w \in Wiring
  PROVE  \E f : Turns(f, w)
<1> DEFINE list == Edges(w.inputs, w.names)
<1>1. w.inputs \in Seq(Name) /\ w.names \in [DOMAIN w.names -> Name]
  BY WiringFacts
<1>2. /\ list \in Seq(EdgeRecord(Nat)) /\ Len(list) = Len(w.inputs) /\ Len(w.inputs) \in Nat
      /\ \A i \in 1..Len(w.inputs) : list[i].targetIdx = i - 1
  <2>1. list \in Seq(EdgeRecord(Nat)) /\ Len(list) = Len(w.inputs) /\ Len(w.inputs) \in Nat
    BY <1>1, EdgesType
  <2>2. ASSUME NEW i \in 1..Len(w.inputs)
        PROVE  list[i].targetIdx = i - 1
    <3>1. list[i] = [source |-> w.inputs[i], sourceIdx |-> PortIndex(w.inputs[i]), targetIdx |-> i - 1,
                     valueName |-> IF i \in DOMAIN w.names THEN w.names[i] ELSE None]
      BY <1>1, EdgesType
    <3> HIDE DEF list
    <3> QED  BY <3>1
  <2> QED  BY <2>1, <2>2
<1>3. DOMAIN NoNames \subseteq 1..Len(w.inputs) /\ NoNames \in [DOMAIN NoNames -> Name]
  BY NoNamesFacts
<1>4. Wired(w.inputs, NoNames) \in Wiring
  BY <1>1, <1>3, WiringType
<1>5. Reloaded(w) = Applied(Wired(w.inputs, NoNames), list, FALSE)
  BY DEF Reloaded
<1> HIDE DEF list
<1>6. PICK f : Applies(f, Wired(w.inputs, NoNames), list, FALSE)
  BY <1>2, <1>4, AppliedFold
<1>7. ASSUME NEW i \in 1..Len(w.inputs)
      PROVE  ~Repeated(list, i, FALSE)
  <2>1. \A j \in 1..(i - 1) : list[j].targetIdx # list[i].targetIdx
    BY <1>2
  <2> QED  BY <2>1 DEF Repeated
<1>8. Turns(f, w)
  BY <1>2, <1>5, <1>6, <1>7 DEF Applies, Turns, list
<1> QED  BY <1>8

\* What a turn of a reload does: either nothing is noted and nothing changes, or
\* the value name is noted where it occurs first, at the end if it was not listed.
LEMMA TurnFacts ==
  ASSUME NamesAreUnambiguous, NEW w \in Wiring, NEW f, Turns(f, w), NEW i \in 1..Len(w.inputs),
         Len(f[i - 1].inputs) >= Len(w.inputs),
         \A j \in 1..Len(w.inputs) : f[i - 1].inputs[j] = w.inputs[j]
  PROVE  \/ i \notin DOMAIN w.names /\ f[i] = f[i - 1]
         \/ /\ i \in DOMAIN w.names /\ Listed(w.names[i], f[i - 1].inputs)
            /\ f[i] = Wired(f[i - 1].inputs,
                            Noted(f[i - 1].names, FirstAt(w.names[i], f[i - 1].inputs), w.names[i]))
         \/ /\ i \in DOMAIN w.names /\ ~Listed(w.names[i], f[i - 1].inputs)
            /\ f[i] = Wired(Append(f[i - 1].inputs, w.names[i]),
                            Noted(f[i - 1].names, Len(Append(f[i - 1].inputs, w.names[i])), w.names[i]))
<1> DEFINE before == f[i - 1]
           nm == w.inputs[i]
           e == Edges(w.inputs, w.names)[i]
<1>1. w.inputs \in Seq(Name) /\ w.names \in [DOMAIN w.names -> Name]
  BY WiringFacts
<1>2. i - 1 \in 0..Len(w.inputs) /\ before \in Wiring /\ nm \in Name /\ Len(w.inputs) \in Nat
  BY <1>1 DEF Turns
<1>3. before.inputs \in Seq(Name) /\ before = Wired(before.inputs, before.names)
  BY <1>2, WiringFacts
<1>4. e = [source |-> nm, sourceIdx |-> PortIndex(nm), targetIdx |-> i - 1,
           valueName |-> IF i \in DOMAIN w.names THEN w.names[i] ELSE None]
  BY <1>1, EdgesType
<1>5. f[i] = ApplyEdge(before, e, FALSE)
  BY DEF Turns
<1>6. i \in 1..Len(before.inputs) /\ ~(i - 1 >= Len(before.inputs)) /\ before.inputs[i] = nm
  BY <1>2, <1>3
<1> HIDE DEF before, e
<1>7. CASE i \notin DOMAIN w.names
  <2>1. e = [source |-> nm, sourceIdx |-> PortIndex(nm), targetIdx |-> i - 1, valueName |-> None]
    BY <1>4, <1>7
  <2>2. SourceName(e, FALSE) = nm /\ e.targetIdx = i - 1 /\ e.valueName = None
    BY <1>2, <2>1, DerivedEdge
  <2>3. Listed(nm, before.inputs)
    BY <1>3, <1>6 DEF Listed
  <2>4. ~Appends(before, e, FALSE)
    BY <1>6, <2>2, <2>3 DEF Appends
  <2>5. f[i] = Wired(before.inputs, before.names)
    BY <1>5, <2>2, <2>4, ApplyEdgeFinds DEF Noted
  <2> QED  BY <1>3, <1>7, <2>5 DEF before
<1>8. CASE i \in DOMAIN w.names
  <2>1. w.names[i] \in Name
    BY <1>1, <1>8
  <2>2. e = [source |-> nm, sourceIdx |-> PortIndex(nm), targetIdx |-> i - 1, valueName |-> w.names[i]]
    BY <1>4, <1>8
  <2>3. SourceName(e, FALSE) = w.names[i] /\ e.targetIdx = i - 1 /\ e.valueName = w.names[i]
    BY <1>2, <2>1, <2>2, DerivedName
  <2>4. Appends(before, e, FALSE) <=> ~Listed(w.names[i], before.inputs)
    BY <1>6, <2>3 DEF Appends
  <2>5. CASE Listed(w.names[i], before.inputs)
    <3>1. f[i] = Wired(before.inputs, Noted(before.names, FirstAt(SourceName(e, FALSE), before.inputs),
                                            e.valueName))
      BY <1>5, <2>4, <2>5, ApplyEdgeFinds
    <3>2. f[i] = Wired(before.inputs, Noted(before.names, FirstAt(w.names[i], before.inputs), w.names[i]))
      BY <2>3, <3>1, Zenon
    <3> QED  BY <1>8, <2>5, <3>2 DEF before
  <2>6. CASE ~Listed(w.names[i], before.inputs)
    <3>1. f[i] = Wired(Append(before.inputs, SourceName(e, FALSE)),
                       Noted(before.names, Len(Append(before.inputs, SourceName(e, FALSE))), e.valueName))
      BY <1>5, <2>4, <2>6, ApplyEdgeAppends
    <3>2. f[i] = Wired(Append(before.inputs, w.names[i]),
                       Noted(before.names, Len(Append(before.inputs, w.names[i])), w.names[i]))
      BY <2>3, <3>1, Zenon
    <3> QED  BY <1>8, <2>6, <3>2 DEF before
  <2> QED  BY <2>5, <2>6
<1> QED  BY <1>7, <1>8

\* A name is noted where it stands, in front of which it does not.
LEMMA NotingSettles ==
  ASSUME NEW ins \in Seq(Name), NEW names, names \in [DOMAIN names -> Name],
         DOMAIN names \subseteq 1..Len(ins), Settled(Wired(ins, names)),
         NEW p \in 1..Len(ins), \A j \in 1..(p - 1) : ins[j] # ins[p]
  PROVE  Settled(Wired(ins, Noted(names, p, ins[p])))
<1> DEFINE noted == Noted(names, p, ins[p])
<1>1. /\ DOMAIN noted = DOMAIN names \cup {p} /\ noted[p] = ins[p]
      /\ \A j \in DOMAIN names : j # p => noted[j] = names[j]
  <2> DEFINE vn == ins[p]
  <2>1. vn \in Name
    OBVIOUS
  <2> HIDE DEF vn
  <2>2. NotedAt(Noted(names, p, vn), names, p, vn)
    BY <2>1, NotedFacts
  <2> QED  BY <2>2 DEF vn, NotedAt
<1>2. \A i \in DOMAIN names : names[i] = ins[i] /\ \A j \in 1..(i - 1) : ins[j] # ins[i]
  BY DEF Settled, Matched, Wired
<1> HIDE DEF noted
<1>3. \A i \in DOMAIN noted : noted[i] = ins[i] /\ \A j \in 1..(i - 1) : ins[j] # ins[i]
  BY <1>1, <1>2
<1>4. Settled(Wired(ins, noted))
  BY <1>3 DEF Settled, Matched, Wired
<1> QED  BY <1>4 DEF noted

\* Appending an input disturbs nothing that is noted.
LEMMA AppendingSettled ==
  ASSUME NEW ins \in Seq(Name), NEW names, DOMAIN names \subseteq 1..Len(ins),
         Settled(Wired(ins, names)), NEW nm \in Name
  PROVE  Settled(Wired(Append(ins, nm), names))
<1> DEFINE longer == Append(ins, nm)
<1>1. \A i \in DOMAIN names : names[i] = ins[i] /\ \A j \in 1..(i - 1) : ins[j] # ins[i]
  BY DEF Settled, Matched, Wired
<1>2. \A i \in 1..Len(ins) : longer[i] = ins[i]
  OBVIOUS
<1>3. \A i \in DOMAIN names : \A j \in 1..(i - 1) : j \in 1..Len(ins) /\ i \in 1..Len(ins)
  OBVIOUS
<1> HIDE DEF longer
<1>4. \A i \in DOMAIN names : names[i] = longer[i] /\ \A j \in 1..(i - 1) : longer[j] # longer[i]
  BY <1>1, <1>2, <1>3
<1>5. Settled(Wired(longer, names))
  BY <1>4 DEF Settled, Matched, Wired
<1> QED  BY <1>5 DEF longer

\* After a reload every value name is an input, noted where it first occurs.
LEMMA ReloadSettles ==
  ASSUME NamesAreUnambiguous, NEW w \in Wiring
  PROVE  Settled(Reloaded(w))
<1> DEFINE n == Len(w.inputs)
<1>1. PICK f : Turns(f, w)
  BY ReloadTurns
<1>2. /\ n \in Nat /\ f \in [0..n -> Wiring] /\ f[0] = Wired(w.inputs, NoNames)
      /\ Reloaded(w) = f[n] /\ w.inputs \in Seq(Name)
  BY <1>1, WiringFacts DEF Turns
<1>3. w.names \in [DOMAIN w.names -> Name]
  BY WiringFacts
<1> DEFINE Good(v) == /\ Len(v.inputs) >= n /\ \A j \in 1..n : v.inputs[j] = w.inputs[j]
                      /\ Settled(v)
           S == {i \in 0..n : Good(f[i])}
<1>4. 0 \in S
  <2>1. f[0].inputs = w.inputs
    BY <1>2 DEF Wired
  <2>2. f[0].names = NoNames
    BY <1>2 DEF Wired
  <2>3. Settled(f[0])
    BY <2>2, NoNamesFacts DEF Settled, Matched
  <2> QED  BY <1>2, <2>1, <2>3
<1>5. \A i \in 1..n : i - 1 \in S => i \in S
  <2> SUFFICES ASSUME NEW i \in 1..n, i - 1 \in S
               PROVE  Good(f[i])
    <3> HIDE DEF Good
    <3> QED  BY <1>2
  <2> DEFINE ins == f[i - 1].inputs
             names == f[i - 1].names
             vn == w.names[i]
  <2>1. i - 1 \in 0..n /\ f[i - 1] \in Wiring
    BY <1>2
  <2>2. /\ f[i - 1] = Wired(ins, names) /\ ins \in Seq(Name) /\ names \in [DOMAIN names -> Name]
        /\ DOMAIN names \subseteq 1..Len(ins)
    BY <2>1, WiringFacts
  <2>3. Len(ins) >= n /\ \A j \in 1..n : ins[j] = w.inputs[j]
    OBVIOUS
  <2>4. Settled(Wired(ins, names))
    BY <2>2
  <2> HIDE DEF ins, names, vn
  <2>5. CASE i \notin DOMAIN w.names /\ f[i] = f[i - 1]
    <3>1. f[i] = f[i - 1]
      BY <2>5
    <3> QED  BY <3>1
  <2>6. CASE /\ i \in DOMAIN w.names /\ Listed(vn, ins)
             /\ f[i] = Wired(ins, Noted(names, FirstAt(vn, ins), vn))
    <3> DEFINE p == FirstAt(vn, ins)
    <3>1. p \in 1..Len(ins) /\ ins[p] = vn /\ \A j \in 1..(p - 1) : ins[j] # ins[p]
      BY <2>2, <2>6, FirstAtFacts
    <3> HIDE DEF p
    <3>2. Settled(Wired(ins, Noted(names, p, ins[p])))
      BY <2>2, <2>4, <3>1, NotingSettles
    <3>3. f[i] = Wired(ins, Noted(names, p, vn))
      BY <2>6 DEF p
    <3>4. Settled(f[i]) /\ f[i].inputs = ins
      BY <3>1, <3>2, <3>3 DEF Wired
    <3> QED  BY <2>3, <3>4
  <2>7. CASE /\ i \in DOMAIN w.names /\ ~Listed(vn, ins)
             /\ f[i] = Wired(Append(ins, vn), Noted(names, Len(Append(ins, vn)), vn))
    <3> DEFINE longer == Append(ins, vn)
               p == Len(longer)
    <3>1. vn \in Name
      BY <1>3, <2>7 DEF vn
    <3>2. /\ longer \in Seq(Name) /\ Len(longer) = Len(ins) + 1 /\ p = Len(ins) + 1 /\ p \in 1..Len(longer) /\ longer[p] = vn
          /\ \A j \in 1..Len(ins) : longer[j] = ins[j]
          /\ DOMAIN names \subseteq 1..Len(longer) /\ Len(ins) \in Nat
      BY <2>2, <3>1
    <3>3. \A j \in 1..Len(ins) : ins[j] # vn
      BY <2>2, <2>7 DEF Listed
    <3>4. f[i] = Wired(longer, Noted(names, p, vn))
      BY <2>7
    <3>5. Settled(Wired(longer, names))
      BY <2>2, <2>4, <3>1, AppendingSettled
    <3> HIDE DEF longer, p
    <3>6. \A j \in 1..(p - 1) : longer[j] # longer[p]
      BY <3>2, <3>3
    <3>7. Settled(Wired(longer, Noted(names, p, longer[p])))
      BY <2>2, <3>2, <3>5, <3>6, NotingSettles
    <3>8. Settled(f[i]) /\ f[i].inputs = longer
      BY <3>2, <3>4, <3>7 DEF Wired
    <3>9. Len(longer) >= n /\ \A j \in 1..n : longer[j] = w.inputs[j]
      BY <1>2, <2>3, <3>2
    <3> QED  BY <3>8, <3>9
  <2>8. \/ i \notin DOMAIN w.names /\ f[i] = f[i - 1]
        \/ /\ i \in DOMAIN w.names /\ Listed(vn, ins)
           /\ f[i] = Wired(ins, Noted(names, FirstAt(vn, ins), vn))
        \/ /\ i \in DOMAIN w.names /\ ~Listed(vn, ins)
           /\ f[i] = Wired(Append(ins, vn), Noted(names, Len(Append(ins, vn)), vn))
    BY <1>1, <2>3, TurnFacts DEF ins, names, vn
  <2> HIDE DEF Good
  <2> QED  BY <2>5, <2>6, <2>7, <2>8
<1> HIDE DEF S
<1>6. 0..n \subseteq S
  BY <1>2, <1>4, <1>5, UpTo
<1>7. n \in S
  BY <1>2, <1>6
<1> QED  BY <1>2, <1>7 DEF S

\* A wiring whose value names are its inputs keeps its inputs in a reload, and
\* its value names too, if each is noted where its name occurs first.
LEMMA ReloadKeeps ==
  ASSUME NamesAreUnambiguous, NEW w \in Wiring, Matched(w)
  PROVE  Reloaded(w).inputs = w.inputs /\ (Settled(w) => Reloaded(w) = w)
<1> DEFINE n == Len(w.inputs)
<1>1. PICK f : Turns(f, w)
  BY ReloadTurns
<1>2. /\ n \in Nat /\ f \in [0..n -> Wiring] /\ f[0] = Wired(w.inputs, NoNames)
      /\ Reloaded(w) = f[n] /\ w.inputs \in Seq(Name)
  BY <1>1, WiringFacts DEF Turns
<1>3. w = Wired(w.inputs, w.names) /\ w.names \in [DOMAIN w.names -> Name] /\ DOMAIN w.names \subseteq 1..n
  BY WiringFacts
<1> DEFINE Upto(v, i) == /\ DOMAIN v.names = {j \in DOMAIN w.names : j <= i}
                         /\ \A j \in DOMAIN v.names : v.names[j] = w.names[j]
           S == {i \in 0..n : f[i].inputs = w.inputs /\ (Settled(w) => Upto(f[i], i))}
<1>4. 0 \in S
  <2>1. f[0].inputs = w.inputs /\ f[0].names = NoNames
    BY <1>2 DEF Wired
  <2>2. DOMAIN f[0].names = {}
    BY <2>1, NoNamesFacts
  <2>3. {j \in DOMAIN w.names : j <= 0} = {}
    BY <1>2, <1>3
  <2> QED  BY <1>2, <2>1, <2>2, <2>3
<1>5. \A i \in 1..n : i - 1 \in S => i \in S
  <2> SUFFICES ASSUME NEW i \in 1..n, i - 1 \in S
               PROVE  f[i].inputs = w.inputs /\ (Settled(w) => Upto(f[i], i))
    BY <1>2
  <2> DEFINE ins == f[i - 1].inputs
             names == f[i - 1].names
             vn == w.names[i]
  <2>1. i - 1 \in 0..n /\ f[i - 1] \in Wiring
    BY <1>2
  <2>2. names \in [DOMAIN names -> Name] /\ ins = w.inputs /\ (Settled(w) => Upto(f[i - 1], i - 1))
    BY <2>1, WiringFacts
  <2>3. Len(ins) >= n /\ \A j \in 1..n : ins[j] = w.inputs[j]
    BY <1>2, <2>2
  <2> HIDE DEF ins, names, vn
  <2>4. \/ i \notin DOMAIN w.names /\ f[i] = f[i - 1]
        \/ /\ i \in DOMAIN w.names /\ Listed(vn, ins)
           /\ f[i] = Wired(ins, Noted(names, FirstAt(vn, ins), vn))
        \/ i \in DOMAIN w.names /\ ~Listed(vn, ins)
    BY <1>1, <2>3, TurnFacts DEF ins, names, vn
  <2>5. i \in DOMAIN w.names => vn = w.inputs[i] /\ Listed(vn, ins) /\ vn \in Name
    BY <1>2, <1>3, <2>2 DEF Matched, Listed, vn
  <2>6. CASE i \notin DOMAIN w.names /\ f[i] = f[i - 1]
    <3>1. f[i].inputs = w.inputs /\ f[i].names = names
      BY <2>2, <2>6 DEF ins, names
    <3>2. {j \in DOMAIN w.names : j <= i} = {j \in DOMAIN w.names : j <= i - 1}
      BY <1>2, <1>3, <2>6
    <3>3. ASSUME Settled(w)
          PROVE  Upto(f[i], i)
      <4>1. DOMAIN names = {j \in DOMAIN w.names : j <= i - 1} /\ \A j \in DOMAIN names : names[j] = w.names[j]
        BY <2>2, <3>3 DEF names
      <4> QED  BY <3>1, <3>2, <4>1
    <3> QED  BY <3>1, <3>3
  <2>7. CASE /\ i \in DOMAIN w.names /\ Listed(vn, ins)
             /\ f[i] = Wired(ins, Noted(names, FirstAt(vn, ins), vn))
    <3> DEFINE noted == Noted(names, FirstAt(vn, ins), vn)
    <3>1. f[i].inputs = ins /\ f[i].names = noted
      BY <2>7 DEF Wired
    <3>2. ASSUME Settled(w)
          PROVE  Upto(f[i], i)
      <4>1. DOMAIN names = {j \in DOMAIN w.names : j <= i - 1} /\ \A j \in DOMAIN names : names[j] = w.names[j]
        BY <2>2, <3>2 DEF names
      <4>2. FirstAt(vn, ins) = i
        <5>1. /\ FirstAt(vn, ins) \in 1..n /\ ins[FirstAt(vn, ins)] = vn
              /\ \A j \in 1..(FirstAt(vn, ins) - 1) : ins[j] # vn
          BY <1>2, <2>2, <2>7, FirstAtFacts
        <5>2. \A j \in 1..(i - 1) : ins[j] # vn
          BY <2>2, <2>5, <2>7, <3>2 DEF Settled
        <5>3. ins[i] = vn
          BY <2>2, <2>5, <2>7
        <5> HIDE DEF vn
        <5> DEFINE p == FirstAt(vn, ins)
        <5>4. p \in Nat /\ i \in Nat /\ ~(p < i) /\ ~(i < p)
          BY <1>2, <5>1, <5>2, <5>3
        <5> HIDE DEF p
        <5>5. p = i
          BY <5>4
        <5> QED  BY <5>5 DEF p
      <4>3. /\ DOMAIN noted = DOMAIN names \cup {i} /\ noted[i] = vn
            /\ \A j \in DOMAIN names : j # i => noted[j] = names[j]
        <5>1. NotedAt(Noted(names, i, vn), names, i, vn)
          BY <2>2, <2>5, <2>7, NotedFacts
        <5>2. noted = Noted(names, i, vn)
          BY <4>2
        <5> QED  BY <5>1, <5>2 DEF NotedAt
      <4> HIDE DEF noted
      <4>4. {j \in DOMAIN w.names : j <= i} = {j \in DOMAIN w.names : j <= i - 1} \cup {i}
        BY <1>2, <1>3, <2>7
      <4>5. \A j \in DOMAIN noted : noted[j] = w.names[j]
        BY <4>1, <4>3 DEF vn
      <4> QED  BY <3>1, <4>1, <4>3, <4>4, <4>5
    <3> HIDE DEF Upto
    <3> QED  BY <2>2, <3>1, <3>2
  <2> HIDE DEF Upto
  <2> QED  BY <2>4, <2>5, <2>6, <2>7
<1> HIDE DEF S
<1>6. 0..n \subseteq S
  BY <1>2, <1>4, <1>5, UpTo
<1>7. f[n].inputs = w.inputs /\ (Settled(w) => Upto(f[n], n))
  BY <1>2, <1>6 DEF S
<1>8. ASSUME Settled(w)
      PROVE  f[n] = w
  <2>1. f[n] = Wired(f[n].inputs, f[n].names) /\ f[n].names \in [DOMAIN f[n].names -> Name]
    BY <1>2, WiringFacts
  <2>2. DOMAIN f[n].names = {j \in DOMAIN w.names : j <= n} /\ \A j \in DOMAIN f[n].names : f[n].names[j] = w.names[j]
    BY <1>7, <1>8
  <2>3. {j \in DOMAIN w.names : j <= n} = DOMAIN w.names
    BY <1>2, <1>3
  <2>4. f[n].names = w.names
    BY <1>3, <2>1, <2>2, <2>3
  <2> QED  BY <1>3, <1>7, <2>1, <2>4
<1> QED  BY <1>2, <1>7, <1>8

LEMMA ReloadedTwice ==
  ASSUME NamesAreUnambiguous, NEW w \in Wiring
  PROVE  Reloaded(Reloaded(w)) = Reloaded(w)
<1> DEFINE once == Reloaded(w)
<1>1. once \in Wiring /\ Settled(once)
  BY ReloadedType, ReloadSettles
<1>2. Matched(once)
  BY <1>1 DEF Settled
<1> HIDE DEF once
<1>3. Reloaded(once) = once
  BY <1>1, <1>2, ReloadKeeps
<1> QED  BY <1>3 DEF once

\* Reloading what was reloaded changes nothing more, whatever the value names were
\* (ReloadIsIdempotent).
THEOREM ReloadIsIdempotentHolds == Spec => []ReloadIsIdempotent
<1>1. TypeOK => ReloadIsIdempotent
  <2> SUFFICES ASSUME TypeOK, NamesAreUnambiguous, NEW t \in Target
               PROVE  Reloaded(Reloaded(Now(t))) = Reloaded(Now(t))
    BY DEF ReloadIsIdempotent
  <2>1. Now(t) \in Wiring
    BY TypeOKWires DEF Wires
  <2> QED  BY <2>1, ReloadedTwice
<1> QED  BY <1>1, TypeCorrect, PTL

\* A graph whose value names are its inputs comes back from to_dict and from_dict,
\* from to_json and from_json and from shape propagation with the inputs it had
\* (ReloadKeepsInputs).
THEOREM ReloadKeepsInputsHolds == Spec => ReloadKeepsInputs
<1>1. TypeOK /\ [Next]_vars =>
        [NamesAreUnambiguous /\ Aligned /\ inputs' # inputs => ~Reload]_vars
  <2> SUFFICES ASSUME TypeOK, NamesAreUnambiguous, Aligned, Reload
               PROVE  inputs' = inputs
    OBVIOUS
  <2>1. inputs \in [Target -> Seq(Name)] /\ Wires
    BY TypeOKWires
  <2>2. inputs' = [t \in Target |-> Reloaded(Now(t)).inputs]
    BY DEF Reload, Rewire
  <2>3. ASSUME NEW t \in Target
        PROVE  Reloaded(Now(t)).inputs = inputs[t]
    <3>1. Now(t) \in Wiring /\ Now(t).inputs = inputs[t] /\ Now(t).names = valueNames[t]
      BY <2>1 DEF Wires, Now, Wired
    <3>2. Matched(Now(t))
      BY <3>1 DEF Aligned, Matched
    <3> QED  BY <3>1, <3>2, ReloadKeeps
  <2> QED  BY <2>1, <2>2, <2>3
<1> QED  BY <1>1, TypeCorrect, PTL DEF Spec, ReloadKeepsInputs

-----------------------------------------------------------------------------
(* Lists of edges assigned to a target                                     *)

\* Every edge leads to a port of its own, which the edges before it do not fill.
Spread(list) ==
  \A p \in 1..Len(list) : /\ list[p].targetIdx >= p - 1
                          /\ \A q \in 1..(p - 1) : list[q].targetIdx # list[p].targetIdx

\* The first m edges of the list make the m inputs of w.
InOrder(w, list, m) ==
  /\ Len(w.inputs) = m
  /\ \A p \in 1..m : /\ w.inputs[p] = SourceName(list[p], TRUE)
                     /\ list[p].valueName # None =>
                          p \in DOMAIN w.names /\ w.names[p] = list[p].valueName

LEMMA AppendedInOrder ==
  ASSUME NEW w \in Wiring, NEW list \in Seq(EdgeRecord(Nat)), NEW p \in 1..Len(list),
         InOrder(w, list, p - 1), list[p].targetIdx >= p - 1
  PROVE  InOrder(ApplyEdge(w, list[p], TRUE), list, p)
<1> DEFINE e == list[p]
           nm == SourceName(e, TRUE)
           longer == Append(w.inputs, nm)
           noted == Noted(w.names, p, e.valueName)
<1>1. /\ w.inputs \in Seq(Name) /\ w.names \in [DOMAIN w.names -> Name]
      /\ DOMAIN w.names \subseteq 1..Len(w.inputs)
  BY WiringFacts
<1>2. e \in EdgeRecord(Nat)
  OBVIOUS
<1>3. nm \in Name /\ e.valueName \in Name \cup {None}
  BY <1>2, SourceNameType DEF EdgeRecord
<1>4. p \in Nat /\ Len(w.inputs) = p - 1 /\ e.targetIdx >= Len(w.inputs)
  BY DEF InOrder
<1>5. Appends(w, e, TRUE)
  BY <1>4 DEF Appends
<1> HIDE DEF nm, e
<1>6. /\ longer \in Seq(Name) /\ Len(longer) = p /\ longer[p] = nm
      /\ \A q \in 1..(p - 1) : longer[q] = w.inputs[q]
  BY <1>1, <1>3, <1>4
<1>7. ApplyEdge(w, e, TRUE) = Wired(longer, Noted(w.names, Len(longer), e.valueName))
  BY <1>5, ApplyEdgeAppends DEF nm
<1> HIDE DEF longer
<1>8. ApplyEdge(w, e, TRUE).inputs = longer /\ ApplyEdge(w, e, TRUE).names = noted
  <2>1. ApplyEdge(w, e, TRUE) = Wired(longer, noted)
    BY <1>6, <1>7
  <2> HIDE DEF noted
  <2>2. Wired(longer, noted).inputs = longer /\ Wired(longer, noted).names = noted
    BY DEF Wired
  <2> QED  BY <2>1, <2>2, Zenon
<1>9. \A q \in 1..(p - 1) : /\ w.inputs[q] = SourceName(list[q], TRUE)
                            /\ list[q].valueName # None =>
                                 q \in DOMAIN w.names /\ w.names[q] = list[q].valueName
  BY DEF InOrder
<1>10. \A q \in 1..p : longer[q] = SourceName(list[q], TRUE)
  <2>1. \A q \in 1..p : q \in 1..(p - 1) \/ q = p
    BY <1>4
  <2> QED  BY <1>6, <1>9, <2>1 DEF nm, e
<1>11. ASSUME NEW q \in 1..p, list[q].valueName # None
       PROVE  q \in DOMAIN noted /\ noted[q] = list[q].valueName
  <2>1. CASE e.valueName = None
    <3>1. noted = w.names
      BY <2>1 DEF Noted
    <3>2. q \in 1..(p - 1)
      BY <1>4, <1>11, <2>1 DEF e
    <3> QED  BY <1>9, <1>11, <3>1, <3>2
  <2>2. CASE e.valueName # None
    <3>1. e.valueName \in Name
      BY <1>3, <2>2
    <3>2. NotedAt(noted, w.names, p, e.valueName)
      BY <1>1, <3>1, NotedFacts
    <3>3. q \in 1..(p - 1) \/ q = p
      BY <1>4
    <3> HIDE DEF noted
    <3>4. CASE q = p
      BY <3>2, <3>4 DEF NotedAt, e
    <3>5. CASE q \in 1..(p - 1)
      <4>1. q # p
        BY <1>4, <3>5
      <4>2. q \in DOMAIN w.names /\ w.names[q] = list[q].valueName
        BY <1>9, <1>11, <3>5
      <4> QED  BY <3>2, <4>1, <4>2 DEF NotedAt
    <3> QED  BY <3>3, <3>4, <3>5
  <2> QED  BY <2>1, <2>2
<1> HIDE DEF noted
<1>12. InOrder(ApplyEdge(w, e, TRUE), list, p)
  BY <1>6, <1>8, <1>10, <1>11 DEF InOrder
<1> QED  BY <1>12 DEF e

\* A list that is spread becomes the inputs, edge by edge.
LEMMA AssignedInOrder ==
  ASSUME NEW list \in Seq(EdgeRecord(Nat)), Spread(list)
  PROVE  Assigned(list) \in Wiring /\ InOrder(Assigned(list), list, Len(list))
<1> DEFINE n == Len(list)
<1>1. PICK f : Applies(f, Wired(<<>>, NoNames), list, TRUE)
  BY EmptyWiring, AppliedFold
<1>2. /\ n \in Nat /\ f \in [0..n -> Wiring] /\ f[0] = Wired(<<>>, NoNames) /\ Assigned(list) = f[n]
      /\ \A i \in 1..n :
           f[i] = IF Repeated(list, i, TRUE) THEN f[i - 1] ELSE ApplyEdge(f[i - 1], list[i], TRUE)
  BY <1>1 DEF Applies, Assigned
<1> DEFINE S == {i \in 0..n : InOrder(f[i], list, i)}
<1>3. 0 \in S
  <2>1. f[0].inputs = <<>>
    BY <1>2 DEF Wired
  <2>2. InOrder(f[0], list, 0)
    BY <2>1 DEF InOrder
  <2> QED  BY <1>2, <2>2
<1>4. \A i \in 1..n : i - 1 \in S => i \in S
  <2> SUFFICES ASSUME NEW i \in 1..n, InOrder(f[i - 1], list, i - 1)
               PROVE  InOrder(f[i], list, i)
    BY <1>2
  <2>1. i - 1 \in 0..n
    BY <1>2
  <2>2. f[i - 1] \in Wiring
    BY <1>2, <2>1
  <2>3. list[i].targetIdx >= i - 1 /\ ~Repeated(list, i, TRUE)
    BY DEF Spread, Repeated
  <2>4. f[i] = ApplyEdge(f[i - 1], list[i], TRUE)
    BY <1>2, <2>3
  <2>5. InOrder(ApplyEdge(f[i - 1], list[i], TRUE), list, i)
    BY <2>2, <2>3, AppendedInOrder
  <2> QED  BY <2>4, <2>5
<1> HIDE DEF S
<1>5. 0..n \subseteq S
  BY <1>2, <1>3, <1>4, UpTo
<1>6. n \in S
  BY <1>2, <1>5
<1> QED  BY <1>2, <1>6 DEF S

\* The edges derived from the inputs, value names among them being the inputs.
LEMMA DerivedEdges ==
  ASSUME NamesAreUnambiguous, NEW w \in Wiring, Matched(w), NEW i \in 1..Len(w.inputs)
  PROVE  LET e == Edges(w.inputs, w.names)[i]
         IN  e.targetIdx = i - 1 /\ Operand(SourceName(e, TRUE)) = Operand(w.inputs[i])
<1> DEFINE e == Edges(w.inputs, w.names)[i]
           nm == w.inputs[i]
           vn == IF i \in DOMAIN w.names THEN w.names[i] ELSE None
<1> SUFFICES e.targetIdx = i - 1 /\ Operand(SourceName(e, TRUE)) = Operand(nm)
  OBVIOUS
<1>1. w.inputs \in Seq(Name) /\ w.names \in [DOMAIN w.names -> Name]
  BY WiringFacts
<1>2. e = [source |-> nm, sourceIdx |-> PortIndex(nm), targetIdx |-> i - 1, valueName |-> vn]
  BY <1>1, EdgesType
<1>3. nm \in Name /\ vn \in {nm, None}
  BY <1>1 DEF Matched
<1> HIDE DEF e, nm, vn
<1>4. Operand(SourceName([source |-> nm, sourceIdx |-> PortIndex(nm), targetIdx |-> i - 1,
                          valueName |-> vn], TRUE)) = Operand(nm)
  BY <1>3, DerivedEdge
<1>5. Operand(SourceName(e, TRUE)) = Operand(nm)
  BY <1>2, <1>4, Zenon
<1> QED  BY <1>2, <1>5

\* Filtering the edges of a target filters its operands.
LEMMA FilteredOperands ==
  ASSUME TypeOK, NamesAreUnambiguous, Aligned, NEW t \in Target, NEW gone
  PROVE  Operands(Filtered(t, gone).inputs) =
           Selected(Operands(inputs[t]), DOMAIN inputs[t] \ gone)
<1> DEFINE ins == inputs[t]
           edges == Edges(ins, valueNames[t])
           n == Len(ins)
           P == DOMAIN ins \ gone
           at == Selected(Positions(n), P)
           list == Selected(edges, P)
           w == Assigned(list)
<1>1. Now(t) \in Wiring /\ Now(t).inputs = ins /\ Now(t).names = valueNames[t] /\ Matched(Now(t))
  BY TypeOKWires DEF Wires, Now, Wired, Matched, Aligned
<1>2. /\ ins \in Seq(Name) /\ n \in Nat /\ DOMAIN ins = 1..n
      /\ valueNames[t] \in [DOMAIN valueNames[t] -> Name]
  BY DEF TypeOK
<1>3. edges \in Seq(EdgeRecord(Nat)) /\ Len(edges) = n
  BY <1>2, EdgesType
<1>4. \A i \in 1..n : edges[i].targetIdx = i - 1 /\ Operand(SourceName(edges[i], TRUE)) = Operand(ins[i])
  BY <1>1, DerivedEdges
<1>5. Filtered(t, gone) = w
  BY DEF Filtered
<1> HIDE DEF edges, ins, P
<1>6. /\ at \in Seq(1..n) /\ \A k, l \in 1..Len(at) : k < l => at[k] < at[l]
      /\ \A k \in 1..Len(at) : at[k] >= k
  <2> HIDE DEF n
  <2> QED  BY <1>2, SelectedInOrder
<1>7. list = At(edges, at)
  BY <1>3, SelectedPositions
<1> HIDE DEF n, at
<1>8. Len(at) \in Nat /\ DOMAIN at = 1..Len(at) /\ \A k \in 1..Len(at) : at[k] \in 1..n
  <2> DEFINE R == 1..n
  <2>1. at \in Seq(R)
    BY <1>6
  <2> HIDE DEF R
  <2>2. Len(at) \in Nat /\ DOMAIN at = 1..Len(at) /\ \A k \in 1..Len(at) : at[k] \in R
    BY <2>1
  <2> QED  BY <2>2 DEF R
<1>9. list \in Seq(EdgeRecord(Nat))
  BY <1>3, SelectedFacts
<1> HIDE DEF list
<1>10. DOMAIN list = 1..Len(at) /\ \A k \in 1..Len(at) : list[k] = edges[at[k]]
  BY <1>7, <1>8 DEF At
<1>11. Len(list) = Len(at)
  BY <1>8, <1>9, <1>10
<1>12. \A k \in 1..Len(at) : list[k].targetIdx = at[k] - 1
  BY <1>4, <1>8, <1>10
<1>13. Spread(list)
  <2>1. ASSUME NEW k \in 1..Len(at)
        PROVE  list[k].targetIdx >= k - 1
    BY <1>2, <1>6, <1>8, <1>12
  <2>2. ASSUME NEW k \in 1..Len(at), NEW l \in 1..(k - 1)
        PROVE  list[l].targetIdx # list[k].targetIdx
    <3>1. l \in 1..Len(at) /\ l < k
      BY <1>8
    <3>2. at[l] < at[k] /\ at[l] \in 1..n /\ at[k] \in 1..n
      BY <1>6, <1>8, <3>1
    <3>3. at[l] - 1 # at[k] - 1
      BY <1>2, <3>2
    <3> QED  BY <1>12, <3>1, <3>3
  <2> QED  BY <1>11, <2>1, <2>2 DEF Spread
<1>14. w \in Wiring /\ InOrder(w, list, Len(at))
  BY <1>9, <1>11, <1>13, AssignedInOrder
<1> HIDE DEF w
<1>15. /\ w.inputs \in Seq(Name) /\ Len(w.inputs) = Len(at)
       /\ \A k \in 1..Len(at) : w.inputs[k] = SourceName(list[k], TRUE)
  BY <1>14, WiringFacts DEF InOrder
<1>16. DOMAIN w.inputs = 1..Len(at)
  BY <1>15
<1>17. Operands(w.inputs) = [k \in 1..Len(at) |-> Operand(w.inputs[k])]
  BY <1>16 DEF Operands
<1>18. \A k \in 1..Len(at) : Operand(w.inputs[k]) = Operand(ins[at[k]])
  <2> SUFFICES ASSUME NEW k \in 1..Len(at)
               PROVE  Operand(w.inputs[k]) = Operand(ins[at[k]])
    OBVIOUS
  <2>1. at[k] \in 1..n /\ list[k] = edges[at[k]]
    BY <1>8, <1>10
  <2>2. Operand(SourceName(edges[at[k]], TRUE)) = Operand(ins[at[k]])
    BY <1>4, <2>1
  <2> QED  BY <1>15, <2>1, <2>2
<1> DEFINE ops == Operands(ins)
<1>19. ops = [i \in 1..n |-> Operand(ins[i])]
  BY <1>2 DEF Operands
<1> HIDE DEF ops
<1>20. ops \in Seq({Operand(ins[i]) : i \in 1..n}) /\ Len(ops) = n
  BY <1>2, <1>19
<1>21. Selected(ops, P) = At(ops, at)
  BY <1>20, SelectedPositions DEF at
<1>22. At(ops, at) = [k \in 1..Len(at) |-> Operand(ins[at[k]])]
  BY <1>8, <1>19 DEF At
<1>23. Operands(w.inputs) = Selected(ops, P)
  BY <1>17, <1>18, <1>21, <1>22
<1> QED  BY <1>5, <1>23 DEF ops, ins, P

\* Extending the edges of a target appends an operand, under its value name.
LEMMA ExtendedOperands ==
  ASSUME TypeOK, NamesAreUnambiguous, Aligned, NEW t \in Target, NEW e \in Edge
  PROVE  LET w == Extended(t, e)
         IN  /\ Operands(w.inputs) =
                  Append(Operands(inputs[t]), Operand(SourceName(e, TRUE)))
             /\ e.valueName # None => w.names[Len(w.inputs)] = e.valueName
<1> DEFINE ins == inputs[t]
           edges == Edges(ins, valueNames[t])
           n == Len(ins)
           last == [e EXCEPT !.targetIdx = n]
           list == Append(edges, last)
           w == Assigned(list)
<1>1. Now(t) \in Wiring /\ Now(t).inputs = ins /\ Now(t).names = valueNames[t] /\ Matched(Now(t))
  BY TypeOKWires DEF Wires, Now, Wired, Matched, Aligned
<1>2. /\ ins \in Seq(Name) /\ n \in Nat /\ DOMAIN ins = 1..n
      /\ valueNames[t] \in [DOMAIN valueNames[t] -> Name]
  BY DEF TypeOK
<1>3. edges \in Seq(EdgeRecord(Nat)) /\ Len(edges) = n
  BY <1>2, EdgesType
<1>4. \A i \in 1..n : edges[i].targetIdx = i - 1 /\ Operand(SourceName(edges[i], TRUE)) = Operand(ins[i])
  BY <1>1, DerivedEdges
<1>5. Extended(t, e) = w
  BY DEF Extended
<1>6. list \in Seq(EdgeRecord(Nat))
  BY ExtendedType
<1>7. /\ last.targetIdx = n /\ last.source = e.source /\ last.sourceIdx = e.sourceIdx
      /\ last.valueName = e.valueName
  BY EdgesAssumption DEF EdgeRecord
<1>8. SourceName(last, TRUE) = SourceName(e, TRUE)
  <2> HIDE DEF last
  <2> QED  BY <1>7 DEF SourceName
<1> HIDE DEF edges, ins, n, last
<1>9. Len(list) = n + 1 /\ list[n + 1] = last /\ \A i \in 1..n : list[i] = edges[i]
  BY <1>2, <1>3
<1> HIDE DEF list
<1>10. \A i \in 1..(n + 1) : list[i].targetIdx = i - 1
  <2> SUFFICES ASSUME NEW i \in 1..(n + 1)
               PROVE  list[i].targetIdx = i - 1
    OBVIOUS
  <2>1. CASE i \in 1..n
    <3>1. list[i] = edges[i] /\ edges[i].targetIdx = i - 1
      BY <1>4, <1>9, <2>1
    <3> QED  BY <3>1
  <2>2. CASE i = n + 1
    <3>1. list[i] = last /\ last.targetIdx = n /\ n = i - 1
      BY <1>2, <1>7, <1>9, <2>2
    <3> QED  BY <3>1
  <2>3. n \in Nat
    BY <1>2
  <2> QED  BY <2>1, <2>2, <2>3
<1>11. Spread(list)
  BY <1>2, <1>9, <1>10 DEF Spread
<1>12. w \in Wiring /\ InOrder(w, list, n + 1)
  BY <1>6, <1>9, <1>11, AssignedInOrder
<1> HIDE DEF w
<1>13. /\ w.inputs \in Seq(Name) /\ Len(w.inputs) = n + 1
       /\ \A k \in 1..(n + 1) : w.inputs[k] = SourceName(list[k], TRUE)
  BY <1>12, WiringFacts DEF InOrder
<1>14. e.valueName # None => w.names[Len(w.inputs)] = e.valueName
  <2>1. n + 1 \in 1..(n + 1)
    BY <1>2
  <2>2. list[n + 1].valueName # None => w.names[n + 1] = list[n + 1].valueName
    BY <1>12, <2>1 DEF InOrder
  <2>3. list[n + 1].valueName = e.valueName
    BY <1>7, <1>9
  <2> QED  BY <1>13, <2>2, <2>3
<1> DEFINE ops == Operands(ins)
           added == Operand(SourceName(e, TRUE))
<1>15. ops = [i \in 1..n |-> Operand(ins[i])]
  BY <1>2 DEF Operands
<1>16. Operands(w.inputs) = [k \in 1..(n + 1) |-> Operand(w.inputs[k])]
  BY <1>13 DEF Operands
<1>17. ASSUME NEW k \in 1..n
       PROVE  Operand(w.inputs[k]) = ops[k]
  <2>1. k \in 1..(n + 1)
    BY <1>2
  <2>2. w.inputs[k] = SourceName(list[k], TRUE)
    BY <1>13, <2>1
  <2>3. list[k] = edges[k] /\ Operand(SourceName(edges[k], TRUE)) = Operand(ins[k])
    BY <1>4, <1>9
  <2>4. ops[k] = Operand(ins[k])
    BY <1>15
  <2> QED  BY <2>2, <2>3, <2>4, Zenon
<1>18. Operand(w.inputs[n + 1]) = added
  <2>1. n + 1 \in 1..(n + 1)
    BY <1>2
  <2>2. w.inputs[n + 1] = SourceName(list[n + 1], TRUE) /\ list[n + 1] = last
    BY <1>9, <1>13, <2>1
  <2> QED  BY <1>8, <2>2, Zenon
<1> HIDE DEF ops, added
<1>19. Len(ops) = n /\ ops \in Seq({Operand(ins[i]) : i \in 1..n})
  BY <1>2, <1>15
<1>20. Append(ops, added) = [k \in 1..(n + 1) |-> IF k \in 1..n THEN ops[k] ELSE added]
  <2> DEFINE T == {Operand(ins[i]) : i \in 1..n} \cup {added}
             longer == Append(ops, added)
  <2>1. ops \in Seq(T) /\ added \in T
    BY <1>2, <1>15
  <2> HIDE DEF T
  <2>2. /\ longer \in Seq(T) /\ Len(longer) = n + 1 /\ longer[n + 1] = added
        /\ \A k \in 1..n : longer[k] = ops[k]
    BY <1>2, <1>19, <2>1
  <2> HIDE DEF longer
  <2>3. longer = [k \in 1..(n + 1) |-> longer[k]]
    <3>1. DOMAIN longer = 1..(n + 1) /\ longer = [k \in DOMAIN longer |-> longer[k]]
      BY <2>2
    <3> QED  BY <3>1
  <2>4. \A k \in 1..(n + 1) : longer[k] = IF k \in 1..n THEN ops[k] ELSE added
    BY <1>2, <2>2
  <2>5. longer = [k \in 1..(n + 1) |-> IF k \in 1..n THEN ops[k] ELSE added]
    BY <2>3, <2>4
  <2> QED  BY <2>5 DEF longer
<1>21. Operands(w.inputs) = Append(ops, added)
  <2>1. \A k \in 1..(n + 1) : Operand(w.inputs[k]) = IF k \in 1..n THEN ops[k] ELSE added
    BY <1>2, <1>17, <1>18
  <2> QED  BY <1>16, <1>20, <2>1
<1> QED  BY <1>5, <1>14, <1>21 DEF ops, added, ins

\* Taking edges away leaves the operands of the others what they were, in their
\* order, and taking none away changes none (FilterKeepsOperands).
THEOREM FilterKeepsOperandsHolds == Spec => []FilterKeepsOperands
<1>1. TypeOK => FilterKeepsOperands
  BY FilteredOperands DEF FilterKeepsOperands
<1> QED  BY <1>1, TypeCorrect, PTL

\* An edge for the next free port becomes the operand there, whatever feeds the
\* other ports (ExtendingAddsOperand).
THEOREM ExtendingAddsOperandHolds == Spec => []ExtendingAddsOperand
<1>1. TypeOK => ExtendingAddsOperand
  BY ExtendedOperands DEF ExtendingAddsOperand
<1> QED  BY <1>1, TypeCorrect, PTL


-----------------------------------------------------------------------------
(* Reading a stream.  A file's text as a chain of units.                   *)

\* The units that follow the first i entries, and the first j members of entry i.
End == Mark("}", 0, 0)
NextEntry(es, i) ==
  IF i = Len(es) THEN End ELSE IF i = 0 THEN Unit("key", 1, 1, 0) ELSE Mark(",", i + 1, 0)
NextMember(es, i, j) ==
  IF j = Len(es[i].value.section) THEN Mark("}", i, 0)
  ELSE IF j = 0 THEN Unit("key", 1, i, 1) ELSE Mark(",", i, j + 1)
NextItem(es, i, j) == IF j = 0 THEN NextEntry(es, i) ELSE NextMember(es, i, j)

\* The unit a value begins with
FirstOf(es, i, j) == IF j = 0 /\ IsSection(es[i].value) THEN Mark("{", i, 0) ELSE Unit("value", 1, i, j)

ValueIn(es, i, j) == IF j = 0 THEN es[i].value ELSE es[i].value.section[j].value

\* Unit v follows unit u.
Follows(es, u, v) ==
  LET i == u.entry
      j == u.member
  IN  /\ u.ch = " " => v = Mark("{", 0, 0)
      /\ u.ch = "{" => v = IF i = 0 THEN NextEntry(es, 0) ELSE NextMember(es, i, 0)
      /\ u.ch = "," => v = Unit("key", 1, i, j)
      /\ u.ch = "key" => v = IF u.part < KeyParts THEN Unit("key", u.part + 1, i, j) ELSE Mark(":", i, j)
      /\ u.ch = ":" => v = FirstOf(es, i, j)
      /\ u.ch = "value" => v = IF u.part < Spelling(ValueIn(es, i, j)).parts
                               THEN Unit("value", u.part + 1, i, j) ELSE NextItem(es, i, j)
      /\ u.ch = "}" => v = NextEntry(es, i)

\* A unit with another behind it
IsInner(es, u) == u # End /\ (u.ch = "value" => ValueIn(es, u.entry, u.member) \in Values(es))

\* The units of a text, which starts with white space and ends with its only closing brace.
Chars == {" ", "{", "}", ",", ":", "key", "value"}
Units == [ch : Chars, part : Nat, entry : Nat, member : Nat]
IsChained(es, t) ==
  /\ t \in Seq(Units) /\ t # <<>>
  /\ t[1] = Mark(" ", 0, 0)
  /\ \A c \in 1..Len(t) :
       IF c = Len(t) THEN t[c] = End ELSE IsInner(es, t[c]) /\ Follows(es, t[c], t[c + 1])

-----------------------------------------------------------------------------
(* What has been read at each place of the text.                           *)

\* The nodes that the first i entries give can be made.
LoadableUpto(i) ==
  \A p \in 1..i : entries[p].key = "nodes" =>
    /\ IsSection(entries[p].value)
    /\ \A j \in DOMAIN entries[p].value.section : IsNode(entries[p].value.section[j].value)

\* Just the first i entries have been read.
ReadEntries(i) ==
  /\ i \in 0..Len(entries) /\ LoadableUpto(i)
  /\ meta = MetaOf(entries, i) /\ nodes = NodesOf(entries, i)

\* The entries that are sections
Sections == {i \in DOMAIN entries : IsSection(entries[i].value)}

\* The first i - 1 entries have been read, and the first j nodes of the next.
ReadMembers(i, j) ==
  LET s == entries[i].value.section
  IN  /\ LoadableUpto(i - 1) /\ meta = MetaOf(entries, i - 1)
      /\ nodes = SubSeq(s, 1, j) /\ \A q \in 1..j : IsNode(s[q].value)

\* Where the reader stands when the next thing is at unit u.
AtStart(u) == awaits = "start" /\ ReadEntries(0) /\ u \in {Mark(" ", 0, 0), Mark("{", 0, 0)}

AtTop(u) ==
  awaits = "top" /\ \E i \in 0..Len(entries) :
    /\ ReadEntries(i)
    /\ \/ u = NextEntry(entries, i)
       \/ i < Len(entries) /\ u = Unit("key", 1, i + 1, 0)

AtEntry(u) ==
  \E i \in DOMAIN entries :
    /\ ReadEntries(i - 1)
    /\ \/ awaits = "key" /\ u = Unit("key", 1, i, 0)
       \/ /\ key = entries[i].key
          /\ \/ awaits = "colon" /\ u = Mark(":", i, 0)
             \/ awaits = "colon" /\ u = FirstOf(entries, i, 0)
             \/ awaits = "value" /\ key # "nodes" /\ u = FirstOf(entries, i, 0)
             \/ awaits = "nodes" /\ key = "nodes" /\ u = FirstOf(entries, i, 0)

AtMembers(u) ==
  awaits = "member" /\ \E i \in Sections : \E j \in 0..Len(entries[i].value.section) :
    /\ ReadMembers(i, j)
    /\ \/ u = NextMember(entries, i, j)
       \/ j < Len(entries[i].value.section) /\ u = Unit("key", 1, i, j + 1)

AtMember(u) ==
  \E i \in Sections : \E j \in 1..Len(entries[i].value.section) :
    /\ ReadMembers(i, j - 1)
    /\ \/ awaits = "id" /\ u = Unit("key", 1, i, j)
       \/ /\ id = entries[i].value.section[j].key
          /\ \/ awaits = "idColon" /\ u = Mark(":", i, j)
             \/ awaits = "idColon" /\ u = Unit("value", 1, i, j)
             \/ awaits = "node" /\ u = Unit("value", 1, i, j)

\* Behind a number that was cut short no key can be decoded.
AtRest(u) == awaits \in {"top", "key"} /\ u.ch = "value" /\ u.part # 1 /\ CanBeCutBadly(entries)

\* A text that lost its end may end where a value is expected, before its colon or behind it.
AtLoss == awaits \in {"value", "nodes", "node"} /\ pos = Len(buf) + 1 /\ unread = Len(text) + 1

IsPlace(u) == AtStart(u) \/ AtTop(u) \/ AtEntry(u) \/ AtMembers(u) \/ AtMember(u) \/ AtRest(u) \/ AtLoss

\* How much of the text is no more in the buffer
Dropped == unread - 1 - Len(buf)

\* The buffer is a piece of the text: what was read last.
IsWindow ==
  /\ text = SubSeq(Text(entries), 1, Len(text)) /\ Len(text) \in 0..Len(Text(entries))
  /\ unread \in 1..(Len(text) + 1)
  /\ buf \in Seq(Units) /\ Len(buf) \in 0..(unread - 1)
  /\ \A p \in 1..Len(buf) : buf[p] = Text(entries)[Dropped + p]
  /\ pos \in 1..(Len(buf) + 1)

ReaderInv ==
  /\ awaits \in Reading \cup {"nothing", "done", "failed"}
  /\ awaits = "nothing" => ReaderInit
  /\ awaits # "nothing" => IsFile(entries) /\ IsWindow
  /\ awaits \in Reading => Dropped + pos <= Len(Text(entries)) /\ IsPlace(Text(entries)[Dropped + pos])
  /\ awaits = "done" => Len(text) = Len(Text(entries)) /\ ReadEntries(Len(entries))
  /\ awaits = "failed" => Len(text) < Len(Text(entries)) \/ ~IsLoadable(entries) \/ CanBeCutBadly(entries)

-----------------------------------------------------------------------------
(* The text of a file is a chain.                                          *)

LEMMA FileFacts ==
  ASSUME NEW es, IsFile(es)
  PROVE  /\ Len(es) \in Nat /\ DOMAIN es = 1..Len(es)
         /\ \A i \in DOMAIN es :
              LET s == es[i].value.section
              IN  IF ~IsSection(es[i].value)
                  THEN /\ Spelling(es[i].value).parts \in Nat \ {0}
                       /\ es[i].value \in Values(es)
                  ELSE /\ es[i].key = "nodes" /\ Len(s) \in Nat /\ DOMAIN s = 1..Len(s)
                       /\ s \in Seq({s[j] : j \in DOMAIN s})
                       /\ \A j \in DOMAIN s : /\ s[j] = [key |-> s[j].key, value |-> s[j].value]
                                              /\ Spelling(s[j].value).parts \in Nat \ {0}
                                              /\ s[j].value \in Values(es)
<1>1. Len(es) \in Nat /\ DOMAIN es = 1..Len(es)
  BY DEF IsFile, IsSequence
<1>2. ASSUME NEW i \in DOMAIN es, ~IsSection(es[i].value)
      PROVE  Spelling(es[i].value).parts \in Nat \ {0} /\ es[i].value \in Values(es)
  BY <1>2 DEF IsFile, Values, IsSpelled
<1>3. ASSUME NEW i \in DOMAIN es, IsSection(es[i].value)
      PROVE  LET s == es[i].value.section
             IN  /\ es[i].key = "nodes" /\ Len(s) \in Nat /\ DOMAIN s = 1..Len(s)
                 /\ s \in Seq({s[j] : j \in DOMAIN s})
                 /\ \A j \in DOMAIN s : /\ s[j] = [key |-> s[j].key, value |-> s[j].value]
                                        /\ Spelling(s[j].value).parts \in Nat \ {0}
                                        /\ s[j].value \in Values(es)
  <2> DEFINE s == es[i].value.section
  <2>1. es[i].key = "nodes" /\ IsSequence(s)
    BY <1>3 DEF IsFile
  <2>2. Len(s) \in Nat /\ DOMAIN s = 1..Len(s) /\ s \in Seq({s[j] : j \in DOMAIN s})
    BY <2>1 DEF IsSequence
  <2>3. ASSUME NEW j \in DOMAIN s
        PROVE  /\ s[j] = [key |-> s[j].key, value |-> s[j].value]
               /\ Spelling(s[j].value).parts \in Nat \ {0}
    BY <1>3, <2>3 DEF IsFile, IsSpelled
  <2>4. ASSUME NEW j \in DOMAIN s
        PROVE  s[j].value \in Values(es)
    BY <1>3, <2>4 DEF Values
  <2> QED  BY <2>1, <2>2, <2>3, <2>4
<1> QED  BY <1>1, <1>2, <1>3

\* Units t, none the end of a text: u the first, each followed by the next, the last by v.
Leads(es, t, u, v) ==
  /\ t \in Seq(Units) /\ t # <<>> /\ t[1] = u
  /\ \A c \in 1..Len(t) :
       IsInner(es, t[c]) /\ Follows(es, t[c], IF c = Len(t) THEN v ELSE t[c + 1])

LEMMA ConcatLeads ==
  ASSUME NEW es, NEW s, NEW t, NEW u, NEW v, NEW w, Leads(es, s, u, v), Leads(es, t, v, w)
  PROVE  Leads(es, s \o t, u, w)
<1> DEFINE r == s \o t
           m == Len(s)
           n == Len(t)
<1>1. s \in Seq(Units) /\ t \in Seq(Units) /\ m \in Nat \ {0} /\ n \in Nat \ {0} /\ t[1] = v /\ s[1] = u
  BY DEF Leads
<1>2. /\ r \in Seq(Units) /\ Len(r) = m + n /\ r # <<>>
      /\ \A c \in 1..m : r[c] = s[c]
      /\ \A c \in 1..n : r[m + c] = t[c]
  BY <1>1
<1> HIDE DEF r
<1>3. ASSUME NEW c \in 1..Len(r)
      PROVE  IsInner(es, r[c]) /\ Follows(es, r[c], IF c = Len(r) THEN w ELSE r[c + 1])
  <2>1. CASE c < m
    <3>1. c \in 1..m /\ c + 1 \in 1..m /\ r[c] = s[c] /\ r[c + 1] = s[c + 1] /\ c # Len(r)
      BY <1>1, <1>2, <2>1
    <3> QED  BY <2>1, <3>1 DEF Leads
  <2>2. CASE c = m
    <3>1. c \in 1..m /\ 1 \in 1..n /\ r[c] = s[c] /\ r[c + 1] = v /\ c # Len(r)
      BY <1>1, <1>2, <2>2
    <3> QED  BY <2>2, <3>1 DEF Leads
  <2>3. CASE c > m
    <3> DEFINE d == c - m
    <3>0. d \in 1..n /\ c = m + d /\ (c = Len(r) <=> d = n)
      BY <1>1, <1>2, <2>3
    <3>1. d \in 1..n /\ c = m + d /\ r[c] = t[d] /\ (c = Len(r) <=> d = n)
      BY <1>2, <3>0
    <3>2. d < n => r[c + 1] = t[d + 1]
      <4> SUFFICES ASSUME d < n
                   PROVE  r[c + 1] = t[d + 1]
        OBVIOUS
      <4>1. d + 1 \in 1..n /\ c + 1 = m + (d + 1)
        BY <1>1, <3>1
      <4> QED  BY <1>2, <4>1
    <3> HIDE DEF d
    <3>3. IF c = Len(r) THEN d = n ELSE d < n /\ r[c + 1] = t[d + 1]
      BY <1>1, <3>1, <3>2
    <3> QED  BY <3>1, <3>3 DEF Leads
  <2> QED  BY <1>1, <2>1, <2>2, <2>3
<1>4. r[1] = u
  BY <1>1, <1>2
<1>5. Leads(es, r, u, w)
  BY <1>2, <1>3, <1>4 DEF Leads
<1> QED  BY <1>5 DEF r

\* How Joined gets its result, sequence by sequence.
LEMMA JoinedFold ==
  ASSUME NEW items \in Seq(Seq(Units))
  PROVE  \E f \in [0..Len(items) -> Seq(Units)] :
           /\ f[0] = <<>> /\ Joined(items) = f[Len(items)]
           /\ \A i \in 1..Len(items) : f[i] = f[i - 1] \o items[i]
<1> DEFINE n == Len(items)
           V == Seq(Units)
           Longer(i, w) == w \o items[i]
           step == [p \in (1..n) \X V |-> Longer(p[1], p[2])]
           Upto(f) == f = [i \in 0..n |-> IF i = 0 THEN <<>> ELSE Longer(i, f[i - 1])]
<1>1. n \in Nat /\ <<>> \in V /\ \A i \in 1..n, w \in V : Longer(i, w) \in V
  OBVIOUS
<1>2. \E f \in [0..n -> V] : Upto(f)
  <2> HIDE DEF n, V, Longer
  <2>1. step \in Steps(n, V)
    BY <1>1 DEF Steps
  <2>2. PICK f \in [0..n -> V] :
          f[0] = <<>> /\ \A i \in 1..n : f[i] = step[<<i, f[i - 1]>>]
    <3> HIDE DEF step
    <3>1. PICK f \in FoldOf(V, <<>>, n, step) : TRUE
      BY <1>1, <2>1, FoldExists
    <3> QED  BY <3>1 DEF FoldOf
  <2>3. \A i \in 1..n : f[i - 1] \in V /\ step[<<i, f[i - 1]>>] = Longer(i, f[i - 1])
    BY <1>1
  <2>4. \A i \in 0..n : f[i] = IF i = 0 THEN <<>> ELSE Longer(i, f[i - 1])
    <3> HIDE DEF step
    <3>1. ASSUME NEW i \in 0..n, i # 0
          PROVE  f[i] = Longer(i, f[i - 1])
      <4>1. i \in 1..n
        BY <1>1, <3>1
      <4> QED  BY <2>2, <2>3, <4>1
    <3> QED  BY <1>1, <2>2, <3>1
  <2>5. Upto(f)
    <3> HIDE DEF step
    <3> QED  BY <2>4, <2>2
  <2> QED  BY <2>5
<1> DEFINE g == CHOOSE h : Upto(h)
<1>3. Upto(g)
  <2> HIDE DEF Upto
  <2> QED  BY <1>2
<1>4. Joined(items) = g[n]
  BY DEF Joined
<1> HIDE DEF g, V, Longer, n
<1>5. /\ g[0] = <<>>
      /\ \A i \in 1..n : g[i] = Longer(i, g[i - 1])
      /\ DOMAIN g = 0..n
  BY <1>1, <1>3
<1>6. g \in [0..n -> V]
  <2> DEFINE S == {i \in 0..n : g[i] \in V}
  <2>1. 0 \in S
    BY <1>1, <1>5
  <2>2. \A i \in 1..n : i - 1 \in S => i \in S
    BY <1>1, <1>5
  <2>3. 0..n \subseteq S
    <3> HIDE DEF S
    <3> QED  BY <1>1, <2>1, <2>2, UpTo
  <2> QED  BY <1>3, <2>3
<1> QED  BY <1>4, <1>5, <1>6 DEF n, V, Longer

LEMMA JoinedNone ==
  ASSUME NEW items \in Seq(Seq(Units)), Len(items) = 0
  PROVE  Joined(items) = <<>>
BY JoinedFold

\* Sequences that lead from one of the units u[0], u[1], ... to the next
LEMMA JoinedLeads ==
  ASSUME NEW es, NEW items \in Seq(Seq(Units)), items # <<>>, NEW u,
         \A i \in 1..Len(items) : Leads(es, items[i], u[i - 1], u[i])
  PROVE  Leads(es, Joined(items), u[0], u[Len(items)])
<1> DEFINE n == Len(items)
<1>1. n \in Nat \ {0}
  OBVIOUS
<1>2. PICK f \in [0..n -> Seq(Units)] :
        f[0] = <<>> /\ Joined(items) = f[n] /\ \A i \in 1..n : f[i] = f[i - 1] \o items[i]
  BY JoinedFold
<1> DEFINE S == {m \in 0..n : m = 0 \/ Leads(es, f[m], u[0], u[m])}
<1>3. ASSUME NEW m \in 1..n, m - 1 \in S
      PROVE  m \in S
  <2>1. f[m] = f[m - 1] \o items[m] /\ Leads(es, items[m], u[m - 1], u[m])
    BY <1>2
  <2>2. CASE m = 1
    <3>1. items[1] \in Seq(Units)
      BY <1>1
    <3>2. f[m] = items[1]
      BY <1>1, <1>2, <2>1, <2>2, <3>1
    <3>3. m - 1 = 0 /\ m = 1
      BY <2>2
    <3>4. Leads(es, items[1], u[0], u[1])
      BY <2>1, <3>3
    <3>5. Leads(es, f[m], u[0], u[m])
      BY <3>2, <3>3, <3>4
    <3> QED  BY <3>5
  <2>3. CASE m # 1
    <3>1. Leads(es, f[m - 1], u[0], u[m - 1])
      BY <1>3, <2>3
    <3>2. Leads(es, f[m - 1] \o items[m], u[0], u[m])
      BY <2>1, <3>1, ConcatLeads
    <3>3. Leads(es, f[m], u[0], u[m])
      BY <2>1, <3>2
    <3> QED  BY <3>3
  <2> QED  BY <2>2, <2>3
<1>4. n \in S
  <2>1. 0 \in S
    BY <1>1
  <2>2. \A m \in 1..n : m - 1 \in S => m \in S
    BY <1>3
  <2> HIDE DEF S, n
  <2>3. 0..n \subseteq S
    BY <1>1, <2>1, <2>2, UpTo
  <2> QED  BY <1>1, <2>3
<1> QED  BY <1>1, <1>2, <1>4

LEMMA EndFacts == End \in Units /\ End.ch = "}" /\ End.entry = 0
BY DEF End, Mark, Unit, Units, Chars

LEMMA OneLeads ==
  ASSUME NEW es, NEW u \in Units, NEW v, IsInner(es, u), Follows(es, u, v)
  PROVE  Leads(es, <<u>>, u, v)
<1>1. /\ <<u>> \in Seq(Units) /\ <<u>> # <<>> /\ Len(<<u>>) = 1
      /\ <<u>>[1] = u
  OBVIOUS
<1> QED  BY <1>1 DEF Leads

\* A mark other than the last leads to what follows it.
LEMMA MarkLeads ==
  ASSUME NEW es, NEW ch \in {" ", "{", ",", ":", "}"}, NEW i \in Nat, NEW j \in Nat, NEW v,
         ch # "}" \/ i # 0, Follows(es, Mark(ch, i, j), v)
  PROVE  Leads(es, <<Mark(ch, i, j)>>, Mark(ch, i, j), v)
<1> DEFINE u == Mark(ch, i, j)
<1>1. u \in Units /\ u.ch = ch /\ u.entry = i
  BY DEF Mark, Unit, Units, Chars
<1>2. IsInner(es, u)
  BY <1>1, EndFacts DEF IsInner
<1> HIDE DEF u
<1>3. Leads(es, <<u>>, u, v)
  BY <1>1, <1>2, OneLeads DEF u
<1> QED  BY <1>3 DEF u

LEMMA KeyLeads ==
  ASSUME NEW es, NEW i \in Nat, NEW j \in Nat
  PROVE  Leads(es, SpelledKey(i, j), Unit("key", 1, i, j), FirstOf(es, i, j))
<1> DEFINE s == [p \in 1..2 |-> Unit("key", p, i, j)]
           t == <<Mark(":", i, j)>>
<1>1. \A p \in 1..2 : Unit("key", p, i, j) \in Units /\ Unit("key", p, i, j).ch = "key"
                      /\ Unit("key", p, i, j).part = p
                      /\ Unit("key", p, i, j).entry = i /\ Unit("key", p, i, j).member = j
  BY DEF Unit, Units, Chars
<1>2. s \in Seq(Units) /\ Len(s) = 2 /\ s # <<>> /\ \A p \in 1..2 : s[p] = Unit("key", p, i, j)
  BY <1>1
<1> HIDE DEF s, t
<1>4. Leads(es, s, Unit("key", 1, i, j), Mark(":", i, j))
  <2> SUFFICES ASSUME NEW c \in 1..2
               PROVE  IsInner(es, s[c]) /\ Follows(es, s[c], IF c = 2 THEN Mark(":", i, j) ELSE s[c + 1])
    BY <1>2 DEF Leads
  <2>2. s[c].part = c /\ s[c].ch = "key" /\ s[c].entry = i /\ s[c].member = j
    BY <1>1, <1>2
  <2>1. IsInner(es, s[c])
    BY <2>2, EndFacts DEF IsInner
  <2>3. CASE c = 1
    <3>1. s[c + 1] = Unit("key", c + 1, i, j)
      BY <1>2, <2>3
    <3> QED  BY <2>1, <2>2, <2>3, <3>1 DEF Follows, KeyParts
  <2>4. CASE c = 2
    BY <2>1, <2>2, <2>4 DEF Follows, KeyParts
  <2> QED  BY <2>3, <2>4
<1>5. Leads(es, t, Mark(":", i, j), FirstOf(es, i, j))
  <2>1. LET u == Mark(":", i, j) IN u.ch = ":" /\ u.entry = i /\ u.member = j
    BY DEF Mark, Unit, Units, Chars
  <2>2. Follows(es, Mark(":", i, j), FirstOf(es, i, j))
    BY <2>1 DEF Follows
  <2> QED  BY <2>2, MarkLeads DEF t
<1>6. Leads(es, s \o t, Unit("key", 1, i, j), FirstOf(es, i, j))
  BY <1>4, <1>5, ConcatLeads
<1> QED  BY <1>6 DEF SpelledKey, KeyParts, s, t

LEMMA ValueLeads ==
  ASSUME NEW es, NEW i \in Nat, NEW j \in Nat, NEW w, w = ValueIn(es, i, j),
         Spelling(w).parts \in Nat \ {0}, w \in Values(es)
  PROVE  Leads(es, SpelledValue(w, i, j), Unit("value", 1, i, j), NextItem(es, i, j))
<1> DEFINE n == Spelling(w).parts
           s == SpelledValue(w, i, j)
<1>1. n \in Nat \ {0}
  OBVIOUS
<1> HIDE DEF n
<1>2. \A p \in 1..n : Unit("value", p, i, j) \in Units /\ Unit("value", p, i, j).ch = "value"
                      /\ Unit("value", p, i, j).part = p
                      /\ Unit("value", p, i, j).entry = i /\ Unit("value", p, i, j).member = j
  BY DEF Unit, Units, Chars
<1>3. s = [p \in 1..n |-> Unit("value", p, i, j)]
  BY DEF SpelledValue, n
<1>4. s \in Seq(Units) /\ Len(s) = n /\ s # <<>> /\ \A p \in 1..n : s[p] = Unit("value", p, i, j)
  <2> HIDE DEF s
  <2>1. s \in [1..n -> Units]
    BY <1>2, <1>3
  <2> QED  BY <1>1, <1>3, <2>1
<1> HIDE DEF s
<1>5. ASSUME NEW c \in 1..n
      PROVE  IsInner(es, s[c]) /\ Follows(es, s[c], IF c = n THEN NextItem(es, i, j) ELSE s[c + 1])
  <2>1. IsInner(es, s[c])
    BY <1>2, <1>4, EndFacts DEF IsInner
  <2>2. CASE c = n
    <3>1. s[c].part = n /\ s[c].ch = "value" /\ s[c].entry = i /\ s[c].member = j
      BY <1>2, <1>4, <2>2
    <3> QED  BY <1>1, <2>1, <2>2, <3>1 DEF Follows, n
  <2>3. CASE c # n
    <3>1. c + 1 \in 1..n /\ c < n
      BY <1>1, <2>3
    <3>2. s[c + 1] = Unit("value", c + 1, i, j)
      BY <1>4, <3>1
    <3>3. s[c].part = c /\ s[c].ch = "value" /\ s[c].entry = i /\ s[c].member = j
      BY <1>2, <1>4
    <3> QED  BY <2>1, <2>3, <3>1, <3>2, <3>3 DEF Follows, n
  <2> QED  BY <2>2, <2>3
<1>6. s[1] = Unit("value", 1, i, j)
  BY <1>1, <1>4
<1>7. Leads(es, s, Unit("value", 1, i, j), NextItem(es, i, j))
  BY <1>4, <1>5, <1>6 DEF Leads
<1> QED  BY <1>7 DEF s

\* What follows the comma, if there is one, and the key of an item
LEMMA ItemLeads ==
  ASSUME NEW es, NEW n, NEW i \in Nat, NEW j \in Nat, NEW t, NEW v,
         Leads(es, t, FirstOf(es, i, j), v)
  PROVE  Leads(es, Comma(n, i, j) \o SpelledKey(i, j) \o t,
               IF n = 1 THEN Unit("key", 1, i, j) ELSE Mark(",", i, j), v)
<1> DEFINE k == SpelledKey(i, j)
<1>1. Leads(es, k, Unit("key", 1, i, j), FirstOf(es, i, j))
  BY KeyLeads
<1>2. k \in Seq(Units)
  BY <1>1 DEF Leads
<1> HIDE DEF k
<1>3. CASE n = 1
  <2>1. Comma(n, i, j) \o k = k
    BY <1>2, <1>3 DEF Comma
  <2>2. Leads(es, k \o t, Unit("key", 1, i, j), v)
    BY <1>1, ConcatLeads
  <2> QED  BY <1>3, <2>1, <2>2 DEF k
<1>4. CASE n # 1
  <2> DEFINE c == Mark(",", i, j)
  <2>1. c.ch = "," /\ c.entry = i /\ c.member = j
    BY DEF Mark, Unit
  <2>2. Follows(es, c, Unit("key", 1, i, j))
    BY <2>1 DEF Follows
  <2>3. Leads(es, <<c>>, c, Unit("key", 1, i, j))
    BY <2>2, MarkLeads
  <2> HIDE DEF c
  <2>4. Leads(es, <<c>> \o k, c, FirstOf(es, i, j))
    BY <1>1, <2>3, ConcatLeads
  <2> DEFINE s == <<c>> \o k
  <2> HIDE DEF s
  <2>5. Leads(es, s \o t, c, v)
    BY <2>4, ConcatLeads DEF s
  <2> QED  BY <1>4, <2>5 DEF Comma, s, c, k
<1> QED  BY <1>3, <1>4

LEMMA MemberLeads ==
  ASSUME NEW es, IsFile(es), NEW i \in DOMAIN es, IsSection(es[i].value),
         NEW j \in DOMAIN es[i].value.section
  PROVE  Leads(es, SpelledMember(es[i].value.section, i, j), NextMember(es, i, j - 1), NextMember(es, i, j))
<1> DEFINE s == es[i].value.section
           t == SpelledValue(s[j].value, i, j)
<1>0. Len(es) \in Nat /\ DOMAIN es = 1..Len(es) /\ Len(s) \in Nat /\ DOMAIN s = 1..Len(s)
  BY FileFacts
<1>1. /\ i \in Nat \ {0} /\ j \in Nat \ {0} /\ j <= Len(s)
      /\ Spelling(s[j].value).parts \in Nat \ {0} /\ s[j].value \in Values(es)
  <2>1. i \in Nat \ {0} /\ j \in Nat \ {0} /\ j <= Len(s)
    BY <1>0
  <2>2. Spelling(s[j].value).parts \in Nat \ {0} /\ s[j].value \in Values(es)
    BY FileFacts
  <2> QED  BY <2>1, <2>2
<1>2. s[j].value = ValueIn(es, i, j)
  BY <1>1 DEF ValueIn
<1>3. Leads(es, t, Unit("value", 1, i, j), NextItem(es, i, j))
  BY <1>1, <1>2, ValueLeads
<1>4. FirstOf(es, i, j) = Unit("value", 1, i, j) /\ NextItem(es, i, j) = NextMember(es, i, j)
  BY <1>1 DEF FirstOf, NextItem
<1> HIDE DEF t
<1>5. Leads(es, Comma(j, i, j) \o SpelledKey(i, j) \o t,
            IF j = 1 THEN Unit("key", 1, i, j) ELSE Mark(",", i, j), NextMember(es, i, j))
  BY <1>1, <1>3, <1>4, ItemLeads
<1>6. (IF j = 1 THEN Unit("key", 1, i, j) ELSE Mark(",", i, j)) = NextMember(es, i, j - 1)
  <2>1. j - 1 # Len(s) /\ (j - 1) + 1 = j /\ (j - 1 = 0 <=> j = 1)
    BY <1>0, <1>1
  <2> QED  BY <2>1 DEF NextMember
<1> QED  BY <1>5, <1>6 DEF t, SpelledMember

LEMMA SectionLeads ==
  ASSUME NEW es, IsFile(es), NEW i \in DOMAIN es, IsSection(es[i].value)
  PROVE  Leads(es, SpelledSection(es[i].value.section, i), Mark("{", i, 0), NextEntry(es, i))
<1> DEFINE s == es[i].value.section
           items == [j \in DOMAIN s |-> SpelledMember(s, i, j)]
           u == [j \in 0..Len(s) |-> NextMember(es, i, j)]
           close == Mark("}", i, 0)
           open == Mark("{", i, 0)
<1>1. Len(es) \in Nat /\ DOMAIN es = 1..Len(es) /\ Len(s) \in Nat /\ DOMAIN s = 1..Len(s)
  BY FileFacts
<1>2. i \in Nat \ {0}
  BY <1>1
<1>3. \A j \in DOMAIN s : Leads(es, SpelledMember(s, i, j), NextMember(es, i, j - 1), NextMember(es, i, j))
  BY MemberLeads
<1>4. /\ items \in Seq(Seq(Units)) /\ Len(items) = Len(s)
      /\ \A j \in 1..Len(s) : items[j] = SpelledMember(s, i, j)
  <2>1. \A j \in DOMAIN s : SpelledMember(s, i, j) \in Seq(Units)
    BY <1>3 DEF Leads
  <2> QED  BY <1>1, <2>1
<1>5. open.ch = "{" /\ open.entry = i /\ close.ch = "}" /\ close.entry = i /\ open.member = 0
  BY DEF Mark, Unit
<1>6. Leads(es, <<close>>, close, NextEntry(es, i))
  <2>1. Follows(es, close, NextEntry(es, i))
    BY <1>5 DEF Follows
  <2> QED  BY <1>2, <2>1, MarkLeads
<1>7. Leads(es, <<open>>, open, NextMember(es, i, 0))
  <2>1. Follows(es, open, NextMember(es, i, 0))
    BY <1>2, <1>5 DEF Follows
  <2> QED  BY <1>2, <2>1, MarkLeads
<1> HIDE DEF open, close, items
<1>8. Leads(es, <<open>> \o Joined(items), open, close)
  <2>1. CASE Len(s) = 0
    <3>1. Joined(items) = <<>>
      BY <1>4, <2>1, JoinedNone
    <3>2. NextMember(es, i, 0) = close
      BY <2>1 DEF NextMember, close
    <3>3. <<open>> \in Seq(Units)
      BY <1>7 DEF Leads
    <3>4. <<open>> \o Joined(items) = <<open>>
      BY <3>1, <3>3
    <3> QED  BY <1>7, <3>2, <3>4
  <2>2. CASE Len(s) # 0
    <3>1. \A j \in 1..Len(s) : Leads(es, items[j], u[j - 1], u[j])
      <4> TAKE j \in 1..Len(s)
      <4>1. j - 1 \in 0..Len(s) /\ j \in 0..Len(s)
        BY <1>1
      <4>2. u[j - 1] = NextMember(es, i, j - 1) /\ u[j] = NextMember(es, i, j)
        BY <4>1
      <4> HIDE DEF u
      <4> QED  BY <1>1, <1>3, <1>4, <4>2
    <3>2. u[0] = NextMember(es, i, 0) /\ u[Len(s)] = NextMember(es, i, Len(s))
      BY <1>1
    <3>3. NextMember(es, i, Len(s)) = close
      BY DEF NextMember, close
    <3> HIDE DEF u
    <3>4. items # <<>>
      BY <1>4, <2>2
    <3>5. Leads(es, Joined(items), u[0], u[Len(s)])
      BY <1>4, <3>1, <3>4, JoinedLeads
    <3>6. Leads(es, Joined(items), NextMember(es, i, 0), close)
      BY <3>2, <3>3, <3>5
    <3> QED  BY <1>7, <3>6, ConcatLeads
  <2> QED  BY <2>1, <2>2
<1> DEFINE t == <<open>> \o Joined(items)
<1> HIDE DEF t
<1>9. Leads(es, t \o <<close>>, open, NextEntry(es, i))
  BY <1>6, <1>8, ConcatLeads DEF t
<1> QED  BY <1>9 DEF SpelledSection, t, items, open, close

LEMMA EntryLeads ==
  ASSUME NEW es, IsFile(es), NEW i \in DOMAIN es
  PROVE  Leads(es, SpelledEntry(es, i), NextEntry(es, i - 1), NextEntry(es, i))
<1> DEFINE t == IF IsSection(es[i].value) THEN SpelledSection(es[i].value.section, i)
                ELSE SpelledValue(es[i].value, i, 0)
<1>1. Len(es) \in Nat /\ DOMAIN es = 1..Len(es)
  BY FileFacts
<1>2. i \in Nat \ {0} /\ i - 1 # Len(es) /\ (i - 1) + 1 = i /\ (i - 1 = 0 <=> i = 1)
  BY <1>1
<1>3. Leads(es, t, FirstOf(es, i, 0), NextEntry(es, i))
  <2>1. CASE IsSection(es[i].value)
    <3>1. Leads(es, SpelledSection(es[i].value.section, i), Mark("{", i, 0), NextEntry(es, i))
      BY <2>1, SectionLeads
    <3>2. FirstOf(es, i, 0) = Mark("{", i, 0)
      BY <2>1 DEF FirstOf
    <3> QED  BY <2>1, <3>1, <3>2
  <2>2. CASE ~IsSection(es[i].value)
    <3>1. Spelling(es[i].value).parts \in Nat \ {0} /\ es[i].value \in Values(es)
      BY <2>2, FileFacts
    <3>2. es[i].value = ValueIn(es, i, 0) /\ NextItem(es, i, 0) = NextEntry(es, i)
      BY DEF ValueIn, NextItem
    <3>3. Leads(es, SpelledValue(es[i].value, i, 0), Unit("value", 1, i, 0), NextEntry(es, i))
      BY <1>2, <3>1, <3>2, ValueLeads
    <3>4. FirstOf(es, i, 0) = Unit("value", 1, i, 0)
      BY <2>2 DEF FirstOf
    <3> QED  BY <2>2, <3>3, <3>4
  <2> QED  BY <2>1, <2>2
<1> HIDE DEF t
<1>4. Leads(es, Comma(i, i, 0) \o SpelledKey(i, 0) \o t,
            IF i = 1 THEN Unit("key", 1, i, 0) ELSE Mark(",", i, 0), NextEntry(es, i))
  BY <1>2, <1>3, ItemLeads
<1>5. (IF i = 1 THEN Unit("key", 1, i, 0) ELSE Mark(",", i, 0)) = NextEntry(es, i - 1)
  BY <1>2 DEF NextEntry
<1> QED  BY <1>4, <1>5 DEF t, SpelledEntry

\* A file's text begins with white space and ends with the only unit nothing follows.
LEMMA TextIsChained ==
  ASSUME NEW es, IsFile(es)
  PROVE  IsChained(es, Text(es))
<1> DEFINE items == [i \in DOMAIN es |-> SpelledEntry(es, i)]
           u == [i \in 0..Len(es) |-> NextEntry(es, i)]
           blank == Mark(" ", 0, 0)
           open == Mark("{", 0, 0)
           head == <<blank, open>>
           t == head \o Joined(items)
<1>1. Len(es) \in Nat /\ DOMAIN es = 1..Len(es)
  BY FileFacts
<1>2. \A i \in DOMAIN es : Leads(es, SpelledEntry(es, i), NextEntry(es, i - 1), NextEntry(es, i))
  BY EntryLeads
<1>3. /\ items \in Seq(Seq(Units)) /\ Len(items) = Len(es)
      /\ \A i \in 1..Len(es) : items[i] = SpelledEntry(es, i)
  <2>1. \A i \in DOMAIN es : SpelledEntry(es, i) \in Seq(Units)
    BY <1>2 DEF Leads
  <2> QED  BY <1>1, <2>1
<1>4. Leads(es, head, blank, NextEntry(es, 0))
  <2>1. open.ch = "{" /\ open.entry = 0 /\ blank.ch = " "
    BY DEF Mark, Unit
  <2>2. Follows(es, blank, open)
    BY <2>1 DEF Follows, open
  <2>3. Follows(es, open, NextEntry(es, 0))
    BY <2>1 DEF Follows
  <2>4. blank \in Units /\ open \in Units
    BY DEF Mark, Unit, Units, Chars
  <2>5. IsInner(es, blank) /\ IsInner(es, open)
    BY <2>1, EndFacts DEF IsInner
  <2> HIDE DEF blank, open
  <2>6. head \in Seq(Units) /\ head # <<>> /\ Len(head) = 2
    BY <2>4
  <2>7. head[1] = blank /\ head[2] = open
    OBVIOUS
  <2>8. \A c \in 1..2 : (c = 1 /\ c + 1 = 2) \/ c = 2
    OBVIOUS
  <2> HIDE DEF head
  <2> QED  BY <2>2, <2>3, <2>5, <2>6, <2>7, <2>8 DEF Leads
<1> HIDE DEF items, head, blank
<1>5. Leads(es, t, blank, End)
  <2>1. CASE Len(es) = 0
    <3>1. Joined(items) = <<>>
      BY <1>3, <2>1, JoinedNone
    <3>2. NextEntry(es, 0) = End
      BY <2>1 DEF NextEntry
    <3>3. head \in Seq(Units)
      BY <1>4 DEF Leads
    <3>4. t = head
      BY <3>1, <3>3
    <3> QED  BY <1>4, <3>2, <3>4
  <2>2. CASE Len(es) # 0
    <3>1. \A i \in 1..Len(es) : Leads(es, items[i], u[i - 1], u[i])
      <4> TAKE i \in 1..Len(es)
      <4>1. i - 1 \in 0..Len(es) /\ i \in 0..Len(es)
        BY <1>1
      <4>2. u[i - 1] = NextEntry(es, i - 1) /\ u[i] = NextEntry(es, i)
        BY <4>1
      <4> HIDE DEF u
      <4> QED  BY <1>1, <1>2, <1>3, <4>2
    <3>2. u[0] = NextEntry(es, 0) /\ u[Len(es)] = NextEntry(es, Len(es))
      BY <1>1
    <3>3. NextEntry(es, Len(es)) = End
      BY DEF NextEntry
    <3> HIDE DEF u
    <3>4. items # <<>>
      BY <1>3, <2>2
    <3>5. Leads(es, Joined(items), u[0], u[Len(es)])
      BY <1>3, <3>1, <3>4, JoinedLeads
    <3>6. Leads(es, Joined(items), NextEntry(es, 0), End)
      BY <3>2, <3>3, <3>5
    <3> QED  BY <1>4, <3>6, ConcatLeads
  <2> QED  BY <2>1, <2>2
<1> HIDE DEF t
<1>6. Text(es) = t \o <<End>>
  BY DEF Text, t, head, items, blank, End
<1> DEFINE r == t \o <<End>>
<1>7. t \in Seq(Units) /\ Len(t) \in Nat \ {0} /\ t[1] = blank /\ End \in Units
  <2>1. t \in Seq(Units) /\ t # <<>> /\ t[1] = blank
    BY <1>5 DEF Leads
  <2>2. End \in Units
    BY EndFacts
  <2> QED  BY <2>1, <2>2
<1>8. /\ r \in Seq(Units) /\ Len(r) = Len(t) + 1 /\ r # <<>> /\ r[Len(t) + 1] = End
      /\ \A c \in 1..Len(t) : r[c] = t[c]
  BY <1>7
<1> HIDE DEF r
<1>9. ASSUME NEW c \in 1..Len(r)
      PROVE  IF c = Len(r) THEN r[c] = End ELSE IsInner(es, r[c]) /\ Follows(es, r[c], r[c + 1])
  <2>1. CASE c = Len(r)
    BY <1>8, <2>1
  <2>2. CASE c = Len(t)
    <3>1. c \in 1..Len(t) /\ r[c] = t[c] /\ r[c + 1] = End /\ c # Len(r)
      BY <1>7, <1>8, <2>2
    <3> QED  BY <1>5, <2>2, <3>1 DEF Leads
  <2>3. CASE c < Len(t)
    <3>1. c \in 1..Len(t) /\ c + 1 \in 1..Len(t) /\ r[c] = t[c] /\ r[c + 1] = t[c + 1] /\ c # Len(r)
      BY <1>7, <1>8, <2>3
    <3> QED  BY <1>5, <2>3, <3>1 DEF Leads
  <2> QED  BY <1>7, <1>8, <2>1, <2>2, <2>3
<1>10. r[1] = Mark(" ", 0, 0)
  <2>1. r[1] = t[1]
    BY <1>7, <1>8
  <2> QED  BY <1>7, <2>1 DEF blank
<1>11. IsChained(es, r)
  BY <1>8, <1>9, <1>10 DEF IsChained
<1> QED  BY <1>6, <1>11 DEF r

-----------------------------------------------------------------------------
(* Moving on in the text of a file.                                        *)

LEMMA TextFacts ==
  ASSUME NEW es, IsFile(es)
  PROVE  /\ Text(es) \in Seq(Units) /\ Len(Text(es)) \in Nat \ {0}
         /\ Text(es)[1] = Mark(" ", 0, 0)
<1>1. IsChained(es, Text(es))
  BY TextIsChained
<1>2. Text(es) \in Seq(Units) /\ Text(es) # <<>>
  BY <1>1 DEF IsChained
<1>3. Text(es)[1] = Mark(" ", 0, 0)
  BY <1>1 DEF IsChained
<1>4. Len(Text(es)) \in Nat \ {0}
  BY <1>2
<1> QED  BY <1>2, <1>3, <1>4

\* Behind each unit but the end there is the one that follows it.
LEMMA NextUnit ==
  ASSUME NEW es, IsFile(es), NEW c \in 1..Len(Text(es)), Text(es)[c] # End
  PROVE  /\ c + 1 \in 1..Len(Text(es))
         /\ Follows(es, Text(es)[c], Text(es)[c + 1])
<1> DEFINE t == Text(es)
<1>1. IsChained(es, t)
  BY TextIsChained
<1>2. Len(t) \in Nat \ {0}
  BY TextFacts
<1> HIDE DEF t
<1>3. t[c] # End /\ c \in 1..Len(t)
  BY DEF t
<1>4. c # Len(t)
  BY <1>1, <1>3 DEF IsChained
<1>5. c + 1 \in 1..Len(t)
  BY <1>2, <1>3, <1>4
<1>6. Follows(es, t[c], t[c + 1])
  BY <1>1, <1>3, <1>4 DEF IsChained
<1> QED  BY <1>5, <1>6 DEF t

LEMMA EndIsLast ==
  ASSUME NEW es, IsFile(es), NEW c \in 1..Len(Text(es)), Text(es)[c] = End
  PROVE  c = Len(Text(es))
<1>1. IsChained(es, Text(es))
  BY TextIsChained
<1> QED  BY <1>1 DEF IsChained, IsInner

\* A value's unit is part of a value of the file.
LEMMA ValueUnit ==
  ASSUME NEW es, IsFile(es), NEW c \in 1..Len(Text(es)), Text(es)[c].ch = "value"
  PROVE  ValueIn(es, Text(es)[c].entry, Text(es)[c].member) \in Values(es)
<1>1. IsChained(es, Text(es))
  BY TextIsChained
<1>2. Text(es)[c] # End
  BY EndFacts
<1> QED  BY <1>1, <1>2 DEF IsChained, IsInner

\* The units of a key, and the colon behind them
LEMMA WholeKey ==
  ASSUME NEW es, IsFile(es), NEW c \in 1..Len(Text(es)), NEW i, NEW j,
         Text(es)[c] = Unit("key", 1, i, j)
  PROVE  c + 2 \in 1..Len(Text(es)) /\ Text(es)[c + 2] = Mark(":", i, j)
<1> DEFINE t == Text(es)
<1>1. \A p : Unit("key", p, i, j) # End
  <2>1. \A p : Unit("key", p, i, j).ch = "key"
    BY DEF Unit
  <2> QED  BY <2>1, EndFacts
<1>2. c + 1 \in 1..Len(t) /\ Follows(es, t[c], t[c + 1])
  BY <1>1, NextUnit
<1>3. t[c + 1] = Unit("key", 2, i, j)
  <2>1. t[c].ch = "key" /\ t[c].part = 1 /\ t[c].entry = i /\ t[c].member = j
    BY DEF Unit
  <2> HIDE DEF t
  <2> QED  BY <1>2, <2>1 DEF Follows, KeyParts
<1>4. (c + 1) + 1 \in 1..Len(t) /\ Follows(es, t[c + 1], t[(c + 1) + 1])
  BY <1>1, <1>2, <1>3, NextUnit
<1>5. t[(c + 1) + 1] = Mark(":", i, j)
  <2>1. /\ t[c + 1].ch = "key" /\ t[c + 1].part = 2
        /\ t[c + 1].entry = i /\ t[c + 1].member = j
    BY <1>3 DEF Unit
  <2> HIDE DEF t
  <2> QED  BY <1>4, <2>1 DEF Follows, KeyParts
<1>6. (c + 1) + 1 = c + 2
  BY <1>2
<1> QED  BY <1>4, <1>5, <1>6

\* The units of a value, and what is behind them
LEMMA WholeValue ==
  ASSUME NEW es, IsFile(es), NEW c \in 1..Len(Text(es)), NEW i, NEW j, NEW n \in Nat \ {0},
         Text(es)[c] = Unit("value", 1, i, j), n = Spelling(ValueIn(es, i, j)).parts
  PROVE  /\ c + n \in 1..Len(Text(es)) /\ Text(es)[c + n] = NextItem(es, i, j)
         /\ n > 1 => Text(es)[c + 1] = Unit("value", 2, i, j)
<1> DEFINE t == Text(es)
           S == {k \in 0..(n - 1) : c + k \in 1..Len(t) /\ t[c + k] = Unit("value", k + 1, i, j)}
<1>1. \A p : Unit("value", p, i, j) # End
  <2>1. \A p : Unit("value", p, i, j).ch = "value"
    BY DEF Unit
  <2> QED  BY <2>1, EndFacts
<1>2. 0 \in S
  <2>1. c + 0 = c /\ 0 + 1 = 1
    OBVIOUS
  <2> QED  BY <2>1
<1>3. ASSUME NEW k \in 0..(n - 1), k \in S
      PROVE  /\ c + (k + 1) \in 1..Len(t)
             /\ t[c + (k + 1)] = IF k + 1 < n THEN Unit("value", (k + 1) + 1, i, j) ELSE NextItem(es, i, j)
  <2>1. c + k \in 1..Len(t) /\ t[c + k] = Unit("value", k + 1, i, j)
    BY <1>3
  <2>2. (c + k) + 1 \in 1..Len(t) /\ Follows(es, t[c + k], t[(c + k) + 1])
    BY <1>1, <2>1, NextUnit
  <2>3. (c + k) + 1 = c + (k + 1)
    OBVIOUS
  <2>4. t[(c + k) + 1] = IF k + 1 < n THEN Unit("value", (k + 1) + 1, i, j) ELSE NextItem(es, i, j)
    <3>1. /\ t[c + k].ch = "value" /\ t[c + k].part = k + 1
          /\ t[c + k].entry = i /\ t[c + k].member = j
      BY <2>1 DEF Unit
    <3> HIDE DEF t
    <3> QED  BY <2>2, <3>1 DEF Follows
  <2> QED  BY <2>2, <2>3, <2>4
<1>4. 0..(n - 1) \subseteq S
  <2>1. \A k \in 1..(n - 1) : k - 1 \in S => k \in S
    <3> TAKE k \in 1..(n - 1)
    <3> HAVE k - 1 \in S
    <3>1. k - 1 \in 0..(n - 1) /\ (k - 1) + 1 = k /\ k < n
      OBVIOUS
    <3> HIDE DEF t
    <3>2. c + k \in 1..Len(t) /\ t[c + k] = Unit("value", k + 1, i, j)
      BY <1>3, <3>1
    <3> QED  BY <3>1, <3>2
  <2> HIDE DEF S
  <2>2. n - 1 \in Nat
    OBVIOUS
  <2> QED  BY <1>2, <2>1, <2>2, UpTo
<1>5. c + n \in 1..Len(t) /\ t[c + n] = NextItem(es, i, j)
  <2>1. n - 1 \in 0..(n - 1) /\ (n - 1) + 1 = n /\ ~(n < n)
    OBVIOUS
  <2>2. n - 1 \in S
    BY <1>4, <2>1
  <2> HIDE DEF S
  <2> QED  BY <1>3, <2>1, <2>2
<1>6. ASSUME n > 1
      PROVE  t[c + 1] = Unit("value", 2, i, j)
  <2>1. 1 \in 0..(n - 1) /\ 1 + 1 = 2
    BY <1>6
  <2>2. 1 \in S
    BY <1>4, <2>1
  <2> QED  BY <2>1, <2>2
<1> QED  BY <1>5, <1>6

-----------------------------------------------------------------------------
(* The next thing in the buffer.                                           *)

\* A file is open and its reader is reading.
IsReading == awaits \in Reading /\ ReaderInv

LEMMA WindowFacts ==
  ASSUME IsReading
  PROVE  /\ IsFile(entries) /\ IsWindow
         /\ Len(buf) \in Nat /\ pos \in 1..(Len(buf) + 1) /\ Dropped \in Nat
         /\ unread \in Nat /\ Len(text) \in Nat /\ Dropped + Len(buf) = unread - 1
<1>1. awaits # "nothing"
  BY DEF IsReading, Reading
<1>2. IsFile(entries) /\ IsWindow
  BY <1>1 DEF IsReading, ReaderInv
<1>3. /\ unread \in 1..(Len(text) + 1) /\ Len(buf) \in 0..(unread - 1) /\ pos \in 1..(Len(buf) + 1)
      /\ Len(text) \in 0..Len(Text(entries)) /\ Len(Text(entries)) \in Nat
  BY <1>2, TextFacts DEF IsWindow
<1> QED  BY <1>2, <1>3 DEF Dropped

LEMMA UnitChars ==
  \A i, j : /\ Unit("key", 1, i, j).ch = "key" /\ Unit("value", 1, i, j).ch = "value"
            /\ Mark("}", i, j).ch = "}" /\ Mark("{", i, j).ch = "{"
            /\ Mark(":", i, j).ch = ":" /\ Mark(",", i, j).ch = ","
            /\ FirstOf(entries, i, j).ch \in {"{", "value"}
BY DEF Mark, Unit, FirstOf

LEMMA SkippedTokens ==
  ASSUME awaits \in Reading
  PROVE  Skipped(awaits) \subseteq {" ", ",", ":"}
BY DEF Reading, Skipped

\* The reader skips one unit at most: behind one it skips is one it does not, which is in its place.
LEMMA SkipOne ==
  ASSUME awaits \in Reading, IsFile(entries), NEW c \in 1..Len(Text(entries)),
         IsPlace(Text(entries)[c]), ~AtLoss, Text(entries)[c].ch \in Skipped(awaits)
  PROVE  /\ c + 1 \in 1..Len(Text(entries)) /\ IsPlace(Text(entries)[c + 1])
         /\ Text(entries)[c + 1].ch \notin Skipped(awaits)
<1> DEFINE u == Text(entries)[c]
           v == Text(entries)[c + 1]
<1>0. Len(entries) \in Nat /\ DOMAIN entries = 1..Len(entries)
  BY FileFacts
<1>1. u.ch \in {" ", ",", ":"}
  BY SkippedTokens
<1>2. c + 1 \in 1..Len(Text(entries)) /\ Follows(entries, u, v)
  <2>1. u # End
    BY <1>1, EndFacts
  <2> QED  BY <2>1, NextUnit
<1> HIDE DEF u, v
<1>3. IsPlace(u) /\ u.ch \in Skipped(awaits)
  BY DEF u
<1>10. \A k, l : u # Unit("key", 1, k, l) /\ u # Unit("value", 1, k, l) /\ u # Mark("}", k, l)
  <2> TAKE k, l
  <2>1. Unit("key", 1, k, l).ch = "key" /\ Unit("value", 1, k, l).ch = "value" /\ Mark("}", k, l).ch = "}"
    BY UnitChars
  <2> QED  BY <1>1, <2>1
<1>4. CASE AtStart(u)
  <2>1. awaits = "start" /\ ReadEntries(0)
    BY <1>4 DEF AtStart
  <2>2. v = Mark("{", 0, 0)
    <3>1. u.ch = " "
      BY <1>3, <2>1 DEF Skipped
    <3> QED  BY <1>2, <3>1 DEF Follows
  <2>3. v.ch = "{"
    BY <2>2 DEF Mark, Unit
  <2>4. AtStart(v)
    BY <2>1, <2>2 DEF AtStart
  <2> QED  BY <1>2, <2>1, <2>3, <2>4 DEF IsPlace, Skipped, v
<1>5. CASE AtTop(u)
  <2>1. PICK i \in 0..Len(entries) :
          /\ ReadEntries(i)
          /\ \/ u = NextEntry(entries, i)
             \/ i < Len(entries) /\ u = Unit("key", 1, i + 1, 0)
    BY <1>5 DEF AtTop
  <2>2. i < Len(entries) /\ u = Mark(",", i + 1, 0)
    <3>1. (\A k, l : u # Unit("key", 1, k, l)) /\ u # End
      BY <1>10 DEF End
    <3>2. u = NextEntry(entries, i)
      BY <2>1, <3>1
    <3>3. i # Len(entries) /\ i # 0
      BY <3>1, <3>2 DEF NextEntry
    <3>4. u = Mark(",", i + 1, 0)
      BY <3>2, <3>3 DEF NextEntry
    <3>5. Len(entries) \in Nat
      BY <1>0
    <3>6. i < Len(entries)
      BY <3>3, <3>5
    <3> QED  BY <3>4, <3>6
  <2>3. v = Unit("key", 1, i + 1, 0)
    <3>1. u.ch = "," /\ u.entry = i + 1 /\ u.member = 0
      BY <2>2 DEF Mark, Unit
    <3> QED  BY <1>2, <3>1 DEF Follows
  <2>4. v.ch = "key"
    BY <2>3 DEF Unit
  <2>5. AtTop(v)
    BY <1>5, <2>1, <2>2, <2>3 DEF AtTop
  <2> QED  BY <1>2, <2>4, <2>5, SkippedTokens DEF IsPlace, v
<1>6. CASE AtEntry(u)
  <2>1. PICK i \in DOMAIN entries :
          /\ ReadEntries(i - 1)
          /\ \/ awaits = "key" /\ u = Unit("key", 1, i, 0)
             \/ /\ key = entries[i].key
                /\ \/ awaits = "colon" /\ u = Mark(":", i, 0)
                   \/ u = FirstOf(entries, i, 0)
    BY <1>6 DEF AtEntry
  <2>2. awaits = "colon" /\ u = Mark(":", i, 0) /\ key = entries[i].key
    <3>1. u # Unit("key", 1, i, 0)
      BY <1>10
    <3>2. FirstOf(entries, i, 0).ch \in {"{", "value"}
      BY UnitChars
    <3>3. u # FirstOf(entries, i, 0)
      BY <1>1, <3>2
    <3> QED  BY <2>1, <3>1, <3>3
  <2>3. v = FirstOf(entries, i, 0)
    <3>1. u.ch = ":" /\ u.entry = i /\ u.member = 0
      BY <2>2 DEF Mark, Unit
    <3> QED  BY <1>2, <3>1 DEF Follows
  <2>4. v.ch \notin {" ", ",", ":"}
    BY <2>3 DEF FirstOf, Mark, Unit
  <2>5. AtEntry(v)
    BY <2>1, <2>2, <2>3 DEF AtEntry
  <2> QED  BY <1>2, <2>4, <2>5, SkippedTokens DEF IsPlace, v
<1>7. CASE AtMembers(u)
  <2>0. PICK i \in Sections : \E j \in 0..Len(entries[i].value.section) :
          /\ ReadMembers(i, j)
          /\ \/ u = NextMember(entries, i, j)
             \/ j < Len(entries[i].value.section) /\ u = Unit("key", 1, i, j + 1)
    BY <1>7 DEF AtMembers
  <2>1. PICK j \in 0..Len(entries[i].value.section) :
          /\ ReadMembers(i, j)
          /\ \/ u = NextMember(entries, i, j)
             \/ j < Len(entries[i].value.section) /\ u = Unit("key", 1, i, j + 1)
    BY <2>0
  <2>2. Len(entries[i].value.section) \in Nat
    BY FileFacts DEF Sections
  <2>3. j < Len(entries[i].value.section) /\ u = Mark(",", i, j + 1)
    <3>1. (\A k, l : u # Unit("key", 1, k, l)) /\ u # Mark("}", i, 0)
      BY <1>10
    <3>2. u = NextMember(entries, i, j)
      BY <2>1, <3>1
    <3>3. j # Len(entries[i].value.section) /\ j # 0
      BY <3>1, <3>2 DEF NextMember
    <3>4. u = Mark(",", i, j + 1)
      BY <3>2, <3>3 DEF NextMember
    <3>5. j < Len(entries[i].value.section)
      BY <2>2, <3>3
    <3> QED  BY <3>4, <3>5
  <2>4. v = Unit("key", 1, i, j + 1)
    <3>1. u.ch = "," /\ u.entry = i /\ u.member = j + 1
      BY <2>3 DEF Mark, Unit
    <3> QED  BY <1>2, <3>1 DEF Follows
  <2>5. v.ch = "key"
    BY <2>4 DEF Unit
  <2>6. AtMembers(v)
    BY <1>7, <2>1, <2>3, <2>4 DEF AtMembers
  <2> QED  BY <1>2, <2>5, <2>6, SkippedTokens DEF IsPlace, v
<1>8. CASE AtMember(u)
  <2>0. PICK i \in Sections : \E j \in 1..Len(entries[i].value.section) :
          /\ ReadMembers(i, j - 1)
          /\ \/ awaits = "id" /\ u = Unit("key", 1, i, j)
             \/ /\ id = entries[i].value.section[j].key
                /\ \/ awaits = "idColon" /\ u = Mark(":", i, j)
                   \/ u = Unit("value", 1, i, j)
    BY <1>8 DEF AtMember
  <2>1. PICK j \in 1..Len(entries[i].value.section) :
          /\ ReadMembers(i, j - 1)
          /\ \/ awaits = "id" /\ u = Unit("key", 1, i, j)
             \/ /\ id = entries[i].value.section[j].key
                /\ \/ awaits = "idColon" /\ u = Mark(":", i, j)
                   \/ u = Unit("value", 1, i, j)
    BY <2>0
  <2>2. /\ awaits = "idColon" /\ u = Mark(":", i, j) /\ j # 0
        /\ id = entries[i].value.section[j].key
    <3>1. u # Unit("key", 1, i, j) /\ u # Unit("value", 1, i, j)
      BY <1>10
    <3>2. j # 0
      OBVIOUS
    <3> QED  BY <2>1, <3>1, <3>2
  <2>3. v = Unit("value", 1, i, j)
    <3>1. u.ch = ":" /\ u.entry = i /\ u.member = j
      BY <2>2 DEF Mark, Unit
    <3> QED  BY <1>2, <2>2, <3>1 DEF Follows, FirstOf
  <2>4. v.ch = "value"
    BY <2>3 DEF Unit
  <2>5. AtMember(v)
    BY <2>1, <2>2, <2>3 DEF AtMember
  <2> QED  BY <1>2, <2>4, <2>5, SkippedTokens DEF IsPlace, v
<1>9. ~AtRest(u)
  BY <1>1 DEF AtRest
<1> QED  BY <1>3, <1>4, <1>5, <1>6, <1>7, <1>8, <1>9 DEF IsPlace

LEMMA HereIs ==
  ASSUME NEW p \in pos..Len(buf), pos \in Nat, Len(buf) \in Nat,
         StopsAt(p), \A q \in pos..(p - 1) : ~StopsAt(q)
  PROVE  Here = p
<1> DEFINE IsHere(q) == q \in pos..Len(buf) /\ StopsAt(q) /\ \A r \in pos..(q - 1) : ~StopsAt(r)
<1>1. Here = CHOOSE q \in pos..Len(buf) : StopsAt(q) /\ \A r \in pos..(q - 1) : ~StopsAt(r)
  BY DEF Here
<1>2. \A q : IsHere(q) => q = p
  OBVIOUS
<1> QED  BY <1>1, <1>2

LEMMA HereIsOut ==
  ASSUME \A p \in pos..Len(buf) : ~StopsAt(p)
  PROVE  Here = Len(buf) + 1
BY DEF Here

\* What the reader comes to is in its place, and none of the tokens it skips.
IsAtHere ==
  /\ Here \in pos..(Len(buf) + 1)
  /\ Dropped + Here \in 1..Len(Text(entries))
  /\ IsPlace(Text(entries)[Dropped + Here])
  /\ ~Out => buf[Here] = Text(entries)[Dropped + Here] /\ buf[Here].ch \notin Skipped(awaits)

LEMMA ReaderIsAtHere ==
  ASSUME IsReading
  PROVE  IsAtHere
<1> DEFINE t == Text(entries)
           c == Dropped + pos
<1>1. /\ IsFile(entries) /\ Len(buf) \in Nat /\ pos \in 1..(Len(buf) + 1) /\ Dropped \in Nat
      /\ \A p \in 1..Len(buf) : buf[p] = t[Dropped + p]
  BY WindowFacts DEF IsWindow
<1>2. c \in 1..Len(t) /\ IsPlace(t[c]) /\ awaits \in Reading
  <2>1. c <= Len(t) /\ IsPlace(t[c]) /\ awaits \in Reading
    BY DEF IsReading, ReaderInv
  <2>2. Len(t) \in Nat
    BY <1>1, TextFacts
  <2> HIDE DEF t
  <2> QED  BY <1>1, <2>1, <2>2
<1> HIDE DEF t
<1>3. CASE pos = Len(buf) + 1
  <2>1. Here = pos /\ Here = Len(buf) + 1
    BY <1>1, <1>3, HereIsOut
  <2> QED  BY <1>1, <1>2, <2>1 DEF IsAtHere, Out, t
<1>4. CASE pos <= Len(buf) /\ StopsAt(pos)
  <2>1. Here = pos
    <3>1. pos \in pos..Len(buf) /\ \A q \in pos..(pos - 1) : ~StopsAt(q)
      BY <1>1, <1>4
    <3> QED  BY <1>1, <1>4, <3>1, HereIs
  <2>2. buf[pos] = t[c]
    BY <1>1, <1>4
  <2>3. buf[pos].ch \notin Skipped(awaits)
    BY <1>4 DEF StopsAt
  <2> QED  BY <1>1, <1>2, <1>4, <2>1, <2>2, <2>3 DEF IsAtHere, t
<1>5. CASE pos <= Len(buf) /\ ~StopsAt(pos)
  <2>1. buf[pos] = t[c] /\ t[c].ch \in Skipped(awaits) /\ ~AtLoss
    BY <1>1, <1>5 DEF StopsAt, AtLoss
  <2>2. c + 1 \in 1..Len(t) /\ IsPlace(t[c + 1]) /\ t[c + 1].ch \notin Skipped(awaits)
    BY <1>1, <1>2, <2>1, SkipOne DEF t
  <2>3. Here = pos + 1
    <3>1. CASE pos + 1 <= Len(buf)
      <4>1. buf[pos + 1] = t[c + 1]
        <5>1. pos + 1 \in 1..Len(buf) /\ Dropped + (pos + 1) = c + 1
          BY <1>1, <3>1
        <5> QED  BY <1>1, <5>1
      <4>2. StopsAt(pos + 1)
        BY <2>2, <4>1 DEF StopsAt
      <4>3. pos + 1 \in pos..Len(buf) /\ \A q \in pos..((pos + 1) - 1) : ~StopsAt(q)
        BY <1>1, <1>5, <3>1
      <4> QED  BY <1>1, <4>2, <4>3, HereIs
    <3>2. CASE pos = Len(buf)
      <4>1. \A q \in pos..Len(buf) : ~StopsAt(q)
        BY <1>1, <1>5, <3>2
      <4> QED  BY <3>2, <4>1, HereIsOut
    <3> QED  BY <1>1, <1>5, <3>1, <3>2
  <2>4. Dropped + Here = c + 1 /\ Here \in pos..(Len(buf) + 1)
    BY <1>1, <1>5, <2>3
  <2>5. ~Out => buf[Here] = t[c + 1]
    BY <1>1, <2>3, <2>4 DEF Out
  <2> QED  BY <2>2, <2>4, <2>5 DEF IsAtHere, t
<1> QED  BY <1>1, <1>3, <1>4, <1>5

-----------------------------------------------------------------------------
(* Moving the buffer over the text.                                        *)

\* Where nothing is unread, a text that goes on behind the buffer has lost its end.
LEMMA TextIsShort ==
  ASSUME IsReading, AtEOF, NEW c \in 1..Len(Text(entries)), c > Dropped + Len(buf)
  PROVE  Len(text) < Len(Text(entries))
<1>1. unread = Len(text) + 1 /\ Dropped + Len(buf) = unread - 1 /\ unread \in Nat /\ Len(text) \in Nat
  <2>1. /\ IsWindow /\ unread \in Nat /\ Len(text) \in Nat
        /\ Dropped + Len(buf) = unread - 1
    BY WindowFacts
  <2>2. unread \in 1..(Len(text) + 1) /\ unread > Len(text)
    BY <2>1 DEF IsWindow, AtEOF
  <2> QED  BY <2>1, <2>2
<1>2. Len(Text(entries)) \in Nat
  BY WindowFacts, TextFacts
<1>3. Len(text) = Dropped + Len(buf)
  BY <1>1
<1> HIDE DEF Dropped
<1> QED  BY <1>1, <1>2, <1>3

\* The buffer is a window that begins n units further on, and the reader in it.
IsMoved(p) ==
  /\ IsWindow' /\ (Dropped + pos)' = Dropped + p
  /\ p = Len(buf) + 1 => pos' = Len(buf') + 1
  /\ Len(buf') \in 0..Len(buf)

LEMMA GoToMoves ==
  ASSUME IsReading, NEW thing, NEW p \in 1..(Len(buf) + 1), GoTo(thing, p), UNCHANGED <<source, unread>>
  PROVE  IsMoved(p)
<1> DEFINE t == Text(entries)
           d == Dropped
<1>1. /\ Len(buf) \in Nat /\ d \in Nat /\ unread \in Nat /\ d + Len(buf) = unread - 1
      /\ IsWindow
  BY WindowFacts
<1>2. buf \in Seq(Units) /\ \A q \in 1..Len(buf) : buf[q] = t[d + q]
  BY <1>1 DEF IsWindow
<1>3. entries' = entries /\ text' = text /\ unread' = unread
  BY DEF source
<1>4. CASE buf' = buf /\ pos' = p
  <2>1. Dropped' = Dropped
    BY <1>3, <1>4 DEF Dropped
  <2>2. IsWindow'
    BY <1>1, <1>3, <1>4, <2>1 DEF IsWindow
  <2> QED  BY <1>1, <1>4, <2>1, <2>2 DEF IsMoved
<1>5. CASE buf' = SubSeq(buf, p, Len(buf)) /\ pos' = 1
  <2>1. /\ buf' \in Seq(Units) /\ Len(buf') = Len(buf) - p + 1
        /\ \A q \in 1..Len(buf') : buf'[q] = buf[p + q - 1]
    BY <1>1, <1>2, <1>5
  <2>2. Dropped' = d + p - 1
    <3>1. Dropped' = unread - 1 - (Len(buf) - p + 1)
      BY <1>3, <2>1 DEF Dropped
    <3> QED  BY <1>1, <3>1
  <2>3. \A q \in 1..Len(buf') : buf'[q] = t[Dropped' + q]
    <3> TAKE q \in 1..Len(buf')
    <3> HIDE DEF d, t
    <3>1. p + q - 1 \in 1..Len(buf) /\ d + (p + q - 1) = Dropped' + q
      BY <1>1, <2>1, <2>2
    <3> QED  BY <1>2, <2>1, <3>1
  <2>4. Len(buf') \in 0..Len(buf) /\ Len(buf') \in 0..(unread - 1) /\ pos' \in 1..(Len(buf') + 1)
    BY <1>1, <1>5, <2>1
  <2>5. IsWindow'
    BY <1>1, <1>3, <2>1, <2>3, <2>4 DEF IsWindow
  <2>6. (Dropped + pos)' = Dropped + p
    BY <1>1, <1>5, <2>2
  <2>7. p = Len(buf) + 1 => pos' = Len(buf') + 1
    BY <1>1, <1>5, <2>1
  <2> QED  BY <2>4, <2>5, <2>6, <2>7 DEF IsMoved
<1> QED  BY <1>4, <1>5 DEF GoTo

LEMMA ConcatFacts ==
  ASSUME NEW s \in Seq(Units), NEW t \in Seq(Units), NEW m, m = Len(s), NEW n, n = Len(t)
  PROVE  /\ s \o t \in Seq(Units) /\ Len(s \o t) = m + n
         /\ \A q \in 1..m : (s \o t)[q] = s[q]
         /\ \A q \in 1..n : (s \o t)[m + q] = t[q]
OBVIOUS

LEMMA ReadMoves ==
  ASSUME IsReading, NEW n \in 1..ChunkSize, Read(n)
  PROVE  /\ IsWindow' /\ (Dropped + pos)' = Dropped + Here
         /\ Len(buf') = Len(buf) - Here + 1 + n
<1> DEFINE t == Text(entries)
           d == Dropped
           h == Here
           chunk == SubSeq(text, unread, unread + n - 1)
<1>1. /\ Len(buf) \in Nat /\ d \in Nat /\ unread \in Nat /\ d + Len(buf) = unread - 1
      /\ Len(text) \in Nat /\ IsWindow /\ IsFile(entries) /\ pos \in 1..(Len(buf) + 1)
  BY WindowFacts
<1>2. /\ buf \in Seq(Units) /\ \A q \in 1..Len(buf) : buf[q] = t[d + q]
      /\ Len(text) \in 0..Len(t) /\ unread \in 1..(Len(text) + 1) /\ text = SubSeq(t, 1, Len(text))
  BY <1>1 DEF IsWindow
<1>3. /\ entries' = entries /\ text' = text /\ unread' = unread + n /\ pos' = 1
      /\ buf' = SubSeq(buf, h, Len(buf)) \o chunk /\ n <= Len(text) - unread + 1
  BY DEF Read, Refilled, source
<1>4. h \in 1..(Len(buf) + 1)
  BY <1>1, ReaderIsAtHere DEF IsAtHere
<1>5. t \in Seq(Units) /\ Len(t) \in Nat
  BY <1>1, TextFacts
<1> HIDE DEF t, h, d
<1>6. text \in Seq(Units) /\ \A q \in 1..Len(text) : text[q] = t[q]
  <2>1. SubSeq(t, 1, Len(text)) \in Seq(Units) /\ \A q \in 1..Len(text) : SubSeq(t, 1, Len(text))[q] = t[q]
    BY <1>1, <1>2, <1>5
  <2> QED  BY <1>2, <2>1
<1>7. n \in Nat \ {0}
  BY ChunkAssumption
<1>8. chunk \in Seq(Units) /\ Len(chunk) = n /\ \A q \in 1..n : chunk[q] = t[unread + q - 1]
  <2>1. /\ chunk \in Seq(Units) /\ Len(chunk) = n
        /\ \A q \in 1..n : chunk[q] = text[unread + q - 1]
    BY <1>1, <1>2, <1>3, <1>6, <1>7
  <2>2. \A q \in 1..n : unread + q - 1 \in 1..Len(text)
    BY <1>1, <1>2, <1>3, <1>7
  <2> QED  BY <1>6, <2>1, <2>2
<1> DEFINE rest == SubSeq(buf, h, Len(buf))
           m == Len(buf) - h + 1
<1>9. rest \in Seq(Units) /\ Len(rest) = m /\ \A q \in 1..m : rest[q] = buf[h + q - 1]
  BY <1>1, <1>2, <1>4
<1>10. m \in Nat
  BY <1>1, <1>4
<1> HIDE DEF chunk, rest
<1>11. /\ buf' \in Seq(Units) /\ Len(buf') = m + n
       /\ \A q \in 1..m : buf'[q] = rest[q]
       /\ \A q \in 1..n : buf'[m + q] = chunk[q]
  <2>1. buf' = rest \o chunk
    BY <1>3 DEF rest
  <2> HIDE DEF m
  <2>2. PICK r, k : r = rest /\ k = chunk
    OBVIOUS
  <2>3. r \in Seq(Units) /\ k \in Seq(Units) /\ m = Len(r) /\ n = Len(k)
    BY <1>8, <1>9, <2>2
  <2>4. /\ r \o k \in Seq(Units) /\ Len(r \o k) = Len(r) + Len(k)
        /\ \A q \in 1..Len(r) : (r \o k)[q] = r[q]
        /\ \A q \in 1..Len(k) : (r \o k)[Len(r) + q] = k[q]
    <3>1. r \in Seq(Units) /\ k \in Seq(Units)
      BY <2>3
    <3> QED  BY <3>1, ConcatFacts
  <2> QED  BY <2>1, <2>2, <2>3, <2>4
<1>12. Dropped' = d + h - 1
  <2>1. Dropped' = unread + n - 1 - (m + n)
    <3> HIDE DEF m
    <3>1. unread' = unread + n /\ Len(buf') = m + n
      BY <1>3, <1>11
    <3> QED  BY <1>1, <1>7, <1>10, <3>1 DEF Dropped
  <2> QED  BY <1>1, <1>4, <1>7, <2>1
<1>13. \A q \in 1..Len(buf') : buf'[q] = t[Dropped' + q]
  <2> TAKE q \in 1..Len(buf')
  <2>1. CASE q <= m
    <3>1. q \in 1..m /\ h + q - 1 \in 1..Len(buf) /\ d + (h + q - 1) = Dropped' + q
      BY <1>1, <1>4, <1>10, <1>11, <1>12, <2>1
    <3> HIDE DEF m
    <3>2. buf'[q] = buf[h + q - 1]
      BY <1>9, <1>11, <3>1
    <3> QED  BY <1>2, <3>1, <3>2
  <2>2. CASE q > m
    <3>1. q - m \in 1..n /\ q = m + (q - m) /\ unread + (q - m) - 1 = Dropped' + q
      <4>1. q \in 1..(m + n)
        BY <1>11
      <4>2. q - m \in 1..n /\ q = m + (q - m)
        BY <1>7, <1>10, <2>2, <4>1
      <4>3. Dropped' = d + h - 1 /\ m = Len(buf) - h + 1
        BY <1>12
      <4>4. unread + (q - m) - 1 = Dropped' + q
        BY <1>1, <1>4, <4>1, <4>3
      <4> QED  BY <4>2, <4>4
    <3> HIDE DEF m
    <3>2. buf'[q] = chunk[q - m]
      BY <1>11, <3>1
    <3> QED  BY <1>8, <3>1, <3>2
  <2> QED  BY <1>10, <1>7, <1>11, <2>1, <2>2
<1>14. /\ unread' \in 1..(Len(text') + 1) /\ Len(buf') \in 0..(unread' - 1)
       /\ pos' \in 1..(Len(buf') + 1)
  <2>1. Len(buf') = m + n /\ Len(buf') \in Nat
    <3> HIDE DEF m
    <3> QED  BY <1>7, <1>10, <1>11
  <2>2. Len(text') = Len(text) /\ unread' = unread + n /\ pos' = 1 /\ n <= Len(text) - unread + 1
    BY <1>3
  <2>3. m <= Len(buf) /\ Len(buf) <= unread - 1
    BY <1>1, <1>4
  <2> HIDE DEF m
  <2> QED  BY <1>1, <1>7, <1>10, <2>1, <2>2, <2>3
<1>15. IsWindow'
  BY <1>2, <1>3, <1>11, <1>13, <1>14 DEF IsWindow, t
<1>16. (Dropped + pos)' = Dropped + Here
  BY <1>1, <1>3, <1>4, <1>12 DEF d, h
<1> QED  BY <1>11, <1>15, <1>16 DEF h

-----------------------------------------------------------------------------
(* What json.loads makes of one entry more.                                *)

LEMMA LastUnderIs ==
  ASSUME NEW es, NEW i \in Nat, NEW k, NEW p \in 1..i,
         es[p].key = k, \A q \in (p + 1)..i : es[q].key # k
  PROVE  LastUnder(es, i, k) = p
<1> DEFINE IsLast(r) == r \in 1..i /\ es[r].key = k /\ \A q \in (r + 1)..i : es[q].key # k
<1>1. LastUnder(es, i, k) = CHOOSE r \in 1..i : es[r].key = k /\ \A q \in (r + 1)..i : es[q].key # k
  BY DEF LastUnder
<1>2. \A r : IsLast(r) => r = p
  OBVIOUS
<1> QED  BY <1>1, <1>2

LEMMA LastUnderSame ==
  ASSUME NEW es, NEW i \in Nat \ {0}, NEW k, k # es[i].key, \E p \in 1..(i - 1) : es[p].key = k
  PROVE  LastUnder(es, i, k) = LastUnder(es, i - 1, k)
<1> DEFINE S == {p \in 1..(i - 1) : es[p].key = k}
<1>1. \E p \in S : \A q \in S : q <= p
  <2>1. S \subseteq 1..(i - 1) /\ S # {} /\ i - 1 \in Nat
    OBVIOUS
  <2> HIDE DEF S
  <2> QED  BY <2>1, GreatestExists
<1>2. PICK p \in S : \A q \in S : q <= p
  BY <1>1
<1>3. p \in 1..(i - 1) /\ es[p].key = k /\ \A q \in (p + 1)..(i - 1) : es[q].key # k
  <2>1. p \in 1..(i - 1) /\ es[p].key = k
    OBVIOUS
  <2>2. \A q \in (p + 1)..(i - 1) : q \in 1..(i - 1) /\ ~(q <= p)
    OBVIOUS
  <2> QED  BY <1>2, <2>1, <2>2
<1> HIDE DEF S
<1>4. p \in 1..i /\ \A q \in (p + 1)..i : es[q].key # k
  <2>1. \A q \in (p + 1)..i : q \in (p + 1)..(i - 1) \/ q = i
    OBVIOUS
  <2> QED  BY <1>3, <2>1
<1>5. LastUnder(es, i, k) = p
  BY <1>3, <1>4, LastUnderIs
<1>6. LastUnder(es, i - 1, k) = p
  <2>1. i - 1 \in Nat
    OBVIOUS
  <2> QED  BY <1>3, <2>1, LastUnderIs
<1> QED  BY <1>5, <1>6

LEMMA LastUnderNew ==
  ASSUME NEW es, NEW i \in Nat \ {0}
  PROVE  LastUnder(es, i, es[i].key) = i
<1>1. i \in 1..i /\ \A q \in (i + 1)..i : es[q].key # es[i].key
  OBVIOUS
<1> QED  BY <1>1, LastUnderIs

\* An entry beside the nodes is filed under its key; the nodes are no part of meta.
LEMMA MetaStep ==
  ASSUME NEW es, NEW i \in Nat \ {0}
  PROVE  MetaOf(es, i) =
           IF es[i].key = "nodes" THEN MetaOf(es, i - 1)
           ELSE [x \in DOMAIN MetaOf(es, i - 1) \cup {es[i].key} |->
                   IF x = es[i].key THEN es[i].value ELSE MetaOf(es, i - 1)[x]]
<1> DEFINE k == es[i].key
           D(n) == {es[p].key : p \in 1..n} \ {"nodes"}
           m == MetaOf(es, i - 1)
<1>1. D(i) = IF k = "nodes" THEN D(i - 1) ELSE D(i - 1) \cup {k}
  <2>1. {es[p].key : p \in 1..i} = {es[p].key : p \in 1..(i - 1)} \cup {k}
    <3>1. \A p : p \in 1..i <=> p \in 1..(i - 1) \/ p = i
      OBVIOUS
    <3> QED  BY <3>1
  <2> QED  BY <2>1
<1>2. /\ MetaOf(es, i) = [x \in D(i) |-> es[LastUnder(es, i, x)].value]
      /\ m = [x \in D(i - 1) |-> es[LastUnder(es, i - 1, x)].value]
  BY DEF MetaOf
<1>3. ASSUME NEW x \in D(i - 1), x # k
      PROVE  es[LastUnder(es, i, x)].value = m[x]
  <2>1. \E p \in 1..(i - 1) : es[p].key = x
    OBVIOUS
  <2>2. LastUnder(es, i, x) = LastUnder(es, i - 1, x)
    BY <1>3, <2>1, LastUnderSame
  <2> HIDE DEF D, m
  <2> QED  BY <1>2, <2>2
<1>4. es[LastUnder(es, i, k)].value = es[i].value
  BY LastUnderNew
<1>5. "nodes" \notin D(i - 1)
  OBVIOUS
<1> HIDE DEF D, m, k
<1>6. CASE k = "nodes"
  <2>1. \A x \in D(i - 1) : es[LastUnder(es, i, x)].value = m[x]
    BY <1>3, <1>5, <1>6
  <2>2. D(i) = D(i - 1) /\ DOMAIN m = D(i - 1)
    BY <1>1, <1>2, <1>6
  <2>3. MetaOf(es, i) = m
    BY <1>2, <2>1, <2>2
  <2> QED  BY <1>6, <2>3 DEF m, k
<1>7. CASE k # "nodes"
  <2>1. D(i) = D(i - 1) \cup {k} /\ DOMAIN m = D(i - 1)
    BY <1>1, <1>2, <1>7
  <2>2. \A x \in D(i) : es[LastUnder(es, i, x)].value = IF x = k THEN es[i].value ELSE m[x]
    BY <1>3, <1>4, <2>1
  <2>3. MetaOf(es, i) = [x \in DOMAIN m \cup {k} |-> IF x = k THEN es[i].value ELSE m[x]]
    BY <1>2, <2>1, <2>2
  <2> QED  BY <1>7, <2>3 DEF m, k
<1> QED  BY <1>6, <1>7

LEMMA NodesStep ==
  ASSUME NEW es, NEW i \in Nat \ {0}
  PROVE  NodesOf(es, i) = IF es[i].key = "nodes" THEN es[i].value.section ELSE NodesOf(es, i - 1)
<1>1. CASE es[i].key = "nodes"
  <2>1. LastUnder(es, i, "nodes") = i
    BY <1>1, LastUnderNew
  <2>2. i \in 1..i
    OBVIOUS
  <2> QED  BY <1>1, <2>1, <2>2 DEF NodesOf
<1>2. CASE es[i].key # "nodes"
  <2>1. \A p : p \in 1..i <=> p \in 1..(i - 1) \/ p = i
    OBVIOUS
  <2>2. (\E p \in 1..i : es[p].key = "nodes") <=> \E p \in 1..(i - 1) : es[p].key = "nodes"
    BY <1>2, <2>1
  <2>3. CASE \E p \in 1..(i - 1) : es[p].key = "nodes"
    <3>1. LastUnder(es, i, "nodes") = LastUnder(es, i - 1, "nodes")
      BY <1>2, <2>3, LastUnderSame
    <3> QED  BY <1>2, <2>2, <2>3, <3>1 DEF NodesOf
  <2>4. CASE ~\E p \in 1..(i - 1) : es[p].key = "nodes"
    BY <1>2, <2>2, <2>4 DEF NodesOf
  <2> QED  BY <2>3, <2>4
<1> QED  BY <1>1, <1>2

LEMMA NothingRead ==
  ASSUME NEW es
  PROVE  NodesOf(es, 0) = <<>> /\ MetaOf(es, 0) = [k \in {} |-> ""]
<1>1. 1..0 = {}
  OBVIOUS
<1>2. {es[p].key : p \in 1..0} \ {"nodes"} = {}
  BY <1>1
<1>3. MetaOf(es, 0) = [k \in {} |-> es[LastUnder(es, 0, k)].value]
  BY <1>2 DEF MetaOf
<1>4. [k \in {} |-> es[LastUnder(es, 0, k)].value] = [k \in {} |-> ""]
  OBVIOUS
<1>5. NodesOf(es, 0) = <<>>
  BY <1>1 DEF NodesOf
<1> QED  BY <1>3, <1>4, <1>5

\* An entry beside the nodes is read.
LEMMA EntryRead ==
  ASSUME IsFile(entries), NEW i \in DOMAIN entries, ReadEntries(i - 1), entries[i].key # "nodes",
         nodes' = nodes, entries' = entries,
         meta' = [k \in DOMAIN meta \cup {entries[i].key} |->
                    IF k = entries[i].key THEN entries[i].value ELSE meta[k]]
  PROVE  ReadEntries(i)'
<1>1. i \in 1..Len(entries) /\ Len(entries) \in Nat
  BY FileFacts
<1>2. i \in Nat \ {0} /\ i \in 0..Len(entries)
  BY <1>1
<1>3. meta = MetaOf(entries, i - 1) /\ nodes = NodesOf(entries, i - 1) /\ LoadableUpto(i - 1)
  BY DEF ReadEntries
<1>4. meta' = MetaOf(entries, i)
  <2>1. MetaOf(entries, i) = [k \in DOMAIN meta \cup {entries[i].key} |->
                                IF k = entries[i].key THEN entries[i].value ELSE meta[k]]
    <3>1. MetaOf(entries, i) =
            [k \in DOMAIN MetaOf(entries, i - 1) \cup {entries[i].key} |->
               IF k = entries[i].key THEN entries[i].value ELSE MetaOf(entries, i - 1)[k]]
      BY <1>2, MetaStep
    <3> QED  BY <1>3, <3>1
  <2> QED  BY <2>1
<1>5. nodes' = NodesOf(entries, i)
  BY <1>2, <1>3, NodesStep
<1>6. LoadableUpto(i)
  <2>1. \A p : p \in 1..i <=> p \in 1..(i - 1) \/ p = i
    BY <1>2
  <2> QED  BY <1>3, <2>1 DEF LoadableUpto
<1> QED  BY <1>2, <1>4, <1>5, <1>6 DEF ReadEntries, LoadableUpto

\* The last node of a nodes section is read.
LEMMA SectionRead ==
  ASSUME IsFile(entries), NEW i \in Sections, ReadMembers(i, Len(entries[i].value.section)),
         nodes' = nodes, entries' = entries, meta' = meta
  PROVE  ReadEntries(i)'
<1> DEFINE s == entries[i].value.section
<1>1. i \in 1..Len(entries) /\ Len(entries) \in Nat /\ i \in DOMAIN entries /\ IsSection(entries[i].value)
  BY FileFacts DEF Sections
<1>2. i \in Nat \ {0} /\ i \in 0..Len(entries)
  BY <1>1
<1>3. /\ entries[i].key = "nodes" /\ DOMAIN s = 1..Len(s) /\ Len(s) \in Nat
      /\ s \in Seq({s[j] : j \in DOMAIN s})
  BY <1>1, FileFacts
<1>4. /\ LoadableUpto(i - 1) /\ meta = MetaOf(entries, i - 1)
      /\ nodes = SubSeq(s, 1, Len(s)) /\ \A q \in 1..Len(s) : IsNode(s[q].value)
  BY DEF ReadMembers
<1>5. meta' = MetaOf(entries, i)
  BY <1>2, <1>3, <1>4, MetaStep
<1>6. nodes' = NodesOf(entries, i)
  <2>1. SubSeq(s, 1, Len(s)) = s
    BY <1>3
  <2>2. NodesOf(entries, i) = s
    BY <1>2, <1>3, NodesStep
  <2> QED  BY <1>4, <2>1, <2>2
<1>7. LoadableUpto(i)
  <2>1. \A p : p \in 1..i <=> p \in 1..(i - 1) \/ p = i
    BY <1>2
  <2>2. IsSection(entries[i].value) /\ \A j \in DOMAIN s : IsNode(s[j].value)
    BY <1>1, <1>3, <1>4
  <2> QED  BY <1>4, <2>1, <2>2 DEF LoadableUpto
<1> QED  BY <1>2, <1>5, <1>6, <1>7 DEF ReadEntries, LoadableUpto

LEMMA Prefix ==
  ASSUME NEW V, NEW s \in Seq(V), NEW j \in 1..Len(s)
  PROVE  Append(SubSeq(s, 1, j - 1), s[j]) = SubSeq(s, 1, j)
<1> DEFINE r == SubSeq(s, 1, j - 1)
           t == Append(r, s[j])
           w == SubSeq(s, 1, j)
<1>1. Len(s) \in Nat /\ j \in Nat \ {0} /\ j <= Len(s) /\ s[j] \in V
  OBVIOUS
<1>2. r \in Seq(V) /\ Len(r) = j - 1 /\ \A q \in 1..(j - 1) : r[q] = s[q]
  BY <1>1
<1>3. w \in Seq(V) /\ Len(w) = j /\ \A q \in 1..j : w[q] = s[q]
  BY <1>1
<1> HIDE DEF r, w
<1>4. t \in Seq(V) /\ Len(t) = j /\ t[j] = s[j] /\ \A q \in 1..(j - 1) : t[q] = r[q]
  BY <1>1, <1>2
<1> HIDE DEF t
<1>5. \A q \in 1..j : t[q] = w[q]
  <2>1. \A q \in 1..j : q \in 1..(j - 1) \/ q = j
    BY <1>1
  <2> QED  BY <1>2, <1>3, <1>4, <2>1
<1>6. t = w
  BY <1>3, <1>4, <1>5
<1> QED  BY <1>6 DEF t, r, w

\* A node of a nodes section is read.
LEMMA MemberRead ==
  ASSUME IsFile(entries), NEW i \in Sections, NEW j \in 1..Len(entries[i].value.section),
         ReadMembers(i, j - 1), IsNode(entries[i].value.section[j].value),
         nodes' = Append(nodes, [key |-> entries[i].value.section[j].key,
                                 value |-> entries[i].value.section[j].value]),
         entries' = entries, meta' = meta
  PROVE  ReadMembers(i, j)'
<1> DEFINE s == entries[i].value.section
<1>1. i \in DOMAIN entries /\ IsSection(entries[i].value)
  BY DEF Sections
<1>2. /\ DOMAIN s = 1..Len(s) /\ Len(s) \in Nat
      /\ s \in Seq({s[q] : q \in DOMAIN s}) /\ s[j] = [key |-> s[j].key, value |-> s[j].value]
  <2>1. DOMAIN s = 1..Len(s) /\ Len(s) \in Nat /\ s \in Seq({s[q] : q \in DOMAIN s})
    <3>1. s \in Seq({s[q] : q \in DOMAIN s})
      BY <1>1 DEF IsFile, IsSequence
    <3> HIDE DEF s
    <3> QED  BY <3>1
  <2>2. j \in DOMAIN s
    BY <2>1
  <2>3. s[j] = [key |-> s[j].key, value |-> s[j].value]
    <3>1. IsFile(entries)
      OBVIOUS
    <3>2. \A q \in DOMAIN entries[i].value.section :
            entries[i].value.section[q] =
              [key |-> entries[i].value.section[q].key, value |-> entries[i].value.section[q].value]
      BY <1>1, <3>1 DEF IsFile
    <3> QED  BY <2>2, <3>2
  <2> QED  BY <2>1, <2>3
<1>3. /\ LoadableUpto(i - 1) /\ meta = MetaOf(entries, i - 1)
      /\ nodes = SubSeq(s, 1, j - 1) /\ \A q \in 1..(j - 1) : IsNode(s[q].value)
  BY DEF ReadMembers
<1>4. nodes' = SubSeq(s, 1, j)
  <2>1. nodes' = Append(SubSeq(s, 1, j - 1), s[j])
    BY <1>2, <1>3
  <2>2. Append(SubSeq(s, 1, j - 1), s[j]) = SubSeq(s, 1, j)
    BY <1>2, Prefix
  <2> QED  BY <2>1, <2>2
<1>5. \A q \in 1..j : IsNode(s[q].value)
  <2>1. \A q : q \in 1..j <=> q \in 1..(j - 1) \/ q = j
    BY <1>2
  <2> QED  BY <1>3, <2>1
<1> QED  BY <1>3, <1>4, <1>5 DEF ReadMembers, LoadableUpto

-----------------------------------------------------------------------------
(* One step of the reader.                                                 *)

LEMMA PlaceFacts ==
  ASSUME NEW u, IsPlace(u)
  PROVE  /\ awaits = "start" => AtStart(u)
         /\ awaits = "top" => AtTop(u) \/ AtRest(u)
         /\ awaits = "key" => AtEntry(u) \/ AtRest(u)
         /\ awaits = "colon" => AtEntry(u)
         /\ awaits \in {"value", "nodes"} => AtEntry(u) \/ AtLoss
         /\ awaits = "member" => AtMembers(u)
         /\ awaits \in {"id", "idColon"} => AtMember(u)
         /\ awaits = "node" => AtMember(u) \/ AtLoss
<1>1. AtEntry(u) => awaits \in {"key", "colon", "value", "nodes"}
  BY DEF AtEntry
<1>2. AtMember(u) => awaits \in {"id", "idColon", "node"}
  BY DEF AtMember
<1>3. /\ AtStart(u) => awaits = "start"
      /\ AtTop(u) => awaits = "top"
      /\ AtMembers(u) => awaits = "member"
      /\ AtRest(u) => awaits \in {"top", "key"}
      /\ AtLoss => awaits \in {"value", "nodes", "node"}
  BY DEF AtStart, AtTop, AtMembers, AtRest, AtLoss
<1> QED  BY <1>1, <1>2, <1>3 DEF IsPlace

\* The reader is at unit u of the text, its c-th, in place h of the buffer or behind it.
IsAt(h, c, u) ==
  /\ h = Here /\ h \in 1..(Len(buf) + 1) /\ c = Dropped + h /\ c \in 1..Len(Text(entries))
  /\ u = Text(entries)[c] /\ IsPlace(u)
  /\ IF h = Len(buf) + 1 THEN Out ELSE ~Out /\ h \in 1..Len(buf) /\ buf[h] = u /\ u.ch \notin Skipped(awaits)

LEMMA ReaderIsAt ==
  ASSUME IsReading
  PROVE  \E h, c, u : IsAt(h, c, u)
<1> DEFINE c == Dropped + Here
           u == Text(entries)[c]
<1>1. Len(buf) \in Nat /\ pos \in 1..(Len(buf) + 1)
  BY WindowFacts
<1>2. /\ Here \in pos..(Len(buf) + 1) /\ c \in 1..Len(Text(entries)) /\ IsPlace(u)
      /\ ~Out => buf[Here] = u /\ buf[Here].ch \notin Skipped(awaits)
  BY ReaderIsAtHere DEF IsAtHere
<1>3. Here \in 1..(Len(buf) + 1)
  BY <1>1, <1>2
<1>4. IF Here = Len(buf) + 1 THEN Out ELSE ~Out /\ Here \in 1..Len(buf)
  BY <1>1, <1>3 DEF Out
<1>5. IsAt(Here, c, u)
  BY <1>2, <1>3, <1>4 DEF IsAt
<1> QED  BY <1>5

\* The reader keeps the invariant, and buffers nothing.
MovesOn == ReaderInv' /\ entries' = entries /\ Len(buf') \in 0..Len(buf)

LEMMA GoesOn ==
  ASSUME IsReading, NEW thing \in Reading, NEW h, NEW c, NEW u, IsAt(h, c, u), NEW n \in Nat,
         GoTo(thing, h + n), h + n <= Len(buf) + 1, UNCHANGED <<source, unread>>,
         c + n <= Len(Text(entries)), NEW v, v = Text(entries)[c + n], IsPlace(v)'
  PROVE  MovesOn
<1>1. Len(buf) \in Nat /\ Dropped \in Nat /\ IsFile(entries)
  BY WindowFacts
<1>2. h \in 1..(Len(buf) + 1) /\ c = Dropped + h
  BY DEF IsAt
<1>3. h + n \in 1..(Len(buf) + 1) /\ Dropped + (h + n) = c + n
  BY <1>1, <1>2
<1>4. IsWindow' /\ (Dropped + pos)' = c + n /\ Len(buf') \in 0..Len(buf)
  BY <1>3, GoToMoves DEF IsMoved
<1>5. entries' = entries /\ awaits' = thing
  BY DEF source, GoTo
<1>6. (Text(entries)[Dropped + pos])' = v
  BY <1>4, <1>5
<1>7. thing \notin {"nothing", "done", "failed"}
  BY DEF Reading
<1>8. (Dropped + pos <= Len(Text(entries)) /\ IsPlace(Text(entries)[Dropped + pos]))'
  BY <1>4, <1>5, <1>6
<1>9. IsFile(entries)'
  BY <1>1, <1>5
<1> QED  BY <1>4, <1>5, <1>7, <1>8, <1>9 DEF ReaderInv, MovesOn

LEMMA StaysAt ==
  ASSUME IsReading, NEW thing \in Reading, NEW h, NEW c, NEW u, IsAt(h, c, u),
         GoTo(thing, h), UNCHANGED <<source, unread>>, IsPlace(u)'
  PROVE  MovesOn
<1>1. Len(buf) \in Nat /\ Len(Text(entries)) \in Nat
  BY WindowFacts, TextFacts
<1>2. h \in 1..(Len(buf) + 1) /\ c \in 1..Len(Text(entries)) /\ u = Text(entries)[c]
  BY DEF IsAt
<1>3. h + 0 = h /\ h <= Len(buf) + 1 /\ c + 0 = c /\ c <= Len(Text(entries)) /\ 0 \in Nat
  BY <1>1, <1>2
<1> QED  BY <1>2, <1>3, GoesOn

\* Why a reader may fail
MayFail == Len(text) < Len(Text(entries)) \/ ~IsLoadable(entries) \/ CanBeCutBadly(entries)

LEMMA Fails ==
  ASSUME IsReading, MayFail, Fail, UNCHANGED <<source, unread>>
  PROVE  MovesOn
<1>1. IsFile(entries) /\ IsWindow
  BY WindowFacts
<1>2. entries' = entries /\ text' = text /\ unread' = unread /\ buf' = buf /\ pos' = pos /\ awaits' = "failed"
  BY DEF Fail, source
<1>3. Dropped' = Dropped
  BY <1>2 DEF Dropped
<1>4. IsWindow' /\ IsFile(entries)'
  BY <1>1, <1>2, <1>3 DEF IsWindow
<1>5. MayFail'
  BY <1>2 DEF MayFail, IsLoadable, CanBeCutBadly, Values
<1>6. Len(buf') \in 0..Len(buf)
  BY <1>2, WindowFacts
<1> QED  BY <1>2, <1>4, <1>5, <1>6 DEF ReaderInv, MayFail, Reading, MovesOn

LEMMA EndOfShortText ==
  ASSUME IsReading, Out, AtEOF
  PROVE  MayFail
<1>1. PICK h, c, u : IsAt(h, c, u)
  BY ReaderIsAt
<1>2. Dropped \in Nat /\ Len(buf) \in Nat
  BY WindowFacts
<1>3. c > Dropped + Len(buf) /\ c \in 1..Len(Text(entries))
  BY <1>1, <1>2 DEF IsAt
<1> QED  BY <1>3, TextIsShort DEF MayFail

LEMMA StillRead ==
  ASSUME UNCHANGED <<source, nodes, meta>>
  PROVE  /\ \A i : ReadEntries(i) => ReadEntries(i)'
         /\ \A i, j : ReadMembers(i, j) => ReadMembers(i, j)'
<1>1. entries' = entries /\ nodes' = nodes /\ meta' = meta
  BY DEF source
<1> QED  BY <1>1 DEF ReadEntries, ReadMembers, LoadableUpto

LEMMA ReadStep ==
  ASSUME IsReading, NEW n \in 1..ChunkSize, Read(n)
  PROVE  ReaderInv'
<1> DEFINE chunk == SubSeq(text, unread, unread + n - 1)
<1>1. PICK h, c, u : IsAt(h, c, u)
  BY ReaderIsAt
<1>2. IsWindow' /\ (Dropped + pos)' = Dropped + Here
  BY ReadMoves
<1>3. /\ entries' = entries /\ text' = text /\ key' = key /\ id' = id /\ nodes' = nodes /\ meta' = meta
      /\ n <= Len(text) - unread + 1 /\ awaits' = IF CutsCharacter(chunk) THEN "failed" ELSE awaits
  BY DEF Read, source
<1>4. /\ IsFile(entries) /\ IsWindow /\ awaits \in Reading
      /\ Len(text) \in Nat /\ unread \in Nat /\ n \in Nat \ {0}
  BY WindowFacts, ChunkAssumption DEF IsReading
<1>5. IsFile(entries)'
  BY <1>3, <1>4
<1>6. CASE CutsCharacter(chunk)
  <2>1. /\ text = SubSeq(Text(entries), 1, Len(text)) /\ Len(text) \in 0..Len(Text(entries))
        /\ unread \in 1..(Len(text) + 1)
    BY <1>4 DEF IsWindow
  <2>2. Text(entries) \in Seq(Units) /\ Len(Text(entries)) \in Nat
    BY <1>4, TextFacts
  <2>3. PICK last : last = unread + n - 1
    OBVIOUS
  <2>4. last \in 1..Len(text) /\ last \in 1..Len(Text(entries))
    BY <1>3, <1>4, <2>1, <2>2, <2>3
  <2>5. SubSeq(Text(entries), 1, Len(text))[last] = Text(entries)[last]
    BY <1>4, <2>1, <2>2, <2>4
  <2>6. text[last] = Text(entries)[last]
    BY <2>1, <2>5
  <2>7. text \in Seq(Units)
    <3>1. SubSeq(Text(entries), 1, Len(text)) \in Seq(Units)
      BY <1>4, <2>1, <2>2
    <3> QED  BY <2>1, <3>1
  <2>8. chunk[Len(chunk)] = Text(entries)[last]
    <3>1. Len(chunk) = n /\ chunk[n] = text[last]
      BY <1>3, <1>4, <2>1, <2>3, <2>4, <2>7
    <3> QED  BY <2>6, <3>1
  <2>9. PICK w : w = Text(entries)[last]
    OBVIOUS
  <2>10. w.ch = "value" /\ Spelling(Item(w).value).kind = "accented"
    BY <1>6, <2>8, <2>9 DEF CutsCharacter, KindOf
  <2>11. ValueIn(entries, w.entry, w.member) \in Values(entries)
    BY <1>4, <2>4, <2>9, <2>10, ValueUnit
  <2>12. Item(w).value = ValueIn(entries, w.entry, w.member)
    BY DEF Item, ValueIn
  <2>13. CanBeCutBadly(entries)
    BY <2>10, <2>11, <2>12 DEF CanBeCutBadly
  <2>14. awaits' = "failed" /\ CanBeCutBadly(entries)'
    BY <1>3, <1>6, <2>13 DEF CanBeCutBadly, Values
  <2> QED  BY <1>2, <1>5, <2>14 DEF ReaderInv, Reading
<1>7. CASE ~CutsCharacter(chunk)
  <2>1. awaits' = awaits
    BY <1>3, <1>7
  <2>2. ~AtLoss
    BY <1>3, <1>4 DEF AtLoss
  <2>3. c = Dropped + Here /\ c <= Len(Text(entries)) /\ u = Text(entries)[c] /\ IsPlace(u)
    BY <1>1 DEF IsAt
  <2>4. IsPlace(u)'
    <3>1. /\ \A i : ReadEntries(i) => ReadEntries(i)'
          /\ \A i, j : ReadMembers(i, j) => ReadMembers(i, j)'
      BY <1>3, StillRead DEF source
    <3>2. AtStart(u) => AtStart(u)'
      BY <2>1, <3>1 DEF AtStart
    <3>3. AtTop(u) => AtTop(u)'
      BY <1>3, <2>1, <3>1 DEF AtTop
    <3>4. AtEntry(u) => AtEntry(u)'
      BY <1>3, <2>1, <3>1 DEF AtEntry
    <3>5. AtMembers(u) => AtMembers(u)'
      BY <1>3, <2>1, <3>1 DEF AtMembers, Sections
    <3>6. AtMember(u) => AtMember(u)'
      BY <1>3, <2>1, <3>1 DEF AtMember, Sections
    <3>7. AtRest(u) => AtRest(u)'
      BY <1>3, <2>1 DEF AtRest, CanBeCutBadly, Values
    <3> QED  BY <2>2, <2>3, <3>2, <3>3, <3>4, <3>5, <3>6, <3>7 DEF IsPlace
  <2>5. (Text(entries)[Dropped + pos])' = u
    BY <1>2, <1>3, <2>3
  <2>6. (Dropped + pos <= Len(Text(entries)) /\ IsPlace(Text(entries)[Dropped + pos]))'
    BY <1>2, <1>3, <2>3, <2>4, <2>5
  <2> QED  BY <1>2, <1>4, <1>5, <2>1, <2>6 DEF ReaderInv, Reading
<1> QED  BY <1>6, <1>7

LEMMA OpenStep ==
  ASSUME IsReading, Open
  PROVE  MovesOn
<1>1. PICK h, c, u : IsAt(h, c, u)
  BY ReaderIsAt
<1>2. /\ UNCHANGED <<source, unread, key, id, meta>> /\ entries' = entries /\ awaits \in {"start", "nodes"}
      /\ IF Char = "{" THEN GoTo(IF awaits = "start" THEN "top" ELSE "member", Here + 1) ELSE Fail
      /\ nodes' = IF awaits = "nodes" THEN <<>> ELSE nodes
  BY DEF Open, Ready, source
<1>3. IsFile(entries) /\ Len(buf) \in Nat
  BY WindowFacts
<1>4. CASE Out
  <2>1. AtEOF /\ Char = ""
    BY <1>4 DEF Open, Ready, WantsMore, Char
  <2>2. MayFail /\ Fail
    BY <1>2, <1>4, <2>1, EndOfShortText
  <2> QED  BY <1>2, <2>2, Fails
<1>5. CASE ~Out
  <2>1. /\ h \in 1..Len(buf) /\ u.ch \notin Skipped(awaits) /\ Char = u.ch /\ h = Here
        /\ c \in 1..Len(Text(entries)) /\ u = Text(entries)[c] /\ IsPlace(u)
    BY <1>1, <1>5 DEF IsAt, Char
  <2>2. h + 1 <= Len(buf) + 1
    BY <1>3, <2>1
  <2>3. CASE awaits = "start"
    <3>1. AtStart(u) /\ u.ch # " "
      BY <2>1, <2>3, PlaceFacts DEF Skipped
    <3>2. u = Mark("{", 0, 0) /\ ReadEntries(0)
      <4>1. Mark(" ", 0, 0).ch = " "
        BY DEF Mark, Unit
      <4> QED  BY <3>1, <4>1 DEF AtStart
    <3>3. u.ch = "{" /\ u.entry = 0 /\ u # End
      <4>1. u.ch = "{" /\ u.entry = 0
        BY <3>2 DEF Mark, Unit
      <4> QED  BY <4>1, EndFacts
    <3>4. c + 1 \in 1..Len(Text(entries)) /\ Text(entries)[c + 1] = NextEntry(entries, 0)
      BY <1>3, <2>1, <3>3, NextUnit DEF Follows
    <3>5. GoTo("top", h + 1) /\ nodes' = nodes /\ meta' = meta
      BY <1>2, <2>1, <2>3, <3>3
    <3>6. PICK v : v = NextEntry(entries, 0)
      OBVIOUS
    <3>7. ReadEntries(0)'
      BY <1>2, <3>2, <3>5, StillRead
    <3>8. AtTop(v)'
      <4>1. 0 \in 0..Len(entries') /\ awaits' = "top" /\ v = NextEntry(entries', 0)
        <5>1. Len(entries) \in Nat
          BY <1>3, FileFacts
        <5>2. awaits' = "top"
          BY <3>5 DEF GoTo
        <5>3. entries' = entries
          BY <1>2
        <5>4. 0 \in 0..Len(entries)
          BY <5>1
        <5> QED  BY <3>6, <5>2, <5>3, <5>4
      <4> QED  BY <3>7, <4>1 DEF AtTop
    <3>9. "top" \in Reading /\ c + 1 <= Len(Text(entries)) /\ v = Text(entries)[c + 1] /\ IsPlace(v)'
      BY <2>1, <3>4, <3>6, <3>8 DEF IsPlace, Reading
    <3> QED  BY <1>1, <1>2, <2>2, <3>5, <3>9, GoesOn
  <2>4. CASE awaits = "nodes"
    <3>1. AtEntry(u)
      <4>1. ~AtLoss
        BY <1>3, <1>5, <2>1, WindowFacts, ReaderIsAtHere DEF AtLoss, IsAtHere
      <4> QED  BY <2>1, <2>4, <4>1, PlaceFacts
    <3>2. PICK i \in DOMAIN entries :
            ReadEntries(i - 1) /\ entries[i].key = "nodes" /\ u = FirstOf(entries, i, 0)
      BY <2>4, <3>1 DEF AtEntry
    <3>3. CASE IsSection(entries[i].value)
      <4>1. u = Mark("{", i, 0)
        BY <3>2, <3>3 DEF FirstOf
      <4>2. i \in Nat \ {0} /\ Len(entries[i].value.section) \in Nat /\ i \in Sections
        BY <1>3, <3>3, FileFacts DEF Sections
      <4>3. u.ch = "{" /\ u.entry = i /\ u # End
        <5>1. u.ch = "{" /\ u.entry = i
          BY <4>1 DEF Mark, Unit
        <5> QED  BY <5>1, EndFacts
      <4>4. c + 1 \in 1..Len(Text(entries)) /\ Text(entries)[c + 1] = NextMember(entries, i, 0)
        BY <1>3, <2>1, <4>2, <4>3, NextUnit DEF Follows
      <4>5. GoTo("member", h + 1) /\ nodes' = <<>> /\ meta' = meta
        BY <1>2, <2>1, <2>4, <4>3
      <4>6. PICK v : v = NextMember(entries, i, 0)
        OBVIOUS
      <4>7. ReadMembers(i, 0)'
        <5>1. LoadableUpto(i - 1) /\ meta = MetaOf(entries, i - 1)
          BY <3>2 DEF ReadEntries
        <5>2. SubSeq(entries[i].value.section, 1, 0) = <<>>
          BY <4>2
        <5>3. 1..0 = {}
          OBVIOUS
        <5> QED  BY <1>2, <4>5, <5>1, <5>2, <5>3 DEF ReadMembers, LoadableUpto
      <4>8. AtMembers(v)'
        <5>1. /\ i \in Sections' /\ 0 \in 0..Len(entries'[i].value.section)
              /\ awaits' = "member" /\ v = NextMember(entries', i, 0)
          <6>1. awaits' = "member"
            BY <4>5 DEF GoTo
          <6>2. i \in Sections' /\ 0 \in 0..Len(entries'[i].value.section)
            <7>1. entries' = entries
              BY <1>2
            <7>2. i \in Sections /\ 0 \in 0..Len(entries[i].value.section)
              BY <4>2
            <7> QED  BY <7>1, <7>2 DEF Sections
          <6> QED  BY <1>2, <4>6, <6>1, <6>2
        <5> QED  BY <4>7, <5>1 DEF AtMembers
      <4>9. "member" \in Reading /\ c + 1 <= Len(Text(entries)) /\ v = Text(entries)[c + 1] /\ IsPlace(v)'
        BY <2>1, <4>4, <4>6, <4>8 DEF IsPlace, Reading
      <4> QED  BY <1>1, <1>2, <2>2, <4>5, <4>9, GoesOn
    <3>4. CASE ~IsSection(entries[i].value)
      <4>1. u.ch = "value"
        BY <3>2, <3>4 DEF FirstOf, Unit
      <4>2. Fail /\ ~IsLoadable(entries)
        BY <1>2, <2>1, <3>2, <3>4, <4>1 DEF IsLoadable
      <4> QED  BY <1>2, <4>2, Fails DEF MayFail
    <3> QED  BY <3>3, <3>4
  <2> QED  BY <1>2, <2>3, <2>4
<1> QED  BY <1>4, <1>5

LEMMA CloseStep ==
  ASSUME IsReading, Close
  PROVE  MovesOn
<1>1. PICK h, c, u : IsAt(h, c, u)
  BY ReaderIsAt
<1>2. /\ entries' = entries /\ text' = text /\ unread' = unread /\ buf' = buf /\ pos' = pos
      /\ nodes' = nodes /\ meta' = meta /\ awaits = "top" /\ awaits' = "done" /\ Char = "}"
      /\ UNCHANGED source
  BY DEF Close, Ready, source
<1>3. IsFile(entries) /\ IsWindow /\ Len(buf) \in Nat /\ Dropped \in Nat
  BY WindowFacts
<1>4. /\ h \in 1..Len(buf) /\ u.ch = "}" /\ c = Dropped + h
      /\ c \in 1..Len(Text(entries)) /\ u = Text(entries)[c] /\ IsPlace(u)
  BY <1>1, <1>2 DEF IsAt, Char
<1>5. AtTop(u)
  <2>1. ~AtRest(u)
    BY <1>4 DEF AtRest
  <2> QED  BY <1>2, <1>4, <2>1, PlaceFacts
<1>6. PICK i \in 0..Len(entries) :
        /\ ReadEntries(i)
        /\ \/ u = NextEntry(entries, i)
           \/ u = Unit("key", 1, i + 1, 0)
  BY <1>5 DEF AtTop
<1>7. i = Len(entries) /\ u = End
  <2>1. \A k, l : u # Unit("key", 1, k, l) /\ u # Mark(",", k, l)
    <3> TAKE k, l
    <3>1. Unit("key", 1, k, l).ch = "key" /\ Mark(",", k, l).ch = ","
      BY UnitChars
    <3> QED  BY <1>4, <3>1
  <2>2. u = NextEntry(entries, i)
    BY <1>6, <2>1
  <2> QED  BY <2>1, <2>2 DEF NextEntry
<1>8. c = Len(Text(entries))
  BY <1>3, <1>4, <1>7, EndIsLast
<1>9. Len(text) = Len(Text(entries))
  <2>1. /\ Len(text) \in 0..Len(Text(entries)) /\ unread \in 1..(Len(text) + 1)
        /\ Dropped + Len(buf) = unread - 1 /\ Len(Text(entries)) \in Nat
    BY <1>3, WindowFacts, TextFacts DEF IsWindow
  <2>2. Len(buf) \in Nat /\ Dropped \in Nat /\ h \in 1..Len(buf) /\ Dropped + h = Len(Text(entries))
    BY <1>3, <1>4, <1>8
  <2> QED  BY <2>1, <2>2
<1>10. (ReadEntries(Len(entries)))'
  <2>1. ReadEntries(Len(entries))
    BY <1>6, <1>7
  <2> QED  BY <1>2, <2>1 DEF ReadEntries, LoadableUpto
<1>11. IsWindow' /\ IsFile(entries)'
  <2>1. Dropped' = Dropped
    BY <1>2 DEF Dropped
  <2> QED  BY <1>2, <1>3, <2>1 DEF IsWindow
<1>12. (Len(text) = Len(Text(entries)))'
  BY <1>2, <1>9
<1>13. ReaderInv'
  BY <1>2, <1>10, <1>11, <1>12 DEF ReaderInv, Reading
<1>14. entries' = entries /\ Len(buf') \in 0..Len(buf)
  <2>1. Len(buf) \in 0..Len(buf)
    BY <1>3
  <2> QED  BY <1>2, <2>1
<1> QED  BY <1>13, <1>14 DEF MovesOn

LEMMA CloseNodesStep ==
  ASSUME IsReading, CloseNodes
  PROVE  MovesOn
<1>1. PICK h, c, u : IsAt(h, c, u)
  BY ReaderIsAt
<1>2. /\ UNCHANGED <<source, unread, key, id, meta>> /\ entries' = entries /\ nodes' = nodes /\ meta' = meta
      /\ awaits = "member" /\ Char = "}" /\ GoTo("top", Here + 1)
  BY DEF CloseNodes, Ready, source
<1>3. IsFile(entries) /\ Len(buf) \in Nat
  BY WindowFacts
<1>4. /\ h \in 1..Len(buf) /\ u.ch = "}" /\ h = Here
      /\ c \in 1..Len(Text(entries)) /\ u = Text(entries)[c] /\ IsPlace(u)
  BY <1>1, <1>2 DEF IsAt, Char
<1>5. AtMembers(u)
  BY <1>2, <1>4, PlaceFacts
<1>6. PICK i \in Sections : \E j \in 0..Len(entries[i].value.section) :
        /\ ReadMembers(i, j)
        /\ \/ u = NextMember(entries, i, j)
           \/ u = Unit("key", 1, i, j + 1)
  BY <1>5 DEF AtMembers
<1>7. PICK j \in 0..Len(entries[i].value.section) :
        /\ ReadMembers(i, j)
        /\ \/ u = NextMember(entries, i, j)
           \/ u = Unit("key", 1, i, j + 1)
  BY <1>6
<1>8. j = Len(entries[i].value.section) /\ u = Mark("}", i, 0)
  <2>1. \A k, l : u # Unit("key", 1, k, l) /\ u # Mark(",", k, l)
    <3> TAKE k, l
    <3>1. Unit("key", 1, k, l).ch = "key" /\ Mark(",", k, l).ch = ","
      BY UnitChars
    <3> QED  BY <1>4, <3>1
  <2>2. u = NextMember(entries, i, j)
    BY <1>7, <2>1
  <2> QED  BY <2>1, <2>2 DEF NextMember
<1>9. i \in Nat \ {0} /\ i \in 0..Len(entries)
  <2>1. i \in 1..Len(entries) /\ Len(entries) \in Nat
    BY <1>3, FileFacts DEF Sections
  <2> QED  BY <2>1
<1>10. u.entry = i /\ u # End
  <2>1. u.entry = i
    BY <1>8 DEF Mark, Unit
  <2> QED  BY <1>9, <2>1, EndFacts
<1>11. c + 1 \in 1..Len(Text(entries)) /\ Text(entries)[c + 1] = NextEntry(entries, i)
  BY <1>3, <1>4, <1>10, NextUnit DEF Follows
<1>12. PICK v : v = NextEntry(entries, i)
  OBVIOUS
<1>13. ReadEntries(i)'
  BY <1>2, <1>3, <1>7, <1>8, SectionRead
<1>14. AtTop(v)'
  <2>1. awaits' = "top"
    BY <1>2 DEF GoTo
  <2>2. i \in 0..Len(entries') /\ v = NextEntry(entries', i)
    BY <1>2, <1>9, <1>12
  <2> QED  BY <1>13, <2>1, <2>2 DEF AtTop
<1>15. "top" \in Reading /\ c + 1 <= Len(Text(entries)) /\ v = Text(entries)[c + 1] /\ IsPlace(v)'
  <2>1. c + 1 <= Len(Text(entries)) /\ v = Text(entries)[c + 1]
    <3>1. Len(Text(entries)) \in Nat
      BY <1>3, TextFacts
    <3>2. c + 1 <= Len(Text(entries))
      BY <1>11, <3>1
    <3> QED  BY <1>11, <1>12, <3>2
  <2>2. "top" \in Reading /\ IsPlace(v)'
    BY <1>14 DEF IsPlace, Reading
  <2> QED  BY <2>1, <2>2
<1>16. h + 1 <= Len(buf) + 1
  <2>1. h \in 1..Len(buf) /\ Len(buf) \in Nat
    BY <1>3, <1>4
  <2> QED  BY <2>1
<1>17. GoTo("top", h + 1)
  BY <1>2, <1>4
<1> QED  BY <1>1, <1>2, <1>15, <1>16, <1>17, GoesOn

LEMMA EnterEntryStep ==
  ASSUME IsReading, EnterEntry
  PROVE  MovesOn
<1>1. PICK h, c, u : IsAt(h, c, u)
  BY ReaderIsAt
<1>2. /\ UNCHANGED <<source, unread, key, id, nodes, meta>> /\ entries' = entries
      /\ awaits \in {"top", "member"} /\ Char # "}"
      /\ IF Out THEN Fail ELSE GoTo(IF awaits = "top" THEN "key" ELSE "id", Here)
  BY DEF EnterEntry, Ready, source
<1>3. IsFile(entries) /\ Len(buf) \in Nat
  BY WindowFacts
<1>4. CASE Out
  <2>1. AtEOF
    BY <1>4 DEF EnterEntry, Ready, WantsMore
  <2>2. MayFail /\ Fail
    BY <1>2, <1>4, <2>1, EndOfShortText
  <2> QED  BY <1>2, <2>2, Fails
<1>5. CASE ~Out
  <2>1. /\ h \in 1..Len(buf) /\ u.ch \notin {" ", ","} /\ u.ch # "}" /\ h = Here
        /\ c \in 1..Len(Text(entries)) /\ u = Text(entries)[c] /\ IsPlace(u)
    BY <1>1, <1>2, <1>5 DEF IsAt, Char, Skipped
  <2>3. \A k, l : u # Mark(",", k, l) /\ u # Mark("}", k, l)
    <3> TAKE k, l
    <3>1. Mark("}", k, l).ch = "}" /\ Mark(",", k, l).ch = ","
      BY UnitChars
    <3> QED  BY <2>1, <3>1
  <2>4. /\ \A i : ReadEntries(i) => ReadEntries(i)'
        /\ \A i, j : ReadMembers(i, j) => ReadMembers(i, j)'
    BY <1>2, StillRead
  <2>5. CASE awaits = "top"
    <3>1. GoTo("key", h) /\ awaits' = "key"
      BY <1>2, <1>5, <2>1, <2>5 DEF GoTo
    <3>2. CASE AtRest(u)
      <4>1. AtRest(u)'
        <5>1. CanBeCutBadly(entries)' /\ awaits' \in {"top", "key"}
          <6>1. CanBeCutBadly(entries) /\ entries' = entries
            BY <1>2, <3>2 DEF AtRest
          <6> QED  BY <3>1, <6>1 DEF CanBeCutBadly, Values
        <5> QED  BY <3>2, <5>1 DEF AtRest
      <4>2. IsPlace(u)' /\ "key" \in Reading
        BY <4>1 DEF IsPlace, Reading
      <4> QED  BY <1>1, <1>2, <3>1, <4>2, StaysAt
    <3>3. CASE AtTop(u)
      <4>1. PICK i \in 0..Len(entries) :
              /\ ReadEntries(i)
              /\ \/ u = NextEntry(entries, i)
                 \/ i < Len(entries) /\ u = Unit("key", 1, i + 1, 0)
        BY <3>3 DEF AtTop
      <4>2. u = Unit("key", 1, i + 1, 0) /\ i # Len(entries)
        <5>1. u # End
          BY <2>3 DEF End
        <5>2. CASE u = NextEntry(entries, i)
          <6>1. u # Mark(",", i + 1, 0)
            BY <2>3
          <6>2. i # Len(entries) /\ i = 0 /\ u = Unit("key", 1, 1, 0)
            BY <5>1, <5>2, <6>1 DEF NextEntry
          <6>3. i + 1 = 1
            BY <6>2
          <6> QED  BY <6>2, <6>3
        <5>3. CASE i < Len(entries) /\ u = Unit("key", 1, i + 1, 0)
          BY <5>3
        <5> QED  BY <4>1, <5>2, <5>3
      <4>3. i + 1 \in DOMAIN entries /\ (i + 1) - 1 = i
        <5>1. Len(entries) \in Nat /\ DOMAIN entries = 1..Len(entries)
          BY <1>3, FileFacts
        <5>2. i \in 0..Len(entries) /\ i # Len(entries) /\ Len(entries) \in Nat
          BY <4>2, <5>1
        <5>3. i + 1 \in 1..Len(entries) /\ (i + 1) - 1 = i
          BY <5>2
        <5> QED  BY <5>1, <5>3
      <4>4. AtEntry(u)'
        <5>1. PICK k : k = i + 1
          OBVIOUS
        <5>2. k \in DOMAIN entries' /\ ReadEntries(k - 1)' /\ u = Unit("key", 1, k, 0)
          BY <1>2, <2>4, <4>1, <4>2, <4>3, <5>1
        <5> QED  BY <3>1, <5>2 DEF AtEntry
      <4>5. IsPlace(u)' /\ "key" \in Reading
        BY <4>4 DEF IsPlace, Reading
      <4> QED  BY <1>1, <1>2, <3>1, <4>5, StaysAt
    <3> QED  BY <2>1, <2>5, <3>2, <3>3, PlaceFacts
  <2>6. CASE awaits = "member"
    <3>1. GoTo("id", h) /\ awaits' = "id"
      BY <1>2, <1>5, <2>1, <2>6 DEF GoTo
    <3>2. AtMembers(u)
      BY <2>1, <2>6, PlaceFacts
    <3>3. PICK i \in Sections : \E j \in 0..Len(entries[i].value.section) :
            /\ ReadMembers(i, j)
            /\ \/ u = NextMember(entries, i, j)
               \/ j < Len(entries[i].value.section) /\ u = Unit("key", 1, i, j + 1)
      BY <3>2 DEF AtMembers
    <3>4. PICK j \in 0..Len(entries[i].value.section) :
            /\ ReadMembers(i, j)
            /\ \/ u = NextMember(entries, i, j)
               \/ j < Len(entries[i].value.section) /\ u = Unit("key", 1, i, j + 1)
      BY <3>3
    <3>5. u = Unit("key", 1, i, j + 1) /\ j # Len(entries[i].value.section)
      <4>1. CASE u = NextMember(entries, i, j)
        <5>1. u # Mark(",", i, j + 1) /\ u # Mark("}", i, 0)
          BY <2>3
        <5>2. j # Len(entries[i].value.section) /\ j = 0 /\ u = Unit("key", 1, i, 1)
          BY <4>1, <5>1 DEF NextMember
        <5>3. j + 1 = 1
          BY <5>2
        <5> QED  BY <5>2, <5>3
      <4>2. CASE j < Len(entries[i].value.section) /\ u = Unit("key", 1, i, j + 1)
        BY <4>2
      <4> QED  BY <3>4, <4>1, <4>2
    <3>6. PICK k : k = j + 1
      OBVIOUS
    <3>7. k \in 1..Len(entries[i].value.section) /\ k - 1 = j
      <4>1. Len(entries[i].value.section) \in Nat
        BY <1>3, FileFacts DEF Sections
      <4> QED  BY <3>5, <3>6, <4>1
    <3>8. AtMember(u)'
      <4>1. /\ i \in Sections' /\ k \in 1..Len(entries'[i].value.section)
            /\ ReadMembers(i, k - 1)' /\ u = Unit("key", 1, i, k)
        BY <1>2, <2>4, <3>4, <3>5, <3>6, <3>7 DEF Sections
      <4> QED  BY <3>1, <4>1 DEF AtMember
    <3>9. IsPlace(u)' /\ "id" \in Reading
      BY <3>8 DEF IsPlace, Reading
    <3> QED  BY <1>1, <1>2, <3>1, <3>9, StaysAt
  <2> QED  BY <1>2, <2>5, <2>6
<1> QED  BY <1>4, <1>5

LEMMA SkipColonStep ==
  ASSUME IsReading, SkipColon
  PROVE  MovesOn
<1>1. PICK h, c, u : IsAt(h, c, u)
  BY ReaderIsAt
<1> DEFINE thing == IF awaits = "idColon" THEN "node" ELSE IF key = "nodes" THEN "nodes" ELSE "value"
<1>2. /\ UNCHANGED <<source, unread, key, id, nodes, meta>> /\ entries' = entries
      /\ awaits \in {"colon", "idColon"} /\ GoTo(thing, Here)
  BY DEF SkipColon, Ready, source
<1>3. IsFile(entries) /\ Len(buf) \in Nat
  BY WindowFacts
<1>4. h \in 1..(Len(buf) + 1) /\ h = Here /\ IsPlace(u)
  BY <1>1 DEF IsAt
<1>5. PICK next : next = thing
  OBVIOUS
<1>6. next \in Reading /\ GoTo(next, h) /\ awaits' = next /\ next \in {"value", "nodes", "node"}
  BY <1>2, <1>4, <1>5 DEF Reading, GoTo
<1>7. CASE Out
  <2>1. AtEOF
    BY <1>7 DEF SkipColon, Ready, WantsMore
  <2>2. unread' = Len(text') + 1
    <3>1. unread \in 1..(Len(text) + 1) /\ unread > Len(text) /\ Len(text) \in Nat
      BY <2>1, WindowFacts DEF AtEOF, IsWindow
    <3>2. unread' = unread /\ text' = text
      BY <1>2 DEF source
    <3> QED  BY <3>1, <3>2
  <2>3. h = Len(buf) + 1
    BY <1>1, <1>7 DEF IsAt
  <2>4. pos' = Len(buf') + 1
    BY <1>2, <1>4, <1>6, <2>3, GoToMoves DEF IsMoved
  <2>5. IsPlace(u)'
    BY <1>6, <2>2, <2>4 DEF IsPlace, AtLoss
  <2> QED  BY <1>1, <1>2, <1>6, <2>5, StaysAt
<1>8. CASE ~Out
  <2>1. u.ch \notin {" ", ":"}
    BY <1>1, <1>2, <1>8 DEF IsAt, Skipped
  <2>2. \A k, l : u # Mark(":", k, l)
    <3> TAKE k, l
    <3>1. Mark(":", k, l).ch = ":"
      BY UnitChars
    <3> QED  BY <2>1, <3>1
  <2>3. /\ \A i : ReadEntries(i) => ReadEntries(i)'
        /\ \A i, j : ReadMembers(i, j) => ReadMembers(i, j)'
    BY <1>2, StillRead
  <2>4. CASE awaits = "colon"
    <3>1. AtEntry(u)
      BY <1>4, <2>4, PlaceFacts
    <3>2. PICK i \in DOMAIN entries :
            ReadEntries(i - 1) /\ key = entries[i].key /\ u = FirstOf(entries, i, 0)
      BY <2>2, <2>4, <3>1 DEF AtEntry
    <3>3. ReadEntries(i - 1)' /\ key' = entries'[i].key /\ u = FirstOf(entries', i, 0) /\ i \in DOMAIN entries'
      BY <1>2, <2>3, <3>2
    <3>4. next = IF key' = "nodes" THEN "nodes" ELSE "value"
      BY <1>2, <1>5, <2>4
    <3>5. AtEntry(u)'
      BY <1>6, <3>3, <3>4 DEF AtEntry
    <3>6. IsPlace(u)'
      BY <3>5 DEF IsPlace
    <3> QED  BY <1>1, <1>2, <1>6, <3>6, StaysAt
  <2>5. CASE awaits = "idColon"
    <3>1. AtMember(u)
      BY <1>4, <2>5, PlaceFacts
    <3>2. PICK i \in Sections : \E j \in 1..Len(entries[i].value.section) :
            /\ ReadMembers(i, j - 1) /\ id = entries[i].value.section[j].key
            /\ u = Unit("value", 1, i, j)
      BY <2>2, <2>5, <3>1 DEF AtMember
    <3>3. PICK j \in 1..Len(entries[i].value.section) :
            /\ ReadMembers(i, j - 1) /\ id = entries[i].value.section[j].key
            /\ u = Unit("value", 1, i, j)
      BY <3>2
    <3>4. /\ ReadMembers(i, j - 1)' /\ id' = entries'[i].value.section[j].key
          /\ i \in Sections' /\ j \in 1..Len(entries'[i].value.section)
      BY <1>2, <2>3, <3>3 DEF Sections
    <3>5. awaits' = "node"
      BY <1>5, <1>6, <2>5
    <3>6. AtMember(u)'
      BY <3>3, <3>4, <3>5 DEF AtMember
    <3>7. IsPlace(u)'
      BY <3>6 DEF IsPlace
    <3> QED  BY <1>1, <1>2, <1>6, <3>7, StaysAt
  <2> QED  BY <1>2, <2>4, <2>5
<1> QED  BY <1>7, <1>8

-----------------------------------------------------------------------------
(* What is decoded.                                                        *)

\* The place of a value in the file: an entry that is no section, or a member of one
IsValue(i, j) ==
  IF j = 0 THEN i \in DOMAIN entries /\ ~IsSection(entries[i].value)
  ELSE i \in Sections /\ j \in 1..Len(entries[i].value.section)

LEMMA ValueFacts ==
  ASSUME IsFile(entries), NEW i, NEW j, IsValue(i, j)
  PROVE  /\ Spelling(ValueIn(entries, i, j)).parts \in Nat \ {0}
         /\ ValueIn(entries, i, j) \in Values(entries)
<1>1. CASE j = 0
  <2>1. i \in DOMAIN entries /\ ~IsSection(entries[i].value) /\ ValueIn(entries, i, j) = entries[i].value
    BY <1>1 DEF IsValue, ValueIn
  <2> QED  BY <2>1, FileFacts
<1>2. CASE j # 0
  <2>1. i \in DOMAIN entries /\ IsSection(entries[i].value) /\ j \in 1..Len(entries[i].value.section)
    BY <1>2 DEF IsValue, Sections
  <2>2. j \in DOMAIN entries[i].value.section
    BY <2>1, FileFacts
  <2>3. ValueIn(entries, i, j) = entries[i].value.section[j].value
    BY <1>2 DEF ValueIn
  <2>4. /\ Spelling(entries[i].value.section[j].value).parts \in Nat \ {0}
        /\ entries[i].value.section[j].value \in Values(entries)
    BY <2>1, <2>2, FileFacts
  <2> QED  BY <2>3, <2>4
<1> QED  BY <1>1, <1>2

LEMMA DecodedHere ==
  ASSUME IsReading, NEW h, NEW c, NEW u, IsAt(h, c, u), NEW i, NEW j
  PROVE  /\ Decoded(Here) # 0 => ~Out /\ u.ch \in {"key", "value"} /\ u.part = 1
         /\ ~Out /\ u = Unit("key", 1, i, j) =>
              Decoded(Here) = IF h + KeyParts - 1 <= Len(buf) THEN KeyParts ELSE 0
         /\ ~Out /\ u = Unit("value", 1, i, j) =>
              LET s == Spelling(ValueIn(entries, i, j))
              IN  /\ PartsOf(buf[Here]) = s.parts
                  /\ Item(buf[Here]).value = ValueIn(entries, i, j)
                  /\ Decoded(Here) = IF h + s.parts - 1 <= Len(buf) THEN s.parts
                                     ELSE IF s.kind = "fraction" THEN 1 ELSE 0
<1>1. Len(buf) \in Nat
  BY WindowFacts
<1>2. h = Here /\ (IF h = Len(buf) + 1 THEN Out ELSE ~Out /\ h \in 1..Len(buf) /\ buf[h] = u)
  BY DEF IsAt
<1>3. ASSUME Out
      PROVE  Decoded(Here) = 0
  BY <1>1, <1>3 DEF Decoded, Out
<1>4. ASSUME ~Out
      PROVE  h \in 1..Len(buf) /\ ~(h > Len(buf)) /\ buf[h] = u
  BY <1>1, <1>2, <1>4
<1>5. ASSUME ~Out, u.ch \notin {"key", "value"} \/ u.part # 1
      PROVE  Decoded(h) = 0
  BY <1>4, <1>5 DEF Decoded
<1>6. ASSUME ~Out, u = Unit("key", 1, i, j)
      PROVE  Decoded(h) = IF h + KeyParts - 1 <= Len(buf) THEN KeyParts ELSE 0
  <2>1. u.ch = "key" /\ u.part = 1
    BY <1>6 DEF Unit
  <2>2. PartsOf(u) = KeyParts /\ KindOf(u) = "closed"
    BY <2>1 DEF PartsOf, KindOf
  <2> QED  BY <1>4, <1>6, <2>1, <2>2 DEF Decoded
<1>7. ASSUME ~Out, u = Unit("value", 1, i, j)
      PROVE  LET s == Spelling(ValueIn(entries, i, j))
             IN  /\ PartsOf(u) = s.parts /\ Item(u).value = ValueIn(entries, i, j)
                 /\ Decoded(h) = IF h + s.parts - 1 <= Len(buf) THEN s.parts
                                 ELSE IF s.kind = "fraction" THEN 1 ELSE 0
  <2>1. u.ch = "value" /\ u.part = 1 /\ u.entry = i /\ u.member = j
    BY <1>7 DEF Unit
  <2>2. Item(u).value = ValueIn(entries, i, j)
    BY <2>1 DEF Item, ValueIn
  <2>3. /\ PartsOf(u) = Spelling(ValueIn(entries, i, j)).parts
        /\ KindOf(u) = Spelling(ValueIn(entries, i, j)).kind
    BY <2>1, <2>2 DEF PartsOf, KindOf
  <2> QED  BY <1>4, <1>7, <2>1, <2>2, <2>3 DEF Decoded
<1> QED  BY <1>2, <1>3, <1>4, <1>5, <1>6, <1>7

\* A key is taken, and the colon behind it is next.
LEMMA TakenKey ==
  ASSUME IsReading, NEW h, NEW c, NEW u, IsAt(h, c, u), Decoded(Here) # 0,
         NEW i, NEW j, u = Unit("key", 1, i, j)
  PROVE  /\ Decoded(Here) = 2 /\ h + 2 <= Len(buf) + 1
         /\ c + 2 <= Len(Text(entries)) /\ Text(entries)[c + 2] = Mark(":", i, j)
<1>1. Len(buf) \in Nat /\ IsFile(entries) /\ Len(Text(entries)) \in Nat
  BY WindowFacts, TextFacts
<1>2. h \in 1..(Len(buf) + 1) /\ c \in 1..Len(Text(entries)) /\ Text(entries)[c] = u
  BY DEF IsAt
<1>3. Decoded(Here) = 2 /\ h + 2 - 1 <= Len(buf)
  BY DecodedHere DEF KeyParts
<1>4. h + 2 <= Len(buf) + 1
  BY <1>1, <1>2, <1>3
<1>5. c + 2 \in 1..Len(Text(entries)) /\ Text(entries)[c + 2] = Mark(":", i, j)
  BY <1>1, <1>2, WholeKey
<1> QED  BY <1>1, <1>3, <1>4, <1>5

\* All of a value is taken, or the first part of a number that the buffer ends in.
IsTaken(h, c, i, j) ==
  LET n == Decoded(Here)
  IN  /\ n \in Nat \ {0} /\ h + n <= Len(buf) + 1 /\ c + n <= Len(Text(entries))
      /\ \/ /\ Taken = ValueIn(entries, i, j)
            /\ Text(entries)[c + n] = NextItem(entries, i, j)
         \/ /\ Taken = Shortened /\ CanBeCutBadly(entries)
            /\ Text(entries)[c + n] = Unit("value", 2, i, j)

LEMMA TakenValue ==
  ASSUME IsReading, NEW h, NEW c, NEW u, IsAt(h, c, u), Decoded(Here) # 0,
         NEW i, NEW j, u = Unit("value", 1, i, j), IsValue(i, j)
  PROVE  IsTaken(h, c, i, j)
<1>1. Len(buf) \in Nat /\ IsFile(entries) /\ Len(Text(entries)) \in Nat
  BY WindowFacts, TextFacts
<1>2. h \in 1..(Len(buf) + 1) /\ c \in 1..Len(Text(entries)) /\ Text(entries)[c] = u
  BY DEF IsAt
<1>3. PICK n : n = Spelling(ValueIn(entries, i, j)).parts
  OBVIOUS
<1>4. n \in Nat \ {0} /\ ValueIn(entries, i, j) \in Values(entries)
  BY <1>1, <1>3, ValueFacts
<1>5. /\ PartsOf(buf[Here]) = n /\ Item(buf[Here]).value = ValueIn(entries, i, j) /\ ~Out
      /\ Decoded(Here) = IF h + n - 1 <= Len(buf) THEN n
                         ELSE IF Spelling(ValueIn(entries, i, j)).kind = "fraction" THEN 1 ELSE 0
  BY <1>3, DecodedHere
<1>6. /\ c + n \in 1..Len(Text(entries)) /\ Text(entries)[c + n] = NextItem(entries, i, j)
      /\ n > 1 => Text(entries)[c + 1] = Unit("value", 2, i, j)
  <2>1. c \in 1..Len(Text(entries)) /\ Text(entries)[c] = Unit("value", 1, i, j)
    BY <1>2
  <2> QED  BY <1>1, <1>3, <1>4, <2>1, WholeValue, SMTT(30)
<1>7. CASE h + n - 1 <= Len(buf)
  <2>1. Decoded(Here) = n
    BY <1>5, <1>7
  <2>2. Taken = ValueIn(entries, i, j)
    BY <1>4, <1>5, <2>1 DEF Taken
  <2>3. h + n <= Len(buf) + 1 /\ c + n <= Len(Text(entries))
    BY <1>1, <1>2, <1>4, <1>6, <1>7
  <2> QED  BY <1>4, <1>6, <2>1, <2>2, <2>3 DEF IsTaken
<1>8. CASE ~(h + n - 1 <= Len(buf))
  <2>1. Decoded(Here) = 1 /\ Spelling(ValueIn(entries, i, j)).kind = "fraction"
    BY <1>5, <1>8
  <2>2. h \in 1..Len(buf)
    BY <1>5 DEF IsAt
  <2>3. n > 1 /\ h + 1 <= Len(buf) + 1
    BY <1>1, <1>4, <1>8, <2>2
  <2>4. Taken = Shortened
    BY <1>4, <1>5, <2>1, <2>3 DEF Taken
  <2>5. CanBeCutBadly(entries)
    BY <1>4, <2>1 DEF CanBeCutBadly
  <2>6. c + 1 <= Len(Text(entries))
    BY <1>1, <1>2, <1>4, <1>6, <2>3
  <2> QED  BY <1>6, <2>1, <2>3, <2>4, <2>5, <2>6 DEF IsTaken
<1> QED  BY <1>7, <1>8

LEMMA TakeKeyStep ==
  ASSUME IsReading, TakeKey
  PROVE  MovesOn
<1>1. PICK h, c, u : IsAt(h, c, u)
  BY ReaderIsAt
<1>2. /\ UNCHANGED <<source, unread, nodes, meta>> /\ entries' = entries
      /\ awaits \in {"key", "id"} /\ Decoded(Here) # 0
      /\ GoTo(IF awaits = "key" THEN "colon" ELSE "idColon", Here + Decoded(Here))
      /\ IF awaits = "key" THEN key' = Item(buf[Here]).key ELSE id' = Item(buf[Here]).key
  BY DEF TakeKey, Ready, source
<1>3. /\ ~Out /\ u.part = 1 /\ h = Here /\ buf[Here] = u /\ IsPlace(u)
      /\ u = Text(entries)[c] /\ c \in 1..Len(Text(entries))
  BY <1>1, <1>2, DecodedHere DEF IsAt
<1>4. /\ \A i : ReadEntries(i) => ReadEntries(i)'
      /\ \A i, j : ReadMembers(i, j) => ReadMembers(i, j)'
  BY <1>2, StillRead DEF source
<1>5. CASE awaits = "key"
  <2>1. AtEntry(u)
    <3>1. ~AtRest(u)
      BY <1>3 DEF AtRest
    <3> QED  BY <1>3, <1>5, <3>1, PlaceFacts
  <2>2. PICK i \in DOMAIN entries : ReadEntries(i - 1) /\ u = Unit("key", 1, i, 0)
    BY <1>5, <2>1 DEF AtEntry
  <2>3. /\ Decoded(Here) = 2 /\ h + 2 <= Len(buf) + 1
        /\ c + 2 <= Len(Text(entries)) /\ Text(entries)[c + 2] = Mark(":", i, 0)
    BY <1>1, <1>2, <2>2, TakenKey
  <2>4. key' = entries[i].key
    <3>1. u.entry = i /\ u.member = 0
      BY <2>2 DEF Unit
    <3> QED  BY <1>2, <1>3, <1>5, <3>1 DEF Item
  <2>5. GoTo("colon", h + 2) /\ awaits' = "colon"
    BY <1>2, <1>3, <1>5, <2>3 DEF GoTo
  <2>6. PICK v : v = Mark(":", i, 0)
    OBVIOUS
  <2>7. AtEntry(v)'
    <3>1. i \in DOMAIN entries' /\ ReadEntries(i - 1)' /\ key' = entries'[i].key
      BY <1>2, <1>4, <2>2, <2>4
    <3> QED  BY <2>5, <2>6, <3>1 DEF AtEntry
  <2>8. "colon" \in Reading /\ v = Text(entries)[c + 2] /\ IsPlace(v)' /\ 2 \in Nat
    BY <2>3, <2>6, <2>7 DEF IsPlace, Reading
  <2> QED  BY <1>1, <1>2, <2>3, <2>5, <2>8, GoesOn
<1>6. CASE awaits = "id"
  <2>1. AtMember(u)
    BY <1>3, <1>6, PlaceFacts
  <2>2. PICK i \in Sections : \E j \in 1..Len(entries[i].value.section) :
          ReadMembers(i, j - 1) /\ u = Unit("key", 1, i, j)
    BY <1>6, <2>1 DEF AtMember
  <2>3. PICK j \in 1..Len(entries[i].value.section) :
          ReadMembers(i, j - 1) /\ u = Unit("key", 1, i, j)
    BY <2>2
  <2>4. /\ Decoded(Here) = 2 /\ h + 2 <= Len(buf) + 1
        /\ c + 2 <= Len(Text(entries)) /\ Text(entries)[c + 2] = Mark(":", i, j)
    BY <1>1, <1>2, <2>3, TakenKey
  <2>5. id' = entries[i].value.section[j].key
    <3>1. u.entry = i /\ u.member = j /\ j # 0
      BY <2>3 DEF Unit
    <3> QED  BY <1>2, <1>3, <1>6, <3>1 DEF Item
  <2>6. GoTo("idColon", h + 2) /\ awaits' = "idColon"
    BY <1>2, <1>3, <1>6, <2>4 DEF GoTo
  <2>7. PICK v : v = Mark(":", i, j)
    OBVIOUS
  <2>8. AtMember(v)'
    <3>1. /\ i \in Sections' /\ j \in 1..Len(entries'[i].value.section)
          /\ ReadMembers(i, j - 1)' /\ id' = entries'[i].value.section[j].key
      BY <1>2, <1>4, <2>3, <2>5 DEF Sections
    <3> QED  BY <2>6, <2>7, <3>1 DEF AtMember
  <2>9. "idColon" \in Reading /\ v = Text(entries)[c + 2] /\ IsPlace(v)' /\ 2 \in Nat
    BY <2>4, <2>7, <2>8 DEF IsPlace, Reading
  <2> QED  BY <1>1, <1>2, <2>4, <2>6, <2>9, GoesOn
<1> QED  BY <1>2, <1>5, <1>6

LEMMA TakeEntryStep ==
  ASSUME IsReading, TakeEntry
  PROVE  MovesOn
<1>1. PICK h, c, u : IsAt(h, c, u)
  BY ReaderIsAt
<1>2. /\ UNCHANGED <<source, unread, nodes>> /\ entries' = entries /\ nodes' = nodes
      /\ awaits = "value" /\ Decoded(Here) # 0
      /\ meta' = [k \in DOMAIN meta \cup {key} |-> IF k = key THEN Taken ELSE meta[k]]
      /\ GoTo("top", Here + Decoded(Here))
  BY DEF TakeEntry, Ready, source
<1>3. /\ ~Out /\ u.ch \in {"key", "value"} /\ h = Here /\ h \in 1..Len(buf) /\ IsPlace(u)
  BY <1>1, <1>2, DecodedHere DEF IsAt
<1>4. IsFile(entries) /\ Len(buf) \in Nat
  BY WindowFacts
<1>5. AtEntry(u)
  <2>1. ~AtLoss
    BY <1>3, <1>4, WindowFacts, ReaderIsAtHere DEF AtLoss, IsAtHere
  <2> QED  BY <1>2, <1>3, <2>1, PlaceFacts
<1>6. PICK i \in DOMAIN entries :
        ReadEntries(i - 1) /\ key = entries[i].key /\ key # "nodes" /\ u = FirstOf(entries, i, 0)
  BY <1>2, <1>5 DEF AtEntry
<1>7. IsValue(i, 0) /\ u = Unit("value", 1, i, 0)
  <2>1. ~IsSection(entries[i].value)
    BY <1>4, <1>6, FileFacts
  <2> QED  BY <1>6, <2>1 DEF FirstOf, IsValue
<1>8. IsTaken(h, c, i, 0)
  BY <1>1, <1>2, <1>7, TakenValue
<1>9. PICK n : n = Decoded(Here)
  OBVIOUS
<1>10. n \in Nat /\ h + n <= Len(buf) + 1 /\ c + n <= Len(Text(entries)) /\ GoTo("top", h + n)
  BY <1>2, <1>3, <1>8, <1>9 DEF IsTaken
<1>11. awaits' = "top" /\ "top" \in Reading
  BY <1>2 DEF GoTo, Reading
<1>12. PICK v : v = Text(entries)[c + n]
  OBVIOUS
<1>13. IsPlace(v)'
  <2>1. CASE Taken = ValueIn(entries, i, 0) /\ v = NextItem(entries, i, 0)
    <3>1. Taken = entries[i].value /\ v = NextEntry(entries, i)
      BY <2>1 DEF ValueIn, NextItem
    <3>2. meta' = [k \in DOMAIN meta \cup {entries[i].key} |->
                     IF k = entries[i].key THEN entries[i].value ELSE meta[k]]
      BY <1>2, <1>6, <3>1
    <3>3. ReadEntries(i)'
      BY <1>2, <1>4, <1>6, <3>2, EntryRead
    <3>4. i \in 0..Len(entries')
      <4>1. Len(entries) \in Nat /\ i \in 1..Len(entries)
        BY <1>4, FileFacts
      <4> QED  BY <1>2, <4>1
    <3>5. v = NextEntry(entries', i)
      BY <1>2, <3>1
    <3>6. AtTop(v)'
      BY <1>11, <3>3, <3>4, <3>5 DEF AtTop
    <3> QED  BY <3>6 DEF IsPlace
  <2>2. CASE CanBeCutBadly(entries) /\ v = Unit("value", 2, i, 0)
    <3>1. v.ch = "value" /\ v.part # 1
      BY <2>2 DEF Unit
    <3>2. CanBeCutBadly(entries)'
      BY <1>2, <2>2 DEF CanBeCutBadly, Values
    <3>3. AtRest(v)'
      BY <1>11, <3>1, <3>2 DEF AtRest
    <3> QED  BY <3>3 DEF IsPlace
  <2> QED  BY <1>8, <1>9, <1>12, <2>1, <2>2 DEF IsTaken
<1> QED  BY <1>1, <1>2, <1>10, <1>11, <1>12, <1>13, GoesOn

LEMMA TakeNodeStep ==
  ASSUME IsReading, TakeNode
  PROVE  MovesOn
<1>1. PICK h, c, u : IsAt(h, c, u)
  BY ReaderIsAt
<1>2. /\ UNCHANGED <<source, unread, meta>> /\ entries' = entries /\ meta' = meta
      /\ awaits = "node" /\ Decoded(Here) # 0
      /\ IF IsNode(Taken)
         THEN nodes' = Append(nodes, [key |-> id, value |-> Taken]) /\ GoTo("member", Here + Decoded(Here))
         ELSE Fail
  BY DEF TakeNode, Ready, source
<1>3. /\ ~Out /\ h = Here /\ h \in 1..Len(buf) /\ IsPlace(u)
  BY <1>1, <1>2, DecodedHere DEF IsAt
<1>4. IsFile(entries) /\ Len(buf) \in Nat
  BY WindowFacts
<1>5. AtMember(u)
  <2>1. ~AtLoss
    BY <1>3, <1>4, WindowFacts, ReaderIsAtHere DEF AtLoss, IsAtHere
  <2> QED  BY <1>2, <1>3, <2>1, PlaceFacts
<1>6. PICK i \in Sections : \E j \in 1..Len(entries[i].value.section) :
        /\ ReadMembers(i, j - 1) /\ id = entries[i].value.section[j].key
        /\ u = Unit("value", 1, i, j)
  BY <1>2, <1>5 DEF AtMember
<1>7. PICK j \in 1..Len(entries[i].value.section) :
        /\ ReadMembers(i, j - 1) /\ id = entries[i].value.section[j].key
        /\ u = Unit("value", 1, i, j)
  BY <1>6
<1>8. IsValue(i, j) /\ j # 0
  BY DEF IsValue
<1>9. IsTaken(h, c, i, j)
  BY <1>1, <1>2, <1>7, <1>8, TakenValue
<1>10. CASE IsNode(Taken)
  <2>1. PICK n : n = Decoded(Here)
    OBVIOUS
  <2>2. /\ n \in Nat /\ h + n <= Len(buf) + 1 /\ c + n <= Len(Text(entries))
        /\ GoTo("member", h + n)
    BY <1>2, <1>3, <1>9, <1>10, <2>1 DEF IsTaken
  <2>3. Taken # Shortened
    BY <1>10, ShortenedAssumption
  <2>4. PICK v : v = Text(entries)[c + n]
    OBVIOUS
  <2>5. Taken = ValueIn(entries, i, j) /\ v = NextItem(entries, i, j)
    BY <1>9, <2>1, <2>3, <2>4 DEF IsTaken
  <2>6. Taken = entries[i].value.section[j].value /\ v = NextMember(entries, i, j)
    BY <1>8, <2>5 DEF ValueIn, NextItem
  <2>7. ReadMembers(i, j)'
    <3>1. IsNode(entries[i].value.section[j].value)
      BY <1>10, <2>6
    <3>2. nodes' = Append(nodes, [key |-> entries[i].value.section[j].key,
                                  value |-> entries[i].value.section[j].value])
      BY <1>2, <1>7, <1>10, <2>6
    <3> QED  BY <1>2, <1>4, <1>7, <3>1, <3>2, MemberRead
  <2>8. awaits' = "member" /\ "member" \in Reading
    BY <2>2 DEF GoTo, Reading
  <2>9. AtMembers(v)'
    <3>1. Len(entries[i].value.section) \in Nat
      BY <1>4, FileFacts DEF Sections
    <3>2. j \in 0..Len(entries[i].value.section)
      BY <3>1
    <3>3. i \in Sections' /\ j \in 0..Len(entries'[i].value.section) /\ v = NextMember(entries', i, j)
      BY <1>2, <2>6, <3>2 DEF Sections
    <3> QED  BY <2>7, <2>8, <3>3 DEF AtMembers
  <2>10. IsPlace(v)'
    BY <2>9 DEF IsPlace
  <2> QED  BY <1>1, <1>2, <2>2, <2>4, <2>8, <2>10, GoesOn
<1>11. CASE ~IsNode(Taken)
  <2>1. MayFail
    <3>1. CASE Taken = ValueIn(entries, i, j)
      <4>1. ~IsNode(entries[i].value.section[j].value)
        BY <1>8, <1>11, <3>1 DEF ValueIn
      <4>2. i \in DOMAIN entries /\ IsSection(entries[i].value)
        BY DEF Sections
      <4>3. entries[i].key = "nodes" /\ j \in DOMAIN entries[i].value.section
        <5>1. /\ entries[i].key = "nodes"
              /\ DOMAIN entries[i].value.section = 1..Len(entries[i].value.section)
          BY <1>4, <4>2, FileFacts
        <5> QED  BY <1>4, <5>1
      <4> QED  BY <4>1, <4>2, <4>3 DEF MayFail, IsLoadable
    <3>2. CASE CanBeCutBadly(entries)
      BY <3>2 DEF MayFail
    <3> QED  BY <1>9, <3>1, <3>2 DEF IsTaken
  <2> QED  BY <1>2, <1>11, <2>1, Fails
<1> QED  BY <1>10, <1>11

\* A value that is all there can be decoded.
LEMMA UndecodedValue ==
  ASSUME IsReading, NEW h, NEW c, NEW u, IsAt(h, c, u), ~Out, Decoded(Here) = 0,
         NEW i, NEW j, u = Unit("value", 1, i, j), IsValue(i, j), NEW n,
         n = Spelling(ValueIn(entries, i, j)).parts
  PROVE  h + n - 1 > Len(buf) /\ c + n \in 1..Len(Text(entries)) /\ n \in Nat \ {0}
<1>1. Len(buf) \in Nat /\ IsFile(entries)
  BY WindowFacts
<1>2. h \in 1..(Len(buf) + 1) /\ c \in 1..Len(Text(entries)) /\ Text(entries)[c] = u
  BY DEF IsAt
<1>3. n \in Nat \ {0}
  BY <1>1, ValueFacts
<1>4. Decoded(Here) = IF h + n - 1 <= Len(buf) THEN n
                      ELSE IF Spelling(ValueIn(entries, i, j)).kind = "fraction" THEN 1 ELSE 0
  BY DecodedHere
<1>5. h + n - 1 > Len(buf)
  BY <1>1, <1>2, <1>3, <1>4
<1>6. c + n \in 1..Len(Text(entries))
  BY <1>1, <1>2, <1>3, WholeValue
<1> QED  BY <1>3, <1>5, <1>6

\* Where the reader decodes a key or a value one begins, but behind a number cut short.
LEMMA DecodesKeyOrValue ==
  ASSUME IsReading, Decoding, ~Out, NEW h, NEW c, NEW u, IsAt(h, c, u), ~AtRest(u)
  PROVE  \E i, j : \/ u = Unit("key", 1, i, j)
                   \/ u = Unit("value", 1, i, j) /\ IsValue(i, j)
<1>1. IsFile(entries) /\ Len(buf) \in Nat
  BY WindowFacts
<1>2. IsPlace(u) /\ h \in 1..Len(buf) /\ h = Here
  BY DEF IsAt
<1>3. ~AtLoss
  BY <1>1, <1>2, WindowFacts, ReaderIsAtHere DEF AtLoss, IsAtHere
<1>4. CASE awaits = "key"
  <2>1. AtEntry(u)
    BY <1>2, <1>4, PlaceFacts
  <2> QED  BY <1>4, <2>1 DEF AtEntry
<1>5. CASE awaits = "id"
  <2>1. AtMember(u)
    BY <1>2, <1>5, PlaceFacts
  <2> QED  BY <1>5, <2>1 DEF AtMember
<1>6. CASE awaits = "value"
  <2>1. AtEntry(u)
    BY <1>2, <1>3, <1>6, PlaceFacts
  <2>2. PICK i \in DOMAIN entries :
          key = entries[i].key /\ key # "nodes" /\ u = FirstOf(entries, i, 0)
    BY <1>6, <2>1 DEF AtEntry
  <2>3. ~IsSection(entries[i].value)
    BY <1>1, <2>2, FileFacts
  <2>4. u = Unit("value", 1, i, 0) /\ IsValue(i, 0)
    BY <2>2, <2>3 DEF FirstOf, IsValue
  <2> QED  BY <2>4
<1>7. CASE awaits = "node"
  <2>1. AtMember(u)
    BY <1>2, <1>3, <1>7, PlaceFacts
  <2>2. \E i \in Sections : \E j \in 1..Len(entries[i].value.section) : u = Unit("value", 1, i, j)
    BY <1>7, <2>1 DEF AtMember
  <2>3. \E i, j : u = Unit("value", 1, i, j) /\ IsValue(i, j)
    BY <2>2 DEF IsValue
  <2> QED  BY <2>3
<1> QED  BY <1>4, <1>5, <1>6, <1>7 DEF Decoding

\* What the reader cannot decode it may fail on at the end of the text.
LEMMA UndecodableStep ==
  ASSUME IsReading, Undecodable
  PROVE  MovesOn
<1>1. PICK h, c, u : IsAt(h, c, u)
  BY ReaderIsAt
<1>2. UNCHANGED <<source, unread>> /\ Decoding /\ Decoded(Here) = 0 /\ Fail /\ AtEOF
  BY DEF Undecodable, Ready, WantsMore, Decoding
<1>3. IsFile(entries) /\ Len(buf) \in Nat /\ Dropped \in Nat
  BY WindowFacts
<1>4. CASE Out
  BY <1>2, <1>4, EndOfShortText, Fails
<1>5. CASE ~Out
  <2> SUFFICES MayFail
    BY <1>2, Fails
  <2>1. /\ h \in 1..Len(buf) /\ c = Dropped + h /\ c \in 1..Len(Text(entries))
        /\ u = Text(entries)[c]
    BY <1>1, <1>5 DEF IsAt
  <2>2. ASSUME NEW i, NEW j, u = Unit("key", 1, i, j)
        PROVE  MayFail
    <3>1. c + 2 \in 1..Len(Text(entries))
      BY <1>3, <2>1, <2>2, WholeKey
    <3>2. h + 2 - 1 > Len(buf)
      BY <1>1, <1>2, <1>3, <1>5, <2>1, <2>2, DecodedHere DEF KeyParts
    <3>3. c + 2 > Dropped + Len(buf)
      BY <1>3, <2>1, <3>2
    <3> QED  BY <1>2, <3>1, <3>3, TextIsShort DEF MayFail
  <2>3. ASSUME NEW i, NEW j, u = Unit("value", 1, i, j), IsValue(i, j)
        PROVE  MayFail
    <3>1. PICK n : n = Spelling(ValueIn(entries, i, j)).parts
      OBVIOUS
    <3>2. h + n - 1 > Len(buf) /\ c + n \in 1..Len(Text(entries)) /\ n \in Nat \ {0}
      BY <1>1, <1>2, <1>5, <2>3, <3>1, UndecodedValue
    <3>3. c + n > Dropped + Len(buf)
      BY <1>3, <2>1, <3>2
    <3> QED  BY <1>2, <3>2, <3>3, TextIsShort DEF MayFail
  <2>4. AtRest(u) => MayFail
    BY DEF AtRest, MayFail
  <2> QED  BY <1>1, <1>2, <1>5, <2>2, <2>3, <2>4, DecodesKeyOrValue
<1> QED  BY <1>4, <1>5

LEMMA BeginStep ==
  ASSUME ReaderInv, NEW es \in File, NEW lost \in 0..Len(Text(es)), Begin(es, lost)
  PROVE  ReaderInv'
<1>1. ReaderInit
  BY DEF Begin, ReaderInv
<1>2. /\ entries' = es /\ text' = SubSeq(Text(es), 1, Len(Text(es)) - lost) /\ awaits' = "start"
      /\ unread' = 1 /\ buf' = <<>> /\ pos' = 1 /\ nodes' = <<>> /\ meta' = [k \in {} |-> ""]
  BY <1>1 DEF Begin, ReaderInit
<1>3. IsFile(es)
  BY FileAssumption
<1>4. Text(es) \in Seq(Units) /\ Len(Text(es)) \in Nat \ {0}
  BY <1>3, TextFacts
<1>4a. Text(es)[1] = Mark(" ", 0, 0)
  BY <1>3, TextFacts
<1>5. Len(text') = Len(Text(es)) - lost /\ Len(text') \in 0..Len(Text(es))
  <2>1. PICK n : n = Len(Text(es)) - lost
    OBVIOUS
  <2>2. n \in 0..Len(Text(es))
    BY <1>4, <2>1
  <2>3. Len(SubSeq(Text(es), 1, n)) = n
    BY <1>4, <2>2
  <2> QED  BY <1>2, <2>1, <2>2, <2>3
<1>6. text' = SubSeq(Text(entries'), 1, Len(text')) /\ Len(text') \in 0..Len(Text(entries'))
  BY <1>2, <1>5
<1>7. Len(buf') = 0 /\ buf' \in Seq(Units)
  BY <1>2
<1>8. Dropped' = 0 /\ (Dropped + pos)' = 1
  <2>1. Dropped' = 1 - 1 - 0
    BY <1>2, <1>7 DEF Dropped
  <2> QED  BY <1>2, <2>1
<1>9. IsWindow'
  <2>1. unread' \in 1..(Len(text') + 1) /\ Len(buf') \in 0..(unread' - 1) /\ pos' \in 1..(Len(buf') + 1)
    <3>1. Len(text') \in Nat
      BY <1>4, <1>5
    <3>2. unread' = 1 /\ pos' = 1 /\ Len(buf') = 0
      BY <1>2, <1>7
    <3> QED  BY <3>1, <3>2
  <2>2. \A p \in 1..Len(buf') : buf'[p] = Text(entries')[Dropped' + p]
    BY <1>7
  <2> QED  BY <1>6, <1>7, <2>1, <2>2 DEF IsWindow
<1>10. ReadEntries(0)'
  <2>1. 0 \in 0..Len(es)
    BY <1>3, FileFacts
  <2>2. nodes' = NodesOf(es, 0) /\ meta' = MetaOf(es, 0)
    BY <1>2, NothingRead
  <2>3. LoadableUpto(0)'
    BY DEF LoadableUpto
  <2> QED  BY <1>2, <2>1, <2>2, <2>3 DEF ReadEntries
<1>11. PICK v : v = Mark(" ", 0, 0)
  OBVIOUS
<1>12. IsPlace(v)'
  BY <1>2, <1>10, <1>11 DEF IsPlace, AtStart
<1>13. (Text(entries)[Dropped + pos])' = v
  BY <1>2, <1>4a, <1>8, <1>11
<1>14. (Dropped + pos <= Len(Text(entries)) /\ IsPlace(Text(entries)[Dropped + pos]))'
  <2>1. (Dropped + pos <= Len(Text(entries)))'
    <3>1. 1 <= Len(Text(es))
      BY <1>4
    <3> QED  BY <1>2, <1>8, <3>1
  <2> QED  BY <1>12, <1>13, <2>1
<1>15. IsFile(entries)'
  BY <1>2, <1>3
<1> QED  BY <1>2, <1>9, <1>14, <1>15 DEF ReaderInv, Reading

LEMMA LoadStep ==
  ASSUME ReaderInv, Load
  PROVE  IsReading /\ ((\E n \in 1..ChunkSize : Read(n)) \/ MovesOn)
<1>1. IsReading
  BY DEF IsReading, Load, Read, Open, Close, CloseNodes, EnterEntry, SkipColon, TakeKey, TakeEntry,
         TakeNode, Undecodable, Ready, Reading
<1>2. CASE Open
  BY <1>1, <1>2, OpenStep
<1>3. CASE Close
  BY <1>1, <1>3, CloseStep
<1>4. CASE CloseNodes
  BY <1>1, <1>4, CloseNodesStep
<1>5. CASE EnterEntry
  BY <1>1, <1>5, EnterEntryStep
<1>6. CASE SkipColon
  BY <1>1, <1>6, SkipColonStep
<1>7. CASE TakeKey
  BY <1>1, <1>7, TakeKeyStep
<1>8. CASE TakeEntry
  BY <1>1, <1>8, TakeEntryStep
<1>9. CASE TakeNode
  BY <1>1, <1>9, TakeNodeStep
<1>10. CASE Undecodable
  BY <1>1, <1>10, UndecodableStep
<1> QED  BY <1>1, <1>2, <1>3, <1>4, <1>5, <1>6, <1>7, <1>8, <1>9, <1>10 DEF Load

(***************************************************************************)
(* Whatever files there are, however long, and however the stream is cut   *)
(* into chunks: the buffer is a piece of the file's text, the reader stands *)
(* at the unit its state expects, and has taken from the file just what is *)
(* before it (_stream_parse_graph, _stream_parse_nodes_section).           *)
(***************************************************************************)
THEOREM ReaderInvariant == ReaderSpec => []ReaderInv
<1>1. ReaderInit => ReaderInv
  BY DEF ReaderInit, ReaderInv, Reading
<1>2. ReaderInv /\ [ReaderNext]_readerVars => ReaderInv'
  <2> SUFFICES ASSUME ReaderInv, [ReaderNext]_readerVars
               PROVE  ReaderInv'
    OBVIOUS
  <2>1. CASE \E es \in File : \E lost \in 0..Len(Text(es)) : Begin(es, lost)
    BY <2>1, BeginStep
  <2>2. CASE Load
    BY <2>2, LoadStep, ReadStep DEF MovesOn
  <2>3. CASE UNCHANGED readerVars
    <3>1. /\ entries' = entries /\ text' = text /\ unread' = unread /\ buf' = buf /\ pos' = pos
          /\ awaits' = awaits /\ key' = key /\ id' = id /\ nodes' = nodes /\ meta' = meta
      BY <2>3 DEF readerVars
    <3>2. ReaderInit => ReaderInit'
      BY <3>1 DEF ReaderInit
    <3>3. IsWindow => IsWindow'
      BY <3>1 DEF IsWindow, Dropped
    <3>4. /\ \A i : ReadEntries(i) => ReadEntries(i)'
          /\ \A i, j : ReadMembers(i, j) => ReadMembers(i, j)'
      BY <3>1, StillRead DEF source
    <3>5. ASSUME NEW u, IsPlace(u)
          PROVE  IsPlace(u)'
      <4>1. AtStart(u) => AtStart(u)'
        BY <3>1, <3>4 DEF AtStart
      <4>2. AtTop(u) => AtTop(u)'
        BY <3>1, <3>4 DEF AtTop
      <4>3. AtEntry(u) => AtEntry(u)'
        BY <3>1, <3>4 DEF AtEntry
      <4>4. AtMembers(u) => AtMembers(u)'
        BY <3>1, <3>4 DEF AtMembers, Sections
      <4>5. AtMember(u) => AtMember(u)'
        BY <3>1, <3>4 DEF AtMember, Sections
      <4>6. AtRest(u) => AtRest(u)'
        BY <3>1 DEF AtRest, CanBeCutBadly, Values
      <4>7. AtLoss => AtLoss'
        BY <3>1 DEF AtLoss
      <4> QED  BY <3>5, <4>1, <4>2, <4>3, <4>4, <4>5, <4>6, <4>7 DEF IsPlace
    <3>6. PICK v : v = Text(entries)[Dropped + pos]
      OBVIOUS
    <3>7. (Text(entries)[Dropped + pos])' = v
      BY <3>1, <3>6 DEF Dropped
    <3>8. (Dropped + pos <= Len(Text(entries)))' <=> Dropped + pos <= Len(Text(entries))
      BY <3>1 DEF Dropped
    <3>9. MayFail => MayFail'
      BY <3>1 DEF MayFail, IsLoadable, CanBeCutBadly, Values
    <3>10. awaits \in Reading =>
             (Dropped + pos <= Len(Text(entries)) /\ IsPlace(Text(entries)[Dropped + pos]))'
      BY <3>5, <3>6, <3>7, <3>8 DEF ReaderInv
    <3>11. awaits = "done" => (Len(text) = Len(Text(entries)) /\ ReadEntries(Len(entries)))'
      BY <3>1, <3>4 DEF ReaderInv
    <3>12. awaits # "nothing" => IsFile(entries)' /\ IsWindow'
      BY <3>1, <3>3 DEF ReaderInv
    <3>13. awaits = "failed" => MayFail'
      BY <3>9 DEF ReaderInv, MayFail
    <3>14. awaits = "nothing" => ReaderInit'
      BY <3>2 DEF ReaderInv
    <3> QED  BY <3>1, <3>10, <3>11, <3>12, <3>13, <3>14 DEF ReaderInv, MayFail
  <2> QED  BY <2>1, <2>2, <2>3 DEF ReaderNext
<1> QED  BY <1>1, <1>2, PTL DEF ReaderSpec

(***************************************************************************)
(* The incremental reader returns what json.loads and from_dict make of the *)
(* whole text, and fails only on a text that lost its end, on nodes that   *)
(* cannot be made, or where a number or a character may have been cut:     *)
(* for any files and any size of the chunks (_stream_parse_graph,          *)
(* _decode_next_json_value).                                               *)
(***************************************************************************)
THEOREM StreamIsReadAsText == ReaderSpec => []ReadsWhatIsThere
<1>1. ReaderInv => ReadsWhatIsThere
  <2> SUFFICES ASSUME ReaderInv
               PROVE  ReadsWhatIsThere
    OBVIOUS
  <2>1. ASSUME awaits = "done"
        PROVE  Len(text) = Len(Text(entries)) /\ IsLoadable(entries) /\ result = Loaded(entries)
    <3>1. IsFile(entries) /\ ReadEntries(Len(entries)) /\ Len(text) = Len(Text(entries))
      BY <2>1 DEF ReaderInv
    <3>2. DOMAIN entries = 1..Len(entries)
      BY <3>1, FileFacts
    <3>3. IsLoadable(entries)
      BY <3>1, <3>2 DEF ReadEntries, LoadableUpto, IsLoadable
    <3>4. result = Loaded(entries)
      BY <3>1 DEF ReadEntries, result, Loaded
    <3> QED  BY <3>1, <3>3, <3>4
  <2>2. ASSUME awaits = "failed"
        PROVE  Len(text) < Len(Text(entries)) \/ ~IsLoadable(entries) \/ CanBeCutBadly(entries)
    BY <2>2 DEF ReaderInv
  <2> QED  BY <2>1, <2>2 DEF ReadsWhatIsThere
<1> QED  BY <1>1, ReaderInvariant, PTL

-----------------------------------------------------------------------------
(* The size of the buffer.                                                 *)

LEMMA HeldFacts ==
  ASSUME NEW es, IsFile(es), NEW v \in Values(es)
  PROVE  Held(v) \in Nat /\ Spelling(v).parts \in Nat \ {0}
<1>1. ASSUME NEW i \in DOMAIN es, ~IsSection(es[i].value)
      PROVE  Spelling(es[i].value).parts \in Nat \ {0}
  BY <1>1, FileFacts
<1>2. ASSUME NEW i \in DOMAIN es, IsSection(es[i].value), NEW j \in DOMAIN es[i].value.section
      PROVE  Spelling(es[i].value.section[j].value).parts \in Nat \ {0}
  BY <1>2, FileFacts
<1>3. Spelling(v).parts \in Nat \ {0}
  BY <1>1, <1>2 DEF Values
<1>4. Held(v) \in Nat
  BY <1>3 DEF Held
<1> QED  BY <1>3, <1>4

\* What may be held before a chunk is read: part of a key, or of one value
Heldable(es) == {KeyParts - 1} \cup {Held(v) : v \in Values(es)}

\* A reader that reads on has only the beginning of one key or value before it.
LEMMA HoldsOneValue ==
  ASSUME IsReading, WantsMore, NEW h, NEW c, NEW u, IsAt(h, c, u), ~CanBeCutBadly(entries)
  PROVE  \E held \in Heldable(entries) : Len(buf) - h + 1 <= held
<1>1. Len(buf) \in Nat /\ IsFile(entries) /\ h \in 1..(Len(buf) + 1) /\ h = Here
  BY WindowFacts DEF IsAt
<1>2. 1 \in Heldable(entries)
  BY DEF Heldable, KeyParts
<1>3. CASE Out
  <2>1. Len(buf) - h + 1 <= 1
    BY <1>1, <1>3 DEF IsAt
  <2> QED  BY <1>2, <2>1
<1>4. CASE ~Out
  <2>1. /\ Decoding /\ h \in 1..Len(buf) /\ buf[Here] = u
        /\ \/ Decoded(Here) = 0
           \/ IsScalar(u) /\ h + Decoded(Here) = Len(buf) + 1
    BY <1>1, <1>4 DEF WantsMore, IsAt
  <2>2. ~AtRest(u)
    BY DEF AtRest
  <2>3. ASSUME NEW i, NEW j, u = Unit("key", 1, i, j)
        PROVE  Len(buf) - h + 1 <= 1
    <3>1. ~IsScalar(u)
      BY <2>3 DEF IsScalar, KindOf, Unit
    <3>2. h + 2 - 1 > Len(buf)
      BY <1>1, <1>4, <2>1, <2>3, <3>1, DecodedHere DEF KeyParts
    <3> QED  BY <1>1, <2>1, <3>2
  <2>4. ASSUME NEW i, NEW j, u = Unit("value", 1, i, j), IsValue(i, j)
        PROVE  \E held \in Heldable(entries) : Len(buf) - h + 1 <= held
    <3>1. PICK v : v = ValueIn(entries, i, j)
      OBVIOUS
    <3>2. PICK n : n = Spelling(v).parts
      OBVIOUS
    <3>3. v \in Values(entries) /\ n \in Nat \ {0}
      BY <1>1, <2>4, <3>1, <3>2, ValueFacts
    <3>4. Held(v) \in Heldable(entries)
      BY <3>3 DEF Heldable
    <3>5. Held(v) = IF Spelling(v).kind \in {"scalar", "fraction"} THEN n ELSE n - 1
      BY <3>2 DEF Held
    <3>6. CASE Decoded(Here) = 0
      <4>1. h + n - 1 > Len(buf)
        BY <1>4, <2>4, <3>1, <3>2, <3>6, UndecodedValue
      <4>2. Len(buf) - h + 1 <= n - 1 /\ n - 1 <= Held(v)
        BY <1>1, <3>3, <3>5, <4>1
      <4>3. Len(buf) - h + 1 <= Held(v)
        BY <1>1, <3>3, <3>5, <4>2
      <4> QED  BY <3>4, <4>3
    <3>7. CASE IsScalar(u) /\ h + Decoded(Here) = Len(buf) + 1
      <4>1. /\ Item(buf[Here]).value = v
            /\ Decoded(Here) = IF h + n - 1 <= Len(buf) THEN n
                               ELSE IF Spelling(v).kind = "fraction" THEN 1 ELSE 0
        BY <1>4, <2>4, <3>1, <3>2, DecodedHere
      <4>2. Decoded(Here) \in 0..n
        BY <3>3, <4>1
      <4>3. u.ch = "value"
        BY <2>4 DEF Unit
      <4>4. Held(v) = n
        BY <2>1, <3>5, <3>7, <4>1, <4>3 DEF IsScalar, KindOf
      <4>5. Len(buf) - h + 1 <= Held(v)
        BY <1>1, <3>3, <3>7, <4>2, <4>4
      <4> QED  BY <3>4, <4>5
    <3> QED  BY <2>1, <3>6, <3>7
  <2> QED  BY <1>2, <1>4, <2>1, <2>2, <2>3, <2>4, DecodesKeyOrValue
<1> QED  BY <1>3, <1>4

LEMMA BufferStep ==
  ASSUME ReaderInv, BufferHoldsOneValue, [ReaderNext]_readerVars
  PROVE  BufferHoldsOneValue'
<1>1. CASE \E es \in File : \E lost \in 0..Len(Text(es)) : Begin(es, lost)
  <2>1. ReaderInit
    BY <1>1 DEF Begin, ReaderInv
  <2>2. buf' = <<>>
    BY <1>1, <2>1 DEF Begin, ReaderInit
  <2>3. Len(buf') <= (KeyParts - 1) + ChunkSize
    BY <2>2, ChunkAssumption DEF KeyParts
  <2> QED  BY <2>3 DEF BufferHoldsOneValue
<1>2. CASE \E n \in 1..ChunkSize : Read(n)
  <2>1. PICK n \in 1..ChunkSize : Read(n)
    BY <1>2
  <2>2. IsReading /\ WantsMore
    BY <2>1 DEF IsReading, Read
  <2>3. PICK h, c, u : IsAt(h, c, u)
    BY <2>2, ReaderIsAt
  <2>4. entries' = entries /\ Len(buf') = Len(buf) - h + 1 + n
    BY <2>1, <2>2, <2>3, ReadMoves DEF Read, source, IsAt
  <2>5. CASE CanBeCutBadly(entries)
    BY <2>4, <2>5 DEF BufferHoldsOneValue, CanBeCutBadly, Values
  <2>6. CASE ~CanBeCutBadly(entries)
    <3>1. PICK held \in Heldable(entries) : Len(buf) - h + 1 <= held
      BY <2>2, <2>3, <2>6, HoldsOneValue
    <3>2. held \in Nat
      BY <2>2, WindowFacts, HeldFacts DEF Heldable, KeyParts
    <3>3. h \in Nat /\ Len(buf) \in Nat
      BY <2>2, <2>3, WindowFacts DEF IsAt
    <3>4. Len(buf') <= held + ChunkSize
      BY <2>4, <3>1, <3>2, <3>3, ChunkAssumption
    <3>5. held \in Heldable(entries')
      BY <2>4
    <3> QED  BY <3>4, <3>5 DEF BufferHoldsOneValue, Heldable
  <2> QED  BY <2>5, <2>6
<1>3. CASE Len(buf') \in 0..Len(buf) /\ entries' = entries /\ IsReading
  <2>1. CASE CanBeCutBadly(entries)
    BY <1>3, <2>1 DEF BufferHoldsOneValue, CanBeCutBadly, Values
  <2>2. CASE ~CanBeCutBadly(entries)
    <3>1. PICK held \in Heldable(entries) : Len(buf) <= held + ChunkSize
      BY <2>2 DEF BufferHoldsOneValue, Heldable
    <3>2. held \in Nat /\ Len(buf) \in Nat
      BY <1>3, WindowFacts, HeldFacts DEF Heldable, KeyParts
    <3>3. Len(buf') <= held + ChunkSize
      BY <1>3, <3>1, <3>2, ChunkAssumption
    <3>4. held \in Heldable(entries')
      BY <1>3
    <3> QED  BY <3>3, <3>4 DEF BufferHoldsOneValue, Heldable
  <2> QED  BY <2>1, <2>2
<1>4. CASE UNCHANGED <<entries, buf>>
  BY <1>4 DEF BufferHoldsOneValue, CanBeCutBadly, Values
<1>5. CASE Load
  BY <1>2, <1>3, <1>5, LoadStep DEF MovesOn
<1> QED  BY <1>1, <1>4, <1>5 DEF ReaderNext, readerVars

(***************************************************************************)
(* For any files, values of any size, and any size of the chunks: the      *)
(* buffer never holds more than what can be held of one key or value, and  *)
(* a chunk (_read_next_chunk, _skip_ws_and_tokens,                         *)
(* _decode_next_json_value).                                               *)
(***************************************************************************)
THEOREM BufferIsBounded == ReaderSpec => []BufferHoldsOneValue
<1>1. ReaderInit => BufferHoldsOneValue
  <2> SUFFICES ASSUME ReaderInit
               PROVE  BufferHoldsOneValue
    OBVIOUS
  <2>1. buf = <<>>
    BY DEF ReaderInit
  <2>2. Len(buf) <= (KeyParts - 1) + ChunkSize
    BY <2>1, ChunkAssumption DEF KeyParts
  <2> QED  BY <2>2 DEF BufferHoldsOneValue
<1>2. ReaderInv /\ BufferHoldsOneValue /\ [ReaderNext]_readerVars => BufferHoldsOneValue'
  BY BufferStep
<1> QED  BY <1>1, <1>2, ReaderInvariant, PTL DEF ReaderSpec
=============================================================================
