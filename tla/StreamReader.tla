---------------------------- MODULE StreamReader ----------------------------
(***************************************************************************)
(* The incremental reader of serialization.py: _stream_parse_graph and its *)
(* helpers, which take a graph from a stream that gives the text of a file *)
(* in chunks.                                                              *)
(*                                                                         *)
(* The text of a file is a sequence of units: the punctuation of the top   *)
(* level and of the nodes section, one unit of white space, and the parts  *)
(* of the keys and values that the reader hands to json's raw_decode,      *)
(* which are not looked into.  A unit knows the entry and the member of a  *)
(* section that it is part of, 0 where it is part of none; the reader      *)
(* looks at ch, and raw_decode at the rest.                                *)
(***************************************************************************)
EXTENDS Integers, Sequences

CONSTANTS
  File,         \* the files there are, as sequences of [key, value]
  ChunkSize,    \* chunk_size, in units
  Spelling(_),  \* a value's number of parts, and their kind: "closed" by a mark,
                \* "scalar", "fraction" (a scalar whose first part is a number too),
                \* "accented" (closed, with a character of two bytes in parts 2 and 3)
  Shortened,    \* what raw_decode makes of the first part of a fraction
  IsNode(_),    \* whether a node can be made of a value
  Built(_, _)   \* the graph with these members filed as its nodes, and these entries

VARIABLES
  entries,      \* the file's top-level entries in their order
  text,         \* the file's text
  unread,       \* where the next read starts in it
  buf, pos,     \* the reader's buffer and its place in it
  awaits,       \* what the reader expects next
  key, id,      \* the entry and the node being read
  nodes,        \* the [key, value] the nodes section gave, in the order they were filed
  meta          \* the entries beside the nodes

source == <<entries, text>>
readerVars == <<entries, text, unread, buf, pos, awaits, key, id, nodes, meta>>

-----------------------------------------------------------------------------
(* Files.  The nodes of a file are a section: a sequence of [key, value].  *)

Section(s) == [section |-> s]
IsSection(v) == DOMAIN v = {"section"}

IsSequence(s) == s \in Seq({s[i] : i \in DOMAIN s})

IsSpelled(v) == Spelling(v).parts \in Nat \ {0}

\* A file has no section but its nodes; everything else is spelled in parts.
IsFile(es) ==
  /\ IsSequence(es)
  /\ \A i \in DOMAIN es :
       LET v == es[i].value
       IN  IF ~IsSection(v) THEN IsSpelled(v)
           ELSE /\ es[i].key = "nodes" /\ IsSequence(v.section)
                /\ \A j \in DOMAIN v.section :
                     LET m == v.section[j] IN m = [key |-> m.key, value |-> m.value] /\ IsSpelled(m.value)

ASSUME FileAssumption == \A es \in File : IsFile(es)
ASSUME ChunkAssumption == ChunkSize \in Nat \ {0}
\* A number is no dict.
ASSUME ShortenedAssumption == ~IsNode(Shortened)

\* Keys are plain strings.
KeyParts == 2

Unit(ch, part, i, j) == [ch |-> ch, part |-> part, entry |-> i, member |-> j]
Mark(ch, i, j) == Unit(ch, 1, i, j)
SpelledKey(i, j) == [p \in 1..KeyParts |-> Unit("key", p, i, j)] \o <<Mark(":", i, j)>>
SpelledValue(v, i, j) == [p \in 1..Spelling(v).parts |-> Unit("value", p, i, j)]

\* Sequences, one after the other
Joined(items) ==
  LET upto[n \in 0..Len(items)] == IF n = 0 THEN <<>> ELSE upto[n - 1] \o items[n]
  IN  upto[Len(items)]

\* The comma before each item but the first
Comma(n, i, j) == IF n = 1 THEN <<>> ELSE <<Mark(",", i, j)>>

SpelledMember(s, i, j) == Comma(j, i, j) \o SpelledKey(i, j) \o SpelledValue(s[j].value, i, j)

SpelledSection(s, i) ==
  <<Mark("{", i, 0)>> \o Joined([j \in DOMAIN s |-> SpelledMember(s, i, j)]) \o <<Mark("}", i, 0)>>

SpelledEntry(es, i) ==
  Comma(i, i, 0) \o SpelledKey(i, 0) \o
  (IF IsSection(es[i].value) THEN SpelledSection(es[i].value.section, i) ELSE SpelledValue(es[i].value, i, 0))

Text(es) ==
  <<Mark(" ", 0, 0), Mark("{", 0, 0)>> \o Joined([i \in DOMAIN es |-> SpelledEntry(es, i)]) \o <<Mark("}", 0, 0)>>

\* The entry or member a unit is part of
Item(u) == IF u.member = 0 THEN entries[u.entry] ELSE entries[u.entry].value.section[u.member]

\* The last of the first i entries under a key
LastUnder(es, i, k) == CHOOSE p \in 1..i : es[p].key = k /\ \A q \in (p + 1)..i : es[q].key # k

\* What json.loads makes of the first i entries: their nodes, and the other entries
NodesOf(es, i) ==
  IF \E p \in 1..i : es[p].key = "nodes" THEN es[LastUnder(es, i, "nodes")].value.section ELSE <<>>
MetaOf(es, i) == [k \in {es[p].key : p \in 1..i} \ {"nodes"} |-> es[LastUnder(es, i, k)].value]

\* json.loads and from_dict of the whole text, the nodes in the file's order
Loaded(es) == Built(NodesOf(es, Len(es)), MetaOf(es, Len(es)))

-----------------------------------------------------------------------------
(* The reader's buffer.                                                    *)

\* The tokens skipped before each thing the reader expects
Skipped(thing) ==
  CASE thing \in {"start", "key", "value", "nodes", "id", "node"} -> {" "}
    [] thing \in {"top", "member"} -> {" ", ","}
    [] thing \in {"colon", "idColon"} -> {" ", ":"}
Reading == {"start", "top", "key", "colon", "value", "nodes", "member", "id", "idColon", "node"}

\* _skip_ws_and_tokens: the place of the next thing in the buffer, past its end if it has none.
StopsAt(p) == buf[p].ch \notin Skipped(awaits)
Here ==
  IF \E p \in pos..Len(buf) : StopsAt(p)
  THEN CHOOSE p \in pos..Len(buf) : StopsAt(p) /\ \A q \in pos..(p - 1) : ~StopsAt(q)
  ELSE Len(buf) + 1
Out == Here > Len(buf)
Char == IF Out THEN "" ELSE buf[Here].ch

PartsOf(u) == IF u.ch = "key" THEN KeyParts ELSE Spelling(Item(u).value).parts
KindOf(u) == IF u.ch = "key" THEN "closed" ELSE Spelling(Item(u).value).kind

\* raw_decode at a place of the buffer: how many units it takes, 0 if it fails
Decoded(p) ==
  IF p > Len(buf) THEN 0
  ELSE IF buf[p].ch \notin {"key", "value"} \/ buf[p].part # 1 THEN 0
  ELSE IF p + PartsOf(buf[p]) - 1 <= Len(buf) THEN PartsOf(buf[p])
  ELSE IF KindOf(buf[p]) = "fraction" THEN 1
  ELSE 0
IsScalar(u) == KindOf(u) \in {"scalar", "fraction"}

\* Mutant of WantsMore: every value that ends with the buffer is read on.
WantsMoreOfAll ==
  LET decoding == awaits \in {"key", "value", "id", "node"}
  IN  \/ Out
      \/ decoding /\ Decoded(Here) = 0
      \/ decoding /\ ~Out /\ Here + Decoded(Here) = Len(buf) + 1

\* _decode_next_json_value reads on where it cannot decode or a scalar ends with the buffer.
Decoding == awaits \in {"key", "value", "id", "node"}

WantsMore ==
  \/ Out
  \/ Decoding /\ Decoded(Here) = 0
  \/ Decoding /\ ~Out /\ IsScalar(buf[Here]) /\ Here + Decoded(Here) = Len(buf) + 1

AtEOF == unread > Len(text)

\* The buffer from p on and the chunk behind it
Refilled(p, chunk) == SubSeq(buf, p, Len(buf)) \o chunk

\* A chunk of bytes that ends inside a character
CutsCharacter(chunk) ==
  LET u == chunk[Len(chunk)] IN u.ch = "value" /\ u.part = 2 /\ KindOf(u) = "accented"

-----------------------------------------------------------------------------
(* Reading.                                                                *)

ReaderInit ==
  /\ entries = <<>> /\ text = <<>> /\ awaits = "nothing"
  /\ unread = 1 /\ buf = <<>> /\ pos = 1 /\ key = "" /\ id = ""
  /\ nodes = <<>> /\ meta = [k \in {} |-> ""]

\* A file is opened, which may have lost its end.
Begin(es, lost) ==
  /\ awaits = "nothing"
  /\ entries' = es
  /\ text' = SubSeq(Text(es), 1, Len(Text(es)) - lost)
  /\ awaits' = "start"
  /\ UNCHANGED <<unread, buf, pos, key, id, nodes, meta>>

\* _read_next_chunk; a stream may give less than it was asked for.
Read(n) ==
  /\ awaits \in Reading
  /\ WantsMore /\ n <= Len(text) - unread + 1
  /\ LET chunk == SubSeq(text, unread, unread + n - 1)
     IN  /\ buf' = Refilled(Here, chunk)
         /\ awaits' = IF CutsCharacter(chunk) THEN "failed" ELSE awaits
  /\ unread' = unread + n /\ pos' = 1
  /\ UNCHANGED <<source, key, id, nodes, meta>>

\* Mutant of GoTo: the place in the buffer is not reset when it is cut.
GoToUnreset(thing, p) ==
  /\ awaits' = thing
  /\ IF p > ChunkSize THEN buf' = SubSeq(buf, p, Len(buf)) /\ pos' = p
     ELSE buf' = buf /\ pos' = p

\* The reader goes on at p; the skipping that follows cuts off what lies a chunk behind.
GoTo(thing, p) ==
  /\ awaits' = thing
  /\ IF p > ChunkSize THEN buf' = SubSeq(buf, p, Len(buf)) /\ pos' = 1
     ELSE buf' = buf /\ pos' = p

\* An error is raised.
Fail == awaits' = "failed" /\ UNCHANGED <<buf, pos>>

\* Mutant of Ready: the end of the text is not noticed.
ReadyBeforeEnd(things) == awaits \in things /\ ~WantsMore

Ready(things) == awaits \in things /\ (WantsMore => AtEOF)

\* The opening brace of the file or of the nodes, or an error
Open ==
  /\ Ready({"start", "nodes"})
  /\ IF Char = "{" THEN GoTo(IF awaits = "start" THEN "top" ELSE "member", Here + 1) ELSE Fail
  /\ nodes' = IF awaits = "nodes" THEN <<>> ELSE nodes
  /\ UNCHANGED <<source, unread, key, id, meta>>

\* The closing brace of the file: the graph is made (result).
Close ==
  /\ Ready({"top"})
  /\ Char = "}"
  /\ awaits' = "done"
  /\ UNCHANGED <<source, unread, buf, pos, key, id, nodes, meta>>

CloseNodes ==
  /\ Ready({"member"})
  /\ Char = "}"
  /\ GoTo("top", Here + 1)
  /\ UNCHANGED <<source, unread, key, id, nodes, meta>>

\* Anything else begins an entry; the end of the text is an error.
EnterEntry ==
  /\ Ready({"top", "member"})
  /\ Char # "}"
  /\ IF Out THEN Fail ELSE GoTo(IF awaits = "top" THEN "key" ELSE "id", Here)
  /\ UNCHANGED <<source, unread, key, id, nodes, meta>>

SkipColon ==
  /\ Ready({"colon", "idColon"})
  /\ GoTo(IF awaits = "idColon" THEN "node" ELSE IF key = "nodes" THEN "nodes" ELSE "value", Here)
  /\ UNCHANGED <<source, unread, key, id, nodes, meta>>

TakeKey ==
  /\ Ready({"key", "id"})
  /\ Decoded(Here) # 0
  /\ LET k == Item(buf[Here]).key
     IN  IF awaits = "key" THEN key' = k /\ id' = id ELSE id' = k /\ key' = key
  /\ GoTo(IF awaits = "key" THEN "colon" ELSE "idColon", Here + Decoded(Here))
  /\ UNCHANGED <<source, unread, nodes, meta>>

\* A value that was decoded; a number may be cut short by the end of the buffer.
Taken == IF Decoded(Here) < PartsOf(buf[Here]) THEN Shortened ELSE Item(buf[Here]).value

TakeEntry ==
  /\ Ready({"value"})
  /\ Decoded(Here) # 0
  /\ meta' = [k \in DOMAIN meta \cup {key} |-> IF k = key THEN Taken ELSE meta[k]]
  /\ GoTo("top", Here + Decoded(Here))
  /\ UNCHANGED <<source, unread, key, id, nodes>>

\* A node that is no dict fails an assertion, one without an id or operator the constructor.
TakeNode ==
  /\ Ready({"node"})
  /\ Decoded(Here) # 0
  /\ IF IsNode(Taken)
     THEN nodes' = Append(nodes, [key |-> id, value |-> Taken]) /\ GoTo("member", Here + Decoded(Here))
     ELSE nodes' = nodes /\ Fail
  /\ UNCHANGED <<source, unread, key, id, meta>>

\* The error raw_decode leaves at the end of the text
Undecodable ==
  /\ Ready({"key", "value", "id", "node"})
  /\ Decoded(Here) = 0
  /\ Fail
  /\ UNCHANGED <<source, unread, key, id, nodes, meta>>

Load ==
  \/ \E n \in 1..ChunkSize : Read(n)
  \/ Open \/ Close \/ CloseNodes \/ EnterEntry \/ SkipColon \/ TakeKey \/ TakeEntry \/ TakeNode \/ Undecodable

ReaderNext ==
  \/ \E es \in File : \E lost \in 0..Len(Text(es)) : Begin(es, lost)
  \/ Load

\* The reader by itself, on any file of File that may have lost any end
ReaderSpec == ReaderInit /\ [][ReaderNext]_readerVars

\* What _stream_parse_graph returns, once the closing brace is read
result == Built(nodes, meta)

-----------------------------------------------------------------------------
(* Properties.                                                             *)

\* The nodes are a section of dicts that make nodes.
IsLoadable(es) ==
  \A i \in DOMAIN es : es[i].key = "nodes" =>
    /\ IsSection(es[i].value)
    /\ \A j \in DOMAIN es[i].value.section : IsNode(es[i].value.section[j].value)

\* The values of a file that are spelled in parts
Values(es) ==
  {es[i].value : i \in {p \in DOMAIN es : ~IsSection(es[p].value)}} \cup
  UNION {{es[i].value.section[j].value : j \in DOMAIN es[i].value.section} :
           i \in {p \in DOMAIN es : IsSection(es[p].value)}}

\* The two things a chunk may not cut: a fractional number, a character of bytes
CanBeCutBadly(es) == \E v \in Values(es) : Spelling(v).kind \in {"fraction", "accented"}

(***************************************************************************)
(* However the stream is cut into chunks, the incremental reader reads what *)
(* json.loads and from_dict make of the whole text, and fails on a text    *)
(* that lost its end and on nodes that cannot be made (_stream_parse_graph, *)
(* _decode_next_json_value).  It may fail on a file with a number or a     *)
(* character that a chunk boundary can cut.                                *)
(***************************************************************************)
ReadsWhatIsThere ==
  /\ awaits = "done" => Len(text) = Len(Text(entries)) /\ IsLoadable(entries) /\ result = Loaded(entries)
  /\ awaits = "failed" => Len(text) < Len(Text(entries)) \/ ~IsLoadable(entries) \/ CanBeCutBadly(entries)

\* What the reader may hold of a value when it reads on: a scalar, or all but the last part
Held(v) == IF Spelling(v).kind \in {"scalar", "fraction"} THEN Spelling(v).parts ELSE Spelling(v).parts - 1

(***************************************************************************)
(* The reader never holds more of a file than what it cannot yet take of a *)
(* key or a value, and a chunk: the O(max_node_size) of                    *)
(* _stream_parse_nodes_section.  Only behind a number cut short it reads   *)
(* to the end.                                                             *)
(***************************************************************************)
BufferHoldsOneValue ==
  CanBeCutBadly(entries)
  \/ \E held \in {KeyParts - 1} \cup {Held(v) : v \in Values(entries)} : Len(buf) <= held + ChunkSize

(***************************************************************************)
(* Reading a stream ends, in a graph or in an error: no loop of the reader *)
(* goes on at the end of the text.                                         *)
(***************************************************************************)
LoadingEnds == awaits \in Reading ~> awaits \in {"done", "failed"}
=============================================================================
