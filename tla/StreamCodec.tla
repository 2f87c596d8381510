----------------------------- MODULE StreamCodec -----------------------------
(***************************************************************************)
(* The conversions of the streaming server: SPDY/3.1 frames, name/value    *)
(* blocks, framed WebSocket messages and the query of an exec request.     *)
(* Bytes are numbers; a stream id is its four bytes.                       *)
(***************************************************************************)
EXTENDS Integers, Sequences, SequencesExt

CONSTANT
  Scripts  \* what is sent: [frames, blocks, message, command]

Frame(type, id, flags, body) == [type |-> type, id |-> id, flags |-> flags, body |-> body]

\* Bodies that leave room for n bytes more in a length of 24 bits.
LenMod    == 256 * 256 * 256
Byte      == 0 .. 255
Bodies(n) == {b \in Seq(Byte) : Len(b) + n < LenMod}
Word      == [1 .. 4 -> Byte]
StreamId  == {w \in Word : w[1] < 128}

\* SpdyWireFrame, and the control frame that the server does not know.  A
\* status code is the body of its frame.
SpdyWireFrame ==
  [type : {"synStream"}, id : StreamId, flags : {0}, body : Bodies(10)]
  \cup [type : {"synReply"}, id : StreamId, flags : {0}, body : Bodies(4)]
  \cup [type : {"data"}, id : StreamId, flags : Byte, body : Bodies(0)]
  \cup [type : {"rst", "goAway"}, id : StreamId, flags : {0}, body : Word]
  \cup [type : {"ping"}, id : Word, flags : {0}, body : {<<>>}]
Settings == [type : {"settings"}, id : StreamId, flags : {0}, body : Bodies(0)]

\* Header blocks: names in lower case, each once, and one value to a name.
Ascii == 0 .. 127
HeaderNames  == {n \in Seq(Ascii \ (65 .. 90)) : Len(n) < LenMod}
HeaderValues == {v \in Seq(Ascii \ {0}) : Len(v) < LenMod}
Blocks == {b \in Seq(HeaderNames \X HeaderValues) : Len(b) < LenMod /\ \A i, j \in DOMAIN b : b[i][1] = b[j][1] => i = j}

FramedMessage == [stream : Byte, payload : Seq(Byte)]

\* Arguments are ASCII: percent_decode makes a character of each byte.
ASSUME CodecAssumption ==
  \A s \in Scripts : /\ s.frames \in Seq(SpdyWireFrame \cup Settings) /\ s.blocks \in Seq(Blocks)
                     /\ s.message \in FramedMessage /\ s.command \in Seq(Seq(Ascii))

VARIABLE script

codecVars == <<script>>

EmptyScript == [frames |-> <<>>, blocks |-> <<>>, message |-> [stream |-> 0, payload |-> <<>>], command |-> <<>>]

CodecInit(S) == script \in S

----------------------------------------------------------------------------
BE3(n) == <<(n \div 256) \div 256, (n \div 256) % 256, n % 256>>
BE4(n) == <<0>> \o BE3(n)
Int3(b) == 256 * (256 * b[1] + b[2]) + b[3]

\* & 0x7fff_ffff on four bytes
Masked(b) == [b EXCEPT ![1] = @ % 128]

From(s, n) == SubSeq(s, n, Len(s))

\* header of write_spdy_wire_frame.  The length keeps 24 bits.
Header(control, type, id, flags, len) ==
  (IF control THEN <<128, 3, 0, type>> ELSE Masked(id)) \o <<flags>> \o BE3(len % LenMod)

Control(type, payload) == Header(TRUE, type, <<>>, 0, Len(payload)) \o payload

\* write_spdy_wire_frame.  The server opens no streams: a SYN_STREAM is nothing.
WriteSpdyWireFrame(f) ==
  CASE f.type = "data"     -> Header(FALSE, 0, f.id, f.flags, Len(f.body)) \o f.body
    [] f.type = "synReply" -> Control(2, Masked(f.id) \o f.body)
    [] f.type = "rst"      -> Control(3, Masked(f.id) \o f.body)
    [] f.type = "ping"     -> Control(6, f.id)
    [] f.type = "goAway"   -> Control(7, Masked(f.id) \o f.body)
    [] OTHER               -> <<>>

\* The SYN_STREAM of the client (external): the stream it is associated with
\* and a priority come before the headers.
ClientSyn(f) == Control(1, f.id \o <<0, 0, 0, 0>> \o <<0, 0>> \o f.body)
ClientBytes(f) ==
  CASE f.type = "synStream" -> ClientSyn(f)
    [] f.type = "settings"  -> Control(4, f.body)
    [] OTHER                -> WriteSpdyWireFrame(f)

\* One turn of a reader: what comes out, as none or one, and what is left.
One(f, rest) == [out |-> <<f>>, rest |-> rest]
None(rest)   == [out |-> <<>>, rest |-> rest]

\* A reader that takes n turns at the bytes s, one being the turn.
Turns(s, n, one) ==
  LET turn(before) == LET now == one[before.rest] IN [out |-> before.out \o now.out, rest |-> now.rest]
      read[k \in 0 .. n] == IF k = 0 THEN None(s) ELSE turn(read[k - 1])
  IN  read[n]

\* A control frame that is known; a short one counts as the end.
ReadControl(type, p, rest) ==
  LET least == CASE type = 1 -> 10 [] type \in {2, 6} -> 4 [] OTHER -> 8
      id    == SubSeq(p, 1, 4)
  IN  IF Len(p) < least THEN None(<<>>)
      ELSE One(CASE type = 1 -> Frame("synStream", Masked(id), 0, From(p, 11))
                 [] type = 2 -> Frame("synReply", Masked(id), 0, From(p, 5))
                 [] type = 3 -> Frame("rst", Masked(id), 0, SubSeq(p, 5, 8))
                 [] type = 6 -> Frame("ping", id, 0, <<>>)
                 [] OTHER    -> Frame("goAway", Masked(id), 0, SubSeq(p, 5, 8)), rest)

\* Mutant of ReadSpdyWireFrame: a control frame it does not know ends the stream.
ReadNoUnknown(x) ==
  LET end     == 8 + Int3(SubSeq(x, 6, 8))
      payload == SubSeq(x, 9, end)
      rest    == From(x, end + 1)
  IN  IF Len(x) < 8 \/ Len(x) < end THEN None(<<>>)
      ELSE IF x[1] < 128 THEN One(Frame("data", SubSeq(x, 1, 4), x[5], payload), rest)
      ELSE IF x[3] = 0 /\ x[4] \in {1, 2, 3, 6, 7} THEN ReadControl(x[4], payload, rest)
      ELSE None(<<>>)

\* read_spdy_wire_frame, one turn of its loop at the bytes x: a control frame
\* that it does not know is skipped, and at the end there is none.
ReadSpdyWireFrame(x) ==
  LET end     == 8 + Int3(SubSeq(x, 6, 8))
      payload == SubSeq(x, 9, end)
      rest    == From(x, end + 1)
  IN  IF Len(x) < 8 \/ Len(x) < end THEN None(<<>>)
      ELSE IF x[1] < 128 THEN One(Frame("data", SubSeq(x, 1, 4), x[5], payload), rest)
      ELSE IF x[3] = 0 /\ x[4] \in {1, 2, 3, 6, 7} THEN ReadControl(x[4], payload, rest)
      ELSE None(rest)

\* The frames of a session, to the end: a frame takes a byte at least.
ReadAll(s) == Turns(s, Len(s), [x \in Seq(Nat) |-> ReadSpdyWireFrame(x)]).out

----------------------------------------------------------------------------
\* build_nv_block, of a sequence of name and value pairs
NvField(b) == BE4(Len(b)) \o b
BuildNvBlock(h) == BE4(Len(h)) \o FlattenSeq([i \in 1 .. Len(h) |-> NvField(h[i][1]) \o NvField(h[i][2])])

Lower(b) == IF b \in 65 .. 90 THEN b + 32 ELSE b

FirstValue(v) == IF Contains(v, 0) THEN SubSeq(v, 1, (CHOOSE i \in 1 .. Len(v) : v[i] = 0 /\ \A j \in 1 .. i - 1 : v[j] # 0) - 1) ELSE v

\* A name or a value, and the bytes after it, unless they end too soon.  Its
\* length has four bytes, the first of them 0: it is below LenMod.
ReadNvField(x) ==
  LET end == 4 + Int3(SubSeq(x, 2, 4))
  IN  IF Len(x) < 4 \/ Len(x) < end THEN None(<<>>) ELSE One(SubSeq(x, 5, end), From(x, end + 1))

\* A pair: the name in lower case, of a list of values the first.
ReadPair(x) ==
  LET name  == ReadNvField(x)
      value == ReadNvField(name.rest)
  IN  IF value.out = <<>> THEN None(<<>>)
      ELSE One(<<[i \in DOMAIN name.out[1] |-> Lower(name.out[1][i])], FirstValue(value.out[1])>>, value.rest)

\* parse_nv_block_offset: the block at an offset, which moves past it only if
\* the whole block is there.
ParseNvBlockOffset(plain, at) ==
  LET x     == From(plain, at)
      count == Int3(SubSeq(x, 2, 4))
      r     == Turns(From(x, 5), count, [y \in Seq(Nat) |-> ReadPair(y)])
  IN  IF Len(x) >= 4 /\ Len(r.out) = count THEN [at |-> Len(plain) - Len(r.rest) + 1, pairs |-> r.out]
      ELSE [at |-> at, pairs |-> <<>>]

\* SpdyHeaderDecoder over a session: the plain bytes of all blocks so far are
\* kept, and each block is read where the last one ended.
DecodeBlocks(chunks) ==
  LET decode[n \in 0 .. Len(chunks)] ==
        IF n = 0 THEN [plain |-> <<>>, at |-> 1, blocks |-> <<>>]
        ELSE LET before == decode[n - 1]
                 plain  == before.plain \o chunks[n]
                 r      == ParseNvBlockOffset(plain, before.at)
             IN  [plain |-> plain, at |-> r.at, blocks |-> Append(before.blocks, r.pairs)]
  IN  decode[Len(chunks)].blocks

----------------------------------------------------------------------------
\* FramedMessage
EncodeMessage(m) == <<m.stream>> \o m.payload
DecodeMessage(raw) == [stream |-> raw[1], payload |-> Tail(raw)]

Hex == [d \in 0 .. 15 |-> IF d < 10 THEN 48 + d ELSE 55 + d]
HexValue(b) == CASE b \in 48 .. 57 -> b - 48 [] b \in 65 .. 70 -> b - 55 [] b \in 97 .. 102 -> b - 87 [] OTHER -> -1

\* percent_decode, one turn of its loop: a percent sign that two hex digits do
\* not follow stays.
PercentDecodeOne(x) ==
  IF x = <<>> THEN None(<<>>)
  ELSE IF x[1] = 37 /\ Len(x) > 2 /\ HexValue(x[2]) >= 0 /\ HexValue(x[3]) >= 0
       THEN One(16 * HexValue(x[2]) + HexValue(x[3]), From(x, 4))
  ELSE One(IF x[1] = 43 THEN 32 ELSE x[1], Tail(x))

PercentDecode(s) == Turns(s, Len(s), [x \in Seq(Nat) |-> PercentDecodeOne(x)]).out

\* What a client makes of an argument (external)
PercentEscape(b) == IF b \in 65 .. 90 THEN <<b>> ELSE <<37, Hex[b \div 16], Hex[b % 16]>>
PercentEncode(s) == FlattenSeq([i \in 1 .. Len(s) |-> PercentEscape(s[i])])

\* parse_exec_query, of pairs already split: every command value counts, in
\* order; of anything else the last one.
ValuesOf(pairs, k) ==
  FlattenSeq([i \in DOMAIN pairs |-> IF pairs[i][1] = k THEN <<PercentDecode(pairs[i][2])>> ELSE <<>>])
ParseExecQuery(pairs) ==
  LET containers == ValuesOf(pairs, "container")
  IN  [command |-> ValuesOf(pairs, "command"), container |-> IF containers = <<>> THEN <<>> ELSE Last(containers)]

----------------------------------------------------------------------------
Sent(frames)  == FlattenSeq([i \in 1 .. Len(frames) |-> ClientBytes(frames[i])])
Known(frames) == FlattenSeq([i \in 1 .. Len(frames) |-> IF frames[i].type = "settings" THEN <<>> ELSE <<frames[i]>>])

WireFramesSurvive ==
  /\ ReadAll(Sent(script.frames)) = Known(script.frames)
  /\ \A i \in DOMAIN script.frames :
       script.frames[i].type \notin {"synStream", "settings"} =>
         ReadAll(WriteSpdyWireFrame(script.frames[i])) = <<script.frames[i]>>

HeadersSurvive ==
  DecodeBlocks([i \in 1 .. Len(script.blocks) |-> BuildNvBlock(script.blocks[i])]) = script.blocks

\* A query that names a container before and after the command.
QueryOf(command) ==
  <<<<"container", <<65>>>>>> \o [i \in 1 .. Len(command) |-> <<"command", PercentEncode(command[i])>>]
  \o <<<<"container", <<66>>>>>>

QuerySurvives ==
  LET q == ParseExecQuery(QueryOf(script.command))
  IN  /\ q.command = script.command /\ q.container = <<66>>
      /\ DecodeMessage(EncodeMessage(script.message)) = script.message

\* What one side encodes the other side decodes: frames of every kind in any
\* order, with control frames nobody knows between them; one session's header
\* blocks, each at the offset where the last one ended; the arguments of a
\* command, repeated and escaped, in their order.
CodecsInvert == WireFramesSurvive /\ HeadersSurvive /\ QuerySurvives

----------------------------------------------------------------------------
\* An instance of Scripts: pairs of frames with pairs of header blocks, and
\* pairs of arguments, among them the ones at the limits of a field.
SampleFrames ==
  LET id(n) == <<0, 0, 0, n>>
      frame(type, n, bytes) == Frame(type, id(n), 0, bytes)
  IN  {frame("synStream", 1, <<7, 8>>), frame("synStream", 3, <<>>), Frame("data", <<127, 255, 0, 1>>, 1, <<128, 0, 0, 9>>),
       frame("data", 3, <<>>), frame("ping", 2, <<>>), frame("rst", 1, id(5)), frame("goAway", 1, id(0)),
       frame("settings", 0, id(1)), frame("synReply", 1, <<255>>)}
SampleBlocks == {<<>>, << <<<<97>>, <<98, 99>>>> >>, << <<<<97, 45>>, <<>>>>, <<<<98>>, <<1>>>> >>}
SampleArgs == {<<>>, <<65>>, <<37, 52, 49>>, <<43, 32>>}
SampleScripts ==
  {[frames |-> f, blocks |-> b, message |-> [stream |-> 3, payload |-> <<1>>], command |-> <<<<65>>>>] :
     f \in SampleFrames \X SampleFrames, b \in SampleBlocks \X SampleBlocks}
  \cup
  {[frames |-> <<>>, blocks |-> <<>>, message |-> [stream |-> 255, payload |-> <<>>], command |-> c] : c \in SampleArgs \X SampleArgs}
=============================================================================
