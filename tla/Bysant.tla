------------------------------- MODULE Bysant -------------------------------
(***************************************************************************)
(* The Bysant serializer: BysantEncoder writes objects, BysantDecoder      *)
(* reads them back from a stream that may have been cut anywhere.  The     *)
(* recursion of the encoder over an object is a list of what is left to    *)
(* write, that of the decoder a stack of the objects it is in the middle   *)
(* of.                                                                     *)
(*                                                                         *)
(* The stream is a sequence of chunks, a chunk being what the decoder asks *)
(* its reader for in one io.ReadFull: a byte, the text of a string, or a   *)
(* wide number.  It matters what is missing: io.ReadFull of a chunk of     *)
(* which nothing is there returns io.EOF, which Decode takes for the end   *)
(* of the messages, and io.ErrUnexpectedEOF when a part of it is.          *)
(*                                                                         *)
(* Objects are <<type, value>>: a string is its length, as are bytes; a    *)
(* list the sequence of its elements, a slice the type and the sequence of *)
(* its numbers; a map the sequence of its <<key, value>> pairs in the      *)
(* order in which range yields them, a message, response, envelope or      *)
(* vector the sequence of its fields.                                      *)
(***************************************************************************)
EXTENDS BysantOpcodes

CONSTANTS
  Objects,   \* what is encoded, or meant by another encoder, and the parts of it
  Inputs,    \* sequences of objects that are encoded together
  Foreign,   \* pairs of what another encoder writes and the objects it means by it
  Entries,   \* how they are read: "Decode" or "decodeMessage"
  Cuttable   \* those of Inputs whose stream may be cut

ASSUME InputsAssumption ==
  /\ Inputs \subseteq Seq(Objects)
  /\ \A f \in Foreign : f[2] \in Seq(Objects) \ Inputs
ASSUME EntriesAssumption == Entries \subseteq {"Decode", "decodeMessage"}
ASSUME CutsAssumption == Cuttable \subseteq Inputs

VARIABLES
  sent,      \* the objects
  entry,     \* the method that reads
  phase,     \* "encode", "carry", "decode" or "done"
  todo,      \* what the encoder has still to write: <<context, object>>
  stream,    \* what was written, or what is left to read
  cut,       \* the stream was cut
  stack,     \* the objects the decoder is in the middle of, innermost first
  got,       \* the messages decoded so far
  status     \* "running", then "unencodable", "ok", "error" or "garbage"

vars == <<sent, entry, phase, todo, stream, cut, stack, got, status>>
decoderVars == <<stack, got>>

Byte(b) == <<"byte", b>>
Bytes(s) == [i \in DOMAIN s |-> Byte(s[i])]
Torn == <<"torn">>          \* a chunk of which only a part is there

\* The chunks that an encoder writes, and the last one of a stream that was cut.
Chunks ==
  ({"byte"} \X (0..255)) \union ({"text"} \X (Nat \ {0}))
    \union ({"int64"} \X Int) \union ({"uint32"} \X Nat)
    \union {o \in Objects : o[1] \in {"float32", "float64"}} \union {Torn}

ASSUME ForeignAssumption == \A f \in Foreign : f[1] \in Seq(Chunks)

Init ==
  /\ \/ /\ sent \in Inputs
        /\ phase = "encode" /\ stream = <<>>
        /\ todo = [i \in DOMAIN sent |-> <<"global", sent[i]>>]
     \/ /\ \E f \in Foreign : stream = f[1] /\ sent = f[2]
        /\ phase = "carry" /\ todo = <<>>
  /\ entry \in Entries
  /\ status = "running" /\ cut = FALSE
  /\ stack = <<>> /\ got = <<>>

-----------------------------------------------------------------------------
(* Encoder.                                                                *)

\* The opcode of an encodable type, and the context its EncodeTo writes each of
\* its fields in.
EncodesAs(op, fields) == [op |-> op, fields |-> fields]
EnvelopeEncodeTo == EncodesAs(\h60, <<"listMap", "uis", "listMap">>)
MessageEncodeTo  == EncodesAs(\h61, <<"uis", "uis", "listMap">>)
ResponseEncodeTo == EncodesAs(\h62, <<"uis", "number", "uis">>)
DeltasEncodeTo   == EncodesAs(\h63, <<"number", "number", "listMap">>)
QuasiEncodeTo    == EncodesAs(\h64, <<"number", "number", "listMap">>)
EncodeTo ==
  [ envelope |-> EnvelopeEncodeTo, message |-> MessageEncodeTo, response |-> ResponseEncodeTo,
    deltas |-> DeltasEncodeTo, quasi |-> QuasiEncodeTo ]

Written(chunks, rest) == [ok |-> TRUE, chunks |-> chunks, rest |-> rest]
Unsupported == [ok |-> FALSE]

Text(n) == IF n = 0 THEN <<>> ELSE << <<"text", n>> >>

\* Integers in the global and the number context, and their types: the switches on
\* the type of an object are not the same.
IntTypes(ctx) ==
  IF ctx = "global" THEN {"int", "int32", "int64"} ELSE {"int", "int8", "int16", "int32", "int64"}
IntRules(ctx) == IF ctx = "global" THEN GlobalIntRules ELSE NumberIntRules
EncodeInt(ctx, n) ==
  IF Fits(IntRules(ctx), n) THEN Bytes(Header(IntRules(ctx), n))
                            ELSE <<Byte(\hFD), <<"int64", n>> >>

EncodeUnsigned(n) ==
  IF Fits(UnsignedRules, n) THEN Bytes(Header(UnsignedRules, n))
                            ELSE <<Byte(\hFF), <<"uint32", n>> >>

\* Text, or bytes that are written as one.
TextTypes == {"string", "bytes"}
EncodeString(ctx, n) ==
  IF Fits(StringRules(ctx), n) THEN Written(Bytes(Header(StringRules(ctx), n)) \o Text(n), <<>>)
                               ELSE Unsupported

EncodeSize(ctx, rules, large, n) ==
  IF Fits(rules, n) THEN Bytes(Header(rules, n))
                    ELSE <<Byte(large)>> \o EncodeUnsigned(n - SmallLimit(ctx) - 1)

\* A typed slice is written as the list of its elements.
convertSliceToInterface(slice) == [i \in DOMAIN slice[2] |-> <<slice[1], slice[2][i]>>]

\* The elements of a list, the keys and the values of a map.
Elements(s) == [i \in DOMAIN s |-> <<"global", s[i]>>]
Pairs(m) ==
  [k \in 1..(2 * Len(m)) |->
     IF k % 2 = 1 THEN <<"uis", m[(k + 1) \div 2][1]>> ELSE <<"global", m[k \div 2][2]>>]

\* The types of which the switch of a context has a case.
Floats == {"float32", "float64"}
EncodableTypes ==
  [ global  |-> {"nil", "bool", "list", "slice", "map"}
                  \union IntTypes("global") \union Floats \union TextTypes \union DOMAIN EncodeTo,
    uis     |-> {"nil", "uint32"} \union TextTypes,
    number  |-> IntTypes("number") \union Floats,
    listMap |-> {"list", "map"} ]

\* What the encoder writes for the object o itself, and what it goes on with.
EncodeList(ctx, s) ==
  Written(EncodeSize(ctx, ListRules(ctx), LargeList(ctx), Len(s)), Elements(s))
EncodeMap(ctx, m) ==
  Written(EncodeSize(ctx, MapRules(ctx), LargeMap(ctx), Len(m)), Pairs(m))
EncodeFields(how, fields) ==
  Written(<<Byte(how.op)>>, [i \in DOMAIN fields |-> <<how.fields[i], fields[i]>>])

Encoding(ctx, o) ==
  LET type == o[1]
      v == o[2]
  IN
  IF type \notin EncodableTypes[ctx] THEN Unsupported ELSE
  CASE type = "nil" -> Written(<<Byte(\h00)>>, <<>>)
    [] type = "bool" -> Written(<<Byte(IF v THEN \h01 ELSE \h02)>>, <<>>)
    [] type \in IntTypes("number") -> Written(EncodeInt(ctx, v), <<>>)
    [] type = "float32" -> Written(<<Byte(\hFE), o>>, <<>>)
    [] type = "float64" -> Written(<<Byte(\hFF), o>>, <<>>)
    [] type = "uint32" -> Written(EncodeUnsigned(v), <<>>)
    [] type \in TextTypes -> EncodeString(ctx, v)
    [] type = "list" -> EncodeList(ctx, v)
    [] type = "slice" -> EncodeList(ctx, convertSliceToInterface(v))
    [] type = "map" -> EncodeMap(ctx, v)
    [] type \in DOMAIN EncodeTo -> EncodeFields(EncodeTo[type], v)

\* The types of the elements of a typed slice.
SliceTypes == {"int", "int8", "int16", "int32", "int64", "float32", "float64"}

\* The Go types of objects; of the fields of a message, response, envelope or vector.
Numeric == {"int32", "int64", "float32", "float64", "named"}
FieldTypes ==
  [ envelope |-> <<{"map"}, TextTypes, {"map"}>>,
    message  |-> <<{"string"}, {"nil", "uint32"}, {"map"}>>,
    response |-> <<{"uint32"}, {"int64"}, {"string"}>>,
    deltas   |-> <<Numeric, Numeric, {"list"}>>,
    quasi    |-> <<Numeric, Numeric, {"list"}>> ]
Types == EncodableTypes["global"] \union IntTypes("number") \union {"uint32", "named"}

\* What is encoded together are body messages.
ASSUME MessagesAssumption == \A s \in Inputs : \A i \in DOMAIN s : s[i][1] \in DOMAIN EncodeTo

\* The factor or period of a vector, its start and its elements are of one type T.
OneType(v) == v[2][1] = v[1][1] /\ \A k \in DOMAIN v[3][2] : v[3][2][k][1] = v[1][1]

\* The objects are made of objects, of the types that their structs declare, and numbers
\* and lengths are what they are in Go.
ASSUME ObjectsAssumption ==
  \A o \in Objects :
    LET type == o[1]
        v == o[2]
    IN  /\ type \in Types
        /\ o = IF type = "nil" THEN <<type>> ELSE <<type, v>>
        /\ type = "bool" => v \in BOOLEAN
        /\ type \in IntTypes("number") => v \in Int
        /\ type \in TextTypes \union {"uint32"} => v \in Nat
        /\ type = "list" => v \in Seq(Objects)
        /\ type = "slice" => v[1] \in SliceTypes /\ convertSliceToInterface(v) \in Seq(Objects)
        /\ type = "map" =>
             v \in Seq(Objects \X Objects) /\ \A i \in DOMAIN v : v[i][1][1] = "string"
        /\ type \in DOMAIN EncodeTo =>
             v \in Seq(Objects) /\ Len(v) = 3 /\ \A i \in 1..3 : v[i][1] \in FieldTypes[type][i]
        /\ type \in {"deltas", "quasi"} => OneType(v)

EncodeObject ==
  /\ phase = "encode" /\ todo # <<>>
  /\ LET e == Encoding(Head(todo)[1], Head(todo)[2]) IN
       /\ e.ok
       /\ stream' = stream \o e.chunks
       /\ todo' = e.rest \o Tail(todo)
  /\ UNCHANGED <<sent, entry, phase, cut, decoderVars, status>>

\* An error gives up everything that was written.
EncodeFails ==
  /\ phase = "encode" /\ todo # <<>>
  /\ ~Encoding(Head(todo)[1], Head(todo)[2]).ok
  /\ phase' = "done" /\ status' = "unencodable"
  /\ todo' = <<>> /\ stream' = <<>>
  /\ UNCHANGED <<sent, entry, cut, decoderVars>>

Encoded ==
  /\ phase = "encode" /\ todo = <<>>
  /\ phase' = "carry"
  /\ UNCHANGED <<sent, entry, todo, stream, cut, decoderVars, status>>

-----------------------------------------------------------------------------
(* The stream (external).                                                  *)

Carry ==
  /\ phase = "carry"
  /\ phase' = "decode"
  /\ UNCHANGED <<sent, entry, todo, stream, cut, decoderVars, status>>

\* The peer closed, or the payload stops, between two chunks or inside one.
Cut ==
  /\ phase = "carry" /\ sent \in Cuttable
  /\ \E k \in 0..(Len(stream) - 1) :
       stream' \in {SubSeq(stream, 1, k)}
                     \union (IF stream[k + 1][1] = "byte" \/ stream[k + 1] = <<"text", 1>> THEN {}
                             ELSE {Append(SubSeq(stream, 1, k), Torn)})
  /\ phase' = "decode" /\ cut' = TRUE
  /\ UNCHANGED <<sent, entry, todo, decoderVars, status>>

-----------------------------------------------------------------------------
(* Decoder.                                                                *)

\* The context in which each field of an encodable type is read.
decodeEnvelope == <<"listMap", "uis", "listMap">>
decodeMessage  == <<"uis", "uis", "listMap">>
decodeResponse == <<"uis", "number", "global">>
decodeDeltasVector == <<"number", "number", "listMap">>
decodeQuasiPeriodicVector == <<"number", "number", "listMap">>
DecodeFrom ==
  [ envelope |-> decodeEnvelope, message |-> decodeMessage, response |-> decodeResponse,
    deltas |-> decodeDeltasVector, quasi |-> decodeQuasiPeriodicVector ]
BodyTypes == DOMAIN DecodeFrom

\* An object in the middle of being read: how many parts it has, those it has got.
\* "listSize" and "mapSize" are the sizes of large containers, base what is added.
Frame(type, size, base) == [type |-> type, size |-> size, base |-> base, parts |-> <<>>]
WithPart(f, o) == [type |-> f.type, size |-> f.size, base |-> f.base, parts |-> Append(f.parts, o)]
Full(f) == Len(f.parts) = f.size
Containers == {"list", "map", "listSize", "mapSize"}

OpenFrame(type, n, base) ==
  CASE type = "list" -> Frame(type, n, 0)
    [] type = "map" -> Frame(type, 2 * n, 0)
    [] type \in BodyTypes -> Frame(type, 3, 0)
    [] type \in {"listSize", "mapSize"} -> Frame(type, 1, base)

\* The context the next part of f is read in.
PartContext(f) ==
  CASE f.type = "list" -> "global"
    [] f.type = "map" -> IF Len(f.parts) % 2 = 0 THEN "uis" ELSE "global"
    [] f.type \in BodyTypes -> DecodeFrom[f.type][Len(f.parts) + 1]
    [] f.type \in {"listSize", "mapSize"} -> "uis"

\* The type assertions that the decoders of messages, responses, envelopes and
\* vectors make on the i-th field o, and that fail them.
decodeMessageAsserts(i, o) == i = 1 => o[1] = "string"
decodeResponseAsserts(i, o) ==
  /\ i = 1 => o[1] = "uint32"
  /\ i = 2 => o[1] = "int64"
decodeEnvelopeAsserts(i, o) == IF i = 2 THEN o[1] \in {"nil", "string"} ELSE o[1] = "map"

\* The start and the elements of a vector have the type of its factor or period.
decodeDeltasAsserts(i, o, fields) ==
  /\ i = 2 => o[1] = fields[1][1]
  /\ i = 3 => o[1] = "list" /\ \A k \in DOMAIN o[2] : o[2][k][1] = fields[1][1]
decodeQuasiAsserts(i, o, fields) ==
  CASE i = 1 -> TRUE
    [] i = 2 -> o[1] = fields[1][1]
    [] i = 3 -> o[1] = "list" /\ \A k \in DOMAIN o[2] : o[2][k][1] = fields[1][1]

\* Mutant of PartOk: the type assertions are not checked.
AnyPart(f, o) == TRUE

\* A key is asserted to be a string, and the size of a large container to be of a
\* type that no decoder returns.
PartOk(f, o) ==
  LET i == Len(f.parts) + 1 IN
  CASE f.type = "map" -> i % 2 = 1 => o[1] = "string"
    [] f.type = "message" -> decodeMessageAsserts(i, o)
    [] f.type = "response" -> decodeResponseAsserts(i, o)
    [] f.type = "envelope" -> decodeEnvelopeAsserts(i, o)
    [] f.type = "deltas" -> decodeDeltasAsserts(i, o, f.parts)
    [] f.type = "quasi" -> decodeQuasiAsserts(i, o, f.parts)
    [] f.type = "listSize" -> o[1] = "int64"
    [] f.type = "mapSize" -> o[1] = "uint"
    [] f.type = "list" -> TRUE

\* Where an assertion is not fatal a default takes the place of the field.
MessageOf(p) ==
  <<"message", << p[1], IF p[2][1] = "uint32" THEN p[2] ELSE <<"nil">>,
                  IF p[3][1] = "map" THEN p[3] ELSE <<"map", <<>> >> >> >>
ResponseOf(p) ==
  <<"response", <<p[1], p[2], IF p[3][1] = "string" THEN p[3] ELSE <<"string", 0>> >> >>
EnvelopeOf(p) ==
  <<"envelope", <<p[1], IF p[2][1] = "nil" THEN <<"string", 0>> ELSE p[2], p[3]>> >>
MapWith(size, p) == <<"map", [k \in 1..size |-> <<p[2 * k - 1], p[2 * k]>>]>>

\* The object made of the parts of a full frame.
Built(f) ==
  CASE f.type = "map" -> MapWith(f.size \div 2, f.parts)
    [] f.type = "message" -> MessageOf(f.parts)
    [] f.type = "response" -> ResponseOf(f.parts)
    [] f.type = "envelope" -> EnvelopeOf(f.parts)
    [] f.type \in {"list", "deltas", "quasi"} -> <<f.type, f.parts>>

Finish(outcome) == phase' = "done" /\ status' = outcome

\* An error that passes through a list, a map or an envelope is wrapped there, and
\* is io.EOF no more.
Wraps(f) == f.type \in {"list", "map", "envelope"}
Wrapped == \E i \in DOMAIN stack : Wraps(stack[i])

\* Mutant of Fail: decodeMessage takes io.EOF for an end as well.
FailUnlessEnd(eof) ==
  IF eof /\ ~Wrapped THEN Finish("ok") /\ UNCHANGED decoderVars
                     ELSE Finish("error") /\ got' = <<>> /\ UNCHANGED stack

\* Decode takes io.EOF for the end and returns what it has; any other error, and any
\* error at all of decodeMessage, returns nothing.
Fail(eof) ==
  IF eof /\ ~Wrapped /\ entry = "Decode"
    THEN Finish("ok") /\ UNCHANGED decoderVars
    ELSE Finish("error") /\ got' = <<>> /\ UNCHANGED stack

\* An object has been read: the next message, or a part of the frame it is in.
Deliver(o, outer) ==
  IF outer = <<>>
    THEN /\ stack' = <<>>
         /\ got' = IF o[1] \in BodyTypes THEN Append(got, o) ELSE got
         /\ IF entry = "decodeMessage" THEN Finish(IF o[1] \in BodyTypes THEN "ok" ELSE "error")
                                       ELSE UNCHANGED <<phase, status>>
    ELSE IF PartOk(Head(outer), o)
      THEN /\ stack' = <<WithPart(Head(outer), o)>> \o Tail(outer)
           /\ UNCHANGED <<phase, got, status>>
      ELSE Fail(FALSE)

Reading == phase = "decode" /\ (stack # <<>> => ~Full(Head(stack)))
Context == IF stack = <<>> THEN "global" ELSE PartContext(Head(stack))

\* The chunk k of the stream is there, and is the byte the decoder expects.
IsByte(k) == Len(stream) >= k /\ stream[k][1] = "byte"
HasBytes(k) == \A i \in 1..k : IsByte(i)

Op == stream[1][2]
OpRule == RuleOf(Context, Op)
OpKnown == IsByte(1) /\ Known(Context, Op)
HeaderLength == 1 + OpRule.width
HeaderRead == OpKnown /\ HasBytes(HeaderLength)
Size == Value(OpRule, [i \in 1..HeaderLength |-> stream[i][2]])
HasContent == OpRule.content \notin {"none", "text"} \/ (OpRule.content = "text" /\ Size > 0)
ContentRead == HeaderRead /\ HasContent /\ Len(stream) > HeaderLength
Content == stream[HeaderLength + 1]

Consume(k) == stream' = SubSeq(stream, k + 1, Len(stream))
Untouched == UNCHANGED <<sent, entry, todo, cut>>

\* The stream ends before an opcode, before a byte of a header, or before a text or
\* a wide number.
StreamEnds ==
  /\ Reading
  /\ \/ stream = <<>>
     \/ OpKnown /\ HasBytes(Len(stream)) /\ Len(stream) < HeaderLength
     \/ HeaderRead /\ HasContent /\ Len(stream) = HeaderLength
  /\ Fail(TRUE)
  /\ stream' = <<>> /\ Untouched

\* It ends inside a text or a wide number.
ContentTorn ==
  /\ Reading /\ ContentRead /\ Content = Torn
  /\ Fail(FALSE)
  /\ stream' = <<>> /\ Untouched

UnknownOpcode ==
  /\ Reading /\ IsByte(1) /\ ~OpKnown
  /\ Fail(FALSE)
  /\ Consume(1) /\ Untouched

ReadScalar ==
  /\ Reading /\ HeaderRead /\ ~HasContent
  /\ \/ OpRule.type = "nil" /\ Deliver(<<"nil">>, stack)
     \/ OpRule.type \in {"true", "false"} /\ Deliver(<<"bool", OpRule.type = "true">>, stack)
     \/ OpRule.type \in {"int64", "uint32", "string"} /\ Deliver(<<OpRule.type, Size>>, stack)
  /\ Consume(HeaderLength) /\ Untouched

\* What comes next is what the header announced.
ContentFits ==
  IF OpRule.content = "text" THEN Content = <<"text", Size>> ELSE Content[1] = OpRule.content

ReadContent ==
  /\ Reading /\ ContentRead /\ ContentFits
  /\ Deliver(IF OpRule.content = "text" THEN <<"string", Size>> ELSE Content, stack)
  /\ Consume(HeaderLength + 1) /\ Untouched

\* A header that was written in another context than it is read in may announce a
\* part of the text only.
TextLonger == OpRule.content = "text" /\ Content[1] = "text" /\ Content[2] > Size

ReadPartOfText ==
  /\ Reading /\ ContentRead /\ TextLonger
  /\ Deliver(<<"string", Size>>, stack)
  /\ stream' = << <<"text", Content[2] - Size>> >> \o SubSeq(stream, HeaderLength + 2, Len(stream))
  /\ Untouched

OpenObject ==
  /\ Reading /\ HeaderRead
  /\ OpRule.type \in Containers \union BodyTypes
  /\ stack' = <<OpenFrame(OpRule.type, Size, OpRule.base)>> \o stack
  /\ Consume(HeaderLength) /\ Untouched
  /\ UNCHANGED <<phase, got, status>>

\* A list, a map or an encodable object has all its parts; a size has been read.
CloseObject ==
  /\ phase = "decode" /\ stack # <<>> /\ Full(Head(stack))
  /\ LET f == Head(stack) IN
       IF f.type \in {"listSize", "mapSize"}
         THEN /\ stack' = <<OpenFrame(IF f.type = "listSize" THEN "list" ELSE "map",
                                      f.parts[1][2] + f.base, 0)>> \o Tail(stack)
              /\ UNCHANGED <<phase, got, status>>
         ELSE Deliver(Built(f), Tail(stack))
  /\ UNCHANGED stream /\ Untouched

\* The decoder is in the middle of a text, of which nothing is modelled but the
\* length: what it makes of it is not followed.
Misread ==
  /\ Reading /\ stream # <<>>
  /\ \/ ~IsByte(1)
     \/ OpKnown /\ \E i \in 2..HeaderLength : Len(stream) >= i /\ ~IsByte(i)
     \/ ContentRead /\ Content # Torn /\ ~ContentFits /\ ~TextLonger
  /\ Finish("garbage") /\ got' = <<>>
  /\ UNCHANGED <<stream, stack>> /\ Untouched

-----------------------------------------------------------------------------
Encoder == EncodeObject \/ EncodeFails \/ Encoded
Decoder == StreamEnds \/ ContentTorn \/ UnknownOpcode \/ ReadScalar \/ ReadContent
             \/ ReadPartOfText \/ OpenObject \/ CloseObject \/ Misread
Done == phase = "done" /\ UNCHANGED vars

Next == Encoder \/ Carry \/ Cut \/ Decoder \/ Done

Spec == Init /\ [][Next]_vars

-----------------------------------------------------------------------------
(* Properties.                                                             *)

\* Opcodes and the bytes of headers fit in a byte, frames do not overflow, and
\* what is decoded at the top level is a body message with all its fields.
TypeOK ==
  /\ phase \in {"encode", "carry", "decode", "done"}
  /\ status \in {"running", "unencodable", "ok", "error", "garbage"}
  /\ cut \in BOOLEAN /\ entry \in Entries
  /\ sent \in Seq(Objects) /\ todo \in Seq(Contexts \X Objects)
  /\ stream \in Seq(Chunks)
  /\ \A i \in DOMAIN stack :
       /\ stack[i].type \in Containers \union BodyTypes
       /\ stack[i].size \in Nat /\ Len(stack[i].parts) <= stack[i].size
  /\ \A i \in DOMAIN got : got[i][1] \in BodyTypes /\ Len(got[i][2]) = 3

\* The size of a container of more elements than its opcode holds is never got past:
\* it is read in a context that has no integers of the type that it is asserted to
\* have (bysant_decoder.go:113, 265), so no stream makes the decoder return such a
\* container.
SizesNeverRead ==
  \A i \in DOMAIN stack :
    stack[i].type \in {"listSize", "mapSize"} => i = 1 /\ stack[i].parts = <<>>

\* Everything that was sent was there to be read.
Whole == phase = "done" /\ ~cut /\ status # "unencodable"
=============================================================================
