-------------------------- MODULE BysantRoundTrip --------------------------
(***************************************************************************)
(* What the encoder and the decoder promise each other: which objects the  *)
(* one accepts, and what the other makes of them.                          *)
(***************************************************************************)
EXTENDS Bysant

CONSTANT Nesting   \* how many levels of objects there are in an object

\* What an object is made of, and the contexts that this is written in.
PartsOf(o) ==
  IF o[1] = "list" THEN {"global"} \X Range(o[2])
  ELSE IF o[1] = "slice" THEN {"global"} \X Range(convertSliceToInterface(o[2]))
  ELSE IF o[1] = "map" THEN UNION {{<<"uis", pair[1]>>, <<"global", pair[2]>>} : pair \in Range(o[2])}
  ELSE IF o[1] \in BodyTypes THEN {<<EncodeTo[o[1]].fields[i], o[2][i]>> : i \in 1..3}
  ELSE {}

\* No object is a part of itself, at any depth: the encoder would not come to an end.
ASSUME NestingAssumption ==
  /\ Nesting \in [Objects -> Nat]
  /\ \A o \in Objects : \A p \in PartsOf(o) : Nesting[p[2]] < Nesting[o]

\* What no opcode is there for: numbers of types that the switch of their context does
\* not have, and texts of more bytes than two bytes of header hold in it.
HasOpcode(ctx, o) ==
  /\ o[1] \in TextTypes => o[2] <= IF ctx = "uis" THEN 48 + 8 * 256 - 1 ELSE 33 + 4 * 256 - 1
  /\ o[1] \in {"int8", "int16"} => ctx = "number"
  /\ o[1] = "uint32" => ctx = "uis"
  /\ o[1] # "named"

\* What the encoder is meant for: an object that has an opcode in its context, made of
\* such objects, and slices and vectors of any type that there is a case for in the global
\* context, and that Numeric admits.
Supported[t \in Contexts \X Objects] ==
  /\ HasOpcode(t[1], t[2])
  /\ t[2][1] \in {"slice", "deltas", "quasi"} \/ \A p \in PartsOf(t[2]) : Supported[p]

\* Slices and vectors of numbers that have no case where the encoder comes to them.
Forgotten(o) ==
  \/ o[1] = "slice" /\ o[2][1] \in {"int8", "int16"} /\ convertSliceToInterface(o[2]) # <<>>
  \/ o[1] \in {"deltas", "quasi"} /\ o[2][1][1] = "named"
NoneForgotten[t \in Contexts \X Objects] ==
  ~Forgotten(t[2]) /\ \A p \in PartsOf(t[2]) : NoneForgotten[p]

\* What the decoder follows the encoder in: containers of the sizes that an opcode
\* holds, and responses without a text.
InOpcode(ctx, o) ==
  /\ o[1] \in {"list", "map"} => Len(o[2]) <= SmallLimit(ctx)
  /\ o[1] = "slice" => Len(convertSliceToInterface(o[2])) <= SmallLimit(ctx)
  /\ o[1] = "response" => o[2][3] = <<"string", 0>>
Followed[t \in Contexts \X Objects] ==
  InOpcode(t[1], t[2]) /\ \A p \in PartsOf(t[2]) : Followed[p]

\* What becomes of an object on its way: integers of any width are int64, bytes are a
\* string and typed slices are lists.
Received[o \in Objects] ==
  LET Each(s) == [i \in DOMAIN s |-> Received[s[i]]] IN
  CASE o[1] \in IntTypes("number") -> <<"int64", o[2]>>
    [] o[1] \in TextTypes -> <<"string", o[2]>>
    [] o[1] = "slice" -> <<"list", Each(convertSliceToInterface(o[2]))>>
    [] o[1] \in {"list"} \union BodyTypes -> <<o[1], Each(o[2])>>
    [] o[1] = "map" -> <<"map", [i \in DOMAIN o[2] |-> <<o[2][i][1], Received[o[2][i][2]]>>]>>
    [] o[1] \in {"nil", "bool", "uint32", "named"} \union Floats -> o

\* What the reading method returns when it is given everything.
Expected ==
  LET all == [i \in DOMAIN sent |-> Received[sent[i]]]
  IN  IF entry = "Decode" \/ sent = <<>> THEN all ELSE <<all[1]>>

\* Encode refuses a message if there is something unsupported in it, wherever that is
\* nested, and sends nothing of it; it refuses none without such a reason, those
\* excepted that have something forgotten in them (SupportedIsEncoded says what
\* becomes of them).
RefusedForReason ==
  phase = "done" /\ sent \in Inputs =>
    /\ (\E i \in DOMAIN sent : ~Supported[<<"global", sent[i]>>]) => status = "unencodable"
    /\ status = "unencodable" =>
         /\ stream = <<>> /\ got = <<>>
         /\ \E i \in DOMAIN sent :
              ~Supported[<<"global", sent[i]>>] \/ ~NoneForgotten[<<"global", sent[i]>>]

\* What the encoder accepts comes back from the decoder as it was, in order: every
\* opcode the one writes is in the other's switch with the same offset, in each of
\* the contexts, whatever is nested in what - large containers and the texts of
\* responses excepted.  Where there is no message decodeMessage finds none.  What another
\* encoder writes is read by the ranges in the comments of the decoder, as far as the
\* code keeps them (ReadAsCommented).
RoundTrip ==
  Whole /\ (\A i \in DOMAIN sent : Followed[<<"global", sent[i]>>]) =>
    /\ got = Expected
    /\ status = IF entry = "decodeMessage" /\ sent = <<>> THEN "error" ELSE "ok"

\* From a stream that was cut anywhere the decoder makes nothing up: it returns
\* whole messages, the first ones, or an error, and never takes a text or a number
\* for an opcode.
OnlyWholeMessages ==
  cut => /\ status # "garbage"
         /\ status = "ok" => got = SubSeq(Expected, 1, Len(got))
         /\ status = "ok" /\ entry = "decodeMessage" => got = Expected

\* Where the decoder does not follow the encoder, but does not get into the middle of
\* a text either ("garbage"), it delivers no wrong object: it fails, or the text alone
\* is not the one that was sent.  SendMessage goes by the ticket and the status.
OnlyTextLost ==
  Whole /\ status = "ok" =>
    /\ Len(got) = Len(Expected)
    /\ \A i \in DOMAIN got :
         \/ got[i] = Expected[i]
         \/ /\ got[i][1] = "response" /\ Expected[i][1] = "response"
            /\ \A field \in 1..2 : got[i][2][field] = Expected[i][2][field]

(* What comments, tests and the README say and the code does not keep.     *)

\* "Large untyped list in GLOBAL context", "map of 10 or more untyped pairs"
\* (bysant_decoder.go): a large container is decoded.
LargeContainersDecode == Whole => status = "ok"

\* "Convert to []interface{} and encode as list" (bysant_encoder.go:99, 102), "the
\* supported numeric types for deltas vectors" (types.go:91): Encode refuses nothing but
\* what has something unsupported in it.
SupportedIsEncoded ==
  phase = "done" /\ sent \in Inputs /\ status = "unencodable" =>
    \E i \in DOMAIN sent : ~Supported[<<"global", sent[i]>>]


\* The response of README.md's example comes back with its message, as the test of
\* the encoder and the decoder asserts for an empty one (bysant_test.go:343).
ResponseKeepsMessage == Whole => got = Expected
=============================================================================
