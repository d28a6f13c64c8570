------------------------ MODULE BysantRoundTripProofs ------------------------
(***************************************************************************)
(* Theorems about what the encoder and the decoder promise each other.     *)
(***************************************************************************)
EXTENDS BysantProofs

-----------------------------------------------------------------------------
(* What an object is made of.                                              *)

\* What the encoder goes on with is all that the object is made of.
Covered(rest, parts) ==
  /\ \A i \in DOMAIN rest : rest[i] \in parts
  /\ \A p \in parts : \E i \in DOMAIN rest : rest[i] = p

LEMMA BodyNames ==
  /\ BodyTypes = {"envelope", "message", "response", "deltas", "quasi"}
  /\ DOMAIN EncodeTo = BodyTypes
BY DEF BodyTypes, DecodeFrom, EncodeTo

\* PartsOf, type by type.
LEMMA PartsByType ==
  ASSUME NEW o
  PROVE  /\ o[1] = "list" => PartsOf(o) = {"global"} \X Range(o[2])
         /\ o[1] = "slice" => PartsOf(o) = {"global"} \X Range(convertSliceToInterface(o[2]))
         /\ o[1] = "map" =>
              PartsOf(o) = UNION {{<<"uis", pair[1]>>, <<"global", pair[2]>>} : pair \in Range(o[2])}
         /\ o[1] \in BodyTypes => PartsOf(o) = {<<EncodeTo[o[1]].fields[i], o[2][i]>> : i \in 1..3}
         /\ o[1] \notin {"list", "slice", "map"} \union BodyTypes => PartsOf(o) = {}
BY BodyNames, Zenon DEF PartsOf

LEMMA ElementsCovered ==
  ASSUME NEW S, NEW s \in Seq(S)
  PROVE  Covered(Elements(s), {"global"} \X Range(s))
<1>1. DOMAIN Elements(s) = DOMAIN s /\ \A i \in DOMAIN s : Elements(s)[i] = <<"global", s[i]>>
  BY DEF Elements
<1>2. (\A i \in DOMAIN s : s[i] \in Range(s)) /\ \A x \in Range(s) : \E i \in DOMAIN s : s[i] = x
  BY Zenon DEF Range
<1>3. \A x \in Range(s) : <<"global", x>> \in {"global"} \X Range(s)
  OBVIOUS
<1>4. \A p \in {"global"} \X Range(s) : \E x \in Range(s) : p = <<"global", x>>
  OBVIOUS
<1>5. ASSUME NEW i \in DOMAIN Elements(s) PROVE Elements(s)[i] \in {"global"} \X Range(s)
  <2>1. Elements(s)[i] = <<"global", s[i]>> /\ s[i] \in Range(s)
    BY <1>1, <1>2
  <2>2. <<"global", s[i]>> \in {"global"} \X Range(s)
    BY <1>3, <2>1, Zenon
  <2> QED
    BY <2>1, <2>2, Zenon
<1>6. ASSUME NEW p \in {"global"} \X Range(s) PROVE \E i \in DOMAIN Elements(s) : Elements(s)[i] = p
  <2>1. PICK x \in Range(s) : p = <<"global", x>>
    BY <1>4
  <2>2. PICK i \in DOMAIN s : s[i] = x
    BY <1>2
  <2> QED
    BY <1>1, <2>1, <2>2
<1> QED
  BY <1>5, <1>6, Zenon DEF Covered

LEMMA PairsCovered ==
  ASSUME NEW S, NEW m \in Seq(S \X S)
  PROVE  Covered(Pairs(m), UNION {{<<"uis", pair[1]>>, <<"global", pair[2]>>} : pair \in Range(m)})
<1> DEFINE parts == UNION {{<<"uis", pair[1]>>, <<"global", pair[2]>>} : pair \in Range(m)}
<1>1. DOMAIN m = 1..Len(m) /\ Len(m) \in Nat
  OBVIOUS
<1>2. DOMAIN Pairs(m) = 1..(2 * Len(m))
  BY DEF Pairs
<1>3. \A i \in 1..Len(m) : <<"uis", m[i][1]>> \in parts /\ <<"global", m[i][2]>> \in parts
  <2>1. \A i \in 1..Len(m) : m[i] \in Range(m)
    BY <1>1, Zenon DEF Range
  <2>2. \A pair \in Range(m) : <<"uis", pair[1]>> \in parts /\ <<"global", pair[2]>> \in parts
    OBVIOUS
  <2> QED
    BY <2>1, <2>2, Zenon
<1>4. \A p \in parts : \E i \in 1..Len(m) : p = <<"uis", m[i][1]>> \/ p = <<"global", m[i][2]>>
  BY <1>1, Zenon DEF Range
<1> HIDE DEF parts
<1>5. ASSUME NEW k \in 1..(2 * Len(m)) PROVE Pairs(m)[k] \in parts
  <2>1. Pairs(m)[k] = IF k % 2 = 1 THEN <<"uis", m[(k + 1) \div 2][1]>> ELSE <<"global", m[k \div 2][2]>>
    BY DEF Pairs
  <2>2. CASE k % 2 = 1
    <3>1. (k + 1) \div 2 \in 1..Len(m)
      BY <1>1, <2>2
    <3> QED
      BY <1>3, <2>1, <2>2, <3>1, Zenon
  <2>3. CASE k % 2 # 1
    <3>1. k \div 2 \in 1..Len(m)
      BY <1>1, <2>3
    <3> QED
      BY <1>3, <2>1, <2>3, <3>1, Zenon
  <2> QED
    BY <2>2, <2>3
<1>6. ASSUME NEW i \in 1..Len(m)
      PROVE  \E j, k \in 1..(2 * Len(m)) :
               Pairs(m)[j] = <<"uis", m[i][1]>> /\ Pairs(m)[k] = <<"global", m[i][2]>>
  <2> DEFINE j == 2 * i - 1
             k == 2 * i
  <2>1. /\ j \in 1..(2 * Len(m)) /\ k \in 1..(2 * Len(m))
        /\ j % 2 = 1 /\ (j + 1) \div 2 = i /\ k % 2 # 1 /\ k \div 2 = i
    BY <1>1
  <2> HIDE DEF j, k
  <2>2. Pairs(m)[j] = <<"uis", m[i][1]>> /\ Pairs(m)[k] = <<"global", m[i][2]>>
    BY <2>1 DEF Pairs
  <2> QED
    BY <2>1, <2>2
<1>7. Covered(Pairs(m), parts)
  <2>1. \A p \in parts : \E i \in 1..(2 * Len(m)) : Pairs(m)[i] = p
    BY <1>4, <1>6, Zenon
  <2> QED
    BY <1>2, <1>5, <2>1, Zenon DEF Covered
<1> QED
  BY <1>7 DEF parts

\* What the encoder goes on with after the first chunks of an object.
RestOf(o) ==
  IF o[1] = "list" THEN Elements(o[2])
  ELSE IF o[1] = "slice" THEN Elements(convertSliceToInterface(o[2]))
  ELSE IF o[1] = "map" THEN Pairs(o[2])
  ELSE IF o[1] \in BodyTypes THEN [i \in DOMAIN o[2] |-> <<EncodeTo[o[1]].fields[i], o[2][i]>>]
  ELSE <<>>

LEMMA RestByType ==
  ASSUME NEW o
  PROVE  /\ o[1] = "list" => RestOf(o) = Elements(o[2])
         /\ o[1] = "slice" => RestOf(o) = Elements(convertSliceToInterface(o[2]))
         /\ o[1] = "map" => RestOf(o) = Pairs(o[2])
         /\ o[1] \in BodyTypes => RestOf(o) = [i \in DOMAIN o[2] |-> <<EncodeTo[o[1]].fields[i], o[2][i]>>]
         /\ o[1] \notin {"list", "slice", "map"} \union BodyTypes => RestOf(o) = <<>>
BY BodyNames, Zenon DEF RestOf

LEMMA ListObject ==
  ASSUME NEW o \in Objects, o[1] \in {"list", "slice"}
  PROVE  \E s \in Seq(Objects) :
           /\ \A ctx : EncodingByType(ctx, o) => Encoding(ctx, o) = EncodeList(ctx, s)
           /\ RestOf(o) = Elements(s) /\ PartsOf(o) = {"global"} \X Range(s)
           /\ s = IF o[1] = "list" THEN o[2] ELSE convertSliceToInterface(o[2])
<1>1. CASE o[1] = "list"
  <2>1. o[2] \in Seq(Objects)
    BY <1>1, ObjectFacts
  <2>2. RestOf(o) = Elements(o[2]) /\ PartsOf(o) = {"global"} \X Range(o[2])
    BY <1>1, RestByType, PartsByType
  <2>3. \A ctx : EncodingByType(ctx, o) => Encoding(ctx, o) = EncodeList(ctx, o[2])
    BY <1>1, Zenon DEF EncodingByType
  <2> QED
    BY <1>1, <2>1, <2>2, <2>3, Zenon
<1>2. CASE o[1] = "slice"
  <2>1. convertSliceToInterface(o[2]) \in Seq(Objects)
    BY <1>2, ObjectFacts
  <2>2. /\ RestOf(o) = Elements(convertSliceToInterface(o[2]))
        /\ PartsOf(o) = {"global"} \X Range(convertSliceToInterface(o[2]))
    BY <1>2, RestByType, PartsByType
  <2>3. \A ctx : EncodingByType(ctx, o) => Encoding(ctx, o) = EncodeList(ctx, convertSliceToInterface(o[2]))
    BY <1>2, Zenon DEF EncodingByType
  <2>4. o[1] # "list"
    BY <1>2
  <2> QED
    BY <2>1, <2>2, <2>3, <2>4, Zenon
<1> QED
  BY <1>1, <1>2

\* It is all that the object is made of, each in its context.
LEMMA RestCovered ==
  ASSUME NEW o \in Objects
  PROVE  Covered(RestOf(o), PartsOf(o))
<1>1. CASE o[1] \in {"list", "slice"}
  <2>1. PICK s \in Seq(Objects) : RestOf(o) = Elements(s) /\ PartsOf(o) = {"global"} \X Range(s)
    BY <1>1, ListObject, Zenon
  <2>2. Covered(Elements(s), {"global"} \X Range(s))
    BY ElementsCovered
  <2> QED
    BY <2>1, <2>2, Zenon
<1>2. CASE o[1] = "map"
  <2>1. /\ RestOf(o) = Pairs(o[2]) /\ o[2] \in Seq(Objects \X Objects)
        /\ PartsOf(o) = UNION {{<<"uis", pair[1]>>, <<"global", pair[2]>>} : pair \in Range(o[2])}
    BY <1>2, ObjectFacts, RestByType, PartsByType
  <2>2. Covered(Pairs(o[2]), UNION {{<<"uis", pair[1]>>, <<"global", pair[2]>>} : pair \in Range(o[2])})
    BY <2>1, PairsCovered
  <2> QED
    BY <2>1, <2>2, Zenon
<1>3. CASE o[1] \in BodyTypes
  <2>1. RestOf(o) = [i \in DOMAIN o[2] |-> <<EncodeTo[o[1]].fields[i], o[2][i]>>]
    BY <1>3, RestByType
  <2>2. DOMAIN o[2] = 1..3
    BY <1>3, ObjectFacts
  <2>3. PartsOf(o) = {<<EncodeTo[o[1]].fields[i], o[2][i]>> : i \in 1..3}
    BY <1>3, PartsByType
  <2> QED
    BY <2>1, <2>2, <2>3, SMT DEF Covered
<1>4. CASE o[1] \notin {"list", "slice", "map"} \union BodyTypes
  <2>1. PartsOf(o) = {} /\ RestOf(o) = <<>>
    BY <1>4, PartsByType, RestByType
  <2>2. DOMAIN <<>> = {}
    OBVIOUS
  <2> QED
    BY <2>1, <2>2, Zenon DEF Covered
<1> QED
  BY <1>1, <1>2, <1>3, <1>4

LEMMA RestIs ==
  ASSUME NEW ctx \in Contexts, NEW o \in Objects, o[1] \in EncodableTypes[ctx], Encoding(ctx, o).ok
  PROVE  Encoding(ctx, o).rest = RestOf(o)
<1>1. EncodingByType(ctx, o)
  BY EncodingOf
<1>2. \A chunks, rest : Written(chunks, rest).rest = rest
  BY Zenon DEF Written
<1>3. CASE o[1] \in {"list", "slice"}
  <2>1. PICK s \in Seq(Objects) : Encoding(ctx, o) = EncodeList(ctx, s) /\ RestOf(o) = Elements(s)
    BY <1>1, <1>3, ListObject, Zenon
  <2>2. Encoding(ctx, o).rest = Elements(s)
    BY <1>2, <2>1, Zenon DEF EncodeList
  <2> QED
    BY <2>1, <2>2
<1>4. CASE o[1] = "map"
  <2>1. Encoding(ctx, o) = EncodeMap(ctx, o[2])
    BY <1>1, <1>4, Zenon DEF EncodingByType
  <2>2. Encoding(ctx, o).rest = Pairs(o[2])
    BY <1>2, <2>1, Zenon DEF EncodeMap
  <2> QED
    BY <1>4, <2>2, RestByType
<1>5. CASE o[1] \in BodyTypes
  <2>1. Encoding(ctx, o) = EncodeFields(EncodeTo[o[1]], o[2])
    BY <1>1, <1>5, Zenon DEF EncodingByType
  <2>2. Encoding(ctx, o).rest = [i \in DOMAIN o[2] |-> <<EncodeTo[o[1]].fields[i], o[2][i]>>]
    BY <2>1 DEF EncodeFields, Written
  <2> QED
    BY <1>5, <2>2, RestByType
<1>6. CASE o[1] \notin {"list", "slice", "map"} \union BodyTypes
  <2>1. RestOf(o) = <<>>
    BY <1>6, RestByType
  <2>2. Encoding(ctx, o).rest = <<>>
    <3>1. o[1] \in TextTypes => Encoding(ctx, o).rest = <<>>
      <4> SUFFICES ASSUME o[1] \in TextTypes PROVE Encoding(ctx, o).rest = <<>>
        OBVIOUS
      <4>1. Encoding(ctx, o) = EncodeString(ctx, o[2])
        BY <1>1, Zenon DEF EncodingByType
      <4>2. ~Unsupported.ok
        BY Zenon DEF Unsupported
      <4>3. Encoding(ctx, o) # Unsupported
        BY <4>2, Zenon
      <4> QED
        BY <1>2, <4>1, <4>3, Zenon DEF EncodeString
    <3>2. \/ o[1] \in {"nil", "bool", "float32", "float64", "uint32"}
          \/ o[1] \in IntTypes("number") \/ o[1] \in TextTypes
      BY <1>6, EncodableIn, Zenon
    <3>3. ASSUME NEW x, Encoding(ctx, o) = Written(x, <<>>) PROVE Encoding(ctx, o).rest = <<>>
      BY <1>2, <3>3, Zenon
    <3>4. CASE o[1] = "nil"
      BY <1>1, <3>3, <3>4, Zenon DEF EncodingByType
    <3>5. CASE o[1] = "bool"
      BY <1>1, <3>3, <3>5, Zenon DEF EncodingByType
    <3>6. CASE o[1] = "float32"
      BY <1>1, <3>3, <3>6, Zenon DEF EncodingByType
    <3>7. CASE o[1] = "float64"
      BY <1>1, <3>3, <3>7, Zenon DEF EncodingByType
    <3>8. CASE o[1] = "uint32"
      BY <1>1, <3>3, <3>8, Zenon DEF EncodingByType
    <3>9. CASE o[1] \in IntTypes("number")
      BY <1>1, <3>3, <3>9, Zenon DEF EncodingByType
    <3> QED
      BY <3>1, <3>2, <3>4, <3>5, <3>6, <3>7, <3>8, <3>9
  <2> QED
    BY <2>1, <2>2
<1> QED
  BY <1>3, <1>4, <1>5, <1>6

\* The objects that the encoder comes to in a context, other than the global one: a key or
\* a field of one of the types that its struct declares.
InContext(ctx, o) ==
  /\ ctx \in Contexts /\ o \in Objects
  /\ ctx = "uis" => o[1] \in {"nil", "uint32"} \union TextTypes
  /\ ctx = "number" => o[1] \in IntTypes("number") \union Floats \union {"named"}
  /\ ctx = "listMap" => o[1] \in {"list", "map"}

LEMMA FieldContexts ==
  ASSUME NEW type \in BodyTypes, NEW i \in 1..3, NEW o \in Objects, o[1] \in FieldTypes[type][i]
  PROVE  InContext(EncodeTo[type].fields[i], o)
<1> USE DEF EncodesAs, Contexts, InContext, FieldTypes, EncodeTo, Numeric, TextTypes, Floats, IntTypes
<1>1. CASE type = "envelope"
  BY <1>1 DEF EnvelopeEncodeTo
<1>2. CASE type = "message"
  BY <1>2 DEF MessageEncodeTo
<1>3. CASE type = "response"
  BY <1>3 DEF ResponseEncodeTo
<1>4. CASE type = "deltas"
  BY <1>4 DEF DeltasEncodeTo
<1>5. CASE type = "quasi"
  BY <1>5 DEF QuasiEncodeTo
<1> QED
  BY <1>1, <1>2, <1>3, <1>4, <1>5, BodyNames

\* The parts of an object are objects in a context that has a case for their type, or refuses it.
LEMMA PartsInContext ==
  ASSUME NEW o \in Objects
  PROVE  \A p \in PartsOf(o) : p \in Todo /\ InContext(p[1], p[2])
<1>1. \A x \in Objects : <<"global", x>> \in Todo /\ InContext("global", x)
  BY DEF Todo, Contexts, InContext
<1>2. CASE o[1] \in {"list", "slice"}
  <2>1. PICK s \in Seq(Objects) : PartsOf(o) = {"global"} \X Range(s)
    BY <1>2, ListObject, Zenon
  <2>2. \A x \in Range(s) : x \in Objects
    BY DEF Range
  <2>3. \A p \in PartsOf(o) : \E x \in Objects : p = <<"global", x>>
    BY <2>1, <2>2
  <2> QED
    BY <1>1, <2>3
<1>3. CASE o[1] = "map"
  <2>1. /\ PartsOf(o) = UNION {{<<"uis", pair[1]>>, <<"global", pair[2]>>} : pair \in Range(o[2])}
        /\ o[2] \in Seq(Objects \X Objects) /\ \A i \in DOMAIN o[2] : o[2][i][1][1] = "string"
    BY <1>3, ObjectFacts, PartsByType
  <2>2. \A pair \in Range(o[2]) : pair[1] \in Objects /\ pair[2] \in Objects /\ pair[1][1] = "string"
    BY <2>1 DEF Range
  <2>3. \A x \in Objects : x[1] = "string" => <<"uis", x>> \in Todo /\ InContext("uis", x)
    BY DEF Todo, Contexts, InContext, TextTypes
  <2>4. ASSUME NEW p \in PartsOf(o)
        PROVE  \E x \in Objects : p = <<"global", x>> \/ (p = <<"uis", x>> /\ x[1] = "string")
    <3>1. PICK pair \in Range(o[2]) : p = <<"uis", pair[1]>> \/ p = <<"global", pair[2]>>
      BY <2>1
    <3> QED
      BY <2>2, <3>1
  <2> QED
    BY <1>1, <2>3, <2>4
<1>4. CASE o[1] \in BodyTypes
  <2>1. /\ PartsOf(o) = {<<EncodeTo[o[1]].fields[i], o[2][i]>> : i \in 1..3}
        /\ o[2] \in Seq(Objects) /\ Len(o[2]) = 3 /\ \A i \in 1..3 : o[2][i][1] \in FieldTypes[o[1]][i]
    BY <1>4, ObjectFacts, PartsByType
  <2>2. ASSUME NEW i \in 1..3 PROVE InContext(EncodeTo[o[1]].fields[i], o[2][i]) /\ o[2][i] \in Objects
    <3>1. o[2][i] \in Objects
      BY <2>1, ElementsIn
    <3> QED
      BY <1>4, <2>1, <3>1, FieldContexts
  <2>3. \A i \in 1..3 : <<EncodeTo[o[1]].fields[i], o[2][i]>> \in Todo
    BY <2>2, Zenon DEF Todo, InContext
  <2>4. \A p \in PartsOf(o) : \E i \in 1..3 : p = <<EncodeTo[o[1]].fields[i], o[2][i]>>
    BY <2>1
  <2> QED
    BY <2>2, <2>3, <2>4
<1>5. CASE o[1] \notin {"list", "slice", "map"} \union BodyTypes
  BY <1>5, PartsByType
<1> QED
  BY <1>2, <1>3, <1>4, <1>5

-----------------------------------------------------------------------------
(* What the encoder accepts.                                               *)

LEMMA StringLimits ==
  ASSUME NEW ctx \in {"global", "uis"}, NEW n \in Nat
  PROVE  /\ ctx = "uis" => (Fits(StringRules(ctx), n) <=> n <= 48 + 8 * 256 - 1)
         /\ ctx = "global" => (Fits(StringRules(ctx), n) <=> n <= 33 + 4 * 256 - 1)
<1>1. CASE ctx = "global"
  <2>1. /\ Len(StringRules(ctx)) = 2
        /\ StringRules(ctx)[1].from = 0 /\ StringRules(ctx)[1].to = 32
        /\ StringRules(ctx)[2].from = 33 /\ StringRules(ctx)[2].to = 1056
    BY <1>1, SMT DEF StringRules, Rule, Signed
  <2>2. Fits(StringRules(ctx), n) <=> \E i \in 1..2 : n \in StringRules(ctx)[i].from..StringRules(ctx)[i].to
    BY <2>1, Fitted, SMT DEF Chosen
  <2>3. Fits(StringRules(ctx), n) <=> n \in 0..32 \/ n \in 33..1056
    BY <2>1, <2>2
  <2>4. n \in 0..32 \/ n \in 33..1056 <=> n <= 33 + 4 * 256 - 1
    OBVIOUS
  <2>5. ctx # "uis"
    BY <1>1
  <2> QED
    BY <2>3, <2>4, <2>5, SMT
<1>2. CASE ctx = "uis"
  <2>1. /\ Len(StringRules(ctx)) = 2
        /\ StringRules(ctx)[1].from = 0 /\ StringRules(ctx)[1].to = 47
        /\ StringRules(ctx)[2].from = 48 /\ StringRules(ctx)[2].to = 2095
    BY <1>2, SMT DEF StringRules, Rule, Signed
  <2>2. Fits(StringRules(ctx), n) <=> \E i \in 1..2 : n \in StringRules(ctx)[i].from..StringRules(ctx)[i].to
    BY <2>1, Fitted, SMT DEF Chosen
  <2>3. Fits(StringRules(ctx), n) <=> n \in 0..47 \/ n \in 48..2095
    BY <2>1, <2>2
  <2>4. n \in 0..47 \/ n \in 48..2095 <=> n <= 48 + 8 * 256 - 1
    OBVIOUS
  <2>5. ctx # "global"
    BY <1>2
  <2> QED
    BY <2>3, <2>4, <2>5, SMT
<1> QED
  BY <1>1, <1>2

\* An object in a context that the encoder comes to it in is written if it has an opcode there.
LEMMA EncodedIfOpcode ==
  ASSUME NEW ctx, NEW o, InContext(ctx, o)
  PROVE  /\ Encoding(ctx, o).ok <=> HasOpcode(ctx, o)
         /\ Encoding(ctx, o).ok => o[1] \in EncodableTypes[ctx]
<1>1. ctx \in Contexts /\ o \in Objects /\ o[1] \in Types
  BY ObjectFacts DEF InContext
<1>2. CASE o[1] \notin EncodableTypes[ctx]
  <2>1. ~Encoding(ctx, o).ok
    BY <1>2, Zenon DEF Encoding, Unsupported
  <2>2. ~HasOpcode(ctx, o)
    BY <1>1, <1>2 DEF InContext, HasOpcode, EncodableTypes, Types, Contexts, IntTypes, TextTypes, Floats
  <2> QED
    BY <2>1, <2>2
<1>3. CASE o[1] \in EncodableTypes[ctx] /\ o[1] \in TextTypes
  <2>1. ctx \in {"global", "uis"} /\ o[2] \in Nat
    BY <1>1, <1>3, EncodableIn, ObjectFacts
  <2>2. Encoding(ctx, o) = EncodeString(ctx, o[2])
    <3>1. EncodingByType(ctx, o)
      BY <1>1, <1>3, EncodingOf
    <3> QED
      BY <1>3, <3>1, Zenon DEF EncodingByType
  <2>3. Encoding(ctx, o).ok <=> Fits(StringRules(ctx), o[2])
    BY <2>2 DEF EncodeString, Written, Unsupported
  <2>4. /\ ctx = "uis" => (HasOpcode(ctx, o) <=> o[2] <= 48 + 8 * 256 - 1)
        /\ ctx = "global" => (HasOpcode(ctx, o) <=> o[2] <= 33 + 4 * 256 - 1)
    BY <1>3 DEF HasOpcode, TextTypes
  <2>5. /\ ctx = "uis" => (Fits(StringRules(ctx), o[2]) <=> o[2] <= 48 + 8 * 256 - 1)
        /\ ctx = "global" => (Fits(StringRules(ctx), o[2]) <=> o[2] <= 33 + 4 * 256 - 1)
    BY <2>1, StringLimits
  <2>6. ctx = "uis" \/ ctx = "global"
    BY <2>1
  <2> QED
    BY <1>3, <2>3, <2>4, <2>5, <2>6, Zenon
<1>4. CASE o[1] \in EncodableTypes[ctx] /\ o[1] \notin TextTypes
  <2>1. EncodingByType(ctx, o)
    BY <1>1, <1>4, EncodingOf
  <2>2. \A chunks, rest : Written(chunks, rest).ok
    BY DEF Written
  <2>3. /\ \A s : EncodeList(ctx, s).ok
        /\ \A m : EncodeMap(ctx, m).ok
        /\ \A how, fields : EncodeFields(how, fields).ok
    BY <2>2, Zenon DEF EncodeList, EncodeMap, EncodeFields
  <2>4. \/ o[1] \in {"nil", "bool", "float32", "float64", "uint32", "list", "slice", "map"}
        \/ o[1] \in IntTypes("number") \/ o[1] \in BodyTypes
    BY <1>1, <1>4, EncodableIn
  <2>5. Encoding(ctx, o).ok
    <3>0. ASSUME NEW x, NEW rest, Encoding(ctx, o) = Written(x, rest) PROVE Encoding(ctx, o).ok
      BY <2>2, <3>0, Zenon
    <3>1. CASE o[1] = "nil"
      <4>1. Encoding(ctx, o) = Written(<<Byte(\h00)>>, <<>>)
        BY <2>1, <3>1, Zenon DEF EncodingByType
      <4> QED
        BY <3>0, <4>1, Zenon
    <3>2. CASE o[1] = "bool"
      <4>1. Encoding(ctx, o) = Written(<<Byte(IF o[2] THEN \h01 ELSE \h02)>>, <<>>)
        BY <2>1, <3>2, Zenon DEF EncodingByType
      <4> QED
        BY <3>0, <4>1, Zenon
    <3>3. CASE o[1] = "float32"
      <4>1. Encoding(ctx, o) = Written(<<Byte(\hFE), o>>, <<>>)
        BY <2>1, <3>3, Zenon DEF EncodingByType
      <4> QED
        BY <3>0, <4>1, Zenon
    <3>4. CASE o[1] = "float64"
      <4>1. Encoding(ctx, o) = Written(<<Byte(\hFF), o>>, <<>>)
        BY <2>1, <3>4, Zenon DEF EncodingByType
      <4> QED
        BY <3>0, <4>1, Zenon
    <3>5. CASE o[1] = "uint32"
      <4>1. Encoding(ctx, o) = Written(EncodeUnsigned(o[2]), <<>>)
        BY <2>1, <3>5, Zenon DEF EncodingByType
      <4> QED
        BY <3>0, <4>1, Zenon
    <3>6. CASE o[1] = "list"
      BY <2>1, <2>3, <3>6, Zenon DEF EncodingByType
    <3>7. CASE o[1] = "slice"
      BY <2>1, <2>3, <3>7, Zenon DEF EncodingByType
    <3>8. CASE o[1] = "map"
      BY <2>1, <2>3, <3>8, Zenon DEF EncodingByType
    <3>9. CASE o[1] \in IntTypes("number")
      <4>1. Encoding(ctx, o) = Written(EncodeInt(ctx, o[2]), <<>>)
        BY <2>1, <3>9, Zenon DEF EncodingByType
      <4> QED
        BY <3>0, <4>1, Zenon
    <3>10. CASE o[1] \in BodyTypes
      <4>1. Encoding(ctx, o) = EncodeFields(EncodeTo[o[1]], o[2])
        BY <2>1, <3>10, Zenon DEF EncodingByType
      <4> QED
        BY <2>3, <4>1, Zenon
    <3> QED
      BY <2>4, <3>1, <3>2, <3>3, <3>4, <3>5, <3>6, <3>7, <3>8, <3>9, <3>10
  <2>6. HasOpcode(ctx, o)
    BY <1>1, <1>4 DEF HasOpcode, EncodableTypes, Contexts, IntTypes, TextTypes, Floats, EncodeTo
  <2> QED
    BY <1>4, <2>5, <2>6
<1> QED
  BY <1>2, <1>3, <1>4

LEMMA PartsTodo == \A t \in Todo : PartsOf(t[2]) \subseteq Todo
<1> SUFFICES ASSUME NEW t \in Todo PROVE PartsOf(t[2]) \subseteq Todo
  OBVIOUS
<1>1. t[2] \in Objects
  BY DEF Todo
<1> QED
  BY <1>1, PartsInContext

\* A recursive function on objects in their contexts that says of each whether it is one of Ok
\* and all its parts are, unless it is a leaf: there is one, since a set of such objects that
\* has the parts of each is a set of objects of which that may be said.
EverywhereBody(Ok, Leaves, f) ==
  [t \in Todo |-> t \in Ok /\ (t \in Leaves \/ \A p \in PartsOf(t[2]) : f[p])]
Closed(S, Ok, Leaves) == \A t \in S : t \in Ok /\ (t \in Leaves \/ PartsOf(t[2]) \subseteq S)

LEMMA EverywhereIs == \A Ok, Leaves : \E f : f = EverywhereBody(Ok, Leaves, f)
<1> SUFFICES ASSUME NEW Ok, NEW Leaves PROVE \E f : f = EverywhereBody(Ok, Leaves, f)
  OBVIOUS
<1> DEFINE Good(t) == \E S \in SUBSET Todo : t \in S /\ Closed(S, Ok, Leaves)
           g == [t \in Todo |-> Good(t)]
           All == {t \in Todo : Good(t)}
<1>1. Closed(All, Ok, Leaves)
  <2> SUFFICES ASSUME NEW t \in All PROVE t \in Ok /\ (t \in Leaves \/ PartsOf(t[2]) \subseteq All)
    BY DEF Closed
  <2>1. PICK S \in SUBSET Todo : t \in S /\ Closed(S, Ok, Leaves)
    OBVIOUS
  <2>2. S \subseteq All
    BY <2>1
  <2> QED
    BY <2>1, <2>2, Zenon DEF Closed
<1>2. \A t \in Todo : Good(t) <=> t \in Ok /\ (t \in Leaves \/ \A p \in PartsOf(t[2]) : g[p])
  <2> SUFFICES ASSUME NEW t \in Todo
               PROVE  Good(t) <=> t \in Ok /\ (t \in Leaves \/ \A p \in PartsOf(t[2]) : g[p])
    OBVIOUS
  <2>1. \A p \in PartsOf(t[2]) : p \in Todo /\ (g[p] <=> p \in All)
    BY PartsTodo
  <2>2. ASSUME Good(t) PROVE t \in Ok /\ (t \in Leaves \/ \A p \in PartsOf(t[2]) : g[p])
    <3>1. t \in All
      BY <2>2
    <3> HIDE DEF All, g
    <3> QED
      BY <1>1, <2>1, <3>1, Zenon DEF Closed
  <2>3. ASSUME t \in Ok, (t \in Leaves \/ \A p \in PartsOf(t[2]) : g[p]) PROVE Good(t)
    <3> DEFINE S == All \union {t}
    <3>1. t \in Leaves \/ PartsOf(t[2]) \subseteq All
      <4> HIDE DEF All, g
      <4> QED
        BY <2>1, <2>3
    <3>2. S \in SUBSET Todo /\ t \in S
      OBVIOUS
    <3>3. Closed(S, Ok, Leaves)
      <4> HIDE DEF All
      <4> QED
        BY <1>1, <2>3, <3>1 DEF Closed
    <3> HIDE DEF S
    <3> QED
      BY <3>2, <3>3
  <2> QED
    BY <2>2, <2>3
<1>3. g = EverywhereBody(Ok, Leaves, g)
  <2>1. \A t \in Todo : Good(t) = (t \in Ok /\ (t \in Leaves \/ \A p \in PartsOf(t[2]) : g[p]))
    BY <1>2, Zenon
  <2> HIDE DEF Good
  <2> QED
    BY <2>1 DEF EverywhereBody
<1> QED
  BY <1>3

IsChosen(Ok, Leaves, f) == f = CHOOSE g : g = EverywhereBody(Ok, Leaves, g)

LEMMA ChosenFixpoint ==
  \A Ok, Leaves, f : IsChosen(Ok, Leaves, f) =>
    \A t \in Todo : f[t] <=> t \in Ok /\ (t \in Leaves \/ \A p \in PartsOf(t[2]) : f[p])
<1> SUFFICES ASSUME NEW Ok, NEW Leaves, NEW f, IsChosen(Ok, Leaves, f)
             PROVE  \A t \in Todo : f[t] <=> t \in Ok /\ (t \in Leaves \/ \A p \in PartsOf(t[2]) : f[p])
  OBVIOUS
<1>1. f = EverywhereBody(Ok, Leaves, f)
  BY EverywhereIs, Zenon DEF IsChosen
<1>2. \A t \in Todo : f[t] = (t \in Ok /\ (t \in Leaves \/ \A p \in PartsOf(t[2]) : f[p]))
  BY <1>1, Zenon DEF EverywhereBody
<1> QED
  BY <1>2

\* An object in its context has an opcode, and so has all that it is made of.
Encodable[t \in Todo] ==
  HasOpcode(t[1], t[2]) /\ \A p \in PartsOf(t[2]) : Encodable[p]

LEMMA EncodableIs ==
  \A t \in Todo : Encodable[t] <=> HasOpcode(t[1], t[2]) /\ \A p \in PartsOf(t[2]) : Encodable[p]
<1> DEFINE Ok == {t \in Todo : HasOpcode(t[1], t[2])}
           Leaves == {}
           h == Encodable
<1>1. \A g : [t \in Todo |-> HasOpcode(t[1], t[2]) /\ \A p \in PartsOf(t[2]) : g[p]]
           = EverywhereBody(Ok, Leaves, g)
  <2> SUFFICES ASSUME NEW g, NEW t \in Todo
               PROVE  (HasOpcode(t[1], t[2]) /\ \A p \in PartsOf(t[2]) : g[p])
                        = (t \in Ok /\ (t \in Leaves \/ \A p \in PartsOf(t[2]) : g[p]))
    BY DEF EverywhereBody
  <2> QED
    OBVIOUS
<1>2. h = CHOOSE g : g = [t \in Todo |-> HasOpcode(t[1], t[2]) /\ \A p \in PartsOf(t[2]) : g[p]]
  BY DEF Encodable, Todo
<1>3. IsChosen(Ok, Leaves, h)
  BY <1>1, <1>2, Zenon DEF IsChosen
<1>4. \A t \in Todo : (t \in Ok <=> HasOpcode(t[1], t[2])) /\ (t \in Leaves <=> FALSE)
  OBVIOUS
<1> HIDE DEF h, Ok, Leaves
<1>5. \A t \in Todo : h[t] <=> t \in Ok /\ (t \in Leaves \/ \A p \in PartsOf(t[2]) : h[p])
  BY <1>3, ChosenFixpoint, Zenon
<1> QED
  BY <1>4, <1>5, Zenon DEF h

LEMMA SupportedIs ==
  \A t \in Todo : Supported[t] <=> HasOpcode(t[1], t[2]) /\ (t[2][1] \in {"slice", "deltas", "quasi"} \/ \A p \in PartsOf(t[2]) : Supported[p])
<1> DEFINE Ok == {t \in Todo : HasOpcode(t[1], t[2])}
           Leaves == {t \in Todo : t[2][1] \in {"slice", "deltas", "quasi"}}
           h == Supported
<1>1. \A g : [t \in Todo |-> HasOpcode(t[1], t[2]) /\ (t[2][1] \in {"slice", "deltas", "quasi"} \/ \A p \in PartsOf(t[2]) : g[p])]
           = EverywhereBody(Ok, Leaves, g)
  <2> SUFFICES ASSUME NEW g, NEW t \in Todo
               PROVE  (HasOpcode(t[1], t[2]) /\ (t[2][1] \in {"slice", "deltas", "quasi"} \/ \A p \in PartsOf(t[2]) : g[p]))
                        = (t \in Ok /\ (t \in Leaves \/ \A p \in PartsOf(t[2]) : g[p]))
    BY DEF EverywhereBody
  <2> QED
    OBVIOUS
<1>2. h = CHOOSE g : g = [t \in Todo |-> HasOpcode(t[1], t[2]) /\ (t[2][1] \in {"slice", "deltas", "quasi"} \/ \A p \in PartsOf(t[2]) : g[p])]
  BY DEF Supported, Todo
<1>3. IsChosen(Ok, Leaves, h)
  BY <1>1, <1>2, Zenon DEF IsChosen
<1>4. \A t \in Todo : (t \in Ok <=> HasOpcode(t[1], t[2])) /\ (t \in Leaves <=> t[2][1] \in {"slice", "deltas", "quasi"})
  OBVIOUS
<1> HIDE DEF h, Ok, Leaves
<1>5. \A t \in Todo : h[t] <=> t \in Ok /\ (t \in Leaves \/ \A p \in PartsOf(t[2]) : h[p])
  BY <1>3, ChosenFixpoint, Zenon
<1> QED
  BY <1>4, <1>5, Zenon DEF h

LEMMA NoneForgottenIs ==
  \A t \in Todo : NoneForgotten[t] <=> ~Forgotten(t[2]) /\ \A p \in PartsOf(t[2]) : NoneForgotten[p]
<1> DEFINE Ok == {t \in Todo : ~Forgotten(t[2])}
           Leaves == {}
           h == NoneForgotten
<1>1. \A g : [t \in Todo |-> ~Forgotten(t[2]) /\ \A p \in PartsOf(t[2]) : g[p]]
           = EverywhereBody(Ok, Leaves, g)
  <2> SUFFICES ASSUME NEW g, NEW t \in Todo
               PROVE  (~Forgotten(t[2]) /\ \A p \in PartsOf(t[2]) : g[p])
                        = (t \in Ok /\ (t \in Leaves \/ \A p \in PartsOf(t[2]) : g[p]))
    BY DEF EverywhereBody
  <2> QED
    OBVIOUS
<1>2. h = CHOOSE g : g = [t \in Todo |-> ~Forgotten(t[2]) /\ \A p \in PartsOf(t[2]) : g[p]]
  BY DEF NoneForgotten, Todo
<1>3. IsChosen(Ok, Leaves, h)
  BY <1>1, <1>2, Zenon DEF IsChosen
<1>4. \A t \in Todo : (t \in Ok <=> ~Forgotten(t[2])) /\ (t \in Leaves <=> FALSE)
  OBVIOUS
<1> HIDE DEF h, Ok, Leaves
<1>5. \A t \in Todo : h[t] <=> t \in Ok /\ (t \in Leaves \/ \A p \in PartsOf(t[2]) : h[p])
  BY <1>3, ChosenFixpoint, Zenon
<1> QED
  BY <1>4, <1>5, Zenon DEF h

LEMMA FollowedIs ==
  \A t \in Todo : Followed[t] <=> InOpcode(t[1], t[2]) /\ \A p \in PartsOf(t[2]) : Followed[p]
<1> DEFINE Ok == {t \in Todo : InOpcode(t[1], t[2])}
           Leaves == {}
           h == Followed
<1>1. \A g : [t \in Todo |-> InOpcode(t[1], t[2]) /\ \A p \in PartsOf(t[2]) : g[p]]
           = EverywhereBody(Ok, Leaves, g)
  <2> SUFFICES ASSUME NEW g, NEW t \in Todo
               PROVE  (InOpcode(t[1], t[2]) /\ \A p \in PartsOf(t[2]) : g[p])
                        = (t \in Ok /\ (t \in Leaves \/ \A p \in PartsOf(t[2]) : g[p]))
    BY DEF EverywhereBody
  <2> QED
    OBVIOUS
<1>2. h = CHOOSE g : g = [t \in Todo |-> InOpcode(t[1], t[2]) /\ \A p \in PartsOf(t[2]) : g[p]]
  BY DEF Followed, Todo
<1>3. IsChosen(Ok, Leaves, h)
  BY <1>1, <1>2, Zenon DEF IsChosen
<1>4. \A t \in Todo : (t \in Ok <=> InOpcode(t[1], t[2])) /\ (t \in Leaves <=> FALSE)
  OBVIOUS
<1> HIDE DEF h, Ok, Leaves
<1>5. \A t \in Todo : h[t] <=> t \in Ok /\ (t \in Leaves \/ \A p \in PartsOf(t[2]) : h[p])
  BY <1>3, ChosenFixpoint, Zenon
<1> QED
  BY <1>4, <1>5, Zenon DEF h

LEMMA Nests ==
  /\ \A o \in Objects : Nesting[o] \in Nat
  /\ \A o \in Objects : \A p \in PartsOf(o) : p[2] \in Objects /\ Nesting[p[2]] < Nesting[o]
<1>1. \A o \in Objects : Nesting[o] \in Nat
  BY NestingAssumption
<1>2. \A o \in Objects : \A p \in PartsOf(o) : Nesting[p[2]] < Nesting[o]
  BY NestingAssumption, Zenon
<1>3. \A o \in Objects : \A p \in PartsOf(o) : p[2] \in Objects
  BY PartsInContext, Zenon DEF InContext
<1> QED
  BY <1>1, <1>2, <1>3, Zenon

\* An object without parts is encodable if it has an opcode.
LEMMA LeafEncodable ==
  ASSUME NEW ctx \in Contexts, NEW o \in Objects, HasOpcode(ctx, o),
         o[1] \notin {"list", "slice", "map"} \union BodyTypes
  PROVE  Encodable[<<ctx, o>>]
<1> DEFINE t == <<ctx, o>>
<1>1. t \in Todo /\ t[1] = ctx /\ t[2] = o
  BY DEF Todo
<1> HIDE DEF t
<1>2. PartsOf(o) = {}
  BY PartsByType
<1>3. Encodable[t] <=> HasOpcode(t[1], t[2]) /\ \A p \in PartsOf(t[2]) : Encodable[p]
  BY <1>1, EncodableIs
<1>4. Encodable[t]
  BY <1>1, <1>2, <1>3
<1> QED
  BY <1>4 DEF t

\* The numbers of a typed slice are encodable unless it is forgotten.
LEMMA SliceEncodable ==
  ASSUME NEW o \in Objects, o[1] = "slice"
  PROVE  (\A p \in PartsOf(o) : Encodable[p]) <=> ~Forgotten(o)
<1> DEFINE s == convertSliceToInterface(o[2])
<1>1. s \in Seq(Objects) /\ o[2][1] \in SliceTypes
  BY ObjectFacts
<1>2. PartsOf(o) = {"global"} \X Range(s)
  BY PartsByType
<1>3. \A i \in DOMAIN s : s[i] \in Objects /\ s[i][1] = o[2][1] /\ s[i] \in Range(s)
  <2>1. \A i \in DOMAIN s : s[i] \in Objects
    BY <1>1, ElementsIn
  <2>2. \A i \in DOMAIN s : s[i][1] = o[2][1]
    BY DEF convertSliceToInterface
  <2>3. \A i \in DOMAIN s : s[i] \in Range(s)
    BY Zenon DEF Range
  <2> QED
    BY <2>1, <2>2, <2>3
<1> HIDE DEF s
<1>4. Forgotten(o) <=> o[2][1] \in {"int8", "int16"} /\ s # <<>>
  BY DEF Forgotten, s
<1>5. ASSUME ~Forgotten(o), NEW p \in PartsOf(o) PROVE Encodable[p]
  <2>1. PICK x \in Range(s) : p = <<"global", x>>
    BY <1>2
  <2>2. PICK i \in DOMAIN s : x = s[i]
    BY Zenon DEF Range
  <2>3. s # <<>>
    BY <1>1, <2>2
  <2>4. x \in Objects /\ x[1] \in SliceTypes \ {"int8", "int16"}
    BY <1>1, <1>3, <1>4, <1>5, <2>2, <2>3
  <2>5. HasOpcode("global", x) /\ x[1] \notin {"list", "slice", "map"} \union BodyTypes
    BY <2>4, BodyNames DEF HasOpcode, SliceTypes, TextTypes
  <2> QED
    BY <2>1, <2>4, <2>5, LeafEncodable DEF Contexts
<1>6. ASSUME Forgotten(o) PROVE \E p \in PartsOf(o) : ~Encodable[p]
  <2>1. 1 \in DOMAIN s
    BY <1>1, <1>4, <1>6
  <2> DEFINE p == <<"global", s[1]>>
  <2>2. p \in PartsOf(o) /\ p \in Todo /\ p[1] = "global" /\ p[2] = s[1]
    BY <1>2, <1>3, <2>1 DEF Todo, Contexts
  <2>3. ~HasOpcode(p[1], p[2])
    BY <1>3, <1>4, <1>6, <2>1, <2>2 DEF HasOpcode
  <2> HIDE DEF p
  <2>4. ~Encodable[p]
    BY <2>2, <2>3, EncodableIs
  <2> QED
    BY <2>2, <2>4
<1> QED
  BY <1>5, <1>6

\* So are those of a vector: its factor or period, its start, and the list of its values.
LEMMA VectorEncodable ==
  ASSUME NEW o \in Objects, o[1] \in {"deltas", "quasi"}
  PROVE  (\A p \in PartsOf(o) : Encodable[p]) <=> ~Forgotten(o)
<1> DEFINE T == o[2][1][1]
           v == o[2]
<1>1. /\ v \in Seq(Objects) /\ Len(v) = 3 /\ OneType(v)
      /\ \A i \in 1..3 : v[i][1] \in FieldTypes[o[1]][i]
  BY ObjectFacts, BodyNames
<1>2. v[1] \in Objects /\ v[2] \in Objects /\ v[3] \in Objects
  BY <1>1, ElementsIn
<1>3. T \in Numeric /\ v[2][1] = T /\ v[3][1] = "list" /\ \A k \in DOMAIN v[3][2] : v[3][2][k][1] = T
  <2>1. FieldTypes[o[1]] = <<Numeric, Numeric, {"list"}>>
    BY DEF FieldTypes
  <2>2. v[1][1] \in Numeric /\ v[3][1] = "list"
    BY <1>1, <2>1
  <2> QED
    BY <1>1, <2>2 DEF OneType
<1>4. PartsOf(o) = {<<"number", v[1]>>, <<"number", v[2]>>, <<"listMap", v[3]>>}
  <2>1. PartsOf(o) = {<<EncodeTo[o[1]].fields[i], v[i]>> : i \in 1..3}
    BY PartsByType, BodyNames
  <2>2. EncodeTo[o[1]].fields = <<"number", "number", "listMap">>
    BY DEF EncodeTo, DeltasEncodeTo, QuasiEncodeTo, EncodesAs
  <2> QED
    BY <2>1, <2>2
<1>5. Forgotten(o) <=> T = "named"
  BY DEF Forgotten
<1> HIDE DEF v, T
<1>6. ASSUME T # "named", NEW x \in Objects, x[1] = T, NEW ctx \in Contexts
      PROVE  Encodable[<<ctx, x>>]
  <2>1. HasOpcode(ctx, x) /\ x[1] \notin {"list", "slice", "map"} \union BodyTypes
    BY <1>3, <1>6, BodyNames DEF HasOpcode, Numeric, TextTypes
  <2> QED
    BY <1>6, <2>1, LeafEncodable
<1>7. ASSUME T # "named" PROVE Encodable[<<"listMap", v[3]>>]
  <2> DEFINE t == <<"listMap", v[3]>>
  <2>1. t \in Todo /\ t[1] = "listMap" /\ t[2] = v[3]
    BY <1>2 DEF Todo, Contexts
  <2>2. HasOpcode("listMap", v[3])
    BY <1>3 DEF HasOpcode, TextTypes
  <2>3. PartsOf(v[3]) = {"global"} \X Range(v[3][2]) /\ v[3][2] \in Seq(Objects)
    BY <1>2, <1>3, PartsByType, ObjectFacts
  <2>4. ASSUME NEW p \in PartsOf(v[3]) PROVE Encodable[p]
    <3>1. PICK x \in Range(v[3][2]) : p = <<"global", x>>
      BY <2>3
    <3>2. PICK k \in DOMAIN v[3][2] : x = v[3][2][k]
      BY Zenon DEF Range
    <3>3. x \in Objects /\ x[1] = T
      BY <1>3, <2>3, <3>2, ElementsIn
    <3> QED
      BY <1>6, <1>7, <3>1, <3>3 DEF Contexts
  <2> HIDE DEF t
  <2>5. Encodable[t]
    BY <2>1, <2>2, <2>4, EncodableIs
  <2> QED
    BY <2>5 DEF t
<1>8. ASSUME T # "named", NEW p \in PartsOf(o) PROVE Encodable[p]
  <2>1. Encodable[<<"number", v[1]>>] /\ Encodable[<<"number", v[2]>>]
    <3>1. v[1][1] = T
      BY DEF T, v
    <3> QED
      BY <1>2, <1>3, <1>6, <1>8, <3>1 DEF Contexts
  <2> QED
    BY <1>4, <1>7, <1>8, <2>1
<1>9. ASSUME T = "named" PROVE \E p \in PartsOf(o) : ~Encodable[p]
  <2> DEFINE p == <<"number", v[1]>>
  <2>1. p \in PartsOf(o) /\ p \in Todo /\ p[2] = v[1] /\ v[1][1] = T
    BY <1>2, <1>4 DEF Todo, Contexts, T, v
  <2>2. ~HasOpcode(p[1], p[2])
    BY <1>9, <2>1 DEF HasOpcode
  <2> HIDE DEF p
  <2>3. ~Encodable[p]
    BY <2>1, <2>2, EncodableIs
  <2> QED
    BY <2>1, <2>3
<1> QED
  BY <1>5, <1>8, <1>9

\* Encodable, one level: what is supported in it is, and it has nothing forgotten.
SoFar(t) == Encodable[t] <=> Supported[t] /\ NoneForgotten[t]

LEMMA SoFarHere ==
  ASSUME NEW t \in Todo, \A p \in PartsOf(t[2]) : SoFar(p)
  PROVE  SoFar(t)
<1> DEFINE o == t[2]
           All(f) == \A p \in PartsOf(o) : f[p]
<1>1. o \in Objects
  BY DEF Todo
<1>2. Encodable[t] <=> HasOpcode(t[1], o) /\ All(Encodable)
  BY EncodableIs, Zenon
<1>3. Supported[t] <=> HasOpcode(t[1], o) /\ (o[1] \in {"slice", "deltas", "quasi"} \/ All(Supported))
  BY SupportedIs, Zenon
<1>4. NoneForgotten[t] <=> ~Forgotten(o) /\ All(NoneForgotten)
  BY NoneForgottenIs, Zenon
<1>5. All(Encodable) <=> All(Supported) /\ All(NoneForgotten)
  BY Zenon DEF SoFar
<1>6. CASE o[1] = "slice"
  <2>1. All(Encodable) <=> ~Forgotten(o)
    BY <1>1, <1>6, SliceEncodable
  <2> HIDE DEF All, o
  <2> QED
    BY <1>2, <1>3, <1>4, <1>5, <1>6, <2>1 DEF SoFar
<1>7. CASE o[1] \in {"deltas", "quasi"}
  <2>1. All(Encodable) <=> ~Forgotten(o)
    BY <1>1, <1>7, VectorEncodable
  <2> HIDE DEF All, o
  <2> QED
    BY <1>2, <1>3, <1>4, <1>5, <1>7, <2>1 DEF SoFar
<1>8. CASE o[1] \notin {"slice", "deltas", "quasi"}
  <2>1. ~Forgotten(o)
    BY <1>8 DEF Forgotten
  <2> HIDE DEF All, o
  <2> QED
    BY <1>2, <1>3, <1>4, <1>5, <1>8, <2>1 DEF SoFar
<1> QED
  BY <1>6, <1>7, <1>8

\* An object that is encodable is supported and has nothing forgotten in it, however deep.
LEMMA EncodableMeans == \A t \in Todo : SoFar(t)
<1> SUFFICES ASSUME NEW u \in Todo, ~SoFar(u) PROVE FALSE
  OBVIOUS
<1> DEFINE Wrong == {t \in Todo : ~SoFar(t)}
           Levels == {Nesting[t[2]] : t \in Wrong}
<1>1. \A t \in Todo : Nesting[t[2]] \in Nat
  BY Nests DEF Todo
<1>2. Levels \subseteq Nat /\ Levels # {}
  BY <1>1
<1>3. PICK n \in Levels : \A m \in Levels : n <= m
  <2> HIDE DEF Levels
  <2> QED
    BY <1>2, Least
<1>4. PICK t \in Wrong : n = Nesting[t[2]]
  OBVIOUS
<1>5. ASSUME NEW p \in PartsOf(t[2]), ~SoFar(p) PROVE FALSE
  <2>1. p \in Todo /\ t[2] \in Objects
    BY <1>4, <1>5, PartsTodo DEF Todo
  <2>2. Nesting[p[2]] \in Levels
    BY <1>5, <2>1
  <2>3. Nesting[p[2]] < Nesting[t[2]]
    BY <1>5, <2>1, Nests
  <2>4. n <= Nesting[p[2]] /\ n \in Nat /\ Nesting[p[2]] \in Nat
    BY <1>2, <1>3, <2>2
  <2> QED
    BY <1>4, <2>3, <2>4
<1>6. SoFar(t)
  BY <1>4, <1>5, SoFarHere
<1> QED
  BY <1>4, <1>6

-----------------------------------------------------------------------------
(* Encode refuses what is not encodable and nothing else.                  *)

\* One of what is to be written is not encodable, or one of its parts.
Refused(s) == \E i \in DOMAIN s : ~Encodable[s[i]]
Unfit == \E i \in DOMAIN sent : ~Encodable[<<"global", sent[i]>>]

\* As long as the encoder is at it nothing that is not encodable is behind it; once it is
\* past its end there was nothing of the kind.
Refusals ==
  sent \in Inputs =>
    /\ phase = "encode" =>
         /\ status = "running" /\ got = <<>>
         /\ \A i \in DOMAIN todo : InContext(todo[i][1], todo[i][2])
         /\ Unfit <=> Refused(todo)
    /\ phase \in {"carry", "decode"} => ~Unfit /\ status = "running"
    /\ phase = "done" => /\ status = "unencodable" <=> Unfit
                         /\ status = "unencodable" => stream = <<>> /\ got = <<>>

\* To write an object, or to find that it cannot be written, is to say whether it has an opcode.
LEMMA NextIsEncodable ==
  ASSUME todo \in Seq(Todo), todo # <<>>, InContext(Head(todo)[1], Head(todo)[2])
  PROVE  LET e == Encoding(Head(todo)[1], Head(todo)[2]) IN
         /\ ~e.ok => ~Encodable[Head(todo)]
         /\ e.ok => /\ Encodable[Head(todo)] <=> ~Refused(e.rest)
                    /\ \A i \in DOMAIN e.rest : InContext(e.rest[i][1], e.rest[i][2])
<1> DEFINE t == Head(todo)
           e == Encoding(t[1], t[2])
<1>1. t \in Todo
  OBVIOUS
<1>2. t[1] \in Contexts /\ t[2] \in Objects
  BY <1>1 DEF Todo
<1>3. Encodable[t] <=> HasOpcode(t[1], t[2]) /\ \A p \in PartsOf(t[2]) : Encodable[p]
  BY <1>1, EncodableIs
<1>4. e.ok <=> HasOpcode(t[1], t[2])
  BY EncodedIfOpcode
<1>5. e.ok => Covered(e.rest, PartsOf(t[2]))
  BY <1>2, EncodedIfOpcode, RestIs, RestCovered
<1>6. \A p \in PartsOf(t[2]) : InContext(p[1], p[2])
  BY <1>2, PartsInContext
<1> HIDE DEF t, e
<1>7. ~e.ok => ~Encodable[t]
  BY <1>3, <1>4
<1>8. ASSUME e.ok
      PROVE  /\ Encodable[t] <=> ~Refused(e.rest)
             /\ \A i \in DOMAIN e.rest : InContext(e.rest[i][1], e.rest[i][2])
  BY <1>3, <1>4, <1>5, <1>6, <1>8, Zenon DEF Covered, Refused
<1> QED
  BY <1>7, <1>8 DEF t, e

LEMMA RefusedConcat ==
  ASSUME NEW s \in Seq(Todo), NEW t \in Seq(Todo)
  PROVE  /\ Refused(s \o t) <=> Refused(s) \/ Refused(t)
         /\ (\A i \in DOMAIN s : InContext(s[i][1], s[i][2])) /\ (\A i \in DOMAIN t : InContext(t[i][1], t[i][2]))
              => \A i \in DOMAIN (s \o t) : InContext((s \o t)[i][1], (s \o t)[i][2])
<1> DEFINE u == s \o t
<1>1. \A i \in DOMAIN s : i \in DOMAIN u /\ u[i] = s[i]
  OBVIOUS
<1>2. \A i \in DOMAIN t : \E j \in DOMAIN u : u[j] = t[i]
  <2> SUFFICES ASSUME NEW i \in DOMAIN t PROVE \E j \in DOMAIN u : u[j] = t[i]
    OBVIOUS
  <2>1. Len(s) + i \in DOMAIN u /\ u[Len(s) + i] = t[i]
    OBVIOUS
  <2> QED
    BY <2>1
<1>3. \A j \in DOMAIN u : (\E i \in DOMAIN s : u[j] = s[i]) \/ (\E i \in DOMAIN t : u[j] = t[i])
  <2> SUFFICES ASSUME NEW j \in DOMAIN u, j \notin DOMAIN s PROVE \E i \in DOMAIN t : u[j] = t[i]
    BY <1>1
  <2>1. j - Len(s) \in DOMAIN t /\ u[j] = t[j - Len(s)]
    OBVIOUS
  <2> QED
    BY <2>1
<1> HIDE DEF u
<1>4. Refused(u) <=> Refused(s) \/ Refused(t)
  BY <1>1, <1>2, <1>3, Zenon DEF Refused
<1>5. (\A i \in DOMAIN s : InContext(s[i][1], s[i][2])) /\ (\A i \in DOMAIN t : InContext(t[i][1], t[i][2]))
        => \A i \in DOMAIN u : InContext(u[i][1], u[i][2])
  BY <1>3, Zenon
<1> QED
  BY <1>4, <1>5 DEF u

LEMMA RefusalsInit == Init => Refusals
<1> SUFFICES ASSUME Init, sent \in Inputs PROVE Refusals
  BY DEF Refusals
<1>1. /\ phase = "encode" /\ status = "running" /\ got = <<>>
      /\ todo = [i \in DOMAIN sent |-> <<"global", sent[i]>>]
  <2>1. \A f \in Foreign : f[2] \notin Inputs
    BY InputsAssumption
  <2> QED
    BY <2>1, Zenon DEF Init
<1>2. sent \in Seq(Objects)
  BY InputsAssumption
<1>3. \A i \in DOMAIN sent : sent[i] \in Objects
  BY <1>2
<1>4. DOMAIN todo = DOMAIN sent /\ \A i \in DOMAIN sent : todo[i] = <<"global", sent[i]>>
  BY <1>1
<1>5. \A i \in DOMAIN todo : InContext(todo[i][1], todo[i][2])
  BY <1>3, <1>4 DEF InContext, Contexts
<1>6. Unfit <=> Refused(todo)
  BY <1>4, Zenon DEF Unfit, Refused
<1> QED
  BY <1>1, <1>5, <1>6 DEF Refusals

LEMMA RefusalsEncoder ==
  ASSUME IInv, Refusals, EncodeObject \/ EncodeFails
  PROVE  Refusals'
<1> SUFFICES ASSUME sent \in Inputs PROVE Refusals'
  <2>1. sent' = sent
    BY DEF EncodeObject, EncodeFails
  <2> QED
    BY <2>1 DEF Refusals
<1> DEFINE t == Head(todo)
           e == Encoding(t[1], t[2])
<1>1. sent' = sent /\ phase = "encode" /\ todo # <<>>
  BY DEF EncodeObject, EncodeFails
<1>2. /\ status = "running" /\ got = <<>>
      /\ \A i \in DOMAIN todo : InContext(todo[i][1], todo[i][2])
      /\ Unfit <=> Refused(todo)
  BY <1>1, Zenon DEF Refusals
<1>3. todo \in Seq(Todo)
  BY DEF IInv, Data
<1>4. /\ Tail(todo) \in Seq(Todo) /\ 1 \in DOMAIN todo /\ t = todo[1] /\ t \in Todo
      /\ \A i \in DOMAIN Tail(todo) : i + 1 \in DOMAIN todo /\ Tail(todo)[i] = todo[i + 1]
      /\ \A i \in DOMAIN todo : i = 1 \/ (i - 1 \in DOMAIN Tail(todo) /\ Tail(todo)[i - 1] = todo[i])
  BY <1>1, <1>3
<1>5. /\ ~e.ok => ~Encodable[t]
      /\ e.ok => /\ Encodable[t] <=> ~Refused(e.rest)
                 /\ \A i \in DOMAIN e.rest : InContext(e.rest[i][1], e.rest[i][2])
  BY <1>1, <1>2, <1>3, <1>4, NextIsEncodable
<1>6. \A i \in DOMAIN Tail(todo) : InContext(Tail(todo)[i][1], Tail(todo)[i][2])
  BY <1>2, <1>4, Zenon
<1>7. Refused(todo) <=> ~Encodable[t] \/ Refused(Tail(todo))
  BY <1>4, Zenon DEF Refused
<1>8. CASE EncodeFails
  <2>1. ~e.ok /\ phase' = "done" /\ status' = "unencodable" /\ stream' = <<>> /\ got' = got
    BY <1>8, Zenon DEF EncodeFails, decoderVars
  <2>2. Unfit'
    BY <1>1, <1>2, <1>5, <1>7, <2>1 DEF Unfit
  <2> QED
    BY <1>2, <2>1, <2>2 DEF Refusals
<1>9. CASE EncodeObject
  <2>1. /\ e.ok /\ todo' = e.rest \o Tail(todo) /\ phase' = phase /\ status' = status /\ got' = got
    BY <1>9, Zenon DEF EncodeObject, decoderVars
  <2>2. e.rest \in Seq(Todo)
    <3>1. t[1] \in Contexts /\ t[2] \in Objects
      BY <1>4 DEF Todo
    <3> HIDE DEF t
    <3> QED
      BY <2>1, <3>1, EncodingType
  <2> HIDE DEF e, t
  <2>3. Refused(todo') <=> Refused(e.rest) \/ Refused(Tail(todo))
    BY <1>4, <2>1, <2>2, RefusedConcat
  <2>4. \A i \in DOMAIN todo' : InContext(todo'[i][1], todo'[i][2])
    BY <1>4, <1>5, <1>6, <2>1, <2>2, RefusedConcat
  <2>5. Unfit' <=> Refused(todo')
    BY <1>1, <1>2, <1>5, <1>7, <2>1, <2>3 DEF Unfit
  <2>6. Refused(todo') <=> Refused(todo)'
    BY DEF Refused
  <2> QED
    BY <1>1, <1>2, <2>1, <2>4, <2>5, <2>6 DEF Refusals
<1> QED
  BY <1>8, <1>9

\* The decoder stays in its phase, or is done and does not call a message unencodable.
Goes == \/ phase' = phase /\ status' = status
        \/ phase' = "done" /\ status' \in {"ok", "error", "garbage"}

LEMMA DecoderGoes ==
  ASSUME Decoder
  PROVE  phase = "decode" /\ sent' = sent /\ Goes
<1>1. ASSUME NEW eof, Fail(eof) PROVE Goes
  BY <1>1 DEF Fail, Finish, Goes
<1>2. ASSUME NEW o, NEW outer, Deliver(o, outer) PROVE Goes
  <2>1. CASE outer = <<>>
    BY <1>2, <2>1 DEF Deliver, Finish, Goes
  <2>2. CASE outer # <<>> /\ PartOk(Head(outer), o)
    BY <1>2, <2>2 DEF Deliver, Goes
  <2>3. CASE outer # <<>> /\ ~PartOk(Head(outer), o)
    <3>1. Fail(FALSE)
      BY <1>2, <2>3, Zenon DEF Deliver
    <3> QED
      BY <1>1, <3>1
  <2> QED
    BY <2>1, <2>2, <2>3
<1>3. CASE StreamEnds \/ ContentTorn \/ UnknownOpcode
  BY <1>1, <1>3, Zenon DEF StreamEnds, ContentTorn, UnknownOpcode, Reading, Untouched
<1>4. CASE ReadScalar \/ ReadContent \/ ReadPartOfText
  BY <1>2, <1>4, Zenon DEF ReadScalar, ReadContent, ReadPartOfText, Reading, Untouched
<1>5. CASE OpenObject
  BY <1>5, Zenon DEF OpenObject, Reading, Untouched, Goes
<1>6. CASE CloseObject
  BY <1>2, <1>6, Zenon DEF CloseObject, Untouched, Goes
<1>7. CASE Misread
  BY <1>7 DEF Misread, Finish, Reading, Untouched, Goes
<1> QED
  BY <1>3, <1>4, <1>5, <1>6, <1>7, Zenon DEF Decoder

LEMMA RefusalsStep == IInv /\ Refusals /\ [Next]_vars => Refusals'
<1> SUFFICES ASSUME IInv, Refusals, [Next]_vars PROVE Refusals'
  OBVIOUS
<1>1. CASE EncodeObject \/ EncodeFails
  BY <1>1, RefusalsEncoder
<1>2. CASE Encoded
  <2>1. /\ phase = "encode" /\ todo = <<>> /\ phase' = "carry"
        /\ UNCHANGED <<sent, todo, stream, got, status>>
    BY <1>2, Zenon DEF Encoded, decoderVars
  <2>2. ~Refused(<<>>)
    BY DEF Refused
  <2> QED
    BY <2>1, <2>2 DEF Refusals, Unfit
<1>3. CASE Carry \/ Cut
  <2>1. phase = "carry" /\ phase' = "decode" /\ UNCHANGED <<sent, status>>
    BY <1>3, Zenon DEF Carry, Cut
  <2> QED
    BY <2>1 DEF Refusals, Unfit
<1>4. CASE Decoder
  <2>1. phase = "decode" /\ sent' = sent /\ Goes
    BY <1>4, DecoderGoes
  <2> QED
    BY <2>1 DEF Goes, Refusals, Unfit
<1>5. CASE UNCHANGED vars
  BY <1>5 DEF vars, Refusals, Unfit, Refused
<1> QED
  BY <1>1, <1>2, <1>3, <1>4, <1>5, Zenon DEF Next, Encoder, Done

\* Whatever is encoded together, however deep the objects are nested and whatever the order
\* of the maps: Encode fails if something in the messages is of a type or a length that the
\* context it comes in has no opcode for, and then there is nothing to send; it fails for
\* nothing else, but for a []int8, a []int16 or a vector of a named type
\* (bysant_encoder.go:29-245, 248-290, 433-580).
THEOREM RefusedRightly == Spec => []RefusedForReason
<1>1. Init => IInv /\ Refusals
  BY Begin, RefusalsInit
<1>2. IInv /\ Refusals /\ [Next]_vars => (IInv /\ Refusals)'
  BY Step, RefusalsStep
<1>3. IInv /\ Refusals => RefusedForReason
  <2> SUFFICES ASSUME IInv, Refusals, phase = "done", sent \in Inputs
               PROVE  /\ (\E i \in DOMAIN sent : ~Supported[<<"global", sent[i]>>]) => status = "unencodable"
                      /\ status = "unencodable" =>
                           /\ stream = <<>> /\ got = <<>>
                           /\ \E i \in DOMAIN sent :
                                ~Supported[<<"global", sent[i]>>] \/ ~NoneForgotten[<<"global", sent[i]>>]
    BY Zenon DEF RefusedForReason
  <2>1. /\ status = "unencodable" <=> Unfit
        /\ status = "unencodable" => stream = <<>> /\ got = <<>>
    BY Zenon DEF Refusals
  <2>2. sent \in Seq(Objects)
    BY InputsAssumption
  <2>3. \A i \in DOMAIN sent : <<"global", sent[i]>> \in Todo
    BY <2>2, ElementsIn DEF Todo, Contexts
  <2>4. \A i \in DOMAIN sent : SoFar(<<"global", sent[i]>>)
    BY <2>3, EncodableMeans, Zenon
  <2> QED
    BY <2>1, <2>4, Zenon DEF Unfit, SoFar
<1> QED
  BY <1>1, <1>2, <1>3, PTL DEF Spec

-----------------------------------------------------------------------------
(* What the decoder makes of an object.                                    *)

Each(f, s) == [i \in DOMAIN s |-> f[s[i]]]
ReceivedOf(f, o) ==
  CASE o[1] \in IntTypes("number") -> <<"int64", o[2]>>
    [] o[1] \in TextTypes -> <<"string", o[2]>>
    [] o[1] = "slice" -> <<"list", Each(f, convertSliceToInterface(o[2]))>>
    [] o[1] \in {"list"} \union BodyTypes -> <<o[1], Each(f, o[2])>>
    [] o[1] = "map" -> <<"map", [i \in DOMAIN o[2] |-> <<o[2][i][1], f[o[2][i][2]]>>]>>
    [] o[1] \in {"nil", "bool", "uint32", "named"} \union Floats -> o

ReceivedByType(f, o, r) ==
  /\ o[1] \in IntTypes("number") => r = <<"int64", o[2]>>
  /\ o[1] \in TextTypes => r = <<"string", o[2]>>
  /\ o[1] = "slice" => r = <<"list", Each(f, convertSliceToInterface(o[2]))>>
  /\ o[1] \in {"list"} \union BodyTypes => r = <<o[1], Each(f, o[2])>>
  /\ o[1] = "map" => r = <<"map", [i \in DOMAIN o[2] |-> <<o[2][i][1], f[o[2][i][2]]>>]>>
  /\ o[1] \in {"nil", "bool", "uint32", "named"} \union Floats => r = o

LEMMA ByType ==
  ASSUME NEW f, NEW o \in Objects
  PROVE  ReceivedByType(f, o, ReceivedOf(f, o))
<1>1. /\ IntTypes("number") = {"int", "int8", "int16", "int32", "int64"}
      /\ TextTypes = {"string", "bytes"} /\ Floats = {"float32", "float64"}
      /\ BodyTypes = {"envelope", "message", "response", "deltas", "quasi"}
  BY BodyNames DEF IntTypes, TextTypes, Floats
<1>2. o[1] \in IntTypes("number") => ReceivedOf(f, o) = <<"int64", o[2]>>
  BY <1>1 DEF ReceivedOf
<1>3. o[1] \in TextTypes => ReceivedOf(f, o) = <<"string", o[2]>>
  BY <1>1 DEF ReceivedOf
<1>4. o[1] = "slice" => ReceivedOf(f, o) = <<"list", Each(f, convertSliceToInterface(o[2]))>>
  BY <1>1 DEF ReceivedOf
<1>5. o[1] \in {"list"} \union BodyTypes => ReceivedOf(f, o) = <<o[1], Each(f, o[2])>>
  BY <1>1 DEF ReceivedOf
<1>6. o[1] = "map" => ReceivedOf(f, o) = <<"map", [i \in DOMAIN o[2] |-> <<o[2][i][1], f[o[2][i][2]]>>]>>
  BY <1>1 DEF ReceivedOf
<1>7. o[1] \in {"nil", "bool", "uint32", "named"} \union Floats => ReceivedOf(f, o) = o
  BY <1>1 DEF ReceivedOf
<1> QED
  BY <1>2, <1>3, <1>4, <1>5, <1>6, <1>7, Zenon DEF ReceivedByType

\* It depends on nothing but what is made of the parts.
LEMMA ReceivedOfParts ==
  ASSUME NEW o \in Objects, NEW f, NEW g, \A p \in PartsOf(o) : f[p[2]] = g[p[2]]
  PROVE  ReceivedOf(f, o) = ReceivedOf(g, o)
<1>1. ASSUME NEW s, \A i \in DOMAIN s : f[s[i]] = g[s[i]] PROVE Each(f, s) = Each(g, s)
  BY <1>1 DEF Each
<1>2. ReceivedByType(f, o, ReceivedOf(f, o)) /\ ReceivedByType(g, o, ReceivedOf(g, o))
  BY ByType
<1>3. CASE o[1] \in {"list", "slice"}
  <2>1. PICK s \in Seq(Objects) : /\ PartsOf(o) = {"global"} \X Range(s)
                                  /\ s = IF o[1] = "list" THEN o[2] ELSE convertSliceToInterface(o[2])
    BY <1>3, ListObject, Zenon
  <2>2. \A i \in DOMAIN s : s[i] \in Range(s)
    BY Zenon DEF Range
  <2>3. \A x \in Range(s) : <<"global", x>> \in PartsOf(o) /\ <<"global", x>>[2] = x
    BY <2>1
  <2>4. Each(f, s) = Each(g, s)
    BY <1>1, <2>2, <2>3, Zenon
  <2>5. o[1] = "list" => s = o[2]
    BY <2>1
  <2>6. o[1] = "slice" => s = convertSliceToInterface(o[2])
    BY <2>1
  <2>7. o[1] = "list" => o[1] \in {"list"} \union BodyTypes
    OBVIOUS
  <2> QED
    BY <1>2, <1>3, <2>4, <2>5, <2>6, <2>7, Zenon DEF ReceivedByType
<1>4. CASE o[1] = "map"
  <2>1. /\ PartsOf(o) = UNION {{<<"uis", pair[1]>>, <<"global", pair[2]>>} : pair \in Range(o[2])}
    BY <1>4, PartsByType
  <2>2. \A i \in DOMAIN o[2] : o[2][i] \in Range(o[2])
    BY Zenon DEF Range
  <2>3. \A pair \in Range(o[2]) : <<"global", pair[2]>> \in PartsOf(o) /\ <<"global", pair[2]>>[2] = pair[2]
    BY <2>1
  <2>4. \A i \in DOMAIN o[2] : f[o[2][i][2]] = g[o[2][i][2]]
    BY <2>2, <2>3, Zenon
  <2>5. [i \in DOMAIN o[2] |-> <<o[2][i][1], f[o[2][i][2]]>>] = [i \in DOMAIN o[2] |-> <<o[2][i][1], g[o[2][i][2]]>>]
    BY <2>4
  <2> QED
    BY <1>2, <1>4, <2>5, Zenon DEF ReceivedByType
<1>5. CASE o[1] \in BodyTypes
  <2>1. PartsOf(o) = {<<EncodeTo[o[1]].fields[i], o[2][i]>> : i \in 1..3} /\ DOMAIN o[2] = 1..3
    BY <1>5, PartsByType, ObjectFacts
  <2>2. ASSUME NEW i \in DOMAIN o[2] PROVE f[o[2][i]] = g[o[2][i]]
    <3>1. <<EncodeTo[o[1]].fields[i], o[2][i]>> \in PartsOf(o)
      BY <2>1
    <3>2. \A c, x : <<c, x>>[2] = x
      OBVIOUS
    <3> QED
      BY <3>1, <3>2, Zenon
  <2>3. Each(f, o[2]) = Each(g, o[2])
    BY <1>1, <2>2
  <2>4. o[1] \in {"list"} \union BodyTypes
    BY <1>5
  <2> QED
    BY <1>2, <2>3, <2>4, Zenon DEF ReceivedByType
<1>6. CASE o[1] \notin {"list", "slice", "map"} \union BodyTypes
  <2>1. \/ o[1] \in IntTypes("number") \/ o[1] \in TextTypes
        \/ o[1] \in {"nil", "bool", "uint32", "named"} \union Floats
    BY <1>6, ObjectFacts, BodyNames DEF Types, EncodableTypes, IntTypes
  <2> QED
    BY <1>2, <2>1, Zenon DEF ReceivedByType
<1> QED
  BY <1>3, <1>4, <1>5, <1>6

\* f is right about the objects of fewer than n levels.
RightBelow(f, n) == \A o \in Objects : Nesting[o] < n => f[o] = ReceivedOf(f, o)

LEMMA RightExists ==
  ASSUME NEW N \in Nat
  PROVE  \E f : RightBelow(f, N)
<1> DEFINE S == {n \in Nat : \E f : RightBelow(f, n)}
<1>1. 0 \in S
  <2>1. \A f : RightBelow(f, 0)
    BY Nests DEF RightBelow
  <2> QED
    BY <2>1
<1>2. ASSUME NEW n \in 0..(N - 1), n \in S PROVE n + 1 \in S
  <2>1. PICK f : RightBelow(f, n)
    BY <1>2
  <2> DEFINE g == [o \in Objects |-> ReceivedOf(f, o)]
  <2>2. \A o \in Objects : g[o] = ReceivedOf(f, o)
    OBVIOUS
  <2> HIDE DEF g
  <2>3. ASSUME NEW o \in Objects, Nesting[o] < n + 1 PROVE g[o] = ReceivedOf(g, o)
    <3>1. \A p \in PartsOf(o) : p[2] \in Objects /\ Nesting[p[2]] < n
      <4>1. \A k \in Nat : k < Nesting[o] => k < n
        BY <2>3, Nests
      <4> QED
        BY <4>1, Nests
    <3>2. ASSUME NEW p \in PartsOf(o) PROVE f[p[2]] = g[p[2]]
      <4>1. p[2] \in Objects /\ Nesting[p[2]] < n
        BY <3>1
      <4>2. f[p[2]] = ReceivedOf(f, p[2])
        BY <2>1, <4>1, Zenon DEF RightBelow
      <4> QED
        BY <2>2, <4>1, <4>2
    <3>3. ReceivedOf(f, o) = ReceivedOf(g, o)
      BY <3>2, ReceivedOfParts
    <3> QED
      BY <2>2, <3>3
  <2>4. RightBelow(g, n + 1)
    BY <2>3 DEF RightBelow
  <2> QED
    BY <2>4
<1> HIDE DEF S
<1>3. 0..N \subseteq S
  BY <1>1, <1>2, UpTo
<1>4. N \in S
  BY <1>3
<1> QED
  BY <1>4 DEF S

LEMMA RightIsUnique ==
  ASSUME NEW N \in Nat, NEW f, RightBelow(f, N), NEW g, RightBelow(g, N)
  PROVE  \A o \in Objects : Nesting[o] < N => f[o] = g[o]
<1> DEFINE S == {n \in Nat : n <= N => \A o \in Objects : Nesting[o] < n => f[o] = g[o]}
<1>1. 0 \in S
  BY Nests
<1>2. ASSUME NEW n \in 0..(N - 1), n \in S PROVE n + 1 \in S
  <2>1. ASSUME NEW o \in Objects, Nesting[o] < n + 1 PROVE f[o] = g[o]
    <3>1. \A p \in PartsOf(o) : p[2] \in Objects /\ Nesting[p[2]] < n
      <4>1. \A k \in Nat : k < Nesting[o] => k < n
        BY <2>1, Nests
      <4> QED
        BY <4>1, Nests
    <3>2. \A p \in PartsOf(o) : f[p[2]] = g[p[2]]
      BY <1>2, <3>1
    <3>3. ReceivedOf(f, o) = ReceivedOf(g, o)
      BY <3>2, ReceivedOfParts
    <3>4. Nesting[o] < N
      BY <2>1, Nests
    <3> QED
      BY <3>3, <3>4, Zenon DEF RightBelow
  <2> QED
    BY <2>1
<1> HIDE DEF S
<1>3. 0..N \subseteq S
  BY <1>1, <1>2, UpTo
<1>4. N \in S
  BY <1>3
<1> QED
  BY <1>4 DEF S

\* Received is defined, since no object is a part of itself.
LEMMA ReceivedIs == \A o \in Objects : Received[o] = ReceivedOf(Received, o)
<1> DEFINE Right(n) == CHOOSE f : RightBelow(f, n)
           g == [o \in Objects |-> Right(Nesting[o] + 1)[o]]
<1>1. \A n \in Nat : RightBelow(Right(n), n)
  BY RightExists, Zenon
<1> HIDE DEF Right
<1>2. \A o \in Objects : g[o] = Right(Nesting[o] + 1)[o]
  OBVIOUS
<1> HIDE DEF g
<1>3. ASSUME NEW o \in Objects PROVE g[o] = ReceivedOf(g, o)
  <2> DEFINE n == Nesting[o] + 1
             f == Right(n)
  <2>1. n \in Nat /\ Nesting[o] < n
    BY Nests
  <2>2. RightBelow(f, n)
    BY <1>1, <2>1
  <2> HIDE DEF f
  <2>3. ASSUME NEW p \in PartsOf(o) PROVE f[p[2]] = g[p[2]]
    <3> DEFINE m == Nesting[p[2]] + 1
    <3>1. p[2] \in Objects /\ m \in Nat /\ Nesting[p[2]] < m /\ m <= n
      BY Nests
    <3>2. RightBelow(f, m)
      <4>1. \A x \in Objects : Nesting[x] < m => Nesting[x] < n
        BY <2>1, <3>1, Nests
      <4> QED
        BY <2>2, <4>1, Zenon DEF RightBelow
    <3>3. RightBelow(Right(m), m)
      BY <1>1, <3>1
    <3>4. f[p[2]] = Right(m)[p[2]]
      <4> HIDE DEF m
      <4> QED
        BY <3>1, <3>2, <3>3, RightIsUnique
    <3> QED
      BY <1>2, <3>1, <3>4
  <2>4. ReceivedOf(f, o) = ReceivedOf(g, o)
    BY <2>3, ReceivedOfParts
  <2>5. f[o] = ReceivedOf(f, o)
    BY <2>1, <2>2, Zenon DEF RightBelow
  <2> QED
    BY <1>2, <2>4, <2>5 DEF f
<1> DEFINE Body(f) == [o \in Objects |-> ReceivedOf(f, o)]
           h == [o \in Objects |-> g[o]]
<1>4. h = Body(h)
  <2>1. \A o \in Objects : h[o] = g[o]
    OBVIOUS
  <2>2. ASSUME NEW o \in Objects PROVE ReceivedOf(h, o) = ReceivedOf(g, o)
    <3>1. \A p \in PartsOf(o) : h[p[2]] = g[p[2]]
      BY <2>1, Nests, Zenon
    <3> HIDE DEF h
    <3> QED
      BY <3>1, ReceivedOfParts
  <2> QED
    BY <1>3, <2>2
<1> HIDE DEF h
<1>5. Received = CHOOSE f : f = Body(f)
  BY DEF Received, ReceivedOf, Each
<1>6. Received = Body(Received)
  BY <1>4, <1>5, Zenon
<1> DEFINE r == Received
<1>7. r = Body(r)
  BY <1>6
<1> HIDE DEF r
<1>8. \A o \in Objects : r[o] = ReceivedOf(r, o)
  BY <1>7, Zenon
<1> QED
  BY <1>8 DEF r

-----------------------------------------------------------------------------
(* The parts of an object, one after the other.                            *)

LEMMA ListRest ==
  ASSUME NEW o \in Objects, o[1] \in {"list", "slice"}
  PROVE  \E s \in Seq(Objects) :
           /\ s = IF o[1] = "list" THEN o[2] ELSE convertSliceToInterface(o[2])
           /\ RestOf(o) \in Seq(Todo) /\ Len(RestOf(o)) = Len(s)
           /\ \A i \in 1..Len(s) : RestOf(o)[i] = <<"global", s[i]>>
<1>1. PICK s \in Seq(Objects) : /\ RestOf(o) = Elements(s)
                                /\ s = IF o[1] = "list" THEN o[2] ELSE convertSliceToInterface(o[2])
  BY ListObject, Zenon
<1>2. Elements(s) \in Seq(Todo) /\ Len(Elements(s)) = Len(s) /\ \A i \in 1..Len(s) : Elements(s)[i] = <<"global", s[i]>>
  BY DEF Elements, Todo, Contexts
<1> QED
  BY <1>1, <1>2

LEMMA MapRest ==
  ASSUME NEW o \in Objects, o[1] = "map"
  PROVE  /\ RestOf(o) \in Seq(Todo) /\ Len(o[2]) \in Nat /\ Len(RestOf(o)) = 2 * Len(o[2])
         /\ \A i \in 1..Len(o[2]) : RestOf(o)[2 * i - 1] = <<"uis", o[2][i][1]>> /\ RestOf(o)[2 * i] = <<"global", o[2][i][2]>>
<1> DEFINE m == o[2]
<1>1. m \in Seq(Objects \X Objects) /\ RestOf(o) = Pairs(m)
  BY ObjectFacts, RestByType
<1> HIDE DEF m
<1>2. Len(m) \in Nat /\ \A i \in 1..Len(m) : m[i] \in Objects \X Objects
  BY <1>1
<1>3. ASSUME NEW i \in 1..Len(m)
      PROVE  /\ 2 * i - 1 \in 1..(2 * Len(m)) /\ 2 * i \in 1..(2 * Len(m))
             /\ Pairs(m)[2 * i - 1] = <<"uis", m[i][1]>> /\ Pairs(m)[2 * i] = <<"global", m[i][2]>>
  <2> DEFINE j == 2 * i - 1
             k == 2 * i
  <2>1. /\ j \in 1..(2 * Len(m)) /\ k \in 1..(2 * Len(m))
        /\ j % 2 = 1 /\ (j + 1) \div 2 = i /\ k % 2 # 1 /\ k \div 2 = i
    BY <1>2
  <2> HIDE DEF j, k
  <2>2. Pairs(m)[j] = <<"uis", m[i][1]>> /\ Pairs(m)[k] = <<"global", m[i][2]>>
    BY <2>1 DEF Pairs
  <2> QED
    BY <2>1, <2>2 DEF j, k
<1>4. \A n \in 1..(2 * Len(m)) : \E i \in 1..Len(m) : n = 2 * i - 1 \/ n = 2 * i
  <2> SUFFICES ASSUME NEW n \in 1..(2 * Len(m)) PROVE \E i \in 1..Len(m) : n = 2 * i - 1 \/ n = 2 * i
    OBVIOUS
  <2>1. (n + 1) \div 2 \in 1..Len(m) /\ (n = 2 * ((n + 1) \div 2) - 1 \/ n = 2 * ((n + 1) \div 2))
    BY <1>2
  <2> QED
    BY <2>1
<1>5. \A n \in 1..(2 * Len(m)) : Pairs(m)[n] \in Todo
  <2>1. \A i \in 1..Len(m) : <<"uis", m[i][1]>> \in Todo /\ <<"global", m[i][2]>> \in Todo
    BY <1>2 DEF Todo, Contexts
  <2> QED
    BY <1>3, <1>4, <2>1
<1>6. 2 * Len(m) \in Nat /\ Pairs(m) = [k \in 1..(2 * Len(m)) |-> Pairs(m)[k]]
  BY <1>2 DEF Pairs
<1>7. Pairs(m) \in Seq(Todo) /\ Len(Pairs(m)) = 2 * Len(m)
  <2> DEFINE q == Pairs(m)
             n == 2 * Len(m)
  <2>1. q = [k \in 1..n |-> q[k]] /\ n \in Nat /\ \A k \in 1..n : q[k] \in Todo
    BY <1>5, <1>6
  <2> HIDE DEF q, n
  <2>2. q \in Seq(Todo) /\ Len(q) = n
    BY <2>1
  <2> QED
    BY <2>2 DEF q, n
<1>8. /\ RestOf(o) \in Seq(Todo) /\ Len(RestOf(o)) = 2 * Len(m)
      /\ \A i \in 1..Len(m) : RestOf(o)[2 * i - 1] = <<"uis", m[i][1]>> /\ RestOf(o)[2 * i] = <<"global", m[i][2]>>
  BY <1>1, <1>3, <1>7
<1> QED
  BY <1>2, <1>8 DEF m

LEMMA FieldsRest ==
  ASSUME NEW o \in Objects, o[1] \in BodyTypes
  PROVE  /\ RestOf(o) \in Seq(Todo) /\ Len(RestOf(o)) = 3
         /\ \A i \in 1..3 : RestOf(o)[i] = <<EncodeTo[o[1]].fields[i], o[2][i]>>
<1>1. RestOf(o) = [i \in DOMAIN o[2] |-> <<EncodeTo[o[1]].fields[i], o[2][i]>>] /\ DOMAIN o[2] = 1..3
  BY ObjectFacts, RestByType
<1>2. \A i \in 1..3 : <<EncodeTo[o[1]].fields[i], o[2][i]>> \in Todo
  <2>1. PartsOf(o) = {<<EncodeTo[o[1]].fields[i], o[2][i]>> : i \in 1..3}
    BY PartsByType
  <2> QED
    BY <2>1, PartsInContext
<1> QED
  BY <1>1, <1>2

LEMMA RestType == \A o \in Objects : RestOf(o) \in Seq(Todo)
<1> SUFFICES ASSUME NEW o \in Objects PROVE RestOf(o) \in Seq(Todo)
  OBVIOUS
<1>1. o[1] \in {"list", "slice"} => RestOf(o) \in Seq(Todo)
  BY ListRest
<1>2. o[1] = "map" => RestOf(o) \in Seq(Todo)
  BY MapRest
<1>3. o[1] \in BodyTypes => RestOf(o) \in Seq(Todo)
  BY FieldsRest
<1>4. o[1] \notin {"list", "slice", "map"} \union BodyTypes => RestOf(o) \in Seq(Todo)
  <2>1. o[1] \notin {"list", "slice", "map"} \union BodyTypes => RestOf(o) = <<>>
    BY RestByType, Zenon
  <2> QED
    BY <2>1, EmptyType, Zenon
<1> QED
  BY <1>1, <1>2, <1>3, <1>4

-----------------------------------------------------------------------------
(* What the decoder is in the middle of, and what is left to be read.      *)

\* An object in its context that the encoder comes to, and that the decoder can follow it in.
Fit(t) == t \in Todo /\ InContext(t[1], t[2]) /\ Followed[t]
AllFit(T) == \A i \in DOMAIN T : Fit(T[i])

\* The type of the frame that an object is read in, and the i-th part of it as the decoder has
\* it: it takes the opcode of the empty text of a response for that of true.
FrameType(o) == IF o[1] = "slice" THEN "list" ELSE o[1]
Framed(o) == o[1] \in {"list", "slice", "map"} \union BodyTypes
PartRead(o, i) == IF o[1] = "response" /\ i = 3 THEN <<"bool", TRUE>> ELSE Received[RestOf(o)[i][2]]

\* The frame f has the first parts of the object o.
Shows(f, o) ==
  /\ o \in Objects /\ Framed(o)
  /\ f.type = FrameType(o) /\ f.size = Len(RestOf(o))
  /\ \A i \in 1..Len(f.parts) : f.parts[i] = PartRead(o, i)
Remaining(f, o) == SubSeq(RestOf(o), Len(f.parts) + 1, Len(RestOf(o)))

\* The stack st has what was written before T, when base is what was left to write for the
\* message that is read and those after it: a set M has the pair of both, and with each pair
\* that of the frames around the first and of what was left when that was opened.
Around(p, base, M) ==
  IF p[1] = <<>> THEN p[2] = base
  ELSE \E t, T : /\ Fit(t) /\ T \in Seq(Todo)
                 /\ Shows(Head(p[1]), t[2]) /\ p[2] = Remaining(Head(p[1]), t[2]) \o T
                 /\ <<Tail(p[1]), <<t>> \o T>> \in M
Awaits(st, T, base) == \E M : <<st, T>> \in M /\ \A p \in M : Around(p, base, M)

LEMMA Inside ==
  ASSUME NEW st, st # <<>>, NEW T, NEW base, Awaits(st, T, base)
  PROVE  \E t, U : /\ Fit(t) /\ U \in Seq(Todo)
                   /\ Shows(Head(st), t[2]) /\ T = Remaining(Head(st), t[2]) \o U
                   /\ Awaits(Tail(st), <<t>> \o U, base)
<1>1. PICK M : <<st, T>> \in M /\ \A p \in M : Around(p, base, M)
  BY DEF Awaits
<1>2. Around(<<st, T>>, base, M)
  BY <1>1
<1>3. <<st, T>>[1] = st /\ <<st, T>>[2] = T
  OBVIOUS
<1>4. PICK t, U : /\ Fit(t) /\ U \in Seq(Todo)
                  /\ Shows(Head(st), t[2]) /\ T = Remaining(Head(st), t[2]) \o U
                  /\ <<Tail(st), <<t>> \o U>> \in M
  BY <1>2, <1>3, Zenon DEF Around
<1>5. Awaits(Tail(st), <<t>> \o U, base)
  BY <1>1, <1>4, Zenon DEF Awaits
<1> QED
  BY <1>4, <1>5, Zenon

LEMMA Outside == \A T, base : Awaits(<<>>, T, base) <=> T = base
<1> SUFFICES ASSUME NEW T, NEW base PROVE Awaits(<<>>, T, base) <=> T = base
  OBVIOUS
<1>1. << <<>>, T>>[1] = <<>> /\ << <<>>, T>>[2] = T
  OBVIOUS
<1>2. ASSUME Awaits(<<>>, T, base) PROVE T = base
  BY <1>1, <1>2, Zenon DEF Awaits, Around
<1>3. ASSUME T = base PROVE Awaits(<<>>, T, base)
  <2> DEFINE M == {<< <<>>, T>>}
  <2>1. << <<>>, T>> \in M /\ \A p \in M : Around(p, base, M)
    BY <1>1, <1>3, Zenon DEF Around
  <2> QED
    BY <2>1, Zenon DEF Awaits
<1> QED
  BY <1>2, <1>3

LEMMA Resumed ==
  ASSUME NEW st, st # <<>>, NEW t, Fit(t), NEW U \in Seq(Todo), NEW base,
         Shows(Head(st), t[2]), Awaits(Tail(st), <<t>> \o U, base)
  PROVE  Awaits(st, Remaining(Head(st), t[2]) \o U, base)
<1> DEFINE T == Remaining(Head(st), t[2]) \o U
<1>1. PICK M : <<Tail(st), <<t>> \o U>> \in M /\ \A p \in M : Around(p, base, M)
  BY DEF Awaits
<1> DEFINE N == M \union {<<st, T>>}
<1>2. ASSUME NEW p \in M PROVE Around(p, base, N)
  <2>1. Around(p, base, M) /\ \A x \in M : x \in N
    BY <1>1
  <2> HIDE DEF N
  <2> QED
    BY <2>1, Zenon DEF Around
<1>3. Around(<<st, T>>, base, N)
  <2>1. <<st, T>>[1] = st /\ <<st, T>>[2] = T /\ <<Tail(st), <<t>> \o U>> \in N
    BY <1>1
  <2> HIDE DEF N
  <2>2. T = Remaining(Head(st), t[2]) \o U
    OBVIOUS
  <2> HIDE DEF T
  <2> QED
    BY <2>1, <2>2, Zenon DEF Around
<1>4. <<st, T>> \in N /\ \A p \in N : Around(p, base, N)
  BY <1>2, <1>3
<1> HIDE DEF N
<1>5. Awaits(st, T, base)
  BY <1>4, Zenon DEF Awaits
<1> QED
  BY <1>5

StartsWith(S, T, x, U) == T \in Seq(S) /\ T # <<>> /\ Head(T) = x /\ Tail(T) = U

LEMMA NextOfRest ==
  ASSUME NEW S, NEW s \in Seq(S), NEW U \in Seq(S), NEW k \in Nat, k < Len(s)
  PROVE  StartsWith(S, SubSeq(s, k + 1, Len(s)) \o U, s[k + 1], SubSeq(s, k + 2, Len(s)) \o U)
<1> SUFFICES ASSUME NEW T, T = SubSeq(s, k + 1, Len(s)) \o U
             PROVE  StartsWith(S, T, s[k + 1], SubSeq(s, k + 2, Len(s)) \o U)
  OBVIOUS
<1> DEFINE r == SubSeq(s, k + 1, Len(s))
           q == SubSeq(s, k + 2, Len(s))
<1>01. T = r \o U
  OBVIOUS
<1>1. /\ r \in Seq(S) /\ Len(r) = Len(s) - k
      /\ \A i \in 1..(Len(s) - k) : r[i] = s[k + i]
  OBVIOUS
<1>2. /\ q \in Seq(S) /\ Len(q) = Len(s) - k - 1
      /\ \A i \in 1..(Len(s) - k - 1) : q[i] = s[k + 1 + i]
  OBVIOUS
<1>3. /\ Len(s) \in Nat /\ Len(s) - k \in Nat /\ Len(s) - k - 1 \in Nat /\ Len(U) \in Nat
      /\ \A i \in 1..(Len(s) - k - 1) : i + 1 \in 1..(Len(s) - k) /\ k + (i + 1) = k + 1 + i
  OBVIOUS
<1> HIDE DEF r, q
<1>0. \A x, y \in Seq(S) :
        /\ x \o y \in Seq(S) /\ Len(x \o y) = Len(x) + Len(y)
        /\ \A i \in 1..Len(x) : (x \o y)[i] = x[i]
        /\ \A i \in 1..Len(y) : (x \o y)[Len(x) + i] = y[i]
  <2> SUFFICES ASSUME NEW x \in Seq(S), NEW y \in Seq(S)
               PROVE  /\ x \o y \in Seq(S) /\ Len(x \o y) = Len(x) + Len(y)
                      /\ \A i \in 1..Len(x) : (x \o y)[i] = x[i]
                      /\ \A i \in 1..Len(y) : (x \o y)[Len(x) + i] = y[i]
    OBVIOUS
  <2> QED
    BY ConcatElems
<1>4. /\ T \in Seq(S) /\ Len(T) = Len(r) + Len(U)
      /\ \A i \in 1..Len(r) : T[i] = r[i]
      /\ \A i \in 1..Len(U) : T[Len(r) + i] = U[i]
  <2>1. /\ r \o U \in Seq(S) /\ Len(r \o U) = Len(r) + Len(U)
        /\ \A i \in 1..Len(r) : (r \o U)[i] = r[i]
        /\ \A i \in 1..Len(U) : (r \o U)[Len(r) + i] = U[i]
    BY <1>0, <1>1, Zenon
  <2> QED
    BY <1>01, <2>1, Zenon
<1>5. /\ q \o U \in Seq(S) /\ Len(q \o U) = Len(q) + Len(U)
      /\ \A i \in 1..Len(q) : (q \o U)[i] = q[i]
      /\ \A i \in 1..Len(U) : (q \o U)[Len(q) + i] = U[i]
  BY <1>0, <1>2, Zenon
<1>00. \A x \in Seq(S) : Len(x) > 0 => x # <<>> /\ Head(x) = x[1]
  OBVIOUS
<1>02. Len(T) > 0 /\ T[1] = s[k + 1]
  <2> HIDE <1>01
  <2>1. Len(r) > 0 /\ 1 \in 1..Len(r) /\ 1 \in 1..(Len(s) - k)
    BY <1>1, <1>3
  <2>2. Len(T) > 0
    BY <1>3, <1>4, <2>1
  <2>3. T[1] = r[1] /\ r[1] = s[k + 1]
    BY <1>1, <1>4, <2>1, Zenon
  <2> QED
    BY <2>2, <2>3
<1>6. T # <<>> /\ Head(T) = s[k + 1]
  BY <1>00, <1>02, <1>4, Zenon
<1>7. /\ Tail(T) \in Seq(S) /\ Len(Tail(T)) = Len(T) - 1
      /\ \A i \in 1..Len(Tail(T)) : Tail(T)[i] = T[i + 1]
  BY <1>4, <1>6, SeqFacts, TailElems
<1>8. ASSUME NEW i \in 1..Len(Tail(T)) PROVE Tail(T)[i] = (q \o U)[i]
  <2>1. CASE i <= Len(s) - k - 1
    <3>1. i \in 1..Len(q) /\ i + 1 \in 1..Len(r)
      <4>1. \A l, m \in Nat : l - m - 1 \in Nat => \A j \in Nat \ {0} : j <= l - m - 1 => j \in 1..(l - m - 1) /\ j + 1 \in 1..(l - m)
        OBVIOUS
      <4>2. i \in Nat \ {0}
        BY <1>7
      <4>3. Len(r) = Len(s) - k /\ Len(q) = Len(s) - k - 1 /\ Len(s) \in Nat /\ k \in Nat /\ Len(s) - k - 1 \in Nat
        BY <1>1, <1>2, <1>3
      <4> QED
        BY <2>1, <4>1, <4>2, <4>3
    <3>2. T[i + 1] = r[i + 1] /\ (q \o U)[i] = q[i]
      BY <1>4, <1>5, <3>1, Zenon
    <3>3. i \in 1..(Len(s) - k - 1) /\ i + 1 \in 1..(Len(s) - k) /\ k + (i + 1) = k + 1 + i
      BY <1>1, <1>2, <1>3, <3>1
    <3>4. r[i + 1] = s[k + (i + 1)] /\ q[i] = s[k + 1 + i]
      BY <1>1, <1>2, <3>3, Zenon
    <3> QED
      BY <1>7, <3>2, <3>3, <3>4, Zenon
  <2>2. CASE i > Len(s) - k - 1
    <3> DEFINE j == i - (Len(s) - k - 1)
    <3>1. j \in 1..Len(U) /\ i = Len(q) + j /\ i + 1 = Len(r) + j
      <4>1. Len(r) = Len(s) - k /\ Len(q) = Len(s) - k - 1 /\ Len(s) \in Nat /\ k \in Nat
        BY <1>1, <1>2, <1>3
      <4>2. Len(Tail(T)) = Len(r) + Len(U) - 1 /\ Len(U) \in Nat
        BY <1>4, <1>7
      <4>3. i \in Nat /\ i <= Len(Tail(T))
        BY <4>1, <4>2
      <4> QED
        BY <2>2, <4>1, <4>2, <4>3
    <3> HIDE DEF j
    <3> QED
      BY <1>4, <1>5, <1>7, <3>1
  <2>3. i <= Len(s) - k - 1 \/ i > Len(s) - k - 1
    BY <1>3
  <2> QED
    BY <2>1, <2>2, <2>3
<1>9. \A a, b : a \in Seq(S) /\ b \in Seq(S) /\ Len(a) = Len(b) /\ (\A i \in 1..Len(a) : a[i] = b[i]) => a = b
  OBVIOUS
<1>10. Tail(T) = q \o U
  <2>1. Len(Tail(T)) = Len(q \o U)
    BY <1>1, <1>2, <1>3, <1>4, <1>5, <1>7
  <2> QED
    BY <1>5, <1>7, <1>8, <1>9, <2>1, Zenon
<1> QED
  BY <1>4, <1>6, <1>10, Zenon DEF q, StartsWith

-----------------------------------------------------------------------------
(* The parts that are read, and what is made of all of them.               *)

\* The type of what is made of an object.
TypeRead(type) ==
  IF type \in IntTypes("number") THEN "int64"
  ELSE IF type \in TextTypes THEN "string" ELSE IF type = "slice" THEN "list" ELSE type

LEMMA TypeSets ==
  /\ IntTypes("number") = {"int", "int8", "int16", "int32", "int64"}
  /\ TextTypes = {"string", "bytes"} /\ Floats = {"float32", "float64"}
  /\ BodyTypes = {"envelope", "message", "response", "deltas", "quasi"}
  /\ Containers = {"list", "map", "listSize", "mapSize"}
BY BodyNames DEF IntTypes, TextTypes, Floats, Containers

LEMMA ReceivedFacts ==
  ASSUME NEW o \in Objects
  PROVE  ReceivedByType(Received, o, Received[o]) /\ Received[o][1] = TypeRead(o[1])
<1> DEFINE r == Received[o]
           f == Received
<1>1. ReceivedByType(f, o, r)
  BY ReceivedIs, ByType
<1>2. \/ o[1] \in IntTypes("number") \/ o[1] \in TextTypes \/ o[1] \in {"list"} \union BodyTypes
      \/ o[1] = "slice" \/ o[1] = "map" \/ o[1] \in {"nil", "bool", "uint32", "named"} \union Floats
  BY ObjectFacts, TypeSets, BodyNames DEF Types, EncodableTypes, IntTypes
<1> HIDE DEF r, f
<1>3. \A a, b : <<a, b>>[1] = a
  OBVIOUS
<1>4. o[1] \in IntTypes("number") => r[1] = "int64"
  BY <1>1, <1>3, Zenon DEF ReceivedByType
<1>5. o[1] \in TextTypes => r[1] = "string"
  BY <1>1, <1>3, Zenon DEF ReceivedByType
<1>6. o[1] \in {"list"} \union BodyTypes => r[1] = o[1]
  <2>1. o[1] \in {"list"} \union BodyTypes => r = <<o[1], Each(f, o[2])>>
    BY <1>1, Zenon DEF ReceivedByType
  <2> QED
    BY <2>1
<1>7. o[1] = "slice" => r[1] = "list"
  BY <1>1, <1>3, Zenon DEF ReceivedByType
<1>8. o[1] = "map" => r[1] = "map"
  BY <1>1, <1>3, Zenon DEF ReceivedByType
<1>9. o[1] \in {"nil", "bool", "uint32", "named"} \union Floats => r[1] = o[1]
  BY <1>1, Zenon DEF ReceivedByType
<1>10. r[1] = TypeRead(o[1])
  BY <1>2, <1>4, <1>5, <1>6, <1>7, <1>8, <1>9, TypeSets DEF TypeRead
<1> QED
  BY <1>1, <1>10 DEF r, f

\* What the parts of a frame are.
LEMMA FieldRead ==
  ASSUME NEW o \in Objects, o[1] \in BodyTypes, NEW i \in 1..3, ~(o[1] = "response" /\ i = 3)
  PROVE  /\ PartRead(o, i) = Received[o[2][i]] /\ o[2][i] \in Objects
         /\ PartRead(o, i)[1] = TypeRead(o[2][i][1])
         /\ o[2][i][1] \in FieldTypes[o[1]][i]
<1>1. RestOf(o)[i] = <<EncodeTo[o[1]].fields[i], o[2][i]>>
  BY FieldsRest
<1>2. PartRead(o, i) = Received[o[2][i]]
  <2>1. RestOf(o)[i][2] = o[2][i]
    BY <1>1
  <2> QED
    BY <2>1, Zenon DEF PartRead
<1>3. o[2][i] \in Objects /\ o[2][i][1] \in FieldTypes[o[1]][i]
  BY ObjectFacts, ElementsIn
<1> QED
  BY <1>2, <1>3, ReceivedFacts

LEMMA KeyRead ==
  ASSUME NEW o \in Objects, o[1] = "map", NEW i \in 1..Len(o[2])
  PROVE  /\ PartRead(o, 2 * i - 1) = o[2][i][1] /\ o[2][i][1][1] = "string"
         /\ PartRead(o, 2 * i) = Received[o[2][i][2]]
<1> DEFINE key == o[2][i][1]
           value == o[2][i][2]
           k == 2 * i
           j == 2 * i - 1
<1>1. o[2] \in Seq(Objects \X Objects) /\ i \in DOMAIN o[2]
  BY ObjectFacts
<1>2. key \in Objects /\ key[1] = "string"
  BY <1>1, ObjectFacts
<1>3. RestOf(o)[j] = <<"uis", key>> /\ RestOf(o)[k] = <<"global", value>>
  BY MapRest
<1> HIDE DEF key, value, k, j
<1>4. PartRead(o, j) = Received[key] /\ PartRead(o, k) = Received[value]
  <2>1. o[1] # "response"
    OBVIOUS
  <2>2. RestOf(o)[j][2] = key /\ RestOf(o)[k][2] = value
    BY <1>3
  <2> QED
    BY <2>1, <2>2, Zenon DEF PartRead
<1>5. Received[key] = key
  <2>1. key[1] \in TextTypes
    BY <1>2, TypeSets
  <2>2. Received[key] = <<"string", key[2]>>
    BY <1>2, <2>1, ReceivedFacts, Zenon DEF ReceivedByType
  <2>3. key = <<key[1], key[2]>>
    BY <1>2, ObjectFacts
  <2> QED
    BY <1>2, <2>2, <2>3, Zenon
<1> QED
  BY <1>2, <1>4, <1>5 DEF key, value, k, j

\* PartOk, type by type.
PartOkByType(f, v, i) ==
  /\ f.type = "list" => PartOk(f, v)
  /\ f.type = "map" => (PartOk(f, v) <=> (i % 2 = 1 => v[1] = "string"))
  /\ f.type = "message" => (PartOk(f, v) <=> decodeMessageAsserts(i, v))
  /\ f.type = "response" => (PartOk(f, v) <=> decodeResponseAsserts(i, v))
  /\ f.type = "envelope" => (PartOk(f, v) <=> decodeEnvelopeAsserts(i, v))
  /\ f.type = "deltas" => (PartOk(f, v) <=> decodeDeltasAsserts(i, v, f.parts))
  /\ f.type = "quasi" => (PartOk(f, v) <=> decodeQuasiAsserts(i, v, f.parts))

LEMMA PartOkIs == \A f, v : PartOkByType(f, v, Len(f.parts) + 1)
<1> SUFFICES ASSUME NEW f, NEW v PROVE PartOkByType(f, v, Len(f.parts) + 1)
  OBVIOUS
<1> DEFINE i == Len(f.parts) + 1
<1>1. f.type = "list" => PartOk(f, v)
  BY DEF PartOk
<1>2. f.type = "map" => (PartOk(f, v) <=> (i % 2 = 1 => v[1] = "string"))
  BY DEF PartOk
<1>3. f.type = "message" => (PartOk(f, v) <=> decodeMessageAsserts(i, v))
  BY DEF PartOk
<1>4. f.type = "response" => (PartOk(f, v) <=> decodeResponseAsserts(i, v))
  BY DEF PartOk
<1>5. f.type = "envelope" => (PartOk(f, v) <=> decodeEnvelopeAsserts(i, v))
  BY DEF PartOk
<1>6. f.type = "deltas" => (PartOk(f, v) <=> decodeDeltasAsserts(i, v, f.parts))
  BY DEF PartOk
<1>7. f.type = "quasi" => (PartOk(f, v) <=> decodeQuasiAsserts(i, v, f.parts))
  BY DEF PartOk
<1> QED
  BY <1>1, <1>2, <1>3, <1>4, <1>5, <1>6, <1>7, Zenon DEF PartOkByType

\* The decoder accepts each part.
LEMMA PartsOk ==
  ASSUME NEW f, IsFrame(f), ~Full(f), NEW o, Shows(f, o)
  PROVE  PartOk(f, PartRead(o, Len(f.parts) + 1))
<1> DEFINE i == Len(f.parts) + 1
           v == PartRead(o, i)
<1> SUFFICES PartOk(f, v)
  OBVIOUS
<1>0. PartOkByType(f, v, i)
  BY PartOkIs
<1>1. /\ o \in Objects /\ Framed(o) /\ f.type = FrameType(o) /\ f.size = Len(RestOf(o))
      /\ \A k \in 1..Len(f.parts) : f.parts[k] = PartRead(o, k)
  BY DEF Shows
<1>2. Len(f.parts) \in Nat /\ i \in 1..f.size /\ i \in Nat \ {0}
  BY SeqDomain DEF IsFrame, Full
<1>3. CASE o[1] \in {"list", "slice"}
  <2>1. f.type = "list"
    BY <1>1, <1>3 DEF FrameType
  <2> QED
    BY <1>0, <2>1, Zenon DEF PartOkByType
<1>4. CASE o[1] = "map"
  <2>1. f.type = "map"
    BY <1>1, <1>4 DEF FrameType
  <2>2. ASSUME i % 2 = 1 PROVE v[1] = "string"
    <3>1. Len(o[2]) \in Nat /\ i \in 1..(2 * Len(o[2]))
      BY <1>1, <1>2, <1>4, MapRest
    <3>2. \A n \in Nat : \A j \in 1..(2 * n) : j % 2 = 1 => \E k \in 1..n : j = 2 * k - 1
      <4> SUFFICES ASSUME NEW n \in Nat, NEW j \in 1..(2 * n), j % 2 = 1 PROVE \E k \in 1..n : j = 2 * k - 1
        OBVIOUS
      <4>1. (j + 1) \div 2 \in 1..n /\ j = 2 * ((j + 1) \div 2) - 1
        OBVIOUS
      <4> QED
        BY <4>1
    <3> HIDE DEF i
    <3>3. PICK k \in 1..Len(o[2]) : i = 2 * k - 1
      BY <2>2, <3>1, <3>2
    <3> QED
      BY <1>1, <1>4, <3>3, KeyRead
  <2> HIDE DEF v, i
  <2> QED
    BY <1>0, <2>1, <2>2, Zenon DEF PartOkByType
<1>5. CASE o[1] \in BodyTypes
  <2>1. f.type = o[1] /\ i \in 1..3
    BY <1>1, <1>2, <1>5, TypeSets, FieldsRest DEF FrameType
  <2>2. ~(o[1] = "response" /\ i = 3) =>
          v = Received[o[2][i]] /\ v[1] = TypeRead(o[2][i][1]) /\ o[2][i][1] \in FieldTypes[o[1]][i]
    BY <1>1, <1>5, <2>1, FieldRead
  <2> HIDE DEF v, i
  <2>3. CASE o[1] = "envelope"
    <3>1. IF i = 2 THEN v[1] = "string" ELSE v[1] = "map"
      BY <2>1, <2>2, <2>3, TypeSets DEF FieldTypes, TypeRead
    <3>2. decodeEnvelopeAsserts(i, v)
      BY <3>1 DEF decodeEnvelopeAsserts
    <3> QED
      BY <1>0, <2>1, <2>3, <3>2, Zenon DEF PartOkByType
  <2>4. CASE o[1] = "message"
    <3>1. i = 1 => v[1] = "string"
      BY <2>1, <2>2, <2>4, TypeSets DEF FieldTypes, TypeRead
    <3>2. decodeMessageAsserts(i, v)
      BY <3>1 DEF decodeMessageAsserts
    <3> QED
      BY <1>0, <2>1, <2>4, <3>2, Zenon DEF PartOkByType
  <2>5. CASE o[1] = "response"
    <3>1. /\ i = 1 => v[1] = "uint32"
          /\ i = 2 => v[1] = "int64"
      BY <2>1, <2>2, <2>5, TypeSets DEF FieldTypes, TypeRead
    <3>2. decodeResponseAsserts(i, v)
      BY <3>1 DEF decodeResponseAsserts
    <3> QED
      BY <1>0, <2>1, <2>5, <3>2, Zenon DEF PartOkByType
  <2>6. CASE o[1] \in {"deltas", "quasi"}
    <3> DEFINE v1 == o[2][1]
               v2 == o[2][2]
               v3 == o[2][3]
    <3>1. v2[1] = v1[1] /\ \A k \in DOMAIN v3[2] : v3[2][k][1] = v1[1]
      BY <1>1, <2>6, ObjectFacts DEF OneType
    <3>2. /\ v1 \in Objects /\ v2 \in Objects /\ v3 \in Objects /\ v3[1] = "list"
          /\ PartRead(o, 1)[1] = TypeRead(v1[1])
          /\ PartRead(o, 2)[1] = TypeRead(v2[1])
          /\ PartRead(o, 3) = Received[v3]
      <4>1. ~(o[1] = "response" /\ 1 = 3) /\ ~(o[1] = "response" /\ 2 = 3) /\ ~(o[1] = "response" /\ 3 = 3)
        BY <2>6
      <4>2. 1 \in 1..3 /\ 2 \in 1..3 /\ 3 \in 1..3
        OBVIOUS
      <4>3. FieldTypes[o[1]][3] = {"list"}
        BY <2>6 DEF FieldTypes
      <4> HIDE DEF v1, v2, v3
      <4>4. /\ PartRead(o, 1)[1] = TypeRead(o[2][1][1]) /\ o[2][1] \in Objects
        BY <1>1, <1>5, <4>1, <4>2, FieldRead
      <4>5. /\ PartRead(o, 2)[1] = TypeRead(o[2][2][1]) /\ o[2][2] \in Objects
        BY <1>1, <1>5, <4>1, <4>2, FieldRead
      <4>6. /\ PartRead(o, 3) = Received[o[2][3]] /\ o[2][3] \in Objects /\ o[2][3][1] \in FieldTypes[o[1]][3]
        BY <1>1, <1>5, <4>1, <4>2, FieldRead
      <4> QED
        BY <4>3, <4>4, <4>5, <4>6 DEF v1, v2, v3
    <3> HIDE DEF v1, v2, v3
    <3>3. i > 1 => f.parts[1] = PartRead(o, 1)
      BY <1>1, <1>2 DEF i
    <3>4. i = 2 => v[1] = f.parts[1][1]
      BY <3>1, <3>2, <3>3 DEF v
    <3>5. ASSUME i = 3 PROVE v[1] = "list" /\ \A k \in DOMAIN v[2] : v[2][k][1] = f.parts[1][1]
      <4>1. v3[1] \in {"list"} \union BodyTypes /\ v3[2] \in Seq(Objects)
        BY <3>2, ObjectFacts
      <4>2. v = <<v3[1], Each(Received, v3[2])>>
        BY <3>2, <3>5, <4>1, ReceivedFacts, Zenon DEF ReceivedByType, v
      <4>3. v[1] = "list" /\ v[2] = Each(Received, v3[2])
        BY <3>2, <4>2
      <4>4. DOMAIN v[2] = DOMAIN v3[2] /\ \A k \in DOMAIN v3[2] : v[2][k] = Received[v3[2][k]]
        BY <4>3 DEF Each
      <4>5. \A k \in DOMAIN v3[2] : v3[2][k] \in Objects
        BY <4>1
      <4>6. \A k \in DOMAIN v3[2] : Received[v3[2][k]][1] = TypeRead(v1[1])
        BY <3>1, <4>5, ReceivedFacts
      <4>7. f.parts[1][1] = TypeRead(v1[1])
        BY <3>2, <3>3, <3>5
      <4> QED
        BY <4>3, <4>4, <4>6, <4>7
    <3>6. decodeDeltasAsserts(i, v, f.parts)
      BY <3>4, <3>5, Zenon DEF decodeDeltasAsserts
    <3>7. decodeQuasiAsserts(i, v, f.parts)
      <4>1. i = 1 => decodeQuasiAsserts(i, v, f.parts)
        BY DEF decodeQuasiAsserts
      <4>2. i = 2 => decodeQuasiAsserts(i, v, f.parts)
        BY <3>4 DEF decodeQuasiAsserts
      <4>3. i = 3 => decodeQuasiAsserts(i, v, f.parts)
        BY <3>5 DEF decodeQuasiAsserts
      <4> QED
        BY <2>1, <4>1, <4>2, <4>3
    <3>8. f.type = "deltas" \/ f.type = "quasi"
      BY <2>1, <2>6
    <3> QED
      BY <1>0, <3>6, <3>7, <3>8, Zenon DEF PartOkByType
  <2> QED
    BY <1>5, <2>3, <2>4, <2>5, <2>6, TypeSets
<1> QED
  BY <1>1, <1>3, <1>4, <1>5 DEF Framed

\* Built, type by type.
BuiltByType(f) ==
  /\ f.type = "map" => Built(f) = MapWith(f.size \div 2, f.parts)
  /\ f.type = "message" => Built(f) = MessageOf(f.parts)
  /\ f.type = "response" => Built(f) = ResponseOf(f.parts)
  /\ f.type = "envelope" => Built(f) = EnvelopeOf(f.parts)
  /\ f.type \in {"list", "deltas", "quasi"} => Built(f) = <<f.type, f.parts>>

LEMMA BuiltIs == \A f : BuiltByType(f)
<1> SUFFICES ASSUME NEW f PROVE BuiltByType(f)
  OBVIOUS
<1>1. f.type = "map" => Built(f) = MapWith(f.size \div 2, f.parts)
  BY DEF Built
<1>2. f.type = "message" => Built(f) = MessageOf(f.parts)
  BY DEF Built
<1>3. f.type = "response" => Built(f) = ResponseOf(f.parts)
  BY DEF Built
<1>4. f.type = "envelope" => Built(f) = EnvelopeOf(f.parts)
  BY DEF Built
<1>5. f.type \in {"list", "deltas", "quasi"} => Built(f) = <<f.type, f.parts>>
  BY DEF Built
<1> QED
  BY <1>1, <1>2, <1>3, <1>4, <1>5, Zenon DEF BuiltByType

LEMMA PartsAre ==
  ASSUME NEW p, IsSeq(p), NEW s, DOMAIN s = 1..Len(p), \A i \in DOMAIN s : p[i] = Received[s[i]]
  PROVE  p = Each(Received, s)
<1>1. \A S : \A q \in Seq(S) : q = [i \in 1..Len(q) |-> q[i]]
  OBVIOUS
<1>2. p = [i \in 1..Len(p) |-> p[i]]
  BY <1>1 DEF IsSeq
<1> QED
  BY <1>2, Zenon DEF Each

\* All the parts make the object that is received.
LEMMA BuiltReceived ==
  ASSUME NEW f, IsFrame(f), Full(f), NEW o, Shows(f, o),
         o[1] = "response" => o[2][3] = <<"string", 0>>
  PROVE  Built(f) = Received[o]
<1>1. /\ o \in Objects /\ Framed(o) /\ f.type = FrameType(o) /\ f.size = Len(RestOf(o))
      /\ \A k \in 1..Len(f.parts) : f.parts[k] = PartRead(o, k)
      /\ Len(f.parts) = f.size
  BY DEF Shows, Full
<1>2. IsSeq(f.parts) /\ Len(f.parts) \in Nat
  BY SeqDomain DEF IsFrame
<1>3. BuiltByType(f) /\ ReceivedByType(Received, o, Received[o])
  BY <1>1, BuiltIs, ReceivedFacts
<1>4. CASE o[1] \in {"list", "slice"}
  <2>1. PICK s \in Seq(Objects) :
          /\ s = IF o[1] = "list" THEN o[2] ELSE convertSliceToInterface(o[2])
          /\ Len(RestOf(o)) = Len(s) /\ \A i \in 1..Len(s) : RestOf(o)[i] = <<"global", s[i]>>
    BY <1>1, <1>4, ListRest
  <2>2. DOMAIN s = 1..Len(f.parts)
    BY <1>1, <2>1
  <2>3. \A i \in DOMAIN s : f.parts[i] = Received[s[i]]
    BY <1>1, <1>4, <2>1, <2>2 DEF PartRead
  <2>4. f.parts = Each(Received, s)
    BY <1>2, <2>2, <2>3, PartsAre
  <2>5. Built(f) = <<"list", f.parts>>
    BY <1>1, <1>3, <1>4 DEF FrameType, BuiltByType
  <2>6. Received[o] = <<"list", Each(Received, s)>>
    BY <1>3, <1>4, <2>1 DEF ReceivedByType
  <2> QED
    BY <2>4, <2>5, <2>6
<1>5. CASE o[1] = "map"
  <2> DEFINE m == o[2]
             n == Len(m)
             p == f.parts
  <2>1. n \in Nat /\ f.size = 2 * n /\ Len(p) = 2 * n /\ DOMAIN m = 1..n
    <3>1. m \in Seq(Objects \X Objects)
      BY <1>1, <1>5, ObjectFacts
    <3> QED
      BY <1>1, <1>5, <3>1, MapRest
  <2>2. \A k \in 1..n : p[2 * k - 1] = m[k][1] /\ p[2 * k] = Received[m[k][2]]
    <3> SUFFICES ASSUME NEW k \in 1..n PROVE p[2 * k - 1] = m[k][1] /\ p[2 * k] = Received[m[k][2]]
      OBVIOUS
    <3>1. 2 * k - 1 \in 1..Len(p) /\ 2 * k \in 1..Len(p)
      BY <2>1
    <3>2. PartRead(o, 2 * k - 1) = m[k][1] /\ PartRead(o, 2 * k) = Received[m[k][2]]
      BY <1>1, <1>5, KeyRead
    <3> QED
      BY <1>1, <3>1, <3>2
  <2>3. (2 * n) \div 2 = n
    <3>1. \A k \in Nat : (2 * k) \div 2 = k
      OBVIOUS
    <3> HIDE DEF n
    <3> QED
      BY <2>1, <3>1
  <2>4. Built(f) = MapWith(n, p)
    BY <1>1, <1>3, <1>5, <2>1, <2>3 DEF FrameType, BuiltByType
  <2>5. Received[o] = <<"map", [i \in DOMAIN m |-> <<m[i][1], Received[m[i][2]]>>]>>
    BY <1>3, <1>5, Zenon DEF ReceivedByType
  <2> HIDE DEF m, n, p
  <2>6. [k \in 1..n |-> <<p[2 * k - 1], p[2 * k]>>] = [i \in DOMAIN m |-> <<m[i][1], Received[m[i][2]]>>]
    BY <2>1, <2>2
  <2> QED
    BY <2>4, <2>5, <2>6, Zenon DEF MapWith
<1>6. CASE o[1] \in BodyTypes
  <2> DEFINE p == f.parts
  <2>1. /\ f.type = o[1] /\ Len(p) = 3 /\ DOMAIN o[2] = 1..3
        /\ \A i \in 1..3 : p[i] = PartRead(o, i)
    <3>1. f.type = o[1]
      BY <1>1, <1>6, TypeSets DEF FrameType
    <3>2. Len(RestOf(o)) = 3
      BY <1>1, <1>6, FieldsRest
    <3>3. DOMAIN o[2] = 1..3
      BY <1>1, <1>6, ObjectFacts
    <3> QED
      BY <1>1, <3>1, <3>2, <3>3
  <2>2. \A i \in 1..3 : ~(o[1] = "response" /\ i = 3) =>
          /\ p[i] = Received[o[2][i]] /\ p[i][1] = TypeRead(o[2][i][1])
          /\ o[2][i][1] \in FieldTypes[o[1]][i]
    <3> SUFFICES ASSUME NEW i \in 1..3, ~(o[1] = "response" /\ i = 3)
                 PROVE  /\ p[i] = Received[o[2][i]] /\ p[i][1] = TypeRead(o[2][i][1])
                        /\ o[2][i][1] \in FieldTypes[o[1]][i]
      OBVIOUS
    <3> HIDE DEF p
    <3> QED
      BY <1>1, <1>6, <2>1, FieldRead
  <2>3. Received[o] = <<o[1], Each(Received, o[2])>>
    <3>1. o[1] \in {"list"} \union BodyTypes
      BY <1>6
    <3> QED
      BY <1>3, <3>1, Zenon DEF ReceivedByType
  <2>4. ASSUME o[1] # "response" PROVE p = Each(Received, o[2])
    <3> HIDE DEF p
    <3>1. \A i \in DOMAIN o[2] : p[i] = Received[o[2][i]]
      BY <2>1, <2>2, <2>4
    <3>2. IsSeq(p) /\ DOMAIN o[2] = 1..Len(p)
      BY <1>2, <2>1 DEF p
    <3> QED
      BY <3>1, <3>2, PartsAre
  <2>5. ASSUME o[1] # "response" PROVE p = <<p[1], p[2], p[3]>>
    <3>1. \A S : \A q \in Seq(S) : Len(q) = 3 => q = <<q[1], q[2], q[3]>>
      OBVIOUS
    <3> QED
      BY <1>2, <2>1, <3>1 DEF IsSeq
  <2> HIDE DEF p
  <2>6. CASE o[1] \in {"deltas", "quasi"}
    <3>1. Built(f) = <<f.type, p>>
      BY <1>3, <2>1, <2>6 DEF BuiltByType, p
    <3> QED
      BY <2>1, <2>3, <2>4, <2>6, <3>1
  <2>7. CASE o[1] = "message"
    <3>1. /\ o[2][2][1] \in {"nil", "uint32"} /\ p[2] = Received[o[2][2]] /\ p[2][1] = o[2][2][1]
          /\ p[3][1] = "map"
      BY <2>2, <2>7, TypeSets DEF FieldTypes, TypeRead
    <3>2. o[2][2] \in Objects
      BY <1>1, <1>6, ObjectFacts, ElementsIn
    <3>3. o[2][2][1] = "nil" => p[2] = <<"nil">>
      <4>1. o[2][2][1] = "nil" => Received[o[2][2]] = o[2][2]
        BY <3>2, ReceivedFacts DEF ReceivedByType
      <4> QED
        BY <3>1, <3>2, <4>1, ObjectFacts
    <3>4. Built(f) = MessageOf(p)
      BY <1>3, <2>1, <2>7, Zenon DEF BuiltByType, p
    <3>5. MessageOf(p) = <<"message", <<p[1], p[2], p[3]>> >>
      BY <3>1, <3>3 DEF MessageOf
    <3> QED
      BY <2>3, <2>4, <2>5, <2>7, <3>4, <3>5
  <2>8. CASE o[1] = "response"
    <3>1. Built(f) = ResponseOf(p)
      BY <1>3, <2>1, <2>8, Zenon DEF BuiltByType, p
    <3>2. p[3] = <<"bool", TRUE>>
      <4>1. p[3] = PartRead(o, 3)
        BY <2>1
      <4> QED
        BY <2>8, <4>1, Zenon DEF PartRead
    <3>3. ResponseOf(p) = <<"response", <<p[1], p[2], <<"string", 0>> >> >>
      BY <3>2 DEF ResponseOf
    <3>4. p[1] = Received[o[2][1]] /\ p[2] = Received[o[2][2]]
      BY <2>2
    <3>5. Received[o[2][3]] = <<"string", 0>>
      <4>1. o[2][3] \in Objects /\ o[2][3][1] = "string" /\ o[2][3][2] = 0
        BY <1>1, <1>6, <2>8, ObjectFacts, ElementsIn
      <4>2. o[2][3][1] \in TextTypes
        BY <4>1, TypeSets
      <4> QED
        BY <4>1, <4>2, ReceivedFacts DEF ReceivedByType
    <3>6. Each(Received, o[2]) = <<Received[o[2][1]], Received[o[2][2]], Received[o[2][3]]>>
      <4>1. Each(Received, o[2]) = [i \in 1..3 |-> Received[o[2][i]]]
        BY <2>1 DEF Each
      <4> QED
        BY <4>1
    <3> QED
      BY <2>3, <2>8, <3>1, <3>3, <3>4, <3>5, <3>6
  <2>9. CASE o[1] = "envelope"
    <3>1. p[2][1] = "string"
      BY <2>2, <2>9, TypeSets DEF FieldTypes, TypeRead
    <3>2. Built(f) = EnvelopeOf(p)
      BY <1>3, <2>1, <2>9, Zenon DEF BuiltByType, p
    <3>3. EnvelopeOf(p) = <<"envelope", <<p[1], p[2], p[3]>> >>
      BY <3>1 DEF EnvelopeOf
    <3> QED
      BY <2>3, <2>4, <2>5, <2>9, <3>2, <3>3
  <2> QED
    BY <1>6, <2>6, <2>7, <2>8, <2>9, TypeSets
<1> QED
  BY <1>1, <1>4, <1>5, <1>6 DEF Framed

LEMMA PushedSeq ==
  ASSUME NEW x, NEW s, IsSeq(s)
  PROVE  /\ <<x>> \o s # <<>> /\ Head(<<x>> \o s) = x /\ Tail(<<x>> \o s) = s
<1>1. PICK S : s \in Seq(S)
  BY DEF IsSeq
<1> DEFINE R == S \union {x}
<1>2. s \in Seq(R) /\ x \in R
  BY <1>1
<1> HIDE DEF R
<1>3. \A q \in Seq(R) : \A y \in R : <<y>> \o q # <<>> /\ Head(<<y>> \o q) = y /\ Tail(<<y>> \o q) = q
  OBVIOUS
<1> QED
  BY <1>2, <1>3

\* The decoder is in the middle of t and has to read its i-th part next, at the head of T, and
\* then what it is made of, and U.
NextIs(st, T, base, t, U, i) ==
  /\ Fit(t) /\ U \in Seq(Todo) /\ Shows(Head(st), t[2]) /\ Awaits(Tail(st), <<t>> \o U, base)
  /\ i = Len(Head(st).parts) + 1 /\ i \in 1..Len(RestOf(t[2]))
  /\ T \in Seq(Todo) /\ T # <<>> /\ Head(T) = RestOf(t[2])[i]
  /\ Tail(T) = SubSeq(RestOf(t[2]), i + 1, Len(RestOf(t[2]))) \o U

LEMMA NextPart ==
  ASSUME NEW st, st # <<>>, IsFrame(Head(st)), ~Full(Head(st)), NEW T, NEW base, Awaits(st, T, base)
  PROVE  \E t, U, i : NextIs(st, T, base, t, U, i)
<1>1. PICK t, U : /\ Fit(t) /\ U \in Seq(Todo)
                  /\ Shows(Head(st), t[2]) /\ T = Remaining(Head(st), t[2]) \o U
                  /\ Awaits(Tail(st), <<t>> \o U, base)
  BY Inside, Zenon
<1> DEFINE f == Head(st)
           s == RestOf(t[2])
           k == Len(f.parts)
<1>2. s \in Seq(Todo) /\ f.size = Len(s)
  <2>1. t[2] \in Objects /\ f.size = Len(s)
    BY <1>1 DEF Shows
  <2> QED
    BY <2>1, RestType
<1>3. k \in Nat /\ k < Len(s)
  BY <1>2, SeqDomain DEF IsFrame, Full
<1>4. T = SubSeq(s, k + 1, Len(s)) \o U
  BY <1>1 DEF Remaining
<1> HIDE DEF f, s, k
<1>5. T \in Seq(Todo) /\ T # <<>> /\ Head(T) = s[k + 1] /\ Tail(T) = SubSeq(s, k + 2, Len(s)) \o U
  <2>1. U \in Seq(Todo) /\ s \in Seq(Todo)
    BY <1>1, <1>2
  <2>2. StartsWith(Todo, SubSeq(s, k + 1, Len(s)) \o U, s[k + 1], SubSeq(s, k + 2, Len(s)) \o U)
    BY <1>3, <2>1, NextOfRest
  <2> QED
    BY <1>4, <2>2, Zenon DEF StartsWith
<1>6. k + 1 \in 1..Len(s) /\ (k + 1) + 1 = k + 2
  BY <1>2, <1>3
<1> QED
  BY <1>1, <1>5, <1>6, Zenon DEF NextIs, f, s, k

LEMMA ContextOfPart ==
  ASSUME NEW f, IsFrame(f), ~Full(f), NEW o, Shows(f, o), NEW i, i = Len(f.parts) + 1
  PROVE  PartContext(f) = IF o[1] = "response" /\ i = 3 THEN "global" ELSE RestOf(o)[i][1]
<1>1. o \in Objects /\ Framed(o) /\ f.type = FrameType(o) /\ f.size = Len(RestOf(o))
  BY DEF Shows
<1>2. Len(f.parts) \in Nat /\ i \in 1..f.size
  BY SeqDomain DEF IsFrame, Full
<1>3. CASE o[1] \in {"list", "slice"}
  <2>1. RestOf(o)[i][1] = "global" /\ o[1] # "response"
    BY <1>1, <1>2, <1>3, ListRest
  <2>2. f.type = "list"
    BY <1>1, <1>3 DEF FrameType
  <2>3. PartContext(f) = "global"
    BY <2>2, TypeSets DEF PartContext
  <2> QED
    BY <2>1, <2>3
<1>4. CASE o[1] = "map"
  <2>1. f.type = "map" /\ o[1] # "response"
    BY <1>1, <1>4 DEF FrameType
  <2>2. PartContext(f) = IF Len(f.parts) % 2 = 0 THEN "uis" ELSE "global"
    BY <2>1, TypeSets DEF PartContext
  <2>3. /\ Len(o[2]) \in Nat /\ i \in 1..(2 * Len(o[2]))
        /\ \A k \in 1..Len(o[2]) : RestOf(o)[2 * k - 1] = <<"uis", o[2][k][1]>> /\ RestOf(o)[2 * k] = <<"global", o[2][k][2]>>
    BY <1>1, <1>2, <1>4, MapRest
  <2>4. \A n \in Nat : \A j \in 1..(2 * n) : \/ \E k \in 1..n : j = 2 * k - 1 /\ (j - 1) % 2 = 0
                                             \/ \E k \in 1..n : j = 2 * k /\ (j - 1) % 2 # 0
    <3> SUFFICES ASSUME NEW n \in Nat, NEW j \in 1..(2 * n)
                 PROVE  \/ \E k \in 1..n : j = 2 * k - 1 /\ (j - 1) % 2 = 0
                        \/ \E k \in 1..n : j = 2 * k /\ (j - 1) % 2 # 0
      OBVIOUS
    <3>1. /\ (j + 1) \div 2 \in 1..n
          /\ \/ j = 2 * ((j + 1) \div 2) - 1 /\ (j - 1) % 2 = 0
             \/ j = 2 * ((j + 1) \div 2) /\ (j - 1) % 2 # 0
      OBVIOUS
    <3> QED
      BY <3>1
  <2>5. i - 1 = Len(f.parts)
    BY <1>2
  <2>6. \/ \E k \in 1..Len(o[2]) : i = 2 * k - 1 /\ Len(f.parts) % 2 = 0
        \/ \E k \in 1..Len(o[2]) : i = 2 * k /\ Len(f.parts) % 2 # 0
    BY <2>3, <2>4, <2>5
  <2>7. RestOf(o)[i][1] = IF Len(f.parts) % 2 = 0 THEN "uis" ELSE "global"
    <3>1. CASE \E k \in 1..Len(o[2]) : i = 2 * k - 1 /\ Len(f.parts) % 2 = 0
      <4>1. PICK k \in 1..Len(o[2]) : i = 2 * k - 1 /\ Len(f.parts) % 2 = 0
        BY <3>1
      <4>2. RestOf(o)[i] = <<"uis", o[2][k][1]>>
        BY <2>3, <4>1
      <4> QED
        BY <4>1, <4>2
    <3>2. CASE \E k \in 1..Len(o[2]) : i = 2 * k /\ Len(f.parts) % 2 # 0
      <4>1. PICK k \in 1..Len(o[2]) : i = 2 * k /\ Len(f.parts) % 2 # 0
        BY <3>2
      <4>2. RestOf(o)[i] = <<"global", o[2][k][2]>>
        BY <2>3, <4>1
      <4> QED
        BY <4>1, <4>2
    <3> QED
      BY <2>6, <3>1, <3>2
  <2> QED
    BY <2>1, <2>2, <2>7
<1>5. CASE o[1] \in BodyTypes
  <2>1. f.type = o[1] /\ i \in 1..3
    BY <1>1, <1>2, <1>5, FieldsRest, TypeSets DEF FrameType
  <2>2. RestOf(o)[i][1] = EncodeTo[o[1]].fields[i]
    <3>1. RestOf(o)[i] = <<EncodeTo[o[1]].fields[i], o[2][i]>>
      BY <1>1, <1>5, <2>1, FieldsRest
    <3> QED
      BY <3>1
  <2>3. PartContext(f) = DecodeFrom[o[1]][i]
    BY <1>5, <2>1, TypeSets DEF PartContext
  <2>4. DecodeFrom[o[1]][i] = IF o[1] = "response" /\ i = 3 THEN "global" ELSE EncodeTo[o[1]].fields[i]
    <3> HIDE <1>5
    <3> USE DEF DecodeFrom, EncodeTo, EncodesAs
    <3>1. CASE o[1] = "envelope"
      BY <2>1, <3>1 DEF EnvelopeEncodeTo, decodeEnvelope
    <3>2. CASE o[1] = "message"
      BY <2>1, <3>2 DEF MessageEncodeTo, decodeMessage
    <3>3. CASE o[1] = "response"
      BY <2>1, <3>3 DEF ResponseEncodeTo, decodeResponse
    <3>4. CASE o[1] = "deltas"
      BY <2>1, <3>4 DEF DeltasEncodeTo, decodeDeltasVector
    <3>5. CASE o[1] = "quasi"
      BY <2>1, <3>5 DEF QuasiEncodeTo, decodeQuasiPeriodicVector
    <3> QED
      BY <1>5, <3>1, <3>2, <3>3, <3>4, <3>5, TypeSets
  <2> QED
    BY <2>2, <2>3, <2>4
<1> QED
  BY <1>1, <1>3, <1>4, <1>5 DEF Framed

\* What is made of an object that the decoder reads for the innermost frame of st.
ValueRead(st, o) ==
  IF st # <<>> /\ Head(st).type = "response" /\ Len(Head(st).parts) = 2 THEN <<"bool", TRUE>>
                                                                       ELSE Received[o]

\* A frame that is given the next part awaits the one after it.
LEMMA Advances ==
  ASSUME NEW st, st # <<>>, IsStack(st), ~Full(Head(st)), NEW T, NEW base, Awaits(st, T, base)
  PROVE  LET v == ValueRead(st, Head(T)[2])
         IN  /\ PartOk(Head(st), v)
             /\ Awaits(<<WithPart(Head(st), v)>> \o Tail(st), Tail(T), base)
<1> DEFINE f == Head(st)
           v == ValueRead(st, Head(T)[2])
           g == WithPart(f, v)
<1>1. IsFrame(f) /\ IsSeq(Tail(st))
  BY Popped DEF IsStack
<1>02. PICK t, U, i : NextIs(st, T, base, t, U, i)
  BY <1>1, NextPart, Zenon
<1>2. /\ Fit(t) /\ U \in Seq(Todo) /\ Shows(f, t[2]) /\ Awaits(Tail(st), <<t>> \o U, base)
      /\ i = Len(f.parts) + 1 /\ i \in 1..Len(RestOf(t[2]))
      /\ T \in Seq(Todo) /\ T # <<>> /\ Head(T) = RestOf(t[2])[i]
      /\ Tail(T) = SubSeq(RestOf(t[2]), i + 1, Len(RestOf(t[2]))) \o U
  BY <1>02, Zenon DEF NextIs
<1> DEFINE o == t[2]
<1>3. /\ o \in Objects /\ Framed(o) /\ f.type = FrameType(o) /\ f.size = Len(RestOf(o))
      /\ \A k \in 1..Len(f.parts) : f.parts[k] = PartRead(o, k)
  BY <1>2 DEF Shows
<1>4. IsSeq(f.parts) /\ Len(f.parts) \in Nat
  BY <1>1, SeqDomain DEF IsFrame
<1>5. v = PartRead(o, i)
  <2>1. f.type = "response" <=> o[1] = "response"
    BY <1>3 DEF FrameType
  <2>2. Len(f.parts) = 2 <=> i = 3
    <3>1. i = Len(f.parts) + 1
      BY <1>2
    <3>2. \A n \in Nat : n = 2 <=> n + 1 = 3
      OBVIOUS
    <3> HIDE DEF f
    <3> QED
      BY <1>4, <3>1, <3>2, Zenon
  <2>3. st # <<>> /\ Head(T)[2] = RestOf(o)[i][2]
    BY <1>2
  <2> HIDE DEF o
  <2> QED
    BY <2>1, <2>2, <2>3, Zenon DEF ValueRead, PartRead
<1>6. PartOk(f, v)
  <2>1. i = Len(f.parts) + 1 /\ Shows(f, o) /\ ~Full(f)
    BY <1>2
  <2> HIDE DEF v, f, o
  <2>2. PartOk(f, PartRead(o, Len(f.parts) + 1))
    BY <1>1, <2>1, PartsOk
  <2> QED
    BY <1>5, <2>1, <2>2
<1>7. g.type = f.type /\ g.size = f.size /\ g.parts = Append(f.parts, v)
  BY DEF WithPart
<1> HIDE DEF v, f, g, o
<1>8. /\ Len(g.parts) = i
      /\ \A k \in 1..i : g.parts[k] = PartRead(o, k)
  <2>1. /\ Len(g.parts) = Len(f.parts) + 1
        /\ \A k \in 1..Len(g.parts) : IF k = Len(f.parts) + 1 THEN g.parts[k] = v
                                     ELSE k \in DOMAIN f.parts /\ g.parts[k] = f.parts[k]
    BY <1>4, <1>7, SeqAppended
  <2>2. DOMAIN f.parts = 1..Len(f.parts)
    BY <1>4, SeqDomain
  <2> QED
    BY <1>2, <1>3, <1>5, <2>1, <2>2
<1>9. Shows(g, o)
  BY <1>3, <1>7, <1>8 DEF Shows
<1>10. <<g>> \o Tail(st) # <<>> /\ Head(<<g>> \o Tail(st)) = g /\ Tail(<<g>> \o Tail(st)) = Tail(st)
  BY <1>1, PushedSeq
<1>11. Awaits(<<g>> \o Tail(st), Remaining(g, o) \o U, base)
  <2> DEFINE q == <<g>> \o Tail(st)
  <2>1. q # <<>> /\ Head(q) = g /\ Tail(q) = Tail(st)
    BY <1>10
  <2> HIDE DEF q
  <2>2. Awaits(q, Remaining(Head(q), t[2]) \o U, base)
    BY <1>2, <1>9, <2>1, Resumed DEF o
  <2> QED
    BY <2>1, <2>2 DEF q, o
<1>12. Remaining(g, o) \o U = Tail(T)
  BY <1>2, <1>8 DEF Remaining, o
<1> QED
  BY <1>6, <1>11, <1>12 DEF v, f, g

-----------------------------------------------------------------------------
(* An object has been read.                                                *)

\* All that is to be written for the messages; what is, for those not yet decoded; those
\* that are decoded are the first ones.
Sent == [i \in DOMAIN sent |-> <<"global", sent[i]>>]
Left == SubSeq(Sent, Len(got) + 1, Len(Sent))
GotFirst ==
  /\ IsSeq(got) /\ Len(got) <= Len(sent)
  /\ \A i \in 1..Len(got) : got[i] = Received[sent[i]]

\* The decoder has still to read what was written for T; it has all that the reading method
\* returns; it has ended as it should.
Midway(T) ==
  /\ phase = "decode" /\ status = "running"
  /\ Awaits(stack, T, Left) /\ GotFirst
  /\ entry = "decodeMessage" => got = <<>>
Complete == phase = "done" /\ status = "ok" /\ got = Expected /\ sent # <<>>
Ended == phase = "done" /\ RoundTrip

LEMMA SentIs ==
  ASSUME sent \in Inputs
  PROVE  /\ sent \in Seq(Objects) /\ Len(sent) \in Nat /\ Sent \in Seq(Todo) /\ Len(Sent) = Len(sent)
         /\ \A i \in 1..Len(sent) : /\ sent[i] \in Objects /\ sent[i][1] \in BodyTypes
                                    /\ Sent[i] = <<"global", sent[i]>>
         /\ DOMAIN sent = 1..Len(sent)
<1>1. sent \in Seq(Objects) /\ \A i \in DOMAIN sent : sent[i][1] \in DOMAIN EncodeTo
  BY InputsAssumption, MessagesAssumption
<1>2. DOMAIN sent = 1..Len(sent) /\ Len(sent) \in Nat /\ \A i \in 1..Len(sent) : sent[i] \in Objects
  BY <1>1
<1>3. \A o \in Objects : <<"global", o>> \in Todo
  BY DEF Todo, Contexts
<1>4. Sent \in Seq(Todo) /\ Len(Sent) = Len(sent) /\ \A i \in 1..Len(sent) : Sent[i] = <<"global", sent[i]>>
  BY <1>2, <1>3 DEF Sent
<1> QED
  BY <1>1, <1>2, <1>4, BodyNames, Zenon

LEMMA SameElements ==
  \A S : \A a, b \in Seq(S) : Len(a) = Len(b) /\ (\A i \in 1..Len(a) : a[i] = b[i]) => a = b
OBVIOUS

StartsRest(s, k, x, T) == k + 1 \in 1..Len(s) /\ x = s[k + 1] /\ T = SubSeq(s, (k + 1) + 1, Len(s))

LEMMA FirstOfRest ==
  ASSUME NEW S, NEW s \in Seq(S), NEW k \in Nat, NEW x \in S, NEW T \in Seq(S),
         SubSeq(s, k + 1, Len(s)) = <<x>> \o T
  PROVE  StartsRest(s, k, x, T)
<1> DEFINE r == SubSeq(s, k + 1, Len(s))
           q == SubSeq(s, (k + 1) + 1, Len(s))
<1>1. Len(r) = 1 + Len(T) /\ r[1] = x /\ \A i \in 1..Len(T) : r[1 + i] = T[i]
  BY ConsElems
<1>2. Len(T) \in Nat /\ Len(s) \in Nat
  OBVIOUS
<1>3. /\ Len(r) = IF k + 1 <= Len(s) THEN Len(s) - k ELSE 0
      /\ \A i \in 1..(Len(s) - k) : r[i] = s[k + i]
  OBVIOUS
<1>4. /\ q \in Seq(S) /\ k + 1 <= Len(s) => Len(q) = Len(s) - k - 1
      /\ \A i \in 1..(Len(s) - k - 1) : q[i] = s[k + 1 + i]
  OBVIOUS
<1> HIDE DEF r, q
<1>5. k + 1 <= Len(s) /\ Len(T) = Len(s) - k - 1 /\ 1 \in 1..(Len(s) - k)
  BY <1>1, <1>2, <1>3
<1>6. x = s[k + 1]
  BY <1>1, <1>3, <1>5
<1>7. \A i \in 1..Len(T) : T[i] = q[i]
  <2> SUFFICES ASSUME NEW i \in 1..Len(T) PROVE T[i] = q[i]
    OBVIOUS
  <2>1. 1 + i \in 1..(Len(s) - k) /\ i \in 1..(Len(s) - k - 1) /\ k + (1 + i) = k + 1 + i
    BY <1>2, <1>5
  <2>2. T[i] = r[1 + i] /\ r[1 + i] = s[k + (1 + i)] /\ q[i] = s[k + 1 + i]
    BY <1>1, <1>3, <1>4, <2>1, Zenon
  <2> QED
    BY <2>1, <2>2, Zenon
<1>9. T \in Seq(S) /\ q \in Seq(S) /\ Len(T) = Len(q)
  <2>1. q \in Seq(S)
    BY DEF q
  <2> QED
    BY <1>4, <1>5, <2>1
<1>10. T = q
  BY <1>7, <1>9, SameElements, Zenon
<1> QED
  BY <1>2, <1>5, <1>6, <1>10 DEF q, StartsRest

\* A message that has been read is the next one that was sent.
LEMMA NextMessage ==
  ASSUME sent \in Inputs, entry \in Entries, UNCHANGED <<sent, entry, cut>>, NEW t \in Todo, NEW T \in Seq(Todo),
         phase = "decode", status = "running", Awaits(<<>>, <<t>> \o T, Left), GotFirst,
         entry = "decodeMessage" => got = <<>>,
         Deliver(Received[t[2]], <<>>)
  PROVE  Midway(T)' \/ Complete'
<1> DEFINE n == Len(got)
           v == Received[t[2]]
<1>1. IsSeq(got) /\ n \in Nat
  BY SeqDomain DEF GotFirst
<1>2. Left = <<t>> \o T
  BY Outside
<1>3. n + 1 \in 1..Len(sent) /\ t = Sent[n + 1] /\ T = SubSeq(Sent, (n + 1) + 1, Len(Sent))
  <2> HIDE DEF n
  <2>1. SubSeq(Sent, n + 1, Len(Sent)) = <<t>> \o T
    BY <1>2 DEF Left, n
  <2>2. Sent \in Seq(Todo) /\ Len(Sent) = Len(sent)
    BY SentIs
  <2>3. n + 1 \in 1..Len(Sent) /\ t = Sent[n + 1] /\ T = SubSeq(Sent, (n + 1) + 1, Len(Sent))
    <3>1. StartsRest(Sent, n, t, T)
      BY <1>1, <2>1, <2>2, FirstOfRest, Zenon
    <3> QED
      BY <3>1, Zenon DEF StartsRest
  <2> QED
    BY <2>2, <2>3
<1>4. t[2] = sent[n + 1] /\ t[2] \in Objects /\ t[2][1] \in BodyTypes
  BY <1>3, SentIs
<1>5. v[1] \in BodyTypes
  <2>1. v[1] = TypeRead(t[2][1])
    BY <1>4, ReceivedFacts
  <2>2. \A type \in BodyTypes : TypeRead(type) = type
    BY TypeSets DEF TypeRead
  <2> QED
    BY <1>4, <2>1, <2>2
<1>6. /\ stack' = <<>> /\ got' = Append(got, v)
      /\ IF entry = "decodeMessage" THEN Finish("ok") ELSE UNCHANGED <<phase, status>>
  BY <1>5, Zenon DEF Deliver
<1>7. /\ IsSeq(got') /\ Len(got') = n + 1
      /\ \A i \in 1..(n + 1) : got'[i] = Received[sent[i]]
  <2>1. /\ IsSeq(got') /\ Len(got') = n + 1
        /\ \A i \in 1..Len(got') : IF i = n + 1 THEN got'[i] = v ELSE i \in DOMAIN got /\ got'[i] = got[i]
    BY <1>1, <1>6, SeqAppended
  <2>2. DOMAIN got = 1..n
    BY <1>1, SeqDomain
  <2>3. \A i \in 1..n : got[i] = Received[sent[i]]
    BY DEF GotFirst
  <2>4. v = Received[sent[n + 1]]
    BY <1>4
  <2> HIDE DEF v, n
  <2> QED
    BY <2>1, <2>2, <2>3, <2>4, Zenon
<1> HIDE DEF v, n
<1>8. GotFirst'
  <2>1. sent' = sent /\ Len(got') <= Len(sent)
    BY <1>3, <1>7
  <2> QED
    BY <1>7, <2>1 DEF GotFirst
<1>9. CASE entry = "Decode"
  <2>1. phase' = "decode" /\ status' = "running" /\ entry' # "decodeMessage"
    BY <1>6, <1>9
  <2>2. Left' = T
    <3>1. Sent' = Sent
      BY DEF Sent
    <3> QED
      BY <1>3, <1>7, <3>1 DEF Left
  <2>3. Awaits(stack', T, Left')
    BY <1>6, <2>2, Outside
  <2> QED
    BY <1>8, <2>1, <2>3 DEF Midway
<1>10. CASE entry = "decodeMessage"
  <2>1. got = <<>> /\ n = 0
    BY <1>10, EmptyLen DEF n
  <2>2. phase' = "done" /\ status' = "ok"
    BY <1>6, <1>10 DEF Finish
  <2>3. got' = <<v>>
    BY <1>6, <2>1
  <2>4. v = Received[sent[1]] /\ 1 \in DOMAIN sent /\ sent # <<>>
    <3>1. 1 \in 1..Len(sent)
      BY <1>3, <2>1
    <3>2. sent # <<>>
      BY <3>1, EmptyLen
    <3> QED
      BY <1>4, <2>1, <3>1, <3>2, SentIs DEF v
  <2>5. Expected = <<v>>
    BY <1>10, <2>4 DEF Expected
  <2>6. Expected' = Expected
    BY DEF Expected
  <2>7. sent' # <<>> /\ status' = "ok" /\ got' = Expected'
    BY <2>2, <2>3, <2>4, <2>5, <2>6
  <2> QED
    BY <2>2, <2>7 DEF Complete
<1> QED
  BY <1>9, <1>10, EntriesAssumption

LEMMA Arrives ==
  ASSUME sent \in Inputs, entry \in Entries, UNCHANGED <<sent, entry, cut>>, NEW t \in Todo, NEW T \in Seq(Todo),
         NEW outer, IsStack(outer), outer # <<>> => ~Full(Head(outer)),
         phase = "decode", status = "running", Awaits(outer, <<t>> \o T, Left), GotFirst,
         entry = "decodeMessage" => got = <<>>,
         Deliver(ValueRead(outer, t[2]), outer)
  PROVE  Midway(T)' \/ Complete'
<1>1. CASE outer = <<>>
  <2>1. ValueRead(outer, t[2]) = Received[t[2]]
    BY <1>1, Zenon DEF ValueRead
  <2> QED
    BY <1>1, <2>1, NextMessage
<1>2. CASE outer # <<>>
  <2> DEFINE v == ValueRead(outer, t[2])
             U == <<t>> \o T
  <2>1. Head(U) = t /\ Tail(U) = T
    OBVIOUS
  <2>2. Awaits(outer, U, Left)
    OBVIOUS
  <2> HIDE DEF U
  <2>3. /\ PartOk(Head(outer), v)
        /\ Awaits(<<WithPart(Head(outer), v)>> \o Tail(outer), T, Left)
    BY <1>2, <2>1, <2>2, Advances
  <2> HIDE DEF v
  <2>4. Deliver(v, outer)
    BY DEF v
  <2>5. stack' = <<WithPart(Head(outer), v)>> \o Tail(outer) /\ UNCHANGED <<phase, got, status>>
    BY <1>2, <2>3, <2>4, Zenon DEF Deliver
  <2>6. Left' = Left /\ GotFirst'
    BY <2>5 DEF Left, Sent, GotFirst
  <2> QED
    BY <2>3, <2>5, <2>6 DEF Midway
<1> QED
  BY <1>1, <1>2

-----------------------------------------------------------------------------
(* What is written for what is to be written.                              *)

LEMMA ConcatAssoc ==
  ASSUME NEW S, NEW a \in Seq(S), NEW b \in Seq(S), NEW c \in Seq(S)
  PROVE  (a \o b) \o c = a \o (b \o c)
<1> DEFINE ab == a \o b
           bc == b \o c
           l == ab \o c
           r == a \o bc
<1>0. \A x, y \in Seq(S) :
        /\ x \o y \in Seq(S) /\ Len(x) \in Nat /\ Len(x \o y) = Len(x) + Len(y)
        /\ \A i \in 1..Len(x) : (x \o y)[i] = x[i]
        /\ \A i \in 1..Len(y) : (x \o y)[Len(x) + i] = y[i]
  <2> SUFFICES ASSUME NEW x \in Seq(S), NEW y \in Seq(S)
               PROVE  /\ x \o y \in Seq(S) /\ Len(x) \in Nat /\ Len(x \o y) = Len(x) + Len(y)
                      /\ \A i \in 1..Len(x) : (x \o y)[i] = x[i]
                      /\ \A i \in 1..Len(y) : (x \o y)[Len(x) + i] = y[i]
    OBVIOUS
  <2> QED
    BY ConcatElems
<1>1. /\ ab \in Seq(S) /\ Len(ab) = Len(a) + Len(b)
      /\ \A i \in 1..Len(a) : ab[i] = a[i]
      /\ \A i \in 1..Len(b) : ab[Len(a) + i] = b[i]
  BY <1>0, Zenon
<1>2. /\ bc \in Seq(S) /\ Len(bc) = Len(b) + Len(c)
      /\ \A i \in 1..Len(b) : bc[i] = b[i]
      /\ \A i \in 1..Len(c) : bc[Len(b) + i] = c[i]
  BY <1>0, Zenon
<1> HIDE DEF ab, bc
<1>3. /\ l \in Seq(S) /\ Len(l) = Len(ab) + Len(c)
      /\ \A i \in 1..Len(ab) : l[i] = ab[i]
      /\ \A i \in 1..Len(c) : l[Len(ab) + i] = c[i]
  BY <1>0, <1>1, Zenon
<1>4. /\ r \in Seq(S) /\ Len(r) = Len(a) + Len(bc)
      /\ \A i \in 1..Len(a) : r[i] = a[i]
      /\ \A i \in 1..Len(bc) : r[Len(a) + i] = bc[i]
  BY <1>0, <1>2, Zenon
<1>5. Len(a) \in Nat /\ Len(b) \in Nat /\ Len(c) \in Nat
  OBVIOUS
<1> HIDE DEF l, r
<1>6. Len(l) = Len(r) /\ Len(l) = Len(a) + Len(b) + Len(c)
  BY <1>1, <1>2, <1>3, <1>4, <1>5
<1>7. ASSUME NEW i \in 1..Len(l) PROVE l[i] = r[i]
  <2>1. CASE i \in 1..Len(a)
    <3>1. i \in 1..Len(ab)
      BY <1>1, <1>5, <2>1
    <3> QED
      BY <1>1, <1>3, <1>4, <2>1, <3>1, Zenon
  <2>2. CASE i \in (Len(a) + 1)..(Len(a) + Len(b))
    <3> DEFINE j == i - Len(a)
    <3>1. j \in 1..Len(b) /\ j \in 1..Len(bc) /\ i = Len(a) + j /\ i \in 1..Len(ab)
      BY <1>1, <1>2, <1>5, <2>2
    <3> HIDE DEF j
    <3>2. l[i] = ab[Len(a) + j] /\ r[i] = bc[j]
      BY <1>3, <1>4, <3>1, Zenon
    <3> QED
      BY <1>1, <1>2, <3>1, <3>2, Zenon
  <2>3. CASE i \in (Len(a) + Len(b) + 1)..(Len(a) + Len(b) + Len(c))
    <3> DEFINE j == i - (Len(a) + Len(b))
    <3>1. /\ j \in 1..Len(c) /\ Len(b) + j \in 1..Len(bc) /\ i = Len(ab) + j
          /\ i = Len(a) + (Len(b) + j)
      BY <1>1, <1>2, <1>5, <2>3
    <3> HIDE DEF j
    <3>2. l[i] = c[j] /\ r[i] = bc[Len(b) + j]
      BY <1>3, <1>4, <3>1, Zenon
    <3> QED
      BY <1>2, <3>1, <3>2, Zenon
  <2> QED
    BY <1>5, <1>6, <2>1, <2>2, <2>3
<1>8. l = r
  BY <1>3, <1>4, <1>6, <1>7, SameElements, Zenon
<1> QED
  BY <1>8 DEF l, r, ab, bc

LEMMA ChunksAssoc == \A a, b, c \in Seq(Chunks) : (a \o b) \o c = a \o (b \o c)
BY ConcatAssoc

LEMMA ConcatEmpty == \A S : \A s \in Seq(S) : s \o <<>> = s /\ <<>> \o s = s
OBVIOUS

\* The chunks s are what the encoder writes for T: a set W has the pair of both, and with each
\* pair that of what is left after the first object of T and its chunks.
Follows(p, W) ==
  IF p[1] = <<>> THEN p[2] = <<>>
  ELSE LET e == Encoding(Head(p[1])[1], Head(p[1])[2]) IN
       /\ e.ok
       /\ \E s \in Seq(Chunks) : p[2] = e.chunks \o s /\ <<e.rest \o Tail(p[1]), s>> \in W
Writes(T, s) == \E W : <<T, s>> \in W /\ \A p \in W : Follows(p, W)

LEMMA WritesNext ==
  ASSUME NEW T, T # <<>>, NEW s, Writes(T, s)
  PROVE  LET e == Encoding(Head(T)[1], Head(T)[2]) IN
         e.ok /\ \E r \in Seq(Chunks) : s = e.chunks \o r /\ Writes(e.rest \o Tail(T), r)
<1> DEFINE e == Encoding(Head(T)[1], Head(T)[2])
<1>1. PICK W : <<T, s>> \in W /\ \A p \in W : Follows(p, W)
  BY Zenon DEF Writes
<1>2. Follows(<<T, s>>, W)
  BY <1>1
<1>3. <<T, s>>[1] = T /\ <<T, s>>[2] = s
  OBVIOUS
<1>4. e.ok /\ \E r \in Seq(Chunks) : s = e.chunks \o r /\ <<e.rest \o Tail(T), r>> \in W
  BY <1>2, <1>3, Zenon DEF Follows
<1> HIDE DEF e
<1>5. PICK r \in Seq(Chunks) : s = e.chunks \o r /\ <<e.rest \o Tail(T), r>> \in W
  BY <1>4
<1>6. Writes(e.rest \o Tail(T), r)
  BY <1>1, <1>5, Zenon DEF Writes
<1>7. e.ok /\ \E q \in Seq(Chunks) : s = e.chunks \o q /\ Writes(e.rest \o Tail(T), q)
  BY <1>4, <1>5, <1>6, Zenon
<1> QED
  BY <1>7 DEF e

LEMMA WritesNothing == \A s : Writes(<<>>, s) <=> s = <<>>
<1> SUFFICES ASSUME NEW s PROVE Writes(<<>>, s) <=> s = <<>>
  OBVIOUS
<1>1. << <<>>, s>>[1] = <<>> /\ << <<>>, s>>[2] = s
  OBVIOUS
<1>2. ASSUME Writes(<<>>, s) PROVE s = <<>>
  <2>1. PICK W : << <<>>, s>> \in W /\ \A p \in W : Follows(p, W)
    BY <1>2, Zenon DEF Writes
  <2>2. Follows(<< <<>>, s>>, W)
    BY <2>1
  <2> QED
    BY <1>1, <2>2, Zenon DEF Follows
<1>3. ASSUME s = <<>> PROVE Writes(<<>>, s)
  <2> DEFINE W == {<< <<>>, s>>}
  <2>1. Follows(<< <<>>, s>>, W)
    BY <1>1, <1>3, Zenon DEF Follows
  <2>2. << <<>>, s>> \in W /\ \A p \in W : p = << <<>>, s>>
    OBVIOUS
  <2> HIDE DEF W
  <2> QED
    BY <2>1, <2>2, Zenon DEF Writes
<1> QED
  BY <1>2, <1>3

LEMMA WritesFirst ==
  ASSUME NEW T, T # <<>>, Encoding(Head(T)[1], Head(T)[2]).ok, NEW s \in Seq(Chunks),
         Writes(Encoding(Head(T)[1], Head(T)[2]).rest \o Tail(T), s)
  PROVE  Writes(T, Encoding(Head(T)[1], Head(T)[2]).chunks \o s)
<1> DEFINE e == Encoding(Head(T)[1], Head(T)[2])
           q == e.chunks \o s
<1>1. PICK W : <<e.rest \o Tail(T), s>> \in W /\ \A p \in W : Follows(p, W)
  BY Zenon DEF Writes
<1> DEFINE V == W \union {<<T, q>>}
<1>2. \A p \in W : p \in V
  OBVIOUS
<1>3. <<T, q>> \in V /\ \A p \in V : p \in W \/ p = <<T, q>>
  OBVIOUS
<1>4. <<T, q>>[1] = T /\ <<T, q>>[2] = q
  OBVIOUS
<1> HIDE DEF V
<1>5. \A p \in W : Follows(p, V)
  BY <1>1, <1>2, Zenon DEF Follows
<1>6. Follows(<<T, q>>, V)
  BY <1>1, <1>2, <1>4, Zenon DEF Follows
<1>7. Writes(T, q)
  BY <1>3, <1>5, <1>6, Zenon DEF Writes
<1> QED
  BY <1>7

-----------------------------------------------------------------------------
(* How the chunks of an object are read.                                   *)

\* In the context the bytes are the header of an opcode, and of nothing more.
Heads(ctx, bytes) ==
  bytes \in Seq(0..255) /\ Known(ctx, bytes[1]) /\ Len(bytes) = 1 + RuleOf(ctx, bytes[1]).width
HeaderOf(ctx, bytes) == RuleOf(ctx, bytes[1])
NumberOf(ctx, bytes) == Value(RuleOf(ctx, bytes[1]), bytes)

\* They are read as the value v that the header holds; as v, from the content that follows
\* the header; as the beginning of the object o.
ScalarOf(type, n) ==
  IF type = "nil" THEN <<"nil">> ELSE IF type \in {"true", "false"} THEN <<"bool", type = "true">> ELSE <<type, n>>
Scalars == {"nil", "true", "false", "int64", "uint32", "string"}
IsScalar(ctx, bytes, v) ==
  /\ HeaderOf(ctx, bytes).content = "none" \/ (HeaderOf(ctx, bytes).content = "text" /\ NumberOf(ctx, bytes) = 0)
  /\ HeaderOf(ctx, bytes).type \in Scalars
  /\ v = ScalarOf(HeaderOf(ctx, bytes).type, NumberOf(ctx, bytes))
HasValue(ctx, bytes, c, v) ==
  \/ /\ HeaderOf(ctx, bytes).content = "text" /\ NumberOf(ctx, bytes) > 0 /\ HeaderOf(ctx, bytes).type = "string"
     /\ c = <<"text", NumberOf(ctx, bytes)>> /\ v = <<"string", NumberOf(ctx, bytes)>>
  \/ /\ HeaderOf(ctx, bytes).content \notin {"none", "text"}
     /\ HeaderOf(ctx, bytes).type = HeaderOf(ctx, bytes).content
     /\ c[1] = HeaderOf(ctx, bytes).content /\ c # Torn /\ v = c
BeginsObject(ctx, bytes, o) ==
  /\ HeaderOf(ctx, bytes).type = FrameType(o) /\ HeaderOf(ctx, bytes).content = "none" /\ Framed(o)
  /\ OpenFrame(FrameType(o), NumberOf(ctx, bytes), HeaderOf(ctx, bytes).base).size = Len(RestOf(o))

ReadScalarly(ctx, chunks, v) == \E bytes : Heads(ctx, bytes) /\ chunks = Bytes(bytes) /\ IsScalar(ctx, bytes, v)
ReadWithContent(ctx, chunks, v) ==
  \E bytes, c : Heads(ctx, bytes) /\ c \in Chunks /\ chunks = Bytes(bytes) \o <<c>> /\ HasValue(ctx, bytes, c, v)
ReadAsObject(ctx, chunks, o) ==
  \E bytes : Heads(ctx, bytes) /\ chunks = Bytes(bytes) /\ BeginsObject(ctx, bytes, o)
ReadsAs(ctx, chunks, o) ==
  ReadScalarly(ctx, chunks, Received[o]) \/ ReadWithContent(ctx, chunks, Received[o]) \/ ReadAsObject(ctx, chunks, o)

LEMMA OneByte ==
  ASSUME NEW ctx \in Contexts, NEW b \in 0..255, NEW r \in OpcodeTable[ctx], Reads(r, b), r.width = 0
  PROVE  /\ Heads(ctx, <<b>>) /\ Bytes(<<b>>) = <<Byte(b)>>
         /\ HeaderOf(ctx, <<b>>) = r
<1>1. Known(ctx, b) /\ RuleOf(ctx, b) = r
  BY FoundRule
<1>2. <<b>> \in Seq(0..255) /\ <<b>>[1] = b /\ Len(<<b>>) = 1 + 0
  OBVIOUS
<1>3. Bytes(<<b>>) = <<Byte(b)>>
  BY DEF Bytes
<1>4. Heads(ctx, <<b>>)
  BY <1>1, <1>2, Zenon DEF Heads
<1>5. HeaderOf(ctx, <<b>>) = r
  BY <1>1, <1>2, Zenon DEF HeaderOf
<1> QED
  BY <1>3, <1>4, <1>5

\* An opcode that holds a value, or the beginning of an object, by itself; one that a number
\* follows.
LEMMA ScalarOpcode ==
  ASSUME NEW ctx \in Contexts, NEW b \in 0..255, NEW r \in OpcodeTable[ctx], Reads(r, b), r.width = 0,
         r.content = "none", r.type \in {"nil", "true", "false"}, NEW v,
         v = IF r.type = "nil" THEN <<"nil">> ELSE <<"bool", r.type = "true">>
  PROVE  ReadScalarly(ctx, <<Byte(b)>>, v)
<1> DEFINE bytes == <<b>>
<1>1. Heads(ctx, bytes) /\ Bytes(bytes) = <<Byte(b)>> /\ HeaderOf(ctx, bytes) = r
  BY OneByte, Zenon
<1> HIDE DEF bytes
<1>2. r.type \in Scalars /\ (r.type # "nil" => r.type \in {"true", "false"})
  BY DEF Scalars
<1>3. IsScalar(ctx, bytes, v)
  BY <1>1, <1>2, Zenon DEF IsScalar, ScalarOf
<1> QED
  BY <1>1, <1>3, Zenon DEF ReadScalarly

ContentRow(ctx, b, r, v) ==
  /\ ctx \in Contexts /\ b \in 0..255 /\ r \in OpcodeTable[ctx] /\ Reads(r, b) /\ r.width = 0
  /\ r.content \notin {"none", "text"} /\ r.type = r.content
  /\ v \in Chunks /\ v[1] = r.content /\ v # Torn

LEMMA ContentOpcode ==
  ASSUME NEW ctx, NEW b, NEW r, NEW v, ContentRow(ctx, b, r, v)
  PROVE  ReadWithContent(ctx, <<Byte(b), v>>, v)
<1> DEFINE bytes == <<b>>
<1>1. Heads(ctx, bytes) /\ Bytes(bytes) = <<Byte(b)>> /\ HeaderOf(ctx, bytes) = r
  <2>1. ctx \in Contexts /\ b \in 0..255 /\ r \in OpcodeTable[ctx] /\ Reads(r, b) /\ r.width = 0
    BY Zenon DEF ContentRow
  <2> QED
    BY <2>1, OneByte, Zenon
<1>2. <<Byte(b), v>> = <<Byte(b)>> \o <<v>>
  OBVIOUS
<1>3. /\ r.content \notin {"none", "text"} /\ r.type = r.content
      /\ v \in Chunks /\ v[1] = r.content /\ v # Torn
  BY DEF ContentRow
<1> HIDE DEF bytes
<1>4. HasValue(ctx, bytes, v, v)
  BY <1>1, <1>3, Zenon DEF HasValue
<1> QED
  BY <1>1, <1>2, <1>3, <1>4, Zenon DEF ReadWithContent

\* A number, a length or a size that the encoder writes by one of its rules.
LEMMA HeaderReadBack ==
  ASSUME NEW ctx, NEW type, NEW rules, NEW n, ReadBack(ctx, type, rules, n)
  PROVE  /\ Heads(ctx, Header(rules, n)) /\ NumberOf(ctx, Header(rules, n)) = n
         /\ HeaderOf(ctx, Header(rules, n)).type = type /\ HeaderOf(ctx, Header(rules, n)).content = ContentFor(type)
BY Zenon DEF ReadBack, Heads, HeaderOf, NumberOf

LEMMA NumberReadBack ==
  ASSUME NEW ctx, NEW type \in {"int64", "uint32"}, NEW rules, NEW n, ReadBack(ctx, type, rules, n)
  PROVE  ReadScalarly(ctx, Bytes(Header(rules, n)), <<type, n>>)
<1> DEFINE bytes == Header(rules, n)
<1>1. ContentFor(type) = "none" /\ type \in Scalars /\ ScalarOf(type, n) = <<type, n>>
  BY DEF ContentFor, Scalars, ScalarOf
<1>2. /\ Heads(ctx, bytes) /\ NumberOf(ctx, bytes) = n
      /\ HeaderOf(ctx, bytes).type = type /\ HeaderOf(ctx, bytes).content = "none"
  BY <1>1, HeaderReadBack
<1> HIDE DEF bytes
<1>3. ReadScalarly(ctx, Bytes(bytes), <<type, n>>)
  BY <1>1, <1>2, Zenon DEF ReadScalarly, IsScalar
<1> QED
  BY <1>3 DEF bytes

LEMMA TextReadBack ==
  ASSUME NEW ctx \in {"global", "uis"}, NEW n \in Nat, Fits(StringRules(ctx), n)
  PROVE  LET chunks == Bytes(Header(StringRules(ctx), n)) \o Text(n) IN
         ReadScalarly(ctx, chunks, <<"string", n>>) \/ ReadWithContent(ctx, chunks, <<"string", n>>)
<1> DEFINE bytes == Header(StringRules(ctx), n)
<1>1. ReadBack(ctx, "string", StringRules(ctx), n)
  <2>1. n \in Int
    OBVIOUS
  <2> QED
    BY <2>1, StringLengths, Zenon
<1>2. /\ Heads(ctx, bytes) /\ NumberOf(ctx, bytes) = n
      /\ HeaderOf(ctx, bytes).type = "string" /\ HeaderOf(ctx, bytes).content = "text"
  BY <1>1, HeaderReadBack DEF ContentFor
<1>3. Bytes(bytes) \in Seq(Chunks)
  BY <1>2, BytesType DEF Heads
<1> HIDE DEF bytes
<1>4. CASE n = 0
  <2>1. Bytes(bytes) \o Text(n) = Bytes(bytes)
    BY <1>3, <1>4, ConcatEmpty DEF Text
  <2>2. "string" \in Scalars /\ ScalarOf("string", n) = <<"string", n>>
    BY DEF Scalars, ScalarOf
  <2>3. ReadScalarly(ctx, Bytes(bytes), <<"string", n>>)
    BY <1>2, <1>4, <2>2, Zenon DEF ReadScalarly, IsScalar
  <2> QED
    BY <2>1, <2>3 DEF bytes
<1>5. CASE n # 0
  <2> DEFINE c == <<"text", n>>
  <2>1. Bytes(bytes) \o Text(n) = Bytes(bytes) \o <<c>> /\ n > 0 /\ c \in Chunks
    <3>1. n \in Nat \ {0} /\ n > 0
      BY <1>5
    <3>2. Text(n) = <<c>>
      BY <1>5 DEF Text
    <3> QED
      BY <3>1, <3>2, ChunkTypes, Zenon
  <2> HIDE DEF c
  <2>2. HasValue(ctx, bytes, c, <<"string", n>>)
    BY <1>2, <2>1, Zenon DEF HasValue, c
  <2>3. ReadWithContent(ctx, Bytes(bytes) \o Text(n), <<"string", n>>)
    BY <1>2, <2>1, <2>2, Zenon DEF ReadWithContent
  <2> QED
    BY <2>3 DEF bytes
<1> QED
  BY <1>4, <1>5

LEMMA WrittenChunks == \A chunks, rest : Written(chunks, rest).chunks = chunks
BY Zenon DEF Written

\* What the encoder writes for an object that is not made of others is read as it.
LEMMA PlainRead ==
  ASSUME NEW ctx, NEW o, InContext(ctx, o), o[1] \in EncodableTypes[ctx], EncodingByType(ctx, o),
         o[1] \in {"nil", "bool", "uint32"} \union Floats
  PROVE  ReadsAs(ctx, Encoding(ctx, o).chunks, o)
<1>1. ctx \in Contexts /\ o \in Objects
  BY DEF InContext
<1>2. Received[o] = o
  BY <1>1, ReceivedFacts, TypeSets DEF ReceivedByType
<1>3. CASE o[1] = "nil"
  <2> DEFINE r == Opcode(\h00, "nil")
  <2>1. ctx \in {"global", "uis"}
    BY <1>1, <1>3, EncodableIn DEF EncodableTypes, Contexts, IntTypes, Floats
  <2>2. r \in OpcodeTable[ctx]
    BY <2>1, SMT DEF OpcodeTable, GlobalOpcodes, UIntStrOpcodes
  <2>3. Reads(r, 0) /\ r.width = 0 /\ r.content = "none" /\ r.type = "nil" /\ 0 \in 0..255
    BY DEF Reads, Opcode, Opcodes, Row
  <2> HIDE DEF r
  <2>4. ReadScalarly(ctx, <<Byte(0)>>, <<"nil">>)
    BY <1>1, <2>2, <2>3, ScalarOpcode
  <2>5. Encoding(ctx, o).chunks = <<Byte(0)>>
    <3>1. Encoding(ctx, o) = Written(<<Byte(\h00)>>, <<>>)
      BY <1>3, Zenon DEF EncodingByType
    <3>2. Encoding(ctx, o).chunks = <<Byte(\h00)>>
      BY <3>1, WrittenChunks, Zenon
    <3> QED
      BY <3>2
  <2>6. o = <<"nil">>
    BY <1>1, <1>3, ObjectFacts
  <2> QED
    BY <1>2, <2>4, <2>5, <2>6, Zenon DEF ReadsAs
<1>4. CASE o[1] = "bool"
  <2>1. ctx = "global"
    BY <1>1, <1>4, EncodableIn DEF EncodableTypes, Contexts, IntTypes, Floats, TextTypes
  <2>2. o[2] \in BOOLEAN /\ o = <<"bool", o[2]>>
    BY <1>1, <1>4, ObjectFacts
  <2>3. CASE o[2] = TRUE
    <3> DEFINE r == Opcode(\h01, "true")
    <3>1. r \in OpcodeTable["global"]
      BY SMT DEF OpcodeTable, GlobalOpcodes
    <3>2. Reads(r, 1) /\ r.width = 0 /\ r.content = "none" /\ r.type = "true" /\ 1 \in 0..255
      BY DEF Reads, Opcode, Opcodes, Row
    <3> HIDE DEF r
    <3>3. ReadScalarly(ctx, <<Byte(1)>>, <<"bool", TRUE>>)
      BY <1>1, <2>1, <3>1, <3>2, ScalarOpcode
    <3>4. Encoding(ctx, o).chunks = <<Byte(1)>>
      <4>1. Encoding(ctx, o) = Written(<<Byte(IF o[2] THEN \h01 ELSE \h02)>>, <<>>)
        BY <1>4, Zenon DEF EncodingByType
      <4>2. Encoding(ctx, o).chunks = <<Byte(IF o[2] THEN \h01 ELSE \h02)>>
        BY <4>1, WrittenChunks, Zenon
      <4>3. (IF o[2] THEN \h01 ELSE \h02) = 1
        BY <2>3
      <4> QED
        BY <4>2, <4>3, Zenon
    <3>5. o = <<"bool", TRUE>>
      BY <2>2, <2>3, Zenon
    <3> QED
      BY <1>2, <3>3, <3>4, <3>5, Zenon DEF ReadsAs
  <2>4. CASE o[2] = FALSE
    <3> DEFINE r == Opcode(\h02, "false")
    <3>1. r \in OpcodeTable["global"]
      BY SMT DEF OpcodeTable, GlobalOpcodes
    <3>2. Reads(r, 2) /\ r.width = 0 /\ r.content = "none" /\ r.type = "false" /\ 2 \in 0..255
      BY DEF Reads, Opcode, Opcodes, Row
    <3> HIDE DEF r
    <3>3. ReadScalarly(ctx, <<Byte(2)>>, <<"bool", FALSE>>)
      BY <1>1, <2>1, <3>1, <3>2, ScalarOpcode
    <3>4. Encoding(ctx, o).chunks = <<Byte(2)>>
      <4>1. Encoding(ctx, o) = Written(<<Byte(IF o[2] THEN \h01 ELSE \h02)>>, <<>>)
        BY <1>4, Zenon DEF EncodingByType
      <4>2. Encoding(ctx, o).chunks = <<Byte(IF o[2] THEN \h01 ELSE \h02)>>
        BY <4>1, WrittenChunks, Zenon
      <4>3. (IF o[2] THEN \h01 ELSE \h02) = 2
        BY <2>4
      <4> QED
        BY <4>2, <4>3, Zenon
    <3>5. o = <<"bool", FALSE>>
      BY <2>2, <2>4, Zenon
    <3> QED
      BY <1>2, <3>3, <3>4, <3>5, Zenon DEF ReadsAs
  <2> QED
    BY <2>2, <2>3, <2>4
<1>5. CASE o[1] \in Floats
  <2>1. ctx \in {"global", "number"}
    BY <1>1, <1>5, EncodableIn DEF EncodableTypes, Contexts, IntTypes, Floats, TextTypes
  <2>2. o \in Chunks
    BY <1>1, <1>5, ChunkTypes
  <2>3. WideOpcodes \subseteq OpcodeTable[ctx]
    BY <2>1, SMT DEF OpcodeTable, GlobalOpcodes, NumberOpcodes
  <2>4. ASSUME NEW b \in {254, 255}, Wide(b, o[1]) \in WideOpcodes, Encoding(ctx, o).chunks = <<Byte(b), o>>
        PROVE  ReadsAs(ctx, Encoding(ctx, o).chunks, o)
    <3> DEFINE r == Wide(b, o[1])
    <3>1. Reads(r, b) /\ r.width = 0 /\ r.content = o[1] /\ r.type = r.content /\ b \in 0..255
      BY DEF Reads, Wide, Row
    <3>2. o[1] \notin {"none", "text"} /\ o[1] # "torn"
      BY <1>5 DEF Floats
    <3>3. r \in OpcodeTable[ctx]
      BY <2>3, <2>4
    <3>5. r.content \notin {"none", "text"} /\ r.content # "torn" /\ o[1] = r.content
      BY <3>1, <3>2
    <3> HIDE DEF r
    <3>4. ReadWithContent(ctx, <<Byte(b), o>>, o)
      <4>1. o # Torn
        BY <3>2 DEF Torn
      <4>2. ContentRow(ctx, b, r, o)
        BY <1>1, <2>2, <3>1, <3>3, <3>5, <4>1 DEF ContentRow
      <4> QED
        BY <4>2, ContentOpcode
    <3> QED
      BY <1>2, <2>4, <3>4, Zenon DEF ReadsAs
  <2>5. CASE o[1] = "float32"
    <3>0. Encoding(ctx, o) = Written(<<Byte(\hFE), o>>, <<>>)
      BY <2>5, Zenon DEF EncodingByType
    <3>1. Encoding(ctx, o).chunks = <<Byte(254), o>>
      BY <3>0, WrittenChunks
    <3>2. Wide(254, o[1]) \in WideOpcodes
      BY <2>5 DEF WideOpcodes
    <3> QED
      BY <2>4, <3>1, <3>2
  <2>6. CASE o[1] = "float64"
    <3>0. Encoding(ctx, o) = Written(<<Byte(\hFF), o>>, <<>>)
      BY <2>6, Zenon DEF EncodingByType
    <3>1. Encoding(ctx, o).chunks = <<Byte(255), o>>
      BY <3>0, WrittenChunks
    <3>2. Wide(255, o[1]) \in WideOpcodes
      BY <2>6 DEF WideOpcodes
    <3> QED
      BY <2>4, <3>1, <3>2
  <2> QED
    BY <1>5, <2>5, <2>6 DEF Floats
<1>6. CASE o[1] = "uint32"
  <2>1. ctx = "uis"
    BY <1>1, <1>6, EncodableIn, BodyNames DEF EncodableTypes, Contexts, IntTypes, Floats, TextTypes
  <2>2. o[2] \in Nat /\ o = <<"uint32", o[2]>>
    BY <1>1, <1>6, ObjectFacts
  <2>3. Encoding(ctx, o).chunks = EncodeUnsigned(o[2])
    <3>1. Encoding(ctx, o) = Written(EncodeUnsigned(o[2]), <<>>)
      BY <1>6, Zenon DEF EncodingByType
    <3> QED
      BY <3>1, WrittenChunks, Zenon
  <2>4. CASE Fits(UnsignedRules, o[2])
    <3>1. ReadBack("uis", "uint32", UnsignedRules, o[2])
      <4>1. o[2] \in Int
        BY <2>2
      <4> QED
        BY <2>4, <4>1, Unsigned, Zenon
    <3>2. ReadScalarly(ctx, Bytes(Header(UnsignedRules, o[2])), <<"uint32", o[2]>>)
      BY <2>1, <3>1, NumberReadBack
    <3>3. EncodeUnsigned(o[2]) = Bytes(Header(UnsignedRules, o[2]))
      BY <2>4, Zenon DEF EncodeUnsigned
    <3> QED
      BY <1>2, <2>2, <2>3, <3>2, <3>3, Zenon DEF ReadsAs
  <2>5. CASE ~Fits(UnsignedRules, o[2])
    <3> DEFINE r == Wide(\hFF, "uint32")
    <3>1. r \in OpcodeTable[ctx]
      BY <2>1, SMT DEF OpcodeTable, UIntStrOpcodes
    <3>2. Reads(r, 255) /\ r.width = 0 /\ r.content = "uint32" /\ r.type = r.content /\ 255 \in 0..255
      BY DEF Reads, Wide, Row
    <3> HIDE DEF r
    <3>3. <<"uint32", o[2]>> \in Chunks /\ <<"uint32", o[2]>>[1] = "uint32"
      BY <2>2, ChunkTypes
    <3>4. o \in Chunks /\ o[1] = r.content
      BY <1>6, <2>2, <3>2, <3>3
    <3>7. r.content \notin {"none", "text"} /\ r.content # "torn"
      BY <3>2
    <3>5. ReadWithContent(ctx, <<Byte(255), o>>, o)
      <4>1. o # Torn
        BY <1>6 DEF Torn
      <4>2. ContentRow(ctx, 255, r, o)
        BY <1>1, <3>1, <3>2, <3>4, <3>7, <4>1 DEF ContentRow
      <4> QED
        BY <4>2, ContentOpcode
    <3>6. EncodeUnsigned(o[2]) = <<Byte(255), o>>
      BY <2>2, <2>5, Zenon DEF EncodeUnsigned
    <3> QED
      BY <1>2, <2>3, <3>5, <3>6, Zenon DEF ReadsAs
  <2> QED
    BY <2>4, <2>5
<1> QED
  BY <1>3, <1>4, <1>5, <1>6

LEMMA IntegerRead ==
  ASSUME NEW ctx, NEW o, InContext(ctx, o), o[1] \in EncodableTypes[ctx], EncodingByType(ctx, o),
         o[1] \in IntTypes("number")
  PROVE  ReadsAs(ctx, Encoding(ctx, o).chunks, o)
<1>1. ctx \in Contexts /\ o \in Objects
  BY DEF InContext
<1>2. o[2] \in Int /\ ctx \in {"global", "number"}
  BY <1>1, ObjectFacts, EncodableIn, Zenon
<1> DEFINE n == o[2]
           v == <<"int64", n>>
<1>3. Received[o] = v
  BY <1>1, ReceivedFacts, Zenon DEF ReceivedByType
<1>4. Encoding(ctx, o).chunks = EncodeInt(ctx, n)
  <2>1. Encoding(ctx, o) = Written(EncodeInt(ctx, o[2]), <<>>)
    BY Zenon DEF EncodingByType
  <2> QED
    BY <2>1, WrittenChunks, Zenon
<1>5. CASE Fits(IntRules(ctx), n)
  <2>1. ReadBack(ctx, "int64", IntRules(ctx), n)
    <3>1. CASE ctx = "global"
      <4>1. IntRules(ctx) = GlobalIntRules
        BY <3>1 DEF IntRules
      <4> QED
        BY <1>2, <1>5, <3>1, <4>1, GlobalNumbers
    <3>2. CASE ctx = "number"
      <4>1. IntRules(ctx) = NumberIntRules
        BY <3>2 DEF IntRules
      <4> QED
        BY <1>2, <1>5, <3>2, <4>1, ContextNumbers
    <3> QED
      BY <1>2, <3>1, <3>2
  <2> HIDE DEF n
  <2>2. ReadScalarly(ctx, Bytes(Header(IntRules(ctx), n)), v)
    BY <2>1, NumberReadBack
  <2>3. EncodeInt(ctx, n) = Bytes(Header(IntRules(ctx), n))
    BY <1>5, Zenon DEF EncodeInt
  <2> QED
    BY <1>3, <1>4, <2>2, <2>3, Zenon DEF ReadsAs
<1>6. CASE ~Fits(IntRules(ctx), n)
  <2> DEFINE r == Wide(\hFD, "int64")
  <2>1. r \in OpcodeTable[ctx]
    BY <1>2, SMT DEF OpcodeTable, GlobalOpcodes, NumberOpcodes, WideOpcodes
  <2>2. Reads(r, 253) /\ r.width = 0 /\ r.content = "int64" /\ r.type = r.content /\ 253 \in 0..255
    BY DEF Reads, Wide, Row
  <2> HIDE DEF r
  <2>3. v \in Chunks /\ v[1] = "int64" /\ v # Torn
    BY <1>2, ChunkTypes DEF Torn
  <2> HIDE DEF v, n
  <2>4. ContentRow(ctx, 253, r, v)
    BY <1>1, <2>1, <2>2, <2>3 DEF ContentRow
  <2>5. ReadWithContent(ctx, <<Byte(253), v>>, v)
    BY <2>4, ContentOpcode
  <2>6. EncodeInt(ctx, n) = <<Byte(253), v>>
    BY <1>6 DEF EncodeInt, v
  <2> QED
    BY <1>3, <1>4, <2>5, <2>6, Zenon DEF ReadsAs
<1> QED
  BY <1>5, <1>6

LEMMA TextRead ==
  ASSUME NEW ctx, NEW o, InContext(ctx, o), o[1] \in EncodableTypes[ctx], EncodingByType(ctx, o),
         Encoding(ctx, o).ok, o[1] \in TextTypes
  PROVE  ReadsAs(ctx, Encoding(ctx, o).chunks, o)
<1>1. ctx \in Contexts /\ o \in Objects
  BY DEF InContext
<1>2. o[2] \in Nat /\ ctx \in {"global", "uis"}
  BY <1>1, ObjectFacts, EncodableIn, Zenon
<1>3. Received[o] = <<"string", o[2]>>
  BY <1>1, ReceivedFacts, Zenon DEF ReceivedByType
<1>4. Encoding(ctx, o) = EncodeString(ctx, o[2])
  BY Zenon DEF EncodingByType
<1>5. Fits(StringRules(ctx), o[2])
  <2>1. ~Unsupported.ok
    BY Zenon DEF Unsupported
  <2> QED
    BY <1>4, <2>1, Zenon DEF EncodeString
<1>6. Encoding(ctx, o).chunks = Bytes(Header(StringRules(ctx), o[2])) \o Text(o[2])
  BY <1>4, <1>5, WrittenChunks, Zenon DEF EncodeString
<1> QED
  BY <1>2, <1>3, <1>5, <1>6, TextReadBack, Zenon DEF ReadsAs

LEMMA ContainersFit ==
  ASSUME NEW ctx \in {"global", "listMap"}, NEW n \in Nat, n <= SmallLimit(ctx)
  PROVE  Fits(ListRules(ctx), n) /\ Fits(MapRules(ctx), n)
<1>1. SmallLimit(ctx) \in {9, 60}
  BY DEF SmallLimit
<1>2. /\ Len(ListRules(ctx)) = 2 /\ Len(MapRules(ctx)) = 2
      /\ ListRules(ctx)[1].from = 0 /\ ListRules(ctx)[1].to = 0
      /\ ListRules(ctx)[2].from = 1 /\ ListRules(ctx)[2].to = SmallLimit(ctx)
      /\ MapRules(ctx)[1].from = 0 /\ MapRules(ctx)[1].to = 0
      /\ MapRules(ctx)[2].from = 1 /\ MapRules(ctx)[2].to = SmallLimit(ctx)
  BY SMT DEF ListRules, MapRules, Rule, Signed, SmallLimit
<1>3. ASSUME NEW rules, Len(rules) = 2,
             rules[1].from = 0, rules[1].to = 0, rules[2].from = 1, rules[2].to = SmallLimit(ctx)
      PROVE  Fits(rules, n)
  <2>1. \E i \in 1..2 : n \in rules[i].from..rules[i].to
    <3>1. CASE n = 0
      BY <1>3, <3>1
    <3>2. CASE n # 0
      BY <1>1, <1>3, <3>2
    <3> QED
      BY <3>1, <3>2
  <2> QED
    BY <1>3, <2>1, Fitted
<1> QED
  BY <1>2, <1>3

LEMMA OpenedAs ==
  /\ \A n, base : OpenFrame("list", n, base).size = n
  /\ \A n, base : OpenFrame("map", n, base).size = 2 * n
  /\ \A type \in BodyTypes : \A n, base : OpenFrame(type, n, base).size = 3
BY BodyNames DEF OpenFrame, Frame

LEMMA ListRead ==
  ASSUME NEW ctx, NEW o, InContext(ctx, o), o[1] \in EncodableTypes[ctx], EncodingByType(ctx, o),
         InOpcode(ctx, o), o[1] \in {"list", "slice"}
  PROVE  ReadsAs(ctx, Encoding(ctx, o).chunks, o)
<1>1. ctx \in Contexts /\ o \in Objects
  BY DEF InContext
<1>2. ctx \in {"global", "listMap"}
  BY <1>1, EncodableIn, Zenon
<1>3. PICK s \in Seq(Objects) :
        /\ Encoding(ctx, o) = EncodeList(ctx, s) /\ RestOf(o) = Elements(s)
        /\ s = IF o[1] = "list" THEN o[2] ELSE convertSliceToInterface(o[2])
  BY <1>1, ListObject, Zenon
<1> DEFINE n == Len(s)
<1>4. n \in Nat /\ n <= SmallLimit(ctx) /\ Len(RestOf(o)) = n
  <2>1. n <= SmallLimit(ctx)
    BY <1>3 DEF InOpcode
  <2>2. Len(Elements(s)) = Len(s)
    <3>1. DOMAIN s = 1..Len(s) /\ Len(s) \in Nat
      OBVIOUS
    <3> QED
      BY <3>1 DEF Elements
  <2> QED
    BY <1>3, <2>1, <2>2
<1>5. Fits(ListRules(ctx), n)
  BY <1>2, <1>4, ContainersFit
<1> HIDE DEF n
<1>6. ReadBack(ctx, "list", ListRules(ctx), n)
  <2>1. n \in Int
    BY <1>4
  <2> QED
    BY <1>2, <1>5, <2>1, SmallContainers
<1> DEFINE bytes == Header(ListRules(ctx), n)
<1>7. /\ Heads(ctx, bytes) /\ NumberOf(ctx, bytes) = n
      /\ HeaderOf(ctx, bytes).type = "list" /\ HeaderOf(ctx, bytes).content = "none"
  BY <1>6, HeaderReadBack DEF ContentFor
<1>8. Encoding(ctx, o).chunks = Bytes(bytes)
  <2>1. Encoding(ctx, o).chunks = EncodeSize(ctx, ListRules(ctx), LargeList(ctx), n)
    BY <1>3, WrittenChunks DEF EncodeList, n
  <2> QED
    BY <1>5, <2>1, Zenon DEF EncodeSize
<1> HIDE DEF bytes
<1>9. FrameType(o) = "list" /\ Framed(o)
  BY DEF FrameType, Framed
<1>10. BeginsObject(ctx, bytes, o)
  <2>1. OpenFrame("list", n, HeaderOf(ctx, bytes).base).size = n
    BY OpenedAs, Zenon
  <2> QED
    BY <1>4, <1>7, <1>9, <2>1, Zenon DEF BeginsObject
<1> QED
  BY <1>7, <1>8, <1>10, Zenon DEF ReadsAs, ReadAsObject

LEMMA MapRead ==
  ASSUME NEW ctx, NEW o, InContext(ctx, o), o[1] \in EncodableTypes[ctx], EncodingByType(ctx, o),
         InOpcode(ctx, o), o[1] = "map"
  PROVE  ReadsAs(ctx, Encoding(ctx, o).chunks, o)
<1>1. ctx \in Contexts /\ o \in Objects
  BY DEF InContext
<1>2. ctx \in {"global", "listMap"}
  BY <1>1, EncodableIn, Zenon
<1>3. Encoding(ctx, o) = EncodeMap(ctx, o[2]) /\ RestOf(o) = Pairs(o[2]) /\ o[2] \in Seq(Objects \X Objects)
  BY <1>1, RestByType, ObjectFacts, Zenon DEF EncodingByType
<1> DEFINE n == Len(o[2])
<1>4. n \in Nat /\ n <= SmallLimit(ctx) /\ Len(RestOf(o)) = 2 * n
  <2>1. n <= SmallLimit(ctx) /\ n \in Nat
    BY <1>3 DEF InOpcode
  <2>2. Len(Pairs(o[2])) = 2 * n
    BY <2>1 DEF Pairs
  <2> QED
    BY <1>3, <2>1, <2>2
<1>5. Fits(MapRules(ctx), n)
  BY <1>2, <1>4, ContainersFit
<1> HIDE DEF n
<1>6. ReadBack(ctx, "map", MapRules(ctx), n)
  <2>1. n \in Int
    BY <1>4
  <2> QED
    BY <1>2, <1>5, <2>1, SmallContainers
<1> DEFINE bytes == Header(MapRules(ctx), n)
<1>7. /\ Heads(ctx, bytes) /\ NumberOf(ctx, bytes) = n
      /\ HeaderOf(ctx, bytes).type = "map" /\ HeaderOf(ctx, bytes).content = "none"
  BY <1>6, HeaderReadBack DEF ContentFor
<1>8. Encoding(ctx, o).chunks = Bytes(bytes)
  <2>1. Encoding(ctx, o).chunks = EncodeSize(ctx, MapRules(ctx), LargeMap(ctx), n)
    BY <1>3, WrittenChunks DEF EncodeMap, n
  <2> QED
    BY <1>5, <2>1, Zenon DEF EncodeSize
<1> HIDE DEF bytes
<1>9. FrameType(o) = "map" /\ Framed(o)
  BY DEF FrameType, Framed
<1>10. BeginsObject(ctx, bytes, o)
  <2>1. OpenFrame("map", n, HeaderOf(ctx, bytes).base).size = 2 * n
    BY OpenedAs, Zenon
  <2> QED
    BY <1>4, <1>7, <1>9, <2>1, Zenon DEF BeginsObject
<1> QED
  BY <1>7, <1>8, <1>10, Zenon DEF ReadsAs, ReadAsObject

LEMMA BodyRead ==
  ASSUME NEW ctx, NEW o, InContext(ctx, o), o[1] \in EncodableTypes[ctx], EncodingByType(ctx, o),
         o[1] \in BodyTypes
  PROVE  ReadsAs(ctx, Encoding(ctx, o).chunks, o)
<1>1. ctx \in Contexts /\ o \in Objects
  BY DEF InContext
<1>2. ctx = "global"
  BY <1>1, BodyNames DEF EncodableTypes, Contexts, IntTypes, Floats, TextTypes
<1> DEFINE b == EncodeTo[o[1]].op
           r == Opcode(b, o[1])
<1>3. r \in OpcodeTable["global"] /\ b \in 0..255
  <2>1. CASE o[1] = "envelope"
    BY <2>1, SMT DEF EnvelopeEncodeTo, EncodesAs, OpcodeTable, GlobalOpcodes, EncodeTo
  <2>2. CASE o[1] = "message"
    BY <2>2, SMT DEF MessageEncodeTo, EncodesAs, OpcodeTable, GlobalOpcodes, EncodeTo
  <2>3. CASE o[1] = "response"
    BY <2>3, SMT DEF ResponseEncodeTo, EncodesAs, OpcodeTable, GlobalOpcodes, EncodeTo
  <2>4. CASE o[1] = "deltas"
    BY <2>4, SMT DEF DeltasEncodeTo, EncodesAs, OpcodeTable, GlobalOpcodes, EncodeTo
  <2>5. CASE o[1] = "quasi"
    BY <2>5, SMT DEF QuasiEncodeTo, EncodesAs, OpcodeTable, GlobalOpcodes, EncodeTo
  <2> HIDE DEF r, b
  <2> QED
    BY <2>1, <2>2, <2>3, <2>4, <2>5, BodyNames
<1>4. Encoding(ctx, o).chunks = <<Byte(b)>>
  <2>1. Encoding(ctx, o) = EncodeFields(EncodeTo[o[1]], o[2])
    BY Zenon DEF EncodingByType
  <2> QED
    BY <2>1, WrittenChunks DEF EncodeFields
<1> HIDE DEF b
<1>5. Reads(r, b) /\ r.width = 0 /\ r.content = "none" /\ r.type = o[1]
  BY <1>3 DEF Reads, Opcode, Opcodes, Row
<1> HIDE DEF r
<1> DEFINE bytes == <<b>>
<1>6. Heads(ctx, bytes) /\ Bytes(bytes) = <<Byte(b)>> /\ HeaderOf(ctx, bytes) = r
  <2>1. ctx \in Contexts /\ r \in OpcodeTable[ctx]
    BY <1>1, <1>2, <1>3, Zenon
  <2>2. b \in 0..255 /\ Reads(r, b) /\ r.width = 0
    BY <1>3, <1>5, Zenon
  <2> HIDE DEF bytes
  <2>3. Heads(ctx, <<b>>) /\ Bytes(<<b>>) = <<Byte(b)>> /\ HeaderOf(ctx, <<b>>) = r
    BY <2>1, <2>2, OneByte, Zenon
  <2> QED
    BY <2>3, Zenon DEF bytes
<1> HIDE DEF bytes
<1>7. FrameType(o) = o[1] /\ Framed(o)
  BY BodyNames DEF FrameType, Framed
<1>8. Len(RestOf(o)) = 3
  <2>1. RestOf(o) = [i \in DOMAIN o[2] |-> <<EncodeTo[o[1]].fields[i], o[2][i]>>]
    BY RestByType
  <2>2. o[2] \in Seq(Objects) /\ Len(o[2]) = 3
    BY <1>1, ObjectFacts
  <2>3. DOMAIN o[2] = 1..3
    BY <2>2
  <2> QED
    BY <2>1, <2>3
<1>9. BeginsObject(ctx, bytes, o)
  <2>1. OpenFrame(o[1], NumberOf(ctx, bytes), HeaderOf(ctx, bytes).base).size = 3
    <3>1. \A type \in BodyTypes : \A n, base : OpenFrame(type, n, base).size = 3
      BY OpenedAs
    <3>2. o[1] \in BodyTypes
      OBVIOUS
    <3> QED
      BY <3>1, <3>2
  <2>2. HeaderOf(ctx, bytes).type = FrameType(o) /\ HeaderOf(ctx, bytes).content = "none"
    BY <1>5, <1>6, <1>7
  <2> QED
    BY <1>7, <1>8, <2>1, <2>2, Zenon DEF BeginsObject
<1> QED
  BY <1>4, <1>6, <1>9, Zenon DEF ReadsAs, ReadAsObject

\* What the encoder writes for an object is read as what it becomes, or opens its frame.
LEMMA WrittenIsRead ==
  ASSUME NEW ctx, NEW o, InContext(ctx, o), Encoding(ctx, o).ok, InOpcode(ctx, o)
  PROVE  ReadsAs(ctx, Encoding(ctx, o).chunks, o)
<1>1. o[1] \in EncodableTypes[ctx] /\ ctx \in Contexts
  BY EncodedIfOpcode DEF InContext
<1>2. EncodingByType(ctx, o)
  BY <1>1, EncodingOf
<1>3. \/ o[1] \in {"nil", "bool", "uint32"} \union Floats
      \/ o[1] \in IntTypes("number") \/ o[1] \in TextTypes
      \/ o[1] \in {"list", "slice"} \/ o[1] = "map" \/ o[1] \in BodyTypes
  BY <1>1, EncodableIn DEF Floats
<1> QED
  BY <1>1, <1>2, <1>3, PlainRead, IntegerRead, TextRead, ListRead, MapRead, BodyRead, Zenon

\* The empty text of a response is read, in the wrong context, as true.
LEMMA EmptyTextRead ==
  ASSUME NEW o, o = <<"string", 0>>
  PROVE  ReadScalarly("global", Encoding("uis", o).chunks, <<"bool", TRUE>>)
<1>1. "uis" \in Contexts /\ "global" \in Contexts /\ o[1] \in EncodableTypes["uis"] /\ o[1] \in TextTypes /\ o[2] = 0
  BY DEF Contexts, EncodableTypes, TextTypes
<1>2. Encoding("uis", o) = EncodeString("uis", 0)
  <2>1. EncodingByType("uis", o)
    BY <1>1, EncodingOf, Zenon
  <2>2. Encoding("uis", o) = EncodeString("uis", o[2])
    BY <1>1, <2>1, Zenon DEF EncodingByType
  <2> QED
    BY <1>1, <2>2, Zenon
<1>3. /\ Len(StringRules("uis")) = 2
      /\ StringRules("uis")[1].from = 0 /\ StringRules("uis")[1].to = 47
      /\ StringRules("uis")[1].op = 1 /\ StringRules("uis")[1].width = 0
      /\ StringRules("uis")[1].minus = 0 /\ StringRules("uis")[1].sign = 1
      /\ StringRules("uis")[2].from = 48 /\ StringRules("uis")[2].to = 2095
  BY SMT DEF StringRules, Rule, Signed
<1>4. Fits(StringRules("uis"), 0)
  BY <1>3, Fitted
<1>5. Fitting(StringRules("uis"), 0) = 1
  <2>1. PICK k \in 1..2 : Chosen(StringRules("uis"), 0, k)
    BY <1>3, <1>4, Fitted
  <2>2. k # 2
    BY <1>3, <2>1 DEF Chosen
  <2> QED
    BY <2>1, <2>2 DEF Chosen
<1>6. Header(StringRules("uis"), 0) = <<1>>
  <2>1. LowBytes(0, 0) = <<>>
    BY DEF LowBytes
  <2>2. (1 + 0 \div Power256[1]) % 256 = 1
    BY Powers
  <2> QED
    <3> DEFINE q == StringRules("uis")[1]
               m == q.sign * 0 - q.minus
    <3>1. q.op = 1 /\ q.width = 0 /\ m = 0
      BY <1>3
    <3>2. Header(StringRules("uis"), 0) = << (q.op + m \div Power256[q.width + 1]) % 256 >> \o LowBytes(m, q.width)
      BY <1>5, Zenon DEF Header
    <3> HIDE DEF q, m
    <3>3. 0 + 1 = 1 /\ <<1>> \o <<>> = <<1>>
      OBVIOUS
    <3> QED
      BY <2>1, <2>2, <3>1, <3>2, <3>3
<1>7. Encoding("uis", o).chunks = <<Byte(1)>>
  <2>1. Bytes(<<1>>) = <<Byte(1)>> /\ Text(0) = <<>>
    BY DEF Bytes, Text
  <2>2. <<Byte(1)>> \o <<>> = <<Byte(1)>>
    OBVIOUS
  <2> QED
    <3>1. EncodeString("uis", 0) = Written(Bytes(Header(StringRules("uis"), 0)) \o Text(0), <<>>)
      BY <1>4, Zenon DEF EncodeString
    <3>2. EncodeString("uis", 0) = Written(<<Byte(1)>>, <<>>)
      BY <1>6, <2>1, <2>2, <3>1
    <3> QED
      BY <1>2, <3>2, WrittenChunks
<1> DEFINE r == Opcode(\h01, "true")
<1>8. r \in OpcodeTable["global"]
  BY SMT DEF OpcodeTable, GlobalOpcodes
<1>9. Reads(r, 1) /\ r.width = 0 /\ r.content = "none" /\ r.type = "true" /\ 1 \in 0..255
  BY DEF Reads, Opcode, Opcodes, Row
<1> HIDE DEF r
<1>10. ReadScalarly("global", <<Byte(1)>>, <<"bool", TRUE>>)
  BY <1>1, <1>8, <1>9, ScalarOpcode
<1> QED
  BY <1>7, <1>10

-----------------------------------------------------------------------------
(* What the decoder does with what it reads.                               *)

LEMMA Dropped ==
  ASSUME NEW S, NEW a \in Seq(S), NEW b \in Seq(S)
  PROVE  /\ SubSeq(a \o b, Len(a) + 1, Len(a \o b)) = b /\ Len(a \o b) = Len(a) + Len(b)
         /\ \A i \in 1..Len(a) : (a \o b)[i] = a[i]
         /\ \A i \in 1..Len(b) : (a \o b)[Len(a) + i] = b[i]
<1> DEFINE c == a \o b
           q == SubSeq(c, Len(a) + 1, Len(c))
<1>1. /\ c \in Seq(S) /\ Len(a) \in Nat /\ Len(b) \in Nat /\ Len(c) = Len(a) + Len(b)
      /\ \A i \in 1..Len(a) : c[i] = a[i]
      /\ \A i \in 1..Len(b) : c[Len(a) + i] = b[i]
  BY ConcatElems
<1> HIDE DEF c
<1>2. \A k \in Nat : k <= Len(c) => /\ SubSeq(c, k + 1, Len(c)) \in Seq(S)
                                    /\ Len(SubSeq(c, k + 1, Len(c))) = Len(c) - k
                                    /\ \A i \in 1..(Len(c) - k) : SubSeq(c, k + 1, Len(c))[i] = c[k + i]
  <2>1. \A x \in Seq(S) : \A k \in Nat : k <= Len(x) =>
          /\ SubSeq(x, k + 1, Len(x)) \in Seq(S)
          /\ Len(SubSeq(x, k + 1, Len(x))) = Len(x) - k
          /\ \A i \in 1..(Len(x) - k) : SubSeq(x, k + 1, Len(x))[i] = x[k + i]
    OBVIOUS
  <2> QED
    BY <1>1, <2>1, Zenon
<1>3. /\ q \in Seq(S) /\ Len(q) = Len(b) /\ \A i \in 1..Len(b) : q[i] = c[Len(a) + i]
  <2>1. Len(a) <= Len(c) /\ Len(c) - Len(a) = Len(b)
    BY <1>1
  <2> QED
    BY <1>1, <1>2, <2>1, Zenon
<1> HIDE DEF q
<1>4. q = b
  BY <1>1, <1>3, SameElements, Zenon
<1> QED
  BY <1>1, <1>4 DEF c, q

\* The stream goes on with the header bytes, and then s.
HeaderIs(bytes, s) ==
  /\ Heads(Context, bytes)
  /\ OpRule = HeaderOf(Context, bytes) /\ Size = NumberOf(Context, bytes)
  /\ HeaderRead /\ HeaderLength = Len(bytes) /\ HeaderLength \in Nat
  /\ Len(stream) = HeaderLength + Len(s) /\ Len(s) \in Nat
  /\ SubSeq(stream, HeaderLength + 1, Len(stream)) = s
  /\ \A i \in 1..Len(s) : stream[HeaderLength + i] = s[i]
  /\ stream # <<>>

LEMMA HeaderInStream ==
  ASSUME Context \in Contexts, NEW bytes, Heads(Context, bytes), NEW s \in Seq(Chunks), stream = Bytes(bytes) \o s
  PROVE  HeaderIs(bytes, s)
<1> DEFINE h == Bytes(bytes)
           n == Len(bytes)
           r == RuleOf(Context, bytes[1])
<1>1. /\ bytes \in Seq(0..255) /\ Known(Context, bytes[1])
      /\ n = 1 + r.width
  BY DEF Heads
<1>2. h \in Seq(Chunks) /\ DOMAIN bytes = 1..n /\ n \in Nat
  BY <1>1, BytesType
<1>3. Len(h) = n /\ \A i \in 1..n : h[i] = Byte(bytes[i])
  BY <1>2 DEF Bytes
<1>4. r.width \in 0..3
  <2>1. RowType(Context, r)
    BY <1>1, KnownRow, Zenon
  <2> HIDE DEF r
  <2> QED
    BY <2>1, Zenon DEF RowType
<1>5. /\ SubSeq(stream, n + 1, Len(stream)) = s /\ Len(stream) = n + Len(s)
      /\ \A i \in 1..n : stream[i] = Byte(bytes[i])
      /\ \A i \in 1..Len(s) : stream[n + i] = s[i]
  <2> DEFINE w == h \o s
  <2>1. /\ SubSeq(w, Len(h) + 1, Len(w)) = s /\ Len(w) = Len(h) + Len(s)
        /\ \A i \in 1..Len(h) : w[i] = h[i]
        /\ \A i \in 1..Len(s) : w[Len(h) + i] = s[i]
    BY <1>2, Dropped
  <2>2. stream = w
    OBVIOUS
  <2> HIDE DEF w, h, n
  <2> QED
    BY <1>3, <2>1, <2>2
<1>6. Len(s) \in Nat /\ 1 \in 1..n
  BY <1>1, <1>4
<1>7. \A i \in 1..n : IsByte(i) /\ stream[i][2] = bytes[i]
  <2> SUFFICES ASSUME NEW i \in 1..n PROVE IsByte(i) /\ stream[i][2] = bytes[i]
    OBVIOUS
  <2>1. stream[i] = Byte(bytes[i]) /\ Len(stream) >= i
    <3>1. stream[i] = Byte(bytes[i])
      BY <1>5, Zenon
    <3>2. Len(stream) = n + Len(s) /\ n \in Nat /\ Len(s) \in Nat
      BY <1>2, <1>5, <1>6, Zenon
    <3> HIDE DEF n
    <3>3. Len(stream) >= i
      BY <3>2
    <3> QED
      BY <3>1, <3>3
  <2>2. Byte(bytes[i])[1] = "byte" /\ Byte(bytes[i])[2] = bytes[i]
    BY DEF Byte
  <2>3. stream[i][1] = "byte" /\ stream[i][2] = bytes[i]
    BY <2>1, <2>2, Zenon
  <2> QED
    BY <2>1, <2>3, Zenon DEF IsByte
<1>8. Op = bytes[1] /\ OpRule = r /\ HeaderLength = n
  BY <1>1, <1>6, <1>7 DEF Op, OpRule, HeaderLength
<1>9. OpKnown /\ HeaderRead
  BY <1>1, <1>6, <1>7, <1>8 DEF OpKnown, HeaderRead, HasBytes
<1>10. Size = Value(r, bytes)
  <2> DEFINE q == [i \in 1..HeaderLength |-> stream[i][2]]
  <2>1. q = bytes
    <3>1. q = [i \in 1..n |-> bytes[i]]
      BY <1>7, <1>8
    <3>2. bytes = [i \in 1..n |-> bytes[i]]
      <4>1. bytes = [i \in DOMAIN bytes |-> bytes[i]]
        BY <1>1
      <4> QED
        BY <1>2, <4>1
    <3> QED
      BY <3>1, <3>2
  <2> HIDE DEF q
  <2>2. Size = Value(OpRule, q)
    BY Zenon DEF Size, q
  <2> QED
    BY <1>8, <2>1, <2>2
<1>11. stream # <<>>
  <2>1. Len(stream) # 0
    BY <1>2, <1>5, <1>6
  <2> QED
    BY <2>1, EmptyLen
<1> HIDE DEF r, h, n
<1>12. OpRule = HeaderOf(Context, bytes) /\ Size = NumberOf(Context, bytes)
  BY <1>8, <1>10 DEF HeaderOf, NumberOf, r
<1>13. HeaderLength = Len(bytes) /\ HeaderLength \in Nat
  BY <1>2, <1>8 DEF n
<1> QED
  BY <1>5, <1>6, <1>8, <1>9, <1>11, <1>12, <1>13 DEF HeaderIs

\* The steps of the decoder that a header excludes.
LEMMA HeaderExcludes ==
  ASSUME Reading, NEW bytes, NEW s, HeaderIs(bytes, s)
  PROVE  /\ ~UnknownOpcode /\ ~CloseObject
         /\ StreamEnds => HasContent /\ Len(stream) = HeaderLength
         /\ Misread => ContentRead /\ Content # Torn /\ ~ContentFits /\ ~TextLonger
<1>1. /\ HeaderRead /\ OpKnown /\ HeaderLength \in Nat /\ Len(stream) = HeaderLength + Len(s) /\ Len(s) \in Nat
      /\ stream # <<>>
  BY DEF HeaderIs, HeaderRead
<1>2. IsByte(1) /\ \A i \in 1..HeaderLength : IsByte(i)
  BY <1>1 DEF HeaderRead, OpKnown, HasBytes
<1>3. ~UnknownOpcode
  BY <1>1, Zenon DEF UnknownOpcode
<1>4. ~CloseObject
  BY Zenon DEF CloseObject, Reading
<1>5. ASSUME StreamEnds PROVE HasContent /\ Len(stream) = HeaderLength
  <2>1. ~(Len(stream) < HeaderLength)
    BY <1>1
  <2> QED
    BY <1>1, <1>5, <2>1, Zenon DEF StreamEnds
<1>6. ASSUME Misread PROVE ContentRead /\ Content # Torn /\ ~ContentFits /\ ~TextLonger
  <2>1. ~\E i \in 2..HeaderLength : Len(stream) >= i /\ ~IsByte(i)
    BY <1>1, <1>2
  <2> QED
    BY <1>2, <1>6, <2>1, Zenon DEF Misread
<1> QED
  BY <1>3, <1>4, <1>5, <1>6

LEMMA ScalarStep ==
  ASSUME Reading, NEW bytes, NEW s, HeaderIs(bytes, s), NEW v, IsScalar(Context, bytes, v), Decoder
  PROVE  Deliver(v, stack) /\ stream' = s /\ Untouched
<1>1. /\ OpRule = HeaderOf(Context, bytes) /\ Size = NumberOf(Context, bytes)
      /\ SubSeq(stream, HeaderLength + 1, Len(stream)) = s
  BY DEF HeaderIs
<1>2. /\ OpRule.content = "none" \/ (OpRule.content = "text" /\ Size = 0)
      /\ OpRule.type \in Scalars /\ v = ScalarOf(OpRule.type, Size)
  BY <1>1, Zenon DEF IsScalar
<1>3. ~HasContent
  BY <1>2 DEF HasContent
<1>4. OpRule.type \notin Containers \union BodyTypes
  BY <1>2 DEF Scalars, Containers, BodyTypes, DecodeFrom
<1>5. ReadScalar
  <2>1. ~ContentRead
    BY <1>3 DEF ContentRead
  <2> QED
    BY <1>3, <1>4, <2>1, HeaderExcludes, Zenon DEF Decoder, ContentTorn, ReadContent, ReadPartOfText, OpenObject
<1>6. Consume(HeaderLength) /\ Untouched
  BY <1>5, Zenon DEF ReadScalar
<1>7. Deliver(v, stack)
  <2>1. CASE OpRule.type = "nil" /\ Deliver(<<"nil">>, stack)
    BY <1>2, <2>1, Zenon DEF ScalarOf
  <2>2. CASE OpRule.type \in {"true", "false"} /\ Deliver(<<"bool", OpRule.type = "true">>, stack)
    <3>1. OpRule.type # "nil"
      BY <2>2
    <3> QED
      BY <1>2, <2>2, <3>1, Zenon DEF ScalarOf
  <2>3. CASE OpRule.type \in {"int64", "uint32", "string"} /\ Deliver(<<OpRule.type, Size>>, stack)
    <3>1. OpRule.type # "nil" /\ OpRule.type \notin {"true", "false"}
      BY <2>3
    <3> QED
      BY <1>2, <2>3, <3>1, Zenon DEF ScalarOf
  <2> QED
    BY <1>5, <2>1, <2>2, <2>3, Zenon DEF ReadScalar
<1> QED
  BY <1>1, <1>6, <1>7, Zenon DEF Consume

LEMMA OpenStep ==
  ASSUME Reading, NEW bytes, NEW s, HeaderIs(bytes, s), NEW o, BeginsObject(Context, bytes, o), Decoder
  PROVE  /\ stack' = <<OpenFrame(FrameType(o), NumberOf(Context, bytes), HeaderOf(Context, bytes).base)>> \o stack
         /\ stream' = s /\ Untouched /\ UNCHANGED <<phase, got, status>>
<1>1. /\ OpRule = HeaderOf(Context, bytes) /\ Size = NumberOf(Context, bytes)
      /\ SubSeq(stream, HeaderLength + 1, Len(stream)) = s
  BY DEF HeaderIs
<1>2. OpRule.content = "none" /\ OpRule.type = FrameType(o) /\ Framed(o)
  BY <1>1, Zenon DEF BeginsObject
<1>3. ~HasContent /\ ~ContentRead
  BY <1>2 DEF HasContent, ContentRead
<1>4. OpRule.type \notin Scalars
  BY <1>2 DEF Scalars, FrameType, Framed, BodyTypes, DecodeFrom
<1>5. ~ReadScalar
  <2>1. OpRule.type # "nil" /\ OpRule.type \notin {"true", "false"} /\ OpRule.type \notin {"int64", "uint32", "string"}
    BY <1>4 DEF Scalars
  <2> QED
    BY <2>1, Zenon DEF ReadScalar
<1>6. OpenObject
  BY <1>3, <1>5, HeaderExcludes, Zenon DEF Decoder, ContentTorn, ReadContent, ReadPartOfText
<1> QED
  BY <1>1, <1>2, <1>6, Zenon DEF OpenObject, Consume

LEMMA ContentStep ==
  ASSUME IInv, Reading, NEW bytes, NEW c \in Chunks, NEW s \in Seq(Chunks), HeaderIs(bytes, <<c>> \o s),
         bytes \in Seq(0..255), stream = Bytes(bytes) \o (<<c>> \o s),
         NEW v, HasValue(Context, bytes, c, v), Decoder
  PROVE  Deliver(v, stack) /\ stream' = s /\ Untouched
<1> DEFINE q == <<c>> \o s
           h == Bytes(bytes)
           hc == h \o <<c>>
<1>1. q \in Seq(Chunks) /\ q[1] = c /\ Len(q) \in Nat /\ Len(q) > 0 /\ 1 \in 1..Len(q) /\ <<c>> \in Seq(Chunks) /\ Len(<<c>>) = 1
  OBVIOUS
<1>2. /\ OpRule = HeaderOf(Context, bytes) /\ Size = NumberOf(Context, bytes)
      /\ HeaderRead /\ HeaderLength = Len(bytes) /\ HeaderLength \in Nat /\ Len(stream) = HeaderLength + Len(q)
      /\ \A i \in 1..Len(q) : stream[HeaderLength + i] = q[i]
  BY DEF HeaderIs
<1>3. Content = c /\ Len(stream) > HeaderLength /\ Len(stream) # HeaderLength
  BY <1>1, <1>2 DEF Content
<1>4. SubSeq(stream, (HeaderLength + 1) + 1, Len(stream)) = s
  <2>1. h \in Seq(Chunks) /\ Len(h) = HeaderLength
    <3>1. h \in Seq(Chunks) /\ DOMAIN bytes = 1..Len(bytes)
      BY BytesType
    <3>2. Len(h) = Len(bytes)
      BY <1>2, <3>1 DEF Bytes
    <3> QED
      BY <1>2, <3>1, <3>2
  <2> HIDE DEF h
  <2>2. hc \in Seq(Chunks) /\ Len(hc) = HeaderLength + 1
    <3>1. \A x, y \in Seq(Chunks) : x \o y \in Seq(Chunks) /\ Len(x \o y) = Len(x) + Len(y)
      BY ConcatElems
    <3>2. hc \in Seq(Chunks) /\ Len(hc) = Len(h) + Len(<<c>>)
      BY <1>1, <2>1, <3>1, Zenon
    <3> QED
      BY <1>1, <2>1, <3>2
  <2>3. hc \o s = h \o (<<c>> \o s)
    BY <1>1, <2>1, ChunksAssoc, Zenon
  <2>4. stream = hc \o s
    BY <2>3 DEF h
  <2> HIDE DEF hc
  <2>5. SubSeq(hc \o s, Len(hc) + 1, Len(hc \o s)) = s
    BY <2>2, Dropped
  <2> QED
    BY <2>2, <2>4, <2>5
<1> HIDE DEF q
<1>5. /\ HasContent /\ ContentFits /\ ContentRead /\ Content # Torn
      /\ OpRule.type \notin Containers \union BodyTypes
      /\ v = IF OpRule.content = "text" THEN <<"string", Size>> ELSE Content
      /\ ~TextLonger
  <2>1. CASE /\ OpRule.content = "text" /\ Size > 0 /\ OpRule.type = "string"
             /\ c = <<"text", Size>> /\ v = <<"string", Size>>
    <3>1. HasContent /\ ContentFits /\ c # Torn
      BY <1>3, <2>1 DEF HasContent, ContentFits, Torn
    <3>2. ~TextLonger
      <4>1. Content[2] = Size
        BY <1>3, <2>1
      <4>2. Size \in Int
        BY <1>2, SizeRead, Zenon DEF IInv, Data, Outcome
      <4>3. ~(Content[2] > Size)
        BY <4>1, <4>2
      <4> QED
        BY <4>3 DEF TextLonger
    <3>3. OpRule.type \notin Containers \union BodyTypes
      BY <2>1 DEF Containers, BodyTypes, DecodeFrom
    <3> QED
      BY <1>2, <1>3, <2>1, <3>1, <3>2, <3>3 DEF ContentRead
  <2>2. CASE /\ OpRule.content \notin {"none", "text"} /\ OpRule.type = OpRule.content
             /\ c[1] = OpRule.content /\ c # Torn /\ v = c
    <3>1. HasContent /\ ContentFits /\ ~TextLonger
      BY <1>3, <2>2 DEF HasContent, ContentFits, TextLonger
    <3>2. OpRule.type \notin Containers \union BodyTypes
      <4>1. c[1] \notin Containers \union BodyTypes
        BY DEF Chunks, Torn, Containers, BodyTypes, DecodeFrom
      <4> QED
        BY <2>2, <4>1
    <3> QED
      BY <1>2, <1>3, <2>2, <3>1, <3>2 DEF ContentRead
  <2> QED
    BY <1>2, <2>1, <2>2, Zenon DEF HasValue
<1>6. ReadContent
  BY <1>3, <1>5, HeaderExcludes, Zenon DEF Decoder, ContentTorn, ReadScalar, ReadPartOfText, OpenObject
<1> QED
  BY <1>4, <1>5, <1>6, Zenon DEF ReadContent, Consume

\* What comes next, and in which context it is read: the one that it was written in, but for
\* the empty text of a response, which is read as true.
AsWritten(t) == Context = t[1] /\ ValueRead(stack, t[2]) = Received[t[2]]
AsTrue(t) ==
  /\ Context = "global" /\ t[1] = "uis" /\ t[2] = <<"string", 0>>
  /\ ValueRead(stack, t[2]) = <<"bool", TRUE>>

LEMMA ResponseText ==
  ASSUME NEW t, Fit(t), t[2][1] = "response"
  PROVE  RestOf(t[2])[3] = <<"uis", <<"string", 0>> >> /\ t[2][2][3] = <<"string", 0>>
<1> DEFINE o == t[2]
<1>1. o \in Objects /\ InOpcode(t[1], o) /\ o[1] \in BodyTypes /\ o[1] = "response"
  <2>1. t \in Todo /\ InOpcode(t[1], o)
    BY FollowedIs, Zenon DEF Fit
  <2> QED
    BY <2>1, TypeSets DEF Todo
<1>2. o[2][3] = <<"string", 0>>
  BY <1>1, Zenon DEF InOpcode
<1>3. RestOf(o)[3] = <<EncodeTo[o[1]].fields[3], o[2][3]>>
  BY <1>1, FieldsRest
<1>4. EncodeTo["response"].fields[3] = "uis"
  BY DEF EncodeTo, ResponseEncodeTo, EncodesAs
<1> HIDE DEF o
<1> QED
  BY <1>1, <1>2, <1>3, <1>4 DEF o

LEMMA ReadHere ==
  ASSUME IInv, Reading, sent \in Inputs, GotFirst,
         NEW T \in Seq(Todo), T # <<>>, Awaits(stack, T, Left)
  PROVE  AsWritten(Head(T)) \/ AsTrue(Head(T))
<1> DEFINE t == Head(T)
<1>1. CASE stack = <<>>
  <2>1. T = Left
    BY <1>1, Outside
  <2>2. t[1] = "global"
    <3> DEFINE n == Len(got)
    <3>1. n \in Nat
      BY SeqDomain DEF GotFirst
    <3>2. Sent \in Seq(Todo) /\ Len(Sent) = Len(sent)
      BY SentIs
    <3> HIDE DEF n
    <3>3. T = SubSeq(Sent, n + 1, Len(Sent))
      BY <2>1 DEF Left, n
    <3>4. n + 1 \in 1..Len(Sent) /\ Head(T) = Sent[n + 1]
      BY <3>1, <3>2, <3>3
    <3>5. Sent[n + 1] = <<"global", sent[n + 1]>>
      BY <3>2, <3>4, SentIs
    <3> QED
      BY <3>4, <3>5
  <2>3. Context = "global" /\ ValueRead(stack, t[2]) = Received[t[2]]
    BY <1>1, Zenon DEF Context, ValueRead
  <2> QED
    BY <2>2, <2>3 DEF AsWritten
<1>2. CASE stack # <<>>
  <2> DEFINE f == Head(stack)
  <2>1. IsFrame(f) /\ ~Full(f)
    BY <1>2, Popped, Zenon DEF IInv, Outcome, Reading
  <2>2. PICK u, U, i : NextIs(stack, T, Left, u, U, i)
    BY <1>2, <2>1, NextPart, Zenon
  <2> DEFINE o == u[2]
  <2>3. Fit(u) /\ Shows(f, o) /\ i = Len(f.parts) + 1 /\ t = RestOf(o)[i]
    BY <2>2, Zenon DEF NextIs
  <2>4. f.type = "response" <=> o[1] = "response"
    BY <2>3 DEF Shows, FrameType, Framed
  <2>5. Len(f.parts) = 2 <=> i = 3
    <3>1. Len(f.parts) \in Nat
      BY <2>1, SeqDomain DEF IsFrame
    <3>2. \A n \in Nat : n = 2 <=> n + 1 = 3
      OBVIOUS
    <3> HIDE DEF f
    <3> QED
      BY <2>3, <3>1, <3>2, Zenon
  <2>6. Context = IF o[1] = "response" /\ i = 3 THEN "global" ELSE t[1]
    <3>1. PartContext(f) = IF o[1] = "response" /\ i = 3 THEN "global" ELSE RestOf(o)[i][1]
      BY <2>1, <2>3, ContextOfPart
    <3> QED
      BY <1>2, <2>3, <3>1, Zenon DEF Context
  <2>7. ValueRead(stack, t[2]) = IF o[1] = "response" /\ i = 3 THEN <<"bool", TRUE>> ELSE Received[t[2]]
    BY <1>2, <2>4, <2>5, Zenon DEF ValueRead
  <2>8. CASE o[1] = "response" /\ i = 3
    <3>1. t = <<"uis", <<"string", 0>> >>
      BY <2>3, <2>8, ResponseText
    <3>2. t[1] = "uis" /\ t[2] = <<"string", 0>>
      BY <3>1
    <3>3. AsTrue(t)
      BY <2>6, <2>7, <2>8, <3>2, Zenon DEF AsTrue
    <3> QED
      BY <3>3
  <2>9. CASE ~(o[1] = "response" /\ i = 3)
    <3>1. AsWritten(t)
      BY <2>6, <2>7, <2>9, Zenon DEF AsWritten
    <3> QED
      BY <3>1
  <2> QED
    BY <2>8, <2>9
<1> QED
  BY <1>1, <1>2

\* The stream begins with the chunks, and goes on with s.
Ahead(chunks, s) == s \in Seq(Chunks) /\ stream = chunks \o s
FramedTypes == {"list", "map"} \union BodyTypes

LEMMA ValueStep ==
  ASSUME IInv, Reading, Decoder, NEW chunks, NEW s, Ahead(chunks, s), NEW v,
         ReadScalarly(Context, chunks, v) \/ ReadWithContent(Context, chunks, v)
  PROVE  Deliver(v, stack) /\ stream' = s /\ Untouched /\ v[1] \notin FramedTypes
<1>1. Context \in Contexts
  BY ContextRead, Zenon DEF IInv, Outcome
<1>2. s \in Seq(Chunks) /\ stream = chunks \o s
  BY DEF Ahead
<1>3. CASE ReadScalarly(Context, chunks, v)
  <2>1. PICK bytes : Heads(Context, bytes) /\ chunks = Bytes(bytes) /\ IsScalar(Context, bytes, v)
    BY <1>3, Zenon DEF ReadScalarly
  <2>2. HeaderIs(bytes, s)
    BY <1>1, <1>2, <2>1, HeaderInStream
  <2>3. Deliver(v, stack) /\ stream' = s /\ Untouched
    BY <2>1, <2>2, ScalarStep, Zenon
  <2>4. v[1] \notin FramedTypes
    <3> DEFINE type == HeaderOf(Context, bytes).type
               n == NumberOf(Context, bytes)
    <3>1. type \in Scalars /\ v = ScalarOf(type, n)
      BY <2>1, Zenon DEF IsScalar
    <3> HIDE DEF type, n
    <3>2. v[1] \in {"nil", "bool", "int64", "uint32", "string"}
      BY <3>1 DEF Scalars, ScalarOf
    <3> QED
      BY <3>2, TypeSets DEF FramedTypes
  <2> QED
    BY <2>3, <2>4
<1>4. CASE ReadWithContent(Context, chunks, v)
  <2>1. PICK bytes, c : /\ Heads(Context, bytes) /\ c \in Chunks /\ chunks = Bytes(bytes) \o <<c>>
                        /\ HasValue(Context, bytes, c, v)
    BY <1>4, Zenon DEF ReadWithContent
  <2> DEFINE q == <<c>> \o s
  <2>2. q \in Seq(Chunks) /\ bytes \in Seq(0..255) /\ Bytes(bytes) \in Seq(Chunks)
    BY <1>2, <2>1, BytesType DEF Heads
  <2>3. stream = Bytes(bytes) \o q
    <3>1. <<c>> \in Seq(Chunks)
      BY <2>1
    <3>2. (Bytes(bytes) \o <<c>>) \o s = Bytes(bytes) \o (<<c>> \o s)
      BY <1>2, <2>2, <3>1, ChunksAssoc, Zenon
    <3> QED
      BY <1>2, <2>1, <3>2
  <2>4. HeaderIs(bytes, q)
    <3> HIDE DEF q
    <3> QED
      BY <1>1, <2>1, <2>2, <2>3, HeaderInStream
  <2>5. Deliver(v, stack) /\ stream' = s /\ Untouched
    BY <1>2, <2>1, <2>2, <2>3, <2>4, ContentStep
  <2>6. v[1] \notin FramedTypes
    <3>1. CASE v = <<"string", NumberOf(Context, bytes)>>
      BY <3>1, TypeSets DEF FramedTypes
    <3>2. CASE v = c
      <4>1. v[1] \in {"byte", "text", "int64", "uint32", "float32", "float64", "torn"}
        BY <2>1, <3>2 DEF Chunks, Torn
      <4> QED
        BY <4>1, TypeSets DEF FramedTypes
    <3> QED
      BY <2>1, <3>1, <3>2, Zenon DEF HasValue
  <2> QED
    BY <2>5, <2>6
<1> QED
  BY <1>3, <1>4

LEMMA ObjectStep ==
  ASSUME IInv, Reading, Decoder, NEW chunks, NEW s, Ahead(chunks, s), NEW o \in Objects,
         ReadAsObject(Context, chunks, o)
  PROVE  \E f : /\ stack' = <<f>> \o stack /\ Shows(f, o) /\ Remaining(f, o) = RestOf(o)
                /\ stream' = s /\ Untouched /\ UNCHANGED <<phase, got, status>>
<1>1. Context \in Contexts
  BY ContextRead, Zenon DEF IInv, Outcome
<1>2. s \in Seq(Chunks) /\ stream = chunks \o s
  BY DEF Ahead
<1>3. PICK bytes : Heads(Context, bytes) /\ chunks = Bytes(bytes) /\ BeginsObject(Context, bytes, o)
  BY Zenon DEF ReadAsObject
<1>4. HeaderIs(bytes, s)
  BY <1>1, <1>2, <1>3, HeaderInStream
<1> DEFINE f == OpenFrame(FrameType(o), NumberOf(Context, bytes), HeaderOf(Context, bytes).base)
<1>5. /\ stack' = <<f>> \o stack /\ stream' = s /\ Untouched /\ UNCHANGED <<phase, got, status>>
  BY <1>3, <1>4, OpenStep, Zenon
<1>6. Framed(o) /\ f.size = Len(RestOf(o))
  BY <1>3, Zenon DEF BeginsObject
<1>7. f.type = FrameType(o) /\ f.parts = <<>>
  <2>1. FrameType(o) \in FramedTypes
    BY <1>6, TypeSets DEF FrameType, Framed, FramedTypes
  <2>2. \A type \in FramedTypes : \A n, base : OpenFrame(type, n, base).type = type /\ OpenFrame(type, n, base).parts = <<>>
    BY TypeSets DEF OpenFrame, Frame, FramedTypes
  <2> QED
    BY <2>1, <2>2
<1> HIDE DEF f
<1>8. Len(f.parts) = 0
  BY <1>7, EmptyLen
<1>9. Shows(f, o)
  BY <1>6, <1>7, <1>8 DEF Shows
<1>10. Remaining(f, o) = RestOf(o)
  <2>1. RestOf(o) \in Seq(Todo)
    BY RestType
  <2>2. \A S : \A q \in Seq(S) : SubSeq(q, 0 + 1, Len(q)) = q
    OBVIOUS
  <2> QED
    BY <1>8, <2>1, <2>2, Zenon DEF Remaining
<1> QED
  BY <1>5, <1>9, <1>10, Zenon

LEMMA FirstFit ==
  ASSUME NEW T \in Seq(Todo), T # <<>>, AllFit(T)
  PROVE  Fit(Head(T)) /\ Head(T) \in Todo /\ Tail(T) \in Seq(Todo) /\ AllFit(Tail(T)) /\ T = <<Head(T)>> \o Tail(T)
<1>1. /\ Tail(T) \in Seq(Todo) /\ 1 \in DOMAIN T /\ Head(T) = T[1] /\ T = <<Head(T)>> \o Tail(T)
      /\ \A i \in DOMAIN Tail(T) : i + 1 \in DOMAIN T /\ Tail(T)[i] = T[i + 1]
  OBVIOUS
<1>2. Fit(Head(T)) /\ AllFit(Tail(T))
  BY <1>1, Zenon DEF AllFit
<1> QED
  BY <1>1, <1>2 DEF Fit

LEMMA PartsFit ==
  ASSUME NEW t, Fit(t), NEW U \in Seq(Todo), AllFit(U)
  PROVE  RestOf(t[2]) \o U \in Seq(Todo) /\ AllFit(RestOf(t[2]) \o U)
<1> DEFINE o == t[2]
           r == RestOf(o)
           q == r \o U
<1>1. o \in Objects /\ t \in Todo /\ Followed[t]
  BY DEF Fit, Todo
<1>2. r \in Seq(Todo) /\ Covered(r, PartsOf(o))
  BY <1>1, RestType, RestCovered
<1>3. \A i \in DOMAIN r : Fit(r[i])
  <2> SUFFICES ASSUME NEW i \in DOMAIN r PROVE Fit(r[i])
    OBVIOUS
  <2>1. r[i] \in PartsOf(o)
    BY <1>2, Zenon DEF Covered
  <2>2. r[i] \in Todo /\ InContext(r[i][1], r[i][2])
    BY <1>1, <2>1, PartsInContext
  <2>3. Followed[r[i]]
    BY <1>1, <2>1, FollowedIs, Zenon
  <2> QED
    BY <2>2, <2>3, Zenon DEF Fit
<1> HIDE DEF r
<1>4. /\ q \in Seq(Todo) /\ Len(q) = Len(r) + Len(U) /\ DOMAIN q = 1..Len(q)
      /\ \A i \in 1..Len(r) : q[i] = r[i]
      /\ \A i \in 1..Len(U) : q[Len(r) + i] = U[i]
  <2>1. /\ q \in Seq(Todo) /\ Len(q) = Len(r) + Len(U)
        /\ \A i \in 1..Len(r) : q[i] = r[i]
        /\ \A i \in 1..Len(U) : q[Len(r) + i] = U[i]
    BY <1>2, ConcatElems
  <2> HIDE DEF q
  <2> QED
    BY <2>1
<1>5. DOMAIN r = 1..Len(r) /\ DOMAIN U = 1..Len(U) /\ Len(r) \in Nat /\ Len(U) \in Nat
  BY <1>2
<1> HIDE DEF q
<1>6. \A n, m \in Nat : \A i \in 1..(n + m) : i \in 1..n \/ \E j \in 1..m : i = n + j
  <2> SUFFICES ASSUME NEW n \in Nat, NEW m \in Nat, NEW i \in 1..(n + m), i \notin 1..n
               PROVE  \E j \in 1..m : i = n + j
    OBVIOUS
  <2>1. i - n \in 1..m /\ i = n + (i - n)
    OBVIOUS
  <2> QED
    BY <2>1
<1>7. AllFit(q)
  <2> SUFFICES ASSUME NEW i \in DOMAIN q PROVE Fit(q[i])
    BY DEF AllFit
  <2>1. i \in 1..Len(r) \/ \E j \in 1..Len(U) : i = Len(r) + j
    <3>1. i \in 1..(Len(r) + Len(U))
      BY <1>4, Zenon
    <3> QED
      BY <1>5, <1>6, <3>1, Zenon
  <2>2. CASE i \in 1..Len(r)
    BY <1>3, <1>4, <1>5, <2>2, Zenon
  <2>3. CASE \E j \in 1..Len(U) : i = Len(r) + j
    BY <1>4, <1>5, <2>3, Zenon DEF AllFit
  <2> QED
    BY <2>1, <2>2, <2>3
<1> QED
  BY <1>4, <1>7 DEF q, r

-----------------------------------------------------------------------------
(* The decoder follows the encoder.                                        *)

\* The decoder has still to read what is written for T, and can follow; the stream has it.
Following(T) == T \in Seq(Todo) /\ AllFit(T) /\ Midway(T)
Decoding(T) == Following(T) /\ Writes(T, stream)
GoesOn == Ended' \/ \E T : Decoding(T)'

\* What is next in w, which is written for T, is what is written for its first object alone.
Upcoming(T, w, chunks, s) ==
  /\ s \in Seq(Chunks) /\ w = chunks \o s /\ Writes(RestOf(Head(T)[2]) \o Tail(T), s)
  /\ chunks = Encoding(Head(T)[1], Head(T)[2]).chunks
  /\ ReadsAs(Head(T)[1], chunks, Head(T)[2])

LEMMA NextUpcoming ==
  ASSUME NEW T \in Seq(Todo), T # <<>>, AllFit(T), NEW w, Writes(T, w)
  PROVE  \E chunks, s : Upcoming(T, w, chunks, s)
<1> DEFINE t == Head(T)
           ctx == t[1]
           o == t[2]
           e == Encoding(ctx, o)
           chunks == e.chunks
<1>1. Fit(t) /\ t \in Todo
  BY FirstFit
<1>2. InContext(ctx, o) /\ InOpcode(ctx, o)
  BY <1>1, FollowedIs, Zenon DEF Fit
<1>3. e.ok /\ \E s \in Seq(Chunks) : w = chunks \o s /\ Writes(e.rest \o Tail(T), s)
  BY WritesNext
<1>4. e.rest = RestOf(o)
  <2>1. ctx \in Contexts /\ o \in Objects /\ o[1] \in EncodableTypes[ctx]
    BY <1>2, <1>3, EncodedIfOpcode DEF InContext
  <2> QED
    BY <1>3, <2>1, RestIs
<1>5. ReadsAs(ctx, chunks, o)
  BY <1>2, <1>3, WrittenIsRead
<1>6. PICK s \in Seq(Chunks) : w = chunks \o s /\ Writes(e.rest \o Tail(T), s)
  BY <1>3
<1>7. Writes(RestOf(o) \o Tail(T), s)
  BY <1>4, <1>6
<1>8. Upcoming(T, w, chunks, s)
  BY <1>5, <1>6, <1>7 DEF Upcoming
<1> QED
  BY <1>8, Zenon

\* A value has been read.
LEMMA ValueArrives ==
  ASSUME IInv, Reading, sent \in Inputs, NEW T, Following(T), T # <<>>,
         Deliver(ValueRead(stack, Head(T)[2]), stack), Untouched
  PROVE  Complete' \/ Following(Tail(T))'
<1> DEFINE t == Head(T)
           U == Tail(T)
<1>1. t \in Todo /\ U \in Seq(Todo) /\ AllFit(U) /\ T = <<t>> \o U
  BY FirstFit DEF Following
<1>2. /\ phase = "decode" /\ status = "running" /\ Awaits(stack, T, Left) /\ GotFirst
      /\ entry = "decodeMessage" => got = <<>>
  BY DEF Following, Midway
<1>3. /\ IsStack(stack) /\ (stack # <<>> => ~Full(Head(stack))) /\ entry \in Entries
      /\ UNCHANGED <<sent, entry, cut>>
  BY DEF IInv, Outcome, Data, Reading, Untouched
<1>4. Awaits(stack, <<t>> \o U, Left) /\ Deliver(ValueRead(stack, t[2]), stack)
  BY <1>1, <1>2
<1> HIDE DEF t, U
<1>5. Midway(U)' \/ Complete'
  BY <1>1, <1>2, <1>3, <1>4, Arrives
<1>6. Midway(U)' => Following(U)'
  BY <1>1, Zenon DEF Following
<1> QED
  BY <1>5, <1>6, Zenon DEF U

LEMMA NotMade ==
  ASSUME NEW o \in Objects, Received[o][1] \notin FramedTypes
  PROVE  RestOf(o) = <<>> /\ ~Framed(o)
<1>1. o[1] \notin {"list", "slice", "map"} \union BodyTypes
  BY ReceivedFacts, TypeSets DEF TypeRead, FramedTypes
<1>2. RestOf(o) = <<>>
  BY <1>1, RestByType
<1> QED
  BY <1>1, <1>2 DEF Framed

\* The decoder reads a value, or opens an object.
LEMMA ReadsOne ==
  ASSUME IInv, Reading, Decoder, sent \in Inputs, NEW T, Following(T), T # <<>>,
         NEW chunks, NEW s, Ahead(chunks, s), chunks = Encoding(Head(T)[1], Head(T)[2]).chunks,
         ReadsAs(Head(T)[1], chunks, Head(T)[2])
  PROVE  stream' = s /\ Untouched /\ (Complete' \/ Following(RestOf(Head(T)[2]) \o Tail(T))')
<1> DEFINE t == Head(T)
           U == Tail(T)
           o == t[2]
<1>1. /\ T \in Seq(Todo) /\ AllFit(T)
      /\ phase = "decode" /\ status = "running" /\ Awaits(stack, T, Left) /\ GotFirst
      /\ entry = "decodeMessage" => got = <<>>
  BY DEF Following, Midway
<1>2. Fit(t) /\ t \in Todo /\ U \in Seq(Todo) /\ AllFit(U) /\ T = <<t>> \o U /\ o \in Objects
  <2>1. Fit(t) /\ t \in Todo /\ U \in Seq(Todo) /\ AllFit(U) /\ T = <<t>> \o U
    BY <1>1, FirstFit
  <2> QED
    BY <2>1 DEF Todo
<1>4. /\ Ahead(chunks, s)
      /\ chunks = Encoding(t[1], o).chunks
      /\ ReadsAs(t[1], chunks, o)
  OBVIOUS
<1>5. ASSUME RestOf(o) = <<>>, Deliver(ValueRead(stack, o), stack), stream' = s, Untouched
      PROVE  stream' = s /\ Untouched /\ (Complete' \/ Following(RestOf(o) \o U)')
  <2>1. <<>> \o U = U
    BY <1>2, ConcatEmpty, Zenon
  <2>2. Complete' \/ Following(U)'
    BY <1>5, ValueArrives
  <2> QED
    BY <1>5, <2>1, <2>2, Zenon
<1>6. AsWritten(t) \/ AsTrue(t)
  BY <1>1, ReadHere
<1>7. CASE AsTrue(t)
  <2>1. /\ Context = "global" /\ t[1] = "uis" /\ o = <<"string", 0>>
        /\ ValueRead(stack, o) = <<"bool", TRUE>>
    BY <1>7, Zenon DEF AsTrue
  <2>2. ReadScalarly(Context, chunks, <<"bool", TRUE>>)
    BY <1>4, <2>1, EmptyTextRead
  <2>3. Deliver(ValueRead(stack, o), stack) /\ stream' = s /\ Untouched
    BY <1>4, <2>1, <2>2, ValueStep, Zenon
  <2>4. RestOf(o) = <<>>
    <3>1. o[1] = "string"
      BY <2>1
    <3>2. "string" \notin {"list", "slice", "map"} \union BodyTypes
      BY TypeSets
    <3> QED
      BY <3>1, <3>2, RestByType
  <2> QED
    BY <1>5, <2>3, <2>4
<1>8. CASE AsWritten(t)
  <2>1. Context = t[1] /\ ValueRead(stack, o) = Received[o]
    BY <1>8, Zenon DEF AsWritten
  <2>2. CASE ReadScalarly(t[1], chunks, Received[o]) \/ ReadWithContent(t[1], chunks, Received[o])
    <3>1. Deliver(ValueRead(stack, o), stack) /\ stream' = s /\ Untouched /\ Received[o][1] \notin FramedTypes
      BY <1>4, <2>1, <2>2, ValueStep, Zenon
    <3> QED
      BY <1>2, <1>5, <3>1, NotMade
  <2>3. CASE ReadAsObject(t[1], chunks, o)
    <3>1. ReadAsObject(Context, chunks, o)
      BY <2>1, <2>3
    <3>2. PICK f : /\ stack' = <<f>> \o stack /\ Shows(f, o) /\ Remaining(f, o) = RestOf(o)
                   /\ stream' = s /\ Untouched /\ UNCHANGED <<phase, got, status>>
      BY <1>2, <1>4, <3>1, ObjectStep
    <3>3. stack' # <<>> /\ Head(stack') = f /\ Tail(stack') = stack
      <4>1. IsSeq(stack)
        BY DEF IInv, Outcome, IsStack
      <4> QED
        BY <3>2, <4>1, PushedSeq
    <3> DEFINE V == RestOf(o) \o U
    <3>4. Awaits(stack', V, Left)
      <4>1. Awaits(Tail(stack'), <<t>> \o U, Left) /\ Shows(Head(stack'), o) /\ Remaining(Head(stack'), o) = RestOf(o)
        BY <1>1, <1>2, <3>2, <3>3
      <4>2. Awaits(stack', Remaining(Head(stack'), o) \o U, Left)
        BY <1>2, <3>3, <4>1, Resumed
      <4> QED
        BY <4>1, <4>2
    <3>5. Left' = Left /\ GotFirst'
      BY <1>1, <3>2 DEF Left, Sent, GotFirst, Untouched
    <3>6. Midway(V)'
      BY <1>1, <3>2, <3>4, <3>5 DEF Midway, Untouched
    <3>7. V \in Seq(Todo) /\ AllFit(V)
      BY <1>2, PartsFit
    <3> HIDE DEF V
    <3>8. Following(V)'
      BY <3>6, <3>7, Zenon DEF Following
    <3> QED
      BY <3>2, <3>8, Zenon DEF V
  <2> QED
    BY <1>4, <2>2, <2>3, Zenon DEF ReadsAs
<1> QED
  BY <1>6, <1>7, <1>8

LEMMA ReadsNext ==
  ASSUME IInv, Reading, sent \in Inputs, NEW T, Decoding(T), T # <<>>, Decoder
  PROVE  GoesOn
<1>1. Following(T) /\ T \in Seq(Todo) /\ AllFit(T) /\ Writes(T, stream)
  BY Zenon DEF Decoding, Following
<1>2. PICK chunks, s : Upcoming(T, stream, chunks, s)
  BY <1>1, NextUpcoming, Zenon
<1> DEFINE V == RestOf(Head(T)[2]) \o Tail(T)
<1>3. /\ Ahead(chunks, s) /\ Writes(V, s)
      /\ chunks = Encoding(Head(T)[1], Head(T)[2]).chunks
      /\ ReadsAs(Head(T)[1], chunks, Head(T)[2])
  BY <1>2, Zenon DEF Upcoming, Ahead
<1>4. stream' = s /\ (Complete' \/ Following(V)')
  BY <1>1, <1>3, ReadsOne
<1> HIDE DEF V
<1>5. Complete' => Ended'
  BY DEF Complete, Ended, RoundTrip
<1>6. Following(V)' => Decoding(V)'
  BY <1>3, <1>4, Zenon DEF Decoding
<1> QED
  BY <1>4, <1>5, <1>6, Zenon DEF GoesOn

\* An object of which all is read is what was sent.
LEMMA ClosesObject ==
  ASSUME IInv, CloseObject, sent \in Inputs, NEW T, Following(T)
  PROVE  stream' = stream /\ Untouched /\ (Complete' \/ Following(T)')
<1> DEFINE f == Head(stack)
           outer == Tail(stack)
<1>1. stack # <<>> /\ Full(f) /\ UNCHANGED stream /\ Untouched /\ IsStack(stack)
  BY Zenon DEF CloseObject, IInv, Outcome
<1>2. /\ T \in Seq(Todo) /\ AllFit(T)
      /\ phase = "decode" /\ status = "running" /\ Awaits(stack, T, Left) /\ GotFirst
      /\ entry = "decodeMessage" => got = <<>>
  BY DEF Following, Midway
<1>3. /\ IsFrame(f) /\ IsStack(outer)
      /\ \A i \in DOMAIN outer : ~Full(outer[i]) /\ outer[i].type \notin Sizes
  BY <1>1, Popped, Zenon
<1>4. outer # <<>> => ~Full(Head(outer)) /\ IsFrame(Head(outer))
  <2>1. outer # <<>> => Head(outer) = outer[1] /\ 1 \in DOMAIN outer
    BY <1>3, SeqTail DEF IsStack
  <2> QED
    BY <1>3, <2>1, Popped
<1>5. PICK t, U : /\ Fit(t) /\ U \in Seq(Todo)
                  /\ Shows(f, t[2]) /\ T = Remaining(f, t[2]) \o U
                  /\ Awaits(outer, <<t>> \o U, Left)
  BY <1>1, <1>2, Inside, Zenon
<1> DEFINE o == t[2]
<1>6. t \in Todo /\ o \in Objects /\ Framed(o) /\ f.type = FrameType(o) /\ f.size = Len(RestOf(o))
  BY <1>5 DEF Fit, Shows
<1>7. T = U
  <2>1. Len(f.parts) = Len(RestOf(o)) /\ RestOf(o) \in Seq(Todo)
    BY <1>1, <1>6, RestType DEF Full
  <2>2. \A S : \A q \in Seq(S) : SubSeq(q, Len(q) + 1, Len(q)) = <<>>
    OBVIOUS
  <2>3. Remaining(f, o) = <<>>
    BY <2>1, <2>2, Zenon DEF Remaining
  <2> QED
    BY <1>5, <2>3, ConcatEmpty, Zenon
<1>8. Built(f) = Received[o]
  BY <1>1, <1>3, <1>5, BuiltReceived, ResponseText
<1>9. f.type \notin {"listSize", "mapSize"}
  BY <1>6, TypeSets DEF FrameType, Framed
<1>10. Deliver(Built(f), outer)
  BY <1>9, Zenon DEF CloseObject
<1>11. ValueRead(outer, o) = Received[o]
  <2>1. SUFFICES ASSUME outer # <<>>, Head(outer).type = "response", Len(Head(outer).parts) = 2 PROVE FALSE
    BY Zenon DEF ValueRead
  <2>2. PICK u, V, i : NextIs(outer, <<t>> \o U, Left, u, V, i)
    BY <1>4, <1>5, <2>1, NextPart, Zenon
  <2>3. Fit(u) /\ Shows(Head(outer), u[2]) /\ i = Len(Head(outer).parts) + 1 /\ Head(<<t>> \o U) = RestOf(u[2])[i]
    BY <2>2, Zenon DEF NextIs
  <2>4. u[2][1] = "response"
    BY <2>1, <2>3 DEF Shows, FrameType, Framed
  <2>5. i = 3 /\ Head(<<t>> \o U) = t
    <3>1. Head(<<t>> \o U) = t
      BY <1>5, <1>6
    <3>2. 2 + 1 = 3
      OBVIOUS
    <3> HIDE DEF outer
    <3> QED
      BY <2>1, <2>3, <3>1, <3>2, Zenon
  <2>6. t = <<"uis", <<"string", 0>> >>
    BY <2>3, <2>4, <2>5, ResponseText
  <2>7. o[1] = "string"
    BY <2>6
  <2> QED
    BY <1>6, <2>7, TypeSets DEF Framed
<1>12. entry \in Entries /\ UNCHANGED <<sent, entry, cut>>
  BY <1>1 DEF IInv, Data, Untouched
<1> HIDE DEF f, outer, o
<1>13. Deliver(ValueRead(outer, t[2]), outer)
  BY <1>8, <1>10, <1>11 DEF o
<1>14. Midway(U)' \/ Complete'
  BY <1>2, <1>3, <1>4, <1>5, <1>6, <1>12, <1>13, Arrives
<1>15. Midway(U)' => Following(T)'
  BY <1>2, <1>7, Zenon DEF Following
<1> QED
  BY <1>1, <1>14, <1>15, Zenon

\* When all that was written is read all messages are there.
LEMMA ReadsEnd ==
  ASSUME IInv, Reading, sent \in Inputs, Decoding(<<>>), Decoder
  PROVE  Ended'
<1>1. /\ Writes(<<>>, stream) /\ Awaits(stack, <<>>, Left) /\ GotFirst
      /\ entry = "decodeMessage" => got = <<>>
  BY DEF Decoding, Following, Midway
<1>2. stack = <<>>
  <2> SUFFICES ASSUME stack # <<>> PROVE FALSE
    OBVIOUS
  <2>1. IsFrame(Head(stack)) /\ ~Full(Head(stack))
    BY Popped, Zenon DEF IInv, Outcome, Reading
  <2>2. PICK u, U, i : NextIs(stack, <<>>, Left, u, U, i)
    BY <1>1, <2>1, NextPart, Zenon
  <2> QED
    BY <2>2, Zenon DEF NextIs
<1>3. stream = <<>> /\ Len(stream) = 0
  BY <1>1, WritesNothing, EmptyLen
<1>4. IsSeq(got) /\ Len(got) \in Nat /\ Len(got) <= Len(sent) /\ \A i \in 1..Len(got) : got[i] = Received[sent[i]]
  BY <1>1, SeqDomain DEF GotFirst
<1>5. Len(got) = Len(sent)
  <2>1. SubSeq(Sent, Len(got) + 1, Len(Sent)) = <<>>
    BY <1>1, <1>2, Outside DEF Left
  <2>2. Sent \in Seq(Todo) /\ Len(Sent) = Len(sent)
    BY SentIs
  <2>3. \A S : \A q \in Seq(S) : \A n \in Nat : n < Len(q) => Len(SubSeq(q, n + 1, Len(q))) = Len(q) - n
    OBVIOUS
  <2>4. Len(got) < Len(Sent) => Len(SubSeq(Sent, Len(got) + 1, Len(Sent))) = Len(Sent) - Len(got)
    BY <1>4, <2>2, <2>3, Zenon
  <2>5. Len(Sent) \in Nat
    BY <2>2
  <2> QED
    <3>1. Len(got) < Len(Sent) => Len(Sent) - Len(got) = 0
      BY <2>1, <2>4, EmptyLen, Zenon
    <3>2. \A n, m \in Nat : n <= m /\ (n < m => m - n = 0) => n = m
      OBVIOUS
    <3>3. Len(got) <= Len(Sent)
      BY <1>4, <2>2, Zenon
    <3> QED
      BY <1>4, <2>2, <2>5, <3>1, <3>2, <3>3, Zenon
<1>6. StreamEnds
  <2>1. ~IsByte(1) /\ ~OpKnown /\ ~HeaderRead /\ ~ContentRead
    BY <1>3 DEF IsByte, OpKnown, HeaderRead, ContentRead
  <2> QED
    BY <1>2, <1>3, <2>1, Zenon
    DEF Decoder, ContentTorn, UnknownOpcode, ReadScalar, ReadContent, ReadPartOfText, OpenObject, CloseObject, Misread
<1>7. Fail(TRUE) /\ Untouched
  BY <1>6, Zenon DEF StreamEnds
<1>8. ~Wrapped
  BY <1>2 DEF Wrapped
<1>9. DOMAIN sent = 1..Len(sent) /\ sent \in Seq(Objects) /\ sent' = sent /\ entry' = entry
  BY <1>7, SentIs DEF Untouched
<1> DEFINE all == [i \in DOMAIN sent |-> Received[sent[i]]]
<1>10. got = all
  <2>1. got = [i \in 1..Len(got) |-> got[i]]
    BY <1>4 DEF IsSeq
  <2> QED
    BY <1>4, <1>5, <1>9, <2>1
<1>11. Expected' = IF entry = "Decode" \/ sent = <<>> THEN all ELSE <<all[1]>>
  BY <1>9 DEF Expected
<1> HIDE DEF all
<1>12. CASE entry = "Decode"
  <2>1. phase' = "done" /\ status' = "ok" /\ got' = got
    BY <1>7, <1>8, <1>12 DEF Fail, Finish, decoderVars
  <2>2. RoundTrip'
    BY <1>9, <1>10, <1>11, <1>12, <2>1 DEF RoundTrip
  <2> QED
    BY <2>1, <2>2 DEF Ended
<1>13. CASE entry = "decodeMessage"
  <2>1. phase' = "done" /\ status' = "error" /\ got' = <<>>
    BY <1>7, <1>8, <1>13 DEF Fail, Finish
  <2>2. got = <<>> /\ sent = <<>>
    BY <1>1, <1>5, <1>9, <1>13, EmptyLen
  <2>3. RoundTrip'
    BY <1>9, <1>10, <1>11, <1>13, <2>1, <2>2 DEF RoundTrip
  <2> QED
    BY <2>1, <2>3 DEF Ended
<1> QED
  BY <1>12, <1>13, EntriesAssumption DEF IInv, Data

\* The stream and what is still to be written make what is written for all the messages;
\* then what is left of the stream is what was written for what the decoder awaits; and
\* then they are received.
AllFollowed == \A i \in DOMAIN sent : Followed[<<"global", sent[i]>>]
Faithful ==
  sent \in Inputs /\ AllFollowed /\ ~cut =>
    /\ phase \in {"encode", "carry"} => got = <<>> /\ stack = <<>> /\ status = "running"
    /\ phase = "encode" => \A s \in Seq(Chunks) : Writes(todo, s) => Writes(Sent, stream \o s)
    /\ phase = "carry" => Writes(Sent, stream)
    /\ phase = "decode" => \E T : Decoding(T)
    /\ phase = "done" => RoundTrip

LEMMA FaithfulInit == Init => Faithful
<1> SUFFICES ASSUME Init, sent \in Inputs PROVE Faithful
  BY DEF Faithful
<1>1. /\ phase = "encode" /\ status = "running" /\ got = <<>> /\ stack = <<>> /\ stream = <<>>
      /\ todo = Sent
  <2>1. \A f \in Foreign : f[2] \notin Inputs
    BY InputsAssumption
  <2> QED
    BY <2>1, Zenon DEF Init, Sent
<1>2. \A s \in Seq(Chunks) : stream \o s = s
  BY <1>1, ConcatEmpty, Zenon
<1>3. \A s \in Seq(Chunks) : Writes(todo, s) => Writes(Sent, stream \o s)
  BY <1>1, <1>2, Zenon
<1> QED
  BY <1>1, <1>3 DEF Faithful

LEMMA FaithfulEncoder ==
  ASSUME IInv, Faithful, EncodeObject
  PROVE  Faithful'
<1>1. /\ phase = "encode" /\ phase' = "encode" /\ todo # <<>>
      /\ UNCHANGED <<sent, entry, cut, stack, got, status>>
  BY DEF EncodeObject, decoderVars
<1>2. (AllFollowed' <=> AllFollowed) /\ Sent' = Sent
  BY <1>1 DEF AllFollowed, Sent
<1>3. ASSUME sent \in Inputs, AllFollowed, ~cut, NEW s \in Seq(Chunks), Writes(todo', s)
      PROVE  Writes(Sent, stream' \o s)
  <2> DEFINE t == Head(todo)
             e == Encoding(t[1], t[2])
  <2>1. e.ok /\ stream' = stream \o e.chunks /\ todo' = e.rest \o Tail(todo)
    BY Zenon DEF EncodeObject
  <2>2. stream \in Seq(Chunks) /\ t \in Todo
    BY <1>1 DEF IInv, Data
  <2>3. e.chunks \in Seq(Chunks)
    <3>1. t[1] \in Contexts /\ t[2] \in Objects
      BY <2>2 DEF Todo
    <3> HIDE DEF t
    <3> QED
      BY <2>1, <3>1, EncodingType
  <2>4. Writes(todo, e.chunks \o s)
    <3>1. Writes(e.rest \o Tail(todo), s)
      BY <1>3, <2>1
    <3> QED
      BY <1>1, <1>3, <2>1, <3>1, WritesFirst
  <2> HIDE DEF e
  <2>5. e.chunks \o s \in Seq(Chunks)
    BY <1>3, <2>3
  <2>6. Writes(Sent, stream \o (e.chunks \o s))
    BY <1>1, <1>3, <2>4, <2>5, Zenon DEF Faithful
  <2>7. (stream \o e.chunks) \o s = stream \o (e.chunks \o s)
    <3>1. \A a, b, c \in Seq(Chunks) : (a \o b) \o c = a \o (b \o c)
      BY ChunksAssoc
    <3> QED
      BY <1>3, <2>2, <2>3, <3>1, Zenon
  <2> QED
    BY <2>1, <2>6, <2>7
<1> QED
  BY <1>1, <1>2, <1>3 DEF Faithful

\* The decoder begins with all messages before it.
LEMMA Starts ==
  ASSUME sent \in Inputs, AllFollowed, got = <<>>, stack = <<>>, status = "running",
         phase' = "decode", UNCHANGED <<sent, entry, stack, got, status>>
  PROVE  Following(Sent)'
<1>1. /\ Sent \in Seq(Todo) /\ Len(Sent) = Len(sent) /\ DOMAIN sent = 1..Len(sent) /\ Len(sent) \in Nat
      /\ \A i \in 1..Len(sent) : sent[i] \in Objects /\ Sent[i] = <<"global", sent[i]>>
  BY SentIs
<1>2. AllFit(Sent)
  <2>1. DOMAIN Sent = 1..Len(sent)
    BY <1>1
  <2>2. ASSUME NEW i \in 1..Len(sent) PROVE Fit(Sent[i])
    <3>1. Sent[i] = <<"global", sent[i]>> /\ Followed[Sent[i]] /\ sent[i] \in Objects
      BY <1>1 DEF AllFollowed
    <3> QED
      BY <3>1 DEF Fit, Todo, InContext, Contexts
  <2> QED
    BY <2>1, <2>2 DEF AllFit
<1>3. Len(got) = 0 /\ Left = Sent
  <2>1. Len(got) = 0
    BY EmptyLen
  <2>2. \A S : \A q \in Seq(S) : SubSeq(q, 0 + 1, Len(q)) = q
    OBVIOUS
  <2> QED
    BY <1>1, <2>1, <2>2, Zenon DEF Left
<1>4. Awaits(stack, Sent, Left)
  BY <1>3, Outside
<1>5. GotFirst
  <2>1. IsSeq(got)
    BY EmptyIsStack DEF IsResult
  <2> QED
    BY <1>1, <1>3, <2>1 DEF GotFirst
<1>6. Sent' = Sent
  BY DEF Sent
<1>7. Left' = Left /\ GotFirst'
  BY <1>5, <1>6 DEF Left, GotFirst
<1>8. Midway(Sent)'
  BY <1>4, <1>6, <1>7 DEF Midway
<1>9. (Sent \in Seq(Todo) /\ AllFit(Sent))'
  BY <1>1, <1>2, <1>6
<1> QED
  BY <1>8, <1>9, Zenon DEF Following

\* What is carried is what was written, and the decoder begins with all of it.
LEMMA FaithfulCarried ==
  ASSUME IInv, Faithful, EncodeFails \/ Encoded \/ Carry \/ Cut
  PROVE  Faithful'
<1>1. CASE EncodeFails
  <2>1. phase' = "done" /\ status' = "unencodable"
    BY <1>1 DEF EncodeFails
  <2>2. RoundTrip'
    BY <2>1 DEF RoundTrip, Whole
  <2> QED
    BY <2>1, <2>2 DEF Faithful
<1>2. CASE Encoded
  <2>1. /\ phase = "encode" /\ todo = <<>> /\ phase' = "carry"
        /\ UNCHANGED <<sent, entry, cut, stack, got, status, stream>>
    BY <1>2 DEF Encoded, decoderVars
  <2>2. (AllFollowed' <=> AllFollowed) /\ Sent' = Sent
    BY <2>1 DEF AllFollowed, Sent
  <2>3. ASSUME sent \in Inputs, AllFollowed, ~cut PROVE Writes(Sent, stream)
    <3>1. Writes(todo, <<>>) /\ <<>> \in Seq(Chunks)
      BY <2>1, WritesNothing, EmptyType, Zenon
    <3>2. Writes(Sent, stream \o <<>>)
      BY <2>1, <2>3, <3>1, Zenon DEF Faithful
    <3>3. stream \o <<>> = stream
      BY ConcatEmpty, Zenon DEF IInv, Data
    <3> QED
      BY <3>2, <3>3
  <2> QED
    BY <2>1, <2>2, <2>3 DEF Faithful
<1>3. CASE Carry
  <2>1. /\ phase = "carry" /\ phase' = "decode"
        /\ UNCHANGED <<sent, entry, todo, stream, cut, stack, got, status>>
    BY <1>3 DEF Carry, decoderVars
  <2>2. (AllFollowed' <=> AllFollowed) /\ Sent' = Sent
    BY <2>1 DEF AllFollowed, Sent
  <2>3. ASSUME sent \in Inputs, AllFollowed, ~cut PROVE Decoding(Sent)'
    <3>1. got = <<>> /\ stack = <<>> /\ status = "running" /\ Writes(Sent, stream)
      BY <2>1, <2>3 DEF Faithful
    <3>2. Following(Sent)'
      BY <2>1, <2>3, <3>1, Starts
    <3>3. Writes(Sent', stream')
      BY <2>1, <2>2, <3>1
    <3> QED
      BY <3>2, <3>3, Zenon DEF Decoding
  <2>4. (\E T : Decoding(T))' \/ ~(sent \in Inputs /\ AllFollowed /\ ~cut)
    BY <2>3, Zenon
  <2> QED
    BY <2>1, <2>2, <2>4 DEF Faithful
<1>4. CASE Cut
  <2>1. cut' = TRUE
    BY <1>4 DEF Cut
  <2> QED
    BY <2>1 DEF Faithful
<1> QED
  BY <1>1, <1>2, <1>3, <1>4

LEMMA FaithfulDecoder ==
  ASSUME IInv, Faithful, Decoder
  PROVE  Faithful'
<1>1. phase = "decode" /\ sent' = sent /\ cut' = cut
  <2>1. phase = "decode" /\ sent' = sent
    BY DecoderGoes
  <2>2. cut' = cut
    BY Zenon DEF Decoder, StreamEnds, ContentTorn, UnknownOpcode, ReadScalar, ReadContent, ReadPartOfText,
                 OpenObject, CloseObject, Misread, Untouched
  <2> QED
    BY <2>1, <2>2
<1>2. AllFollowed' <=> AllFollowed
  BY <1>1 DEF AllFollowed
<1>3. ASSUME sent \in Inputs, AllFollowed, ~cut PROVE GoesOn
  <2>1. PICK T : Decoding(T)
    BY <1>1, <1>3, Zenon DEF Faithful
  <2>2. CASE CloseObject
    <3>1. Following(T) /\ Writes(T, stream)
      BY <2>1, Zenon DEF Decoding
    <3>2. stream' = stream /\ (Complete' \/ Following(T)')
      BY <1>3, <2>2, <3>1, ClosesObject
    <3>3. Complete' => Ended'
      BY DEF Complete, Ended, RoundTrip
    <3>4. Following(T)' => Decoding(T)'
      BY <3>1, <3>2, Zenon DEF Decoding
    <3> QED
      BY <3>2, <3>3, <3>4, Zenon DEF GoesOn
  <2>3. CASE Reading /\ T # <<>>
    BY <1>3, <2>1, <2>3, ReadsNext
  <2>4. CASE Reading /\ T = <<>>
    <3>1. Decoding(<<>>)
      BY <2>1, <2>4
    <3>2. Ended'
      BY <1>3, <2>4, <3>1, ReadsEnd
    <3> QED
      BY <3>2, Zenon DEF GoesOn
  <2>5. Reading \/ CloseObject
    BY Zenon DEF Decoder, StreamEnds, ContentTorn, UnknownOpcode, ReadScalar, ReadContent, ReadPartOfText,
                 OpenObject, Misread
  <2> QED
    BY <2>2, <2>3, <2>4, <2>5
<1>4. Ended' => phase' = "done" /\ RoundTrip'
  BY DEF Ended
<1>5. ASSUME NEW T, Decoding(T)' PROVE phase' = "decode" /\ (\E V : Decoding(V))'
  <2>1. phase' = "decode"
    BY <1>5 DEF Decoding, Following, Midway
  <2> QED
    BY <1>5, <2>1, Zenon
<1>6. sent \in Inputs /\ AllFollowed /\ ~cut =>
        (phase' = "done" /\ RoundTrip') \/ (phase' = "decode" /\ (\E V : Decoding(V))')
  BY <1>3, <1>4, <1>5, Zenon DEF GoesOn
<1> QED
  BY <1>1, <1>2, <1>6 DEF Faithful

LEMMA FaithfulStep == IInv /\ Faithful /\ [Next]_vars => Faithful'
<1> SUFFICES ASSUME IInv, Faithful, [Next]_vars PROVE Faithful'
  OBVIOUS
<1>1. CASE EncodeObject
  BY <1>1, FaithfulEncoder
<1>2. CASE EncodeFails \/ Encoded \/ Carry \/ Cut
  BY <1>2, FaithfulCarried
<1>3. CASE Decoder
  BY <1>3, FaithfulDecoder
<1>4. CASE UNCHANGED vars
  BY <1>4 DEF vars, Faithful, AllFollowed, Sent, Decoding, Following, Midway, Left, GotFirst, RoundTrip, Whole, Expected
<1> QED
  BY <1>1, <1>2, <1>3, <1>4, Zenon DEF Next, Encoder, Done

\* Whatever messages are encoded together, whatever is nested in them how deep, and whichever
\* way they are read: when the decoder follows the encoder in all that they are made of and
\* nothing of the stream is missing, what comes out is what was sent, in order
\* (bysant_encoder.go:29-580, bysant_decoder.go:22-690).  What comes from another encoder
\* is left to the runs.
THEOREM SentIsReceived == Spec => [](sent \in Inputs => RoundTrip)
<1>1. Init => IInv /\ Faithful
  BY Begin, FaithfulInit
<1>2. IInv /\ Faithful /\ [Next]_vars => (IInv /\ Faithful)'
  BY Step, FaithfulStep
<1>3. Faithful => (sent \in Inputs => RoundTrip)
  BY Zenon DEF Faithful, RoundTrip, Whole, AllFollowed
<1> QED
  BY <1>1, <1>2, <1>3, PTL DEF Spec

-----------------------------------------------------------------------------
(* A stream that was cut.                                                  *)

\* The chunks s are the first ones of w, the last of them perhaps torn.
SameChunk(s, w, i) == s[i] = w[i] \/ (i = Len(s) /\ s[i] = Torn /\ w[i][1] # "byte")
Begins(s, w) ==
  /\ s \in Seq(Chunks) /\ w \in Seq(Chunks) /\ Len(s) <= Len(w)
  /\ \A i \in 1..Len(s) : SameChunk(s, w, i)

LEMMA CutBegins ==
  ASSUME stream \in Seq(Chunks), Cut
  PROVE  Begins(stream', stream)
<1>1. PICK k \in 0..(Len(stream) - 1) :
        stream' \in {SubSeq(stream, 1, k)}
                      \union (IF stream[k + 1][1] = "byte" \/ stream[k + 1] = <<"text", 1>> THEN {}
                              ELSE {Append(SubSeq(stream, 1, k), Torn)})
  BY DEF Cut
<1> DEFINE q == SubSeq(stream, 1, k)
<1>2. Len(stream) \in Nat /\ k \in Nat /\ k + 1 <= Len(stream)
  OBVIOUS
<1>3. q \in Seq(Chunks) /\ Len(q) = k /\ \A i \in 1..k : q[i] = stream[i]
  OBVIOUS
<1> HIDE DEF q
<1>4. CASE stream' = q
  <2>1. \A i \in 1..Len(q) : SameChunk(q, stream, i)
    BY <1>3, Zenon DEF SameChunk
  <2>2. Len(q) <= Len(stream)
    BY <1>2, <1>3
  <2> QED
    BY <1>3, <1>4, <2>1, <2>2 DEF Begins
<1>5. CASE stream' = Append(q, Torn) /\ stream[k + 1][1] # "byte"
  <2> DEFINE r == Append(q, Torn)
  <2>1. Torn \in Chunks
    BY DEF Chunks
  <2>2. /\ r \in Seq(Chunks) /\ Len(r) = k + 1 /\ r[k + 1] = Torn
        /\ \A i \in 1..k : r[i] = q[i]
    BY <1>2, <1>3, <2>1
  <2> HIDE DEF r
  <2>3. \A i \in 1..(k + 1) : i \in 1..k \/ i = k + 1
    BY <1>2
  <2>4. \A i \in 1..Len(r) : SameChunk(r, stream, i)
    BY <1>3, <1>5, <2>2, <2>3, Zenon DEF SameChunk
  <2>5. Len(r) <= Len(stream)
    BY <1>2, <2>2
  <2> QED
    BY <1>5, <2>2, <2>4, <2>5 DEF Begins, r
<1> QED
  BY <1>1, <1>4, <1>5 DEF q

\* What a beginning has after the first chunks is a beginning of what there is after them.
LEMMA BeginsAfter ==
  ASSUME NEW a \in Seq(Chunks), NEW q \in Seq(Chunks), NEW x, Begins(x, a \o q),
         Len(a) <= Len(x), \A i \in 1..Len(a) : x[i] = a[i]
  PROVE  \E s \in Seq(Chunks) : x = a \o s /\ Begins(s, q)
<1> DEFINE w == a \o q
           n == Len(a)
           s == SubSeq(x, n + 1, Len(x))
           v == a \o s
<1>1. x \in Seq(Chunks) /\ Len(x) <= Len(w) /\ \A i \in 1..Len(x) : SameChunk(x, w, i)
  BY DEF Begins
<1>2. /\ n \in Nat /\ Len(q) \in Nat /\ Len(x) \in Nat /\ Len(w) = n + Len(q)
      /\ \A i \in 1..Len(q) : w[n + i] = q[i]
  <2>1. Len(w) = Len(a) + Len(q) /\ \A i \in 1..Len(q) : w[Len(a) + i] = q[i]
    BY ConcatElems
  <2> QED
    BY <1>1, <2>1
<1> HIDE DEF w
<1>3. /\ s \in Seq(Chunks) /\ Len(s) = Len(x) - n
      /\ \A i \in 1..(Len(x) - n) : s[i] = x[n + i]
  <2>1. \A y \in Seq(Chunks) : \A k \in Nat : k <= Len(y) =>
          /\ SubSeq(y, k + 1, Len(y)) \in Seq(Chunks)
          /\ Len(SubSeq(y, k + 1, Len(y))) = Len(y) - k
          /\ \A i \in 1..(Len(y) - k) : SubSeq(y, k + 1, Len(y))[i] = y[k + i]
    OBVIOUS
  <2> QED
    BY <1>1, <1>2, <2>1, Zenon
<1> HIDE DEF s
<1>4. /\ v \in Seq(Chunks) /\ Len(v) = n + Len(s)
      /\ \A i \in 1..n : v[i] = a[i]
      /\ \A i \in 1..Len(s) : v[n + i] = s[i]
  BY <1>3, ConcatElems
<1> HIDE DEF v, n
<1>5. \A i \in 1..Len(x) : i \in 1..n \/ \E j \in 1..Len(s) : i = n + j
  <2> SUFFICES ASSUME NEW i \in 1..Len(x), i \notin 1..n PROVE \E j \in 1..Len(s) : i = n + j
    OBVIOUS
  <2>1. i - n \in 1..Len(s) /\ i = n + (i - n)
    BY <1>2, <1>3
  <2> QED
    BY <2>1
<1>6. \A i \in 1..Len(x) : x[i] = v[i]
  <2>1. \A i \in 1..n : x[i] = a[i]
    BY DEF n
  <2>2. \A j \in 1..Len(s) : x[n + j] = s[j]
    BY <1>3
  <2>3. ASSUME NEW i \in 1..n PROVE x[i] = v[i]
    BY <1>4, <2>1, Zenon
  <2>4. ASSUME NEW j \in 1..Len(s) PROVE x[n + j] = v[n + j]
    BY <1>4, <2>2, Zenon
  <2> QED
    BY <1>5, <2>3, <2>4, Zenon
<1>7. Len(x) = Len(v)
  BY <1>2, <1>3, <1>4
<1>8. x = v
  BY <1>1, <1>4, <1>6, <1>7, SameElements, Zenon
<1>9. Len(s) <= Len(q)
  BY <1>1, <1>2, <1>3
<1>10. ASSUME NEW i \in 1..Len(s) PROVE SameChunk(s, q, i)
  <2>1. n + i \in 1..Len(x) /\ (n + i = Len(x) => i = Len(s)) /\ i \in 1..Len(q) /\ i \in 1..(Len(x) - n)
    BY <1>2, <1>3, <1>9
  <2>2. SameChunk(x, w, n + i) /\ s[i] = x[n + i] /\ w[n + i] = q[i]
    BY <1>1, <1>2, <1>3, <2>1
  <2> QED
    BY <2>1, <2>2, Zenon DEF SameChunk
<1>11. Begins(s, q)
  BY <1>3, <1>9, <1>10 DEF Begins
<1> QED
  BY <1>3, <1>8, <1>11 DEF v

\* Where the chunks stop in what is read next the decoder has nothing to go on with.
LEMMA HeaderStops ==
  ASSUME Context \in Contexts, Reading, Decoder, stream # <<>>,
         NEW bytes, Heads(Context, bytes), NEW q \in Seq(Chunks), Begins(stream, Bytes(bytes) \o q),
         Len(stream) < Len(bytes)
  PROVE  StreamEnds
<1> DEFINE h == Bytes(bytes)
           w == h \o q
           n == Len(bytes)
<1>1. /\ bytes \in Seq(0..255) /\ Known(Context, bytes[1]) /\ n \in Nat
      /\ n = 1 + RuleOf(Context, bytes[1]).width
  BY DEF Heads
<1>2. h \in Seq(Chunks) /\ Len(h) = n /\ \A i \in 1..n : h[i] = Byte(bytes[i])
  BY <1>1, BytesType DEF Bytes
<1>3. \A i \in 1..n : w[i] = Byte(bytes[i])
  <2>1. \A i \in 1..Len(h) : w[i] = h[i]
    BY <1>2, ConcatElems
  <2> QED
    BY <1>2, <2>1
<1> HIDE DEF w, h
<1>4. Len(stream) \in Nat /\ Len(stream) > 0 /\ Len(stream) < n /\ \A i \in 1..Len(stream) : SameChunk(stream, w, i)
  <2>1. stream \in Seq(Chunks) /\ \A i \in 1..Len(stream) : SameChunk(stream, w, i)
    BY DEF Begins, w, h
  <2>2. Len(stream) \in Nat /\ Len(stream) > 0
    BY <2>1
  <2> QED
    BY <2>1, <2>2
<1>5. ASSUME NEW i \in 1..Len(stream) PROVE IsByte(i) /\ stream[i] = Byte(bytes[i])
  <2>1. w[i] = Byte(bytes[i]) /\ Len(stream) >= i
    BY <1>1, <1>3, <1>4
  <2>2. Byte(bytes[i])[1] = "byte"
    BY DEF Byte
  <2>3. stream[i] = Byte(bytes[i])
    BY <1>4, <2>1, <2>2, Zenon DEF SameChunk
  <2> QED
    BY <2>1, <2>2, <2>3, Zenon DEF IsByte
<1>6. 1 \in 1..Len(stream)
  BY <1>4
<1>7. Op = bytes[1] /\ OpRule = RuleOf(Context, bytes[1]) /\ OpKnown /\ HeaderLength = n
  <2>1. Op = bytes[1] /\ IsByte(1)
    BY <1>5, <1>6 DEF Op, Byte
  <2>2. OpRule = RuleOf(Context, bytes[1])
    BY <2>1, Zenon DEF OpRule
  <2> QED
    BY <1>1, <2>1, <2>2, Zenon DEF OpKnown, HeaderLength
<1>8. ~HeaderRead
  <2>1. n \in 1..n /\ ~(Len(stream) >= n)
    BY <1>4, <1>6
  <2>2. ~IsByte(n)
    BY <2>1, Zenon DEF IsByte
  <2> QED
    BY <1>7, <2>1, <2>2, Zenon DEF HeaderRead, HasBytes
<1>9. ~ContentRead
  BY <1>8, Zenon DEF ContentRead
<1>10. ~Misread
  <2>1. ~\E i \in 2..HeaderLength : Len(stream) >= i /\ ~IsByte(i)
    <3>1. \A i \in 2..n : Len(stream) >= i => i \in 1..Len(stream)
      BY <1>1, <1>4
    <3> QED
      BY <1>5, <1>7, <3>1, Zenon
  <2> QED
    BY <1>5, <1>6, <1>9, <2>1, Zenon DEF Misread
<1> QED
  BY <1>7, <1>8, <1>9, <1>10, Zenon
  DEF Decoder, ContentTorn, UnknownOpcode, ReadScalar, ReadContent, ReadPartOfText, OpenObject, CloseObject, Reading

\* The content that a header announces is not there, or not all of it.
LEMMA ContentStops ==
  ASSUME Context \in Contexts, Reading, Decoder,
         NEW bytes, Heads(Context, bytes), NEW c, NEW v, HasValue(Context, bytes, c, v),
         NEW s, s \in {<<>>, <<Torn>>}, HeaderIs(bytes, s)
  PROVE  StreamEnds \/ ContentTorn
<1>1. /\ OpRule = HeaderOf(Context, bytes) /\ Size = NumberOf(Context, bytes)
      /\ HeaderRead /\ HeaderLength \in Nat /\ Len(stream) = HeaderLength + Len(s)
      /\ \A i \in 1..Len(s) : stream[HeaderLength + i] = s[i]
  BY DEF HeaderIs
<1>2. /\ HasContent
      /\ OpRule.content \notin {"none", "text"} => OpRule.type = OpRule.content
      /\ OpRule.content \in {"none", "text"} => OpRule.type = "string"
  BY <1>1, Zenon DEF HasValue, HasContent
<1>3. RowType(Context, OpRule)
  <2>1. Known(Context, bytes[1])
    BY Zenon DEF Heads
  <2> QED
    BY <1>1, <2>1, KnownRow, Zenon DEF HeaderOf
<1>4. OpRule.content \in {"none", "text", "int32", "int64", "uint32", "float32", "float64"}
  BY <1>3, Zenon DEF RowType
<1>5. OpRule.type \notin Containers \union BodyTypes
  BY <1>2, <1>4 DEF Containers, BodyTypes, DecodeFrom
<1>6. CASE s = <<>>
  <2>1. Len(stream) = HeaderLength
    BY <1>1, <1>6, EmptyLen
  <2>2. ~ContentRead
    BY <1>1, <2>1 DEF ContentRead
  <2> QED
    BY <1>2, <1>5, <2>2, HeaderExcludes, Zenon
    DEF Decoder, ContentTorn, ReadScalar, ReadContent, ReadPartOfText, OpenObject
<1>7. CASE s = <<Torn>>
  <2>1. Content = Torn
    <3>1. Len(s) = 1 /\ s[1] = Torn /\ 1 \in 1..Len(s)
      BY <1>7
    <3> QED
      BY <1>1, <3>1, Zenon DEF Content
  <2>2. Torn[1] = "torn" /\ \A n : Torn # <<"text", n>>
    BY DEF Torn
  <2>3. ~ContentFits /\ ~TextLonger
    <3>1. Content[1] = "torn" /\ OpRule.content # "torn" /\ Content # <<"text", Size>>
      BY <1>4, <2>1, <2>2
    <3>2. Content[1] # "text"
      BY <3>1
    <3> QED
      BY <3>1, <3>2, Zenon DEF ContentFits, TextLonger
  <2> QED
    BY <1>2, <1>5, <2>1, <2>3, HeaderExcludes, Zenon
    DEF Decoder, ContentTorn, ReadScalar, ReadContent, ReadPartOfText, OpenObject
<1> QED
  BY <1>6, <1>7

\* What the decoder is about to read begins with a header of its context.
HeaderHere(bytes, chunks) ==
  /\ Heads(Context, bytes)
  /\ \/ chunks = Bytes(bytes)
     \/ \E c \in Chunks : /\ chunks = Bytes(bytes) \o <<c>>
                         /\ \E v : HasValue(Context, bytes, c, v)

LEMMA HeaderFirst ==
  ASSUME IInv, Reading, sent \in Inputs, NEW T, Following(T), T # <<>>,
         NEW chunks, chunks = Encoding(Head(T)[1], Head(T)[2]).chunks,
         ReadsAs(Head(T)[1], chunks, Head(T)[2])
  PROVE  \E bytes : HeaderHere(bytes, chunks)
<1> DEFINE t == Head(T)
           o == t[2]
<1>1. T \in Seq(Todo) /\ Awaits(stack, T, Left) /\ GotFirst
  BY DEF Following, Midway
<1>2. AsWritten(t) \/ AsTrue(t)
  BY <1>1, ReadHere
<1>3. CASE AsTrue(t)
  <2>1. Context = "global" /\ t[1] = "uis" /\ o = <<"string", 0>>
    BY <1>3, Zenon DEF AsTrue
  <2>2. ReadScalarly(Context, chunks, <<"bool", TRUE>>)
    BY <2>1, EmptyTextRead
  <2> HIDE DEF o
  <2> QED
    BY <2>2, Zenon DEF ReadScalarly, HeaderHere
<1>4. CASE AsWritten(t)
  <2>1. Context = t[1]
    BY <1>4, Zenon DEF AsWritten
  <2>2. ReadsAs(Context, chunks, o)
    BY <2>1
  <2> HIDE DEF o
  <2> QED
    BY <2>2, Zenon DEF ReadsAs, ReadScalarly, ReadWithContent, ReadAsObject, HeaderHere
<1> QED
  BY <1>2, <1>3, <1>4

\* Of what is next in the stream all is there, or the decoder stops in it.
LEMMA ThereOrStops ==
  ASSUME Context \in Contexts, Reading, Decoder, stream # <<>>,
         NEW chunks, NEW bytes, HeaderHere(bytes, chunks), NEW q \in Seq(Chunks), Begins(stream, chunks \o q)
  PROVE  StreamEnds \/ ContentTorn \/ \E s : Ahead(chunks, s) /\ Begins(s, q)
<1> DEFINE h == Bytes(bytes)
           n == Len(bytes)
<1>1. Heads(Context, bytes) /\ bytes \in Seq(0..255) /\ n \in Nat
  <2>1. Heads(Context, bytes) /\ bytes \in Seq(0..255)
    BY Zenon DEF HeaderHere, Heads
  <2> QED
    BY <2>1
<1>2. h \in Seq(Chunks) /\ Len(h) = n /\ \A i \in 1..n : h[i] = Byte(bytes[i])
  BY <1>1, BytesType DEF Bytes
<1>3. stream \in Seq(Chunks) /\ Len(stream) \in Nat
  BY DEF Begins
<1> HIDE DEF h, n
<1>4. \A r \in Seq(Chunks) : Begins(stream, h \o r) /\ ~(Len(stream) < n) =>
        \E s \in Seq(Chunks) : stream = h \o s /\ Begins(s, r)
  <2> SUFFICES ASSUME NEW r \in Seq(Chunks), Begins(stream, h \o r), ~(Len(stream) < n)
               PROVE  \E s \in Seq(Chunks) : stream = h \o s /\ Begins(s, r)
    OBVIOUS
  <2> DEFINE w == h \o r
  <2>1. Len(h) <= Len(stream) /\ \A i \in 1..n : i \in 1..Len(stream)
    BY <1>1, <1>2, <1>3 DEF n
  <2>2. \A i \in 1..n : SameChunk(stream, w, i)
    BY <2>1, Zenon DEF Begins
  <2>3. \A i \in 1..n : w[i] = h[i]
    <3>1. \A i \in 1..Len(h) : w[i] = h[i]
      BY <1>2, ConcatElems
    <3> QED
      BY <1>2, <3>1
  <2>4. \A i \in 1..n : h[i][1] = "byte"
    BY <1>2 DEF Byte
  <2> HIDE DEF w
  <2>5. \A i \in 1..Len(h) : stream[i] = h[i]
    BY <1>2, <2>2, <2>3, <2>4, Zenon DEF SameChunk
  <2> QED
    BY <1>2, <2>1, <2>5, BeginsAfter
<1>5. CASE chunks = h
  <2>1. CASE Len(stream) < n
    <3>1. Begins(stream, Bytes(bytes) \o q) /\ Len(stream) < Len(bytes)
      BY <1>5, <2>1 DEF h, n
    <3> QED
      BY <1>1, <3>1, HeaderStops
  <2>2. CASE ~(Len(stream) < n)
    BY <1>4, <1>5, <2>2, Zenon DEF Ahead
  <2> QED
    BY <2>1, <2>2
<1>6. CASE \E c \in Chunks : chunks = h \o <<c>> /\ \E v : HasValue(Context, bytes, c, v)
  <2>0. PICK c \in Chunks : chunks = h \o <<c>> /\ \E v : HasValue(Context, bytes, c, v)
    BY <1>6
  <2>1. PICK v : chunks = h \o <<c>> /\ HasValue(Context, bytes, c, v)
    BY <2>0
  <2> DEFINE r == <<c>> \o q
  <2>2. <<c>> \in Seq(Chunks) /\ r \in Seq(Chunks)
    BY <2>1
  <2>3. (h \o <<c>>) \o q = h \o r
    BY <1>2, <2>2, ChunksAssoc, Zenon
  <2>4. Begins(stream, h \o r)
    BY <2>1, <2>3
  <2>5. Len(r) = 1 + Len(q) /\ r[1] = c
    BY ConsElems
  <2> HIDE DEF r
  <2>6. CASE Len(stream) < n
    <3>1. Begins(stream, Bytes(bytes) \o r) /\ Len(stream) < Len(bytes)
      BY <2>4, <2>6 DEF h, n
    <3> QED
      BY <1>1, <2>2, <3>1, HeaderStops
  <2>7. CASE ~(Len(stream) < n)
    <3>1. PICK s \in Seq(Chunks) : stream = h \o s /\ Begins(s, r)
      BY <1>4, <2>2, <2>4, <2>7, Zenon
    <3>2. HeaderIs(bytes, s)
      <4>1. stream = Bytes(bytes) \o s
        BY <3>1 DEF h
      <4> QED
        BY <1>1, <4>1, HeaderInStream
    <3>3. CASE s = <<>>
      <4>1. s \in {<<>>, <<Torn>>}
        BY <3>3
      <4> QED
        BY <1>1, <2>1, <3>2, <4>1, ContentStops
    <3>4. CASE s # <<>>
      <4>1. Len(s) \in Nat /\ 1 \in 1..Len(s)
        BY <3>4
      <4>2. SameChunk(s, r, 1)
        BY <3>1, <4>1, Zenon DEF Begins
      <4>3. CASE 1 = Len(s) /\ s[1] = Torn
        <5>1. s = <<s[1]>>
          BY <4>3
        <5>2. s \in {<<>>, <<Torn>>}
          BY <4>3, <5>1
        <5> QED
          BY <1>1, <2>1, <3>2, <5>2, ContentStops
      <4>4. CASE s[1] = c
        <5> DEFINE a == <<c>>
        <5>1. Len(a) = 1 /\ a[1] = c /\ \A i \in 1..1 : i = 1
          OBVIOUS
        <5>2. a \in Seq(Chunks) /\ Begins(s, a \o q)
          BY <2>2, <3>1 DEF r
        <5> HIDE DEF a
        <5>3. Len(a) <= Len(s) /\ \A i \in 1..Len(a) : s[i] = a[i]
          BY <4>1, <4>4, <5>1
        <5>4. PICK u \in Seq(Chunks) : s = a \o u /\ Begins(u, q)
          BY <5>2, <5>3, BeginsAfter
        <5>5. (h \o a) \o u = h \o (a \o u)
          <6>1. h \in Seq(Chunks) /\ a \in Seq(Chunks) /\ u \in Seq(Chunks)
            BY <1>2, <5>2, <5>4, Zenon
          <6> HIDE DEF h
          <6> DEFINE Same(x, y, z) == (x \o y) \o z = x \o (y \o z)
          <6>2. \A x, y, z \in Seq(Chunks) : Same(x, y, z)
            BY ChunksAssoc
          <6> HIDE DEF Same
          <6>3. Same(h, a, u)
            BY <6>1, <6>2, Zenon
          <6> QED
            BY <6>3 DEF Same
        <5>6. stream = chunks \o u
          BY <2>1, <3>1, <5>4, <5>5 DEF a
        <5> QED
          BY <5>4, <5>6, Zenon DEF Ahead
      <4> QED
        BY <2>5, <4>2, <4>3, <4>4, Zenon DEF SameChunk
    <3> QED
      BY <3>3, <3>4
  <2> QED
    BY <2>6, <2>7
<1> QED
  BY <1>5, <1>6, Zenon DEF HeaderHere, h

\* The stream has a beginning of what is written for T, and the decoder is about to read it.
DecodingCut(T) == Following(T) /\ \E w : Writes(T, w) /\ Begins(stream, w)

\* What is returned is the first of what is expected.
LEMMA FirstExpected ==
  ASSUME sent \in Inputs
  PROVE  /\ Expected = SubSeq(Expected, 1, Len(Expected)) \/ (entry # "Decode" /\ sent = <<>>)
         /\ entry = "Decode" /\ GotFirst => got = SubSeq(Expected, 1, Len(got))
<1> DEFINE all == [i \in DOMAIN sent |-> Received[sent[i]]]
           V == {Received[o] : o \in Objects}
<1>1. DOMAIN sent = 1..Len(sent) /\ Len(sent) \in Nat /\ \A i \in 1..Len(sent) : sent[i] \in Objects
  BY SentIs
<1>2. all \in Seq(V) /\ Len(all) = Len(sent) /\ \A i \in 1..Len(sent) : all[i] = Received[sent[i]]
  BY <1>1
<1>3. Expected = IF entry = "Decode" \/ sent = <<>> THEN all ELSE <<all[1]>>
  BY DEF Expected
<1> HIDE DEF all, V
<1>4. \A S : \A q \in Seq(S) : SubSeq(q, 1, Len(q)) = q
  OBVIOUS
<1>5. Expected = SubSeq(Expected, 1, Len(Expected))
  <2>1. CASE Expected = all
    BY <1>2, <1>4, <2>1, Zenon
  <2>2. CASE Expected = <<all[1]>>
    <3>1. <<all[1]>> \in Seq({all[1]})
      OBVIOUS
    <3> QED
      BY <1>4, <2>2, <3>1, Zenon
  <2> QED
    BY <1>3, <2>1, <2>2
<1>6. ASSUME entry = "Decode", GotFirst PROVE got = SubSeq(Expected, 1, Len(got))
  <2>1. PICK S : got \in Seq(S)
    BY <1>6 DEF GotFirst, IsSeq
  <2>2. Len(got) \in Nat /\ Len(got) <= Len(all) /\ \A i \in 1..Len(got) : got[i] = all[i]
    <3>1. Len(got) \in Nat /\ Len(got) <= Len(sent) /\ \A i \in 1..Len(got) : got[i] = Received[sent[i]]
      BY <1>6, <2>1 DEF GotFirst
    <3>2. \A i \in 1..Len(got) : i \in 1..Len(sent)
      BY <1>1, <3>1
    <3> QED
      BY <1>2, <3>1, <3>2
  <2> DEFINE q == SubSeq(all, 1, Len(got))
  <2>3. q \in Seq(V) /\ Len(q) = Len(got) /\ \A i \in 1..Len(got) : q[i] = all[i]
    BY <1>2, <2>2
  <2> HIDE DEF q
  <2>4. got = [i \in 1..Len(got) |-> got[i]] /\ q = [i \in 1..Len(q) |-> q[i]]
    BY <2>1, <2>3
  <2>5. got = q
    BY <2>2, <2>3, <2>4
  <2> QED
    BY <1>3, <1>6, <2>5 DEF q
<1> QED
  BY <1>5, <1>6

LEMMA Stops ==
  ASSUME sent \in Inputs, NEW T, Following(T), Fail(TRUE) \/ Fail(FALSE), Untouched
  PROVE  phase' = "done" /\ OnlyWholeMessages'
<1>1. UNCHANGED <<sent, entry, cut>> /\ GotFirst
  BY DEF Untouched, Following, Midway
<1>2. Expected' = Expected
  BY <1>1 DEF Expected
<1>3. phase' = "done" /\ (status' = "error" \/ (status' = "ok" /\ got' = got /\ entry = "Decode"))
  BY DEF Fail, Finish, decoderVars
<1>4. entry = "Decode" => got = SubSeq(Expected, 1, Len(got))
  BY <1>1, FirstExpected
<1>5. OnlyWholeMessages'
  <2>1. CASE status' = "error"
    BY <2>1 DEF OnlyWholeMessages
  <2>2. CASE status' = "ok" /\ got' = got /\ entry = "Decode"
    <3>1. got' = SubSeq(Expected', 1, Len(got')) /\ entry' # "decodeMessage"
      BY <1>1, <1>2, <1>4, <2>2
    <3> QED
      BY <2>2, <3>1 DEF OnlyWholeMessages
  <2> QED
    BY <1>3, <2>1, <2>2
<1> QED
  BY <1>3, <1>5

\* A step of the decoder on such a stream.
LEMMA CutStep ==
  ASSUME IInv, Decoder, sent \in Inputs, NEW T, DecodingCut(T)
  PROVE  (phase' = "done" /\ OnlyWholeMessages') \/ (phase' = "decode" /\ \E V : DecodingCut(V)')
<1> DEFINE Right == (phase' = "done" /\ OnlyWholeMessages') \/ (phase' = "decode" /\ \E V : DecodingCut(V)')
<1>1. PICK w : Following(T) /\ Writes(T, w) /\ Begins(stream, w)
  BY Zenon DEF DecodingCut
<1>2. ASSUME Complete', Untouched PROVE Right
  <2>1. sent' = sent /\ entry' = entry /\ Expected' = Expected
    BY <1>2 DEF Untouched, Expected
  <2>2. got' = SubSeq(Expected', 1, Len(got'))
    BY <1>2, <2>1, FirstExpected DEF Complete
  <2> QED
    BY <1>2, <2>2 DEF Complete, OnlyWholeMessages
<1>3. ASSUME NEW V, Following(V)', NEW u, Writes(V, u), Begins(stream', u) PROVE Right
  <2>1. phase' = "decode"
    BY <1>3 DEF Following, Midway
  <2>2. DecodingCut(V)'
    BY <1>3, Zenon DEF DecodingCut
  <2> QED
    BY <2>1, <2>2, Zenon
<1>4. ASSUME StreamEnds \/ ContentTorn PROVE Right
  <2>1. (Fail(TRUE) \/ Fail(FALSE)) /\ Untouched
    BY <1>4, Zenon DEF StreamEnds, ContentTorn
  <2> QED
    BY <1>1, <2>1, Stops
<1> SUFFICES Right
  OBVIOUS
<1> HIDE DEF Right
<1>5. CASE CloseObject
  <2>1. stream' = stream /\ Untouched /\ (Complete' \/ Following(T)')
    BY <1>1, <1>5, ClosesObject
  <2>2. Begins(stream', w)
    BY <1>1, <2>1
  <2> QED
    BY <1>1, <1>2, <1>3, <2>1, <2>2, Zenon
<1>6. CASE Reading /\ stream = <<>>
  <2>1. ~IsByte(1) /\ ~OpKnown /\ ~HeaderRead /\ ~ContentRead
    <3>1. Len(stream) = 0
      BY <1>6, EmptyLen
    <3> QED
      BY <3>1 DEF IsByte, OpKnown, HeaderRead, ContentRead
  <2>2. StreamEnds
    BY <1>6, <2>1, Zenon
    DEF Decoder, ContentTorn, UnknownOpcode, ReadScalar, ReadContent, ReadPartOfText, OpenObject, CloseObject, Misread,
        Reading
  <2> QED
    BY <1>4, <2>2
<1>7. CASE Reading /\ stream # <<>>
  <2>1. T \in Seq(Todo) /\ AllFit(T)
    BY <1>1, Zenon DEF Following
  <2>2. T # <<>>
    <3>1. SUFFICES ASSUME T = <<>> PROVE FALSE
      OBVIOUS
    <3>2. w = <<>>
      BY <1>1, <3>1, WritesNothing, Zenon
    <3>3. Len(stream) <= 0 /\ stream \in Seq(Chunks)
      BY <1>1, <3>2, EmptyLen DEF Begins
    <3> QED
      BY <1>7, <3>3
  <2>3. PICK chunks, q : Upcoming(T, w, chunks, q)
    BY <1>1, <2>1, <2>2, NextUpcoming, Zenon
  <2> DEFINE V == RestOf(Head(T)[2]) \o Tail(T)
  <2>4. /\ q \in Seq(Chunks) /\ w = chunks \o q /\ Writes(V, q)
        /\ chunks = Encoding(Head(T)[1], Head(T)[2]).chunks
        /\ ReadsAs(Head(T)[1], chunks, Head(T)[2])
    BY <2>3, Zenon DEF Upcoming
  <2>5. PICK bytes : HeaderHere(bytes, chunks)
    BY <1>1, <1>7, <2>2, <2>4, HeaderFirst
  <2>6. Context \in Contexts
    BY <1>7, ContextRead, Zenon DEF IInv, Outcome
  <2>7. StreamEnds \/ ContentTorn \/ \E s : Ahead(chunks, s) /\ Begins(s, q)
    <3>1. Begins(stream, chunks \o q)
      BY <1>1, <2>4
    <3> QED
      BY <1>7, <2>4, <2>5, <2>6, <3>1, ThereOrStops
  <2>8. ASSUME NEW s, Ahead(chunks, s), Begins(s, q) PROVE Right
    <3>1. stream' = s /\ Untouched /\ (Complete' \/ Following(V)')
      BY <1>1, <1>7, <2>2, <2>4, <2>8, ReadsOne
    <3> HIDE DEF V
    <3>2. Begins(stream', q)
      BY <2>8, <3>1
    <3> QED
      BY <1>2, <1>3, <2>4, <3>1, <3>2, Zenon
  <2> QED
    BY <1>4, <2>7, <2>8
<1>8. Reading \/ CloseObject
  BY Zenon DEF Decoder, StreamEnds, ContentTorn, UnknownOpcode, ReadScalar, ReadContent, ReadPartOfText,
               OpenObject, Misread
<1> QED
  BY <1>5, <1>6, <1>7, <1>8

\* A cut stream is one of messages that are sent, and as long as it is read the decoder follows.
Cautious ==
  AllFollowed /\ cut =>
    /\ sent \in Inputs /\ phase \in {"decode", "done"}
    /\ phase = "decode" => \E T : DecodingCut(T)
    /\ phase = "done" => OnlyWholeMessages

LEMMA CautiousStep == IInv /\ Faithful /\ Cautious /\ [Next]_vars => Cautious'
<1> SUFFICES ASSUME IInv, Faithful, Cautious, [Next]_vars, AllFollowed', cut'
             PROVE  /\ sent' \in Inputs /\ phase' \in {"decode", "done"}
                    /\ phase' = "decode" => (\E T : DecodingCut(T))'
                    /\ phase' = "done" => OnlyWholeMessages'
  BY Zenon DEF Cautious
<1>1. CASE Encoder \/ Carry
  <2>1. sent' = sent /\ cut' = cut /\ phase \in {"encode", "carry"}
    BY <1>1 DEF Encoder, EncodeObject, EncodeFails, Encoded, Carry
  <2>2. AllFollowed /\ cut
    BY <2>1 DEF AllFollowed
  <2> QED
    BY <2>1, <2>2 DEF Cautious
<1>2. CASE Cut
  <2>1. /\ phase = "carry" /\ phase' = "decode" /\ sent \in Inputs
        /\ UNCHANGED <<sent, entry, stack, got, status>>
    BY <1>2, CutsAssumption DEF Cut, decoderVars
  <2>2. AllFollowed /\ ~cut
    BY <2>1 DEF AllFollowed, Cautious
  <2>3. got = <<>> /\ stack = <<>> /\ status = "running" /\ Writes(Sent, stream)
    BY <2>1, <2>2 DEF Faithful
  <2>4. Following(Sent)'
    BY <2>1, <2>2, <2>3, Starts
  <2>5. Sent' = Sent
    BY <2>1 DEF Sent
  <2>6. Begins(stream', stream)
    <3>1. stream \in Seq(Chunks)
      BY DEF IInv, Data
    <3> QED
      BY <1>2, <3>1, CutBegins
  <2>7. DecodingCut(Sent)'
    BY <2>3, <2>4, <2>5, <2>6, Zenon DEF DecodingCut
  <2> QED
    BY <2>1, <2>7, Zenon
<1>3. CASE Decoder
  <2>1. /\ sent' = sent /\ cut' = cut /\ phase = "decode"
    BY <1>3 DEF Decoder, StreamEnds, ContentTorn, UnknownOpcode, ReadScalar, ReadContent, ReadPartOfText,
               OpenObject, CloseObject, Misread, Untouched, Reading
  <2>2. AllFollowed /\ cut
    BY <2>1 DEF AllFollowed
  <2>3. sent \in Inputs
    BY <2>2, Zenon DEF Cautious
  <2>4. PICK T : DecodingCut(T)
    BY <2>1, <2>2, Zenon DEF Cautious
  <2>5. (phase' = "done" /\ OnlyWholeMessages') \/ (phase' = "decode" /\ \E V : DecodingCut(V)')
    BY <1>3, <2>3, <2>4, CutStep
  <2> QED
    BY <2>1, <2>3, <2>5, Zenon
<1>4. CASE UNCHANGED vars
  <2>1. AllFollowed /\ cut
    BY <1>4 DEF vars, AllFollowed
  <2>2. (\E T : DecodingCut(T)) => (\E T : DecodingCut(T))'
    BY <1>4 DEF vars, DecodingCut, Following, Midway, Left, Sent, GotFirst
  <2>3. OnlyWholeMessages => OnlyWholeMessages'
    BY <1>4 DEF vars, OnlyWholeMessages, Expected
  <2> QED
    BY <1>4, <2>1, <2>2, <2>3 DEF Cautious, vars
<1> QED
  BY <1>1, <1>2, <1>3, <1>4, Zenon DEF Next, Done

\* Wherever a stream ends, between two chunks or inside one, and however deep the object is
\* nested that it ends in: what the decoder returns are whole messages, the first ones, as they
\* were sent, or an error (bysant_decoder.go:22-60).  Messages that the decoder does not follow
\* the encoder in are left to the runs.
THEOREM NothingMadeUp == Spec => [](AllFollowed => OnlyWholeMessages)
<1>1. Init => IInv /\ Faithful /\ Cautious
  <2>1. Init => Cautious
    BY DEF Init, Cautious
  <2> QED
    BY <2>1, Begin, FaithfulInit
<1>2. IInv /\ Faithful /\ Cautious /\ [Next]_vars => (IInv /\ Faithful /\ Cautious)'
  BY Step, FaithfulStep, CautiousStep
<1>3. Cautious => (AllFollowed => OnlyWholeMessages)
  <2> SUFFICES ASSUME Cautious, AllFollowed, cut PROVE OnlyWholeMessages
    BY DEF OnlyWholeMessages
  <2>1. CASE phase = "decode"
    <3>1. status = "running"
      BY <2>1 DEF Cautious, DecodingCut, Following, Midway
    <3> QED
      BY <3>1 DEF OnlyWholeMessages
  <2>2. CASE phase = "done"
    BY <2>2, Zenon DEF Cautious
  <2> QED
    BY <2>1, <2>2 DEF Cautious
<1> QED
  BY <1>1, <1>2, <1>3, PTL DEF Spec
=============================================================================
