--------------------------- MODULE BysantOpcodes ---------------------------
(***************************************************************************)
(* The opcodes of the Bysant serializer (bysant_encoder.go and             *)
(* bysant_decoder.go), as one table per context for each direction.  The   *)
(* encoder and the decoder are written independently of each other in the  *)
(* code, with their own numbers; so are the tables.                        *)
(*                                                                         *)
(* A header is an opcode and up to three more bytes.  An encoder rule      *)
(*   [from, to, op, width, minus, sign]                                    *)
(* writes n in from..to as the number m = sign * n - minus, its low width  *)
(* bytes after an opcode that is op plus the rest of m.  A decoder rule    *)
(*   [first, last, type, width, base, sign, zero, content]                 *)
(* reads an opcode in first..last as sign * (m + base), m the number that  *)
(* opcode - zero and the next width bytes make; content says what follows. *)
(* The encoder takes the first rule that fits, as the cascades of the code *)
(* do.  The rules of the decoder are a set: the order of its cases cannot  *)
(* matter, since no two have an opcode in common (OneMeaning).             *)
(***************************************************************************)
EXTENDS Integers, Sequences, SequencesExt

Power256 == <<1, 256, 65536, 16777216>>       \* Power256[w + 1] = 256^w

\* Mutant of LowBytes: the last byte is not masked.
UnmaskedBytes(m, w) == [i \in 1..w |-> m \div Power256[w - i + 1]]

LowBytes(m, w) == [i \in 1..w |-> (m \div Power256[w - i + 1]) % 256]

-----------------------------------------------------------------------------
(* Encoder.                                                                *)

Signed(sign, from, to, op, width, minus) ==
  [from |-> from, to |-> to, op |-> op, width |-> width, minus |-> minus, sign |-> sign]
Rule(from, to, op, width, minus) == Signed(1, from, to, op, width, minus)
Negative(from, to, op, width, minus) == Signed(-1, from, to, op, width, minus)

\* encodeSignedIntegerInGlobalContext, encodeSignedIntegerInNumbersContext; what no
\* rule covers goes out in eight bytes.
GlobalIntRules ==
  << Rule(-31, 64, \h80, 0, -31),
     Negative(-2079, -1, \hE8, 1, 32), Rule(0, 2112, \hE0, 1, 65) >>
\* Mutant of NumberIntRules: the small range starts where the tiny one ends.
NumberIntRulesOverlap ==
  << Rule(-97, 97, \h01, 0, -97),
     Negative(-4193, -1, \hD4, 1, 97), Rule(0, 4193, \hC4, 1, 97) >>

NumberIntRules ==
  << Rule(-97, 97, \h01, 0, -97),
     Negative(-4193, -1, \hD4, 1, 98), Rule(0, 4193, \hC4, 1, 98) >>

\* encodeUnsignedIntegerInContext; what no rule covers goes out in four bytes.
UnsignedRules ==
  << Rule(0, 139, \h3B, 0, 0), Rule(0, 8331, \hC7, 1, 140),
     Rule(0, 1056907, \hE7, 2, 8332), Rule(0, 135274635, \hF7, 3, 1056908) >>

\* Mutant of StringRules: the medium strings go one byte too far.
StringRulesOneMore(ctx) ==
  IF ctx = "global" THEN << Rule(0, 32, \h03, 0, 0), Rule(33, 1057, \h24, 1, 33) >>
                    ELSE << Rule(0, 47, \h01, 0, 0), Rule(48, 2096, \h31, 1, 48) >>

\* encodeStringInContext, of the length; longer strings cannot be encoded.
StringRules(ctx) ==
  IF ctx = "global" THEN << Rule(0, 32, \h03, 0, 0), Rule(33, 1056, \h24, 1, 33) >>
                    ELSE << Rule(0, 47, \h01, 0, 0), Rule(48, 2095, \h31, 1, 48) >>

\* encodeListInContext, encodeMapInContext, of the size; a larger container has an
\* opcode of its own, followed by what its size exceeds the limit by.
ListRules(ctx) ==
  IF ctx = "global" THEN << Rule(0, 0, \h2A, 0, 0), Rule(1, 9, \h2B, 0, 1) >>
                    ELSE << Rule(0, 0, \h01, 0, 0), Rule(1, 60, \h02, 0, 1) >>
MapRules(ctx) ==
  IF ctx = "global" THEN << Rule(0, 0, \h41, 0, 0), Rule(1, 9, \h42, 0, 1) >>
                    ELSE << Rule(0, 0, \h83, 0, 0), Rule(1, 60, \h84, 0, 1) >>
SmallLimit(ctx) == IF ctx = "global" THEN 9 ELSE 60
LargeList(ctx) == IF ctx = "global" THEN \h34 ELSE \h3E
LargeMap(ctx) == IF ctx = "global" THEN \h4B ELSE \hC0

Fitting(rules, n) == SelectInSeq(rules, LAMBDA r : n \in r.from..r.to)
Fits(rules, n) == Fitting(rules, n) # 0

Header(rules, n) ==
  LET r == rules[Fitting(rules, n)]
      m == r.sign * n - r.minus
  IN  << (r.op + m \div Power256[r.width + 1]) % 256 >> \o LowBytes(m, r.width)

-----------------------------------------------------------------------------
(* Decoder.                                                                *)

Row(first, last, zero, type, width, base, sign, content) ==
  [first |-> first, last |-> last, zero |-> zero, type |-> type,
   width |-> width, base |-> base, sign |-> sign, content |-> content]
Opcodes(first, last, type, width, base) == Row(first, last, first, type, width, base, 1, "none")
Strings(first, last, width, base) == Row(first, last, first, "string", width, base, 1, "text")
Negated(first, last, zero, width, base) == Row(first, last, zero, "int64", width, base, -1, "none")
Opcode(op, type) == Opcodes(op, op, type, 0, 0)

\* A number that is read in one piece, by binary.Read.
Wide(op, type) == Row(op, op, op, type, 0, 0, 1, type)
WideOpcodes == { Wide(\hFD, "int64"), Wide(\hFE, "float32"), Wide(\hFF, "float64") }

\* decodeGlobalObject, the registered decoders included.
GlobalOpcodes ==
  { Opcode(\h00, "nil"), Opcode(\h01, "true"), Opcode(\h02, "false"),
    Strings(\h03, \h23, 0, 0), Strings(\h24, \h27, 1, 33),
    Strings(\h28, \h28, 2, 1057),
    Opcode(\h2A, "list"), Opcodes(\h2B, \h33, "list", 0, 1),
    Opcodes(\h34, \h34, "listSize", 0, 10),
    Opcode(\h41, "map"), Opcodes(\h42, \h4A, "map", 0, 1), Opcode(\h4B, "mapSize"),
    Opcodes(\h80, \hDF, "int64", 0, -31),
    Opcodes(\hE0, \hE7, "int64", 1, 65), Negated(\hE8, \hEF, \hE8, 1, 32),
    Opcodes(\hF0, \hF3, "int64", 2, 2113), Negated(\hF4, \hF7, \hF4, 2, 2080),
    Opcodes(\hF8, \hF9, "int64", 3, 264257), Negated(\hFA, \hFB, \hFA, 3, 264224)
  } \union WideOpcodes \union
  { Opcode(\h60, "envelope"), Opcode(\h61, "message"), Opcode(\h62, "response"),
    Opcode(\h63, "deltas"), Opcode(\h64, "quasi") }

\* decodeUintsAndStrsObject.
UIntStrOpcodes ==
  { Opcode(\h00, "nil"),
    Strings(\h01, \h30, 0, 0), Strings(\h31, \h38, 1, 48),
    Strings(\h39, \h39, 2, 2095),
    Opcodes(\h3B, \hC6, "uint32", 0, 0), Opcodes(\hC7, \hE6, "uint32", 1, 140),
    Opcodes(\hE7, \hF6, "uint32", 2, 8332), Opcodes(\hF7, \hFE, "uint32", 3, 1056908),
    Wide(\hFF, "uint32") }

\* decodeNumbersObject; the decoder of the large negative numbers takes its opcodes
\* from the last one on.
NumberOpcodes ==
  { Opcodes(\h01, \hC3, "int64", 0, -97),
    Opcodes(\hC4, \hD3, "int64", 1, 98), Negated(\hD4, \hE3, \hD4, 1, 98),
    Opcodes(\hE4, \hEB, "int64", 2, 4194), Negated(\hEC, \hF3, \hEC, 2, 4194),
    Opcodes(\hF4, \hF7, "int64", 3, 528481),
    Negated(\hF8, \hFB, \hFB, 3, 528481),
    Wide(\hFC, "int32") } \union WideOpcodes

\* decodeListAndMapsObject.
ListMapOpcodes ==
  { Opcode(\h01, "list"), Opcodes(\h02, \h3D, "list", 0, 1),
    Opcodes(\h3F, \h3F, "listSize", 0, 61),
    Opcode(\h83, "map"), Opcodes(\h84, \hBF, "map", 0, 1), Opcode(\hC0, "mapSize") }

Contexts == {"global", "uis", "number", "listMap"}
OpcodeTable == [global |-> GlobalOpcodes, uis |-> UIntStrOpcodes,
                number |-> NumberOpcodes, listMap |-> ListMapOpcodes]

Reads(r, op) == op \in r.first..r.last
Known(ctx, op) == \E r \in OpcodeTable[ctx] : Reads(r, op)
RuleOf(ctx, op) == CHOOSE r \in OpcodeTable[ctx] : Reads(r, op)

\* opcode - zero is a byte.
TopByte(r, op) == (op - r.zero) % 256

\* TLC's integers have 32 bits: this stands for every magnitude from 2^31 on.
Beyond == 2147483647

\* The number that a header reads as: the bytes are the opcode and the r.width next.
Value(r, bytes) ==
  LET top == TopByte(r, bytes[1])
      Digit(i) == IF i <= r.width THEN bytes[i + 1] * Power256[r.width - i + 1] ELSE 0
  IN  IF r.width = 3 /\ top >= 127 THEN r.sign * Beyond
      ELSE r.sign * (r.base + top * Power256[r.width + 1] + Digit(1) + Digit(2) + Digit(3))
=============================================================================
