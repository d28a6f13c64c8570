---------------------------- MODULE BysantProofs ----------------------------
(***************************************************************************)
(* Theorems about the Bysant serializer.                                   *)
(*                                                                         *)
(* The opcodes: no two cases of a context of the decoder have an opcode in *)
(* common, and every number, size and length that the encoder writes by    *)
(* one of its rules is read back by the decoder as what it was, in a       *)
(* header of that many bytes, all of them bytes.  The runs try the numbers *)
(* at the ends of the ranges; these are all of them.                       *)
(*                                                                         *)
(* The encoder and the decoder on any objects and any stream: what is      *)
(* written is of the kinds that can be read, the stack of the decoder and  *)
(* its result keep their shape, and no size of a large container is ever   *)
(* accepted.                                                               *)
(***************************************************************************)
EXTENDS BysantRoundTrip, DataLemmas, TLAPS

LEMMA Powers ==
  Power256[1] = 1 /\ Power256[2] = 256 /\ Power256[3] = 65536 /\ Power256[4] = 16777216
BY SMT DEF Power256

\* No opcode of a context has two meanings: the order of the cases of the decoder does
\* not matter (bysant_decoder.go:82-293, with the registered decoders of line 164).
THEOREM OneMeaning ==
  ASSUME NEW ctx \in Contexts, NEW op \in 0..255,
         NEW r \in OpcodeTable[ctx], NEW s \in OpcodeTable[ctx], Reads(r, op), Reads(s, op)
  PROVE  r = s
<1> USE DEF OpcodeTable, Reads, Row, Opcodes, Strings, Opcode, Negated, Wide, WideOpcodes
<1>1. CASE ctx = "global"
  BY <1>1, SMTT(60) DEF GlobalOpcodes
<1>2. CASE ctx = "uis"
  BY <1>2, SMTT(60) DEF UIntStrOpcodes
<1>3. CASE ctx = "number"
  BY <1>3, SMTT(60) DEF NumberOpcodes
<1>4. CASE ctx = "listMap"
  BY <1>4, SMTT(60) DEF ListMapOpcodes
<1> QED
  BY <1>1, <1>2, <1>3, <1>4 DEF Contexts

LEMMA FoundRule ==
  ASSUME NEW ctx \in Contexts, NEW op \in 0..255, NEW r \in OpcodeTable[ctx], Reads(r, op)
  PROVE  Known(ctx, op) /\ RuleOf(ctx, op) = r
<1>1. \A s \in OpcodeTable[ctx] : Reads(s, op) => s = r
  BY OneMeaning
<1> QED
  BY <1>1, Zenon DEF Known, RuleOf

-----------------------------------------------------------------------------
(* The digits of a number to the base 256.                                 *)

LEMMA Digits ==
  ASSUME NEW m \in Nat
  PROVE  /\ m = 256 * (m \div 256) + (m % 256)
         /\ m = 65536 * (m \div 65536) + 256 * ((m \div 256) % 256) + (m % 256)
         /\ m = 16777216 * (m \div 16777216) + 65536 * ((m \div 65536) % 256)
                  + 256 * ((m \div 256) % 256) + (m % 256)
         /\ m \div 1 = m
OBVIOUS

LEMMA LowBytesType ==
  ASSUME NEW m \in Nat, NEW w \in 0..3
  PROVE  LowBytes(m, w) \in Seq(0..255) /\ Len(LowBytes(m, w)) = w
<1>1. \A i \in 1..w : (m \div Power256[w - i + 1]) % 256 \in 0..255
  <2> SUFFICES ASSUME NEW i \in 1..w PROVE (m \div Power256[w - i + 1]) % 256 \in 0..255
    OBVIOUS
  <2>1. w - i + 1 \in 1..3
    OBVIOUS
  <2>2. Power256[w - i + 1] \in {1, 256, 65536}
    BY <2>1, Powers
  <2> QED
    BY <2>2
<1> QED
  BY <1>1 DEF LowBytes

-----------------------------------------------------------------------------
(* The rule of the encoder that is taken, and its header.                  *)

\* Rule k is the first that n fits.
Chosen(rules, n, k) ==
  /\ Fitting(rules, n) = k
  /\ n \in rules[k].from..rules[k].to
  /\ \A j \in 1..(k - 1) : n \notin rules[j].from..rules[j].to

LEMMA LeastOfFew ==
  ASSUME NEW I, I \subseteq 1..4, I # {}
  PROVE  \E k \in I : Min(I) = k /\ \A j \in I : k <= j
<1>1. \E k \in I : \A j \in I : k <= j
  <2>1. CASE 1 \in I
    BY <2>1
  <2>2. CASE 1 \notin I /\ 2 \in I
    BY <2>2
  <2>3. CASE 1 \notin I /\ 2 \notin I /\ 3 \in I
    BY <2>3
  <2>4. CASE 1 \notin I /\ 2 \notin I /\ 3 \notin I
    <3>1. \A j \in I : j = 4
      BY <2>4
    <3>2. 4 \in I
      BY <3>1
    <3> QED
      BY <3>1, <3>2
  <2> QED
    BY <2>1, <2>2, <2>3, <2>4
<1>2. PICK k \in I : \A j \in I : k <= j
  BY <1>1
<1>3. \A x \in I : (\A y \in I : x <= y) => x = k
  BY <1>2
<1>4. Min(I) = k
  BY <1>2, <1>3, Zenon DEF Min
<1> QED
  BY <1>2, <1>4

LEMMA Fitted ==
  ASSUME NEW rules, NEW N \in {2, 3, 4}, Len(rules) = N, NEW n \in Int
  PROVE  /\ Fits(rules, n) => \E k \in 1..N : Chosen(rules, n, k)
         /\ (\E i \in 1..N : n \in rules[i].from..rules[i].to) => Fits(rules, n)
<1> DEFINE I == {i \in 1..Len(rules) : n \in rules[i].from..rules[i].to}
<1>1. Fitting(rules, n) = IF I # {} THEN Min(I) ELSE 0
  BY DEF Fitting, SelectInSeq
<1>2. I \subseteq 1..4 /\ I \subseteq 1..Len(rules)
  OBVIOUS
<1> HIDE DEF I
<1>3. CASE I = {}
  <2>1. ~Fits(rules, n)
    BY <1>1, <1>3 DEF Fits
  <2>2. ~\E i \in 1..N : n \in rules[i].from..rules[i].to
    BY <1>3 DEF I
  <2> QED
    BY <2>1, <2>2
<1>4. CASE I # {}
  <2>1. PICK k \in I : Min(I) = k /\ \A j \in I : k <= j
    BY <1>2, <1>4, LeastOfFew
  <2>2. \A j \in 1..(k - 1) : j \notin I /\ j \in 1..Len(rules)
    BY <1>2, <2>1
  <2>3. Chosen(rules, n, k) /\ k \in 1..N
    BY <1>1, <1>2, <1>4, <2>1, <2>2 DEF I, Chosen
  <2>4. Fits(rules, n)
    BY <1>1, <1>4, <2>1, <2>3 DEF Fits
  <2> QED
    BY <2>3, <2>4
<1> QED
  BY <1>3, <1>4

\* What m leaves above its low width bytes.
LEMMA TopDigit ==
  ASSUME NEW m \in Nat, NEW w \in 0..3, NEW k \in Nat, m < (k + 1) * Power256[w + 1]
  PROVE  m \div Power256[w + 1] \in 0..k
<1>1. CASE w = 0
  BY <1>1, Powers
<1>2. CASE w = 1
  BY <1>2, Powers
<1>3. CASE w = 2
  BY <1>3, Powers
<1>4. CASE w = 3
  BY <1>4, Powers
<1> QED
  BY <1>1, <1>2, <1>3, <1>4

\* The number that the low bytes make, from the first on.
Digit(bytes, w, i) == IF i <= w THEN bytes[i + 1] * Power256[w - i + 1] ELSE 0
LowPart(bytes, w) == Digit(bytes, w, 1) + Digit(bytes, w, 2) + Digit(bytes, w, 3)

\* bytes has the low bytes of m, after its first.
Ends(bytes, w, m) == \A i \in 1..w : bytes[1 + i] = (m \div Power256[w - i + 1]) % 256

LEMMA DigitSum ==
  ASSUME NEW m \in Nat, NEW w \in 0..3, NEW bytes, Ends(bytes, w, m)
  PROVE  /\ (m \div Power256[w + 1]) * Power256[w + 1] \in Int
         /\ Digit(bytes, w, 1) \in Int /\ Digit(bytes, w, 2) \in Int /\ Digit(bytes, w, 3) \in Int
         /\ (m \div Power256[w + 1]) * Power256[w + 1] + LowPart(bytes, w) = m
<1> DEFINE top == m \div Power256[w + 1]
<1> USE DEF Ends
<1> SUFFICES /\ top * Power256[w + 1] \in Int
             /\ Digit(bytes, w, 1) \in Int /\ Digit(bytes, w, 2) \in Int /\ Digit(bytes, w, 3) \in Int
             /\ top * Power256[w + 1] + LowPart(bytes, w) = m
  OBVIOUS
<1>0. /\ m \div 65536 \in Int /\ m \div 16777216 \in Int
      /\ m % 256 \in Int /\ (m \div 256) % 256 \in Int /\ (m \div 65536) % 256 \in Int
  OBVIOUS
<1>1. CASE w = 0
  <2>1. top * Power256[w + 1] = m /\ Digit(bytes, w, 1) = 0 /\ Digit(bytes, w, 2) = 0 /\ Digit(bytes, w, 3) = 0
    BY <1>1, Powers, Digits DEF Digit
  <2> QED
    BY <2>1 DEF LowPart
<1>2. CASE w = 1
  <2>1. top * Power256[w + 1] = 256 * (m \div 256) /\ Digit(bytes, w, 2) = 0 /\ Digit(bytes, w, 3) = 0
    BY <1>2, Powers DEF Digit
  <2>2. Digit(bytes, w, 1) = m % 256
    BY <1>2, Powers, Digits DEF Digit
  <2> QED
    BY <1>0, <2>1, <2>2, Digits DEF LowPart
<1>3. CASE w = 2
  <2>1. top * Power256[w + 1] = 65536 * (m \div 65536) /\ Digit(bytes, w, 3) = 0
    BY <1>3, Powers DEF Digit
  <2>2. bytes[2] = (m \div 256) % 256 /\ bytes[3] = m % 256
    BY <1>3, Powers, Digits
  <2>3. Digit(bytes, w, 1) = bytes[2] * Power256[2] /\ Digit(bytes, w, 2) = bytes[3] * Power256[1]
    BY <1>3 DEF Digit
  <2>4. Digit(bytes, w, 1) = 256 * ((m \div 256) % 256) /\ Digit(bytes, w, 2) = m % 256
    BY <1>0, <2>2, <2>3, Powers
  <2> HIDE DEF top
  <2>5. Digit(bytes, w, 3) = 0 /\ LowPart(bytes, w) = 256 * ((m \div 256) % 256) + (m % 256)
    BY <1>0, <2>1, <2>4 DEF LowPart
  <2>6. m = 65536 * (m \div 65536) + 256 * ((m \div 256) % 256) + (m % 256)
    BY Digits
  <2> QED
    BY <1>0, <2>1, <2>4, <2>5, <2>6, SMT
<1>4. CASE w = 3
  <2>1. top * Power256[w + 1] = 16777216 * (m \div 16777216)
    BY <1>4, Powers
  <2>2. bytes[2] = (m \div 65536) % 256 /\ bytes[3] = (m \div 256) % 256 /\ bytes[4] = m % 256
    BY <1>4, Powers, Digits
  <2>3. /\ Digit(bytes, w, 1) = bytes[2] * Power256[3] /\ Digit(bytes, w, 2) = bytes[3] * Power256[2]
        /\ Digit(bytes, w, 3) = bytes[4] * Power256[1]
    BY <1>4 DEF Digit
  <2>4. /\ Digit(bytes, w, 1) = 65536 * ((m \div 65536) % 256) /\ Digit(bytes, w, 2) = 256 * ((m \div 256) % 256)
        /\ Digit(bytes, w, 3) = m % 256
    BY <1>0, <2>2, <2>3, Powers
  <2> HIDE DEF top
  <2>5. LowPart(bytes, w)
          = 65536 * ((m \div 65536) % 256) + 256 * ((m \div 256) % 256) + (m % 256)
    BY <1>0, <2>4 DEF LowPart
  <2>6. m = 16777216 * (m \div 16777216) + 65536 * ((m \div 65536) % 256)
              + 256 * ((m \div 256) % 256) + (m % 256)
    BY Digits
  <2> QED
    BY <1>0, <2>1, <2>4, <2>5, <2>6, SMT
<1> QED
  BY <1>1, <1>2, <1>3, <1>4

-----------------------------------------------------------------------------
(* What is read is what was written.                                       *)

\* A text follows what is the length of one, and nothing anything else.
ContentFor(type) == IF type = "string" THEN "text" ELSE "none"
Plain(d) == d.content = ContentFor(d.type)

\* n, which the encoder writes with one of the rules, is read as n, and as a type.
ReadBack(ctx, type, rules, n) ==
  LET bytes == Header(rules, n)
      r == RuleOf(ctx, bytes[1])
  IN  /\ bytes \in Seq(0..255) /\ Known(ctx, bytes[1])
      /\ Len(bytes) = 1 + r.width /\ r.type = type /\ r.content = ContentFor(type)
      /\ Value(r, bytes) = n

LEMMA Within ==
  ASSUME NEW op \in 0..255, NEW span \in Nat, op + span \in 0..255, NEW top \in 0..span
  PROVE  op + top \in 0..255 /\ top \in 0..255 /\ op + top \in op..(op + span)
OBVIOUS

\* Row d of the decoder undoes rule e of the encoder.
Undoes(d, e) ==
  /\ d.width = e.width /\ d.sign = e.sign /\ d.base = e.minus /\ d.zero = e.op /\ d.first = e.op
  /\ d.width \in 0..3 /\ d.sign \in {1, -1} /\ d.base \in Int
  /\ d.first \in 0..255 /\ d.last \in d.first..255 /\ (d.width = 3 => d.last - d.first < 127)

\* The row has an opcode for n.
Covers(d, n) ==
  LET m == d.sign * n - d.base
  IN  m \in Nat /\ m < (d.last - d.first + 1) * Power256[d.width + 1]

LEMMA RuleReadBack ==
  ASSUME NEW ctx \in Contexts, NEW rules, NEW n \in Int, NEW d \in OpcodeTable[ctx],
         Plain(d), Undoes(d, rules[Fitting(rules, n)]), Covers(d, n)
  PROVE  \A type : type = d.type => ReadBack(ctx, type, rules, n)
<1> DEFINE e == rules[Fitting(rules, n)]
<1>0. \E op \in 0..255, span \in Nat, w \in 0..3, base \in Int, sign \in {1, -1}, m \in Nat :
        /\ d.first = op /\ d.zero = op /\ d.last - d.first = span /\ d.last = op + span
        /\ d.width = w /\ d.base = base /\ d.sign = sign
        /\ e.width = w /\ e.op = op /\ e.minus = base /\ e.sign = sign
        /\ op + span \in 0..255 /\ (w = 3 => span < 127)
        /\ m = sign * n - base /\ n = sign * (base + m) /\ m < (span + 1) * Power256[w + 1]
  <2> DEFINE k == d.sign * n - d.base
  <2>1. /\ d.first \in 0..255 /\ d.last \in d.first..255 /\ d.width \in 0..3
        /\ d.base \in Int /\ d.sign \in {1, -1} /\ d.zero = d.first
        /\ d.width = 3 => d.last - d.first < 127
    BY DEF Undoes
  <2>2. e.width = d.width /\ e.op = d.first /\ e.minus = d.base /\ e.sign = d.sign
    BY DEF Undoes
  <2>3. k \in Nat /\ k < (d.last - d.first + 1) * Power256[d.width + 1]
    BY DEF Covers
  <2>4. d.last - d.first \in Nat /\ d.last = d.first + (d.last - d.first) /\ n = d.sign * (d.base + k)
    BY <2>1
  <2>5. d.first + (d.last - d.first) \in 0..255
    <3>1. d.last \in 0..255
      BY <2>1
    <3> QED
      BY <2>4, <3>1
  <2>6. k = d.sign * n - d.base
    OBVIOUS
  <2> HIDE DEF e, k
  <2> USE <2>1, <2>2, <2>3, <2>4, <2>5, <2>6
  <2> WITNESS d.first \in 0..255, d.last - d.first \in Nat, d.width \in 0..3, d.base \in Int,
              d.sign \in {1, -1}, k \in Nat
  <2> QED
    OBVIOUS
<1>9. PICK op \in 0..255, span \in Nat, w \in 0..3, base \in Int, sign \in {1, -1}, m \in Nat :
        /\ d.first = op /\ d.zero = op /\ d.last - d.first = span /\ d.last = op + span
        /\ d.width = w /\ d.base = base /\ d.sign = sign
        /\ e.width = w /\ e.op = op /\ e.minus = base /\ e.sign = sign
        /\ op + span \in 0..255 /\ (w = 3 => span < 127)
        /\ m = sign * n - base /\ n = sign * (base + m) /\ m < (span + 1) * Power256[w + 1]
  BY <1>0
<1> DEFINE top == m \div Power256[w + 1]
<1> DEFINE bytes == Header(rules, n)
<1>1. top \in 0..span
  <2>1. m < (span + 1) * Power256[w + 1]
    BY <1>9
  <2> QED
    BY <2>1, TopDigit
<1>2. /\ op + top \in 0..255 /\ top \in 0..255 /\ op + top \in op..(op + span)
      /\ w = 3 => top < 127
  <2>1. op + span \in 0..255 /\ (w = 3 => span < 127)
    BY <1>9
  <2> HIDE DEF top
  <2>2. op + top \in 0..255 /\ top \in 0..255 /\ op + top \in op..(op + span)
    BY <1>1, <2>1, Within
  <2>3. w = 3 => top < 127
    BY <1>1, <2>1
  <2> QED
    BY <2>2, <2>3
<1>3. /\ bytes \in Seq(0..255) /\ Len(bytes) = 1 + w
      /\ bytes[1] = op + top
      /\ \A i \in 1..w : bytes[1 + i] = (m \div Power256[w - i + 1]) % 256
  <2> DEFINE low == LowBytes(m, w)
  <2>1. bytes = <<(op + top) % 256>> \o low
    BY <1>9 DEF Header
  <2>2. low \in Seq(0..255) /\ Len(low) = w
    BY LowBytesType
  <2>3. \A i \in 1..w : low[i] = (m \div Power256[w - i + 1]) % 256
    BY DEF LowBytes
  <2> HIDE DEF top, bytes, low
  <2>4. op + top \in 0..255 /\ bytes = <<op + top>> \o low
    <3>1. op + top \in 0..255
      BY <1>2
    <3>2. (op + top) % 256 = op + top
      BY <3>1
    <3> QED
      BY <2>1, <3>1, <3>2, Zenon
  <2>5. /\ Len(bytes) = 1 + Len(low) /\ bytes[1] = op + top
        /\ \A i \in 1..Len(low) : bytes[1 + i] = low[i]
    BY <2>2, <2>4, ConsElems
  <2>6. bytes \in Seq(0..255)
    <3>1. <<op + top>> \in Seq(0..255)
      BY <2>4
    <3> QED
      BY <2>2, <2>4, <3>1, ConcatElems
  <2> QED
    BY <2>2, <2>3, <2>5, <2>6
<1>4. Value(d, bytes) = n
  <2>1. Ends(bytes, w, m)
    BY <1>3 DEF Ends
  <2>2. /\ top * Power256[w + 1] \in Int
        /\ Digit(bytes, w, 1) \in Int /\ Digit(bytes, w, 2) \in Int /\ Digit(bytes, w, 3) \in Int
        /\ top * Power256[w + 1] + LowPart(bytes, w) = m
    BY <2>1, DigitSum
  <2>3. TopByte(d, bytes[1]) = top
    <3>1. TopByte(d, bytes[1]) = (bytes[1] - op) % 256
      BY <1>9 DEF TopByte
    <3>2. bytes[1] = op + top /\ top \in 0..255
      BY <1>2, <1>3
    <3> HIDE DEF top, bytes
    <3>3. (bytes[1] - op) % 256 = top
      BY <3>2, SMT
    <3> QED
      BY <3>1, <3>3
  <2>4. ~(w = 3 /\ top >= 127)
    BY <1>2
  <2>5. d.width = w /\ d.base = base /\ d.sign = sign
    BY <1>9
  <2> HIDE DEF bytes, top
  <2>6. Value(d, bytes) = sign * (base + top * Power256[w + 1] + Digit(bytes, w, 1)
                                    + Digit(bytes, w, 2) + Digit(bytes, w, 3))
    BY <2>3, <2>4, <2>5 DEF Value, Digit
  <2>7. base + top * Power256[w + 1] + Digit(bytes, w, 1) + Digit(bytes, w, 2) + Digit(bytes, w, 3)
          = base + m
    BY <2>2 DEF LowPart
  <2> QED
    BY <1>9, <2>6, <2>7
<1>5. d.first = op /\ d.last = op + span /\ d.width = w
  BY <1>9
<1> HIDE DEF top, bytes
<1>6. bytes[1] \in 0..255 /\ bytes[1] \in op..(op + span)
  BY <1>2, <1>3
<1>7. Reads(d, bytes[1])
  BY <1>5, <1>6 DEF Reads
<1>8. Known(ctx, bytes[1]) /\ RuleOf(ctx, bytes[1]) = d
  BY <1>6, <1>7, FoundRule
<1>10. ReadBack(ctx, d.type, rules, n)
  BY <1>3, <1>4, <1>5, <1>8 DEF ReadBack, bytes, Plain
<1> QED
  BY <1>10, Zenon

-----------------------------------------------------------------------------
(* The ranges of the encoder against the rows of the decoder.              *)

\* A number of the global context that the encoder writes in one or two bytes is read
\* as it was (bysant_encoder.go:314-329, bysant_decoder.go:82-169 and 431-447).
THEOREM GlobalNumbers ==
  ASSUME NEW n \in Int, Fits(GlobalIntRules, n)
  PROVE  ReadBack("global", "int64", GlobalIntRules, n)
<1> DEFINE k == Fitting(GlobalIntRules, n)
<1>1. /\ Len(GlobalIntRules) = 3
      /\ GlobalIntRules[1] = Signed(1, -31, 64, \h80, 0, -31)
      /\ GlobalIntRules[2] = Signed(-1, -2079, -1, \hE8, 1, 32)
      /\ GlobalIntRules[3] = Signed(1, 0, 2112, \hE0, 1, 65)
  BY SMT DEF GlobalIntRules, Rule, Negative
<1>2. \/ k = 1 /\ -31 <= n /\ n <= 64
      \/ k = 2 /\ -2079 <= n /\ n <= -32
      \/ k = 3 /\ 65 <= n /\ n <= 2112
  <2>1. PICK i \in 1..3 : Chosen(GlobalIntRules, n, i)
    <3>1. Len(GlobalIntRules) = 3
      BY <1>1, SMT
    <3> QED
      BY <3>1, Fitted, SMT
  <2>2. CASE i = 1
    BY <1>1, <2>1, <2>2, SMT DEF Chosen, Signed
  <2>3. CASE i = 2
    BY <1>1, <2>1, <2>3, SMT DEF Chosen, Signed
  <2>4. CASE i = 3
    BY <1>1, <2>1, <2>4, SMT DEF Chosen, Signed
  <2> QED
    BY <2>1, <2>2, <2>3, <2>4, SMT
<1>3. "global" \in Contexts
  BY DEF Contexts
<1>4. CASE k = 1 /\ -31 <= n /\ n <= 64
  <2> DEFINE d == Opcodes(\h80, \hDF, "int64", 0, -31)
  <2>1. d \in OpcodeTable["global"]
    BY SMT DEF OpcodeTable, GlobalOpcodes
  <2>2. d.type = "int64" /\ Plain(d) /\ Undoes(d, GlobalIntRules[k]) /\ Covers(d, n)
    BY <1>1, <1>4, Powers, SMT DEF Plain, ContentFor, Undoes, Covers, Opcodes, Row, Signed
  <2> HIDE DEF d
  <2> QED
    BY <1>3, <2>1, <2>2, RuleReadBack, Zenon
<1>5. CASE k = 2 /\ -2079 <= n /\ n <= -32
  <2> DEFINE d == Negated(\hE8, \hEF, \hE8, 1, 32)
  <2>1. d \in OpcodeTable["global"]
    BY SMT DEF OpcodeTable, GlobalOpcodes
  <2>2. d.type = "int64" /\ Plain(d) /\ Undoes(d, GlobalIntRules[k]) /\ Covers(d, n)
    BY <1>1, <1>5, Powers, SMT DEF Plain, ContentFor, Undoes, Covers, Negated, Row, Signed
  <2> HIDE DEF d
  <2> QED
    BY <1>3, <2>1, <2>2, RuleReadBack, Zenon
<1>6. CASE k = 3 /\ 65 <= n /\ n <= 2112
  <2> DEFINE d == Opcodes(\hE0, \hE7, "int64", 1, 65)
  <2>1. d \in OpcodeTable["global"]
    BY SMT DEF OpcodeTable, GlobalOpcodes
  <2>2. d.type = "int64" /\ Plain(d) /\ Undoes(d, GlobalIntRules[k]) /\ Covers(d, n)
    BY <1>1, <1>6, Powers, SMT DEF Plain, ContentFor, Undoes, Covers, Opcodes, Row, Signed
  <2> HIDE DEF d
  <2> QED
    BY <1>3, <2>1, <2>2, RuleReadBack, Zenon
<1> QED
  BY <1>2, <1>4, <1>5, <1>6, SMT

\* A number of the numbers context that the encoder writes in one or two bytes is read
\* as it was (bysant_encoder.go:350-365, bysant_decoder.go:208-250 and 431-447).
THEOREM ContextNumbers ==
  ASSUME NEW n \in Int, Fits(NumberIntRules, n)
  PROVE  ReadBack("number", "int64", NumberIntRules, n)
<1> DEFINE k == Fitting(NumberIntRules, n)
<1>1. /\ Len(NumberIntRules) = 3
      /\ NumberIntRules[1] = Signed(1, -97, 97, \h01, 0, -97)
      /\ NumberIntRules[2] = Signed(-1, -4193, -1, \hD4, 1, 98)
      /\ NumberIntRules[3] = Signed(1, 0, 4193, \hC4, 1, 98)
  BY SMT DEF NumberIntRules, Rule, Negative
<1>2. \/ k = 1 /\ -97 <= n /\ n <= 97
      \/ k = 2 /\ -4193 <= n /\ n <= -98
      \/ k = 3 /\ 98 <= n /\ n <= 4193
  <2>1. PICK i \in 1..3 : Chosen(NumberIntRules, n, i)
    <3>1. Len(NumberIntRules) = 3
      BY <1>1, SMT
    <3> QED
      BY <3>1, Fitted, SMT
  <2>2. CASE i = 1
    BY <1>1, <2>1, <2>2, SMT DEF Chosen, Signed
  <2>3. CASE i = 2
    BY <1>1, <2>1, <2>3, SMT DEF Chosen, Signed
  <2>4. CASE i = 3
    BY <1>1, <2>1, <2>4, SMT DEF Chosen, Signed
  <2> QED
    BY <2>1, <2>2, <2>3, <2>4, SMT
<1>3. "number" \in Contexts
  BY DEF Contexts
<1>4. CASE k = 1 /\ -97 <= n /\ n <= 97
  <2> DEFINE d == Opcodes(\h01, \hC3, "int64", 0, -97)
  <2>1. d \in OpcodeTable["number"]
    BY SMT DEF OpcodeTable, NumberOpcodes
  <2>2. d.type = "int64" /\ Plain(d) /\ Undoes(d, NumberIntRules[k]) /\ Covers(d, n)
    BY <1>1, <1>4, Powers, SMT DEF Plain, ContentFor, Undoes, Covers, Opcodes, Row, Signed
  <2> HIDE DEF d
  <2> QED
    BY <1>3, <2>1, <2>2, RuleReadBack, Zenon
<1>5. CASE k = 2 /\ -4193 <= n /\ n <= -98
  <2> DEFINE d == Negated(\hD4, \hE3, \hD4, 1, 98)
  <2>1. d \in OpcodeTable["number"]
    BY SMT DEF OpcodeTable, NumberOpcodes
  <2>2. d.type = "int64" /\ Plain(d) /\ Undoes(d, NumberIntRules[k]) /\ Covers(d, n)
    BY <1>1, <1>5, Powers, SMT DEF Plain, ContentFor, Undoes, Covers, Negated, Row, Signed
  <2> HIDE DEF d
  <2> QED
    BY <1>3, <2>1, <2>2, RuleReadBack, Zenon
<1>6. CASE k = 3 /\ 98 <= n /\ n <= 4193
  <2> DEFINE d == Opcodes(\hC4, \hD3, "int64", 1, 98)
  <2>1. d \in OpcodeTable["number"]
    BY SMT DEF OpcodeTable, NumberOpcodes
  <2>2. d.type = "int64" /\ Plain(d) /\ Undoes(d, NumberIntRules[k]) /\ Covers(d, n)
    BY <1>1, <1>6, Powers, SMT DEF Plain, ContentFor, Undoes, Covers, Opcodes, Row, Signed
  <2> HIDE DEF d
  <2> QED
    BY <1>3, <2>1, <2>2, RuleReadBack, Zenon
<1> QED
  BY <1>2, <1>4, <1>5, <1>6, SMT

\* An unsigned number that the encoder writes in one to four bytes is read as it was
\* (bysant_encoder.go:385-420, bysant_decoder.go:171-206 and 365-402).
THEOREM Unsigned ==
  ASSUME NEW n \in Int, Fits(UnsignedRules, n)
  PROVE  ReadBack("uis", "uint32", UnsignedRules, n)
<1> DEFINE k == Fitting(UnsignedRules, n)
<1>1. /\ Len(UnsignedRules) = 4
      /\ UnsignedRules[1] = Signed(1, 0, 139, \h3B, 0, 0)
      /\ UnsignedRules[2] = Signed(1, 0, 8331, \hC7, 1, 140)
      /\ UnsignedRules[3] = Signed(1, 0, 1056907, \hE7, 2, 8332)
      /\ UnsignedRules[4] = Signed(1, 0, 135274635, \hF7, 3, 1056908)
  BY SMT DEF UnsignedRules, Rule
<1>2. \/ k = 1 /\ 0 <= n /\ n <= 139
      \/ k = 2 /\ 140 <= n /\ n <= 8331
      \/ k = 3 /\ 8332 <= n /\ n <= 1056907
      \/ k = 4 /\ 1056908 <= n /\ n <= 135274635
  <2>1. PICK i \in 1..4 : Chosen(UnsignedRules, n, i)
    <3>1. Len(UnsignedRules) = 4
      BY <1>1, SMT
    <3> QED
      BY <3>1, Fitted, SMT
  <2>2. CASE i = 1
    BY <1>1, <2>1, <2>2, SMT DEF Chosen, Signed
  <2>3. CASE i = 2
    BY <1>1, <2>1, <2>3, SMT DEF Chosen, Signed
  <2>4. CASE i = 3
    BY <1>1, <2>1, <2>4, SMT DEF Chosen, Signed
  <2>5. CASE i = 4
    BY <1>1, <2>1, <2>5, SMT DEF Chosen, Signed
  <2> QED
    BY <2>1, <2>2, <2>3, <2>4, <2>5, SMT
<1>3. "uis" \in Contexts
  BY DEF Contexts
<1>4. CASE k = 1 /\ 0 <= n /\ n <= 139
  <2> DEFINE d == Opcodes(\h3B, \hC6, "uint32", 0, 0)
  <2>1. d \in OpcodeTable["uis"]
    BY SMT DEF OpcodeTable, UIntStrOpcodes
  <2>2. d.type = "uint32" /\ Plain(d) /\ Undoes(d, UnsignedRules[k]) /\ Covers(d, n)
    BY <1>1, <1>4, Powers, SMT DEF Plain, ContentFor, Undoes, Covers, Opcodes, Row, Signed
  <2> HIDE DEF d
  <2> QED
    BY <1>3, <2>1, <2>2, RuleReadBack, Zenon
<1>5. CASE k = 2 /\ 140 <= n /\ n <= 8331
  <2> DEFINE d == Opcodes(\hC7, \hE6, "uint32", 1, 140)
  <2>1. d \in OpcodeTable["uis"]
    BY SMT DEF OpcodeTable, UIntStrOpcodes
  <2>2. d.type = "uint32" /\ Plain(d) /\ Undoes(d, UnsignedRules[k]) /\ Covers(d, n)
    BY <1>1, <1>5, Powers, SMT DEF Plain, ContentFor, Undoes, Covers, Opcodes, Row, Signed
  <2> HIDE DEF d
  <2> QED
    BY <1>3, <2>1, <2>2, RuleReadBack, Zenon
<1>6. CASE k = 3 /\ 8332 <= n /\ n <= 1056907
  <2> DEFINE d == Opcodes(\hE7, \hF6, "uint32", 2, 8332)
  <2>1. d \in OpcodeTable["uis"]
    BY SMT DEF OpcodeTable, UIntStrOpcodes
  <2>2. d.type = "uint32" /\ Plain(d) /\ Undoes(d, UnsignedRules[k]) /\ Covers(d, n)
    BY <1>1, <1>6, Powers, SMT DEF Plain, ContentFor, Undoes, Covers, Opcodes, Row, Signed
  <2> HIDE DEF d
  <2> QED
    BY <1>3, <2>1, <2>2, RuleReadBack, Zenon
<1>7. CASE k = 4 /\ 1056908 <= n /\ n <= 135274635
  <2> DEFINE d == Opcodes(\hF7, \hFE, "uint32", 3, 1056908)
  <2>1. d \in OpcodeTable["uis"]
    BY SMT DEF OpcodeTable, UIntStrOpcodes
  <2>2. d.type = "uint32" /\ Plain(d) /\ Undoes(d, UnsignedRules[k]) /\ Covers(d, n)
    BY <1>1, <1>7, Powers, SMT DEF Plain, ContentFor, Undoes, Covers, Opcodes, Row, Signed
  <2> HIDE DEF d
  <2> QED
    BY <1>3, <2>1, <2>2, RuleReadBack, Zenon
<1> QED
  BY <1>2, <1>4, <1>5, <1>6, <1>7, SMT

\* The lengths of the strings of the global context.
LEMMA GlobalStrings ==
  ASSUME NEW n \in Int, Fits(StringRules("global"), n)
  PROVE  ReadBack("global", "string", StringRules("global"), n)
<1> DEFINE k == Fitting(StringRules("global"), n)
<1>1. /\ Len(StringRules("global")) = 2
      /\ StringRules("global")[1] = Signed(1, 0, 32, \h03, 0, 0)
      /\ StringRules("global")[2] = Signed(1, 33, 1056, \h24, 1, 33)
  BY SMT DEF StringRules, Rule
<1>2. \/ k = 1 /\ 0 <= n /\ n <= 32
      \/ k = 2 /\ 33 <= n /\ n <= 1056
  <2>1. PICK i \in 1..2 : Chosen(StringRules("global"), n, i)
    <3>1. Len(StringRules("global")) = 2
      BY <1>1, SMT
    <3> QED
      BY <3>1, Fitted, SMT
  <2>2. CASE i = 1
    BY <1>1, <2>1, <2>2, SMT DEF Chosen, Signed
  <2>3. CASE i = 2
    BY <1>1, <2>1, <2>3, SMT DEF Chosen, Signed
  <2> QED
    BY <2>1, <2>2, <2>3, SMT
<1>3. "global" \in Contexts
  BY DEF Contexts
<1>4. CASE k = 1 /\ 0 <= n /\ n <= 32
  <2> DEFINE d == Strings(\h03, \h23, 0, 0)
  <2>1. d \in OpcodeTable["global"]
    BY SMT DEF OpcodeTable, GlobalOpcodes
  <2>2. d.type = "string" /\ Plain(d) /\ Undoes(d, StringRules("global")[k]) /\ Covers(d, n)
    BY <1>1, <1>4, Powers, SMT DEF Plain, ContentFor, Undoes, Covers, Strings, Row, Signed
  <2> HIDE DEF d
  <2> QED
    BY <1>3, <2>1, <2>2, RuleReadBack, Zenon
<1>5. CASE k = 2 /\ 33 <= n /\ n <= 1056
  <2> DEFINE d == Strings(\h24, \h27, 1, 33)
  <2>1. d \in OpcodeTable["global"]
    BY SMT DEF OpcodeTable, GlobalOpcodes
  <2>2. d.type = "string" /\ Plain(d) /\ Undoes(d, StringRules("global")[k]) /\ Covers(d, n)
    BY <1>1, <1>5, Powers, SMT DEF Plain, ContentFor, Undoes, Covers, Strings, Row, Signed
  <2> HIDE DEF d
  <2> QED
    BY <1>3, <2>1, <2>2, RuleReadBack, Zenon
<1> QED
  BY <1>2, <1>4, <1>5, SMT

\* The lengths of the strings of the context of unsigned numbers and strings.
LEMMA ContextStrings ==
  ASSUME NEW n \in Int, Fits(StringRules("uis"), n)
  PROVE  ReadBack("uis", "string", StringRules("uis"), n)
<1> DEFINE k == Fitting(StringRules("uis"), n)
<1>1. /\ Len(StringRules("uis")) = 2
      /\ StringRules("uis")[1] = Signed(1, 0, 47, \h01, 0, 0)
      /\ StringRules("uis")[2] = Signed(1, 48, 2095, \h31, 1, 48)
  BY SMT DEF StringRules, Rule
<1>2. \/ k = 1 /\ 0 <= n /\ n <= 47
      \/ k = 2 /\ 48 <= n /\ n <= 2095
  <2>1. PICK i \in 1..2 : Chosen(StringRules("uis"), n, i)
    <3>1. Len(StringRules("uis")) = 2
      BY <1>1, SMT
    <3> QED
      BY <3>1, Fitted, SMT
  <2>2. CASE i = 1
    BY <1>1, <2>1, <2>2, SMT DEF Chosen, Signed
  <2>3. CASE i = 2
    BY <1>1, <2>1, <2>3, SMT DEF Chosen, Signed
  <2> QED
    BY <2>1, <2>2, <2>3, SMT
<1>3. "uis" \in Contexts
  BY DEF Contexts
<1>4. CASE k = 1 /\ 0 <= n /\ n <= 47
  <2> DEFINE d == Strings(\h01, \h30, 0, 0)
  <2>1. d \in OpcodeTable["uis"]
    BY SMT DEF OpcodeTable, UIntStrOpcodes
  <2>2. d.type = "string" /\ Plain(d) /\ Undoes(d, StringRules("uis")[k]) /\ Covers(d, n)
    BY <1>1, <1>4, Powers, SMT DEF Plain, ContentFor, Undoes, Covers, Strings, Row, Signed
  <2> HIDE DEF d
  <2> QED
    BY <1>3, <2>1, <2>2, RuleReadBack, Zenon
<1>5. CASE k = 2 /\ 48 <= n /\ n <= 2095
  <2> DEFINE d == Strings(\h31, \h38, 1, 48)
  <2>1. d \in OpcodeTable["uis"]
    BY SMT DEF OpcodeTable, UIntStrOpcodes
  <2>2. d.type = "string" /\ Plain(d) /\ Undoes(d, StringRules("uis")[k]) /\ Covers(d, n)
    BY <1>1, <1>5, Powers, SMT DEF Plain, ContentFor, Undoes, Covers, Strings, Row, Signed
  <2> HIDE DEF d
  <2> QED
    BY <1>3, <2>1, <2>2, RuleReadBack, Zenon
<1> QED
  BY <1>2, <1>4, <1>5, SMT

\* The length of a string that the encoder accepts is read as it was, in both contexts
\* that have strings (bysant_encoder.go:248-290, bysant_decoder.go:294-316).
THEOREM StringLengths ==
  ASSUME NEW ctx \in {"global", "uis"}, NEW n \in Int, Fits(StringRules(ctx), n)
  PROVE  ReadBack(ctx, "string", StringRules(ctx), n)
BY GlobalStrings, ContextStrings, Zenon

\* The sizes of the small lists of the global context.
LEMMA GlobalLists ==
  ASSUME NEW n \in Int, Fits(ListRules("global"), n)
  PROVE  ReadBack("global", "list", ListRules("global"), n)
<1> DEFINE k == Fitting(ListRules("global"), n)
<1>1. /\ Len(ListRules("global")) = 2
      /\ ListRules("global")[1] = Signed(1, 0, 0, \h2A, 0, 0)
      /\ ListRules("global")[2] = Signed(1, 1, 9, \h2B, 0, 1)
  BY SMT DEF ListRules, Rule
<1>2. \/ k = 1 /\ 0 <= n /\ n <= 0
      \/ k = 2 /\ 1 <= n /\ n <= 9
  <2>1. PICK i \in 1..2 : Chosen(ListRules("global"), n, i)
    <3>1. Len(ListRules("global")) = 2
      BY <1>1, SMT
    <3> QED
      BY <3>1, Fitted, SMT
  <2>2. CASE i = 1
    BY <1>1, <2>1, <2>2, SMT DEF Chosen, Signed
  <2>3. CASE i = 2
    BY <1>1, <2>1, <2>3, SMT DEF Chosen, Signed
  <2> QED
    BY <2>1, <2>2, <2>3, SMT
<1>3. "global" \in Contexts
  BY DEF Contexts
<1>4. CASE k = 1 /\ 0 <= n /\ n <= 0
  <2> DEFINE d == Opcode(\h2A, "list")
  <2>1. d \in OpcodeTable["global"]
    BY SMT DEF OpcodeTable, GlobalOpcodes
  <2>2. d.type = "list" /\ Plain(d) /\ Undoes(d, ListRules("global")[k]) /\ Covers(d, n)
    BY <1>1, <1>4, Powers, SMT DEF Plain, ContentFor, Undoes, Covers, Opcode, Opcodes, Row, Signed
  <2> HIDE DEF d
  <2> QED
    BY <1>3, <2>1, <2>2, RuleReadBack, Zenon
<1>5. CASE k = 2 /\ 1 <= n /\ n <= 9
  <2> DEFINE d == Opcodes(\h2B, \h33, "list", 0, 1)
  <2>1. d \in OpcodeTable["global"]
    BY SMT DEF OpcodeTable, GlobalOpcodes
  <2>2. d.type = "list" /\ Plain(d) /\ Undoes(d, ListRules("global")[k]) /\ Covers(d, n)
    BY <1>1, <1>5, Powers, SMT DEF Plain, ContentFor, Undoes, Covers, Opcodes, Row, Signed
  <2> HIDE DEF d
  <2> QED
    BY <1>3, <2>1, <2>2, RuleReadBack, Zenon
<1> QED
  BY <1>2, <1>4, <1>5, SMT

\* The sizes of the small lists of the context of lists and maps.
LEMMA ContextLists ==
  ASSUME NEW n \in Int, Fits(ListRules("listMap"), n)
  PROVE  ReadBack("listMap", "list", ListRules("listMap"), n)
<1> DEFINE k == Fitting(ListRules("listMap"), n)
<1>1. /\ Len(ListRules("listMap")) = 2
      /\ ListRules("listMap")[1] = Signed(1, 0, 0, \h01, 0, 0)
      /\ ListRules("listMap")[2] = Signed(1, 1, 60, \h02, 0, 1)
  BY SMT DEF ListRules, Rule
<1>2. \/ k = 1 /\ 0 <= n /\ n <= 0
      \/ k = 2 /\ 1 <= n /\ n <= 60
  <2>1. PICK i \in 1..2 : Chosen(ListRules("listMap"), n, i)
    <3>1. Len(ListRules("listMap")) = 2
      BY <1>1, SMT
    <3> QED
      BY <3>1, Fitted, SMT
  <2>2. CASE i = 1
    BY <1>1, <2>1, <2>2, SMT DEF Chosen, Signed
  <2>3. CASE i = 2
    BY <1>1, <2>1, <2>3, SMT DEF Chosen, Signed
  <2> QED
    BY <2>1, <2>2, <2>3, SMT
<1>3. "listMap" \in Contexts
  BY DEF Contexts
<1>4. CASE k = 1 /\ 0 <= n /\ n <= 0
  <2> DEFINE d == Opcode(\h01, "list")
  <2>1. d \in OpcodeTable["listMap"]
    BY SMT DEF OpcodeTable, ListMapOpcodes
  <2>2. d.type = "list" /\ Plain(d) /\ Undoes(d, ListRules("listMap")[k]) /\ Covers(d, n)
    BY <1>1, <1>4, Powers, SMT DEF Plain, ContentFor, Undoes, Covers, Opcode, Opcodes, Row, Signed
  <2> HIDE DEF d
  <2> QED
    BY <1>3, <2>1, <2>2, RuleReadBack, Zenon
<1>5. CASE k = 2 /\ 1 <= n /\ n <= 60
  <2> DEFINE d == Opcodes(\h02, \h3D, "list", 0, 1)
  <2>1. d \in OpcodeTable["listMap"]
    BY SMT DEF OpcodeTable, ListMapOpcodes
  <2>2. d.type = "list" /\ Plain(d) /\ Undoes(d, ListRules("listMap")[k]) /\ Covers(d, n)
    BY <1>1, <1>5, Powers, SMT DEF Plain, ContentFor, Undoes, Covers, Opcodes, Row, Signed
  <2> HIDE DEF d
  <2> QED
    BY <1>3, <2>1, <2>2, RuleReadBack, Zenon
<1> QED
  BY <1>2, <1>4, <1>5, SMT

\* The sizes of the small maps of the global context.
LEMMA GlobalMaps ==
  ASSUME NEW n \in Int, Fits(MapRules("global"), n)
  PROVE  ReadBack("global", "map", MapRules("global"), n)
<1> DEFINE k == Fitting(MapRules("global"), n)
<1>1. /\ Len(MapRules("global")) = 2
      /\ MapRules("global")[1] = Signed(1, 0, 0, \h41, 0, 0)
      /\ MapRules("global")[2] = Signed(1, 1, 9, \h42, 0, 1)
  BY SMT DEF MapRules, Rule
<1>2. \/ k = 1 /\ 0 <= n /\ n <= 0
      \/ k = 2 /\ 1 <= n /\ n <= 9
  <2>1. PICK i \in 1..2 : Chosen(MapRules("global"), n, i)
    <3>1. Len(MapRules("global")) = 2
      BY <1>1, SMT
    <3> QED
      BY <3>1, Fitted, SMT
  <2>2. CASE i = 1
    BY <1>1, <2>1, <2>2, SMT DEF Chosen, Signed
  <2>3. CASE i = 2
    BY <1>1, <2>1, <2>3, SMT DEF Chosen, Signed
  <2> QED
    BY <2>1, <2>2, <2>3, SMT
<1>3. "global" \in Contexts
  BY DEF Contexts
<1>4. CASE k = 1 /\ 0 <= n /\ n <= 0
  <2> DEFINE d == Opcode(\h41, "map")
  <2>1. d \in OpcodeTable["global"]
    BY SMT DEF OpcodeTable, GlobalOpcodes
  <2>2. d.type = "map" /\ Plain(d) /\ Undoes(d, MapRules("global")[k]) /\ Covers(d, n)
    BY <1>1, <1>4, Powers, SMT DEF Plain, ContentFor, Undoes, Covers, Opcode, Opcodes, Row, Signed
  <2> HIDE DEF d
  <2> QED
    BY <1>3, <2>1, <2>2, RuleReadBack, Zenon
<1>5. CASE k = 2 /\ 1 <= n /\ n <= 9
  <2> DEFINE d == Opcodes(\h42, \h4A, "map", 0, 1)
  <2>1. d \in OpcodeTable["global"]
    BY SMT DEF OpcodeTable, GlobalOpcodes
  <2>2. d.type = "map" /\ Plain(d) /\ Undoes(d, MapRules("global")[k]) /\ Covers(d, n)
    BY <1>1, <1>5, Powers, SMT DEF Plain, ContentFor, Undoes, Covers, Opcodes, Row, Signed
  <2> HIDE DEF d
  <2> QED
    BY <1>3, <2>1, <2>2, RuleReadBack, Zenon
<1> QED
  BY <1>2, <1>4, <1>5, SMT

\* The sizes of the small maps of the context of lists and maps.
LEMMA ContextMaps ==
  ASSUME NEW n \in Int, Fits(MapRules("listMap"), n)
  PROVE  ReadBack("listMap", "map", MapRules("listMap"), n)
<1> DEFINE k == Fitting(MapRules("listMap"), n)
<1>1. /\ Len(MapRules("listMap")) = 2
      /\ MapRules("listMap")[1] = Signed(1, 0, 0, \h83, 0, 0)
      /\ MapRules("listMap")[2] = Signed(1, 1, 60, \h84, 0, 1)
  BY SMT DEF MapRules, Rule
<1>2. \/ k = 1 /\ 0 <= n /\ n <= 0
      \/ k = 2 /\ 1 <= n /\ n <= 60
  <2>1. PICK i \in 1..2 : Chosen(MapRules("listMap"), n, i)
    <3>1. Len(MapRules("listMap")) = 2
      BY <1>1, SMT
    <3> QED
      BY <3>1, Fitted, SMT
  <2>2. CASE i = 1
    BY <1>1, <2>1, <2>2, SMT DEF Chosen, Signed
  <2>3. CASE i = 2
    BY <1>1, <2>1, <2>3, SMT DEF Chosen, Signed
  <2> QED
    BY <2>1, <2>2, <2>3, SMT
<1>3. "listMap" \in Contexts
  BY DEF Contexts
<1>4. CASE k = 1 /\ 0 <= n /\ n <= 0
  <2> DEFINE d == Opcode(\h83, "map")
  <2>1. d \in OpcodeTable["listMap"]
    BY SMT DEF OpcodeTable, ListMapOpcodes
  <2>2. d.type = "map" /\ Plain(d) /\ Undoes(d, MapRules("listMap")[k]) /\ Covers(d, n)
    BY <1>1, <1>4, Powers, SMT DEF Plain, ContentFor, Undoes, Covers, Opcode, Opcodes, Row, Signed
  <2> HIDE DEF d
  <2> QED
    BY <1>3, <2>1, <2>2, RuleReadBack, Zenon
<1>5. CASE k = 2 /\ 1 <= n /\ n <= 60
  <2> DEFINE d == Opcodes(\h84, \hBF, "map", 0, 1)
  <2>1. d \in OpcodeTable["listMap"]
    BY SMT DEF OpcodeTable, ListMapOpcodes
  <2>2. d.type = "map" /\ Plain(d) /\ Undoes(d, MapRules("listMap")[k]) /\ Covers(d, n)
    BY <1>1, <1>5, Powers, SMT DEF Plain, ContentFor, Undoes, Covers, Opcodes, Row, Signed
  <2> HIDE DEF d
  <2> QED
    BY <1>3, <2>1, <2>2, RuleReadBack, Zenon
<1> QED
  BY <1>2, <1>4, <1>5, SMT

\* The size of a list or a map that the encoder writes in its opcode is read as it was, as
\* the size of the same container, in both contexts that have containers
\* (bysant_encoder.go:433-580, bysant_decoder.go:82-169 and 252-293).
THEOREM SmallContainers ==
  ASSUME NEW ctx \in {"global", "listMap"}, NEW n \in Int
  PROVE  /\ Fits(ListRules(ctx), n) => ReadBack(ctx, "list", ListRules(ctx), n)
         /\ Fits(MapRules(ctx), n) => ReadBack(ctx, "map", MapRules(ctx), n)
BY GlobalLists, ContextLists, GlobalMaps, ContextMaps, Zenon

-----------------------------------------------------------------------------
(* What the encoder writes, and what it has still to write.                *)

LEMMA ChunkTypes ==
  /\ \A b \in 0..255 : Byte(b) \in Chunks
  /\ \A n \in Nat \ {0} : <<"text", n>> \in Chunks
  /\ \A n \in Int : <<"int64", n>> \in Chunks
  /\ \A n \in Nat : <<"uint32", n>> \in Chunks
  /\ \A o \in Objects : o[1] \in Floats => o \in Chunks
  /\ Torn \in Chunks
BY Zenon DEF Chunks, Byte, Floats

LEMMA ElementsIn == \A S : \A s \in Seq(S) : \A i \in 1..Len(s) : s[i] \in S
OBVIOUS

LEMMA BytesType ==
  ASSUME NEW s \in Seq(0..255)
  PROVE  Bytes(s) \in Seq(Chunks)
<1>1. \A i \in 1..Len(s) : Byte(s[i]) \in Chunks
  <2>1. \A i \in 1..Len(s) : s[i] \in 0..255
    BY ElementsIn
  <2> QED
    BY <2>1, ChunkTypes, Zenon
<1>2. DOMAIN s = 1..Len(s) /\ Len(s) \in Nat
  OBVIOUS
<1> QED
  BY <1>1, <1>2 DEF Bytes

LEMMA EncodedInt ==
  ASSUME NEW ctx \in {"global", "number"}, NEW n \in Int
  PROVE  EncodeInt(ctx, n) \in Seq(Chunks)
<1>1. CASE Fits(IntRules(ctx), n)
  <2>1. Header(IntRules(ctx), n) \in Seq(0..255)
    BY <1>1, GlobalNumbers, ContextNumbers, Zenon DEF IntRules, ReadBack
  <2> QED
    BY <1>1, <2>1, BytesType DEF EncodeInt
<1>2. CASE ~Fits(IntRules(ctx), n)
  <2>1. Byte(\hFD) \in Chunks /\ <<"int64", n>> \in Chunks
    BY ChunkTypes
  <2> QED
    BY <1>2, <2>1 DEF EncodeInt
<1> QED
  BY <1>1, <1>2

LEMMA EncodedUnsigned ==
  ASSUME NEW n \in Nat
  PROVE  EncodeUnsigned(n) \in Seq(Chunks)
<1>1. CASE Fits(UnsignedRules, n)
  <2>1. Header(UnsignedRules, n) \in Seq(0..255)
    <3>1. n \in Int
      OBVIOUS
    <3> QED
      BY <1>1, <3>1, Unsigned, Zenon DEF ReadBack
  <2> QED
    BY <1>1, <2>1, BytesType DEF EncodeUnsigned
<1>2. CASE ~Fits(UnsignedRules, n)
  <2>1. Byte(\hFF) \in Chunks /\ <<"uint32", n>> \in Chunks
    BY ChunkTypes
  <2> QED
    BY <1>2, <2>1 DEF EncodeUnsigned
<1> QED
  BY <1>1, <1>2

LEMMA EncodedText ==
  ASSUME NEW ctx \in {"global", "uis"}, NEW n \in Nat, Fits(StringRules(ctx), n)
  PROVE  Bytes(Header(StringRules(ctx), n)) \o Text(n) \in Seq(Chunks)
<1>1. Header(StringRules(ctx), n) \in Seq(0..255)
  <2>1. n \in Int
    OBVIOUS
  <2> QED
    BY <2>1, StringLengths, Zenon DEF ReadBack
<1>2. Bytes(Header(StringRules(ctx), n)) \in Seq(Chunks)
  BY <1>1, BytesType
<1>3. Text(n) \in Seq(Chunks)
  BY ChunkTypes DEF Text
<1> QED
  BY <1>2, <1>3, ConcatElems

LEMMA TooLarge ==
  ASSUME NEW ctx \in {"global", "listMap"}, NEW n \in Nat
  PROVE  /\ ~Fits(ListRules(ctx), n) => n - SmallLimit(ctx) - 1 \in Nat
         /\ ~Fits(MapRules(ctx), n) => n - SmallLimit(ctx) - 1 \in Nat
<1>1. SmallLimit(ctx) \in {9, 60}
  BY DEF SmallLimit
<1>2. /\ Len(ListRules(ctx)) = 2 /\ Len(MapRules(ctx)) = 2
      /\ ListRules(ctx)[1].from = 0 /\ ListRules(ctx)[1].to = 0
      /\ ListRules(ctx)[2].from = 1 /\ ListRules(ctx)[2].to = SmallLimit(ctx)
      /\ MapRules(ctx)[1].from = 0 /\ MapRules(ctx)[1].to = 0
      /\ MapRules(ctx)[2].from = 1 /\ MapRules(ctx)[2].to = SmallLimit(ctx)
  BY SMT DEF ListRules, MapRules, Rule, Signed, SmallLimit
<1>3. ASSUME NEW rules, Len(rules) = 2, ~Fits(rules, n),
             rules[1].from = 0, rules[1].to = 0, rules[2].from = 1, rules[2].to = SmallLimit(ctx)
      PROVE  n - SmallLimit(ctx) - 1 \in Nat
  <2>1. \A i \in 1..2 : n \notin rules[i].from..rules[i].to
    BY <1>3, Fitted
  <2>2. n \notin 0..0 /\ n \notin 1..SmallLimit(ctx)
    BY <1>3, <2>1
  <2> QED
    BY <1>1, <2>2
<1> QED
  BY <1>2, <1>3

LEMMA EncodedSize ==
  ASSUME NEW ctx \in {"global", "listMap"}, NEW n \in Nat
  PROVE  /\ EncodeSize(ctx, ListRules(ctx), LargeList(ctx), n) \in Seq(Chunks)
         /\ EncodeSize(ctx, MapRules(ctx), LargeMap(ctx), n) \in Seq(Chunks)
<1>1. ASSUME NEW rules, NEW large \in 0..255,
             Fits(rules, n) => Header(rules, n) \in Seq(0..255),
             ~Fits(rules, n) => n - SmallLimit(ctx) - 1 \in Nat
      PROVE  EncodeSize(ctx, rules, large, n) \in Seq(Chunks)
  <2>1. CASE Fits(rules, n)
    BY <1>1, <2>1, BytesType DEF EncodeSize
  <2>2. CASE ~Fits(rules, n)
    <3>1. EncodeUnsigned(n - SmallLimit(ctx) - 1) \in Seq(Chunks)
      BY <1>1, <2>2, EncodedUnsigned
    <3>2. <<Byte(large)>> \in Seq(Chunks)
      BY ChunkTypes
    <3>3. <<Byte(large)>> \o EncodeUnsigned(n - SmallLimit(ctx) - 1) \in Seq(Chunks)
      BY <3>1, <3>2, ConcatElems
    <3> QED
      BY <2>2, <3>3 DEF EncodeSize
  <2> QED
    BY <2>1, <2>2
<1>2. LargeList(ctx) \in 0..255 /\ LargeMap(ctx) \in 0..255
  BY DEF LargeList, LargeMap
<1>3. n \in Int
  OBVIOUS
<1>4. /\ Fits(ListRules(ctx), n) => Header(ListRules(ctx), n) \in Seq(0..255)
      /\ Fits(MapRules(ctx), n) => Header(MapRules(ctx), n) \in Seq(0..255)
  <2>1. \A type, rules : ReadBack(ctx, type, rules, n) => Header(rules, n) \in Seq(0..255)
    BY Zenon DEF ReadBack
  <2>2. /\ Fits(ListRules(ctx), n) => ReadBack(ctx, "list", ListRules(ctx), n)
        /\ Fits(MapRules(ctx), n) => ReadBack(ctx, "map", MapRules(ctx), n)
    BY <1>3, SmallContainers
  <2> QED
    BY <2>1, <2>2, Zenon
<1> QED
  BY <1>1, <1>2, <1>4, TooLarge, Zenon

Todo == Contexts \X Objects

LEMMA EncodedList ==
  ASSUME NEW ctx \in {"global", "listMap"}, NEW s \in Seq(Objects)
  PROVE  EncodeList(ctx, s).chunks \in Seq(Chunks) /\ EncodeList(ctx, s).rest \in Seq(Todo)
<1>1. EncodeSize(ctx, ListRules(ctx), LargeList(ctx), Len(s)) \in Seq(Chunks)
  <2>1. Len(s) \in Nat
    OBVIOUS
  <2> QED
    BY <2>1, EncodedSize
<1>2. Elements(s) \in Seq(Todo)
  <2>1. \A i \in 1..Len(s) : <<"global", s[i]>> \in Todo
    BY DEF Todo, Contexts
  <2>2. DOMAIN s = 1..Len(s) /\ Len(s) \in Nat
    OBVIOUS
  <2> QED
    BY <2>1, <2>2 DEF Elements
<1> QED
  BY <1>1, <1>2, Zenon DEF EncodeList, Written

LEMMA EncodedMap ==
  ASSUME NEW ctx \in {"global", "listMap"}, NEW m \in Seq(Objects \X Objects)
  PROVE  EncodeMap(ctx, m).chunks \in Seq(Chunks) /\ EncodeMap(ctx, m).rest \in Seq(Todo)
<1>1. Len(m) \in Nat
  OBVIOUS
<1>2. EncodeSize(ctx, MapRules(ctx), LargeMap(ctx), Len(m)) \in Seq(Chunks)
  BY <1>1, EncodedSize
<1>3. Pairs(m) \in Seq(Todo)
  <2>1. ASSUME NEW k \in 1..(2 * Len(m))
        PROVE  (IF k % 2 = 1 THEN <<"uis", m[(k + 1) \div 2][1]>> ELSE <<"global", m[k \div 2][2]>>) \in Todo
    <3>1. CASE k % 2 = 1
      <4>1. (k + 1) \div 2 \in 1..Len(m)
        BY <1>1, <3>1
      <4>2. m[(k + 1) \div 2][1] \in Objects
        BY <4>1
      <4> QED
        BY <3>1, <4>2 DEF Todo, Contexts
    <3>2. CASE k % 2 # 1
      <4>1. k \div 2 \in 1..Len(m)
        BY <1>1, <3>2
      <4>2. m[k \div 2][2] \in Objects
        BY <4>1
      <4> QED
        BY <3>2, <4>2 DEF Todo, Contexts
    <3> QED
      BY <3>1, <3>2
  <2>2. 2 * Len(m) \in Nat
    BY <1>1
  <2> QED
    BY <2>1, <2>2 DEF Pairs
<1> QED
  BY <1>2, <1>3, Zenon DEF EncodeMap, Written

LEMMA EncodedFields ==
  ASSUME NEW type \in BodyTypes, NEW fields \in Seq(Objects), Len(fields) = 3
  PROVE  /\ EncodeFields(EncodeTo[type], fields).chunks \in Seq(Chunks)
         /\ EncodeFields(EncodeTo[type], fields).rest \in Seq(Todo)
<1>1. EncodeTo[type].op \in 0..255 /\ \A i \in 1..3 : EncodeTo[type].fields[i] \in Contexts
  <2> USE DEF EncodesAs, Contexts
  <2>1. BodyTypes = {"envelope", "message", "response", "deltas", "quasi"}
    BY DEF BodyTypes, DecodeFrom
  <2>2. CASE type = "envelope"
    BY <2>2 DEF EncodeTo, EnvelopeEncodeTo
  <2>3. CASE type = "message"
    BY <2>3 DEF EncodeTo, MessageEncodeTo
  <2>4. CASE type = "response"
    BY <2>4 DEF EncodeTo, ResponseEncodeTo
  <2>5. CASE type = "deltas"
    BY <2>5 DEF EncodeTo, DeltasEncodeTo
  <2>6. CASE type = "quasi"
    BY <2>6 DEF EncodeTo, QuasiEncodeTo
  <2> QED
    BY <2>1, <2>2, <2>3, <2>4, <2>5, <2>6
<1>2. <<Byte(EncodeTo[type].op)>> \in Seq(Chunks)
  <2>1. Byte(EncodeTo[type].op) \in Chunks
    BY <1>1, ChunkTypes, Zenon
  <2> QED
    BY <2>1
<1>3. \A i \in 1..3 : <<EncodeTo[type].fields[i], fields[i]>> \in Todo
  <2>1. \A i \in 1..3 : fields[i] \in Objects
    BY ElementsIn
  <2> QED
    BY <1>1, <2>1, Zenon DEF Todo
<1>4. DOMAIN fields = 1..3
  OBVIOUS
<1>5. [i \in DOMAIN fields |-> <<EncodeTo[type].fields[i], fields[i]>>] \in Seq(Todo)
  BY <1>3, <1>4
<1> QED
  BY <1>2, <1>5, Zenon DEF EncodeFields, Written

\* How an object whose type the context has is encoded.
EncodingByType(ctx, o) ==
  /\ o[1] = "nil" => Encoding(ctx, o) = Written(<<Byte(\h00)>>, <<>>)
  /\ o[1] = "bool" => Encoding(ctx, o) = Written(<<Byte(IF o[2] THEN \h01 ELSE \h02)>>, <<>>)
  /\ o[1] \in IntTypes("number") => Encoding(ctx, o) = Written(EncodeInt(ctx, o[2]), <<>>)
  /\ o[1] = "float32" => Encoding(ctx, o) = Written(<<Byte(\hFE), o>>, <<>>)
  /\ o[1] = "float64" => Encoding(ctx, o) = Written(<<Byte(\hFF), o>>, <<>>)
  /\ o[1] = "uint32" => Encoding(ctx, o) = Written(EncodeUnsigned(o[2]), <<>>)
  /\ o[1] \in TextTypes => Encoding(ctx, o) = EncodeString(ctx, o[2])
  /\ o[1] = "list" => Encoding(ctx, o) = EncodeList(ctx, o[2])
  /\ o[1] = "slice" => Encoding(ctx, o) = EncodeList(ctx, convertSliceToInterface(o[2]))
  /\ o[1] = "map" => Encoding(ctx, o) = EncodeMap(ctx, o[2])
  /\ o[1] \in BodyTypes => Encoding(ctx, o) = EncodeFields(EncodeTo[o[1]], o[2])

LEMMA EncodingOf ==
  ASSUME NEW ctx \in Contexts, NEW o, o[1] \in EncodableTypes[ctx]
  PROVE  EncodingByType(ctx, o)
<1>1. DOMAIN EncodeTo = BodyTypes
      /\ BodyTypes = {"envelope", "message", "response", "deltas", "quasi"}
  BY DEF EncodeTo, BodyTypes, DecodeFrom
<1>2. IntTypes("number") = {"int", "int8", "int16", "int32", "int64"} /\ TextTypes = {"string", "bytes"}
  BY DEF IntTypes, TextTypes
<1>3. o[1] = "nil" => Encoding(ctx, o) = Written(<<Byte(\h00)>>, <<>>)
  BY <1>1, <1>2, Zenon DEF Encoding
<1>4. o[1] = "bool" => Encoding(ctx, o) = Written(<<Byte(IF o[2] THEN \h01 ELSE \h02)>>, <<>>)
  BY <1>1, <1>2, Zenon DEF Encoding
<1>5. o[1] \in IntTypes("number") => Encoding(ctx, o) = Written(EncodeInt(ctx, o[2]), <<>>)
  BY <1>1, <1>2, Zenon DEF Encoding
<1>6. o[1] = "float32" => Encoding(ctx, o) = Written(<<Byte(\hFE), o>>, <<>>)
  BY <1>1, <1>2, Zenon DEF Encoding
<1>7. o[1] = "float64" => Encoding(ctx, o) = Written(<<Byte(\hFF), o>>, <<>>)
  BY <1>1, <1>2, Zenon DEF Encoding
<1>8. o[1] = "uint32" => Encoding(ctx, o) = Written(EncodeUnsigned(o[2]), <<>>)
  BY <1>1, <1>2, Zenon DEF Encoding
<1>9. o[1] \in TextTypes => Encoding(ctx, o) = EncodeString(ctx, o[2])
  BY <1>1, <1>2, Zenon DEF Encoding
<1>10. o[1] = "list" => Encoding(ctx, o) = EncodeList(ctx, o[2])
  BY <1>1, <1>2, Zenon DEF Encoding
<1>11. o[1] = "slice" => Encoding(ctx, o) = EncodeList(ctx, convertSliceToInterface(o[2]))
  BY <1>1, <1>2, Zenon DEF Encoding
<1>12. o[1] = "map" => Encoding(ctx, o) = EncodeMap(ctx, o[2])
  BY <1>1, <1>2, Zenon DEF Encoding
<1>13. o[1] \in BodyTypes => Encoding(ctx, o) = EncodeFields(EncodeTo[o[1]], o[2])
  BY <1>1, <1>2, Zenon DEF Encoding
<1> QED
  BY <1>3, <1>4, <1>5, <1>6, <1>7, <1>8, <1>9, <1>10, <1>11, <1>12, <1>13, Zenon DEF EncodingByType

\* Where the types of objects are encodable, and what ObjectsAssumption says of them.
LEMMA EncodableIn ==
  ASSUME NEW ctx \in Contexts, NEW type \in EncodableTypes[ctx]
  PROVE  /\ \/ type \in {"nil", "bool", "float32", "float64", "uint32", "list", "slice", "map"}
            \/ type \in IntTypes("number") \/ type \in TextTypes \/ type \in BodyTypes
         /\ type \in IntTypes("number") => ctx \in {"global", "number"}
         /\ type \in TextTypes => ctx \in {"global", "uis"}
         /\ type \in {"list", "slice", "map"} => ctx \in {"global", "listMap"}
BY DEF Contexts, EncodableTypes, IntTypes, TextTypes, Floats, EncodeTo, BodyTypes, DecodeFrom

LEMMA ObjectFacts ==
  ASSUME NEW o \in Objects
  PROVE  /\ o[1] \in Types
         /\ o[1] \in IntTypes("number") => o[2] \in Int
         /\ o[1] \in TextTypes => o[2] \in Nat
         /\ o[1] = "uint32" => o[2] \in Nat
         /\ o[1] = "list" => o[2] \in Seq(Objects)
         /\ o[1] = "slice" => convertSliceToInterface(o[2]) \in Seq(Objects)
         /\ o[1] = "slice" => o[2][1] \in SliceTypes
         /\ o[1] = "map" => o[2] \in Seq(Objects \X Objects)
         /\ o[1] = "map" => \A i \in DOMAIN o[2] : o[2][i][1][1] = "string"
         /\ o[1] \in BodyTypes => o[2] \in Seq(Objects) /\ Len(o[2]) = 3
         /\ o[1] \in BodyTypes => \A i \in 1..3 : o[2][i][1] \in FieldTypes[o[1]][i]
         /\ o[1] \in {"deltas", "quasi"} => OneType(o[2])
         /\ o[1] = "nil" => o = <<"nil">>
         /\ o[1] = "bool" => o[2] \in BOOLEAN
         /\ o[1] # "nil" => o = <<o[1], o[2]>>
<1>1. DOMAIN EncodeTo = BodyTypes
  BY DEF EncodeTo, BodyTypes, DecodeFrom
<1> QED
  BY <1>1, ObjectsAssumption, Zenon

LEMMA EncodingType ==
  ASSUME NEW ctx \in Contexts, NEW o \in Objects, Encoding(ctx, o).ok
  PROVE  Encoding(ctx, o).chunks \in Seq(Chunks) /\ Encoding(ctx, o).rest \in Seq(Todo)
<1>1. o[1] \in EncodableTypes[ctx]
  BY Zenon DEF Encoding, Unsupported
<1>0. EncodingByType(ctx, o)
  BY <1>1, EncodingOf
<1>2. \A chunks, rest : chunks \in Seq(Chunks) /\ rest \in Seq(Todo) =>
        Written(chunks, rest).chunks \in Seq(Chunks) /\ Written(chunks, rest).rest \in Seq(Todo)
  BY Zenon DEF Written
<1>3. <<>> \in Seq(Todo)
  BY EmptyType
<1>4. \A b \in 0..255 : <<Byte(b)>> \in Seq(Chunks)
  BY ChunkTypes
<1>5. CASE o[1] \in {"nil", "bool"}
  <2>1. 0 \in 0..255 /\ 1 \in 0..255 /\ 2 \in 0..255
    OBVIOUS
  <2>2. \E b \in 0..255 : Encoding(ctx, o) = Written(<<Byte(b)>>, <<>>)
    <3>1. CASE o[1] = "nil"
      <4>1. Encoding(ctx, o) = Written(<<Byte(0)>>, <<>>)
        BY <1>0, <3>1, Zenon DEF EncodingByType
      <4> QED
        BY <2>1, <4>1
    <3>2. CASE o[1] = "bool"
      <4>1. Encoding(ctx, o) = Written(<<Byte(IF o[2] THEN 1 ELSE 2)>>, <<>>)
        BY <1>0, <3>2, Zenon DEF EncodingByType
      <4> QED
        BY <2>1, <4>1, Zenon
    <3> QED
      BY <1>5, <3>1, <3>2
  <2> QED
    BY <1>2, <1>3, <1>4, <2>2, Zenon
<1>6. CASE o[1] \in Floats
  <2>1. o \in Chunks /\ \hFE \in 0..255 /\ \hFF \in 0..255
    BY <1>6, ChunkTypes
  <2>2. \A b \in 0..255 : <<Byte(b), o>> \in Seq(Chunks)
    BY <2>1, ChunkTypes
  <2>3. \E b \in 0..255 : Encoding(ctx, o) = Written(<<Byte(b), o>>, <<>>)
    <3>1. CASE o[1] = "float32"
      <4>1. Encoding(ctx, o) = Written(<<Byte(\hFE), o>>, <<>>)
        BY <1>0, <3>1, Zenon DEF EncodingByType
      <4> QED
        BY <2>1, <4>1
    <3>2. CASE o[1] = "float64"
      <4>1. Encoding(ctx, o) = Written(<<Byte(\hFF), o>>, <<>>)
        BY <1>0, <3>2, Zenon DEF EncodingByType
      <4> QED
        BY <2>1, <4>1
    <3> QED
      BY <1>6, <3>1, <3>2 DEF Floats
  <2> QED
    BY <1>2, <1>3, <2>2, <2>3, Zenon
<1>7. CASE o[1] \in IntTypes("number")
  <2>1. EncodeInt(ctx, o[2]) \in Seq(Chunks)
    BY <1>1, <1>7, EncodableIn, ObjectFacts, EncodedInt, Zenon
  <2>2. Encoding(ctx, o) = Written(EncodeInt(ctx, o[2]), <<>>)
    BY <1>0, <1>7, Zenon DEF EncodingByType
  <2> QED
    BY <1>2, <1>3, <2>1, <2>2, Zenon
<1>8. CASE o[1] = "uint32"
  <2>1. EncodeUnsigned(o[2]) \in Seq(Chunks)
    BY <1>8, ObjectFacts, EncodedUnsigned, Zenon
  <2>2. Encoding(ctx, o) = Written(EncodeUnsigned(o[2]), <<>>)
    BY <1>0, <1>8, Zenon DEF EncodingByType
  <2> QED
    BY <1>2, <1>3, <2>1, <2>2, Zenon
<1>9. CASE o[1] \in TextTypes
  <2>1. Encoding(ctx, o) = EncodeString(ctx, o[2])
    BY <1>0, <1>9, Zenon DEF EncodingByType
  <2>2. Fits(StringRules(ctx), o[2])
    <3>1. ~Fits(StringRules(ctx), o[2]) => EncodeString(ctx, o[2]) = Unsupported
      BY Zenon DEF EncodeString
    <3>2. ~Unsupported.ok
      BY Zenon DEF Unsupported
    <3> QED
      BY <2>1, <3>1, <3>2, Zenon
  <2>3. Bytes(Header(StringRules(ctx), o[2])) \o Text(o[2]) \in Seq(Chunks)
    BY <1>1, <1>9, <2>2, EncodableIn, ObjectFacts, EncodedText, Zenon
  <2>4. Encoding(ctx, o) = Written(Bytes(Header(StringRules(ctx), o[2])) \o Text(o[2]), <<>>)
    BY <2>1, <2>2, Zenon DEF EncodeString
  <2> QED
    BY <1>2, <1>3, <2>3, <2>4, Zenon
<1>10. CASE o[1] \in {"list", "slice"}
  <2>1. ctx \in {"global", "listMap"}
    BY <1>1, <1>10, EncodableIn, Zenon
  <2>2. \E s \in Seq(Objects) : Encoding(ctx, o) = EncodeList(ctx, s)
    <3>1. CASE o[1] = "list"
      <4>1. Encoding(ctx, o) = EncodeList(ctx, o[2])
        BY <1>0, <3>1, Zenon DEF EncodingByType
      <4> QED
        BY <3>1, <4>1, ObjectFacts, Zenon
    <3>2. CASE o[1] = "slice"
      <4>1. Encoding(ctx, o) = EncodeList(ctx, convertSliceToInterface(o[2]))
        BY <1>0, <3>2, Zenon DEF EncodingByType
      <4> QED
        BY <3>2, <4>1, ObjectFacts, Zenon
    <3> QED
      BY <1>10, <3>1, <3>2
  <2> QED
    BY <2>1, <2>2, EncodedList, Zenon
<1>11. CASE o[1] = "map"
  <2>1. ctx \in {"global", "listMap"} /\ o[2] \in Seq(Objects \X Objects)
    BY <1>1, <1>11, EncodableIn, ObjectFacts, Zenon
  <2>2. Encoding(ctx, o) = EncodeMap(ctx, o[2])
    BY <1>0, <1>11, Zenon DEF EncodingByType
  <2> QED
    BY <2>1, <2>2, EncodedMap, Zenon
<1>12. CASE o[1] \in BodyTypes
  <2>1. o[2] \in Seq(Objects) /\ Len(o[2]) = 3
    BY <1>12, ObjectFacts, Zenon
  <2>2. Encoding(ctx, o) = EncodeFields(EncodeTo[o[1]], o[2])
    BY <1>0, <1>12, Zenon DEF EncodingByType
  <2> QED
    BY <1>12, <2>1, <2>2, EncodedFields, Zenon
<1> QED
  BY <1>1, <1>5, <1>6, <1>7, <1>8, <1>9, <1>10, <1>11, <1>12, EncodableIn, Zenon DEF Floats

-----------------------------------------------------------------------------
(* What the opcodes are read as.                                           *)

Sizes == {"listSize", "mapSize"}

\* What the cases of the decoder have in common, and that those of the UIS context have
\* neither integers nor objects made of others.
RowType(ctx, r) ==
  /\ r.width \in 0..3 /\ r.base \in Int /\ r.sign \in {1, -1} /\ r.zero \in 0..255
  /\ r.content \in {"none", "text", "int32", "int64", "uint32", "float32", "float64"}
  /\ r.type \in Containers \/ r.content = "text" => r.sign = 1 /\ r.base \in Nat
  /\ ctx = "uis" => r.type \in {"nil", "string", "uint32"} /\ r.content \in {"none", "text", "uint32"}

LEMMA RowTypes ==
  ASSUME NEW ctx \in Contexts, NEW r \in OpcodeTable[ctx]
  PROVE  RowType(ctx, r)
<1> USE DEF OpcodeTable, Row, Opcodes, Strings, Opcode, Negated, Wide, WideOpcodes, RowType, Containers
<1>1. CASE ctx = "global"
  BY <1>1, SMTT(60) DEF GlobalOpcodes
<1>2. CASE ctx = "uis"
  BY <1>2, SMTT(60) DEF UIntStrOpcodes
<1>3. CASE ctx = "number"
  BY <1>3, SMTT(60) DEF NumberOpcodes
<1>4. CASE ctx = "listMap"
  BY <1>4, SMTT(60) DEF ListMapOpcodes
<1> QED
  BY <1>1, <1>2, <1>3, <1>4 DEF Contexts

LEMMA KnownRow ==
  ASSUME NEW ctx \in Contexts, NEW op, Known(ctx, op)
  PROVE  RowType(ctx, RuleOf(ctx, op))
<1>1. RuleOf(ctx, op) \in OpcodeTable[ctx]
  BY Zenon DEF Known, RuleOf
<1> QED
  BY <1>1, RowTypes

LEMMA ValueType ==
  ASSUME NEW ctx, NEW r, RowType(ctx, r), NEW bytes, \A i \in 1..(r.width + 1) : bytes[i] \in 0..255
  PROVE  /\ Value(r, bytes) \in Int
         /\ r.sign = 1 /\ r.base \in Nat => Value(r, bytes) \in Nat
<1> DEFINE w == r.width
           top == TopByte(r, bytes[1])
           D(i) == IF i <= w THEN bytes[i + 1] * Power256[w - i + 1] ELSE 0
           total == r.base + top * Power256[w + 1] + D(1) + D(2) + D(3)
<1>1. w \in 0..3 /\ r.base \in Int /\ r.sign \in {1, -1} /\ r.zero \in 0..255
  BY DEF RowType
<1>2. top \in 0..255
  <2>1. bytes[1] \in 0..255
    BY <1>1
  <2>2. \A n \in Int : n % 256 \in 0..255
    OBVIOUS
  <2>3. \A b, z \in 0..255 : b - z \in Int
    OBVIOUS
  <2> QED
    BY <1>1, <2>1, <2>2, <2>3, Zenon DEF TopByte
<1>3. \A k \in 1..4 : Power256[k] \in Nat
  BY Powers
<1>4. \A i \in 1..3 : D(i) \in Nat
  <2> SUFFICES ASSUME NEW i \in 1..3, i <= w PROVE bytes[i + 1] * Power256[w - i + 1] \in Nat
    OBVIOUS
  <2>1. w - i + 1 \in 1..4 /\ i + 1 \in 1..(w + 1)
    BY <1>1
  <2>2. bytes[i + 1] \in 0..255
    BY <2>1
  <2>3. bytes[i + 1] \in Nat
    BY <2>2
  <2>4. Power256[w - i + 1] \in Nat
    BY <1>3, <2>1
  <2> QED
    BY <2>3, <2>4
<1>5. top * Power256[w + 1] \in Nat
  <2>1. Power256[w + 1] \in Nat
    BY <1>1, <1>3
  <2> HIDE DEF top, w
  <2> QED
    BY <1>2, <2>1
<1>6. Value(r, bytes) = IF w = 3 /\ top >= 127 THEN r.sign * Beyond ELSE r.sign * total
  BY Zenon DEF Value
<1>7. Beyond \in Nat
  BY SMT DEF Beyond
<1> HIDE DEF top, D, w
<1>8. total \in Int /\ (r.base \in Nat => total \in Nat)
  <2>1. D(1) \in Nat /\ D(2) \in Nat /\ D(3) \in Nat
    BY <1>4
  <2> QED
    BY <1>1, <1>5, <2>1
<1> HIDE DEF total
<1> QED
  BY <1>1, <1>6, <1>7, <1>8

-----------------------------------------------------------------------------
(* The frames of the decoder.                                              *)

\* The parts of a frame are what was read, of any kind.
IsSeq(s) == \E S : s \in Seq(S)

LEMMA SeqDomain ==
  ASSUME NEW s, IsSeq(s)
  PROVE  Len(s) \in Nat /\ DOMAIN s = 1..Len(s) /\ (s = <<>> <=> Len(s) = 0)
BY DEF IsSeq

LEMMA SeqAppended ==
  ASSUME NEW s, IsSeq(s), NEW x
  PROVE  /\ IsSeq(Append(s, x)) /\ Len(Append(s, x)) = Len(s) + 1
         /\ \A i \in 1..Len(Append(s, x)) : IF i = Len(s) + 1 THEN Append(s, x)[i] = x
                                          ELSE i \in DOMAIN s /\ Append(s, x)[i] = s[i]
<1>1. PICK S : s \in Seq(S)
  BY DEF IsSeq
<1>2. s \in Seq(S \union {x}) /\ x \in S \union {x}
  BY <1>1
<1>3. Append(s, x) \in Seq(S \union {x})
  BY <1>2
<1> QED
  BY <1>2, <1>3, AppendElems DEF IsSeq

LEMMA SeqTail ==
  ASSUME NEW s, IsSeq(s), s # <<>>
  PROVE  /\ IsSeq(Tail(s)) /\ Head(s) = s[1] /\ 1 \in DOMAIN s
         /\ \A i \in DOMAIN Tail(s) : i + 1 \in DOMAIN s /\ i + 1 # 1 /\ Tail(s)[i] = s[i + 1]
<1>1. PICK S : s \in Seq(S)
  BY DEF IsSeq
<1>2. Tail(s) \in Seq(S)
  BY <1>1
<1>3. DOMAIN Tail(s) = 1..Len(Tail(s)) /\ DOMAIN s = 1..Len(s) /\ 1 \in DOMAIN s
  BY <1>1, <1>2
<1> QED
  BY <1>1, <1>2, <1>3, TailElems DEF IsSeq

LEMMA SeqPushed ==
  ASSUME NEW s, IsSeq(s), NEW x
  PROVE  /\ IsSeq(<<x>> \o s) /\ (<<x>> \o s)[1] = x /\ <<x>> \o s # <<>>
         /\ \A i \in DOMAIN (<<x>> \o s) : i # 1 => i - 1 \in DOMAIN s /\ (<<x>> \o s)[i] = s[i - 1]
<1>1. PICK S : s \in Seq(S)
  BY DEF IsSeq
<1>2. s \in Seq(S \union {x}) /\ <<x>> \in Seq(S \union {x})
  BY <1>1
<1>3. <<x>> \o s \in Seq(S \union {x})
  BY <1>2
<1>4. Len(<<x>> \o s) = 1 + Len(s) /\ (<<x>> \o s)[1] = x /\ \A i \in 1..Len(s) : (<<x>> \o s)[1 + i] = s[i]
  BY <1>2, ConsElems
<1>5. DOMAIN (<<x>> \o s) = 1..(1 + Len(s)) /\ DOMAIN s = 1..Len(s) /\ Len(s) \in Nat
  BY <1>1, <1>3, <1>4
<1>6. \A i \in 1..(1 + Len(s)) : i # 1 => i - 1 \in 1..Len(s) /\ 1 + (i - 1) = i
  BY <1>5
<1>7. <<x>> \o s # <<>>
  BY <1>4, <1>5, EmptyLen
<1> QED
  BY <1>3, <1>4, <1>5, <1>6, <1>7 DEF IsSeq

LEMMA Suffix ==
  ASSUME NEW S, NEW s \in Seq(S), NEW k \in Nat
  PROVE  SubSeq(s, k + 1, Len(s)) \in Seq(S)
OBVIOUS

IsFrame(f) ==
  /\ f.type \in Containers \union BodyTypes
  /\ f.size \in Nat /\ f.base \in Nat
  /\ IsSeq(f.parts) /\ Len(f.parts) <= f.size
  /\ f.type \in BodyTypes => f.size = 3
  /\ f.type \in Sizes => f.size = 1

\* All but the innermost frame wait for a part, and the size of a large container,
\* which no case of its context is an integer for, has nothing above it.
IsStack(s) ==
  /\ IsSeq(s)
  /\ \A i \in DOMAIN s : /\ IsFrame(s[i])
                         /\ i # 1 => ~Full(s[i])
                         /\ s[i].type \in Sizes => i = 1 /\ s[i].parts = <<>>

IsResult(g) == IsSeq(g) /\ \A i \in DOMAIN g : g[i][1] \in BodyTypes /\ Len(g[i][2]) = 3

LEMMA Opened ==
  ASSUME NEW s, IsStack(s), s # <<>> => ~Full(Head(s)) /\ Head(s).type \notin Sizes,
         NEW f, IsFrame(f), f.type \in Sizes => f.parts = <<>>
  PROVE  IsStack(<<f>> \o s)
<1> DEFINE t == <<f>> \o s
<1>1. /\ IsSeq(t) /\ t[1] = f
      /\ \A i \in DOMAIN t : i # 1 => i - 1 \in DOMAIN s /\ t[i] = s[i - 1]
  BY SeqPushed DEF IsStack
<1> HIDE DEF t
<1>2. ASSUME NEW i \in DOMAIN t, i # 1
      PROVE  IsFrame(t[i]) /\ ~Full(t[i]) /\ t[i].type \notin Sizes
  <2>1. i - 1 \in DOMAIN s /\ t[i] = s[i - 1]
    BY <1>1, <1>2
  <2>2. CASE i - 1 = 1
    <3>1. s # <<>>
      BY <2>1, SeqDomain DEF IsStack
    <3>2. Head(s) = s[1]
      BY <3>1, SeqTail DEF IsStack
    <3> QED
      BY <2>1, <2>2, <3>1, <3>2 DEF IsStack
  <2>3. CASE i - 1 # 1
    BY <2>1, <2>3, Zenon DEF IsStack
  <2> QED
    BY <2>2, <2>3
<1>3. IsStack(t)
  BY <1>1, <1>2, Zenon DEF IsStack
<1> QED
  BY <1>3 DEF t

LEMMA Popped ==
  ASSUME NEW s, IsStack(s), s # <<>>
  PROVE  /\ IsStack(Tail(s)) /\ IsFrame(Head(s))
         /\ \A i \in DOMAIN Tail(s) : ~Full(Tail(s)[i]) /\ Tail(s)[i].type \notin Sizes
<1>1. /\ IsSeq(Tail(s)) /\ Head(s) = s[1] /\ 1 \in DOMAIN s
      /\ \A i \in DOMAIN Tail(s) : i + 1 \in DOMAIN s /\ i + 1 # 1 /\ Tail(s)[i] = s[i + 1]
  BY SeqTail DEF IsStack
<1>2. \A i \in DOMAIN Tail(s) : IsFrame(Tail(s)[i]) /\ ~Full(Tail(s)[i]) /\ Tail(s)[i].type \notin Sizes
  BY <1>1, Zenon DEF IsStack
<1> QED
  BY <1>1, <1>2, Zenon DEF IsStack

LEMMA Grown ==
  ASSUME NEW s, IsStack(s), s # <<>>, ~Full(Head(s)), Head(s).type \notin Sizes, NEW o
  PROVE  IsStack(<<WithPart(Head(s), o)>> \o Tail(s))
<1> DEFINE f == Head(s)
           g == WithPart(f, o)
<1>1. IsStack(Tail(s)) /\ IsFrame(f)
  BY Popped
<1>2. \A i \in DOMAIN Tail(s) : ~Full(Tail(s)[i]) /\ Tail(s)[i].type \notin Sizes
  BY Popped
<1> HIDE DEF f
<1>3. g.type = f.type /\ g.size = f.size /\ g.base = f.base /\ g.parts = Append(f.parts, o)
  BY DEF WithPart
<1> HIDE DEF g
<1>4. IsSeq(g.parts) /\ Len(g.parts) <= g.size
  <2>1. IsSeq(g.parts) /\ Len(g.parts) = Len(f.parts) + 1 /\ Len(f.parts) \in Nat
    BY <1>1, <1>3, SeqAppended, SeqDomain DEF IsFrame
  <2>2. Len(f.parts) <= f.size /\ Len(f.parts) # f.size /\ f.size \in Nat
    BY <1>1 DEF IsFrame, Full, f
  <2> QED
    BY <1>3, <2>1, <2>2
<1>5. IsFrame(g) /\ g.type \notin Sizes
  BY <1>1, <1>3, <1>4, Zenon DEF IsFrame, f
<1>6. Tail(s) # <<>> => ~Full(Head(Tail(s))) /\ Head(Tail(s)).type \notin Sizes
  <2>1. Tail(s) # <<>> => Head(Tail(s)) = Tail(s)[1] /\ 1 \in DOMAIN Tail(s)
    BY <1>1, SeqTail DEF IsStack
  <2> QED
    BY <1>2, <2>1
<1>7. IsStack(<<g>> \o Tail(s))
  BY <1>1, <1>5, <1>6, Opened
<1> QED
  BY <1>7 DEF f, g

LEMMA FrameOpened ==
  ASSUME NEW type \in Containers \union BodyTypes, NEW n, NEW base,
         type \in Containers => n \in Nat /\ base \in Nat
  PROVE  IsFrame(OpenFrame(type, n, base)) /\ OpenFrame(type, n, base).parts = <<>>
<1>1. IsSeq(<<>>) /\ Len(<<>>) = 0
  BY EmptyType, EmptyLen DEF IsSeq
<1>2. ASSUME NEW t \in Containers \union BodyTypes, NEW size \in Nat, NEW b \in Nat,
             t \in BodyTypes => size = 3, t \in Sizes => size = 1
      PROVE  IsFrame(Frame(t, size, b)) /\ Frame(t, size, b).parts = <<>>
  BY <1>1, <1>2 DEF IsFrame, Frame
<1>3. /\ Containers = {"list", "map", "listSize", "mapSize"} /\ Sizes = {"listSize", "mapSize"}
      /\ BodyTypes = {"envelope", "message", "response", "deltas", "quasi"}
  BY DEF Containers, Sizes, BodyTypes, DecodeFrom
<1>4. CASE type = "list"
  BY <1>2, <1>3, <1>4 DEF OpenFrame
<1>5. CASE type = "map"
  <2>1. 2 * n \in Nat
    BY <1>3, <1>5
  <2> QED
    BY <1>2, <1>3, <1>5, <2>1 DEF OpenFrame
<1>6. CASE type \in BodyTypes
  BY <1>2, <1>3, <1>6 DEF OpenFrame
<1>7. CASE type \in Sizes
  BY <1>2, <1>3, <1>7 DEF OpenFrame
<1> QED
  BY <1>3, <1>4, <1>5, <1>6, <1>7

LEMMA BuiltFields ==
  ASSUME NEW f, IsFrame(f), Full(f), f.type \notin Sizes, Built(f)[1] \in BodyTypes
  PROVE  Len(Built(f)[2]) = 3
<1>1. f.type \in {"list", "map"} \/ f.type \in BodyTypes
  BY DEF IsFrame, Containers, Sizes
<1>2. BodyTypes = {"envelope", "message", "response", "deltas", "quasi"}
  BY DEF BodyTypes, DecodeFrom
<1>3. f.type \in BodyTypes => Len(f.parts) = 3
  BY DEF IsFrame, Full
<1>4. CASE f.type = "message"
  <2>1. Built(f) = MessageOf(f.parts)
    BY <1>4, Zenon DEF Built
  <2> QED
    BY <2>1 DEF MessageOf
<1>5. CASE f.type = "response"
  <2>1. Built(f) = ResponseOf(f.parts)
    BY <1>5, Zenon DEF Built
  <2> QED
    BY <2>1 DEF ResponseOf
<1>6. CASE f.type = "envelope"
  <2>1. Built(f) = EnvelopeOf(f.parts)
    BY <1>6, Zenon DEF Built
  <2> QED
    BY <2>1 DEF EnvelopeOf
<1>7. CASE f.type \in {"deltas", "quasi"}
  <2>1. Built(f) = <<f.type, f.parts>>
    BY <1>7, Zenon DEF Built
  <2> QED
    BY <1>2, <1>3, <1>7, <2>1
<1>8. CASE f.type = "list"
  <2>1. Built(f) = <<f.type, f.parts>>
    BY <1>8, Zenon DEF Built
  <2> QED
    BY <1>2, <1>8, <2>1
<1>9. CASE f.type = "map"
  <2>1. Built(f) = MapWith(f.size \div 2, f.parts)
    BY <1>9, Zenon DEF Built
  <2>2. Built(f)[1] = "map"
    BY <2>1 DEF MapWith
  <2> QED
    BY <1>2, <2>2
<1> QED
  BY <1>1, <1>2, <1>4, <1>5, <1>6, <1>7, <1>8, <1>9

-----------------------------------------------------------------------------
(* The decoder goes on with an object it has read, or stops.               *)

Control(p, s) ==
  /\ p \in {"encode", "carry", "decode", "done"}
  /\ s \in {"running", "unencodable", "ok", "error", "garbage"}

Outcome == IsStack(stack) /\ IsResult(got) /\ Control(phase, status)

\* What may be delivered to outer: no integer to the size of a large container.
Deliverable(o, outer) ==
  /\ o[1] \in BodyTypes => Len(o[2]) = 3
  /\ outer # <<>> => ~Full(Head(outer))
  /\ outer # <<>> /\ Head(outer).type \in Sizes => o[1] \notin {"int64", "uint"}

LEMMA EmptyIsStack == IsStack(<<>>) /\ IsResult(<<>>)
<1>1. IsSeq(<<>>) /\ DOMAIN <<>> = {}
  BY EmptyType DEF IsSeq
<1> QED
  BY <1>1, Zenon DEF IsStack, IsResult

LEMMA Failed ==
  ASSUME Outcome, NEW eof \in BOOLEAN, Fail(eof)
  PROVE  Outcome'
<1>1. CASE Finish("ok") /\ UNCHANGED decoderVars
  BY <1>1 DEF Outcome, Control, Finish, decoderVars
<1>2. CASE Finish("error") /\ got' = <<>> /\ UNCHANGED stack
  BY <1>2, EmptyIsStack DEF Outcome, Control, Finish
<1> QED
  BY <1>1, <1>2, Zenon DEF Fail

LEMMA ResultAppended ==
  ASSUME NEW g, IsResult(g), NEW o, o[1] \in BodyTypes, Len(o[2]) = 3
  PROVE  IsResult(Append(g, o))
<1> DEFINE h == Append(g, o)
<1>1. /\ IsSeq(h)
      /\ \A i \in 1..Len(h) : IF i = Len(g) + 1 THEN h[i] = o ELSE i \in DOMAIN g /\ h[i] = g[i]
  BY SeqAppended DEF IsResult
<1> HIDE DEF h
<1>2. DOMAIN h = 1..Len(h)
  BY <1>1, SeqDomain
<1>3. \A i \in DOMAIN h : h[i][1] \in BodyTypes /\ Len(h[i][2]) = 3
  BY <1>1, <1>2, Zenon DEF IsResult
<1>4. IsResult(h)
  BY <1>1, <1>3, Zenon DEF IsResult
<1> QED
  BY <1>4 DEF h

LEMMA Delivered ==
  ASSUME Outcome, NEW o, NEW outer, IsStack(outer), Deliverable(o, outer), Deliver(o, outer)
  PROVE  Outcome'
<1>1. CASE outer = <<>>
  <2>1. /\ stack' = <<>>
        /\ got' = IF o[1] \in BodyTypes THEN Append(got, o) ELSE got
        /\ IF entry = "decodeMessage" THEN Finish(IF o[1] \in BodyTypes THEN "ok" ELSE "error")
                                      ELSE UNCHANGED <<phase, status>>
    BY <1>1, Zenon DEF Deliver
  <2>2. IsStack(stack')
    BY <2>1, EmptyIsStack, Zenon
  <2>3. IsResult(got')
    <3>1. o[1] \in BodyTypes => IsResult(Append(got, o))
      BY ResultAppended, Zenon DEF Deliverable, Outcome
    <3> QED
      BY <2>1, <3>1, Zenon DEF Outcome
  <2>4. Control(phase', status')
    BY <2>1 DEF Control, Finish, Outcome
  <2> QED
    BY <2>2, <2>3, <2>4, Zenon DEF Outcome
<1>2. CASE outer # <<>> /\ PartOk(Head(outer), o)
  <2>1. /\ stack' = <<WithPart(Head(outer), o)>> \o Tail(outer)
        /\ UNCHANGED <<phase, got, status>>
    BY <1>2, Zenon DEF Deliver
  <2>2. Head(outer).type \notin Sizes
    <3>1. CASE Head(outer).type = "listSize"
      <4>1. o[1] = "int64"
        BY <1>2, <3>1, Zenon DEF PartOk
      <4> QED
        BY <1>2, <3>1, <4>1 DEF Deliverable, Sizes
    <3>2. CASE Head(outer).type = "mapSize"
      <4>1. o[1] = "uint"
        BY <1>2, <3>2, Zenon DEF PartOk
      <4> QED
        BY <1>2, <3>2, <4>1 DEF Deliverable, Sizes
    <3> QED
      BY <3>1, <3>2 DEF Sizes
  <2>3. IsStack(<<WithPart(Head(outer), o)>> \o Tail(outer))
    BY <1>2, <2>2, Grown, Zenon DEF Deliverable
  <2> QED
    BY <2>1, <2>3, Zenon DEF Outcome
<1>3. CASE outer # <<>> /\ ~PartOk(Head(outer), o)
  <2>1. Fail(FALSE)
    BY <1>3, Zenon DEF Deliver
  <2> QED
    BY <2>1, Failed, Zenon
<1> QED
  BY <1>1, <1>2, <1>3

-----------------------------------------------------------------------------
(* What the decoder reads next.                                            *)

LEMMA PartContexts ==
  ASSUME NEW f, IsFrame(f), ~Full(f)
  PROVE  PartContext(f) \in Contexts /\ (f.type \in Sizes => PartContext(f) = "uis")
<1>1. f.type \in {"list", "map", "listSize", "mapSize"} \/ f.type \in BodyTypes
  BY DEF IsFrame, Containers
<1>2. /\ "global" \in Contexts /\ "uis" \in Contexts
      /\ BodyTypes = {"envelope", "message", "response", "deltas", "quasi"}
  BY DEF Contexts, BodyTypes, DecodeFrom
<1>3. CASE f.type = "list"
  <2>1. PartContext(f) = "global"
    BY <1>2, <1>3 DEF PartContext
  <2> QED
    BY <1>2, <1>3, <2>1 DEF Sizes
<1>4. CASE f.type = "map"
  <2>1. PartContext(f) = IF Len(f.parts) % 2 = 0 THEN "uis" ELSE "global"
    BY <1>2, <1>4 DEF PartContext
  <2> QED
    BY <1>2, <1>4, <2>1 DEF Sizes
<1>5. CASE f.type \in {"listSize", "mapSize"}
  <2>1. PartContext(f) = "uis"
    BY <1>2, <1>5 DEF PartContext
  <2> QED
    BY <1>2, <2>1
<1>6. CASE f.type \in BodyTypes
  <2>1. PartContext(f) = DecodeFrom[f.type][Len(f.parts) + 1]
    BY <1>2, <1>6 DEF PartContext
  <2>2. Len(f.parts) + 1 \in 1..3
    <3>1. f.size = 3 /\ Len(f.parts) <= f.size /\ Len(f.parts) # f.size
      BY <1>6 DEF IsFrame, Full
    <3>2. Len(f.parts) \in Nat
      BY SeqDomain DEF IsFrame
    <3>3. \A n \in Nat : n <= 3 /\ n # 3 => n + 1 \in 1..3
      OBVIOUS
    <3> QED
      BY <3>1, <3>2, <3>3, Zenon
  <2>3. \A type \in BodyTypes : type \notin Sizes /\ \A i \in 1..3 : DecodeFrom[type][i] \in Contexts
    BY DEF BodyTypes, DecodeFrom, Contexts, Sizes, decodeEnvelope, decodeMessage, decodeResponse,
           decodeDeltasVector, decodeQuasiPeriodicVector
  <2> QED
    BY <1>6, <2>1, <2>2, <2>3
<1> QED
  BY <1>1, <1>3, <1>4, <1>5, <1>6

LEMMA ContextRead ==
  ASSUME IsStack(stack), Reading
  PROVE  /\ Context \in Contexts
         /\ stack # <<>> => ~Full(Head(stack))
         /\ stack # <<>> /\ Head(stack).type \in Sizes => Context = "uis"
<1>1. stack # <<>> => IsFrame(Head(stack)) /\ ~Full(Head(stack))
  BY Popped, Zenon DEF Reading
<1>2. "global" \in Contexts
  BY DEF Contexts
<1> QED
  BY <1>1, <1>2, PartContexts, Zenon DEF Context

LEMMA RowRead ==
  ASSUME IsStack(stack), Reading, OpKnown
  PROVE  RowType(Context, OpRule)
BY ContextRead, KnownRow, Zenon DEF OpKnown, OpRule

\* What the chunks carry.
LEMMA ChunkValues ==
  ASSUME NEW c \in Chunks
  PROVE  /\ c[1] = "byte" => c[2] \in 0..255
         /\ c[1] = "text" => c[2] \in Nat \ {0}
BY DEF Chunks, Torn

LEMMA SizeRead ==
  ASSUME stream \in Seq(Chunks), IsStack(stack), Reading, HeaderRead
  PROVE  /\ HeaderLength \in 1..4 /\ HeaderLength <= Len(stream)
         /\ Size \in Int
         /\ OpRule.sign = 1 /\ OpRule.base \in Nat => Size \in Nat
<1> DEFINE r == OpRule
           bytes == [i \in 1..HeaderLength |-> stream[i][2]]
<1>1. RowType(Context, r)
  BY RowRead, Zenon DEF HeaderRead
<1>2. HeaderLength = 1 + r.width /\ r.width \in 0..3
  BY <1>1 DEF HeaderLength, RowType
<1>3. \A i \in 1..HeaderLength : Len(stream) >= i /\ stream[i][1] = "byte"
  BY DEF HeaderRead, HasBytes, IsByte
<1>4. HeaderLength \in 1..4 /\ HeaderLength <= Len(stream)
  BY <1>2, <1>3
<1>5. \A i \in 1..HeaderLength : bytes[i] \in 0..255
  <2> SUFFICES ASSUME NEW i \in 1..HeaderLength PROVE bytes[i] \in 0..255
    OBVIOUS
  <2>1. stream[i] \in Chunks
    BY <1>3, <1>4, ElementsIn
  <2>2. stream[i][2] \in 0..255
    BY <1>3, <2>1, ChunkValues
  <2> QED
    BY <2>2
<1>6. Size = Value(r, bytes)
  BY Zenon DEF Size
<1> HIDE DEF bytes, r
<1>7. \A i \in 1..(r.width + 1) : bytes[i] \in 0..255
  <2>1. \A w \in 0..3 : 1 + w = w + 1
    OBVIOUS
  <2> QED
    BY <1>2, <1>5, <2>1, Zenon
<1>8. Value(r, bytes) \in Int /\ (r.sign = 1 /\ r.base \in Nat => Value(r, bytes) \in Nat)
  BY <1>1, <1>7, ValueType
<1> QED
  BY <1>4, <1>6, <1>8 DEF r

LEMMA Consumed ==
  ASSUME stream \in Seq(Chunks), NEW k \in Nat, Consume(k)
  PROVE  stream' \in Seq(Chunks)
BY Suffix DEF Consume

-----------------------------------------------------------------------------
(* The type invariant.                                                     *)

Data ==
  /\ cut \in BOOLEAN /\ entry \in Entries
  /\ sent \in Seq(Objects) /\ todo \in Seq(Todo)
  /\ stream \in Seq(Chunks)

IInv == Data /\ Outcome

LEMMA Untouching ==
  ASSUME Data, Untouched, stream' \in Seq(Chunks)
  PROVE  Data'
BY Zenon DEF Data, Untouched

LEMMA Begin == Init => IInv
<1> SUFFICES ASSUME Init PROVE IInv
  OBVIOUS
<1>1. /\ entry \in Entries /\ status = "running" /\ cut = FALSE
      /\ stack = <<>> /\ got = <<>> /\ phase \in {"encode", "carry"}
  BY DEF Init
<1>2. Outcome
  BY <1>1, EmptyIsStack DEF Outcome, Control
<1>3. sent \in Seq(Objects) /\ todo \in Seq(Todo) /\ stream \in Seq(Chunks)
  <2>1. CASE /\ sent \in Inputs /\ stream = <<>>
             /\ todo = [i \in DOMAIN sent |-> <<"global", sent[i]>>]
    <3>1. sent \in Seq(Objects)
      BY <2>1, InputsAssumption, Zenon
    <3>2. \A i \in 1..Len(sent) : sent[i] \in Objects
      BY <3>1, ElementsIn, Zenon
    <3>3. \A i \in 1..Len(sent) : <<"global", sent[i]>> \in Todo
      BY <3>2 DEF Todo, Contexts
    <3>4. todo \in Seq(Todo)
      <4>1. DOMAIN sent = 1..Len(sent) /\ Len(sent) \in Nat
        BY <3>1
      <4> QED
        BY <2>1, <3>3, <4>1
    <3> QED
      BY <2>1, <3>1, <3>4, EmptyType
  <2>2. CASE todo = <<>> /\ \E f \in Foreign : stream = f[1] /\ sent = f[2]
    BY <2>2, InputsAssumption, ForeignAssumption, EmptyType, Zenon
  <2> QED
    BY <2>1, <2>2, Zenon DEF Init
<1> QED
  BY <1>1, <1>2, <1>3 DEF IInv, Data

LEMMA EncodingObjects ==
  ASSUME IInv, EncodeObject
  PROVE  IInv'
<1> DEFINE ctx == Head(todo)[1]
           o == Head(todo)[2]
<1>1. /\ todo # <<>> /\ Encoding(ctx, o).ok
      /\ stream' = stream \o Encoding(ctx, o).chunks
      /\ todo' = Encoding(ctx, o).rest \o Tail(todo)
      /\ UNCHANGED <<sent, entry, phase, cut, stack, got, status>>
  BY Zenon DEF EncodeObject, decoderVars
<1>2. todo \in Seq(Todo) /\ stream \in Seq(Chunks)
  BY DEF IInv, Data
<1>3. ctx \in Contexts /\ o \in Objects /\ Tail(todo) \in Seq(Todo)
  <2>1. Head(todo) \in Todo /\ Tail(todo) \in Seq(Todo)
    BY <1>1, <1>2
  <2> QED
    BY <2>1 DEF Todo
<1> HIDE DEF ctx, o
<1>4. Encoding(ctx, o).chunks \in Seq(Chunks) /\ Encoding(ctx, o).rest \in Seq(Todo)
  BY <1>1, <1>3, EncodingType
<1>5. stream' \in Seq(Chunks) /\ todo' \in Seq(Todo)
  <2>1. \A S : \A s, t \in Seq(S) : s \o t \in Seq(S)
    OBVIOUS
  <2> QED
    BY <1>1, <1>2, <1>3, <1>4, <2>1, Zenon
<1> QED
  BY <1>1, <1>5 DEF IInv, Data, Outcome

LEMMA EncodingEnds ==
  ASSUME IInv, EncodeFails \/ Encoded \/ Carry
  PROVE  IInv'
BY EmptyType DEF EncodeFails, Encoded, Carry, IInv, Data, Outcome, Control, decoderVars

LEMMA Cutting ==
  ASSUME IInv, Cut
  PROVE  IInv'
<1>1. PICK k \in 0..(Len(stream) - 1) :
        \/ stream' = SubSeq(stream, 1, k)
        \/ stream' = Append(SubSeq(stream, 1, k), Torn)
  BY Zenon DEF Cut
<1>2. stream \in Seq(Chunks)
  BY DEF IInv, Data
<1>3. SubSeq(stream, 1, k) \in Seq(Chunks)
  BY <1>2
<1>4. stream' \in Seq(Chunks)
  <2>1. \A S : \A s \in Seq(S), x \in S : Append(s, x) \in Seq(S)
    OBVIOUS
  <2> QED
    BY <1>1, <1>3, <2>1, ChunkTypes, Zenon
<1>5. phase' = "decode" /\ cut' = TRUE /\ UNCHANGED <<sent, entry, todo, stack, got, status>>
  BY Zenon DEF Cut, decoderVars
<1> QED
  BY <1>4, <1>5 DEF IInv, Data, Outcome, Control

LEMMA Failing ==
  ASSUME IInv, StreamEnds \/ ContentTorn \/ UnknownOpcode
  PROVE  IInv'
<1>1. CASE StreamEnds
  <2>1. Fail(TRUE) /\ stream' = <<>> /\ Untouched
    BY <1>1, Zenon DEF StreamEnds
  <2> QED
    BY <2>1, Failed, Untouching, EmptyType, Zenon DEF IInv
<1>2. CASE ContentTorn
  <2>1. Fail(FALSE) /\ stream' = <<>> /\ Untouched
    BY <1>2, Zenon DEF ContentTorn
  <2> QED
    BY <2>1, Failed, Untouching, EmptyType, Zenon DEF IInv
<1>3. CASE UnknownOpcode
  <2>1. Fail(FALSE) /\ Consume(1) /\ Untouched
    BY <1>3, Zenon DEF UnknownOpcode
  <2>2. stream' \in Seq(Chunks)
    BY <2>1, Consumed DEF IInv, Data
  <2> QED
    BY <2>1, <2>2, Failed, Untouching, Zenon DEF IInv
<1> QED
  BY <1>1, <1>2, <1>3

\* What may be delivered to the frame that is read: in the context of sizes there is no
\* integer of the type of one.
LEMMA DeliverableHere ==
  ASSUME IInv, Reading, NEW o, o[1] \notin BodyTypes, Context = "uis" => o[1] \notin {"int64", "uint"}
  PROVE  Deliverable(o, stack)
BY ContextRead, Zenon DEF IInv, Outcome, Deliverable

LEMMA ReadingScalars ==
  ASSUME IInv, ReadScalar
  PROVE  IInv'
<1>1. Reading /\ HeaderRead /\ OpKnown /\ Consume(HeaderLength) /\ Untouched
  BY Zenon DEF ReadScalar, HeaderRead
<1>2. HeaderLength \in 1..4 /\ RowType(Context, OpRule)
  BY <1>1, SizeRead, RowRead, Zenon DEF IInv, Data, Outcome
<1>3. PICK o : /\ Deliver(o, stack)
               /\ o[1] \in {"nil", "bool", "int64", "uint32", "string"}
               /\ Context = "uis" => o[1] # "int64"
  <2>1. CASE OpRule.type = "nil" /\ Deliver(<<"nil">>, stack)
    <3>1. <<"nil">>[1] = "nil"
      OBVIOUS
    <3> QED
      BY <2>1, <3>1, Zenon
  <2>2. CASE OpRule.type \in {"true", "false"} /\ Deliver(<<"bool", OpRule.type = "true">>, stack)
    <3>1. \A b : <<"bool", b>>[1] = "bool"
      OBVIOUS
    <3> QED
      BY <2>2, <3>1, Zenon
  <2>3. CASE OpRule.type \in {"int64", "uint32", "string"} /\ Deliver(<<OpRule.type, Size>>, stack)
    <3>1. <<OpRule.type, Size>>[1] = OpRule.type
      OBVIOUS
    <3>2. Context = "uis" => OpRule.type # "int64"
      BY <1>2, Zenon DEF RowType
    <3> QED
      BY <2>3, <3>1, <3>2, Zenon
  <2> QED
    BY <2>1, <2>2, <2>3, Zenon DEF ReadScalar
<1>4. o[1] \notin BodyTypes /\ o[1] # "uint"
  BY <1>3 DEF BodyTypes, DecodeFrom
<1>5. Deliverable(o, stack)
  BY <1>1, <1>3, <1>4, DeliverableHere, Zenon
<1>6. stream' \in Seq(Chunks)
  BY <1>1, <1>2, Consumed DEF IInv, Data
<1> QED
  BY <1>1, <1>3, <1>5, <1>6, Delivered, Untouching, Zenon DEF IInv, Outcome

LEMMA ReadingContents ==
  ASSUME IInv, ReadContent
  PROVE  IInv'
<1> DEFINE o == IF OpRule.content = "text" THEN <<"string", Size>> ELSE Content
<1>1. /\ Reading /\ HeaderRead /\ OpKnown /\ HasContent /\ Consume(HeaderLength + 1) /\ Untouched
      /\ ContentFits /\ Deliver(o, stack)
  BY Zenon DEF ReadContent, ContentRead, HeaderRead
<1>2. HeaderLength \in 1..4 /\ RowType(Context, OpRule)
  BY <1>1, SizeRead, RowRead, Zenon DEF IInv, Data, Outcome
<1>3. /\ o[1] \in {"string", "int32", "int64", "uint32", "float32", "float64"}
      /\ Context = "uis" => o[1] # "int64"
  <2>1. CASE OpRule.content = "text"
    <3>1. o[1] = "string"
      BY <2>1
    <3> QED
      BY <3>1
  <2>2. CASE OpRule.content # "text"
    <3>1. o = Content /\ Content[1] = OpRule.content
      BY <1>1, <2>2, Zenon DEF ContentFits
    <3>2. OpRule.content # "none"
      BY <1>1, <2>2 DEF HasContent
    <3> QED
      BY <1>2, <2>2, <3>1, <3>2, Zenon DEF RowType
  <2> QED
    BY <2>1, <2>2
<1> HIDE DEF o
<1>4. o[1] \notin BodyTypes /\ o[1] # "uint"
  BY <1>3 DEF BodyTypes, DecodeFrom
<1>5. Deliverable(o, stack)
  BY <1>1, <1>3, <1>4, DeliverableHere, Zenon
<1>6. stream' \in Seq(Chunks)
  <2>1. HeaderLength + 1 \in Nat
    BY <1>2
  <2> QED
    BY <1>1, <2>1, Consumed DEF IInv, Data
<1> QED
  BY <1>1, <1>5, <1>6, Delivered, Untouching, Zenon DEF IInv, Outcome

LEMMA ReadingParts ==
  ASSUME IInv, ReadPartOfText
  PROVE  IInv'
<1>1. /\ Reading /\ HeaderRead /\ OpKnown /\ Len(stream) > HeaderLength /\ Untouched /\ TextLonger
      /\ Deliver(<<"string", Size>>, stack)
      /\ stream' = << <<"text", Content[2] - Size>> >>
                     \o SubSeq(stream, HeaderLength + 2, Len(stream))
  BY Zenon DEF ReadPartOfText, ContentRead, HeaderRead
<1>2. /\ HeaderLength \in 1..4 /\ RowType(Context, OpRule)
      /\ OpRule.sign = 1 /\ OpRule.base \in Nat => Size \in Nat
  BY <1>1, SizeRead, RowRead, Zenon DEF IInv, Data, Outcome
<1>3. Size \in Nat
  BY <1>1, <1>2, Zenon DEF RowType, TextLonger
<1>4. stream \in Seq(Chunks)
  BY DEF IInv, Data
<1>5. Content[2] - Size \in Nat \ {0}
  <2>1. stream[HeaderLength + 1] \in Chunks
    BY <1>1, <1>2, <1>4, ElementsIn
  <2>2. Content[2] \in Nat \ {0}
    BY <1>1, <2>1, ChunkValues, Zenon DEF Content, TextLonger
  <2> QED
    BY <1>1, <1>3, <2>2 DEF TextLonger
<1>6. stream' \in Seq(Chunks)
  <2> DEFINE c == <<"text", Content[2] - Size>>
             rest == SubSeq(stream, HeaderLength + 2, Len(stream))
  <2>1. c \in Chunks
    BY <1>5, ChunkTypes, Zenon
  <2>2. rest \in Seq(Chunks)
    <3>1. HeaderLength + 1 \in Nat /\ HeaderLength + 2 = (HeaderLength + 1) + 1
      BY <1>2
    <3> QED
      BY <1>4, <3>1, Suffix
  <2> HIDE DEF c, rest
  <2>3. <<c>> \o rest \in Seq(Chunks)
    BY <2>1, <2>2
  <2> QED
    BY <1>1, <2>3 DEF c, rest
<1>7. Deliverable(<<"string", Size>>, stack)
  <2>1. \A n : <<"string", n>>[1] = "string"
    OBVIOUS
  <2>2. "string" \notin BodyTypes
    BY DEF BodyTypes, DecodeFrom
  <2> QED
    BY <1>1, <2>1, <2>2, DeliverableHere, Zenon
<1> QED
  BY <1>1, <1>6, <1>7, Delivered, Untouching, Zenon DEF IInv, Outcome

LEMMA OpeningObjects ==
  ASSUME IInv, OpenObject
  PROVE  IInv'
<1> DEFINE f == OpenFrame(OpRule.type, Size, OpRule.base)
<1>1. /\ Reading /\ HeaderRead /\ OpKnown /\ Consume(HeaderLength) /\ Untouched
      /\ OpRule.type \in Containers \union BodyTypes
      /\ stack' = <<f>> \o stack
      /\ UNCHANGED <<phase, got, status>>
  BY Zenon DEF OpenObject, HeaderRead
<1>2. /\ HeaderLength \in 1..4 /\ RowType(Context, OpRule)
      /\ OpRule.sign = 1 /\ OpRule.base \in Nat => Size \in Nat
  BY <1>1, SizeRead, RowRead, Zenon DEF IInv, Data, Outcome
<1>3. OpRule.type \in Containers => Size \in Nat /\ OpRule.base \in Nat
  BY <1>2, Zenon DEF RowType
<1>4. IsFrame(f) /\ f.parts = <<>>
  BY <1>1, <1>3, FrameOpened, Zenon
<1> HIDE DEF f
<1>5. Context # "uis"
  <2>1. OpRule.type \notin {"nil", "string", "uint32"}
    BY <1>1 DEF Containers, BodyTypes, DecodeFrom
  <2> QED
    BY <1>2, <2>1, Zenon DEF RowType
<1>6. IsStack(<<f>> \o stack)
  BY <1>1, <1>4, <1>5, ContextRead, Opened, Zenon DEF IInv, Outcome
<1>7. stream' \in Seq(Chunks)
  BY <1>1, <1>2, Consumed DEF IInv, Data
<1>8. Outcome'
  BY <1>1, <1>6, Zenon DEF IInv, Outcome
<1> QED
  BY <1>1, <1>7, <1>8, Untouching, Zenon DEF IInv

LEMMA ClosingObjects ==
  ASSUME IInv, CloseObject
  PROVE  IInv'
<1> DEFINE f == Head(stack)
<1>1. stack # <<>> /\ Full(f) /\ UNCHANGED stream /\ Untouched /\ IsStack(stack)
  BY Zenon DEF CloseObject, IInv, Outcome
<1>2. /\ IsFrame(f) /\ IsStack(Tail(stack))
      /\ \A i \in DOMAIN Tail(stack) : ~Full(Tail(stack)[i]) /\ Tail(stack)[i].type \notin Sizes
  BY <1>1, Popped, Zenon
<1>3. f.type \notin Sizes
  <2>1. SUFFICES ASSUME f.type \in Sizes PROVE FALSE
    OBVIOUS
  <2>2. f = stack[1] /\ 1 \in DOMAIN stack
    BY <1>1, SeqTail DEF IsStack
  <2>3. f.parts = <<>> /\ f.size = 1
    BY <1>1, <1>2, <2>1, <2>2, Zenon DEF IsStack, IsFrame
  <2>4. Len(f.parts) = 0
    BY <2>3, EmptyLen
  <2> QED
    BY <1>1, <2>3, <2>4 DEF Full
<1>4. Deliver(Built(f), Tail(stack))
  BY <1>3, Zenon DEF CloseObject, Sizes
<1>5. Deliverable(Built(f), Tail(stack))
  <2>1. Built(f)[1] \in BodyTypes => Len(Built(f)[2]) = 3
    BY <1>1, <1>2, <1>3, BuiltFields
  <2>2. Tail(stack) # <<>> => ~Full(Head(Tail(stack))) /\ Head(Tail(stack)).type \notin Sizes
    <3>1. Tail(stack) # <<>> => Head(Tail(stack)) = Tail(stack)[1] /\ 1 \in DOMAIN Tail(stack)
      BY <1>2, SeqTail DEF IsStack
    <3> QED
      BY <1>2, <3>1
  <2> QED
    BY <2>1, <2>2, Zenon DEF Deliverable
<1>6. stream' \in Seq(Chunks)
  BY <1>1 DEF IInv, Data
<1> QED
  BY <1>1, <1>2, <1>4, <1>5, <1>6, Delivered, Untouching, Zenon DEF IInv, Outcome

LEMMA Misreading ==
  ASSUME IInv, Misread
  PROVE  IInv'
BY EmptyIsStack DEF Misread, Finish, Untouched, IInv, Data, Outcome, Control

LEMMA Step == IInv /\ [Next]_vars => IInv'
<1> SUFFICES ASSUME IInv, [Next]_vars PROVE IInv'
  OBVIOUS
<1>1. CASE EncodeObject
  BY <1>1, EncodingObjects
<1>2. CASE EncodeFails \/ Encoded \/ Carry
  BY <1>2, EncodingEnds
<1>3. CASE Cut
  BY <1>3, Cutting
<1>4. CASE StreamEnds \/ ContentTorn \/ UnknownOpcode
  BY <1>4, Failing
<1>5. CASE ReadScalar
  BY <1>5, ReadingScalars
<1>6. CASE ReadContent
  BY <1>6, ReadingContents
<1>7. CASE ReadPartOfText
  BY <1>7, ReadingParts
<1>8. CASE OpenObject
  BY <1>8, OpeningObjects
<1>9. CASE CloseObject
  BY <1>9, ClosingObjects
<1>10. CASE Misread
  BY <1>10, Misreading
<1>11. CASE UNCHANGED vars
  BY <1>11 DEF IInv, Data, Outcome, Control, vars
<1> QED
  BY <1>1, <1>2, <1>3, <1>4, <1>5, <1>6, <1>7, <1>8, <1>9, <1>10, <1>11, Zenon
  DEF Next, Encoder, Decoder, Done

LEMMA Implied == IInv => TypeOK /\ SizesNeverRead
<1> SUFFICES ASSUME IInv PROVE TypeOK /\ SizesNeverRead
  OBVIOUS
<1>1. /\ phase \in {"encode", "carry", "decode", "done"}
      /\ status \in {"running", "unencodable", "ok", "error", "garbage"}
  BY DEF IInv, Outcome, Control
<1>2. \A i \in DOMAIN stack :
        /\ stack[i].type \in Containers \union BodyTypes
        /\ stack[i].size \in Nat /\ Len(stack[i].parts) <= stack[i].size
  BY Zenon DEF IInv, Outcome, IsStack, IsFrame
<1>3. \A i \in DOMAIN got : got[i][1] \in BodyTypes /\ Len(got[i][2]) = 3
  BY Zenon DEF IInv, Outcome, IsResult
<1>4. TypeOK
  BY <1>1, <1>2, <1>3, Zenon DEF TypeOK, IInv, Data, Todo
<1>5. SizesNeverRead
  BY Zenon DEF SizesNeverRead, IInv, Outcome, IsStack, Sizes
<1> QED
  BY <1>4, <1>5

\* In every state of every run over any objects, inputs and streams of another encoder, what
\* the encoder has written are opcodes, header bytes and texts that are what they should be,
\* what it has still to write are objects in a context of the code, a frame of the decoder
\* never has more parts than its size, and what Decode has collected are body messages with
\* all their fields (bysant_encoder.go:29-66, bysant_decoder.go:29-79).
THEOREM TypeCorrect == Spec => []TypeOK
<1>1. Spec => []IInv
  BY Begin, Step, PTL DEF Spec
<1> QED
  BY <1>1, Implied, PTL

\* Whatever the stream, and whoever wrote it, the decoder never gets past the size of a
\* container that is too large for its opcode: no integer of the context that the size is
\* read in has the type that it is asserted to have (bysant_decoder.go:113, 265).
THEOREM NoLargeContainer == Spec => []SizesNeverRead
<1>1. Spec => []IInv
  BY Begin, Step, PTL DEF Spec
<1> QED
  BY <1>1, Implied, PTL
=============================================================================
