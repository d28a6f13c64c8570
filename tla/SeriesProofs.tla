--------------------------- MODULE SeriesProofs ----------------------------
(***************************************************************************)
(* Theorems about the integers in which AsFlatList computes, and that the  *)
(* series it makes of a vector is the one that the vector is defined to    *)
(* stand for, for its receiver as for its sender.  The loops of AsFlatList *)
(* are recursive functions; that one is what it should be is proved of the *)
(* least index at which it is not.                                         *)
(***************************************************************************)
EXTENDS Series, BysantRoundTripProofs

\* The two are the same in two's complement.
Congruent(type, n, x) == \E q \in Int : x = n + Modulus(type) * q

LEMMA DivMod ==
  ASSUME NEW n \in Int, NEW m \in Nat \ {0}
  PROVE  /\ n \div m \in Int /\ n % m \in 0..(m - 1)
         /\ n = m * (n \div m) + (n % m)
OBVIOUS

LEMMA Unique ==
  ASSUME NEW m \in Nat \ {0}, NEW q \in Int, NEW r \in 0..(m - 1)
  PROVE  (m * q + r) % m = r
<1> DEFINE n == m * q + r
<1>1. n \in Int
  OBVIOUS
<1> HIDE DEF n
<1>2. PICK p \in Int, s \in 0..(m - 1) : p = n \div m /\ s = n % m /\ n = m * p + s
  BY <1>1, DivMod
<1>3. m * p + s = m * q + r
  BY <1>2 DEF n
<1>4. m * (p - q) = r - s
  BY <1>3
<1>5. p = q
  <2> DEFINE d == p - q
  <2>1. d \in Int /\ m * d = r - s
    BY <1>4
  <2> HIDE DEF d
  <2>2. CASE d >= 1
    BY <2>1, <2>2
  <2>3. CASE d <= -1
    BY <2>1, <2>3
  <2>4. d = 0
    BY <2>1, <2>2, <2>3
  <2> QED
    BY <2>4 DEF d
<1> QED
  BY <1>2, <1>3, <1>5 DEF n

LEMMA Multiple64 == \E q \in Int : Int64Modulus = Int32Modulus * q
BY ModulusAssumption, DivMod

LEMMA ModulusType ==
  ASSUME NEW type \in IntegerTypes
  PROVE  Modulus(type) \in Nat \ {0} /\ Modulus(type) = 2 * (Modulus(type) \div 2)
<1>1. Int32Modulus = 2 * (Int32Modulus \div 2) /\ Int32Modulus \in Nat \ {0}
  BY ModulusAssumption
<1>2. PICK q \in Int : Int64Modulus = Int32Modulus * q
  BY Multiple64
<1>3. Int64Modulus = 2 * ((Int32Modulus \div 2) * q)
  <2>1. PICK h \in Int : h = Int32Modulus \div 2 /\ Int32Modulus = 2 * h
    BY <1>1
  <2> QED
    BY <1>2, <2>1
<1>4. Int64Modulus \in Nat \ {0} /\ Int64Modulus = 2 * (Int64Modulus \div 2)
  <2>1. PICK e \in Int : e = (Int32Modulus \div 2) * q
    BY <1>1
  <2> QED
    BY <1>3, <2>1, ModulusAssumption
<1> QED
  BY <1>1, <1>4 DEF Modulus, IntegerTypes

LEMMA Multiple ==
  ASSUME NEW m \in Int, NEW p \in Int, NEW r \in Int, NEW n \in Int, n = m * p + r
  PROVE  r = n + m * (-p) /\ r - m = n + m * (-p - 1)
<1>1. m * (-p) = -(m * p) /\ m * (-p - 1) = -(m * p) - m
  OBVIOUS
<1> DEFINE k == m * p
<1>2. k \in Int
  OBVIOUS
<1> QED
  BY <1>1, <1>2

\* What wrapping leaves is a value of the type, a multiple of the modulus away.
LEMMA WrapValue ==
  ASSUME NEW type \in IntegerTypes, NEW n \in Int
  PROVE  /\ Wrap(type, n) \in Int /\ ValueOf(type, Wrap(type, n))
         /\ Congruent(type, n, Wrap(type, n))
<1> DEFINE m == Modulus(type)
<1>1. m \in Nat \ {0} /\ m = 2 * (m \div 2)
  BY ModulusType
<1>2. n \div m \in Int /\ n % m \in 0..(m - 1) /\ n = m * (n \div m) + (n % m)
  BY <1>1, DivMod
<1>3. PICK p \in Int, r \in 0..(m - 1), h \in Int :
        p = n \div m /\ r = n % m /\ n = m * p + r /\ h = m \div 2 /\ m = 2 * h
  BY <1>1, <1>2
<1>4. Wrap(type, n) = IF r >= h THEN r - m ELSE r
  BY <1>3 DEF Wrap
<1>5. ValueOf(type, Wrap(type, n)) <=> -h <= Wrap(type, n) /\ Wrap(type, n) < h
  BY <1>3 DEF ValueOf
<1>6. m \in Int /\ n \in Int /\ r \in Int /\ n = m * p + r
  BY <1>1, <1>3
<1> HIDE DEF m
<1>7. r = n + m * (-p) /\ r - m = n + m * (-p - 1)
  BY <1>6, Multiple
<1>8. CASE r >= h
  <2>1. Wrap(type, n) = r - m
    BY <1>4, <1>8
  <2>2. r - m \in Int /\ -h <= r - m /\ r - m < h
    BY <1>3, <1>6, <1>8
  <2>3. Wrap(type, n) = n + m * (-p - 1) /\ -p - 1 \in Int
    BY <1>3, <1>7, <2>1
  <2> QED
    BY <1>5, <2>1, <2>2, <2>3 DEF m, Congruent
<1>9. CASE r < h
  <2>1. Wrap(type, n) = r
    BY <1>3, <1>4, <1>9
  <2>2. r \in Int /\ -h <= r /\ r < h
    BY <1>3, <1>6, <1>9
  <2>3. Wrap(type, n) = n + m * (-p) /\ -p \in Int
    BY <1>3, <1>7, <2>1
  <2> QED
    BY <1>5, <2>1, <2>2, <2>3 DEF m, Congruent
<1> QED
  BY <1>3, <1>8, <1>9

\* No other value of the type is a multiple of the modulus away.
LEMMA WrapUnique ==
  ASSUME NEW type \in IntegerTypes, NEW x \in Int, NEW n \in Int,
         ValueOf(type, x), Congruent(type, x, n)
  PROVE  Wrap(type, n) = x
<1> DEFINE m == Modulus(type)
<1>0. PICK q \in Int : n = x + m * q
  BY DEF Congruent
<1>1. m \in Nat \ {0} /\ m = 2 * (m \div 2)
  BY ModulusType
<1>2. PICK k \in Int : Wrap(type, n) = n + m * k
  BY WrapValue DEF Congruent
<1>3. Wrap(type, n) \in Int /\ ValueOf(type, Wrap(type, n))
  BY WrapValue
<1>4. PICK h \in Int, w \in Int, d \in Int : h = m \div 2 /\ w = Wrap(type, n) /\ d = q + k
  BY <1>1, <1>2, <1>3
<1>5. -h <= x /\ x < h /\ -h <= w /\ w < h /\ m = 2 * h
  BY <1>1, <1>3, <1>4 DEF ValueOf
<1>6. w = x + m * d
  <2> HIDE DEF m
  <2>1. w = x + m * q + m * k
    BY <1>0, <1>1, <1>2, <1>4
  <2>2. m * d = m * q + m * k
    BY <1>1, <1>4
  <2> QED
    BY <1>1, <2>1, <2>2
<1> HIDE DEF m
<1>7. d = 0
  <2>1. CASE d >= 1
    <3>1. m * d >= m
      BY <1>1, <2>1
    <3> QED
      BY <1>1, <1>5, <1>6, <3>1
  <2>2. CASE d <= -1
    <3>1. m * d <= -m
      BY <1>1, <2>2
    <3> QED
      BY <1>1, <1>5, <1>6, <3>1
  <2> QED
    BY <2>1, <2>2
<1> QED
  BY <1>1, <1>4, <1>6, <1>7

\* A value that fits is kept (types_deltas_vector.go:25-29, types_quasi_periodic.go:32-42).
LEMMA FittingValueKept ==
  ASSUME NEW type \in IntegerTypes, NEW n \in Int, ValueOf(type, n)
  PROVE  Wrap(type, n) = n
<1>1. n = n + Modulus(type) * 0
  BY ModulusType
<1>2. Congruent(type, n, n)
  BY <1>1 DEF Congruent
<1> QED
  BY <1>2, WrapUnique

\* An overflow on the way leaves no trace: a sum whose first part has been wrapped wraps
\* to what the whole sum wraps to, so the values that AsFlatList adds up one by one are
\* the wrapped values of the series, however often they overflow before
\* (types_deltas_vector.go:25-29, types_quasi_periodic.go:32-42).
LEMMA OverflowLeavesNoTrace ==
  ASSUME NEW type \in IntegerTypes, NEW a \in Int, NEW b \in Int
  PROVE  Wrap(type, Wrap(type, a) + b) = Wrap(type, a + b)
<1> DEFINE m == Modulus(type)
<1>1. m \in Int
  BY ModulusType
<1>2. PICK j \in Int, x \in Int : x = Wrap(type, a) /\ x = a + m * j
  BY WrapValue DEF Congruent
<1>3. PICK k \in Int, y \in Int : y = Wrap(type, a + b) /\ y = a + b + m * k /\ ValueOf(type, y)
  BY WrapValue DEF Congruent
<1> HIDE DEF m
<1>4. x + b = y + m * (j - k)
  <2>1. m * (j - k) = m * j - m * k
    BY <1>1
  <2> DEFINE mj == m * j
             mk == m * k
  <2>2. mj \in Int /\ mk \in Int
    BY <1>1
  <2> QED
    BY <1>2, <1>3, <2>1, <2>2
<1>5. Congruent(type, y, x + b)
  BY <1>4 DEF Congruent, m
<1>6. Wrap(type, x + b) = y
  BY <1>3, <1>5, WrapUnique
<1> QED
  BY <1>2, <1>3, <1>6

\* Both parts may have been wrapped, as the start, or the value before, and the product
\* of a delta and the factor are (types_deltas_vector.go:25-29).
LEMMA SumOfWrapped ==
  ASSUME NEW type \in IntegerTypes, NEW a \in Int, NEW b \in Int
  PROVE  Wrap(type, Wrap(type, a) + Wrap(type, b)) = Wrap(type, a + b)
<1>1. PICK x \in Int, y \in Int : x = Wrap(type, a) /\ y = Wrap(type, b)
  BY WrapValue
<1>2. Wrap(type, x + y) = Wrap(type, a + y)
  BY <1>1, OverflowLeavesNoTrace
<1>3. Wrap(type, y + a) = Wrap(type, b + a)
  BY <1>1, OverflowLeavesNoTrace
<1>4. a + y = y + a /\ a + b = b + a
  BY <1>1
<1> QED
  BY <1>1, <1>2, <1>3, <1>4

\* The receiver of an int32 vector has int64 elements (types_deltas_vector.go:132-210):
\* a value that fits the sender's type is the same in both.
LEMMA SameOnBothSides ==
  ASSUME NEW n \in Int, ValueOf("int32", n)
  PROVE  ValueOf("int64", n) /\ Wrap("int64", n) = Wrap("int32", n)
<1>1. /\ Int32Modulus \in Nat \ {0} /\ Int32Modulus = 2 * (Int32Modulus \div 2)
      /\ Int64Modulus \in Nat \ {0} /\ Int64Modulus = 2 * (Int64Modulus \div 2)
  <2>1. Modulus("int32") = Int32Modulus /\ Modulus("int64") = Int64Modulus
    BY DEF Modulus
  <2> QED
    BY <2>1, ModulusType DEF IntegerTypes
<1>2. Int32Modulus <= Int64Modulus
  <2>1. PICK q \in Int : Int64Modulus = Int32Modulus * q
    BY Multiple64
  <2>2. q >= 1
    BY <1>1, <2>1
  <2> QED
    BY <1>1, <2>1, <2>2
<1>3. ValueOf("int64", n)
  BY <1>1, <1>2 DEF ValueOf, Modulus
<1>4. "int32" \in IntegerTypes /\ "int64" \in IntegerTypes
  BY DEF IntegerTypes
<1> QED
  BY <1>3, <1>4, FittingValueKept

-----------------------------------------------------------------------------
(* The deltas vector.                                                      *)

\* The values that AsFlatList makes, each from the one before.
DeltaSteps(type, factor, start, deltas, f) ==
  [i \in 0..Len(deltas) |->
     IF i = 0 THEN Wrap(type, factor * start)
              ELSE Wrap(type, f[i - 1] + Wrap(type, deltas[i] * factor))]

\* s is the series that a deltas vector stands for, in numbers without a width.
IsSeries(factor, start, deltas, s) ==
  /\ s \in [0..Len(deltas) -> Int]
  /\ s[0] = factor * start
  /\ \A i \in 1..Len(deltas) : s[i] = s[i - 1] + deltas[i] * factor

\* AsFlatList rebuilds the series of a deltas vector, wrapped to the width of its
\* elements, whatever the number of its deltas and however often the sums or the
\* products overflow on the way (types_deltas_vector.go:22-32).
THEOREM DeltasRebuilt ==
  ASSUME NEW type \in IntegerTypes, NEW factor \in Int, NEW start \in Int,
         NEW deltas \in Seq(Int), NEW s, IsSeries(factor, start, deltas, s)
  PROVE  DeltasAsFlatList(type, factor, start, deltas)
           = [i \in 1..(Len(deltas) + 1) |-> Wrap(type, s[i - 1])]
<1> DEFINE N == Len(deltas)
           g == CHOOSE f : f = DeltaSteps(type, factor, start, deltas, f)
           w == [i \in 0..N |-> Wrap(type, s[i])]
<1>1. DeltasAsFlatList(type, factor, start, deltas) = [i \in 1..(N + 1) |-> g[i - 1]]
  BY DEF DeltasAsFlatList, DeltaSteps
<1>2. N \in Nat /\ s \in [0..N -> Int] /\ \A i \in 1..N : deltas[i] * factor \in Int
  BY DEF IsSeries
<1>3. s[0] = factor * start /\ \A i \in 1..N : s[i] = s[i - 1] + deltas[i] * factor
  BY DEF IsSeries
<1>4. \A i \in 1..N : w[i] = Wrap(type, w[i - 1] + Wrap(type, deltas[i] * factor))
  <2> SUFFICES ASSUME NEW i \in 1..N
               PROVE  w[i] = Wrap(type, w[i - 1] + Wrap(type, deltas[i] * factor))
    OBVIOUS
  <2>1. i \in 0..N /\ i - 1 \in 0..N
    BY <1>2
  <2>2. PICK a \in Int, b \in Int : a = s[i - 1] /\ b = deltas[i] * factor
    BY <1>2, <2>1
  <2>3. s[i] = a + b
    BY <1>3, <2>2
  <2>4. Wrap(type, Wrap(type, a) + Wrap(type, b)) = Wrap(type, a + b)
    BY SumOfWrapped
  <2> QED
    BY <2>1, <2>2, <2>3, <2>4
<1>5. w = DeltaSteps(type, factor, start, deltas, w)
  <2>1. \A i \in 0..N : i # 0 => i \in 1..N
    BY <1>2
  <2>2. w[0] = Wrap(type, factor * start)
    BY <1>2, <1>3
  <2>3. w = [i \in 0..N |-> w[i]]
    OBVIOUS
  <2> HIDE DEF w, N
  <2>4. \A i \in 0..N : w[i] = IF i = 0 THEN Wrap(type, factor * start)
                               ELSE Wrap(type, w[i - 1] + Wrap(type, deltas[i] * factor))
    BY <1>4, <2>1, <2>2
  <2> QED
    BY <2>3, <2>4, Zenon DEF DeltaSteps, N
<1>6. g = DeltaSteps(type, factor, start, deltas, g)
  BY <1>5, Zenon
<1>7. 0..N \subseteq {i \in 0..N : g[i] = w[i]}
  <2> DEFINE S == {i \in 0..N : g[i] = w[i]}
  <2> HIDE DEF g, w
  <2>1. /\ g[0] = Wrap(type, factor * start)
        /\ \A i \in 1..N : g[i] = Wrap(type, g[i - 1] + Wrap(type, deltas[i] * factor))
    <3> DEFINE h == DeltaSteps(type, factor, start, deltas, g)
    <3>1. \A i \in 0..N : h[i] = IF i = 0 THEN Wrap(type, factor * start)
                               ELSE Wrap(type, g[i - 1] + Wrap(type, deltas[i] * factor))
      BY DEF DeltaSteps
    <3>2. 0 \in 0..N /\ \A i \in 1..N : i \in 0..N /\ i # 0
      BY <1>2
    <3> HIDE DEF h
    <3>3. h[0] = Wrap(type, factor * start)
      BY <3>1, <3>2
    <3>4. \A i \in 1..N : h[i] = Wrap(type, g[i - 1] + Wrap(type, deltas[i] * factor))
      BY <3>1, <3>2
    <3>5. g = h
      BY <1>6 DEF h
    <3> QED
      BY <3>3, <3>4, <3>5
  <2>2. 0 \in S
    BY <1>2, <1>3, <2>1 DEF w
  <2>3. \A n \in 0..(N - 1) : n \in S => n + 1 \in S
    <3> SUFFICES ASSUME NEW n \in 0..(N - 1), g[n] = w[n] PROVE g[n + 1] = w[n + 1] /\ n + 1 \in 0..N
      OBVIOUS
    <3>1. n + 1 \in 1..N /\ (n + 1) - 1 = n
      BY <1>2
    <3> QED
      BY <1>2, <1>4, <2>1, <3>1
  <2> HIDE DEF S
  <2> QED
    BY <1>2, <2>2, <2>3, UpTo DEF S
<1> QED
  <2> HIDE DEF g
  <2>1. \A i \in 1..(N + 1) : g[i - 1] = Wrap(type, s[i - 1])
    <3> SUFFICES ASSUME NEW i \in 1..(N + 1) PROVE g[i - 1] = Wrap(type, s[i - 1])
      OBVIOUS
    <3>1. i - 1 \in 0..N
      BY <1>2
    <3> QED
      BY <1>7, <3>1
  <2> QED
    BY <1>1, <2>1

LEMMA DeltasSeriesIsSeries ==
  ASSUME NEW factor \in Int, NEW start \in Int, NEW deltas \in Seq(Int),
         NEW s, s = [i \in 0..Len(deltas) |-> DeltasSeries(factor, start, deltas)[i + 1]]
  PROVE  IsSeries(factor, start, deltas, s)
<1> DEFINE N == Len(deltas)
           Sum(i) == SetSum(deltas, 1..i)
<1>1. N \in Nat /\ \A i \in 1..N : deltas[i] \in Int
  OBVIOUS
<1>2. \A i \in 0..N : s[i] = factor * (start + MapThenSumSet(LAMBDA j : deltas[j], 1..i))
  <2> SUFFICES ASSUME NEW i \in 0..N
               PROVE  s[i] = factor * (start + MapThenSumSet(LAMBDA j : deltas[j], 1..i))
    OBVIOUS
  <2>1. i + 1 \in 1..(N + 1) /\ (i + 1) - 1 = i
    BY <1>1
  <2>2. s[i] = DeltasSeries(factor, start, deltas)[i + 1]
    OBVIOUS
  <2>3. DeltasSeries(factor, start, deltas)[i + 1]
          = factor * (start + MapThenSumSet(LAMBDA j : deltas[j], 1..((i + 1) - 1)))
    BY <2>1, Zenon DEF DeltasSeries
  <2> QED
    BY <2>1, <2>2, <2>3
<1>3. \A i \in 0..N : s[i] = factor * (start + Sum(i))
  BY <1>2, MapThenSumIsSetSum
<1>4. \A i \in 0..N : /\ Sum(i) \in Int
                      /\ i = 0 => Sum(i) = 0
                      /\ i # 0 => Sum(i) = deltas[i] + Sum(i - 1)
  <2> SUFFICES ASSUME NEW i \in 0..N
               PROVE  /\ Sum(i) \in Int
                      /\ i = 0 => Sum(i) = 0
                      /\ i # 0 => Sum(i) = deltas[i] + Sum(i - 1)
    OBVIOUS
  <2>1. IsFiniteSet(1..i) /\ \A x \in 1..i : deltas[x] \in Int
    BY <1>1, FS_Interval
  <2>2. /\ Sum(i) \in Int
        /\ 1..i = {} => Sum(i) = 0
        /\ \A x \in 1..i : Sum(i) = deltas[x] + SetSum(deltas, (1..i) \ {x})
    BY <2>1, SetSumStep
  <2>3. i = 0 => 1..i = {}
    OBVIOUS
  <2>4. i # 0 => i \in 1..i /\ (1..i) \ {i} = 1..(i - 1)
    BY <1>1
  <2> QED
    BY <2>2, <2>3, <2>4
<1> HIDE DEF Sum
<1>5. s \in [0..N -> Int]
  <2>1. \A i \in 0..N : s[i] \in Int
    BY <1>3, <1>4
  <2> QED
    BY <2>1
<1>6. s[0] = factor * start
  BY <1>1, <1>3, <1>4
<1>7. \A i \in 1..N : s[i] = s[i - 1] + deltas[i] * factor
  <2> SUFFICES ASSUME NEW i \in 1..N PROVE s[i] = s[i - 1] + deltas[i] * factor
    OBVIOUS
  <2>1. i \in 0..N /\ i # 0 /\ i - 1 \in 0..N
    BY <1>1
  <2>2. PICK a \in Int, d \in Int : a = Sum(i - 1) /\ d = deltas[i]
    BY <1>1, <1>4, <2>1
  <2>3. s[i] = factor * (start + (d + a)) /\ s[i - 1] = factor * (start + a)
    BY <1>3, <1>4, <2>1, <2>2
  <2>4. factor * (start + (d + a)) = factor * (start + a) + d * factor
    OBVIOUS
  <2> QED
    BY <2>2, <2>3, <2>4
<1> QED
  BY <1>5, <1>6, <1>7 DEF IsSeries

\* AsFlatList of a deltas vector is the series that the vector stands for, the start and
\* the deltas so far, scaled, wrapped to the width of its elements: what SeriesAsDefined
\* says of the vectors that are sent, of all vectors (types_deltas_vector.go:22-32).
THEOREM DeltasAsDefined ==
  ASSUME NEW type \in IntegerTypes, NEW factor \in Int, NEW start \in Int,
         NEW deltas \in Seq(Int)
  PROVE  LET series == DeltasSeries(factor, start, deltas)
         IN  DeltasAsFlatList(type, factor, start, deltas)
               = [k \in DOMAIN series |-> Wrap(type, series[k])]
<1> DEFINE series == DeltasSeries(factor, start, deltas)
           s == [i \in 0..Len(deltas) |-> series[i + 1]]
           N == Len(deltas)
<1>1. IsSeries(factor, start, deltas, s)
  BY DeltasSeriesIsSeries
<1>2. DOMAIN series = 1..(N + 1) /\ N \in Nat
  BY DEF DeltasSeries
<1> HIDE DEF series
<1>3. \A k \in 1..(N + 1) : s[k - 1] = series[k]
  <2> SUFFICES ASSUME NEW k \in 1..(N + 1) PROVE s[k - 1] = series[k]
    OBVIOUS
  <2>1. k - 1 \in 0..N /\ (k - 1) + 1 = k
    BY <1>2
  <2> QED
    BY <2>1
<1> HIDE DEF s
<1>4. DeltasAsFlatList(type, factor, start, deltas) = [k \in 1..(N + 1) |-> Wrap(type, s[k - 1])]
  BY <1>1, DeltasRebuilt
<1>5. DeltasAsFlatList(type, factor, start, deltas) = [k \in DOMAIN series |-> Wrap(type, series[k])]
  BY <1>2, <1>3, <1>4
<1> QED
  BY <1>5 DEF series

-----------------------------------------------------------------------------
(* The quasi-periodic vector: where its shifts take effect.                *)

LEMMA SumUpTo ==
  ASSUME NEW N \in Nat, NEW f, \A x \in 1..N : f[x] \in Int, NEW i \in 0..N
  PROVE  /\ SetSum(f, 1..i) \in Int
         /\ i = 0 => SetSum(f, 1..i) = 0
         /\ i # 0 => SetSum(f, 1..i) = f[i] + SetSum(f, 1..(i - 1))
<1>1. IsFiniteSet(1..i) /\ \A x \in 1..i : f[x] \in Int
  BY FS_Interval
<1>2. /\ SetSum(f, 1..i) \in Int
      /\ 1..i = {} => SetSum(f, 1..i) = 0
      /\ \A x \in 1..i : SetSum(f, 1..i) = f[x] + SetSum(f, (1..i) \ {x})
  BY <1>1, SetSumStep
<1>3. i = 0 => 1..i = {}
  OBVIOUS
<1>4. i # 0 => i \in 1..i /\ (1..i) \ {i} = 1..(i - 1)
  OBVIOUS
<1> QED
  BY <1>2, <1>3, <1>4

LEMMA NoSum == \A f : SetSum(f, 1..0) = 0
<1>1. TAKE f
<1> DEFINE S == 1..0
<1>2. S = {}
  OBVIOUS
<1> HIDE DEF S
<1>3. IsFiniteSet(S) /\ \A x \in S : f[x] \in Int
  BY <1>2, FS_EmptySet
<1>4. SetSum(f, S) = 0
  BY <1>2, <1>3, SetSumStep
<1> QED
  BY <1>4 DEF S

LEMMA PairTypes ==
  ASSUME NEW shifts \in Seq(Int)
  PROVE  /\ Len(shifts) \div 2 \in Nat /\ PairsOf(shifts) = 1..(Len(shifts) \div 2)
         /\ \A p \in PairsOf(shifts) :
              /\ shifts[2 * p] \in Int /\ shifts[2 * p - 1] \in Int
              /\ Jumps(shifts)[p] = shifts[2 * p]
              /\ Runs(shifts)[p] \in Nat \ {0}
              /\ Runs(shifts)[p] = 1 + (IF shifts[2 * p - 1] > 0 THEN shifts[2 * p - 1] ELSE 0)
<1>1. Len(shifts) \div 2 \in Nat /\ 2 * (Len(shifts) \div 2) <= Len(shifts)
  OBVIOUS
<1>2. \A p \in PairsOf(shifts) : 2 * p \in 1..Len(shifts) /\ 2 * p - 1 \in 1..Len(shifts)
  BY <1>1 DEF PairsOf
<1>3. \A p \in PairsOf(shifts) : shifts[2 * p] \in Int /\ shifts[2 * p - 1] \in Int
  BY <1>2
<1>4. ASSUME NEW p \in PairsOf(shifts)
      PROVE  /\ Jumps(shifts)[p] = shifts[2 * p]
             /\ Runs(shifts)[p] = 1 + (IF shifts[2 * p - 1] > 0 THEN shifts[2 * p - 1] ELSE 0)
  BY <1>4 DEF Jumps, Runs
<1>5. ASSUME NEW p \in PairsOf(shifts) PROVE Runs(shifts)[p] \in Nat \ {0}
  <2>1. PICK n \in Int : n = shifts[2 * p - 1]
    BY <1>3
  <2>2. Runs(shifts)[p] = 1 + (IF n > 0 THEN n ELSE 0)
    BY <1>4, <2>1
  <2> QED
    BY <2>2
<1>6. PairsOf(shifts) = 1..(Len(shifts) \div 2)
  BY DEF PairsOf
<1> QED
  BY <1>1, <1>3, <1>4, <1>5, <1>6

LEMMA PlaceFacts ==
  ASSUME NEW shifts \in Seq(Int)
  PROVE  /\ Place(shifts, 0) = 0
         /\ \A p \in 0..(Len(shifts) \div 2) : Place(shifts, p) \in Nat
         /\ \A p \in PairsOf(shifts) : Place(shifts, p) = Place(shifts, p - 1) + Runs(shifts)[p]
<1> DEFINE N == Len(shifts) \div 2
           f == Runs(shifts)
           S == {p \in 0..N : Place(shifts, p) \in Nat}
<1>1. N \in Nat /\ PairsOf(shifts) = 1..N /\ \A x \in 1..N : f[x] \in Nat \ {0}
  BY PairTypes
<1> HIDE DEF f, N
<1>2. \A p : Place(shifts, p) = SetSum(f, 1..p)
  BY MapThenSumIsSetSum, Zenon DEF Place, f
<1>3. 0 \in 0..N /\ \A x \in 1..N : f[x] \in Int
  BY <1>1
<1>4. \A i \in 0..N : /\ SetSum(f, 1..i) \in Int
                      /\ i = 0 => SetSum(f, 1..i) = 0
                      /\ i # 0 => SetSum(f, 1..i) = f[i] + SetSum(f, 1..(i - 1))
  <2>1. N \in Nat /\ \A x \in 1..N : f[x] \in Int
    BY <1>1, <1>3
  <2> QED
    BY <2>1, SumUpTo
<1>5. Place(shifts, 0) = 0
  <2>1. SetSum(f, 1..0) = 0
    BY NoSum
  <2> QED
    BY <1>2, <2>1, Zenon
<1>6. \A p \in 1..N : Place(shifts, p) = Place(shifts, p - 1) + f[p]
  <2> SUFFICES ASSUME NEW p \in 1..N PROVE Place(shifts, p) = Place(shifts, p - 1) + f[p]
    OBVIOUS
  <2>1. p \in 0..N /\ p - 1 \in 0..N /\ p # 0
    BY <1>1
  <2>2. SetSum(f, 1..(p - 1)) \in Int /\ SetSum(f, 1..p) = f[p] + SetSum(f, 1..(p - 1))
    BY <1>4, <2>1
  <2> QED
    BY <1>2, <1>3, <2>1, <2>2
<1>7. \A p \in 0..(N - 1) : p \in S => p + 1 \in S
  <2> SUFFICES ASSUME NEW p \in 0..(N - 1), Place(shifts, p) \in Nat
               PROVE  p + 1 \in 0..N /\ Place(shifts, p + 1) \in Nat
    OBVIOUS
  <2>1. p + 1 \in 1..N /\ (p + 1) - 1 = p /\ p + 1 \in 0..N
    BY <1>1
  <2>2. Place(shifts, p + 1) = Place(shifts, p) + f[p + 1] /\ f[p + 1] \in Nat
    BY <1>1, <1>6, <2>1
  <2> QED
    BY <2>1, <2>2
<1>8. 0 \in S
  BY <1>3, <1>5
<1> HIDE DEF S
<1>9. 0..N \subseteq S
  BY <1>1, <1>7, <1>8, UpTo
<1> QED
  BY <1>1, <1>5, <1>6, <1>9 DEF S, N, f

\* The shifts take effect one after the other.
LEMMA PlacesApart ==
  ASSUME NEW shifts \in Seq(Int), NEW q \in 0..(Len(shifts) \div 2)
  PROVE  \A p \in 0..q : p < q => Place(shifts, p) < Place(shifts, q)
<1> DEFINE N == Len(shifts) \div 2
           S == {r \in 0..N : \A p \in 0..r : p < r => Place(shifts, p) < Place(shifts, r)}
<1>1. N \in Nat /\ PairsOf(shifts) = 1..N /\ \A p \in 1..N : Runs(shifts)[p] \in Nat \ {0}
  BY PairTypes
<1>2. /\ \A p \in 0..N : Place(shifts, p) \in Nat
      /\ \A p \in 1..N : Place(shifts, p) = Place(shifts, p - 1) + Runs(shifts)[p]
  BY <1>1, PlaceFacts
<1> HIDE DEF N
<1>3. 0 \in S
  BY <1>1
<1>4. \A r \in 0..(N - 1) : r \in S => r + 1 \in S
  <2> TAKE r \in 0..(N - 1)
  <2> HAVE r \in S
  <2>0. r + 1 \in 0..N
    BY <1>1
  <2> SUFFICES ASSUME NEW p \in 0..(r + 1), p < r + 1
               PROVE  Place(shifts, p) < Place(shifts, r + 1)
    BY <2>0
  <2>1. r + 1 \in 1..N /\ (r + 1) - 1 = r /\ r + 1 \in 0..N /\ r \in 0..N /\ p \in 0..N
    BY <1>1
  <2>2. Place(shifts, r + 1) = Place(shifts, r) + Runs(shifts)[r + 1]
    BY <1>2, <2>1
  <2>3. Place(shifts, r) \in Nat /\ Runs(shifts)[r + 1] \in Nat \ {0} /\ Place(shifts, p) \in Nat
    BY <1>1, <1>2, <2>1
  <2>4. p = r \/ (p \in 0..r /\ p < r)
    OBVIOUS
  <2>5. Place(shifts, p) <= Place(shifts, r)
    BY <2>3, <2>4
  <2> QED
    BY <2>1, <2>2, <2>3, <2>5
<1> HIDE DEF S
<1>5. 0..N \subseteq S
  BY <1>1, <1>3, <1>4, UpTo
<1>6. q \in S
  BY <1>5 DEF N
<1> QED
  BY <1>6 DEF S

LEMMA MovedFacts ==
  ASSUME NEW shifts \in Seq(Int)
  PROVE  /\ \A i \in Nat : Moved(shifts, i) \in Int
         /\ Moved(shifts, 0) = 0
         /\ \A i \in Nat : (\A p \in PairsOf(shifts) : Place(shifts, p) # i + 1)
                             => Moved(shifts, i + 1) = Moved(shifts, i)
         /\ \A p \in PairsOf(shifts) :
              /\ Place(shifts, p) \in Nat \ {0}
              /\ Moved(shifts, Place(shifts, p)) = Moved(shifts, Place(shifts, p) - 1) + shifts[2 * p]
<1> DEFINE N == Len(shifts) \div 2
           f == Jumps(shifts)
           Taken(i) == {p \in PairsOf(shifts) : Place(shifts, p) <= i}
<1>1. /\ N \in Nat /\ PairsOf(shifts) = 1..N
      /\ \A p \in 1..N : f[p] = shifts[2 * p] /\ f[p] \in Int
  BY PairTypes
<1>2. \A p \in 1..N : Place(shifts, p) \in Nat \ {0}
  <2> SUFFICES ASSUME NEW p \in 1..N PROVE Place(shifts, p) \in Nat \ {0}
    OBVIOUS
  <2>1. p \in 0..N /\ 0 \in 0..p /\ 0 < p
    BY <1>1
  <2>2. Place(shifts, 0) < Place(shifts, p)
    BY <2>1, PlacesApart
  <2> QED
    BY <2>1, <2>2, PlaceFacts
<1>3. \A p, q \in 1..N : Place(shifts, p) = Place(shifts, q) => p = q
  <2> SUFFICES ASSUME NEW p \in 1..N, NEW q \in 1..N, p < q
               PROVE  Place(shifts, p) # Place(shifts, q)
    BY <1>1
  <2>1. q \in 0..N /\ p \in 0..q
    BY <1>1
  <2>2. Place(shifts, p) < Place(shifts, q)
    BY <2>1, PlacesApart
  <2> QED
    BY <1>2, <2>2
<1> HIDE DEF f, N
<1>4. \A i : Moved(shifts, i) = SetSum(f, Taken(i))
  BY MapThenSumIsSetSum, Zenon DEF Moved, f
<1>5. \A i : IsFiniteSet(Taken(i)) /\ \A p \in Taken(i) : f[p] \in Int
  <2>1. IsFiniteSet(1..N)
    BY <1>1, FS_Interval
  <2>2. \A i : Taken(i) \in SUBSET (1..N)
    BY <1>1
  <2> HIDE DEF Taken
  <2>3. \A i : IsFiniteSet(Taken(i))
    BY <2>1, <2>2, FS_Subset
  <2> QED
    BY <1>1, <2>2, <2>3
<1>6. \A i \in Nat : Moved(shifts, i) \in Int
  <2> HIDE DEF Taken
  <2> QED
    BY <1>4, <1>5, SetSumStep
<1>7. Moved(shifts, 0) = 0
  <2>1. Taken(0) = {}
    BY <1>1, <1>2
  <2> HIDE DEF Taken
  <2>2. SetSum(f, Taken(0)) = 0
    BY <1>5, <2>1, SetSumStep
  <2> QED
    BY <1>4, <2>2
<1>8. ASSUME NEW i \in Nat, \A p \in PairsOf(shifts) : Place(shifts, p) # i + 1
      PROVE  Moved(shifts, i + 1) = Moved(shifts, i)
  <2>1. Taken(i + 1) = Taken(i)
    BY <1>1, <1>2, <1>8
  <2> QED
    BY <1>4, <2>1
<1>9. ASSUME NEW p \in 1..N
      PROVE  Moved(shifts, Place(shifts, p)) = Moved(shifts, Place(shifts, p) - 1) + shifts[2 * p]
  <2> DEFINE i == Place(shifts, p)
  <2>1. i \in Nat \ {0} /\ p \in Taken(i)
    BY <1>1, <1>2
  <2>2. Taken(i) \ {p} = Taken(i - 1)
    <3>1. \A q \in 1..N : q # p => (Place(shifts, q) <= i <=> Place(shifts, q) <= i - 1)
      BY <1>2, <1>3, <2>1
    <3>2. ~(i <= i - 1)
      BY <2>1
    <3> QED
      BY <1>1, <3>1, <3>2
  <2> HIDE DEF i, Taken
  <2>3. SetSum(f, Taken(i)) = f[p] + SetSum(f, Taken(i) \ {p})
    BY <1>5, <2>1, SetSumStep
  <2>4. Moved(shifts, i) = f[p] + Moved(shifts, i - 1)
    BY <1>4, <2>2, <2>3
  <2>5. f[p] \in Int /\ f[p] = shifts[2 * p] /\ i - 1 \in Nat
    BY <1>1, <2>1
  <2>6. Moved(shifts, i - 1) \in Int
    BY <1>6, <2>5
  <2> QED
    BY <2>4, <2>5, <2>6 DEF i
<1> QED
  BY <1>1, <1>2, <1>6, <1>7, <1>8, <1>9

\* The values of the series, for as long as the period goes on.
Exact(period, start, shifts) ==
  [k \in Nat \ {0} |-> start + (k - 1) * period + Moved(shifts, k - 1)]

LEMMA ExactType ==
  ASSUME NEW period \in Int, NEW start \in Int, NEW shifts \in Seq(Int)
  PROVE  /\ Exact(period, start, shifts) \in [Nat \ {0} -> Int]
         /\ Exact(period, start, shifts)[1] = start
         /\ \A k \in Nat \ {0}, d \in Int :
              Moved(shifts, k) = Moved(shifts, k - 1) + d
                => Exact(period, start, shifts)[k + 1] = Exact(period, start, shifts)[k] + period + d
<1> DEFINE e == Exact(period, start, shifts)
<1>1. \A k \in Nat \ {0} : Moved(shifts, k - 1) \in Int /\ Moved(shifts, k) \in Int
  BY MovedFacts
<1>2. \A k \in Nat \ {0} : e[k] = start + (k - 1) * period + Moved(shifts, k - 1) /\ e[k] \in Int
  <2> SUFFICES ASSUME NEW k \in Nat \ {0}
               PROVE  e[k] = start + (k - 1) * period + Moved(shifts, k - 1) /\ e[k] \in Int
    OBVIOUS
  <2>1. e[k] = start + (k - 1) * period + Moved(shifts, k - 1)
    BY DEF Exact
  <2>2. (k - 1) * period \in Int
    OBVIOUS
  <2> HIDE DEF e
  <2> QED
    BY <1>1, <2>1, <2>2
<1>3. e \in [Nat \ {0} -> Int]
  BY <1>2 DEF Exact
<1> HIDE DEF e
<1>4. e[1] = start
  BY <1>2, MovedFacts
<1>5. ASSUME NEW k \in Nat \ {0}, NEW d \in Int, Moved(shifts, k) = Moved(shifts, k - 1) + d
      PROVE  e[k + 1] = e[k] + period + d
  <2>1. PICK m \in Int : m = Moved(shifts, k - 1)
    BY <1>1
  <2>2. e[k] = start + (k - 1) * period + m
    BY <1>2, <2>1
  <2>3. k + 1 \in Nat \ {0} /\ (k + 1) - 1 = k
    OBVIOUS
  <2>4. e[k + 1] = start + k * period + (m + d)
    BY <1>2, <1>5, <2>1, <2>3
  <2>5. k * period = (k - 1) * period + period
    OBVIOUS
  <2>6. PICK a \in Int : a = (k - 1) * period
    OBVIOUS
  <2> QED
    BY <2>2, <2>4, <2>5, <2>6
<1> QED
  BY <1>3, <1>4, <1>5 DEF e

\* Between two shifts that follow each other, and after the last one, no shift takes effect.
LEMMA NoPlaceBetween ==
  ASSUME NEW shifts \in Seq(Int), NEW p \in 0..(Len(shifts) \div 2), NEW k \in Nat,
         Place(shifts, p) < k, p < Len(shifts) \div 2 => k < Place(shifts, p + 1)
  PROVE  \A q \in PairsOf(shifts) : Place(shifts, q) # k
<1> DEFINE N == Len(shifts) \div 2
<1>1. N \in Nat /\ PairsOf(shifts) = 1..N /\ \A q \in 0..N : Place(shifts, q) \in Nat
  BY PairTypes, PlaceFacts
<1>2. SUFFICES ASSUME NEW q \in 1..N PROVE Place(shifts, q) # k
  BY <1>1
<1>3. CASE q <= p
  <2>1. q = p \/ (q \in 0..p /\ q < p)
    BY <1>3
  <2>2. Place(shifts, q) <= Place(shifts, p)
    BY <1>1, <2>1, PlacesApart
  <2>3. q \in 0..N
    BY <1>1
  <2> QED
    BY <1>1, <2>2, <2>3
<1>4. CASE p < q
  <2>1. p < N /\ p + 1 \in 0..N /\ q \in 0..N
    BY <1>1, <1>4
  <2>2. q = p + 1 \/ (p + 1 \in 0..q /\ p + 1 < q)
    BY <1>4
  <2>3. Place(shifts, p + 1) <= Place(shifts, q)
    BY <1>1, <2>1, <2>2, PlacesApart
  <2> QED
    BY <1>1, <2>1, <2>3
<1> QED
  BY <1>1, <1>3, <1>4

\* e is a series whose values are a period apart, and moved by a shift where it takes effect.
KeepsPeriod(period, shifts, e) ==
  /\ e \in [Nat \ {0} -> Int]
  /\ \A p \in 0..(Len(shifts) \div 2), k \in Nat :
       (Place(shifts, p) < k /\ (p < Len(shifts) \div 2 => k < Place(shifts, p + 1)))
         => e[k + 1] = e[k] + period
  /\ \A p \in PairsOf(shifts) :
       e[Place(shifts, p) + 1] = (e[Place(shifts, p)] + period) + shifts[2 * p]

LEMMA ExactFollows ==
  ASSUME NEW period \in Int, NEW start \in Int, NEW shifts \in Seq(Int)
  PROVE  KeepsPeriod(period, shifts, Exact(period, start, shifts))
<1> DEFINE N == Len(shifts) \div 2
           e == Exact(period, start, shifts)
<1>0. /\ e \in [Nat \ {0} -> Int]
      /\ \A k \in Nat \ {0}, d \in Int :
           Moved(shifts, k) = Moved(shifts, k - 1) + d => e[k + 1] = e[k] + period + d
  BY ExactType
<1>1. N \in Nat /\ PairsOf(shifts) = 1..N /\ \A q \in 0..N : Place(shifts, q) \in Nat
  BY PairTypes, PlaceFacts
<1> HIDE DEF e
<1>2. ASSUME NEW p \in 0..N, NEW k \in Nat,
             Place(shifts, p) < k, p < N => k < Place(shifts, p + 1)
      PROVE  e[k + 1] = e[k] + period
  <2>1. \A q \in PairsOf(shifts) : Place(shifts, q) # k
    BY <1>2, NoPlaceBetween
  <2>2. k \in Nat \ {0} /\ k - 1 \in Nat /\ (k - 1) + 1 = k
    BY <1>1, <1>2
  <2>3. Moved(shifts, k) = Moved(shifts, k - 1) /\ Moved(shifts, k - 1) \in Int
    BY <2>1, <2>2, MovedFacts
  <2>4. Moved(shifts, k) = Moved(shifts, k - 1) + 0
    BY <2>3
  <2>5. e[k + 1] = e[k] + period + 0
    BY <1>0, <2>2, <2>4
  <2>6. e[k] \in Int
    BY <1>0, <2>2
  <2> QED
    BY <2>5, <2>6
<1>3. ASSUME NEW p \in PairsOf(shifts)
      PROVE  e[Place(shifts, p) + 1] = (e[Place(shifts, p)] + period) + shifts[2 * p]
  <2>1. PICK k \in Nat \ {0} : k = Place(shifts, p)
    BY MovedFacts
  <2>2. Moved(shifts, k) = Moved(shifts, k - 1) + shifts[2 * p] /\ shifts[2 * p] \in Int
    BY <2>1, MovedFacts, PairTypes
  <2>3. e[k + 1] = e[k] + period + shifts[2 * p]
    BY <1>0, <2>2
  <2> QED
    BY <2>1, <2>3
<1> QED
  BY <1>0, <1>2, <1>3 DEF KeepsPeriod, e

-----------------------------------------------------------------------------
(* The quasi-periodic vector: what the code appends to its list.           *)

\* The first n values of the series e, wrapped.
Prefix(type, e, n) == [k \in 1..n |-> Wrap(type, e[k])]

LEMMA PrefixGrows ==
  ASSUME NEW type \in IntegerTypes, NEW e \in [Nat \ {0} -> Int], NEW n \in Nat \ {0}
  PROVE  /\ Last(Prefix(type, e, n)) = Wrap(type, e[n])
         /\ Append(Prefix(type, e, n), Wrap(type, e[n + 1])) = Prefix(type, e, n + 1)
<1> DEFINE s == Prefix(type, e, n)
           x == Wrap(type, e[n + 1])
           t == Append(s, x)
<1>1. \A k \in 1..(n + 1) : Wrap(type, e[k]) \in Int
  BY WrapValue
<1>2. s \in Seq(Int) /\ Len(s) = n /\ \A k \in 1..n : s[k] = Wrap(type, e[k])
  BY <1>1 DEF Prefix
<1>3. x \in Int
  BY <1>1
<1>4. Last(s) = s[Len(s)]
  BY DEF Last
<1>5. n \in 1..n /\ n + 1 \in 1..(n + 1)
  OBVIOUS
<1> HIDE DEF s, x
<1>6. /\ Len(t) = n + 1 /\ t[n + 1] = x /\ t \in Seq(Int)
      /\ \A k \in 1..n : t[k] = s[k]
  BY <1>2, <1>3
<1> HIDE DEF t
<1>7. \A k \in 1..(n + 1) : t[k] = Wrap(type, e[k])
  BY <1>2, <1>6 DEF x
<1>8. t = [k \in 1..(n + 1) |-> t[k]]
  BY <1>6
<1>9. t = Prefix(type, e, n + 1)
  BY <1>7, <1>8 DEF Prefix
<1> QED
  BY <1>2, <1>4, <1>5, <1>9 DEF s, t, x

LEMMA PeriodAppended ==
  ASSUME NEW type \in IntegerTypes, NEW e \in [Nat \ {0} -> Int], NEW n \in Nat \ {0},
         NEW period \in Int, e[n + 1] = e[n] + period
  PROVE  Append(Prefix(type, e, n), Wrap(type, Last(Prefix(type, e, n)) + period))
           = Prefix(type, e, n + 1)
<1>1. PICK a \in Int : a = e[n]
  OBVIOUS
<1>2. Wrap(type, Wrap(type, a) + period) = Wrap(type, a + period)
  BY OverflowLeavesNoTrace
<1>3. Wrap(type, Last(Prefix(type, e, n)) + period) = Wrap(type, e[n + 1])
  BY <1>1, <1>2, PrefixGrows
<1> QED
  BY <1>3, PrefixGrows

LEMMA ShiftAppended ==
  ASSUME NEW type \in IntegerTypes, NEW e \in [Nat \ {0} -> Int], NEW n \in Nat \ {0},
         NEW period \in Int, NEW shift \in Int, e[n + 1] = (e[n] + period) + shift
  PROVE  Shifted(type, Prefix(type, e, n), period, shift) = Prefix(type, e, n + 1)
<1>1. PICK a \in Int, b \in Int : a = e[n] /\ b = a + period
  OBVIOUS
<1>2. Wrap(type, Wrap(type, a) + period) = Wrap(type, b)
  BY <1>1, OverflowLeavesNoTrace
<1>3. Wrap(type, Wrap(type, b) + shift) = Wrap(type, b + shift)
  BY OverflowLeavesNoTrace
<1>4. Wrap(type, Wrap(type, Last(Prefix(type, e, n)) + period) + shift) = Wrap(type, e[n + 1])
  BY <1>1, <1>2, <1>3, PrefixGrows
<1> QED
  BY <1>4, PrefixGrows DEF Shifted

Times(n) == IF n > 0 THEN n ELSE 0

\* The n values of e after the m-th are a period apart.
Steady(period, e, m, n) == \A k \in m..(m + Times(n) - 1) : e[k + 1] = e[k] + period

\* The lists that Repeated makes, each from the one before.
Repeats(type, list, period, n, f) ==
  [k \in 0..Times(n) |->
     IF k = 0 THEN list ELSE Append(f[k - 1], Wrap(type, Last(f[k - 1]) + period))]

LEMMA RepeatedWraps ==
  ASSUME NEW type \in IntegerTypes, NEW e \in [Nat \ {0} -> Int], NEW m \in Nat \ {0},
         NEW period \in Int, NEW n \in Int,
         Steady(period, e, m, n)
  PROVE  Repeated(type, Prefix(type, e, m), period, n) = Prefix(type, e, m + Times(n))
<1> DEFINE N == Times(n)
           list == Prefix(type, e, m)
           OneMore(l) == Append(l, Wrap(type, Last(l) + period))
           g == CHOOSE f : f = Repeats(type, list, period, n, f)
           w == [k \in 0..N |-> Prefix(type, e, m + k)]
<1>1. Repeated(type, list, period, n) = g[N]
  BY Zenon DEF Repeated, Repeats, Times
<1>2. N \in Nat
  BY DEF Times
<1>3. \A k \in 1..N : w[k] = OneMore(w[k - 1])
  <2> SUFFICES ASSUME NEW k \in 1..N PROVE w[k] = OneMore(w[k - 1])
    OBVIOUS
  <2>1. k \in 0..N /\ k - 1 \in 0..N
    BY <1>2
  <2>2. PICK j \in Nat \ {0} : j = m + (k - 1) /\ j + 1 = m + k /\ j \in m..(m + N - 1)
    BY <1>2
  <2>3. w[k] = Prefix(type, e, j + 1) /\ w[k - 1] = Prefix(type, e, j)
    BY <2>1, <2>2
  <2>4. e[j + 1] = e[j] + period
    BY <2>2 DEF Steady
  <2>5. OneMore(Prefix(type, e, j)) = Prefix(type, e, j + 1)
    BY <2>4, PeriodAppended
  <2> QED
    BY <2>3, <2>5
<1>4. w[0] = list /\ w[N] = Prefix(type, e, m + N)
  BY <1>2
<1> HIDE DEF list
<1>5. w = Repeats(type, list, period, n, w)
  <2>1. \A i \in 0..N : i # 0 => i \in 1..N
    BY <1>2
  <2>2. w = [i \in 0..N |-> w[i]]
    OBVIOUS
  <2> HIDE DEF w, N
  <2>3. \A i \in 0..N : w[i] = IF i = 0 THEN list ELSE Append(w[i - 1], Wrap(type, Last(w[i - 1]) + period))
    BY <1>3, <1>4, <2>1
  <2> QED
    BY <2>2, <2>3, Zenon DEF Repeats, N
<1>6. g = Repeats(type, list, period, n, g)
  BY <1>5, Zenon
<1> HIDE DEF g, w
<1>7. g[0] = list /\ \A i \in 1..N : g[i] = OneMore(g[i - 1])
  <2> DEFINE h == Repeats(type, list, period, n, g)
  <2>1. \A i \in 0..N : h[i] = IF i = 0 THEN list ELSE Append(g[i - 1], Wrap(type, Last(g[i - 1]) + period))
    BY DEF Repeats
  <2>2. 0 \in 0..N /\ \A i \in 1..N : i \in 0..N /\ i # 0
    BY <1>2
  <2> HIDE DEF h, N
  <2>3. h[0] = list
    BY <2>1, <2>2
  <2>4. \A i \in 1..N : h[i] = OneMore(g[i - 1])
    BY <2>1, <2>2
  <2>5. g = h
    BY <1>6 DEF h
  <2> QED
    BY <2>3, <2>4, <2>5
<1> DEFINE S == {i \in 0..N : g[i] = w[i]}
<1>8. 0 \in S
  BY <1>2, <1>4, <1>7
<1> HIDE DEF N, OneMore
<1>9. \A i \in 0..(N - 1) : i \in S => i + 1 \in S
  <2> SUFFICES ASSUME NEW i \in 0..(N - 1), g[i] = w[i] PROVE g[i + 1] = w[i + 1] /\ i + 1 \in 0..N
    OBVIOUS
  <2>1. i + 1 \in 1..N /\ (i + 1) - 1 = i /\ i + 1 \in 0..N
    BY <1>2
  <2> QED
    BY <1>3, <1>7, <2>1
<1> HIDE DEF S
<1>10. 0..N \subseteq S
  BY <1>2, <1>8, <1>9, UpTo
<1>11. N \in S
  BY <1>2, <1>10
<1>12. g[N] = w[N]
  BY <1>11 DEF S
<1> QED
  BY <1>1, <1>4, <1>12 DEF list, N

\* The lists that AsFlatList makes, one for each pair of a repeat count and a shift.
PairSteps(type, period, start, shifts, f) ==
  [p \in 0..(Len(shifts) \div 2) |->
     IF p = 0 THEN <<start>>
     ELSE Shifted(type, Repeated(type, f[p - 1], period, shifts[2 * p - 1]),
                  period, shifts[2 * p])]

\* One pair: the period as often as it says, then the shift.
LEMMA PairWraps ==
  ASSUME NEW type \in IntegerTypes, NEW period \in Int,
         NEW shifts \in Seq(Int), NEW e, KeepsPeriod(period, shifts, e),
         NEW p \in PairsOf(shifts)
  PROVE  Shifted(type, Repeated(type, Prefix(type, e, 1 + Place(shifts, p - 1)),
                                period, shifts[2 * p - 1]),
                 period, shifts[2 * p])
           = Prefix(type, e, 1 + Place(shifts, p))
<1> DEFINE N == Len(shifts) \div 2
<1>1. N \in Nat /\ p \in 1..N /\ p - 1 \in 0..N /\ (p - 1) + 1 = p /\ p - 1 < N
  <2>1. N \in Nat /\ p \in 1..N
    BY PairTypes
  <2> HIDE DEF N
  <2> QED
    BY <2>1
<1>2. e \in [Nat \ {0} -> Int]
  BY DEF KeepsPeriod
<1>3. PICK n \in Int, shift \in Int : n = shifts[2 * p - 1] /\ shift = shifts[2 * p]
  BY PairTypes
<1>4. PICK a \in Nat, b \in Nat \ {0} : a = Place(shifts, p - 1) /\ b = Place(shifts, p)
  BY <1>1, PlaceFacts, MovedFacts
<1>5. Times(n) \in Nat /\ b = a + (1 + Times(n))
  <2>1. Runs(shifts)[p] = 1 + Times(n)
    BY <1>3, PairTypes DEF Times
  <2>2. Place(shifts, p) = Place(shifts, p - 1) + Runs(shifts)[p]
    BY PlaceFacts
  <2> QED
    BY <1>4, <2>1, <2>2 DEF Times
<1>6. ASSUME NEW k \in (1 + a)..((1 + a) + Times(n) - 1) PROVE e[k + 1] = e[k] + period
  <2>1. k \in Nat /\ a < k /\ k < b
    BY <1>5
  <2>2. Place(shifts, p - 1) < k /\ k < Place(shifts, (p - 1) + 1)
    BY <1>1, <1>4, <2>1
  <2> QED
    BY <1>1, <2>1, <2>2 DEF KeepsPeriod
<1>7. PICK c \in Nat \ {0} : c = 1 + a /\ c + Times(n) = b
  BY <1>5
<1>8. Repeated(type, Prefix(type, e, 1 + a), period, n) = Prefix(type, e, b)
  <2>1. Steady(period, e, c, n)
    BY <1>6, <1>7 DEF Steady
  <2>2. Repeated(type, Prefix(type, e, c), period, n) = Prefix(type, e, c + Times(n))
    BY <1>2, <2>1, RepeatedWraps
  <2> QED
    BY <1>7, <2>2
<1>9. e[b + 1] = (e[b] + period) + shift
  BY <1>3, <1>4 DEF KeepsPeriod
<1>10. Shifted(type, Prefix(type, e, b), period, shift) = Prefix(type, e, b + 1)
  BY <1>2, <1>9, ShiftAppended
<1>11. b + 1 = 1 + b
  OBVIOUS
<1> QED
  BY <1>3, <1>4, <1>8, <1>10, <1>11

\* After the pairs: the last repeat count.
LEMMA LastRepeatWraps ==
  ASSUME NEW type \in IntegerTypes, NEW period \in Int,
         NEW shifts \in Seq(Int), NEW e, KeepsPeriod(period, shifts, e), NEW n \in Int
  PROVE  Repeated(type, Prefix(type, e, 1 + Place(shifts, Len(shifts) \div 2)), period, n)
           = Prefix(type, e, 1 + Place(shifts, Len(shifts) \div 2) + Times(n))
<1> DEFINE N == Len(shifts) \div 2
<1>1. N \in Nat /\ N \in 0..N /\ ~(N < N)
  BY PairTypes
<1>2. e \in [Nat \ {0} -> Int]
  BY DEF KeepsPeriod
<1>3. PICK a \in Nat : a = Place(shifts, N)
  BY <1>1, PlaceFacts
<1>4. Times(n) \in Nat
  BY DEF Times
<1>5. ASSUME NEW k \in (1 + a)..((1 + a) + Times(n) - 1) PROVE e[k + 1] = e[k] + period
  <2>1. k \in Nat /\ Place(shifts, N) < k
    BY <1>3, <1>4
  <2> QED
    BY <1>1, <2>1 DEF KeepsPeriod
<1>6. 1 + a \in Nat \ {0} /\ Steady(period, e, 1 + a, n)
  BY <1>5 DEF Steady
<1>7. Repeated(type, Prefix(type, e, 1 + a), period, n) = Prefix(type, e, (1 + a) + Times(n))
  BY <1>2, <1>6, RepeatedWraps
<1> QED
  BY <1>3, <1>7

\* AsFlatList of a quasi-periodic vector whose start is a value of its elements is the
\* series that the vector stands for, every value a period after the one before and
\* moved by the shifts that have taken effect, wrapped to the width of the elements:
\* what SeriesAsDefined says of the vectors that are sent, of all vectors, negative and
\* missing repeat counts included (types_quasi_periodic.go:22-56).
THEOREM QuasiAsDefined ==
  ASSUME NEW type \in IntegerTypes, NEW period \in Int, NEW start \in Int,
         ValueOf(type, start), NEW shifts \in Seq(Int)
  PROVE  LET series == QuasiSeries(period, start, shifts)
         IN  QuasiAsFlatList(type, period, start, shifts)
               = [k \in DOMAIN series |-> Wrap(type, series[k])]
<1> DEFINE N == Len(shifts) \div 2
           e == Exact(period, start, shifts)
           last == lastRepeat(shifts)
           total == 1 + Place(shifts, N) + Times(last)
           OneMore(l, p) == Shifted(type, Repeated(type, l, period, shifts[2 * p - 1]),
                                 period, shifts[2 * p])
           g == CHOOSE f : f = PairSteps(type, period, start, shifts, f)
           w == [p \in 0..N |-> Prefix(type, e, 1 + Place(shifts, p))]
<1>0. KeepsPeriod(period, shifts, e)
  BY ExactFollows
<1>1. QuasiAsFlatList(type, period, start, shifts) = Repeated(type, g[N], period, last)
  BY Zenon DEF QuasiAsFlatList, PairSteps
<1>2. N \in Nat /\ PairsOf(shifts) = 1..N
  BY PairTypes
<1>3. \A p \in 1..N : w[p] = OneMore(w[p - 1], p)
  <2> SUFFICES ASSUME NEW p \in 1..N PROVE w[p] = OneMore(w[p - 1], p)
    OBVIOUS
  <2>1. p \in 0..N /\ p - 1 \in 0..N /\ p \in PairsOf(shifts)
    BY <1>2
  <2>2. w[p] = Prefix(type, e, 1 + Place(shifts, p)) /\ w[p - 1] = Prefix(type, e, 1 + Place(shifts, p - 1))
    BY <2>1
  <2> HIDE DEF w, e
  <2>3. OneMore(Prefix(type, e, 1 + Place(shifts, p - 1)), p) = Prefix(type, e, 1 + Place(shifts, p))
    BY <1>0, <2>1, PairWraps
  <2> QED
    BY <2>2, <2>3
<1>4. w[0] = <<start>>
  <2>1. 0 \in 0..N /\ 1 + Place(shifts, 0) = 1
    BY <1>2, PlaceFacts
  <2>2. w[0] = Prefix(type, e, 1)
    BY <2>1
  <2>3. Wrap(type, e[1]) = start
    BY ExactType, FittingValueKept
  <2> HIDE DEF e, w
  <2>4. Prefix(type, e, 1) = <<start>>
    BY <2>3 DEF Prefix
  <2> QED
    BY <2>2, <2>4
<1>5. w[N] = Prefix(type, e, 1 + Place(shifts, N))
  BY <1>2
<1>6. w = PairSteps(type, period, start, shifts, w)
  <2>1. \A i \in 0..N : i # 0 => i \in 1..N
    BY <1>2
  <2>2. w = [i \in 0..N |-> w[i]]
    OBVIOUS
  <2> HIDE DEF w, N
  <2>3. \A i \in 0..N : w[i] = IF i = 0 THEN <<start>> ELSE OneMore(w[i - 1], i)
    BY <1>3, <1>4, <2>1
  <2> QED
    BY <2>2, <2>3, Zenon DEF PairSteps, N
<1>7. g = PairSteps(type, period, start, shifts, g)
  BY <1>6, Zenon
<1> HIDE DEF g, w
<1>8. g[0] = <<start>> /\ \A i \in 1..N : g[i] = OneMore(g[i - 1], i)
  <2> DEFINE h == PairSteps(type, period, start, shifts, g)
  <2>1. \A i \in 0..N : h[i] = IF i = 0 THEN <<start>> ELSE OneMore(g[i - 1], i)
    BY Zenon DEF PairSteps
  <2>2. 0 \in 0..N /\ \A i \in 1..N : i \in 0..N /\ i # 0
    BY <1>2
  <2> HIDE DEF h, N, OneMore
  <2>3. h[0] = <<start>>
    BY <2>1, <2>2
  <2>4. \A i \in 1..N : h[i] = OneMore(g[i - 1], i)
    BY <2>1, <2>2
  <2>5. g = h
    BY <1>7 DEF h
  <2> QED
    BY <2>3, <2>4, <2>5
<1> DEFINE S == {i \in 0..N : g[i] = w[i]}
<1> HIDE DEF N, OneMore
<1>9. 0 \in S
  <2>1. 0 \in 0..N
    BY <1>2
  <2>2. g[0] = w[0]
    BY <1>4, <1>8
  <2> QED
    BY <2>1, <2>2
<1>10. \A i \in 0..(N - 1) : i \in S => i + 1 \in S
  <2> SUFFICES ASSUME NEW i \in 0..(N - 1), g[i] = w[i] PROVE g[i + 1] = w[i + 1] /\ i + 1 \in 0..N
    OBVIOUS
  <2>1. i + 1 \in 1..N /\ (i + 1) - 1 = i /\ i + 1 \in 0..N
    BY <1>2
  <2> QED
    BY <1>3, <1>8, <2>1
<1> HIDE DEF S
<1>11. 0..N \subseteq S
  BY <1>2, <1>9, <1>10, UpTo
<1>12. N \in S
  BY <1>2, <1>11
<1>13. g[N] = Prefix(type, e, 1 + Place(shifts, N))
  BY <1>5, <1>12 DEF S
<1>14. last \in Int
  BY DEF lastRepeat, Last
<1> HIDE DEF last, e
<1>15. QuasiAsFlatList(type, period, start, shifts) = Prefix(type, e, total)
  <2>1. Repeated(type, Prefix(type, e, 1 + Place(shifts, N)), period, last) = Prefix(type, e, total)
    BY <1>0, <1>14, LastRepeatWraps DEF N
  <2> QED
    BY <1>1, <1>13, <2>1
<1>16. QuasiSeries(period, start, shifts) = [k \in 1..total |-> e[k]]
  <2>1. Times(last) = IF shifts # <<>> /\ Last(shifts) > 0 THEN Last(shifts) ELSE 0
    BY DEF Times, last, lastRepeat
  <2>2. \A k \in 1..total : e[k] = start + (k - 1) * period + Moved(shifts, k - 1)
    BY DEF e, Exact
  <2> HIDE DEF total
  <2>3. QuasiSeries(period, start, shifts)
          = [k \in 1..total |-> start + (k - 1) * period + Moved(shifts, k - 1)]
    BY <2>1, Zenon DEF QuasiSeries, total, N
  <2> QED
    BY <2>2, <2>3
<1> HIDE DEF total
<1>17. QuasiAsFlatList(type, period, start, shifts)
         = [k \in DOMAIN QuasiSeries(period, start, shifts) |->
              Wrap(type, QuasiSeries(period, start, shifts)[k])]
  BY <1>15, <1>16 DEF Prefix
<1> QED
  BY <1>17

-----------------------------------------------------------------------------
(* The vectors that are sent.                                              *)

LEMMA VectorParts ==
  ASSUME NEW v \in Objects, IsVectorOfIntegers(v)
  PROVE  /\ v[1] \in VectorKinds /\ ElementType(v) \in IntegerTypes
         /\ Base(v) \in Int /\ Start(v) \in Int /\ ValueOf(ElementType(v), Start(v))
         /\ Steps(v) \in Seq(Int)
<1> DEFINE type == ElementType(v)
           elements == v[2][3][2]
<1>1. v[1] \in {"deltas", "quasi"}
  BY Zenon DEF IsVectorOfIntegers, VectorKinds
<1>2. v[2] \in Seq(Objects) /\ Len(v[2]) = 3 /\ v[2][3][1] = "list"
  <2>1. v[1] \in BodyTypes
    BY <1>1 DEF BodyTypes, DecodeFrom
  <2>2. v[2] \in Seq(Objects) /\ Len(v[2]) = 3 /\ v[2][3][1] \in FieldTypes[v[1]][3]
    <3>1. 3 \in 1..3
      OBVIOUS
    <3> QED
      BY <2>1, <3>1, ObjectFacts, Zenon
  <2>3. FieldTypes[v[1]][3] = {"list"}
    BY <1>1 DEF FieldTypes
  <2> QED
    BY <2>2, <2>3
<1>3. v[2][1] \in Objects /\ v[2][2] \in Objects /\ v[2][3] \in Objects
  <2>1. 1 \in 1..3 /\ 2 \in 1..3 /\ 3 \in 1..3
    OBVIOUS
  <2> QED
    BY <1>2, <2>1, ElementsIn, Zenon
<1>4. elements \in Seq(Objects)
  BY <1>2, <1>3, ObjectFacts, Zenon
<1>5. /\ type \in IntegerTypes
      /\ \A f \in {v[2][1], v[2][2]} \union Range(elements) : f[1] = type /\ ValueOf(type, f[2])
  BY Zenon DEF IsVectorOfIntegers
<1> HIDE DEF type, elements
<1>6. \A f \in Objects : f[1] = type => f[2] \in Int
  <2>1. \A f \in Objects : f[1] \in IntTypes("number") => f[2] \in Int
    BY ObjectFacts, Zenon
  <2>2. type \in IntTypes("number")
    BY <1>5 DEF IntegerTypes, IntTypes
  <2> QED
    BY <2>1, <2>2, Zenon
<1>7. v[2][1][1] = type /\ v[2][2][1] = type /\ ValueOf(type, v[2][2][2])
  BY <1>5, Zenon
<1>8. \A i \in 1..Len(elements) : elements[i][2] \in Int
  <2> SUFFICES ASSUME NEW i \in 1..Len(elements) PROVE elements[i][2] \in Int
    OBVIOUS
  <2>1. elements[i] \in Objects
    BY <1>4, ElementsIn, Zenon
  <2>2. elements[i] \in Range(elements)
    <3>1. DOMAIN elements = 1..Len(elements)
      BY <1>4
    <3> QED
      BY <3>1, Zenon DEF Range
  <2> QED
    BY <1>5, <1>6, <2>1, <2>2, Zenon
<1>9. [i \in DOMAIN elements |-> elements[i][2]] \in Seq(Int)
  <2>1. DOMAIN elements = 1..Len(elements) /\ Len(elements) \in Nat
    BY <1>4
  <2> QED
    BY <1>8, <2>1
<1> QED
  BY <1>1, <1>3, <1>5, <1>6, <1>7, <1>9, Zenon
  DEF VectorKinds, Base, Start, Steps, type, elements

LEMMA SeriesOfVector ==
  ASSUME NEW v \in Objects, IsVectorOfIntegers(v)
  PROVE  LET series == SeriesOf(v)
         IN  AsFlatList(v) = [k \in DOMAIN series |-> Wrap(ElementType(v), series[k])]
<1>1. CASE v[1] = "deltas"
  <2> DEFINE series == DeltasSeries(Base(v), Start(v), Steps(v))
  <2>1. AsFlatList(v) = DeltasAsFlatList(ElementType(v), Base(v), Start(v), Steps(v))
    BY <1>1 DEF AsFlatList
  <2>2. SeriesOf(v) = series
    BY <1>1 DEF SeriesOf
  <2>3. DeltasAsFlatList(ElementType(v), Base(v), Start(v), Steps(v))
          = [k \in DOMAIN series |-> Wrap(ElementType(v), series[k])]
    BY VectorParts, DeltasAsDefined
  <2> QED
    BY <2>1, <2>2, <2>3
<1>2. CASE v[1] = "quasi"
  <2> DEFINE series == QuasiSeries(Base(v), Start(v), Steps(v))
  <2>1. AsFlatList(v) = QuasiAsFlatList(ElementType(v), Base(v), Start(v), Steps(v))
    BY <1>2 DEF AsFlatList
  <2>2. SeriesOf(v) = series
    BY <1>2 DEF SeriesOf
  <2>3. QuasiAsFlatList(ElementType(v), Base(v), Start(v), Steps(v))
          = [k \in DOMAIN series |-> Wrap(ElementType(v), series[k])]
    BY VectorParts, QuasiAsDefined
  <2> QED
    BY <2>1, <2>2, <2>3
<1> QED
  BY <1>1, <1>2, VectorParts, Zenon DEF VectorKinds

\* AsFlatList makes of every vector of integers that is sent, of any length and with any
\* repeat counts and shifts, the series that the vector is defined to stand for, wrapped to
\* the width of its elements (types_deltas_vector.go:23-35, types_quasi_periodic.go:23-57).
THEOREM SeriesRebuilt == Spec => []SeriesAsDefined
<1>1. TypeOK => SeriesAsDefined
  <2> SUFFICES ASSUME TypeOK, NEW i \in DOMAIN sent, IsVectorOfIntegers(sent[i])
               PROVE  LET type == ElementType(sent[i])
                          series == SeriesOf(sent[i])
                      IN  AsFlatList(sent[i]) = [k \in DOMAIN series |-> Wrap(type, series[k])]
    BY Zenon DEF SeriesAsDefined
  <2>1. sent \in Seq(Objects)
    BY Zenon DEF TypeOK
  <2>2. DOMAIN sent = 1..Len(sent)
    BY <2>1
  <2>3. sent[i] \in Objects
    BY <2>1, <2>2, ElementsIn, Zenon
  <2> QED
    BY <2>3, SeriesOfVector
<1> QED
  BY <1>1, TypeCorrect, PTL

-----------------------------------------------------------------------------
(* The vectors that are received.                                          *)

\* What becomes of a vector on its way: the same numbers, as int64 elements.
LEMMA ReceivedVector ==
  ASSUME NEW v \in Objects, IsVectorOfIntegers(v)
  PROVE  LET r == Received[v]
         IN  /\ r[1] = v[1] /\ ElementType(r) = "int64" /\ Base(r) = Base(v) /\ Start(r) = Start(v)
             /\ Steps(r) = Steps(v)
<1> DEFINE r == Received[v]
           elements == v[2][3][2]
           type == ElementType(v)
<1>1. v[1] \in BodyTypes /\ v[1] \in {"list"} \union BodyTypes /\ FieldTypes[v[1]][3] = {"list"}
  <2>1. v[1] \in {"deltas", "quasi"}
    BY Zenon DEF IsVectorOfIntegers, VectorKinds
  <2> QED
    BY <2>1 DEF BodyTypes, DecodeFrom, FieldTypes
<1>2. v[2] \in Seq(Objects) /\ Len(v[2]) = 3 /\ v[2][3][1] = "list"
  <2>1. 3 \in 1..3
    OBVIOUS
  <2>2. v[2] \in Seq(Objects) /\ Len(v[2]) = 3 /\ v[2][3][1] \in FieldTypes[v[1]][3]
    BY <1>1, <2>1, ObjectFacts, Zenon
  <2> QED
    BY <1>1, <2>2
<1>3. /\ 1 \in DOMAIN v[2] /\ 2 \in DOMAIN v[2] /\ 3 \in DOMAIN v[2]
      /\ v[2][1] \in Objects /\ v[2][2] \in Objects /\ v[2][3] \in Objects
  <2>1. 1 \in 1..3 /\ 2 \in 1..3 /\ 3 \in 1..3 /\ DOMAIN v[2] = 1..3
    BY <1>2
  <2> QED
    BY <1>2, <2>1, ElementsIn, Zenon
<1>4. elements \in Seq(Objects)
  BY <1>2, <1>3, ObjectFacts, Zenon
<1>5. type \in IntTypes("number") /\ \A f \in {v[2][1], v[2][2]} \union Range(elements) : f[1] = type
  <2>1. type \in IntegerTypes /\ \A f \in {v[2][1], v[2][2]} \union Range(elements) : f[1] = type
    BY Zenon DEF IsVectorOfIntegers
  <2> HIDE DEF type
  <2> QED
    BY <2>1 DEF IntegerTypes, IntTypes
<1> HIDE DEF type
<1>6. \A f \in Objects : f[1] = type => Received[f] = <<"int64", f[2]>>
  BY <1>5, ReceivedFacts, Zenon DEF ReceivedByType
<1>7. r = <<v[1], Each(Received, v[2])>>
  BY <1>1, ReceivedFacts, Zenon DEF ReceivedByType
<1>8. Received[v[2][3]] = <<"list", Each(Received, elements)>>
  <2>1. v[2][3][1] \in {"list"} \union BodyTypes
    BY <1>2
  <2> QED
    BY <1>2, <1>3, <2>1, ReceivedFacts, Zenon DEF ReceivedByType
<1>9. /\ r[2][1] = <<"int64", v[2][1][2]>> /\ r[2][2] = <<"int64", v[2][2][2]>>
      /\ r[2][3] = <<"list", Each(Received, elements)>>
  <2>1. \A i \in DOMAIN v[2] : Each(Received, v[2])[i] = Received[v[2][i]]
    BY Zenon DEF Each
  <2>2. v[2][1][1] = type /\ v[2][2][1] = type
    BY <1>5
  <2>3. r[2] = Each(Received, v[2])
    BY <1>7
  <2> QED
    BY <1>3, <1>6, <1>8, <2>1, <2>2, <2>3, Zenon
<1> HIDE DEF r
<1>10. \A i \in DOMAIN elements : Each(Received, elements)[i][2] = elements[i][2]
  <2> SUFFICES ASSUME NEW i \in DOMAIN elements PROVE Each(Received, elements)[i][2] = elements[i][2]
    OBVIOUS
  <2>1. elements[i] \in Objects /\ elements[i][1] = type
    <3>1. DOMAIN elements = 1..Len(elements)
      BY <1>4
    <3>2. elements[i] \in Range(elements)
      BY Zenon DEF Range
    <3> QED
      BY <1>4, <1>5, <3>1, <3>2, ElementsIn, Zenon
  <2>2. Each(Received, elements)[i] = Received[elements[i]]
    BY Zenon DEF Each
  <2>3. Received[elements[i]] = <<"int64", elements[i][2]>>
    BY <1>6, <2>1
  <2> QED
    BY <2>2, <2>3
<1>11. DOMAIN Each(Received, elements) = DOMAIN elements
  BY Zenon DEF Each
<1>12. Steps(r) = Steps(v)
  <2>1. r[2][3][2] = Each(Received, elements)
    BY <1>9
  <2> HIDE DEF elements
  <2>2. [i \in DOMAIN r[2][3][2] |-> r[2][3][2][i][2]] = [i \in DOMAIN elements |-> elements[i][2]]
    BY <1>10, <1>11, <2>1
  <2> QED
    BY <2>2 DEF Steps, elements
<1>13. r[1] = v[1] /\ ElementType(r) = "int64" /\ Base(r) = Base(v) /\ Start(r) = Start(v)
  <2>1. r[1] = v[1]
    BY <1>7 DEF r
  <2>2. r[2][1][1] = "int64" /\ r[2][1][2] = v[2][1][2] /\ r[2][2][2] = v[2][2][2]
    BY <1>9
  <2> QED
    BY <2>1, <2>2 DEF ElementType, Base, Start
<1> QED
  BY <1>12, <1>13 DEF r

LEMMA SeriesValues ==
  ASSUME NEW v \in Objects, IsVectorOfIntegers(v)
  PROVE  \A k \in DOMAIN SeriesOf(v) : SeriesOf(v)[k] \in Int
<1> DEFINE N == Len(Steps(v))
<1>1. Base(v) \in Int /\ Start(v) \in Int /\ Steps(v) \in Seq(Int) /\ N \in Nat
  BY VectorParts
<1>2. CASE v[1] = "deltas"
  <2> DEFINE series == DeltasSeries(Base(v), Start(v), Steps(v))
             s == [i \in 0..N |-> series[i + 1]]
  <2>1. s \in [0..N -> Int]
    <3>1. IsSeries(Base(v), Start(v), Steps(v), s)
      BY <1>1, DeltasSeriesIsSeries
    <3> HIDE DEF s
    <3> QED
      BY <3>1, Zenon DEF IsSeries
  <2>2. DOMAIN series = 1..(N + 1)
    BY DEF DeltasSeries
  <2> HIDE DEF series
  <2>3. ASSUME NEW k \in 1..(N + 1) PROVE series[k] \in Int
    <3>1. k - 1 \in 0..N /\ (k - 1) + 1 = k
      BY <1>1
    <3>2. s[k - 1] = series[k]
      BY <3>1
    <3> HIDE DEF s
    <3> QED
      BY <2>1, <3>1, <3>2
  <2>4. SeriesOf(v) = series
    BY <1>2 DEF SeriesOf, series
  <2> QED
    BY <2>2, <2>3, <2>4
<1>3. CASE v[1] = "quasi"
  <2> DEFINE e == Exact(Base(v), Start(v), Steps(v))
             series == QuasiSeries(Base(v), Start(v), Steps(v))
  <2>1. e \in [Nat \ {0} -> Int]
    BY <1>1, ExactType
  <2>2. \A k \in Nat \ {0} : e[k] = Start(v) + (k - 1) * Base(v) + Moved(Steps(v), k - 1)
    BY DEF Exact
  <2> HIDE DEF e
  <2>3. PICK n : series = [k \in 1..n |-> Start(v) + (k - 1) * Base(v) + Moved(Steps(v), k - 1)]
    BY Zenon DEF QuasiSeries
  <2> HIDE DEF series
  <2>4. ASSUME NEW k \in 1..n PROVE series[k] \in Int
    <3>1. k \in Nat \ {0}
      OBVIOUS
    <3>2. series[k] = e[k]
      BY <2>2, <2>3, <2>4, <3>1
    <3> QED
      BY <2>1, <3>1, <3>2
  <2>5. SeriesOf(v) = series
    BY <1>3 DEF SeriesOf, series
  <2>6. DOMAIN series = 1..n
    BY <2>3
  <2> QED
    BY <2>4, <2>5, <2>6, Zenon
<1> QED
  BY <1>2, <1>3, VectorParts, Zenon DEF VectorKinds

\* The receiver's AsFlatList makes of the numbers what the sender's makes of them, when the
\* values of the series fit the sender's elements (types_deltas_vector.go:132-210,
\* types_quasi_periodic.go:140-233).
THEOREM VectorKept ==
  ASSUME NEW v \in Objects, IsVectorOfIntegers(v),
         \A k \in DOMAIN SeriesOf(v) : ValueOf(ElementType(v), SeriesOf(v)[k])
  PROVE  AsFlatList(Received[v]) = AsFlatList(v)
<1> DEFINE r == Received[v]
           series == SeriesOf(v)
           type == ElementType(v)
<1>1. /\ v[1] \in VectorKinds /\ type \in IntegerTypes
      /\ Base(v) \in Int /\ Start(v) \in Int /\ ValueOf(type, Start(v)) /\ Steps(v) \in Seq(Int)
  BY VectorParts
<1>2. /\ r[1] = v[1] /\ ElementType(r) = "int64" /\ Base(r) = Base(v) /\ Start(r) = Start(v)
      /\ Steps(r) = Steps(v)
  BY ReceivedVector
<1>3. \A k \in DOMAIN series : series[k] \in Int /\ ValueOf(type, series[k])
  BY SeriesValues
<1> HIDE DEF r, series, type
<1>4. \A n \in Int : ValueOf(type, n) => ValueOf("int64", n) /\ Wrap("int64", n) = Wrap(type, n)
  <2> SUFFICES ASSUME NEW n \in Int, ValueOf(type, n)
               PROVE  ValueOf("int64", n) /\ Wrap("int64", n) = Wrap(type, n)
    OBVIOUS
  <2>1. CASE type = "int64"
    BY <2>1
  <2>2. CASE type = "int32"
    BY <2>2, SameOnBothSides
  <2> QED
    BY <1>1, <2>1, <2>2 DEF IntegerTypes
<1>5. AsFlatList(v) = [k \in DOMAIN series |-> Wrap(type, series[k])]
  BY SeriesOfVector DEF series, type
<1>6. AsFlatList(r) = [k \in DOMAIN series |-> Wrap("int64", series[k])]
  <2>1. "int64" \in IntegerTypes /\ ValueOf("int64", Start(v))
    BY <1>1, <1>4 DEF IntegerTypes
  <2>2. CASE v[1] = "deltas"
    <3>1. AsFlatList(r) = DeltasAsFlatList("int64", Base(v), Start(v), Steps(v))
      BY <1>2, <2>2 DEF AsFlatList
    <3>2. series = DeltasSeries(Base(v), Start(v), Steps(v))
      BY <2>2 DEF SeriesOf, series
    <3> QED
      BY <1>1, <2>1, <3>1, <3>2, DeltasAsDefined
  <2>3. CASE v[1] = "quasi"
    <3>1. AsFlatList(r) = QuasiAsFlatList("int64", Base(v), Start(v), Steps(v))
      BY <1>2, <2>3 DEF AsFlatList
    <3>2. series = QuasiSeries(Base(v), Start(v), Steps(v))
      BY <2>3 DEF SeriesOf, series
    <3> QED
      BY <1>1, <2>1, <3>1, <3>2, QuasiAsDefined
  <2> QED
    BY <1>1, <2>2, <2>3, Zenon DEF VectorKinds
<1>7. \A k \in DOMAIN series : Wrap("int64", series[k]) = Wrap(type, series[k])
  BY <1>3, <1>4
<1> QED
  BY <1>5, <1>6, <1>7 DEF r

\* Sender and receiver of a vector rebuild the same series although the receiver has elements
\* of another width: of all vectors that are sent, with any messages that the decoder
\* follows, as long as the values of the series fit the sender's elements
\* (types_deltas_vector.go:22-32, 132-210, types_quasi_periodic.go:23-57, 140-233).
THEOREM VectorsKept == Spec => [](sent \in Inputs /\ AllFollowed => SeriesKept)
<1>1. sent \in Inputs /\ RoundTrip => (sent \in Inputs /\ AllFollowed => SeriesKept)
  <2> SUFFICES ASSUME sent \in Inputs, RoundTrip, AllFollowed, Whole,
                      NEW i \in DOMAIN got, IsVectorOfIntegers(sent[i]),
                      \A k \in DOMAIN SeriesOf(sent[i]) :
                        ValueOf(ElementType(sent[i]), SeriesOf(sent[i])[k])
               PROVE  AsFlatList(got[i]) = AsFlatList(sent[i])
    BY Zenon DEF SeriesKept
  <2>1. got = Expected
    BY DEF RoundTrip, AllFollowed
  <2>2. DOMAIN sent = 1..Len(sent) /\ Len(sent) \in Nat /\ \A j \in 1..Len(sent) : sent[j] \in Objects
    BY SentIs
  <2>3. i \in DOMAIN sent /\ got[i] = Received[sent[i]]
    <3>1. CASE entry = "Decode" \/ sent = <<>>
      BY <2>1, <3>1 DEF Expected
    <3>2. CASE entry # "Decode" /\ sent # <<>>
      <4>1. Len(sent) # 0
        BY <2>2, <3>2, SentIs, EmptyLen
      <4>2. 1 \in DOMAIN sent
        BY <2>2, <4>1
      <4>3. got = <<Received[sent[1]]>>
        BY <2>1, <3>2, <4>2 DEF Expected
      <4>4. i = 1 /\ got[1] = Received[sent[1]]
        BY <4>3
      <4> QED
        BY <4>2, <4>4
    <3> QED
      BY <3>1, <3>2
  <2> QED
    BY <2>2, <2>3, VectorKept
<1>2. Spec => [](sent \in Inputs => RoundTrip)
  BY SentIsReceived
<1>3. (sent \in Inputs => RoundTrip) => (sent \in Inputs /\ AllFollowed => SeriesKept)
  BY <1>1
<1> QED
  BY <1>2, <1>3, PTL
=============================================================================
