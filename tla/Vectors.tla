------------------------------ MODULE Vectors ------------------------------
(***************************************************************************)
(* The compressed vectors: the series of values that AsFlatList rebuilds   *)
(* from a deltas vector and from a quasi-periodic vector, in the integers  *)
(* of its element type, and what that series is without a width.  Vectors  *)
(* of floats are not modelled: the properties are about wrapping.          *)
(***************************************************************************)
EXTENDS Integers, Sequences, SequencesExt

CONSTANTS
  Int32Modulus,   \* number of the values of an int32, and of an int64: 2^32
  Int64Modulus    \* and 2^64, smaller in the runs

ASSUME ModulusAssumption ==
  /\ Int32Modulus \in Nat \ {0} /\ Int32Modulus % 2 = 0
  /\ Int64Modulus \in Nat \ {0} /\ Int64Modulus % Int32Modulus = 0

Modulus(type) == IF type = "int32" THEN Int32Modulus ELSE Int64Modulus

\* Mutant of Wrap: what is too large for the type stops at its limit.
Clamp(type, n) ==
  LET half == Modulus(type) \div 2 IN
  IF n >= half THEN half - 1 ELSE IF n < -half THEN -half ELSE n

\* Arithmetic of Go's fixed width integers: two's complement, no overflow error.
Wrap(type, n) ==
  LET r == n % Modulus(type) IN
  IF r >= Modulus(type) \div 2 THEN r - Modulus(type) ELSE r

\* n is a value of the type.
ValueOf(type, n) == -(Modulus(type) \div 2) <= n /\ n < Modulus(type) \div 2

-----------------------------------------------------------------------------
(* AsFlatList, value by value as in the code.                              *)

DeltasAsFlatList(type, factor, start, deltas) ==
  LET result[i \in 0..Len(deltas)] ==
        IF i = 0 THEN Wrap(type, factor * start)
                 ELSE Wrap(type, result[i - 1] + Wrap(type, deltas[i] * factor))
  IN  [i \in 1..(Len(deltas) + 1) |-> result[i - 1]]

\* n more values, each a period after the last one; none if n is negative.
Repeated(type, list, period, n) ==
  LET times == IF n > 0 THEN n ELSE 0
      result[k \in 0..times] ==
        IF k = 0 THEN list ELSE Append(result[k - 1], Wrap(type, Last(result[k - 1]) + period))
  IN  result[times]

Shifted(type, list, period, shift) ==
  Append(list, Wrap(type, Wrap(type, Last(list) + period) + shift))

\* Mutant of lastRepeat: a last shift that was part of a pair is no repeat count.
UnpairedRepeat(shifts) == IF Len(shifts) % 2 = 1 THEN Last(shifts) ELSE 0

\* How often the period is repeated at the end.  When the number of shifts is even
\* this is a shift that has been applied.
lastRepeat(shifts) == IF shifts = <<>> THEN 0 ELSE Last(shifts)

\* Pairs of a repeat count and a shift, then a last repeat count.
QuasiAsFlatList(type, period, start, shifts) ==
  LET result[p \in 0..(Len(shifts) \div 2)] ==
        IF p = 0 THEN <<start>>
        ELSE Shifted(type, Repeated(type, result[p - 1], period, shifts[2 * p - 1]),
                     period, shifts[2 * p])
  IN  Repeated(type, result[Len(shifts) \div 2], period, lastRepeat(shifts))

-----------------------------------------------------------------------------
(* The series itself, by a formula for each of its values.                 *)

\* The start and the deltas up to i, scaled.
DeltasSeries(factor, start, deltas) ==
  [i \in 1..(Len(deltas) + 1) |->
     factor * (start + MapThenSumSet(LAMBDA j : deltas[j], 1..(i - 1)))]

\* The pairs: how many values one makes, the shifted one included, and its shift.
PairsOf(shifts) == 1..(Len(shifts) \div 2)
Runs(shifts) ==
  [p \in PairsOf(shifts) |-> 1 + (IF shifts[2 * p - 1] > 0 THEN shifts[2 * p - 1] ELSE 0)]
Jumps(shifts) == [p \in PairsOf(shifts) |-> shifts[2 * p]]

\* Where the p-th shift takes effect, counted from 0.
Place(shifts, p) == MapThenSumSet(LAMBDA q : Runs(shifts)[q], 1..p)

\* The sum of the shifts that have taken effect at place i.
Moved(shifts, i) ==
  MapThenSumSet(LAMBDA p : Jumps(shifts)[p], {p \in PairsOf(shifts) : Place(shifts, p) <= i})

\* Multiples of the period, moved by the shifts that have taken effect.
QuasiSeries(period, start, shifts) ==
  LET rest == IF shifts # <<>> /\ Last(shifts) > 0 THEN Last(shifts) ELSE 0
  IN  [i \in 1..(1 + Place(shifts, Len(shifts) \div 2) + rest) |->
         start + (i - 1) * period + Moved(shifts, i - 1)]
=============================================================================
