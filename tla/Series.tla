------------------------------- MODULE Series -------------------------------
(***************************************************************************)
(* Vectors that are sent: the encoder writes int32 and int64 elements      *)
(* alike, the decoder makes int64 vectors of all integers, and sender and  *)
(* receiver each rebuild the series with their own AsFlatList.             *)
(***************************************************************************)
EXTENDS Bysant, Vectors

VectorKinds == {"deltas", "quasi"}
IntegerTypes == {"int32", "int64"}

\* The parts of a vector; the elements of one have the type of its first field.
ElementType(v) == v[2][1][1]
Base(v) == v[2][1][2]
Start(v) == v[2][2][2]
Steps(v) == [i \in DOMAIN v[2][3][2] |-> v[2][3][2][i][2]]

\* v is a vector of integers: M3daDeltasVector[T], M3daQuasiPeriodicVector[T].
IsVectorOfIntegers(v) ==
  /\ v[1] \in VectorKinds
  /\ LET type == ElementType(v)
         fields == {v[2][1], v[2][2]} \union Range(v[2][3][2])
     IN  type \in IntegerTypes /\ \A f \in fields : f[1] = type /\ ValueOf(type, f[2])

AsFlatList(v) ==
  IF v[1] = "deltas" THEN DeltasAsFlatList(ElementType(v), Base(v), Start(v), Steps(v))
                     ELSE QuasiAsFlatList(ElementType(v), Base(v), Start(v), Steps(v))

\* The series v stands for, whatever the width of its elements.
SeriesOf(v) ==
  IF v[1] = "deltas" THEN DeltasSeries(Base(v), Start(v), Steps(v))
                     ELSE QuasiSeries(Base(v), Start(v), Steps(v))

-----------------------------------------------------------------------------
\* AsFlatList rebuilds the series, wrapped to the width of the elements: an overflow
\* on the way to a value that fits leaves no trace, the repeat counts and shifts take
\* effect in their places, negative counts are none, and an even number of shifts is
\* the odd one with the last shift again as a count (types_deltas_vector.go:23-35,
\* types_quasi_periodic.go:23-57).
SeriesAsDefined ==
  phase = "done" =>
    \A i \in DOMAIN sent :
      IsVectorOfIntegers(sent[i]) =>
        LET type == ElementType(sent[i])
            series == SeriesOf(sent[i])
        IN  AsFlatList(sent[i]) = [k \in DOMAIN series |-> Wrap(type, series[k])]

\* Sender and receiver of a vector rebuild the same series although the receiver has
\* elements of another width, as long as its values are values of the sender's type.
SeriesKept ==
  Whole /\ status = "ok" =>
    \A i \in DOMAIN got :
      /\ IsVectorOfIntegers(sent[i])
      /\ \A k \in DOMAIN SeriesOf(sent[i]) : ValueOf(ElementType(sent[i]), SeriesOf(sent[i])[k])
      => AsFlatList(got[i]) = AsFlatList(sent[i])
=============================================================================
