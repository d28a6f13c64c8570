------------------------------ MODULE MCBysant ------------------------------
(* Model checking of the codec and of Series: the objects that are encoded. *)
EXTENDS Series, BysantRoundTrip

Around(points) == UNION {(p - 2)..(p + 2) : p \in points}
Largest == 2147483647

Nil == <<"nil">>
Num(n) == <<"int64", n>>
Str(n) == <<"string", n>>
Ticket(n) == <<"uint32", n>>
List(s) == <<"list", s>>
MapOf(m) == <<"map", m>>
Msg(ticket, body) == <<"message", <<Str(5), ticket, body>> >>
Resp(ticket, code, text) == <<"response", <<Ticket(ticket), Num(code), Str(text)>> >>
Env(header, payload) == <<"envelope", <<header, Str(payload), MapOf(<<>>)>> >>
Vector(kind, factor, start, s) == <<kind, <<factor, start, List(s)>> >>

\* The numbers around every limit of a range, and the tiny ones.
Numbers ==
  Around({-4193, -2079, -97 - 256, 2112, 4193, 65 + 256}) \union (-130..130) \union {-Largest, Largest}
Unsigned ==
  Around({139, 140 + 256, 8331, 8332 + 65536, 1056907, 1056908 + 16777216, 135274635})
    \union (0..10) \union {Largest - 1}
Lengths == Around({32, 33 + 256, 47, 48 + 256, 1056, 2095}) \union (0..4)
Sizes == 0..9

Ones(n) == [i \in 1..n |-> Num(1)]
Keys(n) == [i \in 1..n |-> <<Str(i), Nil>>]

RangeInputs ==
  {<<Msg(Ticket(n), MapOf(<<>>))>> : n \in Unsigned}
    \union {<<Msg(Nil, MapOf(<< <<Str(2), Num(n)>> >>))>> : n \in Numbers}
    \union {<<Vector("deltas", Num(n), Num(1), <<>>)>> : n \in Numbers}
    \union {<<Msg(Nil, MapOf(<< <<Str(n), Str(n)>> >>)), Msg(Nil, MapOf(<<>>))>> : n \in Lengths}
    \union {<<Msg(Nil, MapOf(<< <<Str(n), List(Ones(n))>>, <<Str(10), MapOf(Keys(n))>> >>))>> : n \in Sizes}
    \union {<<Vector("quasi", Num(60), Num(0), Ones(n))>> : n \in {0, 1, 2, 59, 60}}
    \union {<<Msg(Nil, MapOf(Keys(n)))>> : n \in {59, 60}}
    \union {<<Vector("deltas", <<"float64", 1>>, <<"float64", 2>>, << <<"float64", 3>> >>)>>}
    \union {<<Resp(3, 200, 0)>>, <<Msg(Ticket(1), MapOf(<< <<Str(2), <<"uint32", 1>> >> >>))>>}

\* Several messages, objects in objects, and both orders of a map.
Reading1 == <<Str(3), List(<<Num(-40), Nil, MapOf(<< <<Str(0), <<"bool", TRUE>> >> >>)>>)>>
Reading2 == <<Str(7), Vector("deltas", Num(5000), Num(1), <<Num(66), Num(-33)>>)>>

NestedInputs ==
  { <<Msg(Ticket(200), MapOf(<<Reading1, Reading2>>)), Resp(200, 200, 0)>>,
    <<Msg(Nil, MapOf(<<Reading2, Reading1>>)), Msg(Nil, MapOf(<<>>))>>,
    <<Env(MapOf(<< <<Str(2), Str(40)>>, <<Str(6), Num(200)>> >>), 60)>>,
    <<Env(MapOf(<< <<Str(6), Num(401)>> >>), 0), Resp(9000, -500, 0)>> }

\* More than the small opcodes hold, with another message behind.
LargeInputs ==
  LET Behind(o) == <<o, Resp(7, 200, 0)>> IN
  { Behind(Msg(Nil, MapOf(<< <<Str(3), List(Ones(10))>> >>))),
    Behind(Msg(Nil, MapOf(<< <<Str(3), MapOf(Keys(10))>> >>))),
    Behind(Msg(Nil, MapOf(Keys(61)))),
    Behind(Vector("deltas", Num(1), Num(1), Ones(61))) }

ResponseInputs == {<<Resp(t, 200, n)>> : t \in {1, 500}, n \in 1..40}

TextInputs == LargeInputs \union ResponseInputs \union {<<Resp(1, 200, 0), Resp(2, 503, 4)>>}

\* Every type in the global context, and numbers in the number context.
Holding(o) == <<Msg(Nil, MapOf(<< <<Str(1), o>> >>)), Resp(7, 200, 0)>>
TypeInputs ==
  {Holding(<<type, 100>>) : type \in SliceTypes \union {"uint32", "named"}}
    \union {Holding(<<"slice", <<type, [i \in 1..n |-> 3]>> >>) : type \in SliceTypes, n \in {0, 1, 9, 10}}
    \union {Holding(List(<<Nil, <<type, 200>>, <<"slice", <<"int8", <<1>> >> >> >>)) : type \in {"bytes", "int32"}}
    \union {Holding(<<type, n>>) : type \in TextTypes, n \in Around({32, 1056})}
    \union {<<Msg(Nil, MapOf(<< <<Str(n), Nil>> >>))>> : n \in Around({2095})}
    \union {<<Vector("quasi", <<type, 5>>, <<type, 6>>, << <<type, 7>> >>)>> : type \in {"float32", "named"}}

\* What a slice or a vector may hold and the encoder has no case for where it gets to.
UncasedInputs ==
  {Holding(<<"slice", <<type, <<3>> >> >>) : type \in {"int8", "int16"}}
    \union {Holding(List(<<Vector("deltas", <<"named", 5>>, <<"named", 6>>, << <<"named", 7>> >>)>>))}

\* Vectors of integers: all short lists of repeat counts and shifts, and values that
\* leave the range of an int32 on the way or for good.
IntVector(kind, type, base, start, s) ==
  Vector(kind, <<type, base>>, <<type, start>>, [i \in DOMAIN s |-> <<type, s[i]>>])
VectorInputs ==
  {<<IntVector("quasi", "int64", 60, 1000, s)>> : s \in BoundedSeq({-1, 0, 1, 2}, 4)}
    \union {<<IntVector("quasi", "int32", period, start, <<n, shift, m>>)>> :
              period \in {-4000, 4000}, start \in {-8192, 8000}, n \in 0..2, m \in 0..2,
              shift \in {-8191, -4001, 0, 8191}}
    \union {<<IntVector("deltas", "int32", factor, start, s)>> :
              factor \in {-98, 1, 3, 200}, start \in {-98, 0, 50, 8191},
              s \in BoundedSeq({-50, 98, 4194}, 2)}

None == {}

\* Numbers and strings with opcodes that the encoder does not use: in a list, as the
\* start of a vector, and as the payload of an envelope.
InList(bytes, o) == <<Bytes(<<\h61, \h01, \h00, \h84, \h01, \h2B>>) \o bytes,
                      << <<"message", <<Str(0), Nil, MapOf(<< <<Str(0), List(<<o>>)>> >>)>> >> >> >>
InVector(bytes, n) == <<Bytes(<<\h63, \h62>>) \o bytes \o Bytes(<<\h01>>),
                        <<Vector("deltas", Num(0), Num(n), <<>>)>> >>

\* What the ranges in the comments of the decoder mean, where they are not those of the
\* code: in one vector the last of the medium negative numbers (bysant_decoder.go:227) as
\* the factor, and the first or the last of the large ones (233, 236) as the start.
CommentedVector(bytes, n) ==
  <<Bytes(<<\h63, \hEC, 0, 0>>) \o Bytes(bytes) \o Bytes(<<\h01>>),
    <<Vector("deltas", Num(-4193), Num(n), <<>>)>> >>
CommentedForeign ==
  { CommentedVector(<<\hF4, 0, 0, 0>>, 528482), CommentedVector(<<\hF7, 255, 255, 255>>, 67637345),
    CommentedVector(<<\hF8, 0, 0, 0>>, -528482), CommentedVector(<<\hFB, 255, 255, 255>>, -67637345) }

ForeignInputs ==
  { InList(Bytes(<<\hF0, 0, 0>>), Num(2113)), InList(Bytes(<<\hF3, 255, 255>>), Num(264256)),
    InList(Bytes(<<\hF4, 0, 0>>), Num(-2080)), InList(Bytes(<<\hF7, 255, 255>>), Num(-264223)),
    InList(Bytes(<<\hF8, 0, 0, 0>>), Num(264257)), InList(Bytes(<<\hF9, 255, 255, 255>>), Num(33818688)),
    InList(Bytes(<<\hFA, 0, 0, 0>>), Num(-264224)), InList(Bytes(<<\hFB, 255, 255, 255>>), Num(-33818655)),
    InList(Bytes(<<\h28, 0, 0>>) \o Text(1057), Str(1057)),
    InList(Bytes(<<\h28, 255, 255>>) \o Text(66592), Str(66592)),
    InVector(Bytes(<<\hE4, 0, 0>>), 4194), InVector(Bytes(<<\hEB, 255, 255>>), 528481),
    InVector(Bytes(<<\hEC, 0, 0>>), -4194), InVector(Bytes(<<\hF3, 255, 255>>), -528481) }

AllInputs == RangeInputs \union NestedInputs \union TextInputs \union TypeInputs \union VectorInputs \union {<<>>}

\* All that is encoded or meant, and what it is made of, six objects deep.
AllObjects ==
  LET sequences == AllInputs \union UncasedInputs \union {f[2] : f \in ForeignInputs \union CommentedForeign}
      objects[depth \in 0..6] ==
        IF depth = 0 THEN UNION {Range(s) : s \in sequences}
                     ELSE UNION {{p[2] : p \in PartsOf(o)} : o \in objects[depth - 1]}
  IN  UNION {objects[depth] : depth \in 0..6}
\* Evaluated once, what a constant is given every time.
MCObjects == AllObjects
MCNesting ==
  LET levels[o \in MCObjects] ==
        IF PartsOf(o) = {} THEN 0 ELSE 1 + Max({levels[p[2]] : p \in PartsOf(o)})
  IN  levels
=============================================================================
