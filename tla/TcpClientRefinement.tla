------------------------ MODULE TcpClientRefinement ------------------------
(***************************************************************************)
(* TcpClient implements Exchange: the fragments on the socket, the mutex   *)
(* and the connections behind c.conn are forgotten.                        *)
(***************************************************************************)
EXTENDS TcpClientProofs

\* An answer is there as long as its last fragment is.
Answers(f) == f.part = "tail" /\ f.kind # "reject"

Phase(g) ==
  CASE Reading(g) -> "sent"
    [] pc[g] \in {"check", "lock", "locked"} -> "called"
    [] pc[g] = "panic" -> "dead"
    [] OTHER -> "idle"

Phases == [g \in Goroutines |-> Phase(g)]
Outcomes == [g \in Goroutines |-> result[g].outcome]
Replies == [g \in Goroutines |-> result[g].reply]

Faulty == conn \in tainted
Waiting == IF conn = 0 THEN {} ELSE Elems(outbound[conn]) \ {Torn}
AnswersOn(s) == {f.req : f \in {e \in Elems(s) : Answers(e)}}
Unread == IF conn = 0 THEN {} ELSE AnswersOn(inbound[conn])

Abstract == INSTANCE Exchange WITH
  Ops      <- SendOps \union {"connect", "close"},
  Tickets  <- {NoTicket} \union UserTickets \union 0..(TicketModulus - 1),
  phase    <- Phases,
  outcome  <- Outcomes,
  answered <- Replies,
  open     <- connected,
  faulty   <- Faulty,
  waiting  <- Waiting,
  answers  <- Unread

\* Seen without its mutex, its fragments and its old connections the client is the
\* one of Exchange: among interleaved callers, late and torn replies, resets and
\* reconnections an answer is returned once, and to its own call while the connection
\* has had no failure (client.go:161-308).
ImplementsExchange == Abstract!Spec

-----------------------------------------------------------------------------
(* What the sockets look like.                                             *)

Distinct(s) ==
  \A i, j \in 1..Len(s) : s[i] = s[j] /\ s[i] # Torn => i = j
OneAnswerEach(s) ==
  \A i, j \in 1..Len(s) : Answers(s[i]) /\ Answers(s[j]) /\ s[i].req = s[j].req => i = j
Framed(s) ==
  \A i \in 1..Len(s) : s[i].part = "head" => i < Len(s) /\ s[i + 1].part = "tail"

\* On the present connection a request waits once and is answered once, the head of a
\* reply is followed by its tail, and a reader that has the one finds the other next.
ShapeInv ==
  /\ tainted \subseteq 1..dialled
  /\ conn # 0 =>
       /\ Distinct(outbound[conn])
       /\ OneAnswerEach(inbound[conn]) /\ Framed(inbound[conn])
       /\ (\E g \in Goroutines : pc[g] = "readTail") =>
            IF inbound[conn] = <<>> THEN conn \notin peerOpen
                                    ELSE Head(inbound[conn]).part = "tail"

LEMMA DistinctTail ==
  ASSUME NEW S, NEW s \in Seq(S), s # <<>>, Distinct(s)
  PROVE  /\ Distinct(Tail(s))
         /\ Elems(Tail(s)) \ {Torn} = (Elems(s) \ {Torn}) \ {Head(s)}
<1>1. Distinct(Tail(s))
  BY TailElems DEF Distinct
<1>2. ASSUME NEW r \in Elems(Tail(s)) \ {Torn}
      PROVE  r \in (Elems(s) \ {Torn}) \ {Head(s)}
  <2>1. PICK i \in 1..Len(Tail(s)) : r = Tail(s)[i]
    BY DEF Elems
  <2>2. i + 1 \in 1..Len(s) /\ r = s[i + 1] /\ i + 1 # 1 /\ 1 \in 1..Len(s)
    BY <2>1, TailElems
  <2> QED
    BY <2>2, TailElems DEF Distinct, Elems
<1>3. ASSUME NEW r \in (Elems(s) \ {Torn}) \ {Head(s)}
      PROVE  r \in Elems(Tail(s)) \ {Torn}
  <2>1. PICK i \in 1..Len(s) : r = s[i]
    BY DEF Elems
  <2>2. i # 1
    BY <2>1, TailElems
  <2> QED
    BY <2>1, <2>2, TailElems DEF Elems
<1> QED
  BY <1>1, <1>2, <1>3

LEMMA DistinctAppend ==
  ASSUME NEW S, NEW s \in Seq(S), NEW r \in S, Distinct(s), r \notin Elems(s) \ {Torn}
  PROVE  /\ Distinct(Append(s, r))
         /\ Elems(Append(s, r)) \ {Torn} = (Elems(s) \ {Torn}) \union ({r} \ {Torn})
<1>1. Distinct(Append(s, r))
  BY AppendElems DEF Distinct, Elems
<1>2. Elems(Append(s, r)) = Elems(s) \union {r}
  BY AppendElems DEF Elems
<1> QED
  BY <1>1, <1>2

LEMMA AnswersOnElems ==
  ASSUME NEW s, NEW r
  PROVE  r \in AnswersOn(s) <=> \E i \in 1..Len(s) : Answers(s[i]) /\ s[i].req = r
BY DEF AnswersOn, Elems

LEMMA FragmentsTail ==
  ASSUME NEW s \in Seq(Fragment), s # <<>>, OneAnswerEach(s), Framed(s)
  PROVE  /\ OneAnswerEach(Tail(s)) /\ Framed(Tail(s))
         /\ AnswersOn(Tail(s)) = IF Answers(Head(s)) THEN AnswersOn(s) \ {Head(s).req}
                                                     ELSE AnswersOn(s)
<1>1. OneAnswerEach(Tail(s)) /\ Framed(Tail(s))
  <2>1. OneAnswerEach(Tail(s))
    BY TailElems DEF OneAnswerEach
  <2>2. Framed(Tail(s))
    BY TailElems DEF Framed
  <2> QED
    BY <2>1, <2>2
<1>2. ASSUME NEW r \in AnswersOn(Tail(s))
      PROVE  r \in AnswersOn(s) /\ (Answers(Head(s)) => r # Head(s).req)
  <2>1. PICK i \in 1..Len(Tail(s)) : Answers(Tail(s)[i]) /\ Tail(s)[i].req = r
    BY <1>2, AnswersOnElems
  <2>2. i + 1 \in 1..Len(s) /\ Answers(s[i + 1]) /\ s[i + 1].req = r /\ i + 1 # 1 /\ 1 \in 1..Len(s)
    BY <2>1, TailElems
  <2> QED
    BY <2>2, TailElems, AnswersOnElems DEF OneAnswerEach
<1>3. ASSUME NEW r \in AnswersOn(s), ~Answers(Head(s)) \/ r # Head(s).req
      PROVE  r \in AnswersOn(Tail(s))
  <2>1. PICK i \in 1..Len(s) : Answers(s[i]) /\ s[i].req = r
    BY <1>3, AnswersOnElems
  <2>2. i # 1
    BY <1>3, <2>1, TailElems
  <2> QED
    <3>1. i - 1 \in 1..Len(Tail(s)) /\ Tail(s)[i - 1] = s[i]
      BY <2>2, TailElems
    <3> QED
      BY <2>1, <3>1, AnswersOnElems
<1> QED
  BY <1>1, <1>2, <1>3

LEMMA JunkElems ==
  ASSUME NEW s \in Seq(Fragment), s # <<>>
  PROVE  LET t == <<Junk(Head(s))>> \o Tail(s) IN
           /\ Len(t) = Len(s) /\ Len(s) \in Nat \ {0}
           /\ t[1] = Junk(s[1]) /\ \A i \in 1..Len(s) : i # 1 => t[i] = s[i]
           /\ Junk(s[1]).part = "junk"
<1>1. Head(s) = s[1] /\ s[1] \in Fragment /\ Tail(s) \in Seq(Fragment)
  BY TailElems
<1>2. Junk(s[1]) \in Fragment /\ Junk(s[1]).part = "junk"
  BY <1>1 DEF Junk, Fragment
<1> DEFINE t == <<Junk(s[1])>> \o Tail(s)
<1>3. /\ Len(t) = 1 + Len(Tail(s)) /\ t[1] = Junk(s[1])
      /\ \A i \in 1..Len(Tail(s)) : t[1 + i] = Tail(s)[i]
  BY <1>1, <1>2, ConsElems
<1> HIDE DEF t
<1>4. ASSUME NEW i \in 1..Len(s), i # 1
      PROVE  t[i] = s[i]
  <2>1. i - 1 \in 1..Len(Tail(s)) /\ Tail(s)[i - 1] = s[i]
    BY <1>4, TailElems
  <2>2. t[1 + (i - 1)] = s[i]
    BY <1>3, <2>1
  <2>3. 1 + (i - 1) = i
    BY TailElems
  <2> QED
    BY <2>2, <2>3
<1> QED
  BY <1>1, <1>2, <1>3, <1>4, TailElems DEF t

LEMMA FragmentsJunk ==
  ASSUME NEW s \in Seq(Fragment), s # <<>>, OneAnswerEach(s), Framed(s)
  PROVE  LET t == <<Junk(Head(s))>> \o Tail(s) IN
           OneAnswerEach(t) /\ Framed(t) /\ AnswersOn(t) = AnswersOn(Tail(s))
<1> DEFINE t == <<Junk(Head(s))>> \o Tail(s)
<1>1. /\ Len(t) = Len(s) /\ Len(s) \in Nat \ {0}
      /\ t[1].part = "junk" /\ \A i \in 1..Len(s) : i # 1 => t[i] = s[i]
  BY JunkElems
<1> HIDE DEF t
<1>2. ~Answers(t[1])
  BY <1>1 DEF Answers
<1>3. OneAnswerEach(t)
  BY <1>1, <1>2 DEF OneAnswerEach
<1>4. Framed(t)
  BY <1>1 DEF Framed
<1>5. \A r : r \in AnswersOn(t) <=> r \in AnswersOn(Tail(s))
  <2>1. ASSUME NEW r \in AnswersOn(t) PROVE r \in AnswersOn(Tail(s))
    <3>1. PICK i \in 1..Len(t) : Answers(t[i]) /\ t[i].req = r
      BY <2>1, AnswersOnElems
    <3>2. i # 1
      BY <1>2, <3>1
    <3> QED
      <4>1. i - 1 \in 1..Len(Tail(s)) /\ Tail(s)[i - 1] = t[i]
        BY <1>1, <3>1, <3>2, TailElems
      <4> QED
        BY <3>1, <4>1, AnswersOnElems
  <2>2. ASSUME NEW r \in AnswersOn(Tail(s)) PROVE r \in AnswersOn(t)
    <3>1. PICK i \in 1..Len(Tail(s)) : Answers(Tail(s)[i]) /\ Tail(s)[i].req = r
      BY <2>2, AnswersOnElems
    <3>2. i + 1 \in 1..Len(t) /\ t[i + 1] = Tail(s)[i]
      BY <1>1, TailElems
    <3> QED
      BY <3>1, <3>2, AnswersOnElems
  <2> QED
    BY <2>1, <2>2
<1>6. AnswersOn(t) = AnswersOn(Tail(s))
  BY <1>5 DEF AnswersOn
<1> QED
  BY <1>3, <1>4, <1>6 DEF t

LEMMA FragmentsLeft ==
  ASSUME NEW s \in Seq(Fragment), s # <<>>, OneAnswerEach(s), Framed(s), NEW rest \in Leftovers(s)
  PROVE  OneAnswerEach(rest) /\ Framed(rest) /\ AnswersOn(rest) \subseteq AnswersOn(s)
<1>1. /\ Tail(s) \in Seq(Fragment) /\ OneAnswerEach(Tail(s)) /\ Framed(Tail(s))
      /\ AnswersOn(Tail(s)) \subseteq AnswersOn(s)
  BY SeqFacts, FragmentsTail
<1>2. CASE rest = Tail(s)
  BY <1>1, <1>2
<1>3. CASE rest = <<Junk(Head(s))>> \o Tail(s)
  BY <1>1, <1>3, FragmentsJunk
<1>4. CASE Tail(s) # <<>> /\ rest = Tail(Tail(s))
  BY <1>1, <1>4, FragmentsTail
<1> QED
  BY <1>2, <1>3, <1>4 DEF Leftovers

LEMMA FragmentsRead ==
  ASSUME NEW s \in Seq(Fragment), s # <<>>, OneAnswerEach(s), Framed(s),
         NEW t \in {Tail(s), <<Junk(Head(s))>> \o Tail(s)}
  PROVE  /\ OneAnswerEach(t) /\ Framed(t)
         /\ AnswersOn(t) = IF Answers(Head(s)) THEN AnswersOn(s) \ {Head(s).req}
                                              ELSE AnswersOn(s)
<1>1. CASE t = Tail(s)
  BY <1>1, FragmentsTail
<1>2. CASE t = <<Junk(Head(s))>> \o Tail(s)
  BY <1>2, FragmentsTail, FragmentsJunk
<1> QED
  BY <1>1, <1>2

LEMMA FragmentsReply ==
  ASSUME NEW s \in Seq(Fragment), OneAnswerEach(s), Framed(s),
         NEW r \in Request, NEW k \in Kinds, k # "reject" => r \notin AnswersOn(s)
  PROVE  /\ OneAnswerEach(s \o Reply(r, k)) /\ Framed(s \o Reply(r, k))
         /\ AnswersOn(s \o Reply(r, k)) = AnswersOn(s) \union (IF k = "reject" THEN {} ELSE {r})
         /\ s # <<>> => Head(s \o Reply(r, k)) = Head(s)
         /\ s \o Reply(r, k) # <<>>
<1> DEFINE p == Reply(r, k)
           t == s \o p
           n == Len(s)
<1>1. /\ p \in Seq(Fragment) /\ Len(p) = 2
      /\ p[1].part = "head" /\ p[1].req = r /\ p[2].part = "tail" /\ p[2].req = r /\ p[2].kind = k
  BY ReplyType DEF Reply
<1> HIDE DEF p
<1>2. /\ n \in Nat /\ Len(t) = n + 2 /\ t # <<>>
      /\ \A i \in 1..n : t[i] = s[i]
      /\ t[n + 1] = p[1] /\ t[n + 2] = p[2]
      /\ \A i \in 1..Len(t) : i \in 1..n \/ i = n + 1 \/ i = n + 2
      /\ s # <<>> => Head(t) = Head(s)
  <2>1. /\ t \in Seq(Fragment) /\ Len(s) \in Nat /\ Len(t) = Len(s) + 2
        /\ \A i \in 1..Len(s) : t[i] = s[i]
        /\ \A i \in 1..2 : t[Len(s) + i] = p[i]
    BY <1>1, ConcatElems
  <2> HIDE DEF t
  <2>2. t # <<>> /\ Head(t) = t[1]
    BY <2>1, TailElems
  <2>3. s # <<>> => 1 \in 1..Len(s) /\ Head(s) = s[1]
    BY TailElems
  <2>4. t[n + 1] = p[1] /\ t[n + 2] = p[2]
    BY <2>1
  <2> QED
    BY <2>1, <2>2, <2>3, <2>4
<1> HIDE DEF t, n
<1>3. ~Answers(t[n + 1]) /\ (Answers(t[n + 2]) <=> k # "reject") /\ t[n + 2].req = r
  BY <1>1, <1>2 DEF Answers
<1>4. \A x : x \in AnswersOn(s) <=> \E i \in 1..n : Answers(t[i]) /\ t[i].req = x
  BY <1>2, AnswersOnElems DEF n
<1>5. OneAnswerEach(t)
  <2>1. \A i, j \in 1..n : Answers(t[i]) /\ Answers(t[j]) /\ t[i].req = t[j].req => i = j
    BY <1>2 DEF OneAnswerEach, n
  <2>2. \A i \in 1..n : Answers(t[i]) /\ Answers(t[n + 2]) => t[i].req # t[n + 2].req
    BY <1>3, <1>4
  <2> QED
    BY <1>2, <1>3, <2>1, <2>2 DEF OneAnswerEach
<1>6. Framed(t)
  <2>1. ASSUME NEW i \in 1..n, t[i].part = "head"
        PROVE  i < Len(t) /\ t[i + 1].part = "tail"
    <3>1. i < n /\ s[i + 1].part = "tail" /\ i + 1 \in 1..n
      BY <1>2, <2>1 DEF Framed, n
    <3> QED
      BY <1>2, <3>1
  <2> QED
    BY <1>1, <1>2, <2>1 DEF Framed
<1>7. \A x : x \in AnswersOn(t) <=> x \in AnswersOn(s) \/ (k # "reject" /\ x = r)
  <2>1. \A x : x \in AnswersOn(t) <=> \E i \in 1..Len(t) : Answers(t[i]) /\ t[i].req = x
    BY AnswersOnElems
  <2> QED
    BY <1>2, <1>3, <1>4, <2>1
<1>8. AnswersOn(t) = AnswersOn(s) \union (IF k = "reject" THEN {} ELSE {r})
  BY <1>7
<1> QED
  BY <1>2, <1>5, <1>6, <1>8 DEF t, p

-----------------------------------------------------------------------------
(* Each step of the client is one of Exchange, or none.                    *)

LEMMA NoneIsMade == Abstract!NoneMade
BY DEF Abstract!NoneMade, NoRequest, SendOps

LEMMA WireSame ==
  ASSUME UNCHANGED <<conn, outbound, inbound>>
  PROVE  UNCHANGED <<Waiting, Unread>>
BY DEF Waiting, Unread, AnswersOn, Answers, Elems

LEMMA Stutter ==
  ASSUME UNCHANGED <<call, result, calls, connected, Faulty, Waiting, Unread>>,
         \A h \in Goroutines : Phase(h)' = Phase(h)
  PROVE  UNCHANGED Abstract!vars
<1>1. UNCHANGED <<Phases, Outcomes, Replies>>
  BY DEF Phases, Outcomes, Replies
<1> QED
  BY <1>1 DEF Abstract!vars, Abstract!callVars

\* One goroutine's part of the mapping changes.
LEMMA MapsExcept ==
  ASSUME NEW g \in Goroutines, NEW phase, NEW res,
         Phase(g)' = phase, result'[g] = res,
         \A h \in Goroutines \ {g} : Phase(h)' = Phase(h) /\ result'[h] = result[h]
  PROVE  /\ Phases' = [Phases EXCEPT ![g] = phase]
         /\ Outcomes' = [Outcomes EXCEPT ![g] = res.outcome]
         /\ Replies' = [Replies EXCEPT ![g] = res.reply]
BY DEF Phases, Outcomes, Replies

\* A return, with the outcome and the answer of its result.
LEMMA ReturnMaps ==
  ASSUME TypeOK, NEW g \in Goroutines, NEW res, UNCHANGED <<call, calls>>,
         pc' = [pc EXCEPT ![g] = "idle"], result' = [result EXCEPT ![g] = res]
  PROVE  Abstract!Return(g, res.outcome, res.reply)
<1>1. /\ \A h \in Goroutines \ {g} : Phase(h)' = Phase(h) /\ result'[h] = result[h]
      /\ Phase(g)' = "idle" /\ result'[g] = res
  BY DEF Phase, Reading, TypeOK
<1> QED
  BY <1>1, MapsExcept DEF Abstract!Return

LEMMA FailMaps ==
  ASSUME TypeOK, NEW g \in Goroutines, UNCHANGED <<call, calls, connected>>,
         pc' = [pc EXCEPT ![g] = "idle"], result' = [result EXCEPT ![g] = Failed],
         Phase(g) \in {"called", "sent"},
         Faulty' \in {Faulty, connected},
         Waiting' = Waiting, Unread' \subseteq Unread
  PROVE  Abstract!ReturnError(g)
<1>1. Abstract!Return(g, "error", NoRequest)
  <2>1. Failed.outcome = "error" /\ Failed.reply = NoRequest
    BY DEF Failed
  <2>2. Abstract!Return(g, Failed.outcome, Failed.reply)
    BY ReturnMaps
  <2> QED
    BY <2>1, <2>2
<1> QED
  BY <1>1 DEF Abstract!ReturnError, Phases

LEMMA InvokeMaps ==
  ASSUME TypeOK, NEW g \in Goroutines, Invoke(g)
  PROVE  Abstract!Call(g)
<1> DEFINE AOps == SendOps \union {"connect", "close"}
           ATickets == {NoTicket} \union UserTickets \union 0..(TicketModulus - 1)
<1>1. PICK op \in AOps, t \in ATickets, where \in {"check", "lock"} : Begin(g, op, t, where)
  BY TicketType, Zenon
     DEF Invoke, Connect, Close, SendData, SendMessage, SendEnvelope, SendOps, TypeOK
<1>2. /\ Phase(g) = "idle" /\ Phase(g)' = "called"
      /\ \A h \in Goroutines \ {g} : Phase(h)' = Phase(h) /\ result'[h] = result[h]
      /\ result'[g] = NoResult
  BY <1>1 DEF Begin, Phase, Reading, TypeOK
<1>3. UNCHANGED <<connected, Faulty, Waiting, Unread>>
  BY <1>1, WireSame DEF Begin, wireVars, historyVars, Faulty
<1>4. /\ Phases' = [Phases EXCEPT ![g] = "called"]
      /\ Outcomes' = [Outcomes EXCEPT ![g] = "none"]
      /\ Replies' = [Replies EXCEPT ![g] = NoRequest]
  BY <1>2, MapsExcept DEF NoResult
<1>5. Phases[g] = "idle"
  BY <1>2 DEF Phases
<1> QED
  BY <1>1, <1>3, <1>4, <1>5 DEF Abstract!Call, Begin

\* The same for Answered, which is "ok" with the answer to the request r.
LEMMA AnsweredMaps ==
  ASSUME TypeOK, NEW g \in Goroutines, NEW r, Return(g, Answered(r))
  PROVE  Abstract!Return(g, "ok", r)
<1>1. Answered(r).outcome = "ok" /\ Answered(r).reply = r
  BY DEF Answered
<1>2. Abstract!Return(g, Answered(r).outcome, Answered(r).reply)
  BY ReturnMaps DEF Return
<1> QED
  BY <1>1, <1>2

LEMMA LockedPhase ==
  ASSUME NEW g \in Goroutines, NEW ops, Locked(g, ops)
  PROVE  Phases[g] = "called" /\ Phase(g) = "called" /\ call[g].op \in ops
BY DEF Locked, Phases, Phase, Reading

LEMMA Unconnected ==
  ASSUME TypeOK, ConnAgrees, ShapeInv, ~connected
  PROVE  conn = 0 /\ Waiting = {} /\ Unread = {} /\ Faulty = FALSE
BY DEF TypeOK, ConnAgrees, ShapeInv, Waiting, Unread, Faulty

LEMMA NothingMaps ==
  ASSUME TypeOK, ConnAgrees, ShapeInv, NEW g \in Goroutines, NothingToDo(g)
  PROVE  Abstract!Connected(g) \/ Abstract!Closed(g)
<1>1. /\ Abstract!Return(g, "ok", call[g]) /\ Phases[g] = "called"
      /\ call[g].op = IF connected THEN "connect" ELSE "close"
  BY AnsweredMaps, LockedPhase DEF NothingToDo
<1>2. UNCHANGED <<connected, Faulty, Waiting, Unread>>
  BY WireSame DEF NothingToDo, wireVars, historyVars, Faulty
<1>3. CASE connected
  <2>1. connected' = TRUE
    BY <1>2, <1>3, Zenon DEF TypeOK
  <2> QED
    BY <1>1, <1>2, <1>3, <2>1 DEF Abstract!Connected
<1>4. CASE ~connected
  <2>1. connected' = FALSE /\ Faulty' = FALSE /\ Waiting' = {} /\ Unread' = {}
    BY <1>2, <1>4, Unconnected, Zenon DEF TypeOK
  <2> QED
    BY <1>1, <1>4, <2>1 DEF Abstract!Closed
<1> QED
  BY <1>3, <1>4

LEMMA DialMaps ==
  ASSUME TypeOK, ConnAgrees, ShapeInv, StreamInv, NEW g \in Goroutines, DialOk(g)
  PROVE  Abstract!Connected(g)
<1> DEFINE res == [outcome |-> "ok", reply |-> call[g], conn |-> dialled + 1]
<1>1. Abstract!Return(g, "ok", call[g])
  <2>1. Abstract!Return(g, res.outcome, res.reply)
    BY ReturnMaps DEF DialOk, Return
  <2> QED
    BY <2>1
<1>2. Phases[g] = "called" /\ call[g].op = "connect"
  BY LockedPhase DEF DialOk
<1>3. /\ conn' = dialled + 1 /\ conn' # 0 /\ conn' \in Conns /\ conn' > dialled
      /\ UNCHANGED <<outbound, inbound, tainted>>
  BY BoundsAssumption DEF DialOk, StoreConn, TypeOK, Conns, historyVars
<1>4. outbound'[conn'] = <<>> /\ inbound'[conn'] = <<>> /\ conn' \notin tainted'
  BY <1>3 DEF StreamInv, Quiet, ShapeInv, TypeOK
<1>5. Waiting' = {} /\ Unread' = {} /\ Faulty' = FALSE
  BY <1>3, <1>4, ElemsEmpty DEF Waiting, Unread, AnswersOn, Faulty
<1>6. Waiting = {} /\ Unread = {} /\ Faulty = FALSE
  BY Unconnected DEF DialOk
<1>7. connected' = TRUE
  BY DEF DialOk, StoreConn
<1> QED
  BY <1>1, <1>2, <1>5, <1>6, <1>7 DEF Abstract!Connected

LEMMA CloseMaps ==
  ASSUME TypeOK, ShapeInv, NEW g \in Goroutines, CloseLocked(g)
  PROVE  Abstract!Closed(g)
<1>1. Abstract!Return(g, "ok", call[g]) /\ Phases[g] = "called" /\ call[g].op = "close"
  BY AnsweredMaps, LockedPhase DEF CloseLocked
<1>2. conn' = 0 /\ connected' = FALSE /\ tainted' = tainted
  BY DEF CloseLocked, historyVars
<1>3. Waiting' = {} /\ Unread' = {} /\ Faulty' = FALSE
  BY <1>2 DEF Waiting, Unread, Faulty, ShapeInv, TypeOK
<1> QED
  BY <1>1, <1>2, <1>3 DEF Abstract!Closed

LEMMA CheckMaps ==
  ASSUME TypeOK, NEW g \in Goroutines, CheckConnected(g)
  PROVE  Abstract!ReturnError(g) \/ UNCHANGED Abstract!vars
<1>1. UNCHANGED <<calls, call, connected, Faulty, Waiting, Unread>> /\ Phase(g) = "called"
  BY WireSame DEF CheckConnected, wireVars, historyVars, Faulty, Phase, Reading
<1>2. CASE pc' = [pc EXCEPT ![g] = "lock"] /\ UNCHANGED result
  <2>1. \A h \in Goroutines : Phase(h)' = Phase(h)
    BY <1>1, <1>2 DEF Phase, Reading, TypeOK
  <2> QED
    BY <1>1, <1>2, <2>1, Stutter
<1>3. CASE pc' = [pc EXCEPT ![g] = "idle"] /\ result' = [result EXCEPT ![g] = Failed]
  BY <1>1, <1>3, FailMaps
<1> QED
  BY <1>2, <1>3 DEF CheckConnected

LEMMA SetupFailMaps ==
  ASSUME TypeOK, NEW g \in Goroutines, DialFail(g) \/ EncodeFail(g)
  PROVE  Abstract!ReturnError(g)
<1>1. UNCHANGED <<calls, call, connected, Faulty, Waiting, Unread>> /\ Phase(g) = "called"
  BY WireSame, LockedPhase
     DEF DialFail, EncodeFail, Return, wireVars, historyVars, Faulty
<1> QED
  BY <1>1, FailMaps DEF DialFail, EncodeFail, Return

LEMMA PanicMaps ==
  ASSUME TypeOK, ConnAgrees, AloneInv, NEW g \in Goroutines, WritePanic(g)
  PROVE  Abstract!Die(g)
<1>1. UNCHANGED <<calls, call, result, connected, Faulty, Waiting, Unread>>
  BY WireSame DEF WritePanic, clientVars, wireVars, historyVars, Faulty
<1>2. Phases[g] = "called" /\ call[g].op \in SendOps
  BY LockedPhase DEF WritePanic
<1>3. Phases' = [Phases EXCEPT ![g] = "dead"] /\ UNCHANGED <<Outcomes, Replies>>
  BY <1>1 DEF WritePanic, Phases, Outcomes, Replies, Phase, Reading, TypeOK
<1>4. PICK h \in Goroutines \ {g} : ~Silent(h)
  BY <1>2 DEF WritePanic, Locked, ConnAgrees, AloneInv
<1>5. call[h] # NoRequest
  BY <1>4 DEF Silent, NoRequest
<1> QED
  BY <1>1, <1>2, <1>3, <1>5 DEF Abstract!Die

LEMMA WriteMaps ==
  ASSUME TypeOK, ConnAgrees, ShapeInv, Abstract!Inv, NEW g \in Goroutines, WriteOk(g)
  PROVE  /\ Abstract!Send(g)
         /\ Distinct(outbound'[conn])
<1>1. UNCHANGED <<calls, call, result, connected, conn, Faulty, inbound>> /\ conn # 0 /\ conn \in Conns
  BY ConnType DEF WriteOk, clientVars, historyVars, Faulty
<1>2. Phases[g] = "called" /\ call[g].op \in SendOps
  BY LockedPhase DEF WriteOk
<1>3. call[g] \notin Elems(outbound[conn]) \ {Torn} /\ call[g] # Torn
  BY <1>1, <1>2 DEF Abstract!Inv, Waiting, Torn, SendOps
<1>4. outbound'[conn] = Append(outbound[conn], call[g])
  BY <1>1 DEF WriteOk, TypeOK
<1>5. /\ Distinct(outbound'[conn])
      /\ Elems(outbound'[conn]) \ {Torn} = (Elems(outbound[conn]) \ {Torn}) \union {call[g]}
  BY <1>1, <1>3, <1>4, DistinctAppend DEF TypeOK, ShapeInv
<1>6. Waiting' = Waiting \union {call[g]} /\ Unread' = Unread
  BY <1>1, <1>5 DEF Waiting, Unread, AnswersOn, Answers, Elems
<1>7. Phases' = [Phases EXCEPT ![g] = "sent"] /\ UNCHANGED <<Outcomes, Replies>>
  BY <1>1 DEF WriteOk, Phases, Outcomes, Replies, Phase, Reading, TypeOK
<1>8. connected
  BY <1>1 DEF ConnAgrees
<1> QED
  BY <1>1, <1>2, <1>5, <1>6, <1>7, <1>8 DEF Abstract!Send

LEMMA WriteFailMaps ==
  ASSUME TypeOK, ConnAgrees, ShapeInv, NEW g \in Goroutines, WriteFail(g)
  PROVE  /\ Abstract!ReturnError(g)
         /\ Distinct(outbound'[conn])
<1>1. UNCHANGED <<calls, call, connected, conn, inbound>> /\ conn # 0 /\ conn \in Conns
  BY ConnType DEF WriteFail, Return
<1>2. Phase(g) = "called"
  BY LockedPhase DEF WriteFail
<1>3. outbound'[conn] = outbound[conn] \/ outbound'[conn] = Append(outbound[conn], Torn)
  BY <1>1 DEF WriteFail, TypeOK
<1>4. /\ Distinct(outbound'[conn])
      /\ Elems(outbound'[conn]) \ {Torn} = Elems(outbound[conn]) \ {Torn}
  <2>1. outbound[conn] \in Seq(Request) /\ Distinct(outbound[conn]) /\ Torn \in Request
    BY <1>1, SpecialRequests DEF TypeOK, ShapeInv
  <2>2. CASE outbound'[conn] = outbound[conn]
    BY <2>1, <2>2
  <2>3. CASE outbound'[conn] = Append(outbound[conn], Torn)
    BY <2>1, <2>3, DistinctAppend
  <2> QED
    BY <1>3, <2>2, <2>3
<1>5. Waiting' = Waiting /\ Unread' = Unread
  BY <1>1, <1>4 DEF Waiting, Unread, AnswersOn, Answers, Elems
<1>6. Faulty' = TRUE /\ connected = TRUE
  BY <1>1, Zenon DEF WriteFail, Faulty, ConnAgrees, TypeOK
<1> QED
  BY <1>1, <1>2, <1>4, <1>5, <1>6, FailMaps DEF WriteFail, Return

LEMMA HeadFacts ==
  ASSUME TypeOK, LockInv, ShapeInv, NEW g \in Goroutines, Reading(g), inbound[conn] # <<>>
  PROVE  /\ conn # 0 /\ conn \in Conns /\ connected \in BOOLEAN
         /\ Phase(g) = "sent" /\ Phases[g] = "sent"
         /\ inbound[conn] \in Seq(Fragment) /\ Head(inbound[conn]) \in Fragment
         /\ OneAnswerEach(inbound[conn]) /\ Framed(inbound[conn])
         /\ pc[g] = "readTail" => Head(inbound[conn]).part = "tail"
         /\ Answers(Head(inbound[conn])) => Head(inbound[conn]).req \in Unread
<1>1. conn # 0 /\ conn \in Conns /\ Phase(g) = "sent" /\ Phases[g] = "sent"
  BY ConnType DEF LockInv, Reading, Phase, Phases
<1>2. inbound[conn] \in Seq(Fragment) /\ Head(inbound[conn]) = inbound[conn][1]
      /\ Head(inbound[conn]) \in Fragment /\ 1 \in 1..Len(inbound[conn])
  BY <1>1, TailElems DEF TypeOK
<1>3. Answers(Head(inbound[conn])) => Head(inbound[conn]).req \in Unread
  BY <1>1, <1>2, AnswersOnElems DEF Unread
<1> QED
  BY <1>1, <1>2, <1>3 DEF ShapeInv, TypeOK

\* A fragment is read, or turned into junk.
LEMMA ReadMaps ==
  ASSUME TypeOK, conn # 0, UNCHANGED conn, inbound[conn] # <<>>,
         OneAnswerEach(inbound[conn]), Framed(inbound[conn]),
         NEW t \in {Tail(inbound[conn]), <<Junk(Head(inbound[conn]))>> \o Tail(inbound[conn])},
         inbound' = [inbound EXCEPT ![conn] = t]
  PROVE  /\ inbound'[conn] = t /\ OneAnswerEach(t) /\ Framed(t)
         /\ Answers(Head(inbound[conn])) => Unread' = Unread \ {Head(inbound[conn]).req}
         /\ ~Answers(Head(inbound[conn])) => Unread' = Unread
<1>1. conn \in Conns /\ inbound[conn] \in Seq(Fragment) /\ inbound'[conn] = t
  BY ConnType DEF TypeOK
<1>2. Unread = AnswersOn(inbound[conn]) /\ Unread' = AnswersOn(t)
  BY <1>1 DEF Unread, AnswersOn, Elems, Answers
<1> QED
  BY <1>1, <1>2, FragmentsRead

\* A whole reply was read, or its response alone.
LEMMA DeliverMaps ==
  ASSUME TypeOK, LockInv, StreamInv, ShapeInv, NEW g \in Goroutines,
         ReadTail(g) \/ ReadRawResponse(g)
  PROVE  Abstract!ReturnAnswer(g) \/ Abstract!ReturnError(g)
<1> DEFINE s == inbound[conn]
           f == Head(s)
           res == IF Accepts(g, f) THEN Answered(f.req) ELSE Failed
<1>1. /\ Reading(g) /\ s # <<>> /\ Return(g, res)
      /\ UNCHANGED <<connected, conn, outbound, tainted>>
      /\ pc[g] = "read" => f.part # "head" /\ f.part = "tail"
      /\ inbound' \in {[inbound EXCEPT ![conn] = Tail(s)],
                       [inbound EXCEPT ![conn] = <<Junk(f)>> \o Tail(s)]}
  BY DEF ReadTail, ReadRawResponse, MidFrame, Deliver, Consume, historyVars, Reading
<1>2. /\ conn # 0 /\ conn \in Conns /\ Phase(g) = "sent" /\ Phases[g] = "sent"
      /\ s \in Seq(Fragment) /\ f \in Fragment /\ f.part = "tail"
      /\ OneAnswerEach(s) /\ Framed(s)
      /\ Answers(f) => f.req \in Unread
  BY <1>1, HeadFacts DEF Reading
<1>3. (Answers(f) => Unread' = Unread \ {f.req}) /\ (~Answers(f) => Unread' = Unread)
  <2>1. CASE inbound' = [inbound EXCEPT ![conn] = Tail(s)]
    BY <1>1, <1>2, <2>1, ReadMaps
  <2>2. CASE inbound' = [inbound EXCEPT ![conn] = <<Junk(f)>> \o Tail(s)]
    BY <1>1, <1>2, <2>2, ReadMaps
  <2> QED
    BY <1>1, <2>1, <2>2
<1>4. UNCHANGED <<connected, Faulty, Waiting, calls, call>>
  BY <1>1 DEF Faulty, Waiting, Elems, Return
<1>5. Faulty \/ f.req = call[g]
  <2> SUFFICES ASSUME conn \notin tainted PROVE f.req = call[g]
    BY DEF Faulty
  <2>1. CASE pc[g] = "read"
    <3>1. \E k \in Kinds : s = Reply(call[g], k)
      BY <1>1, <1>2, <2>1 DEF StreamInv, Pending, Quiet
    <3>2. f.part = "head"
      BY <3>1 DEF Reply
    <3> QED
      BY <1>1, <2>1, <3>2
  <2>2. CASE pc[g] = "readTail"
    <3>1. PICK k \in Kinds : s = << [req |-> call[g], kind |-> k, part |-> "tail"] >>
      BY <1>1, <1>2, <2>2 DEF StreamInv, Partial, Quiet
    <3>2. f = [req |-> call[g], kind |-> k, part |-> "tail"]
      BY <3>1
    <3> QED
      BY <3>2
  <2> QED
    BY <1>1, <2>1, <2>2 DEF Reading
<1> HIDE DEF f, s
<1>6. CASE Accepts(g, f)
  <2>1. f.kind # "reject" /\ Answers(f) /\ (call[g].op = "message" => f.req.ticket = call[g].ticket)
    BY <1>2, <1>6 DEF Accepts, Answers
  <2>2. Abstract!Return(g, "ok", f.req)
    BY <1>1, <1>6, AnsweredMaps
  <2>3. f.req \in Unread /\ Unread' = Unread \ {f.req}
    BY <1>2, <1>3, <2>1
  <2> HIDE DEF res
  <2> QED
    BY <1>2, <1>4, <1>5, <2>1, <2>2, <2>3, Zenon DEF Abstract!ReturnAnswer
<1>7. CASE ~Accepts(g, f)
  <2>1. pc' = [pc EXCEPT ![g] = "idle"] /\ result' = [result EXCEPT ![g] = Failed]
    BY <1>1, <1>7 DEF Return
  <2> QED
    BY <1>2, <1>3, <1>4, <2>1, FailMaps
<1> QED
  BY <1>6, <1>7

LEMMA HeadMaps ==
  ASSUME TypeOK, LockInv, ShapeInv, NEW g \in Goroutines, ReadHead(g)
  PROVE  UNCHANGED Abstract!vars
<1> DEFINE f == Head(inbound[conn])
<1>1. /\ Reading(g) /\ inbound[conn] # <<>> /\ f.part = "head"
      /\ inbound' = [inbound EXCEPT ![conn] = Tail(inbound[conn])]
      /\ UNCHANGED <<call, result, calls, connected, conn, outbound, tainted>>
  BY DEF ReadHead, Consume, Reading, clientVars, historyVars
<1>2. /\ conn # 0 /\ OneAnswerEach(inbound[conn]) /\ Framed(inbound[conn])
      /\ Phase(g) = "sent" /\ ~Answers(f)
  BY <1>1, HeadFacts DEF Answers
<1>3. UNCHANGED <<Faulty, Waiting, Unread>>
  BY <1>1, <1>2, ReadMaps DEF Faulty, Waiting, Elems
<1>4. \A h \in Goroutines : Phase(h)' = Phase(h)
  BY <1>2 DEF ReadHead, Phase, Reading, TypeOK
<1> QED
  BY <1>1, <1>3, <1>4, Stutter

\* The reply was not, or not completely, there, or its end was and not its start.
LEMMA ReadFailMaps ==
  ASSUME TypeOK, LockInv, ConnAgrees, ShapeInv, NEW g \in Goroutines,
         ReadGarbage(g) \/ ReadTimeout(g) \/ ReadEOF(g)
  PROVE  Abstract!ReturnError(g)
<1>1. /\ Reading(g) /\ tainted' = tainted \union {conn} /\ Return(g, Failed)
      /\ UNCHANGED <<connected, conn, outbound>>
      /\ \/ UNCHANGED inbound
         \/ /\ inbound[conn] # <<>>
            /\ \E rest \in Leftovers(inbound[conn]) : inbound' = [inbound EXCEPT ![conn] = rest]
  BY DEF ReadGarbage, ReadTimeout, ReadEOF, MidFrame, Reading, wireVars
<1>2. conn # 0 /\ conn \in Conns /\ Phase(g) = "sent"
  BY <1>1, ConnType DEF LockInv, Reading, Phase
<1>3. Faulty' = TRUE /\ connected = TRUE
  BY <1>1, <1>2, Zenon DEF Faulty, ConnAgrees, TypeOK
<1>4. Waiting' = Waiting
  BY <1>1 DEF Waiting, Elems
<1>5. Unread' \subseteq Unread
  <2>1. CASE UNCHANGED inbound
    BY <1>1, <2>1, WireSame
  <2>2. ASSUME inbound[conn] # <<>>, NEW rest \in Leftovers(inbound[conn]),
               inbound' = [inbound EXCEPT ![conn] = rest]
        PROVE  Unread' \subseteq Unread
    <3>1. /\ inbound[conn] \in Seq(Fragment) /\ inbound'[conn] = rest
          /\ OneAnswerEach(inbound[conn]) /\ Framed(inbound[conn])
      BY <1>2, <2>2 DEF TypeOK, ShapeInv
    <3>2. AnswersOn(rest) \subseteq AnswersOn(inbound[conn])
      BY <2>2, <3>1, FragmentsLeft
    <3>3. Unread = AnswersOn(inbound[conn]) /\ Unread' = AnswersOn(rest)
      BY <1>1, <1>2, <3>1 DEF Unread, AnswersOn, Elems, Answers
    <3> QED
      BY <3>2, <3>3
  <2> QED
    BY <1>1, <2>1, <2>2
<1>6. /\ UNCHANGED <<call, calls, connected>>
      /\ pc' = [pc EXCEPT ![g] = "idle"] /\ result' = [result EXCEPT ![g] = Failed]
  BY <1>1 DEF Return
<1> QED
  BY <1>2, <1>3, <1>4, <1>5, <1>6, FailMaps

\* The steps of a goroutine in a call.
LEMMA ProgressMaps ==
  ASSUME IndInv, ConnAgrees, ShapeInv, Abstract!Inv, NEW g \in Goroutines, Progress(g)
  PROVE  \/ Abstract!Connected(g) \/ Abstract!Closed(g) \/ Abstract!Send(g)
         \/ Abstract!ReturnAnswer(g) \/ Abstract!ReturnError(g) \/ Abstract!Die(g)
         \/ UNCHANGED Abstract!vars
<1>1. TypeOK /\ LockInv /\ StreamInv /\ AloneInv
  BY DEF IndInv
<1>2. CASE CheckConnected(g)
  BY <1>1, <1>2, CheckMaps
<1>3. CASE NothingToDo(g)
  BY <1>1, <1>3, NothingMaps
<1>4. CASE DialOk(g)
  BY <1>1, <1>4, DialMaps
<1>5. CASE CloseLocked(g)
  BY <1>1, <1>5, CloseMaps
<1>6. CASE DialFail(g) \/ EncodeFail(g)
  BY <1>1, <1>6, SetupFailMaps
<1>7. CASE WritePanic(g)
  BY <1>1, <1>7, PanicMaps
<1>8. CASE WriteOk(g)
  BY <1>1, <1>8, WriteMaps
<1>9. CASE WriteFail(g)
  BY <1>1, <1>9, WriteFailMaps
<1>10. CASE ReadHead(g)
  BY <1>1, <1>10, HeadMaps
<1>11. CASE ReadTail(g) \/ ReadRawResponse(g)
  BY <1>1, <1>11, DeliverMaps
<1>12. CASE ReadGarbage(g) \/ ReadTimeout(g) \/ ReadEOF(g)
  BY <1>1, <1>12, ReadFailMaps
<1> QED
  BY <1>2, <1>3, <1>4, <1>5, <1>6, <1>7, <1>8, <1>9, <1>10, <1>11, <1>12 DEF Progress

LEMMA WireMaps ==
  ASSUME UNCHANGED conn
  PROVE  /\ conn # 0 => /\ Waiting = Elems(outbound[conn]) \ {Torn}
                        /\ Waiting' = Elems(outbound'[conn]) \ {Torn}
                        /\ Unread = AnswersOn(inbound[conn])
                        /\ Unread' = AnswersOn(inbound'[conn])
         /\ conn = 0 => UNCHANGED <<Waiting, Unread>>
<1>1. conn # 0 => Waiting = Elems(outbound[conn]) \ {Torn} /\ Unread = AnswersOn(inbound[conn])
  BY DEF Waiting, Unread
<1>2. conn # 0 => /\ Waiting' = Elems(outbound'[conn]) \ {Torn}
                  /\ Unread' = AnswersOn(inbound'[conn])
  BY DEF Waiting, Unread, Elems, AnswersOn, Answers
<1>3. conn = 0 => UNCHANGED <<Waiting, Unread>>
  BY DEF Waiting, Unread
<1> QED
  BY <1>1, <1>2, <1>3

LEMMA ServerMaps ==
  ASSUME TypeOK, ShapeInv, Abstract!Inv, NEW c \in Conns, ServerReply(c)
  PROVE  /\ (\E r \in Waiting : Abstract!Answer(r)) \/ UNCHANGED Abstract!vars
         /\ ShapeInv'
<1> DEFINE r == Head(outbound[c])
<1>1. /\ c \in peerOpen /\ outbound[c] # <<>> /\ outbound[c] \in Seq(Request)
      /\ outbound'[c] = Tail(outbound[c]) /\ r \in Request
      /\ \A d \in Conns \ {c} : outbound'[d] = outbound[d] /\ inbound'[d] = inbound[d]
      /\ UNCHANGED <<conn, connected, pc, call, result, calls, peerOpen, dialled, tainted>>
  BY SeqFacts DEF ServerReply, TypeOK, clientVars, callVars, historyVars
<1>2. PICK k \in Kinds : /\ r = Torn => k = "reject"
                         /\ inbound'[c] = inbound[c] \o Reply(r, k)
  BY DEF ServerReply, TypeOK
<1> HIDE DEF r
<1>3. /\ UNCHANGED <<Phases, Outcomes, Replies, Faulty>>
      /\ \A h \in Goroutines : Phase(h)' = Phase(h)
  BY <1>1 DEF Phases, Outcomes, Replies, Faulty, Phase, Reading
<1>4. CASE conn # c
  <2>1. UNCHANGED <<Waiting, Unread>>
    BY <1>1, <1>4, ConnType, WireMaps
  <2>2. UNCHANGED Abstract!vars
    BY <1>1, <1>3, <2>1, Stutter
  <2>3. ShapeInv'
    BY <1>1, <1>4, ConnType DEF ShapeInv, Distinct, OneAnswerEach, Answers, Framed
  <2> QED
    BY <2>2, <2>3
<1>5. CASE conn = c
  <2>1. /\ conn # 0 /\ Distinct(outbound[c]) /\ inbound[c] \in Seq(Fragment)
        /\ OneAnswerEach(inbound[c]) /\ Framed(inbound[c])
        /\ Waiting = Elems(outbound[c]) \ {Torn} /\ Unread = AnswersOn(inbound[c])
        /\ Waiting' = Elems(outbound'[c]) \ {Torn} /\ Unread' = AnswersOn(inbound'[c])
    <3>1. conn # 0 /\ inbound[c] \in Seq(Fragment)
      BY <1>5 DEF TypeOK, Conns
    <3> QED
      BY <1>1, <1>5, <3>1, WireMaps DEF ShapeInv
  <2>2. Distinct(outbound'[c]) /\ Waiting' = Waiting \ {r}
    BY <1>1, <2>1, DistinctTail DEF r
  <2>3. r # Torn => r \in Waiting
    BY <1>1, <2>1, TailElems DEF r, Elems
  <2>4. k # "reject" => r \notin AnswersOn(inbound[c])
    BY <1>2, <2>1, <2>3 DEF Abstract!Inv
  <2>5. /\ OneAnswerEach(inbound'[c]) /\ Framed(inbound'[c])
        /\ Unread' = Unread \union (IF k = "reject" THEN {} ELSE {r})
        /\ inbound[c] # <<>> => Head(inbound'[c]) = Head(inbound[c])
        /\ inbound'[c] # <<>>
    BY <1>1, <1>2, <2>1, <2>4, FragmentsReply
  <2>6. ASSUME r = Torn PROVE UNCHANGED Abstract!vars
    <3>1. UNCHANGED <<Waiting, Unread>>
      BY <1>2, <2>1, <2>2, <2>5, <2>6
    <3> QED
      BY <1>1, <1>3, <3>1, Stutter
  <2>7. ASSUME r # Torn PROVE \E q \in Waiting : Abstract!Answer(q)
    <3>1. Unread' \in {Unread, Unread \union {r}}
      BY <2>5
    <3>2. Abstract!Answer(r)
      BY <1>1, <1>3, <2>2, <3>1 DEF Abstract!Answer, Abstract!callVars
    <3> QED
      BY <2>3, <2>7, <3>2
  <2>8. ShapeInv'
    <3>1. (\E g \in Goroutines : pc'[g] = "readTail") => Head(inbound'[c]).part = "tail"
      BY <1>1, <1>5, <2>1, <2>5 DEF ShapeInv
    <3> QED
      BY <1>1, <1>5, <2>1, <2>2, <2>5, <3>1 DEF ShapeInv
  <2> QED
    BY <2>6, <2>7, <2>8
<1> QED
  BY <1>4, <1>5

\* The end of the connection, and the contexts of the callers.
LEMMA PeerMaps ==
  ASSUME TypeOK, ShapeInv, NEW c \in Conns, PeerClose(c)
  PROVE  /\ Abstract!Lose \/ UNCHANGED Abstract!vars
         /\ ShapeInv'
<1>1. /\ c \in peerOpen /\ peerOpen' = peerOpen \ {c}
      /\ inbound' = inbound \/ inbound' = [inbound EXCEPT ![c] = <<>>]
      /\ UNCHANGED <<conn, connected, outbound, pc, call, result, calls, dialled, tainted>>
  BY DEF PeerClose, clientVars, callVars, historyVars
<1>2. /\ UNCHANGED <<Phases, Outcomes, Replies, Faulty, Waiting>>
      /\ \A h \in Goroutines : Phase(h)' = Phase(h)
  BY <1>1 DEF Phases, Outcomes, Replies, Faulty, Phase, Reading, Waiting, Elems
<1>3. CASE inbound'[conn] = inbound[conn] \/ conn = 0
  <2>1. UNCHANGED Unread
    BY <1>1, <1>3, WireMaps
  <2>2. UNCHANGED Abstract!vars
    BY <1>1, <1>2, <2>1, Stutter
  <2>3. ShapeInv'
    BY <1>1, <1>3 DEF ShapeInv, Distinct, OneAnswerEach, Answers, Framed
  <2> QED
    BY <2>2, <2>3
<1>4. CASE conn = c /\ conn # 0 /\ inbound'[conn] = <<>>
  <2>1. Unread' = {}
    BY <1>1, <1>4, ElemsEmpty DEF Unread, AnswersOn
  <2>2. Abstract!Lose
    BY <1>1, <1>2, <2>1 DEF Abstract!Lose, Abstract!callVars
  <2>3. ShapeInv'
    BY <1>1, <1>4 DEF ShapeInv, Distinct, OneAnswerEach, Framed
  <2> QED
    BY <2>2, <2>3
<1> QED
  BY <1>1, <1>3, <1>4, ConnType DEF TypeOK

LEMMA OtherMaps ==
  ASSUME TypeOK, ShapeInv, NEW g \in Goroutines, AcquireMutex(g) \/ CancelContext(g)
  PROVE  UNCHANGED Abstract!vars /\ ShapeInv'
<1>1. /\ UNCHANGED <<conn, connected, outbound, inbound, peerOpen, call, result, calls, dialled, tainted>>
      /\ \A h \in Goroutines : Phase(h)' = Phase(h) /\ (pc'[h] = "readTail" => pc[h] = "readTail")
  BY DEF AcquireMutex, CancelContext, clientVars, wireVars, historyVars, Phase, Reading, TypeOK
<1>2. UNCHANGED <<Faulty, Waiting, Unread>>
  BY <1>1, WireSame DEF Faulty
<1>3. ShapeInv'
  BY <1>1 DEF ShapeInv, Distinct, OneAnswerEach, Answers, Framed
<1> QED
  BY <1>1, <1>2, <1>3, Stutter
-----------------------------------------------------------------------------
(* The shape of the sockets is kept.                                       *)

LEMMA ShapeKept ==
  ASSUME ShapeInv, UNCHANGED <<conn, outbound, inbound, peerOpen, dialled>>,
         tainted' \subseteq 1..dialled,
         \A h \in Goroutines : pc'[h] = "readTail" => pc[h] = "readTail"
  PROVE  ShapeInv'
BY DEF ShapeInv, Distinct, OneAnswerEach, Answers, Framed

\* Nobody is left in the middle of a reply once its reader has returned.
LEMMA ReturnShape ==
  ASSUME TypeOK, LockInv, NEW g \in Goroutines, mutex = g, NEW res, Return(g, res)
  PROVE  \A h \in Goroutines : pc'[h] # "readTail"
BY DEF TypeOK, LockInv, Return

LEMMA ReadShape ==
  ASSUME TypeOK, LockInv, ShapeInv, NEW g \in Goroutines,
         ReadHead(g) \/ ReadTail(g) \/ ReadRawResponse(g) \/ ReadGarbage(g)
  PROVE  ShapeInv'
<1> DEFINE s == inbound[conn]
<1>1. /\ Reading(g) /\ s # <<>> /\ UNCHANGED <<conn, outbound, peerOpen, dialled>>
      /\ tainted' \subseteq tainted \union {conn}
  BY DEF ReadHead, ReadTail, ReadRawResponse, ReadGarbage, MidFrame, Reading,
         clientVars, historyVars
<1>2. /\ conn # 0 /\ conn \in 1..dialled /\ conn \in Conns /\ mutex = g
      /\ s \in Seq(Fragment) /\ OneAnswerEach(s) /\ Framed(s)
      /\ Distinct(outbound[conn])
  BY <1>1, HeadFacts DEF LockInv, Reading, TypeOK, ShapeInv
<1>3. tainted' \subseteq 1..dialled'
  BY <1>1, <1>2 DEF ShapeInv
<1>4. CASE ReadHead(g)
  <2>1. inbound'[conn] = Tail(s) /\ Head(s).part = "head"
    BY <1>2, <1>4 DEF ReadHead, Consume, TypeOK
  <2>2. OneAnswerEach(Tail(s)) /\ Framed(Tail(s))
    BY <1>1, <1>2, FragmentsTail
  <2>3. Tail(s) # <<>> /\ Head(Tail(s)).part = "tail"
    <3> HIDE DEF s
    <3>1. /\ Head(s) = s[1] /\ 1 \in 1..Len(s) /\ Len(s) \in Nat
          /\ Len(Tail(s)) = Len(s) - 1 /\ Tail(s) \in Seq(Fragment)
          /\ \A i \in 1..Len(Tail(s)) : Tail(s)[i] = s[i + 1]
      BY <1>1, <1>2, TailElems
    <3>2. 1 < Len(s) /\ s[2].part = "tail"
      BY <1>2, <2>1, <3>1 DEF Framed
    <3>3. Tail(s) # <<>> /\ Tail(s)[1] = s[2]
      <4>1. 1 \in 1..Len(Tail(s)) /\ Len(Tail(s)) # 0
        BY <3>1, <3>2
      <4>2. Tail(s)[1] = s[1 + 1] /\ 1 + 1 = 2
        BY <3>1, <4>1
      <4>3. Tail(s) # <<>>
        BY <4>1, EmptyLen
      <4> QED
        BY <4>2, <4>3
    <3> QED
      BY <3>1, <3>2, <3>3, TailElems
  <2> QED
    BY <1>1, <1>2, <1>3, <2>1, <2>2, <2>3 DEF ShapeInv
<1>5. CASE ReadTail(g) \/ ReadRawResponse(g) \/ ReadGarbage(g)
  <2>1. \A h \in Goroutines : pc'[h] # "readTail"
    BY <1>2, <1>5, ReturnShape DEF ReadTail, ReadRawResponse, ReadGarbage, Deliver
  <2>2. PICK rest \in Leftovers(s) : inbound' = [inbound EXCEPT ![conn] = rest]
    BY <1>5 DEF ReadTail, ReadRawResponse, ReadGarbage, Consume, Leftovers
  <2>3. inbound'[conn] = rest
    BY <1>2, <2>2 DEF TypeOK
  <2>4. OneAnswerEach(rest) /\ Framed(rest)
    BY <1>1, <1>2, FragmentsLeft
  <2> QED
    BY <1>1, <1>2, <1>3, <2>1, <2>3, <2>4 DEF ShapeInv
<1> QED
  BY <1>4, <1>5

LEMMA ShapeStep ==
  ASSUME IndInv, ConnAgrees, ShapeInv, Abstract!Inv, NEW g \in Goroutines,
         Invoke(g) \/ Progress(g)
  PROVE  ShapeInv'
<1>1. TypeOK /\ LockInv /\ StreamInv
  BY DEF IndInv
<1>2. CASE Invoke(g)
  BY <1>1, <1>2, ShapeKept
     DEF Invoke, Connect, Close, SendData, SendMessage, SendEnvelope, Begin, wireVars,
         historyVars, TypeOK, ShapeInv
<1>3. CASE CheckConnected(g) \/ NothingToDo(g) \/ DialFail(g) \/ EncodeFail(g) \/ WritePanic(g)
  BY <1>1, <1>3, ShapeKept
     DEF CheckConnected, NothingToDo, DialFail, EncodeFail, WritePanic, Return, clientVars,
         wireVars, historyVars, TypeOK, ShapeInv
<1>4. CASE ReadTimeout(g) \/ ReadEOF(g)
  <2>1. conn \in 1..dialled
    BY <1>1, <1>4 DEF ReadTimeout, ReadEOF, LockInv, TypeOK
  <2>2. /\ tainted' \subseteq 1..dialled
        /\ \A h \in Goroutines : pc'[h] = "readTail" => pc[h] = "readTail"
        /\ UNCHANGED <<conn, outbound, inbound, peerOpen, dialled>>
    BY <1>1, <1>4, <2>1 DEF ReadTimeout, ReadEOF, Return, wireVars, TypeOK, ShapeInv
  <2> QED
    BY <2>2, ShapeKept
<1>5. CASE DialOk(g)
  <2>1. /\ conn' = dialled + 1 /\ conn' \in Conns /\ conn' > dialled /\ dialled' = dialled + 1
        /\ UNCHANGED <<outbound, inbound, tainted>>
    BY <1>1, <1>5, BoundsAssumption DEF DialOk, StoreConn, TypeOK, Conns, historyVars
  <2>2. outbound'[conn'] = <<>> /\ inbound'[conn'] = <<>>
    BY <1>1, <2>1 DEF StreamInv, Quiet
  <2>3. \A h \in Goroutines : pc'[h] # "readTail"
    BY <1>1, <1>5, ReturnShape DEF DialOk, Locked, LockInv
  <2>4. tainted' \subseteq 1..dialled'
    BY <1>1, <2>1 DEF ShapeInv, TypeOK
  <2> QED
    BY <2>2, <2>3, <2>4 DEF ShapeInv, Distinct, OneAnswerEach, Framed
<1>6. CASE CloseLocked(g)
  BY <1>6 DEF CloseLocked, historyVars, ShapeInv
<1>7. CASE WriteOk(g) \/ WriteFail(g)
  <2>1. Distinct(outbound'[conn])
    BY <1>1, <1>7, WriteMaps, WriteFailMaps
  <2>2. /\ UNCHANGED <<conn, inbound, peerOpen, dialled>>
        /\ conn # 0 /\ tainted' \subseteq tainted \union {conn}
    BY <1>7 DEF WriteOk, WriteFail, clientVars, historyVars
  <2>3. \A h \in Goroutines : pc'[h] = "readTail" => pc[h] = "readTail"
    BY <1>1, <1>7 DEF WriteOk, WriteFail, Return, TypeOK
  <2>4. tainted' \subseteq 1..dialled
    BY <1>1, <2>2 DEF TypeOK, ShapeInv
  <2> QED
    BY <2>1, <2>2, <2>3, <2>4 DEF ShapeInv, OneAnswerEach, Answers, Framed
<1>8. CASE ReadHead(g) \/ ReadTail(g) \/ ReadRawResponse(g) \/ ReadGarbage(g)
  BY <1>1, <1>8, ReadShape
<1> QED
  BY <1>2, <1>3, <1>4, <1>5, <1>6, <1>7, <1>8 DEF Progress

-----------------------------------------------------------------------------
(* The theorems.                                                           *)

Mapped == IndInv /\ ConnAgrees /\ ShapeInv /\ Abstract!Inv

LEMMA MappedInit == Init => Mapped /\ Abstract!Init
<1> SUFFICES ASSUME Init PROVE Mapped /\ Abstract!Init
  OBVIOUS
<1>1. IndInv /\ ConnAgrees
  BY TypeInit, TicketInit, AloneInit DEF Init, StreamInv, Quiet, Reading, IndInv
<1>2. ShapeInv
  BY DEF Init, ShapeInv
<1>3. Phases = [g \in Goroutines |-> "idle"]
  BY DEF Init, Phases, Phase, Reading
<1>4. /\ Outcomes = [g \in Goroutines |-> "none"]
      /\ Replies = [g \in Goroutines |-> NoRequest]
  BY DEF Init, Outcomes, Replies, NoResult
<1>5. connected = FALSE /\ Faulty = FALSE
  <2>1. conn \notin tainted /\ connected = FALSE
    BY DEF Init
  <2>2. Faulty = FALSE
    BY <2>1 DEF Faulty
  <2> QED
    BY <2>1, <2>2, Zenon
<1>6. Waiting = {} /\ Unread = {}
  BY DEF Init, Waiting, Unread
<1>7. Abstract!Init
  BY <1>3, <1>4, <1>5, <1>6 DEF Init, Abstract!Init
<1> QED
  BY <1>1, <1>2, <1>7, NoneIsMade, Abstract!InvInit DEF Mapped

LEMMA MappedStep ==
  ASSUME Mapped, [Next]_vars
  PROVE  [Abstract!Next]_(Abstract!vars) /\ Mapped'
<1>1. /\ IndInv /\ TypeOK /\ LockInv /\ ConnAgrees /\ ShapeInv /\ Abstract!Inv
      /\ IndInv' /\ ConnAgrees'
  BY TypeStep, TicketStep, StreamStep, ConnAgreesStep, AloneStep DEF Mapped, IndInv
<1>2. CASE UNCHANGED vars
  <2>1. UNCHANGED <<Faulty, Waiting, Unread>> /\ \A h \in Goroutines : Phase(h)' = Phase(h)
    BY <1>2, WireSame DEF vars, clientVars, callVars, wireVars, historyVars, Faulty, Phase, Reading
  <2>2. UNCHANGED Abstract!vars
    BY <1>2, <2>1, Stutter DEF vars, clientVars, callVars
  <2>3. ShapeInv'
    BY <1>1, <1>2, ShapeKept DEF vars, clientVars, callVars, wireVars, historyVars, ShapeInv
  <2> QED
    BY <1>1, <2>2, <2>3, NoneIsMade, Abstract!InvStep DEF Mapped
<1>3. CASE ~Crashed /\ Next
  <2>1. \A g \in Goroutines : Phases[g] # "dead"
    BY <1>3 DEF Crashed, Phases, Phase, Reading
  <2>2. ([Abstract!Next]_(Abstract!vars)) /\ ShapeInv'
    <3>1. ASSUME NEW g \in Goroutines, Invoke(g)
          PROVE  Abstract!Call(g) /\ ShapeInv'
      BY <1>1, <3>1, InvokeMaps, ShapeStep
    <3>2. ASSUME NEW g \in Goroutines, AcquireMutex(g) \/ CancelContext(g)
          PROVE  UNCHANGED Abstract!vars /\ ShapeInv'
      BY <1>1, <3>2, OtherMaps
    <3>3. ASSUME NEW g \in Goroutines, Progress(g)
          PROVE  /\ \/ Abstract!Connected(g) \/ Abstract!Closed(g) \/ Abstract!Send(g)
                    \/ Abstract!ReturnAnswer(g) \/ Abstract!ReturnError(g) \/ Abstract!Die(g)
                    \/ UNCHANGED Abstract!vars
                 /\ ShapeInv'
      BY <1>1, <3>3, ProgressMaps, ShapeStep
    <3>4. ASSUME NEW c \in Conns, ServerReply(c)
          PROVE  ((\E r \in Waiting : Abstract!Answer(r)) \/ UNCHANGED Abstract!vars) /\ ShapeInv'
      BY <1>1, <3>4, ServerMaps
    <3>5. ASSUME NEW c \in Conns, PeerClose(c)
          PROVE  (Abstract!Lose \/ UNCHANGED Abstract!vars) /\ ShapeInv'
      BY <1>1, <3>5, PeerMaps
    <3>6. CASE Done
      BY <1>2, <3>6, <2>1 DEF Done, Mapped
    <3> QED
      BY <1>3, <2>1, <3>1, <3>2, <3>3, <3>4, <3>5, <3>6 DEF Next, Environment, Abstract!Next
  <2> QED
    BY <1>1, <2>2, NoneIsMade, Abstract!InvStep DEF Mapped
<1> QED
  BY <1>2, <1>3 DEF Next, Done

\* Every behaviour of the client is, seen through the mapping, one of Exchange.
THEOREM Refinement == Spec => ImplementsExchange
<1>1. Init => Mapped /\ Abstract!Init
  BY MappedInit
<1>2. Mapped /\ [Next]_vars => [Abstract!Next]_(Abstract!vars) /\ Mapped'
  BY MappedStep
<1> QED
  BY <1>1, <1>2, PTL DEF Spec, Abstract!Spec, ImplementsExchange

\* No answer of the server ends two calls.
THEOREM EachAnswerOnce == Spec => []AnsweredOnce
<1>1. Init => Mapped
  BY MappedInit
<1>2. Mapped /\ [Next]_vars => Mapped'
  BY MappedStep
<1>3. Mapped => AnsweredOnce
  <2> SUFFICES ASSUME Mapped PROVE AnsweredOnce
    OBVIOUS
  <2>1. Abstract!AnsweredOnce
    BY DEF Mapped, Abstract!Inv
  <2>2. \A g \in Goroutines :
          Outcomes[g] = result[g].outcome /\ Replies[g] = result[g].reply
    BY DEF Outcomes, Replies
  <2> QED
    BY <2>1, <2>2 DEF Abstract!AnsweredOnce, Abstract!Delivered, AnsweredOnce, Got
<1> QED
  BY <1>1, <1>2, <1>3, PTL DEF Spec
=============================================================================
