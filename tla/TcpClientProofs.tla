-------------------------- MODULE TcpClientProofs --------------------------
(***************************************************************************)
(* Theorems about TcpClient, for any goroutines, bounds, application       *)
(* tickets and ticket width.                                               *)
(***************************************************************************)
EXTENDS TcpClient, DataLemmas, TLAPS

-----------------------------------------------------------------------------
(* The inductive invariant.                                                *)

\* A goroutine between Lock and Unlock holds the mutex, and one that reads does
\* so for a send, on a connection that nobody can take from it.
LockInv ==
  \A g \in Goroutines :
    /\ pc[g] \in {"locked", "read", "readTail"} => mutex = g
    /\ pc[g] \in {"read", "readTail"} => conn # 0 /\ call[g].op \in SendOps

Elems(s) == {s[i] : i \in 1..Len(s)}

\* The requests that can still matter: the callers', and those that wait or are
\* answered on a connection.
Live ==
  {call[g] : g \in Goroutines}
    \union (UNION {Elems(outbound[c]) : c \in Conns})
    \union {f.req : f \in UNION {Elems(inbound[c]) : c \in Conns}}

\* A message's ticket belongs to it alone.
TicketInv ==
  TicketsDistinct =>
    /\ ticketCounter <= calls
    /\ \A r \in Live :
         /\ r.ticket \in (1..ticketCounter) \union UserTickets \union {NoTicket}
         /\ r.op = "message" => r.ticket \in 1..ticketCounter
    /\ \A r, s \in Live : r.op = "message" /\ r.ticket = s.ticket => r = s

Reading(g) == pc[g] \in {"read", "readTail"}

\* What is on connection c when no exchange is under way on it.
Quiet(c) == outbound[c] = <<>> /\ inbound[c] = <<>>

\* What may be on connection c while g waits for a reply, and for the rest of one.
Pending(g, c) ==
  \/ outbound[c] = <<call[g]>> /\ inbound[c] = <<>>
  \/ outbound[c] = <<>> /\ \E k \in Kinds : inbound[c] = Reply(call[g], k)
Partial(g, c) ==
  /\ outbound[c] = <<>>
  /\ \E k \in Kinds : inbound[c] = << [req |-> call[g], kind |-> k, part |-> "tail"] >>

\* On a connection no exchange has failed on there is the current exchange and
\* nothing else - or nothing at all, after a reset.
StreamInv ==
  /\ \A c \in Conns : c > dialled => Quiet(c)
  /\ conn # 0 /\ conn \notin tainted =>
       /\ (\A g \in Goroutines : ~Reading(g)) => Quiet(conn)
       /\ \A g \in Goroutines :
            /\ pc[g] = "read" => Pending(g, conn) \/ Quiet(conn)
            /\ pc[g] = "readTail" => Partial(g, conn) \/ Quiet(conn)

\* A goroutine that has made no call is in none, and one that no other has joined
\* and that has found the client connected finds it so still when it has the mutex.
AloneInv ==
  /\ \A g \in Goroutines : Silent(g) => pc[g] = "idle"
  /\ \A g \in Goroutines : (\A h \in Goroutines \ {g} : Silent(h)) =>
       /\ pc[g] # "panic"
       /\ pc[g] \in {"lock", "locked"} /\ call[g].op \in SendOps => connected

IndInv == TypeOK /\ LockInv /\ TicketInv /\ StreamInv /\ AloneInv

-----------------------------------------------------------------------------
(* Sequences.                                                              *)

LEMMA ReplyType ==
  ASSUME NEW r \in Request, NEW k \in Kinds
  PROVE  Reply(r, k) \in Seq(Fragment)
BY DEF Reply, Fragment

LEMMA JunkType ==
  ASSUME NEW f \in Fragment
  PROVE  Junk(f) \in Fragment
BY DEF Junk, Fragment

LEMMA LeftoversType ==
  ASSUME NEW s \in Seq(Fragment), s # <<>>, NEW rest \in Leftovers(s)
  PROVE  rest \in Seq(Fragment)
<1>1. /\ Head(s) \in Fragment
      /\ Tail(s) \in Seq(Fragment)
  BY SeqFacts
<1>2. <<Junk(Head(s))>> \o Tail(s) \in Seq(Fragment)
  BY <1>1, JunkType
<1>3. Tail(s) # <<>> => Tail(Tail(s)) \in Seq(Fragment)
  BY <1>1, SeqFacts
<1> QED
  BY <1>1, <1>2, <1>3 DEF Leftovers

LEMMA SpecialRequests == NoRequest \in Request /\ Torn \in Request
BY BoundsAssumption DEF NoRequest, Torn, Request, Ops, NoTicket

LEMMA TicketType ==
  ASSUME ticketCounter \in 0..(TicketModulus - 1)
  PROVE  nextTicketID \in 0..(TicketModulus - 1) /\ nextTicketID \in Nat
BY TicketAssumption DEF nextTicketID

-----------------------------------------------------------------------------
(* Types and the mutex.                                                    *)

LEMMA TypeInit == Init => TypeOK /\ LockInv
<1> SUFFICES ASSUME Init PROVE TypeOK /\ LockInv
  OBVIOUS
<1>1. NoResult \in Result
  BY SpecialRequests, BoundsAssumption DEF NoResult, Result
<1>2. 0 \in 0..(TicketModulus - 1)
  BY TicketAssumption
<1>3. /\ [c \in Conns |-> <<>>] \in [Conns -> Seq(Request)]
      /\ [c \in Conns |-> <<>>] \in [Conns -> Seq(Fragment)]
  BY EmptyType, Zenon
<1>4. outbound \in [Conns -> Seq(Request)] /\ inbound \in [Conns -> Seq(Fragment)]
  BY <1>3, Zenon DEF Init
<1>5. TypeOK
  <2>1. /\ pc \in [Goroutines -> {"idle", "check", "lock", "locked", "read", "readTail", "panic"}]
        /\ call \in [Goroutines -> Request]
        /\ result \in [Goroutines -> Result]
    BY <1>1, SpecialRequests DEF Init
  <2>2. connected \in BOOLEAN
    BY Zenon DEF Init
  <2>3. /\ mutex \in Goroutines \union {Nobody}
        /\ conn \in 0..dialled /\ ticketCounter \in 0..(TicketModulus - 1)
        /\ calls \in 0..MaxCalls /\ dialled \in 0..MaxConns
    BY <1>2, BoundsAssumption DEF Init
  <2>4. /\ peerOpen \subseteq 1..dialled /\ cancelled \subseteq Goroutines
        /\ tainted \subseteq Conns /\ broken \subseteq Conns
    BY DEF Init
  <2> QED
    BY <1>4, <2>1, <2>2, <2>3, <2>4 DEF TypeOK
<1>6. LockInv
  BY DEF Init, LockInv
<1> QED
  BY <1>5, <1>6

\* What Begin does to the types, whichever call begins.
LEMMA BeginType ==
  ASSUME TypeOK, LockInv, NEW g \in Goroutines, NEW op \in Ops,
         NEW t \in {NoTicket} \union Nat, NEW where \in {"check", "lock"},
         Begin(g, op, t, where), ticketCounter' \in 0..(TicketModulus - 1)
  PROVE  TypeOK' /\ LockInv'
<1>1. [id |-> calls + 1, op |-> op, ticket |-> t] \in Request
  BY BoundsAssumption DEF Begin, TypeOK, Request
<1>2. NoResult \in Result
  BY SpecialRequests, BoundsAssumption DEF NoResult, Result
<1>3. TypeOK'
  BY <1>1, <1>2, BoundsAssumption DEF Begin, TypeOK, wireVars, historyVars
<1>4. LockInv'
  BY DEF Begin, TypeOK, LockInv, wireVars, historyVars
<1> QED
  BY <1>3, <1>4

\* A return keeps the types of what it assigns, and the mutex is free for others.
LEMMA ReturnType ==
  ASSUME TypeOK, LockInv, NEW g \in Goroutines, NEW res \in Result, Return(g, res),
         pc[g] \in {"locked", "read", "readTail"}
  PROVE  /\ mutex' \in Goroutines \union {Nobody}
         /\ ticketCounter' \in 0..(TicketModulus - 1)
         /\ pc' \in [Goroutines -> {"idle", "check", "lock", "locked", "read",
                                    "readTail", "panic"}]
         /\ call' \in [Goroutines -> Request]
         /\ result' \in [Goroutines -> Result]
         /\ calls' \in 0..MaxCalls
         /\ cancelled' \subseteq Goroutines
         /\ LockInv'
<1>1. \A h \in Goroutines : pc'[h] \notin {"locked", "read", "readTail"}
  BY NobodyAssumption DEF Return, TypeOK, LockInv
<1> QED
  BY <1>1 DEF Return, Unlock, TypeOK, LockInv

LEMMA ResultTypes ==
  ASSUME TypeOK
  PROVE  /\ Failed \in Result
         /\ \A r \in Request : Answered(r) \in Result
BY SpecialRequests, BoundsAssumption DEF TypeOK, Failed, Answered, Result

LEMMA ConnType ==
  ASSUME TypeOK, conn # 0
  PROVE  conn \in Conns
BY BoundsAssumption DEF TypeOK, Conns

LEMMA TypeStep ==
  ASSUME TypeOK, LockInv, [Next]_vars
  PROVE  TypeOK' /\ LockInv'
<1> USE DEF clientVars, callVars, wireVars, historyVars
<1>1. CASE UNCHANGED vars
  BY <1>1 DEF vars, TypeOK, LockInv
<1>2. ASSUME NEW g \in Goroutines, Invoke(g)
      PROVE  TypeOK' /\ LockInv'
  <2>1. CASE Connect(g)
    BY <2>1, BeginType DEF Connect, Ops, TypeOK
  <2>2. CASE Close(g)
    BY <2>2, BeginType DEF Close, Ops, TypeOK
  <2>3. CASE SendData(g)
    BY <2>3, BeginType DEF SendData, Ops, SendOps, TypeOK
  <2>4. CASE SendMessage(g)
    BY <2>4, BeginType, TicketType DEF SendMessage, Ops, SendOps, TypeOK
  <2>5. CASE SendEnvelope(g)
    BY <2>5, BeginType, TicketAssumption DEF SendEnvelope, Ops, SendOps, TypeOK
  <2> QED
    BY <1>2, <2>1, <2>2, <2>3, <2>4, <2>5 DEF Invoke
<1>3. ASSUME NEW g \in Goroutines, AcquireMutex(g)
      PROVE  TypeOK' /\ LockInv'
  BY <1>3, NobodyAssumption DEF AcquireMutex, MutexFree, TypeOK, LockInv
<1>4. ASSUME NEW g \in Goroutines, Progress(g)
      PROVE  TypeOK' /\ LockInv'
  <2> USE ResultTypes, ConnType
  <2>1. CASE CheckConnected(g)
    BY <2>1 DEF CheckConnected, TypeOK, LockInv
  <2>2. CASE NothingToDo(g)
    BY <2>2, ReturnType DEF NothingToDo, Locked, TypeOK
  <2>3. CASE DialOk(g)
    <3>1. [outcome |-> "ok", reply |-> call[g], conn |-> dialled + 1] \in Result
      BY <2>3, BoundsAssumption DEF DialOk, TypeOK, Result
    <3> QED
      BY <2>3, <3>1, ReturnType, BoundsAssumption DEF DialOk, StoreConn, Locked, TypeOK
  <2>4. CASE DialFail(g)
    BY <2>4, ReturnType DEF DialFail, Locked, TypeOK
  <2>5. CASE CloseLocked(g)
    <3>1. /\ outbound' \in [Conns -> Seq(Request)]
          /\ inbound' \in [Conns -> Seq(Fragment)]
      <4>1. /\ <<>> \in Seq(Request) /\ <<>> \in Seq(Fragment)
            /\ outbound \in [Conns -> Seq(Request)] /\ inbound \in [Conns -> Seq(Fragment)]
        BY EmptyType DEF TypeOK
      <4>2. /\ outbound' = [c \in Conns |-> IF c = conn THEN <<>> ELSE outbound[c]]
            /\ inbound' = [c \in Conns |-> IF c = conn THEN <<>> ELSE inbound[c]]
        BY <2>5 DEF CloseLocked
      <4>3. ASSUME NEW c \in Conns
            PROVE  /\ (IF c = conn THEN <<>> ELSE outbound[c]) \in Seq(Request)
                   /\ (IF c = conn THEN <<>> ELSE inbound[c]) \in Seq(Fragment)
        <5>1. outbound[c] \in Seq(Request) /\ inbound[c] \in Seq(Fragment)
          BY <4>1
        <5> QED
          BY <4>1, <5>1, Zenon
      <4> QED
        BY <4>2, <4>3, Zenon
    <3>2. connected' \in BOOLEAN
      BY <2>5, Zenon DEF CloseLocked
    <3> QED
      BY <2>5, <3>1, <3>2, ReturnType, BoundsAssumption DEF CloseLocked, Locked, TypeOK
  <2>6. CASE EncodeFail(g)
    BY <2>6, ReturnType DEF EncodeFail, Locked, TypeOK
  <2>7. CASE WritePanic(g)
    BY <2>7 DEF WritePanic, Locked, TypeOK, LockInv
  <2>8. CASE WriteOk(g)
    BY <2>8 DEF WriteOk, Locked, TypeOK, LockInv
  <2>9. CASE WriteFail(g)
    <3>1. ASSUME NEW c \in Conns PROVE Append(outbound[c], Torn) \in Seq(Request)
      BY SpecialRequests DEF TypeOK
    <3>2. outbound' \in [Conns -> Seq(Request)]
      BY <2>9, <3>1 DEF WriteFail, TypeOK
    <3> QED
      BY <2>9, <3>2, ReturnType DEF WriteFail, Locked, TypeOK
  <2>10. CASE ReadHead(g)
    BY <2>10, SeqFacts DEF ReadHead, Consume, TypeOK, LockInv
  <2>11. CASE ReadTail(g)
    <3>1. conn \in Conns /\ inbound[conn] \in Seq(Fragment) /\ inbound[conn] # <<>>
      BY <2>11 DEF ReadTail, TypeOK, LockInv
    <3>2. Head(inbound[conn]) \in Fragment /\ Tail(inbound[conn]) \in Seq(Fragment)
      BY <3>1, SeqFacts
    <3>3. inbound' \in [Conns -> Seq(Fragment)]
      BY <2>11, <3>1, <3>2 DEF ReadTail, Consume, TypeOK
    <3>4. PICK res \in Result : Return(g, res)
      BY <2>11, <3>2 DEF ReadTail, Deliver, Fragment
    <3> QED
      BY <2>11, <3>3, <3>4, ReturnType DEF ReadTail, TypeOK
  <2>12. CASE ReadGarbage(g)
    BY <2>12, ReturnType, LeftoversType DEF ReadGarbage, MidFrame, TypeOK, LockInv
  <2>13. CASE ReadRawResponse(g)
    <3>1. conn \in Conns /\ inbound[conn] \in Seq(Fragment) /\ inbound[conn] # <<>>
      BY <2>13 DEF ReadRawResponse, MidFrame, TypeOK, LockInv
    <3>2. Head(inbound[conn]) \in Fragment /\ Tail(inbound[conn]) \in Seq(Fragment)
      BY <3>1, SeqFacts
    <3>3. inbound' \in [Conns -> Seq(Fragment)]
      BY <2>13, <3>1, <3>2, JunkType DEF ReadRawResponse, TypeOK
    <3>4. PICK res \in Result : Return(g, res)
      BY <2>13, <3>2 DEF ReadRawResponse, Deliver, Fragment
    <3> QED
      BY <2>13, <3>3, <3>4, ReturnType DEF ReadRawResponse, MidFrame, TypeOK
  <2>14. CASE ReadTimeout(g)
    BY <2>14, ReturnType DEF ReadTimeout, TypeOK, LockInv
  <2>15. CASE ReadEOF(g)
    BY <2>15, ReturnType DEF ReadEOF, TypeOK, LockInv
  <2> QED
    BY <1>4, <2>1, <2>2, <2>3, <2>4, <2>5, <2>6, <2>7, <2>8, <2>9, <2>10, <2>11,
       <2>12, <2>13, <2>14, <2>15 DEF Progress
<1>5. ASSUME NEW c \in Conns, ServerReply(c)
      PROVE  TypeOK' /\ LockInv'
  BY <1>5, SeqFacts, ReplyType DEF ServerReply, TypeOK, LockInv
<1>6. ASSUME NEW c \in Conns, PeerClose(c)
      PROVE  TypeOK' /\ LockInv'
  <2>1. inbound' \in [Conns -> Seq(Fragment)]
    BY <1>6, EmptyType DEF PeerClose, TypeOK
  <2> QED
    BY <1>6, <2>1 DEF PeerClose, TypeOK, LockInv
<1>7. ASSUME NEW g \in Goroutines, CancelContext(g)
      PROVE  TypeOK' /\ LockInv'
  BY <1>7 DEF CancelContext, TypeOK, LockInv
<1> QED
  BY <1>1, <1>2, <1>3, <1>4, <1>5, <1>6, <1>7 DEF Next, Environment, Done

\* Every variable keeps its type, and only the holder of the mutex is in an exchange.
THEOREM TypeCorrect == Spec => [](TypeOK /\ LockInv)
<1>1. Init => TypeOK /\ LockInv
  BY TypeInit
<1>2. (TypeOK /\ LockInv) /\ [Next]_vars => (TypeOK /\ LockInv)'
  BY TypeStep
<1> QED
  BY <1>1, <1>2, PTL DEF Spec

-----------------------------------------------------------------------------
(* The requests that are alive.                                            *)

LEMMA ElemsFacts ==
  ASSUME NEW S, NEW s \in Seq(S), s # <<>>
  PROVE  Head(s) \in Elems(s) /\ Elems(Tail(s)) \subseteq Elems(s)
BY DEF Elems

LEMMA ElemsAppend ==
  ASSUME NEW S, NEW s \in Seq(S), NEW e
  PROVE  Elems(Append(s, e)) \subseteq Elems(s) \union {e}
BY DEF Elems

LEMMA ElemsConcat ==
  ASSUME NEW S, NEW s \in Seq(S), NEW t \in Seq(S)
  PROVE  Elems(s \o t) \subseteq Elems(s) \union Elems(t)
BY DEF Elems

LEMMA ElemsEmpty == Elems(<<>>) = {}
BY DEF Elems

LEMMA ElemsOne == \A e : Elems(<<e>>) = {e}
BY DEF Elems

LEMMA ElemsReply ==
  ASSUME NEW r, NEW k, NEW f \in Elems(Reply(r, k))
  PROVE  f.req = r
BY DEF Elems, Reply

LEMMA ElemsJunk ==
  ASSUME NEW s \in Seq(Fragment), s # <<>>, NEW f \in Elems(<<Junk(Head(s))>> \o Tail(s))
  PROVE  \E e \in Elems(s) : f.req = e.req
<1>1. /\ Head(s) \in Fragment /\ Tail(s) \in Seq(Fragment)
      /\ Head(s) \in Elems(s) /\ Elems(Tail(s)) \subseteq Elems(s)
  BY SeqFacts, ElemsFacts
<1>2. <<Junk(Head(s))>> \in Seq(Fragment)
  BY <1>1, JunkType
<1>3. f \in Elems(<<Junk(Head(s))>>) \union Elems(Tail(s))
  BY <1>1, <1>2, ElemsConcat
<1>4. Junk(Head(s)).req = Head(s).req
  BY <1>1 DEF Junk, Fragment
<1> QED
  BY <1>1, <1>3, <1>4, ElemsOne

LEMMA ElemsLeftovers ==
  ASSUME NEW s \in Seq(Fragment), s # <<>>, NEW rest \in Leftovers(s), NEW f \in Elems(rest)
  PROVE  \E e \in Elems(s) : f.req = e.req
<1>1. Tail(s) \in Seq(Fragment) /\ Elems(Tail(s)) \subseteq Elems(s)
  BY SeqFacts, ElemsFacts
<1>2. Tail(s) # <<>> => Elems(Tail(Tail(s))) \subseteq Elems(s)
  BY <1>1, ElemsFacts
<1> QED
  BY <1>1, <1>2, ElemsJunk DEF Leftovers

\* A bound on Live', part by part.
LEMMA LiveBound ==
  ASSUME NEW S,
         \A g \in Goroutines : call'[g] \in S,
         \A c \in Conns : Elems(outbound'[c]) \subseteq S,
         \A c \in Conns : \A f \in Elems(inbound'[c]) : f.req \in S
  PROVE  Live' \subseteq S
<1> SUFFICES ASSUME NEW r \in Live' PROVE r \in S
  OBVIOUS
<1>1. CASE \E g \in Goroutines : r = call'[g]
  BY <1>1
<1>2. CASE \E c \in Conns : r \in Elems(outbound'[c])
  BY <1>2
<1>3. CASE \E c \in Conns : \E f \in Elems(inbound'[c]) : r = f.req
  BY <1>3
<1>4. \/ \E g \in Goroutines : r = call'[g]
      \/ \E c \in Conns : r \in Elems(outbound'[c])
      \/ \E f \in UNION {Elems(inbound'[c]) : c \in Conns} : r = f.req
  BY Zenon DEF Live, Elems
<1> QED
  BY <1>1, <1>2, <1>3, <1>4, Zenon

LEMMA LiveParts ==
  /\ \A g \in Goroutines : call[g] \in Live
  /\ \A c \in Conns : Elems(outbound[c]) \subseteq Live
  /\ \A c \in Conns : \A f \in Elems(inbound[c]) : f.req \in Live
<1>1. \A g \in Goroutines : call[g] \in Live
  BY Zenon DEF Live
<1>2. \A c \in Conns : Elems(outbound[c]) \subseteq Live
  BY Zenon DEF Live
<1>3. ASSUME NEW c \in Conns, NEW f \in Elems(inbound[c]) PROVE f.req \in Live
  <2>1. f \in UNION {Elems(inbound[d]) : d \in Conns}
    BY Zenon
  <2> QED
    BY <2>1, Zenon DEF Live
<1> QED
  BY <1>1, <1>2, <1>3

-----------------------------------------------------------------------------
(* Tickets.                                                                *)

\* Outside an invocation the only request that appears is one cut short.
LEMMA LiveStep ==
  ASSUME TypeOK, LockInv, Next, \A g \in Goroutines : ~Invoke(g)
  PROVE  /\ Live' \subseteq Live \union {Torn}
         /\ UNCHANGED <<call, calls, ticketCounter>>
<1> USE DEF clientVars, callVars, wireVars, historyVars
<1> DEFINE S == Live \union {Torn}
<1>1. CASE UNCHANGED <<call, calls, ticketCounter, outbound, inbound>>
  <2>1. Live' = Live
    BY <1>1 DEF Live, Elems
  <2> QED
    BY <1>1, <2>1
<1>2. ASSUME UNCHANGED <<call, calls, ticketCounter>>,
             \A c \in Conns : Elems(outbound'[c]) \subseteq S,
             \A c \in Conns : \A f \in Elems(inbound'[c]) : f.req \in S
      PROVE  Live' \subseteq S
  <2>1. \A g \in Goroutines : call'[g] \in S
    BY <1>2, LiveParts
  <2> HIDE DEF S
  <2> QED
    BY <1>2, <2>1, LiveBound
<1>3. ASSUME NEW g \in Goroutines, Progress(g)
      PROVE  Live' \subseteq S /\ UNCHANGED <<call, calls, ticketCounter>>
  <2>1. CASE CloseLocked(g)
    <3>1. \A c \in Conns : Elems(outbound'[c]) \subseteq S
      BY <2>1, LiveParts, ElemsEmpty DEF CloseLocked
    <3>2. \A c \in Conns : \A f \in Elems(inbound'[c]) : f.req \in S
      BY <2>1, LiveParts, ElemsEmpty DEF CloseLocked
    <3> QED
      BY <1>2, <2>1, <3>1, <3>2 DEF CloseLocked, Return
  <2>2. CASE WriteOk(g)
    <3>1. \A c \in Conns : Elems(outbound'[c]) \subseteq S
      BY <2>2, LiveParts, ElemsAppend DEF WriteOk, TypeOK
    <3>2. \A c \in Conns : \A f \in Elems(inbound'[c]) : f.req \in S
      BY <2>2, LiveParts DEF WriteOk
    <3> QED
      BY <1>2, <2>2, <3>1, <3>2 DEF WriteOk
  <2>3. CASE WriteFail(g)
    <3>1. ASSUME NEW c \in Conns PROVE Elems(outbound'[c]) \subseteq S
      <4>1. outbound'[c] \in {outbound[c], Append(outbound[c], Torn)}
        BY <2>3 DEF WriteFail, TypeOK
      <4>2. Elems(Append(outbound[c], Torn)) \subseteq Elems(outbound[c]) \union {Torn}
        BY ElemsAppend DEF TypeOK
      <4> QED
        BY <4>1, <4>2, LiveParts
    <3>2. \A c \in Conns : \A f \in Elems(inbound'[c]) : f.req \in S
      BY <2>3, LiveParts DEF WriteFail
    <3> QED
      BY <1>2, <2>3, <3>1, <3>2 DEF WriteFail, Return
  <2>4. CASE ReadHead(g)
    <3>1. \A c \in Conns : \A f \in Elems(inbound'[c]) : f.req \in S
      BY <2>4, LiveParts, ElemsFacts DEF ReadHead, Consume, TypeOK
    <3> QED
      BY <1>2, <2>4, <3>1, LiveParts DEF ReadHead
  <2>5. CASE ReadTail(g)
    <3>1. \A c \in Conns : \A f \in Elems(inbound'[c]) : f.req \in S
      BY <2>5, LiveParts, ElemsFacts DEF ReadTail, Consume, TypeOK
    <3> QED
      BY <1>2, <2>5, <3>1, LiveParts DEF ReadTail, Deliver, Return
  <2>6. CASE ReadGarbage(g)
    <3>1. \A c \in Conns : \A f \in Elems(inbound'[c]) : f.req \in S
      BY <2>6, LiveParts, ElemsLeftovers DEF ReadGarbage, MidFrame, TypeOK
    <3> QED
      BY <1>2, <2>6, <3>1, LiveParts DEF ReadGarbage, Return
  <2>7. CASE ReadRawResponse(g)
    <3>1. ASSUME NEW c \in Conns, NEW f \in Elems(inbound'[c]) PROVE f.req \in S
      <4>1. CASE c = conn
        <5>1. inbound[c] \in Seq(Fragment) /\ inbound[c] # <<>>
          BY <2>7, <4>1 DEF ReadRawResponse, MidFrame, TypeOK
        <5>2. inbound'[c] = <<Junk(Head(inbound[c]))>> \o Tail(inbound[c])
          BY <2>7, <4>1 DEF ReadRawResponse, TypeOK
        <5> QED
          BY <5>1, <5>2, ElemsJunk, LiveParts
      <4>2. CASE c # conn
        BY <2>7, <4>2, LiveParts DEF ReadRawResponse, TypeOK
      <4> QED
        BY <4>1, <4>2
    <3> QED
      BY <1>2, <2>7, <3>1, LiveParts DEF ReadRawResponse, Deliver, Return
  <2>8. CASE \/ CheckConnected(g) \/ NothingToDo(g) \/ DialOk(g) \/ DialFail(g)
            \/ EncodeFail(g) \/ WritePanic(g) \/ ReadTimeout(g) \/ ReadEOF(g)
    BY <1>1, <2>8 DEF CheckConnected, NothingToDo, DialOk, DialFail, EncodeFail,
                      WritePanic, ReadTimeout, ReadEOF, Return
  <2> QED
    BY <1>3, <2>1, <2>2, <2>3, <2>4, <2>5, <2>6, <2>7, <2>8 DEF Progress
<1>4. ASSUME NEW c \in Conns, ServerReply(c)
      PROVE  Live' \subseteq S /\ UNCHANGED <<call, calls, ticketCounter>>
  <2>1. /\ outbound[c] \in Seq(Request) /\ outbound[c] # <<>>
        /\ Head(outbound[c]) \in Request /\ inbound[c] \in Seq(Fragment)
    BY <1>4, SeqFacts DEF ServerReply, TypeOK
  <2>2. PICK k \in Kinds :
          inbound' = [inbound EXCEPT ![c] = @ \o Reply(Head(outbound[c]), k)]
    BY <1>4 DEF ServerReply
  <2>3. \A d \in Conns : Elems(outbound'[d]) \subseteq S
    BY <1>4, <2>1, LiveParts, ElemsFacts DEF ServerReply, TypeOK
  <2>4. Head(outbound[c]) \in S
    BY <2>1, LiveParts, ElemsFacts
  <2>5. \A f \in Elems(inbound'[c]) : f.req \in S
    <3>1. inbound'[c] = inbound[c] \o Reply(Head(outbound[c]), k)
      BY <2>2 DEF TypeOK
    <3>2. Elems(inbound'[c]) \subseteq Elems(inbound[c]) \union Elems(Reply(Head(outbound[c]), k))
      BY <2>1, <3>1, ReplyType, ElemsConcat
    <3> QED
      BY <2>4, <3>2, LiveParts, ElemsReply
  <2>6. \A d \in Conns : \A f \in Elems(inbound'[d]) : f.req \in S
    BY <2>2, <2>5, LiveParts DEF TypeOK
  <2> QED
    BY <1>2, <1>4, <2>3, <2>6 DEF ServerReply
<1>5. ASSUME NEW c \in Conns, PeerClose(c)
      PROVE  Live' \subseteq S /\ UNCHANGED <<call, calls, ticketCounter>>
  <2>1. \A d \in Conns : \A f \in Elems(inbound'[d]) : f.req \in S
    BY <1>5, LiveParts, ElemsEmpty DEF PeerClose, TypeOK
  <2> QED
    BY <1>2, <1>5, <2>1, LiveParts DEF PeerClose
<1>6. ASSUME NEW g \in Goroutines, AcquireMutex(g) \/ CancelContext(g)
      PROVE  Live' \subseteq S /\ UNCHANGED <<call, calls, ticketCounter>>
  BY <1>1, <1>6 DEF AcquireMutex, CancelContext
<1>7. CASE Done
  BY <1>1, <1>7 DEF Done, vars
<1> QED
  BY <1>3, <1>4, <1>5, <1>6, <1>7 DEF Next, Environment

LEMMA SmallMod ==
  ASSUME NEW b \in Nat \ {0}, NEW a \in 0..(b - 1)
  PROVE  a % b = a
OBVIOUS

LEMMA TornTicket == Torn.ticket = NoTicket /\ Torn.op # "message" /\ NoTicket = -1
BY DEF Torn, NoTicket

LEMMA TicketInit == Init => TicketInv
<1> SUFFICES ASSUME Init PROVE TicketInv
  OBVIOUS
<1>1. \A r \in Live : r = NoRequest
  BY ElemsEmpty DEF Init, Live
<1> QED
  BY <1>1 DEF Init, TicketInv, NoRequest, NoTicket

LEMMA BeginLive ==
  ASSUME TypeOK, NEW g \in Goroutines, NEW op, NEW t, NEW where, Begin(g, op, t, where)
  PROVE  Live' \subseteq Live \union {[id |-> calls + 1, op |-> op, ticket |-> t]}
<1> DEFINE r == [id |-> calls + 1, op |-> op, ticket |-> t]
           S == Live \union {r}
<1>1. \A h \in Goroutines : call'[h] \in S
  BY LiveParts DEF Begin, TypeOK
<1>2. /\ \A c \in Conns : Elems(outbound'[c]) \subseteq S
      /\ \A c \in Conns : \A f \in Elems(inbound'[c]) : f.req \in S
  BY LiveParts DEF Begin, wireVars
<1> HIDE DEF S
<1>3. Live' \subseteq S
  BY <1>1, <1>2, LiveBound
<1> QED
  BY <1>3 DEF S

LEMMA TicketStep ==
  ASSUME TypeOK, LockInv, TicketInv, [Next]_vars
  PROVE  TicketInv'
<1> SUFFICES ASSUME TicketsDistinct PROVE TicketInv'
  BY DEF TicketInv, TicketsDistinct
<1> USE DEF TicketInv, TicketsDistinct
<1>1. CASE UNCHANGED vars
  <2>1. Live' = Live /\ UNCHANGED <<calls, ticketCounter>>
    BY <1>1 DEF Live, Elems, vars, clientVars, callVars, wireVars
  <2> QED
    BY <2>1
<1>2. CASE Next /\ \A g \in Goroutines : ~Invoke(g)
  <2>1. Live' \subseteq Live \union {Torn} /\ UNCHANGED <<calls, ticketCounter>>
    BY <1>2, LiveStep
  <2> QED
    BY <2>1, TornTicket, TicketAssumption DEF TypeOK
<1>3. ASSUME NEW g \in Goroutines, Invoke(g)
      PROVE  TicketInv'
  <2>a. \A u \in UserTickets : u \in Nat /\ u \notin 0..MaxCalls
    BY TicketAssumption
  <2>b. /\ ticketCounter \in Nat /\ calls \in Nat /\ MaxCalls \in Nat
        /\ ticketCounter <= calls /\ calls <= MaxCalls
    BY BoundsAssumption, TicketAssumption DEF TypeOK
  <2>1. ASSUME NEW op, NEW t \in UserTickets \union {NoTicket}, NEW where,
               op # "message", Begin(g, op, t, where), UNCHANGED ticketCounter
        PROVE  TicketInv'
    <3> DEFINE r == [id |-> calls + 1, op |-> op, ticket |-> t]
    <3>1. Live' \subseteq Live \union {r}
      BY <2>1, BeginLive
    <3>2. calls' = calls + 1 /\ ticketCounter' = ticketCounter
      BY <2>1 DEF Begin
    <3>3. \A s \in Live : s.op = "message" => s.ticket # r.ticket
      <4>1. r.ticket \notin 1..ticketCounter
        BY <2>1, <2>a, <2>b, TornTicket
      <4> HIDE DEF r
      <4> QED
        BY <4>1
    <3> QED
      BY <2>1, <3>1, <3>2, <3>3, BoundsAssumption, TicketAssumption DEF TypeOK
  <2>2. CASE SendMessage(g)
    <3> DEFINE r == [id |-> calls + 1, op |-> "message", ticket |-> nextTicketID]
    <3>1. nextTicketID = ticketCounter + 1 /\ ticketCounter + 1 \in 1..MaxCalls
      <4>1. calls < MaxCalls
        BY <2>2 DEF SendMessage, Begin
      <4>2. TicketModulus \in Nat \ {0} /\ ticketCounter + 1 \in 0..(TicketModulus - 1)
        BY <2>b, <4>1, TicketAssumption
      <4> QED
        BY <2>b, <4>1, <4>2, SmallMod DEF nextTicketID
    <3>2. Live' \subseteq Live \union {r}
      BY <2>2, BeginLive DEF SendMessage
    <3>3. calls' = calls + 1 /\ ticketCounter' = ticketCounter + 1
      BY <2>2, <3>1 DEF SendMessage, Begin
    <3>4. \A s \in Live : s.ticket # r.ticket
      <4>1. r.ticket \notin (1..ticketCounter) \union UserTickets \union {NoTicket}
        BY <2>a, <2>b, <3>1, TornTicket
      <4> HIDE DEF r
      <4> QED
        BY <4>1
    <3>5. r.ticket \in 1..ticketCounter'
      BY <3>1, <3>3 DEF TypeOK
    <3>6. \A s \in Live : s.ticket \in 1..ticketCounter => s.ticket \in 1..ticketCounter'
      BY <3>3 DEF TypeOK
    <3> QED
      BY <3>2, <3>3, <3>4, <3>5, <3>6, BoundsAssumption DEF TypeOK
  <2> QED
    BY <1>3, <2>1, <2>2 DEF Invoke, Connect, Close, SendData, SendEnvelope
<1> QED
  BY <1>1, <1>2, <1>3

-----------------------------------------------------------------------------
(* SendMessage returns its own response.                                   *)

LEMMA ReturnOwn ==
  ASSUME TypeOK, OwnAnswer, NEW g \in Goroutines, NEW res, Return(g, res),
         TicketsDistinct /\ res.outcome = "ok" /\ call[g].op = "message" => res.reply = call[g]
  PROVE  OwnAnswer'
BY DEF Return, OwnAnswer, Got, TicketsDistinct, TypeOK

\* The response that is accepted is to a live request with the caller's ticket,
\* which can only be the caller's.
LEMMA DeliverOwn ==
  ASSUME TypeOK, TicketInv, OwnAnswer, NEW g \in Goroutines,
         inbound[conn] # <<>>, conn \in Conns, Deliver(g, Head(inbound[conn]))
  PROVE  OwnAnswer'
<1> DEFINE f == Head(inbound[conn])
<1>1. f.req \in Live /\ call[g] \in Live
  BY LiveParts, ElemsFacts DEF TypeOK
<1>2. /\ Failed.outcome = "error"
      /\ \A r : Answered(r).reply = r
  BY DEF Failed, Answered
<1>3. CASE Accepts(g, f)
  <2>1. TicketsDistinct /\ call[g].op = "message" => f.req = call[g]
    BY <1>1, <1>3 DEF Accepts, TicketInv
  <2>2. Return(g, Answered(f.req))
    BY <1>3 DEF Deliver
  <2> QED
    BY <1>2, <2>1, <2>2, ReturnOwn
<1>4. CASE ~Accepts(g, f)
  BY <1>2, <1>4, ReturnOwn DEF Deliver
<1> QED
  BY <1>3, <1>4

LEMMA OwnAnswerStep ==
  ASSUME TypeOK, LockInv, TicketInv, OwnAnswer, [Next]_vars
  PROVE  OwnAnswer'
<1> USE DEF clientVars, callVars, wireVars, historyVars
<1>1. CASE UNCHANGED <<call, result>>
  BY <1>1 DEF OwnAnswer, Got, TicketsDistinct
<1>2. ASSUME NEW g \in Goroutines, Invoke(g)
      PROVE  OwnAnswer'
  <2>1. PICK op, t, where : Begin(g, op, t, where)
    BY <1>2 DEF Invoke, Connect, Close, SendData, SendMessage, SendEnvelope
  <2> QED
    BY <2>1 DEF Begin, NoResult, OwnAnswer, Got, TicketsDistinct, TypeOK
<1>3. ASSUME NEW g \in Goroutines, Progress(g)
      PROVE  OwnAnswer'
  <2>1. Failed.outcome = "error" /\ \A r : Answered(r).reply = r
    BY DEF Failed, Answered
  <2>2. CASE CheckConnected(g)
    BY <2>1, <2>2 DEF CheckConnected, OwnAnswer, Got, TicketsDistinct, TypeOK
  <2>3. CASE NothingToDo(g)
    BY <2>1, <2>3, ReturnOwn DEF NothingToDo
  <2>4. CASE DialOk(g)
    BY <2>4, ReturnOwn DEF DialOk
  <2>5. CASE CloseLocked(g)
    BY <2>1, <2>5, ReturnOwn DEF CloseLocked
  <2>6. CASE DialFail(g) \/ EncodeFail(g) \/ WriteFail(g)
    BY <2>1, <2>6, ReturnOwn DEF DialFail, EncodeFail, WriteFail
  <2>7. CASE ReadGarbage(g) \/ ReadTimeout(g) \/ ReadEOF(g)
    BY <2>1, <2>7, ReturnOwn DEF ReadGarbage, ReadTimeout, ReadEOF
  <2>8. CASE ReadTail(g)
    BY <2>8, DeliverOwn, ConnType DEF ReadTail, LockInv
  <2>9. CASE ReadRawResponse(g)
    BY <2>9, DeliverOwn, ConnType DEF ReadRawResponse, MidFrame, LockInv
  <2>10. CASE WritePanic(g) \/ WriteOk(g) \/ ReadHead(g)
    BY <1>1, <2>10 DEF WritePanic, WriteOk, ReadHead
  <2> QED
    BY <1>3, <2>2, <2>3, <2>4, <2>5, <2>6, <2>7, <2>8, <2>9, <2>10 DEF Progress
<1>4. ASSUME NEW g \in Goroutines, AcquireMutex(g) \/ CancelContext(g)
      PROVE  OwnAnswer'
  BY <1>1, <1>4 DEF AcquireMutex, CancelContext
<1>5. ASSUME NEW c \in Conns, ServerReply(c) \/ PeerClose(c)
      PROVE  OwnAnswer'
  BY <1>1, <1>5 DEF ServerReply, PeerClose
<1>6. CASE UNCHANGED vars
  BY <1>1, <1>6 DEF vars
<1> QED
  BY <1>2, <1>3, <1>4, <1>5, <1>6 DEF Next, Environment, Done

\* For any number of goroutines, calls and connections, and any interleaving with
\* timeouts and late replies: SendMessage returns the response to its own message.
THEOREM SendMessageOwnAnswer == Spec => []OwnAnswer
<1> DEFINE Inv == TypeOK /\ LockInv /\ TicketInv /\ OwnAnswer
<1>1. Init => Inv
  <2>1. Init => OwnAnswer
    BY DEF Init, OwnAnswer, Got, NoResult
  <2> QED
    BY <2>1, TypeInit, TicketInit
<1>2. Inv /\ [Next]_vars => Inv'
  BY TypeStep, TicketStep, OwnAnswerStep
<1> QED
  BY <1>1, <1>2, PTL DEF Spec

-----------------------------------------------------------------------------
(* A connection no exchange has failed on.                                 *)

\* Goroutine h is not reading, or reads on in the same call.
Steady(h) ==
  pc[h] \in {"read", "readTail"} \/ pc'[h] \in {"read", "readTail"}
    => pc'[h] = pc[h] /\ call'[h] = call[h]

LEMMA ShortSeqs ==
  /\ \A e : Append(<<>>, e) = <<e>> /\ Tail(<<e>>) = <<>>
  /\ \A d, e : Tail(<<d, e>>) = <<e>>
OBVIOUS

\* Between two steps of g in its exchange nobody else reads.
LEMMA OneReader ==
  ASSUME LockInv, NEW g \in Goroutines, pc[g] \in {"locked", "read", "readTail"}
  PROVE  \A h \in Goroutines \ {g} : ~Reading(h)
BY DEF LockInv, Reading

LEMMA StreamStep ==
  ASSUME TypeOK, LockInv, TypeOK', LockInv', StreamInv, [Next]_vars
  PROVE  StreamInv'
<1> USE DEF clientVars, callVars, wireVars, historyVars
\* A step that leaves alone what StreamInv is about.
<1>1. ASSUME UNCHANGED <<conn, outbound, inbound, dialled>>, tainted \subseteq tainted',
             \A h \in Goroutines : Steady(h)
      PROVE  StreamInv'
  <2>1. \A c \in Conns \union {conn} : Quiet(c) => Quiet(c)'
    BY <1>1 DEF Quiet
  <2>2. ASSUME NEW h \in Goroutines, call'[h] = call[h]
        PROVE  /\ Pending(h, conn) => Pending(h, conn)'
               /\ Partial(h, conn) => Partial(h, conn)'
    BY <1>1, <2>2 DEF Pending, Partial
  <2>3. CASE conn # 0 /\ conn \notin tainted
    <3>1. ASSUME \A h \in Goroutines : pc'[h] \notin {"read", "readTail"}
          PROVE  Quiet(conn)'
      BY <1>1, <2>1, <2>3, <3>1 DEF StreamInv, Reading, Steady
    <3>2. ASSUME NEW h \in Goroutines, pc'[h] = "read"
          PROVE  Pending(h, conn)' \/ Quiet(conn)'
      BY <1>1, <2>1, <2>2, <2>3, <3>2 DEF StreamInv, Steady
    <3>3. ASSUME NEW h \in Goroutines, pc'[h] = "readTail"
          PROVE  Partial(h, conn)' \/ Quiet(conn)'
      BY <1>1, <2>1, <2>2, <2>3, <3>3 DEF StreamInv, Steady
    <3> QED
      BY <1>1, <2>1, <3>1, <3>2, <3>3 DEF StreamInv, Reading
  <2>4. CASE conn = 0 \/ conn \in tainted
    BY <1>1, <2>1, <2>4 DEF StreamInv
  <2> QED
    BY <2>3, <2>4
\* A return that gives the connection up.
<1>2. ASSUME NEW g \in Goroutines, pc'[g] = "idle", pc[g] \in {"locked", "read", "readTail"},
             conn \in tainted', UNCHANGED <<conn, dialled>>, conn # 0,
             \A c \in Conns : c # conn => outbound'[c] = outbound[c] /\ inbound'[c] = inbound[c]
      PROVE  StreamInv'
  BY <1>2 DEF StreamInv, Quiet, TypeOK
<1>3. ASSUME NEW g \in Goroutines, Invoke(g) \/ AcquireMutex(g) \/ CancelContext(g)
      PROVE  StreamInv'
  <2>1. \A h \in Goroutines : Steady(h)
    BY <1>3 DEF Invoke, Connect, Close, SendData, SendMessage, SendEnvelope, Begin,
                AcquireMutex, CancelContext, Steady, TypeOK
  <2> QED
    BY <1>1, <1>3, <2>1 DEF Invoke, Connect, Close, SendData, SendMessage, SendEnvelope,
                            Begin, AcquireMutex, CancelContext
<1>4. ASSUME NEW g \in Goroutines, Progress(g)
      PROVE  StreamInv'
  <2>1. CASE CheckConnected(g) \/ NothingToDo(g) \/ DialFail(g) \/ EncodeFail(g)
             \/ WritePanic(g)
    <3>1. \A h \in Goroutines : Steady(h)
      BY <2>1 DEF CheckConnected, NothingToDo, DialFail, EncodeFail, WritePanic,
                  Locked, Return, Steady, TypeOK
    <3> QED
      BY <1>1, <2>1, <3>1 DEF CheckConnected, NothingToDo, DialFail, EncodeFail, WritePanic
  <2>2. CASE DialOk(g)
    <3>1. conn' = dialled + 1 /\ dialled' = dialled + 1 /\ conn' \in Conns
      BY <2>2, BoundsAssumption DEF DialOk, StoreConn, Conns, TypeOK
    <3>2. UNCHANGED <<outbound, inbound>> /\ Quiet(conn')
      BY <2>2, <3>1 DEF DialOk, StreamInv, TypeOK
    <3>3. \A h \in Goroutines : ~Reading(h)'
      BY <2>2, OneReader DEF DialOk, Locked, Return, Reading, TypeOK
    <3> QED
      BY <3>1, <3>2, <3>3 DEF StreamInv, Quiet, Reading, TypeOK, Conns
  <2>3. CASE CloseLocked(g)
    <3>1. conn' = 0 /\ dialled' = dialled
      BY <2>3 DEF CloseLocked
    <3>2. \A c \in Conns : Quiet(c) => Quiet(c)'
      BY <2>3 DEF CloseLocked, Quiet
    <3> QED
      BY <3>1, <3>2 DEF StreamInv
  <2>4. CASE WriteOk(g)
    <3>1. conn \in Conns /\ outbound'[conn] = Append(outbound[conn], call[g])
      BY <2>4, ConnType DEF WriteOk, TypeOK
    <3>2. conn \notin tainted => outbound'[conn] = <<call[g]>> /\ inbound'[conn] = <<>>
      <4>1. \A h \in Goroutines : ~Reading(h)
        BY <2>4, OneReader DEF WriteOk, Locked, Reading
      <4>2. conn \notin tainted => Quiet(conn)
        BY <2>4, <4>1 DEF WriteOk, StreamInv
      <4> QED
        BY <2>4, <3>1, <4>2, ShortSeqs DEF WriteOk, Quiet
    <3>3. \A h \in Goroutines : Reading(h)' => h = g
      BY <2>4, OneReader DEF WriteOk, Locked, Reading, TypeOK
    <3>4. \A c \in Conns : c > dialled => Quiet(c)'
      BY <2>4 DEF WriteOk, StreamInv, Quiet, TypeOK
    <3>5. pc'[g] = "read" /\ call' = call
      BY <2>4 DEF WriteOk, TypeOK
    <3> QED
      BY <2>4, <3>2, <3>3, <3>4, <3>5 DEF WriteOk, StreamInv, Pending, Reading
  <2>5. CASE WriteFail(g)
    <3>1. \A c \in Conns : c # conn => outbound'[c] = outbound[c]
      BY <2>5 DEF WriteFail, TypeOK
    <3> QED
      BY <1>2, <2>5, <3>1 DEF WriteFail, Locked, Return, TypeOK
  <2>6. CASE ReadHead(g)
    <3>1. conn \in Conns /\ conn # 0 /\ inbound'[conn] = Tail(inbound[conn])
      BY <2>6, ConnType DEF ReadHead, Consume, LockInv, TypeOK
    <3>2. conn \notin tainted => Partial(g, conn)'
      <4>1. conn \notin tainted => Pending(g, conn) /\ inbound[conn] # <<>>
        BY <2>6, <3>1 DEF ReadHead, StreamInv, Quiet
      <4> QED
        <5>1. ASSUME NEW k \in Kinds, inbound[conn] = Reply(call[g], k)
              PROVE  inbound'[conn] = << [req |-> call[g], kind |-> k, part |-> "tail"] >>
          BY <3>1, <5>1, ShortSeqs DEF Reply
        <5> QED
          BY <2>6, <4>1, <5>1 DEF ReadHead, Pending, Partial
    <3>3. \A h \in Goroutines : Reading(h)' => h = g
      BY <2>6, OneReader DEF ReadHead, Reading, TypeOK
    <3>4. \A c \in Conns : c > dialled => Quiet(c)'
      BY <2>6, <3>1 DEF ReadHead, Consume, StreamInv, Quiet, TypeOK
    <3>5. pc'[g] = "readTail"
      BY <2>6 DEF ReadHead, TypeOK
    <3> QED
      BY <2>6, <3>2, <3>3, <3>4, <3>5 DEF ReadHead, StreamInv, Reading
  <2>7. CASE ReadTail(g)
    <3>1. conn \in Conns /\ conn # 0 /\ inbound'[conn] = Tail(inbound[conn])
      BY <2>7, ConnType DEF ReadTail, Consume, LockInv, TypeOK
    <3>2. conn \notin tainted => Quiet(conn)'
      <4>1. conn \notin tainted => Partial(g, conn)
        BY <2>7, <3>1 DEF ReadTail, StreamInv, Quiet
      <4> QED
        BY <2>7, <3>1, <4>1, ShortSeqs DEF ReadTail, Partial, Quiet
    <3>3. \A h \in Goroutines : ~Reading(h)'
      BY <2>7, OneReader DEF ReadTail, Deliver, Return, Reading, TypeOK
    <3>4. \A c \in Conns : c > dialled => Quiet(c)'
      BY <2>7, <3>1 DEF ReadTail, Consume, StreamInv, Quiet, TypeOK
    <3> QED
      BY <2>7, <3>2, <3>3, <3>4 DEF ReadTail, StreamInv, Reading
  <2>8. CASE ReadGarbage(g)
    <3>1. \A c \in Conns : c # conn => inbound'[c] = inbound[c]
      BY <2>8 DEF ReadGarbage, TypeOK
    <3> QED
      BY <1>2, <2>8, <3>1 DEF ReadGarbage, MidFrame, Return, LockInv, TypeOK
  <2>9. CASE ReadRawResponse(g)
    <3>1. conn \in Conns /\ conn # 0 /\ pc[g] = "read" /\ conn \in tainted
      <4>1. conn \in Conns /\ conn # 0 /\ pc[g] = "read" /\ Head(inbound[conn]).part = "tail"
            /\ inbound[conn] # <<>>
        BY <2>9, ConnType DEF ReadRawResponse, MidFrame, LockInv
      <4>2. \A k \in Kinds : Head(Reply(call[g], k)).part = "head"
        BY DEF Reply
      <4>3. conn \notin tainted => Pending(g, conn) \/ Quiet(conn)
        BY <4>1 DEF StreamInv
      <4> QED
        BY <4>1, <4>2, <4>3 DEF Pending, Quiet
    <3>2. \A c \in Conns : c # conn => inbound'[c] = inbound[c]
      BY <2>9 DEF ReadRawResponse, TypeOK
    <3> QED
      BY <1>2, <2>9, <3>1, <3>2 DEF ReadRawResponse, Deliver, Return, TypeOK
  <2>10. CASE ReadTimeout(g) \/ ReadEOF(g)
    BY <1>2, <2>10 DEF ReadTimeout, ReadEOF, Return, LockInv, TypeOK
  <2> QED
    BY <1>4, <2>1, <2>2, <2>3, <2>4, <2>5, <2>6, <2>7, <2>8, <2>9, <2>10 DEF Progress
<1>5. ASSUME NEW c \in Conns, ServerReply(c)
      PROVE  StreamInv'
  <2>1. /\ c \in 1..dialled /\ outbound[c] # <<>> /\ outbound'[c] = Tail(outbound[c])
        /\ \A d \in Conns : d # c => outbound'[d] = outbound[d] /\ inbound'[d] = inbound[d]
        /\ UNCHANGED <<conn, dialled, pc, call, tainted>>
    BY <1>5 DEF ServerReply, TypeOK
  <2>2. PICK k \in Kinds : inbound'[c] = inbound[c] \o Reply(Head(outbound[c]), k)
    BY <1>5 DEF ServerReply, TypeOK
  <2>3. \A d \in Conns : d > dialled => Quiet(d)'
    BY <2>1 DEF StreamInv, Quiet, TypeOK
  <2>4. ASSUME c = conn, conn \notin tainted, NEW g \in Goroutines, Reading(g)
        PROVE  pc[g] = "read" /\ Pending(g, conn)'
    <3>1. conn # 0 /\ outbound[c] = <<call[g]>> /\ inbound[c] = <<>> /\ pc[g] = "read"
      BY <2>1, <2>4 DEF StreamInv, Quiet, Pending, Partial, Reading, Conns
    <3>2. outbound'[c] = <<>> /\ Head(outbound[c]) = call[g]
      BY <2>1, <3>1
    <3>3. <<>> \o Reply(call[g], k) = Reply(call[g], k)
      BY DEF Reply
    <3>4. inbound'[c] = Reply(call[g], k)
      BY <2>2, <3>1, <3>2, <3>3
    <3> QED
      BY <2>1, <2>4, <3>1, <3>2, <3>4 DEF Pending
  <2>5. c = conn /\ conn \notin tainted => \E g \in Goroutines : Reading(g)
    BY <2>1 DEF StreamInv, Quiet, Conns
  <2>6. CASE c = conn
    BY <2>1, <2>3, <2>4, <2>5, <2>6 DEF StreamInv, Reading
  <2>7. CASE c # conn
    <3>1. conn # 0 => conn \in Conns
      BY ConnType
    <3>2. conn # 0 => outbound'[conn] = outbound[conn] /\ inbound'[conn] = inbound[conn]
      BY <2>1, <2>7, <3>1
    <3> QED
      BY <2>1, <2>3, <3>2 DEF StreamInv, Quiet, Pending, Partial, Reading
  <2> QED
    BY <2>6, <2>7
<1>6. ASSUME NEW c \in Conns, PeerClose(c)
      PROVE  StreamInv'
  <2>1. /\ \A d \in Conns : inbound'[d] = inbound[d] \/ inbound'[d] = <<>>
        /\ UNCHANGED <<conn, dialled, pc, call, tainted, outbound>>
    BY <1>6 DEF PeerClose, TypeOK
  <2>2. \A d \in Conns : Quiet(d) => Quiet(d)'
    BY <2>1 DEF Quiet
  <2>3. ASSUME NEW g \in Goroutines, conn \in Conns
        PROVE  /\ Pending(g, conn) => Pending(g, conn)' \/ Quiet(conn)'
               /\ Partial(g, conn) => Partial(g, conn)' \/ Quiet(conn)'
    BY <2>1, <2>3 DEF Pending, Partial, Quiet
  <2> QED
    BY <2>1, <2>2, <2>3, ConnType DEF StreamInv, Reading
<1>7. CASE UNCHANGED vars
  BY <1>1, <1>7 DEF vars, Steady
<1> QED
  BY <1>3, <1>4, <1>5, <1>6, <1>7 DEF Next, Environment, Done

LEMMA ReturnClean ==
  ASSUME TypeOK, CleanMatch, NEW g \in Goroutines, NEW res, Return(g, res),
         tainted \subseteq tainted',
         res.outcome = "ok" /\ call[g].op \in SendOps /\ res.conn \notin tainted
           => res.reply = call[g]
  PROVE  CleanMatch'
BY DEF Return, CleanMatch, Got, TypeOK

LEMMA CleanMatchStep ==
  ASSUME TypeOK, LockInv, StreamInv, CleanMatch, [Next]_vars
  PROVE  CleanMatch'
<1> USE DEF clientVars, callVars, wireVars, historyVars
<1>1. CASE UNCHANGED <<call, result>> /\ tainted \subseteq tainted'
  BY <1>1 DEF CleanMatch, Got
<1>2. ASSUME NEW g \in Goroutines, Invoke(g)
      PROVE  CleanMatch'
  <2>1. PICK op, t, where : Begin(g, op, t, where)
    BY <1>2 DEF Invoke, Connect, Close, SendData, SendMessage, SendEnvelope
  <2> QED
    BY <2>1 DEF Begin, NoResult, CleanMatch, Got, TypeOK
<1>3. ASSUME NEW g \in Goroutines, Progress(g)
      PROVE  CleanMatch'
  <2>1. /\ Failed.outcome = "error"
        /\ \A r : Answered(r).reply = r /\ Answered(r).conn = conn
    BY DEF Failed, Answered
  <2>2. CASE CheckConnected(g)
    BY <2>1, <2>2 DEF CheckConnected, CleanMatch, Got, TypeOK
  <2>3. CASE NothingToDo(g)
    BY <2>1, <2>3, ReturnClean DEF NothingToDo
  <2>4. CASE DialOk(g)
    BY <2>4, ReturnClean DEF DialOk
  <2>5. CASE CloseLocked(g)
    BY <2>1, <2>5, ReturnClean DEF CloseLocked
  <2>6. CASE DialFail(g) \/ EncodeFail(g) \/ WriteFail(g)
    BY <2>1, <2>6, ReturnClean DEF DialFail, EncodeFail, WriteFail
  <2>7. CASE ReadGarbage(g) \/ ReadTimeout(g) \/ ReadEOF(g)
    BY <2>1, <2>7, ReturnClean DEF ReadGarbage, ReadTimeout, ReadEOF
  <2>8. CASE ReadTail(g)
    <3>1. conn \notin tainted => Head(inbound[conn]).req = call[g]
      <4>1. conn # 0 /\ pc[g] = "readTail" /\ inbound[conn] # <<>>
        BY <2>8 DEF ReadTail, LockInv
      <4>2. conn \notin tainted => Partial(g, conn)
        BY <4>1 DEF StreamInv, Quiet
      <4>3. \A k : Head(<< [req |-> call[g], kind |-> k, part |-> "tail"] >>).req = call[g]
        OBVIOUS
      <4> QED
        BY <4>2, <4>3 DEF Partial
    <3>2. PICK res : Return(g, res) /\ res \in {Failed, Answered(Head(inbound[conn]).req)}
      BY <2>8 DEF ReadTail, Deliver
    <3> QED
      BY <2>1, <2>8, <3>1, <3>2, ReturnClean DEF ReadTail
  <2>9. CASE ReadRawResponse(g)
    <3>1. conn \in tainted
      <4>1. conn # 0 /\ pc[g] = "read" /\ Head(inbound[conn]).part = "tail"
            /\ inbound[conn] # <<>>
        BY <2>9 DEF ReadRawResponse, MidFrame, LockInv
      <4>2. \A k \in Kinds : Head(Reply(call[g], k)).part = "head"
        BY DEF Reply
      <4>3. conn \notin tainted => Pending(g, conn) \/ Quiet(conn)
        BY <4>1 DEF StreamInv
      <4> QED
        BY <4>1, <4>2, <4>3 DEF Pending, Quiet
    <3>2. PICK res : Return(g, res) /\ res \in {Failed, Answered(Head(inbound[conn]).req)}
      BY <2>9 DEF ReadRawResponse, Deliver
    <3> QED
      BY <2>1, <2>9, <3>1, <3>2, ReturnClean DEF ReadRawResponse
  <2>10. CASE WritePanic(g) \/ WriteOk(g) \/ ReadHead(g)
    BY <1>1, <2>10 DEF WritePanic, WriteOk, ReadHead
  <2> QED
    BY <1>3, <2>2, <2>3, <2>4, <2>5, <2>6, <2>7, <2>8, <2>9, <2>10 DEF Progress
<1>4. ASSUME NEW g \in Goroutines, AcquireMutex(g) \/ CancelContext(g)
      PROVE  CleanMatch'
  BY <1>1, <1>4 DEF AcquireMutex, CancelContext
<1>5. ASSUME NEW c \in Conns, ServerReply(c) \/ PeerClose(c)
      PROVE  CleanMatch'
  BY <1>1, <1>5 DEF ServerReply, PeerClose
<1>6. CASE UNCHANGED vars
  BY <1>1, <1>6 DEF vars
<1> QED
  BY <1>2, <1>3, <1>4, <1>5, <1>6 DEF Next, Environment, Done

\* Until an exchange on a connection fails, every send that succeeds on it has
\* read the reply to its own request, although nothing on the wire says whose
\* reply it is: the mutex alone keeps request and reply together.
THEOREM CleanConnectionMatches == Spec => []CleanMatch
<1> DEFINE Inv == TypeOK /\ LockInv /\ StreamInv /\ CleanMatch
<1>1. Init => Inv
  <2>1. Init => StreamInv /\ CleanMatch
    BY DEF Init, StreamInv, Quiet, CleanMatch, Got, NoResult
  <2> QED
    BY <2>1, TypeInit
<1>2. Inv /\ [Next]_vars => Inv'
  BY TypeStep, StreamStep, CleanMatchStep
<1> QED
  BY <1>1, <1>2, PTL DEF Spec

-----------------------------------------------------------------------------
(* connected and conn.                                                     *)

LEMMA ConnAgreesStep ==
  ASSUME TypeOK, ConnAgrees, [Next]_vars
  PROVE  ConnAgrees'
<1> USE DEF clientVars, callVars, wireVars, historyVars
<1>1. CASE UNCHANGED <<connected, conn>>
  BY <1>1 DEF ConnAgrees
<1>2. ASSUME NEW g \in Goroutines, DialOk(g)
      PROVE  ConnAgrees'
  BY <1>2, BoundsAssumption DEF DialOk, StoreConn, ConnAgrees, TypeOK
<1>3. ASSUME NEW g \in Goroutines, CloseLocked(g)
      PROVE  ConnAgrees'
  BY <1>3 DEF CloseLocked, ConnAgrees
<1>4. CASE \E g \in Goroutines : Invoke(g) \/ AcquireMutex(g)
  BY <1>1, <1>4 DEF Invoke, Connect, Close, SendData, SendMessage, SendEnvelope, Begin,
                    AcquireMutex
<1>5. ASSUME NEW g \in Goroutines, Progress(g), ~DialOk(g), ~CloseLocked(g)
      PROVE  ConnAgrees'
  BY <1>1, <1>5 DEF Progress, CheckConnected, NothingToDo, DialFail, EncodeFail,
                    WritePanic, WriteOk, WriteFail, ReadHead, ReadTail, ReadGarbage,
                    ReadRawResponse, ReadTimeout, ReadEOF
<1>6. CASE Environment \/ UNCHANGED vars
  BY <1>1, <1>6 DEF Environment, ServerReply, PeerClose, CancelContext, vars
<1> QED
  BY <1>2, <1>3, <1>4, <1>5, <1>6 DEF Next, Done

LEMMA AloneInvoke ==
  ASSUME TypeOK, AloneInv, NEW k \in Goroutines, Invoke(k)
  PROVE  AloneInv'
<1> USE DEF Silent
<1>1. /\ connected' = connected
      /\ call'[k].id = calls + 1
      /\ pc'[k] \in {"check", "lock"}
      /\ pc'[k] = "lock" => call'[k].op \notin SendOps
      /\ \A h \in Goroutines \ {k} : pc'[h] = pc[h] /\ call'[h] = call[h]
  BY DEF Invoke, Connect, Close, SendData, SendMessage, SendEnvelope, Begin, SendOps, TypeOK
<1>2. ~Silent(k)'
  BY <1>1 DEF TypeOK
<1>3. ASSUME NEW g \in Goroutines, Silent(g)'
      PROVE  pc'[g] = "idle"
  BY <1>1, <1>2, <1>3 DEF AloneInv
<1>4. ASSUME NEW g \in Goroutines, \A h \in Goroutines \ {g} : Silent(h)'
      PROVE  /\ pc'[g] # "panic"
             /\ pc'[g] \in {"lock", "locked"} /\ call'[g].op \in SendOps => connected'
  <2>1. g = k
    BY <1>2, <1>4
  <2> QED
    BY <1>1, <2>1
<1> QED
  BY <1>3, <1>4 DEF AloneInv

LEMMA OwnStep ==
  ASSUME TypeOK, NEW k \in Goroutines, AcquireMutex(k) \/ Progress(k)
  PROVE  /\ pc[k] # "idle" /\ call' = call
         /\ \A h \in Goroutines \ {k} : pc'[h] = pc[h]
<1> USE DEF clientVars, callVars, wireVars, historyVars
<1>1. CASE AcquireMutex(k) \/ CheckConnected(k) \/ WritePanic(k) \/ WriteOk(k) \/ ReadHead(k)
  BY <1>1 DEF AcquireMutex, CheckConnected, WritePanic, WriteOk, ReadHead, Locked, TypeOK
<1>2. ASSUME pc[k] # "idle", \E res : Return(k, res)
      PROVE  pc[k] # "idle" /\ call' = call /\ \A h \in Goroutines \ {k} : pc'[h] = pc[h]
  BY <1>2 DEF Return, TypeOK
<1>3. CASE \/ NothingToDo(k) \/ DialOk(k) \/ DialFail(k) \/ CloseLocked(k) \/ EncodeFail(k)
           \/ WriteFail(k)
  BY <1>2, <1>3 DEF NothingToDo, DialOk, DialFail, CloseLocked, EncodeFail, WriteFail, Locked
<1>4. CASE ReadTail(k) \/ ReadGarbage(k) \/ ReadRawResponse(k) \/ ReadTimeout(k) \/ ReadEOF(k)
  BY <1>2, <1>4 DEF ReadTail, ReadGarbage, ReadRawResponse, MidFrame, Deliver, ReadTimeout, ReadEOF
<1> QED
  BY <1>1, <1>3, <1>4 DEF Progress

LEMMA AloneProgress ==
  ASSUME TypeOK, ConnAgrees, AloneInv, NEW k \in Goroutines, AcquireMutex(k) \/ Progress(k)
  PROVE  AloneInv'
<1> USE DEF clientVars, callVars, wireVars, historyVars
<1>1. /\ pc[k] # "idle" /\ call' = call
      /\ \A h \in Goroutines \ {k} : pc'[h] = pc[h]
  BY OwnStep
<1>2. ~Silent(k)
  BY <1>1 DEF AloneInv
<1>3. ASSUME NEW g \in Goroutines, Silent(g)'
      PROVE  pc'[g] = "idle"
  BY <1>1, <1>2, <1>3 DEF AloneInv, Silent
<1>4. ASSUME NEW g \in Goroutines, \A h \in Goroutines \ {g} : Silent(h)'
      PROVE  /\ pc'[g] # "panic"
             /\ pc'[g] \in {"lock", "locked"} /\ call'[g].op \in SendOps => connected'
  <2>1. g = k /\ \A h \in Goroutines \ {g} : Silent(h)
    BY <1>1, <1>2, <1>4 DEF Silent
  <2>2. /\ pc[g] # "panic"
        /\ pc[g] \in {"lock", "locked"} /\ call[g].op \in SendOps => connected
    BY <2>1 DEF AloneInv
  <2>3. CASE AcquireMutex(g) \/ CheckConnected(g)
    BY <2>2, <2>3 DEF AcquireMutex, CheckConnected, TypeOK
  <2>4. CASE WritePanic(g)
    BY <2>2, <2>4 DEF WritePanic, Locked, ConnAgrees
  <2>5. CASE WriteOk(g) \/ ReadHead(g)
    BY <2>2, <2>5 DEF WriteOk, ReadHead, TypeOK
  <2>6. CASE \E res : Return(g, res)
    BY <2>6 DEF Return, TypeOK
  <2> QED
    BY <2>1, <2>3, <2>4, <2>5, <2>6 DEF Progress, NothingToDo, DialOk, DialFail,
       CloseLocked, EncodeFail, WriteFail, ReadTail, ReadGarbage, ReadRawResponse, Deliver,
       ReadTimeout, ReadEOF
<1> QED
  BY <1>3, <1>4 DEF AloneInv

LEMMA AloneStep ==
  ASSUME TypeOK, ConnAgrees, AloneInv, [Next]_vars
  PROVE  AloneInv'
<1>1. ASSUME UNCHANGED <<pc, call, connected>>
      PROVE  AloneInv'
  BY <1>1 DEF AloneInv, Silent
<1>2. CASE Environment \/ UNCHANGED vars
  BY <1>1, <1>2 DEF Environment, ServerReply, PeerClose, CancelContext, vars, clientVars, callVars
<1> QED
  BY <1>2, AloneInvoke, AloneProgress DEF Next, Done

LEMMA AloneInit == Init => ConnAgrees /\ AloneInv
BY DEF Init, ConnAgrees, AloneInv

\* connected, which IsConnected reads without the mutex, says whether there is a net.Conn
\* after every step of every goroutine: no path of Connect, of Close or of a failing
\* exchange changes one of the two without the other (client.go:85-88, 319-325).
THEOREM ConnectionAgrees == Spec => []ConnAgrees
<1> DEFINE Inv == TypeOK /\ LockInv /\ ConnAgrees
<1>1. Init => Inv
  BY TypeInit, AloneInit
<1>2. Inv /\ [Next]_vars => Inv'
  BY TypeStep, ConnAgreesStep
<1> QED
  BY <1>1, <1>2, PTL DEF Spec

\* A client that only one goroutine has used never calls a method of a nil net.Conn
\* (client.go:163, 246).
THEOREM AloneIsSafe == Spec => []AloneNeverPanics
<1> DEFINE Inv == TypeOK /\ LockInv /\ ConnAgrees /\ AloneInv
<1>1. Init => Inv
  BY TypeInit, AloneInit
<1>2. Inv /\ [Next]_vars => Inv'
  BY TypeStep, ConnAgreesStep, AloneStep
<1>3. Inv => AloneNeverPanics
  <2> SUFFICES ASSUME Inv, NEW g \in Goroutines, \A h \in Goroutines \ {g} : Silent(h)
               PROVE  ~Crashed
    BY DEF AloneNeverPanics
  <2>1. pc[g] # "panic"
    BY DEF AloneInv
  <2>2. \A h \in Goroutines \ {g} : pc[h] = "idle"
    BY DEF AloneInv
  <2> QED
    BY <2>1, <2>2 DEF Crashed
<1> QED
  BY <1>1, <1>2, <1>3, PTL DEF Spec

\* The inductive invariant itself holds: types, who holds the mutex and who reads,
\* whose a ticket is, and what is on a connection no exchange has failed on.
THEOREM Inductive == Spec => []IndInv
<1> DEFINE Inv == IndInv /\ ConnAgrees
<1>1. Init => Inv
  <2>1. Init => StreamInv
    BY DEF Init, StreamInv, Quiet, Reading
  <2> QED
    BY <2>1, TypeInit, TicketInit, AloneInit DEF IndInv
<1>2. Inv /\ [Next]_vars => Inv'
  BY TypeStep, TicketStep, StreamStep, ConnAgreesStep, AloneStep DEF IndInv
<1> QED
  BY <1>1, <1>2, PTL DEF Spec
=============================================================================
