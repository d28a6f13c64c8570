----------------------------- MODULE TcpClient -----------------------------
(***************************************************************************)
(* The TCP client of client.go, shared by several goroutines and used      *)
(* without a security manager (config.SecurityConfig = nil, as             *)
(* DefaultClientConfig returns it).  The exchange with a security manager  *)
(* is module SecureExchange.                                               *)
(*                                                                         *)
(* Granularity.  conn is touched only under the mutex; connected is also   *)
(* read without it, by SendEnvelope's first line.  One action is the code  *)
(* between two points at which another goroutine, the server or the clock  *)
(* can be noticed: the unlocked test of connected, the acquisition of the  *)
(* mutex, the dial, the write, and each part of the reply read.            *)
(*                                                                         *)
(* The byte stream.  A reply is two fragments, "head" and "tail", because  *)
(* a read deadline may pass with the reply partly read: the tail then      *)
(* stays in the socket and the next decoder starts in the middle of a      *)
(* frame.  A decoder that does so fails and leaves some "junk", swallows a *)
(* part of what follows, or - the tail may start at the payload - takes    *)
(* the M3daResponse inside for a whole reply (client.go:280).              *)
(***************************************************************************)
EXTENDS Integers, Sequences

CONSTANTS
  Goroutines,     \* the callers that share one *TCPClient
  Nobody,         \* the owner of a mutex that is not locked
  MaxCalls,       \* bound: calls made on the client
  MaxConns,       \* bound: connections dialled successfully
  UserTickets,    \* ticket IDs the application puts into messages itself
  TicketModulus,  \* ticketCounter is a uint32: 2^32 in the code
  Deadlines       \* TRUE iff config.ReadTimeout > 0

ASSUME NobodyAssumption == Nobody \notin Goroutines
ASSUME BoundsAssumption == MaxCalls \in Nat /\ MaxConns \in Nat
ASSUME TicketAssumption == TicketModulus \in Nat \ {0} /\ UserTickets \subseteq Nat

VARIABLES
  mutex,          \* c.mutex: the goroutine that holds it, or Nobody
  connected,      \* c.connected
  conn,           \* c.conn: the number of the connection, 0 for nil
  ticketCounter,  \* c.ticketCounter
  pc,             \* where each goroutine is
  call,           \* the call each goroutine is in, or made last
  result,         \* what that call returned
  outbound,       \* outbound[c]: requests written to c, not yet read by the server
  inbound,        \* inbound[c]: fragments the server sent on c, not yet read
  peerOpen,       \* the connections the server has not closed
  calls,          \* number of calls made so far
  dialled,        \* number of connections dialled so far
  cancelled,      \* goroutines whose call's context has been cancelled
  tainted,        \* history: connections an exchange failed on
  broken          \* history: connections on which the client met EOF or a write error

clientVars == <<mutex, connected, conn, ticketCounter>>
callVars   == <<pc, call, result, calls, cancelled>>
wireVars   == <<outbound, inbound, peerOpen, dialled>>
historyVars == <<tainted, broken>>
vars == <<clientVars, callVars, wireVars, historyVars>>

-----------------------------------------------------------------------------
(* Data.                                                                   *)

NoTicket == -1                              \* a nil *uint32
SendOps == {"data", "message", "envelope"}  \* SendData, SendMessage, SendEnvelope
Ops == SendOps \union {"none", "connect", "close", "torn"}
Conns == 1..MaxConns

\* A call, and the request that a send writes.  The id tells two calls apart;
\* it is not on the wire.
Request == [id: 0..MaxCalls, op: Ops, ticket: {NoTicket} \union Nat]
NoRequest == [id |-> 0, op |-> "none", ticket |-> NoTicket]

\* What the server finds of a request whose write stopped in the middle.
Torn == [id |-> 0, op |-> "torn", ticket |-> NoTicket]

\* "ack": status 200, no body.  "resp": status 200 and an M3daResponse with the
\* ticket of the request.  "reject": another status, or a payload that the
\* client cannot decode.
Kinds == {"ack", "resp", "reject"}
Fragment == [req: Request, kind: Kinds, part: {"head", "tail", "junk"}]
Reply(r, k) == << [req |-> r, kind |-> k, part |-> "head"],
                  [req |-> r, kind |-> k, part |-> "tail"] >>

Result == [outcome: {"none", "ok", "error"}, reply: Request, conn: 0..MaxConns]
NoResult == [outcome |-> "none", reply |-> NoRequest, conn |-> 0]
Failed == [outcome |-> "error", reply |-> NoRequest, conn |-> 0]
Answered(r) == [outcome |-> "ok", reply |-> r, conn |-> conn]

Init ==
  /\ mutex = Nobody /\ connected = FALSE /\ conn = 0 /\ ticketCounter = 0
  /\ pc = [g \in Goroutines |-> "idle"]
  /\ call = [g \in Goroutines |-> NoRequest]
  /\ result = [g \in Goroutines |-> NoResult]
  /\ outbound = [c \in Conns |-> <<>>]
  /\ inbound = [c \in Conns |-> <<>>]
  /\ peerOpen = {} /\ calls = 0 /\ dialled = 0
  /\ cancelled = {} /\ tainted = {} /\ broken = {}

-----------------------------------------------------------------------------
(* Calling and returning.                                                  *)

\* Mutant of nextTicketID: a counter wider than the uint32 it stands for.
nextTicketIDUnbounded == ticketCounter + 1

nextTicketID == (ticketCounter + 1) % TicketModulus

Begin(g, op, ticket, where) ==
  /\ pc[g] = "idle" /\ calls < MaxCalls
  /\ calls' = calls + 1
  /\ call' = [call EXCEPT ![g] = [id |-> calls + 1, op |-> op, ticket |-> ticket]]
  /\ result' = [result EXCEPT ![g] = NoResult]
  /\ pc' = [pc EXCEPT ![g] = where]
  /\ UNCHANGED <<mutex, connected, conn, cancelled, wireVars, historyVars>>

\* Mutant of Unlock: a return that leaves the mutex locked.
KeepLock == UNCHANGED mutex

Unlock == mutex' = Nobody

\* Return from the call, and with it the deferred unlock.
Return(g, res) ==
  /\ pc' = [pc EXCEPT ![g] = "idle"]
  /\ result' = [result EXCEPT ![g] = res]
  /\ cancelled' = cancelled \ {g}
  /\ Unlock
  /\ UNCHANGED <<call, calls, ticketCounter>>

Connect(g) == Begin(g, "connect", NoTicket, "lock") /\ UNCHANGED ticketCounter

Close(g) == Begin(g, "close", NoTicket, "lock") /\ UNCHANGED ticketCounter

SendData(g) == Begin(g, "data", NoTicket, "check") /\ UNCHANGED ticketCounter

\* The ticket is drawn before the mutex is taken: tickets need not reach the
\* wire in the order they were drawn.
SendMessage(g) ==
  /\ Begin(g, "message", nextTicketID, "check")
  /\ ticketCounter' = nextTicketID

\* SendEnvelope with a message whose ticket the application chose.
SendEnvelope(g) ==
  \E t \in UserTickets : Begin(g, "envelope", t, "check") /\ UNCHANGED ticketCounter

\* The test of connected that SendEnvelope makes before it takes the mutex.
CheckConnected(g) ==
  /\ pc[g] = "check"
  /\ \/ /\ connected
        /\ pc' = [pc EXCEPT ![g] = "lock"]
        /\ UNCHANGED <<mutex, ticketCounter, call, result, calls, cancelled>>
     \/ /\ ~connected
        /\ pc' = [pc EXCEPT ![g] = "idle"]
        /\ result' = [result EXCEPT ![g] = Failed]
        /\ cancelled' = cancelled \ {g}
        /\ UNCHANGED <<mutex, ticketCounter, call, calls>>
  /\ UNCHANGED <<connected, conn, wireVars, historyVars>>

\* Mutant of MutexFree: the exchange is not serialised.
MutexIgnored == TRUE

MutexFree == mutex = Nobody

AcquireMutex(g) ==
  /\ pc[g] = "lock" /\ MutexFree
  /\ mutex' = g
  /\ pc' = [pc EXCEPT ![g] = "locked"]
  /\ UNCHANGED <<connected, conn, ticketCounter, call, result, calls, cancelled,
                 wireVars, historyVars>>

Locked(g, ops) == pc[g] = "locked" /\ call[g].op \in ops

-----------------------------------------------------------------------------
(* Connect and Close, under the mutex.                                     *)

\* Connect of a connected client, Close of one that is not.
NothingToDo(g) ==
  /\ Locked(g, {IF connected THEN "connect" ELSE "close"})
  /\ Return(g, Answered(call[g]))
  /\ UNCHANGED <<connected, conn, wireVars, historyVars>>

\* Mutants of StoreConn: one of the two assignments is forgotten.
StoreConnUnflagged(c) == conn' = c /\ UNCHANGED connected
StoreFlagOnly(c) == UNCHANGED conn /\ connected' = TRUE

StoreConn(c) == conn' = c /\ connected' = TRUE

DialOk(g) ==
  /\ Locked(g, {"connect"}) /\ ~connected /\ dialled < MaxConns
  /\ dialled' = dialled + 1
  /\ StoreConn(dialled + 1)
  /\ peerOpen' = peerOpen \union {dialled + 1}
  /\ Return(g, [outcome |-> "ok", reply |-> call[g], conn |-> dialled + 1])
  /\ UNCHANGED <<outbound, inbound, historyVars>>

\* Refused, ConnectTimeout, or the context of the call cancelled.
DialFail(g) ==
  /\ Locked(g, {"connect"}) /\ ~connected
  /\ Return(g, Failed)
  /\ UNCHANGED <<connected, conn, wireVars, historyVars>>

\* What is unread on the socket is gone with it.
CloseLocked(g) ==
  /\ Locked(g, {"close"}) /\ connected
  /\ Return(g, Answered(call[g]))
  /\ connected' = FALSE
  /\ conn' = 0
  /\ peerOpen' = peerOpen \ {conn}
  /\ outbound' = [c \in Conns |-> IF c = conn THEN <<>> ELSE outbound[c]]
  /\ inbound' = [c \in Conns |-> IF c = conn THEN <<>> ELSE inbound[c]]
  /\ UNCHANGED <<dialled, historyVars>>

-----------------------------------------------------------------------------
(* One exchange, under the mutex.                                          *)

\* The messages cannot be encoded (unsupported type, string too large).
EncodeFail(g) ==
  /\ Locked(g, SendOps)
  /\ Return(g, Failed)
  /\ UNCHANGED <<connected, conn, wireVars, historyVars>>

\* A method call on the nil net.Conn: the process dies.
WritePanic(g) ==
  /\ Locked(g, SendOps) /\ conn = 0
  /\ pc' = [pc EXCEPT ![g] = "panic"]
  /\ UNCHANGED <<clientVars, call, result, calls, cancelled, wireVars, historyVars>>

WriteOk(g) ==
  /\ Locked(g, SendOps) /\ conn # 0
  /\ outbound' = [outbound EXCEPT ![conn] = Append(@, call[g])]
  /\ pc' = [pc EXCEPT ![g] = "read"]
  /\ UNCHANGED <<clientVars, call, result, calls, cancelled, inbound, peerOpen,
                 dialled, historyVars>>

\* WriteTimeout, or the connection is gone; a part may have been written.
WriteFail(g) ==
  /\ Locked(g, SendOps) /\ conn # 0
  /\ outbound' \in {outbound, [outbound EXCEPT ![conn] = Append(@, Torn)]}
  /\ tainted' = tainted \union {conn}
  /\ broken' = broken \union {conn}
  /\ Return(g, Failed)
  /\ UNCHANGED <<connected, conn, inbound, peerOpen, dialled>>

\* Mutant of Accepts: the first response will do.
AcceptsAnyTicket(g, f) ==
  IF call[g].op = "message" THEN f.kind = "resp" ELSE f.kind # "reject"

\* SendMessage looks for a response with its ticket; SendData and SendEnvelope
\* take what came.
Accepts(g, f) ==
  IF call[g].op = "message" THEN f.kind = "resp" /\ f.req.ticket = call[g].ticket
                            ELSE f.kind # "reject"

Deliver(g, f) == Return(g, IF Accepts(g, f) THEN Answered(f.req) ELSE Failed)

\* Mutant of Consume: the decoder peeks at what it reads.
PeekOnly == UNCHANGED inbound

\* The decoder reads the connection itself: what it has read is gone.
Consume == inbound' = [inbound EXCEPT ![conn] = Tail(@)]

ReadHead(g) ==
  /\ pc[g] = "read"
  /\ inbound[conn] # <<>> /\ Head(inbound[conn]).part = "head"
  /\ Consume
  /\ pc' = [pc EXCEPT ![g] = "readTail"]
  /\ UNCHANGED <<clientVars, call, result, calls, cancelled, outbound, peerOpen,
                 dialled, historyVars>>

ReadTail(g) ==
  /\ pc[g] = "readTail" /\ inbound[conn] # <<>>
  /\ Consume
  /\ Deliver(g, Head(inbound[conn]))
  /\ UNCHANGED <<connected, conn, outbound, peerOpen, dialled, historyVars>>

Junk(f) == [f EXCEPT !.part = "junk"]

\* What a decoder that started inside a frame leaves of the stream s: nothing of
\* the fragment, a rest of it, or it has swallowed the next one as well.
Leftovers(s) ==
  {Tail(s), <<Junk(Head(s))>> \o Tail(s)}
    \union (IF Tail(s) = <<>> THEN {} ELSE {Tail(Tail(s))})

MidFrame(g) ==
  pc[g] = "read" /\ inbound[conn] # <<>> /\ Head(inbound[conn]).part # "head"

ReadGarbage(g) ==
  /\ MidFrame(g)
  /\ \E rest \in Leftovers(inbound[conn]) : inbound' = [inbound EXCEPT ![conn] = rest]
  /\ tainted' = tainted \union {conn}
  /\ Return(g, Failed)
  /\ UNCHANGED <<connected, conn, outbound, peerOpen, dialled, broken>>

\* The rest of the frame starts with the M3daResponse of its payload, which
\* decodes as a body message and is returned as it is.
ReadRawResponse(g) ==
  /\ MidFrame(g)
  /\ Head(inbound[conn]).part = "tail" /\ Head(inbound[conn]).kind = "resp"
  /\ inbound' = [inbound EXCEPT ![conn] = <<Junk(Head(@))>> \o Tail(@)]
  /\ Deliver(g, Head(inbound[conn]))
  /\ UNCHANGED <<connected, conn, outbound, peerOpen, dialled, historyVars>>

\* The read deadline passes.  The connection is kept.
ReadTimeout(g) ==
  /\ pc[g] \in {"read", "readTail"} /\ Deadlines
  /\ tainted' = tainted \union {conn}
  /\ Return(g, Failed)
  /\ UNCHANGED <<connected, conn, wireVars, broken>>

\* The connection is kept here as well.
ReadEOF(g) ==
  /\ pc[g] \in {"read", "readTail"}
  /\ inbound[conn] = <<>> /\ conn \notin peerOpen
  /\ tainted' = tainted \union {conn}
  /\ broken' = broken \union {conn}
  /\ Return(g, Failed)
  /\ UNCHANGED <<connected, conn, wireVars>>

-----------------------------------------------------------------------------
(* The environment: the server, the network and the callers' contexts.     *)

ServerReply(c) ==
  /\ c \in peerOpen /\ outbound[c] # <<>>
  /\ \E k \in Kinds :
       /\ k = "resp" => Head(outbound[c]).ticket # NoTicket
       /\ Head(outbound[c]) = Torn => k = "reject"
       /\ inbound' = [inbound EXCEPT ![c] = @ \o Reply(Head(outbound[c]), k)]
  /\ outbound' = [outbound EXCEPT ![c] = Tail(@)]
  /\ UNCHANGED <<clientVars, callVars, peerOpen, dialled, historyVars>>

\* The server closes; on a reset what it had sent is lost.
PeerClose(c) ==
  /\ c \in peerOpen
  /\ peerOpen' = peerOpen \ {c}
  /\ inbound' \in {inbound, [inbound EXCEPT ![c] = <<>>]}
  /\ UNCHANGED <<clientVars, callVars, outbound, dialled, historyVars>>

\* Close has no context.
CancelContext(g) ==
  /\ pc[g] # "idle" /\ call[g].op # "close" /\ g \notin cancelled
  /\ cancelled' = cancelled \union {g}
  /\ UNCHANGED <<clientVars, pc, call, result, calls, wireVars, historyVars>>

-----------------------------------------------------------------------------
Crashed == \E g \in Goroutines : pc[g] = "panic"

\* What a goroutine does in a call without waiting for anybody.
Progress(g) ==
  \/ CheckConnected(g)
  \/ NothingToDo(g) \/ DialOk(g) \/ DialFail(g) \/ CloseLocked(g)
  \/ EncodeFail(g) \/ WritePanic(g) \/ WriteOk(g) \/ WriteFail(g)
  \/ ReadHead(g) \/ ReadTail(g) \/ ReadGarbage(g) \/ ReadRawResponse(g)
  \/ ReadTimeout(g) \/ ReadEOF(g)

Invoke(g) == Connect(g) \/ Close(g) \/ SendData(g) \/ SendMessage(g) \/ SendEnvelope(g)

Environment ==
  \/ \E c \in Conns : ServerReply(c) \/ PeerClose(c)
  \/ \E g \in Goroutines : CancelContext(g)

\* Every call that the bound allows was made and has returned, or the process
\* is gone.
Done ==
  /\ Crashed \/ (calls = MaxCalls /\ \A g \in Goroutines : pc[g] = "idle")
  /\ UNCHANGED vars

Next ==
  \/ /\ ~Crashed
     /\ \/ \E g \in Goroutines : Invoke(g) \/ AcquireMutex(g) \/ Progress(g)
        \/ Environment
  \/ Done

Spec == Init /\ [][Next]_vars

(***************************************************************************)
(* Fairness.  A goroutine in the middle of a call keeps running: weak      *)
(* fairness of its own steps, the passing of its read deadline included.   *)
(* The mutex is handed over in arrival order once a waiter has starved for *)
(* a millisecond (sync.Mutex), so that a goroutine that keeps asking gets  *)
(* it: strong fairness.  Nothing is assumed of the server, of the callers  *)
(* or of their contexts.                                                   *)
(***************************************************************************)
Fairness ==
  \A g \in Goroutines : WF_vars(~Crashed /\ Progress(g)) /\ SF_vars(~Crashed /\ AcquireMutex(g))

FairSpec == Spec /\ Fairness

-----------------------------------------------------------------------------
(* Properties.                                                             *)

\* Every variable keeps its type.
TypeOK ==
  /\ mutex \in Goroutines \union {Nobody}
  /\ connected \in BOOLEAN
  /\ conn \in 0..dialled
  /\ ticketCounter \in 0..(TicketModulus - 1)
  /\ pc \in [Goroutines -> {"idle", "check", "lock", "locked", "read", "readTail", "panic"}]
  /\ call \in [Goroutines -> Request]
  /\ result \in [Goroutines -> Result]
  /\ outbound \in [Conns -> Seq(Request)]
  /\ inbound \in [Conns -> Seq(Fragment)]
  /\ peerOpen \subseteq 1..dialled
  /\ calls \in 0..MaxCalls
  /\ dialled \in 0..MaxConns
  /\ cancelled \subseteq Goroutines
  /\ tainted \subseteq Conns
  /\ broken \subseteq Conns

\* connected, which IsConnected reads without the mutex, says whether there is a
\* net.Conn: Connect and Close change the two together (client.go:85-88, 319-325).
ConnAgrees == connected <=> conn # 0

\* While a single goroutine has used the client no method of a nil net.Conn is
\* called: only another one's Close can come between SendEnvelope's test of connected
\* (client.go:163) and its use of conn (client.go:246).
Silent(g) == call[g].id = 0
AloneNeverPanics == (\E g \in Goroutines : \A h \in Goroutines \ {g} : Silent(h)) => ~Crashed

\* The tickets that SendMessage draws are not reused: the counter does not come
\* round, and the application's own tickets are not in its range.
TicketsDistinct == MaxCalls < TicketModulus /\ UserTickets \intersect (0..MaxCalls) = {}

Got(g) == result[g].outcome = "ok"

\* SendMessage returns the response to its own message, whatever timeouts left on
\* the socket and however the calls were interleaved: the ticket comparison of
\* client.go:365-369 turns a stale reply into an error.
OwnAnswer ==
  TicketsDistinct =>
    \A g \in Goroutines : Got(g) /\ call[g].op = "message" => result[g].reply = call[g]

\* On a connection no exchange has failed on, any send that reports success has
\* read the reply to what it wrote: the mutex keeps the request and the reply of
\* one call together although replies carry nothing that tells them apart.
CleanMatch ==
  \A g \in Goroutines :
    Got(g) /\ call[g].op \in SendOps /\ result[g].conn \notin tainted
      => result[g].reply = call[g]

\* No reply of the server answers two calls, even when a decoder starts in the
\* middle of a reply that another call gave up on.
AnsweredOnce ==
  \A g, h \in Goroutines :
    g # h /\ Got(g) /\ Got(h) /\ call[g].op \in SendOps /\ call[h].op \in SendOps
      => result[g].reply # result[h].reply

\* With a read deadline, every call returns, in whatever state the server and the
\* connection are - unless the process has died: no path keeps the mutex.
EveryCallReturns ==
  \A g \in Goroutines : pc[g] # "idle" ~> (pc[g] = "idle" \/ Crashed)

(* What the documentation promises and the code does not keep.             *)

\* A client that goroutines share does not bring the process down ("concurrent-
\* safe implementation", README.md:13).
NoPanic == ~Crashed

\* A send that reports success reports the outcome of its own request ("Client
\* sends envelope with sensor data, Server processes and responds with envelope").
SuccessIsOwn ==
  \A g \in Goroutines : Got(g) /\ call[g].op \in SendOps => result[g].reply = call[g]

\* "IsConnected returns true if the client is connected" (client.go:30): once the
\* client has met the end of the connection it does not call itself connected.
ConnectedMeansUsable == connected => conn \notin broken
=============================================================================
