------------------------------ MODULE Exchange ------------------------------
(***************************************************************************)
(* What the goroutines that share a TCPClient may count on, without the    *)
(* mutex, the byte stream and the connections behind it.  A call ends in   *)
(* an error, or in the answer to a request that was sent on the present    *)
(* connection: to its own as long as no exchange on that connection has    *)
(* failed, and an answer goes to one call at most.  The process lives as   *)
(* long as one goroutine only makes calls.  TcpClient implements this      *)
(* (module TcpClientRefinement).                                           *)
(***************************************************************************)
EXTENDS Naturals, TLAPS

CONSTANTS
  Goroutines,   \* the callers
  Ops,          \* what they can call
  SendOps,      \* the calls among them that wait for an answer
  Tickets,      \* the tickets of requests, and the mark of one without
  NoRequest     \* in the place of a call before the first

VARIABLES
  phase,        \* "idle", "called", "sent" (its request is on the way) or "dead"
  call,         \* the call each goroutine is in, or made last
  outcome,      \* "none", then "ok" or "error": how that call ended
  answered,     \* the request whose answer it returned
  calls,        \* number of calls made so far
  open,         \* there is a connection
  faulty,       \* an exchange on it has failed
  waiting,      \* requests the server has not answered
  answers       \* requests with an answer of the server that nobody has read

callVars == <<phase, call, outcome, answered, calls>>
vars == <<callVars, open, faulty, waiting, answers>>

Init ==
  /\ phase = [g \in Goroutines |-> "idle"]
  /\ call = [g \in Goroutines |-> NoRequest]
  /\ outcome = [g \in Goroutines |-> "none"]
  /\ answered = [g \in Goroutines |-> NoRequest]
  /\ calls = 0
  /\ open = FALSE /\ faulty = FALSE /\ waiting = {} /\ answers = {}

-----------------------------------------------------------------------------
(* Calls that do not wait for the server.                                  *)

Call(g) ==
  /\ phase[g] = "idle"
  /\ calls' = calls + 1
  /\ \E op \in Ops, t \in Tickets :
       call' = [call EXCEPT ![g] = [id |-> calls + 1, op |-> op, ticket |-> t]]
  /\ phase' = [phase EXCEPT ![g] = "called"]
  /\ outcome' = [outcome EXCEPT ![g] = "none"]
  /\ answered' = [answered EXCEPT ![g] = NoRequest]
  /\ UNCHANGED <<open, faulty, waiting, answers>>

Return(g, how, r) ==
  /\ phase' = [phase EXCEPT ![g] = "idle"]
  /\ outcome' = [outcome EXCEPT ![g] = how]
  /\ answered' = [answered EXCEPT ![g] = r]
  /\ UNCHANGED <<call, calls>>

\* Connect of a client that is connected changes nothing.
Connected(g) ==
  /\ phase[g] = "called" /\ call[g].op = "connect"
  /\ Return(g, "ok", call[g])
  /\ open' = TRUE
  /\ UNCHANGED <<faulty, waiting, answers>>

Closed(g) ==
  /\ phase[g] = "called" /\ call[g].op = "close"
  /\ Return(g, "ok", call[g])
  /\ open' = FALSE /\ faulty' = FALSE /\ waiting' = {} /\ answers' = {}

-----------------------------------------------------------------------------
(* A send, and what the server and the network do.                         *)

Send(g) ==
  /\ phase[g] = "called" /\ call[g].op \in SendOps /\ open
  /\ phase' = [phase EXCEPT ![g] = "sent"]
  /\ waiting' = waiting \union {call[g]}
  /\ UNCHANGED <<call, outcome, answered, calls, open, faulty, answers>>

\* The answer is success, or it is one that no call will return.
Answer(r) ==
  /\ waiting' = waiting \ {r}
  /\ answers' \in {answers, answers \union {r}}
  /\ UNCHANGED <<callVars, open, faulty>>

Lose ==
  /\ answers' = {}
  /\ UNCHANGED <<callVars, open, faulty, waiting>>

\* What is read of an answer is gone.
ReturnAnswer(g) ==
  /\ phase[g] = "sent"
  /\ \E r \in answers :
       /\ r = call[g] \/ faulty
       /\ call[g].op = "message" => r.ticket = call[g].ticket
       /\ Return(g, "ok", r)
       /\ answers' = answers \ {r}
  /\ UNCHANGED <<open, faulty, waiting>>

\* A call may fail at any time, and take unread answers with it.
ReturnError(g) ==
  /\ phase[g] \in {"called", "sent"}
  /\ Return(g, "error", NoRequest)
  /\ faulty' \in {faulty, open}
  /\ answers' \in SUBSET answers
  /\ UNCHANGED <<open, waiting>>

\* The process ends; it takes two goroutines.
Die(g) ==
  /\ phase[g] = "called" /\ call[g].op \in SendOps
  /\ \E h \in Goroutines \ {g} : call[h] # NoRequest
  /\ phase' = [phase EXCEPT ![g] = "dead"]
  /\ UNCHANGED <<call, outcome, answered, calls, open, faulty, waiting, answers>>

Next ==
  /\ \A g \in Goroutines : phase[g] # "dead"
  /\ \/ \E g \in Goroutines :
          \/ Call(g) \/ Connected(g) \/ Closed(g)
          \/ Send(g) \/ ReturnAnswer(g) \/ ReturnError(g) \/ Die(g)
     \/ \E r \in waiting : Answer(r)
     \/ Lose

Spec == Init /\ [][Next]_vars

-----------------------------------------------------------------------------
(* Each answer goes to one call.                                           *)

Delivered(g) == outcome[g] = "ok" /\ call[g].op \in SendOps

\* No two calls return the answer to the same request.
AnsweredOnce ==
  \A g, h \in Goroutines :
    g # h /\ Delivered(g) /\ Delivered(h) => answered[g] # answered[h]

\* Requests that were made up to now.
Made == [id : 1..calls, op : Ops, ticket : Tickets]

\* A request is in one place: with its caller, waiting, answered, or delivered.
Inv ==
  /\ calls \in Nat
  /\ phase \in [Goroutines -> {"idle", "called", "sent", "dead"}]
  /\ outcome \in [Goroutines -> {"none", "ok", "error"}]
  /\ call \in [Goroutines -> Made \union {NoRequest}]
  /\ waiting \subseteq Made /\ answers \subseteq Made
  /\ waiting \intersect answers = {}
  /\ DOMAIN answered = Goroutines
  /\ \A g \in Goroutines : phase[g] \in {"called", "sent"} => call[g] # NoRequest
  /\ \A g, h \in Goroutines :
       g # h /\ call[g] # NoRequest /\ call[h] # NoRequest => call[g].id # call[h].id
  /\ \A g \in Goroutines :
       phase[g] = "called" =>
         /\ call[g] \notin waiting \union answers
         /\ outcome[g] = "none"
         /\ \A h \in Goroutines : Delivered(h) => answered[h] # call[g]
  /\ \A g \in Goroutines :
       Delivered(g) => answered[g] \in Made /\ answered[g] \notin waiting \union answers
  /\ AnsweredOnce

\* NoRequest is no request.
NoneMade == NoRequest.id = 0 /\ NoRequest.op \notin SendOps

LEMMA InvInit == ASSUME NoneMade PROVE Init => Inv
BY DEF NoneMade, Init, Inv, Made, Delivered, AnsweredOnce

LEMMA InvStep ==
  ASSUME NoneMade, Inv, [Next]_vars
  PROVE  Inv'
<1> USE DEF callVars
<1>1. CASE UNCHANGED vars
  BY <1>1 DEF vars, Inv, Made, Delivered, AnsweredOnce
<1>2. ASSUME NEW g \in Goroutines, Call(g)
      PROVE  Inv'
  <2>1. PICK r \in [id : {calls + 1}, op : Ops, ticket : Tickets] :
          call' = [call EXCEPT ![g] = r]
    BY <1>2 DEF Call
  <2>2. /\ calls' \in Nat /\ Made \subseteq Made' /\ r \in Made'
        /\ r \notin Made /\ r # NoRequest
    BY <1>2, <2>1 DEF Call, Inv, Made, NoneMade
  <2>3. /\ call'[g] = r /\ \A h \in Goroutines \ {g} : call'[h] = call[h]
        /\ \A h \in Goroutines : Delivered(h)' => h # g /\ Delivered(h)
    BY <1>2, <2>1 DEF Call, Inv, Delivered
  <2>4. \A h \in Goroutines \ {g} : call[h] # NoRequest => call[h].id # r.id
    BY <2>1 DEF Inv, Made
  <2> QED
    BY <1>2, <2>1, <2>2, <2>3, <2>4 DEF Call, Inv, Delivered, AnsweredOnce
<1>3. ASSUME NEW g \in Goroutines, Connected(g)
      PROVE  Inv'
  BY <1>3 DEF Connected, Return, Inv, Made, Delivered, AnsweredOnce
<1>4. ASSUME NEW g \in Goroutines, Closed(g)
      PROVE  Inv'
  BY <1>4 DEF Closed, Return, Inv, Made, Delivered, AnsweredOnce
<1>5. ASSUME NEW g \in Goroutines, Send(g)
      PROVE  Inv'
  BY <1>5 DEF Send, Inv, Made, Delivered, AnsweredOnce
<1>6. ASSUME NEW g \in Goroutines, ReturnAnswer(g)
      PROVE  Inv'
  BY <1>6 DEF ReturnAnswer, Return, Inv, Made, Delivered, AnsweredOnce
<1>7. ASSUME NEW g \in Goroutines, ReturnError(g)
      PROVE  Inv'
  BY <1>7 DEF ReturnError, Return, Inv, Made, Delivered, AnsweredOnce
<1>8. ASSUME NEW g \in Goroutines, Die(g)
      PROVE  Inv'
  BY <1>8 DEF Die, Inv, Made, Delivered, AnsweredOnce
<1>9. ASSUME NEW r \in waiting, Answer(r)
      PROVE  Inv'
  BY <1>9 DEF Answer, Inv, Made, Delivered, AnsweredOnce
<1>10. CASE Lose
  BY <1>10 DEF Lose, Inv, Made, Delivered, AnsweredOnce
<1> QED
  BY <1>1, <1>2, <1>3, <1>4, <1>5, <1>6, <1>7, <1>8, <1>9, <1>10 DEF Next

\* An answer of the server ends one call at most.
THEOREM AtMostOnce == ASSUME NoneMade PROVE Spec => []AnsweredOnce
<1>1. Init => Inv
  BY InvInit
<1>2. Inv /\ [Next]_vars => Inv'
  BY InvStep
<1>3. Inv => AnsweredOnce
  BY DEF Inv
<1> QED
  BY <1>1, <1>2, <1>3, PTL DEF Spec
=============================================================================
