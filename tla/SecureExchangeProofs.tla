------------------------ MODULE SecureExchangeProofs ------------------------
(***************************************************************************)
(* Theorems about SecureExchange, for any bounds and any setups of client  *)
(* and server.                                                             *)
(***************************************************************************)
EXTENDS SecureExchange, DataLemmas, TLAPS

-----------------------------------------------------------------------------
(* The inductive invariant.                                                *)

\* What the send under way may still draw, the replies to requests that have been
\* written not counted: a second attempt with its reply, and the reply to this one.
Reserve == (IF pc # "idle" /\ attempt = 1 THEN 2 ELSE 0) + (IF pc = "write" THEN 1 ELSE 0)

\* Four nonces for each send are enough, everything on the wire has been drawn, and
\* what comes from a send comes from one that has been made.
DrawInv ==
  /\ drawn + Len(outbound) + Reserve <= 4 * calls
  /\ \A i \in 1..Len(outbound) :
       outbound[i].header <= drawn /\ outbound[i].salt <= drawn /\ outbound[i].call <= calls
  /\ \A i \in 1..Len(inbound) : inbound[i].header <= drawn
  /\ \A k \in 1..MaxCalls : k > calls => accepted[k] = 0
  /\ pc # "idle" => calls >= 1 /\ (newSecurityManager => nonce # 0)

\* A client without a manager never has a nonce to answer a challenge with.
NoManagerInv ==
  ~newSecurityManager =>
    /\ nonce = 0 /\ attempt = 1
    /\ \A i \in 1..Len(outbound) : outbound[i].salt = 0
    /\ setup.demands =>
         /\ \A k \in 1..MaxCalls : accepted[k] = 0
         /\ ~tainted => result # "ok" /\ \A i \in 1..Len(inbound) : inbound[i].status # "ok"

\* One that cannot compute its HMAC never writes.
NoHmacInv ==
  newSecurityManager /\ setup.auth = "unknown" =>
    /\ pc # "read" /\ attempt = 1 /\ result # "ok"
    /\ outbound = <<>> /\ inbound = <<>>
    /\ \A k \in 1..MaxCalls : accepted[k] = 0

\* The first attempt of a send is the last request there is.
OrderInv ==
  /\ pc = "write" /\ attempt = 1 =>
       accepted[calls] = 0 /\ \A i \in 1..Len(outbound) : outbound[i].call < calls
  /\ pc = "read" /\ attempt = 1 =>
       \A i \in 1..Len(outbound) : outbound[i].call = calls => i = Len(outbound)

\* The server has given another nonce since the one n was.
Spent(n) == n < srvNonce

\* A server that rotates its nonce acts once on a message, since by then whatever else
\* the message was or will be sent with is spent: its other requests on the wire, the
\* nonce of the client, and that of each challenge before the answer.
SpentInv ==
  setup.rotates /\ setup.demands =>
    /\ \A k \in 1..MaxCalls : accepted[k] <= 1
    /\ peerOpen =>
         /\ \A i \in 1..Len(outbound) : accepted[outbound[i].call] = 1 => Spent(outbound[i].salt)
         /\ pc # "idle" /\ accepted[calls] = 1 => Spent(nonce)
         /\ pc = "read" /\ attempt = 1 /\ accepted[calls] = 1 =>
              /\ outbound = <<>>
              /\ \A i \in 1..Len(inbound) :
                   inbound[i].status = "challenge" => Spent(inbound[i].header)

\* A server that demands nothing never makes the client try again.
ContentInv ==
  ~setup.demands =>
    /\ attempt = 1
    /\ \A i \in 1..Len(inbound) : inbound[i].status = "ok"
    /\ \A i, j \in 1..Len(outbound) : outbound[i].call = outbound[j].call => i = j
    /\ \A i \in 1..Len(outbound) : accepted[outbound[i].call] = 0
    /\ \A k \in 1..MaxCalls : accepted[k] <= 1

\* The request under way, and a reply to it.
Requested == [call |-> calls, header |-> nextNonce, salt |-> nonce]
Answered(r) ==
  /\ r.key = nonce /\ r.mac \in {0, nonce} /\ r.form \in {"empty"} \union setup.forms
  /\ r.status = "ok" => accepted[calls] = 1
  /\ r.status = "challenge" =>
       /\ setup.demands /\ attempt = 1 /\ accepted[calls] = 0
       /\ r.form = "empty" /\ r.header # 0
       /\ peerOpen => srvNonce = r.header

\* On a connection no exchange has failed on there is the request under way or its
\* reply, or nothing at all after the server has gone; and the second attempt has the
\* nonce that the server waits for.
SettledInv ==
  Secured /\ ~tainted =>
    /\ pc # "read" => outbound = <<>> /\ inbound = <<>>
    /\ pc = "read" => \/ outbound = <<Requested>> /\ inbound = <<>> /\ accepted[calls] = 0
                      \/ outbound = <<>> /\ inbound = <<>>
                      \/ outbound = <<>> /\ Len(inbound) = 1 /\ Answered(inbound[1])
    /\ pc = "write" => accepted[calls] = 0
    /\ attempt = 2 /\ peerOpen /\ (pc = "write" \/ outbound # <<>>) => nonce = srvNonce
    /\ (Encrypts => "flat" \notin setup.forms) =>
         result # "error" /\ (result = "ok" => accepted[calls] = 1)

IndInv ==
  /\ TypeOK /\ DrawInv /\ NoManagerInv /\ NoHmacInv
  /\ OrderInv /\ SpentInv /\ ContentInv /\ SettledInv

-----------------------------------------------------------------------------
(* Types, and the nonces that are drawn.                                   *)

LEMMA NonceRange == \A n \in Nat : n <= 4 * MaxCalls => n \in MaybeNonce
BY BoundsAssumption DEF MaybeNonce, Nonces, MaxNonces

LEMMA WireType ==
  /\ \A q \in Request : q.header \in Nat /\ q.salt \in Nat /\ q.call \in 1..MaxCalls
  /\ \A r \in Reply : r.header \in Nat /\ r.status \in {"ok", "challenge"}
BY BoundsAssumption DEF Request, Reply, MaybeNonce, Nonces, MaxNonces

LEMMA SetupType ==
  ASSUME setup \in Setups
  PROVE  /\ setup.rotates \in BOOLEAN /\ setup.demands \in BOOLEAN /\ setup.password \in BOOLEAN
         /\ setup.forms \subseteq {"empty", "flat", "nested"}
BY SetupsAssumption DEF Setup

\* The steps one by one: a reply is read in five ways.
LEMMA Steps ==
  ASSUME [Next]_vars
  PROVE  /\ setup' = setup
         /\ \/ Reconnect \/ RestartClient \/ Send \/ EncodeFail \/ WriteOk
            \/ (WriteFail \/ ReadTimeout \/ ReadEOF) /\ Fail
            \/ /\ pc = "read" /\ inbound # <<>>
               /\ \/ VerifyFails(Head(inbound)) \/ DecryptsToGarbage(Head(inbound))
                  \/ ReadOk(Head(inbound)) \/ Challenged(Head(inbound))
                  \/ ChallengedAgain(Head(inbound))
            \/ Serve \/ Challenge \/ ServeWrongly \/ PeerClose \/ RestartServer
            \/ UNCHANGED vars
BY DEF Next, Client, Server, Receive, WriteFail, ReadTimeout, ReadEOF, Done, vars

LEMMA Taken ==
  ASSUME TypeOK, DrawInv, inbound # <<>>
  PROVE  /\ Head(inbound) \in Reply /\ Tail(inbound) \in Seq(Reply)
         /\ Head(inbound) = inbound[1] /\ Head(inbound).header \in 0..drawn
         /\ Len(inbound) \in Nat /\ Len(Tail(inbound)) = Len(inbound) - 1
         /\ \A i \in 1..Len(Tail(inbound)) :
              /\ i + 1 \in 1..Len(inbound) /\ Tail(inbound)[i] = inbound[i + 1]
              /\ Tail(inbound)[i] \in Reply /\ Tail(inbound)[i].header \in 0..drawn
<1>1. inbound \in Seq(Reply) /\ drawn \in Nat
  BY DEF TypeOK
<1>2. Head(inbound) \in Reply /\ Tail(inbound) \in Seq(Reply)
  BY <1>1, SeqFacts
<1>3. 1 \in 1..Len(inbound) /\ Head(inbound) = inbound[1]
  BY <1>1, TailElems
<1>4. Head(inbound).header <= drawn
  BY <1>3 DEF DrawInv
<1>5. ASSUME NEW i \in 1..Len(Tail(inbound))
      PROVE  /\ i + 1 \in 1..Len(inbound) /\ Tail(inbound)[i] = inbound[i + 1]
             /\ Tail(inbound)[i] \in Reply /\ Tail(inbound)[i].header \in 0..drawn
  <2>1. i + 1 \in 1..Len(inbound) /\ Tail(inbound)[i] = inbound[i + 1]
    BY <1>1, TailElems
  <2>2. inbound[i + 1].header <= drawn /\ inbound[i + 1] \in Reply
    BY <1>1, <2>1 DEF DrawInv
  <2> QED
    BY <1>1, <2>1, <2>2, WireType
<1> QED
  BY <1>1, <1>2, <1>3, <1>4, <1>5, WireType, TailElems

LEMMA Asked ==
  ASSUME TypeOK, DrawInv, outbound # <<>>
  PROVE  /\ Head(outbound) \in Request /\ Tail(outbound) \in Seq(Request)
         /\ Head(outbound) = outbound[1] /\ 1 \in 1..Len(outbound)
         /\ Head(outbound).call \in 1..calls /\ Head(outbound).call \in 1..MaxCalls
         /\ Len(Tail(outbound)) = Len(outbound) - 1 /\ Len(outbound) \in Nat
         /\ \A i \in 1..Len(Tail(outbound)) :
              i + 1 \in 1..Len(outbound) /\ Tail(outbound)[i] = outbound[i + 1]
<1>1. outbound \in Seq(Request)
  BY DEF TypeOK
<1>2. Head(outbound) \in Request /\ Tail(outbound) \in Seq(Request)
  BY <1>1, SeqFacts
<1>3. 1 \in 1..Len(outbound) /\ Head(outbound) = outbound[1]
  BY <1>1, TailElems
<1>4. Head(outbound).call <= calls
  BY <1>3 DEF DrawInv
<1>5. Head(outbound).call \in 1..MaxCalls /\ calls \in Nat
  BY <1>2 DEF TypeOK, Request
<1> QED
  BY <1>1, <1>2, <1>3, <1>4, <1>5, TailElems

LEMMA TypeDrawInit == Init => TypeOK /\ DrawInv
<1> SUFFICES ASSUME Init PROVE TypeOK /\ DrawInv
  OBVIOUS
<1>1. outbound \in Seq(Request) /\ inbound \in Seq(Reply) /\ Len(outbound) = 0 /\ Len(inbound) = 0
  BY EmptyType, EmptyLen DEF Init
<1>2. connected \in BOOLEAN /\ peerOpen \in BOOLEAN /\ tainted \in BOOLEAN
  BY DEF Init
<1>3. TypeOK
  BY <1>1, <1>2, BoundsAssumption DEF Init, TypeOK
<1>4. DrawInv
  BY <1>1, BoundsAssumption DEF Init, DrawInv, Reserve
<1> QED
  BY <1>3, <1>4

LEMMA TypeDrawStep ==
  ASSUME TypeOK, DrawInv, [Next]_vars
  PROVE  TypeOK' /\ DrawInv'
<1> USE DEF clientVars, wireVars, serverVars, countVars
<1>1. /\ setup' = setup /\ setup \in Setups
      /\ outbound \in Seq(Request) /\ inbound \in Seq(Reply) /\ Len(outbound) \in Nat
      /\ drawn \in Nat /\ calls \in 0..MaxCalls /\ drawn <= 4 * MaxCalls
      /\ newSecurityManager' = newSecurityManager
      /\ drawn + Len(outbound) + Reserve <= 4 * calls /\ Reserve \in Nat
      /\ MaxCalls \in Nat /\ MaxConns \in Nat
  BY Steps, BoundsAssumption DEF TypeOK, newSecurityManager, DrawInv, Reserve
<1>0. /\ \A i \in 1..Len(outbound) :
            outbound[i].header \in 0..drawn /\ outbound[i].salt \in 0..drawn /\ outbound[i].call \in Nat
      /\ \A i \in 1..Len(inbound) : inbound[i].header \in 0..drawn
  <2>1. \A i \in 1..Len(outbound) : outbound[i] \in Request
    BY <1>1
  <2>2. \A i \in 1..Len(inbound) : inbound[i] \in Reply
    BY <1>1
  <2>3. /\ \A i \in 1..Len(outbound) :
              outbound[i].header <= drawn /\ outbound[i].salt <= drawn
        /\ \A i \in 1..Len(inbound) : inbound[i].header <= drawn
    BY DEF DrawInv
  <2>4. \A i \in 1..Len(outbound) :
          outbound[i].header \in Nat /\ outbound[i].salt \in Nat /\ outbound[i].call \in 1..MaxCalls
    BY <2>1, WireType
  <2>5. \A i \in 1..Len(inbound) : inbound[i].header \in Nat
    BY <2>2, WireType
  <2>6. drawn \in Nat
    BY <1>1
  <2> QED
    BY <2>3, <2>4, <2>5, <2>6
<1>2. CASE Reconnect
  <2>1. outbound' \in Seq(Request) /\ inbound' \in Seq(Reply) /\ Len(outbound') = 0 /\ Len(inbound') = 0
    BY <1>2, EmptyType, EmptyLen DEF Reconnect
  <2>2. connected' \in BOOLEAN /\ peerOpen' \in BOOLEAN /\ tainted' \in BOOLEAN
    BY <1>2 DEF Reconnect, TypeOK
  <2>3. TypeOK'
    BY <1>1, <1>2, <2>1, <2>2 DEF Reconnect, TypeOK
  <2> QED
    BY <1>1, <1>2, <2>1, <2>3 DEF Reconnect, TypeOK, DrawInv, Reserve
<1>3. CASE RestartClient
  <2>1. outbound' \in Seq(Request) /\ inbound' \in Seq(Reply) /\ Len(outbound') = 0 /\ Len(inbound') = 0
    BY <1>3, EmptyType, EmptyLen DEF RestartClient
  <2>2. connected' \in BOOLEAN /\ peerOpen' \in BOOLEAN /\ tainted' \in BOOLEAN
    BY <1>3 DEF RestartClient, TypeOK
  <2>3. TypeOK'
    BY <1>1, <1>3, <2>1, <2>2 DEF RestartClient, TypeOK
  <2> QED
    BY <1>1, <1>3, <2>1, <2>3 DEF RestartClient, TypeOK, DrawInv, Reserve
<1>4. CASE Send
  <2>1. drawn + Len(outbound) <= 4 * calls
    BY <1>1, <1>4 DEF Send, DrawInv, Reserve
  <2>2. /\ drawn' \in Nat /\ drawn <= drawn' /\ drawn' <= drawn + 1
        /\ nonce' \in 0..drawn' /\ nextNonce' \in 0..drawn' /\ (newSecurityManager => nonce' # 0)
    <3>1. drawn \in Nat /\ nonce \in 0..drawn /\ nextNonce \in 0..drawn
      BY <1>1 DEF TypeOK
    <3>2. newSecurityManager => /\ drawn' = drawn + 1 /\ nextNonce' = drawn + 1
                                /\ nonce' = IF nonce = 0 THEN drawn + 1 ELSE nonce
      BY <1>4 DEF Send, Apply, SaltAfterDraw
    <3>3. ~newSecurityManager => drawn' = drawn /\ nextNonce' = nextNonce /\ nonce' = nonce
      BY <1>4 DEF Send
    <3> QED
      BY <3>1, <3>2, <3>3
  <2>3. drawn' \in 0..(4 * calls')
    BY <1>1, <1>4, <2>1, <2>2 DEF Send
  <2>4. TypeOK'
    BY <1>1, <1>4, <2>2, <2>3 DEF Send, TypeOK
  <2>5. Reserve' = 3
    BY <1>4 DEF Send, Reserve
  <2>6. drawn' + Len(outbound') + Reserve' <= 4 * calls'
    BY <1>1, <1>4, <2>1, <2>2, <2>5 DEF Send
  <2>7. \A i \in 1..Len(outbound') :
          /\ outbound'[i].header <= drawn' /\ outbound'[i].salt <= drawn'
          /\ outbound'[i].call <= calls'
    <3>1. /\ drawn \in Nat /\ calls \in Nat /\ outbound' = outbound /\ calls' = calls + 1
          /\ \A i \in 1..Len(outbound) : outbound[i].call <= calls /\ outbound[i].call \in Nat
      <4>1. drawn \in Nat /\ calls \in Nat
        BY <1>1
      <4>2. outbound' = outbound /\ calls' = calls + 1
        BY <1>4 DEF Send
      <4> QED
        BY <1>0, <4>1, <4>2 DEF DrawInv
    <3> QED
      BY <1>0, <2>2, <3>1
  <2>8. \A i \in 1..Len(inbound') : inbound'[i].header <= drawn'
    <3>1. inbound' = inbound /\ drawn \in Nat
      BY <1>1, <1>4 DEF Send
    <3> QED
      BY <1>0, <2>2, <3>1
  <2> QED
    BY <1>1, <1>4, <2>2, <2>4, <2>6, <2>7, <2>8 DEF Send, DrawInv
<1>5. CASE EncodeFail
  <2>1. TypeOK' /\ Reserve' = 0 /\ Reserve \in Nat
    BY <1>1, <1>5 DEF EncodeFail, Return, TypeOK, Reserve
  <2>2. UNCHANGED <<calls, drawn, inbound, outbound, accepted, nonce>> /\ pc' = "idle"
    BY <1>5 DEF EncodeFail, Return
  <2>3. drawn + Len(outbound) + Reserve' <= 4 * calls /\ calls \in Nat
    BY <1>1, <2>1
  <2> QED
    BY <2>1, <2>2, <2>3 DEF DrawInv
<1>6. CASE WriteOk
  <2> DEFINE q == [call |-> calls, header |-> nextNonce, salt |-> nonce]
  <2>1. nextNonce \in Nat /\ nextNonce <= drawn /\ nonce \in Nat /\ nonce <= drawn
    BY DEF TypeOK
  <2>2. q \in Request
    <3>1. calls \in 1..MaxCalls
      BY <1>1, <1>6 DEF WriteOk, DrawInv
    <3>2. nextNonce \in MaybeNonce /\ nonce \in MaybeNonce
      BY <1>1, <2>1, NonceRange
    <3> QED
      BY <3>1, <3>2 DEF Request
  <2>3. /\ outbound' \in Seq(Request) /\ Len(outbound') = Len(outbound) + 1
        /\ q.header = nextNonce /\ q.salt = nonce /\ q.call = calls
        /\ \A i \in 1..Len(outbound') :
             outbound'[i] = q \/ (i \in 1..Len(outbound) /\ outbound'[i] = outbound[i])
    BY <1>1, <1>6, <2>2, AppendElems DEF WriteOk
  <2> HIDE DEF q
  <2>4. TypeOK'
    BY <1>1, <1>6, <2>3 DEF WriteOk, TypeOK
  <2>5. Reserve \in Nat /\ Reserve' = Reserve - 1
    BY <1>6 DEF WriteOk, Reserve, TypeOK
  <2>6. drawn' + Len(outbound') + Reserve' <= 4 * calls'
    <3>1. drawn' = drawn /\ calls' = calls
      BY <1>6 DEF WriteOk
    <3>2. Len(outbound') = Len(outbound) + 1 /\ Len(outbound) \in Nat /\ Len(outbound') \in Nat
      BY <1>1, <2>3
    <3>3. drawn + Len(outbound) + Reserve <= 4 * calls /\ drawn \in Nat /\ calls \in Nat
      BY <1>1
    <3> QED
      BY <2>5, <3>1, <3>2, <3>3
  <2>7. \A i \in 1..Len(outbound') :
          outbound'[i].header <= drawn /\ outbound'[i].salt <= drawn /\ outbound'[i].call <= calls
    <3>1. /\ drawn \in Nat /\ calls \in Nat /\ q.call <= calls
          /\ q.header <= drawn /\ q.salt <= drawn
      BY <1>1, <2>1, <2>3
    <3>2. \A i \in 1..Len(outbound) :
            outbound[i].header <= drawn /\ outbound[i].salt <= drawn /\ outbound[i].call <= calls
      BY DEF DrawInv
    <3> QED
      BY <2>3, <3>1, <3>2
  <2>8. /\ UNCHANGED <<calls, drawn, inbound, accepted, nonce>>
        /\ \A i \in 1..Len(inbound) : inbound[i].header <= drawn
        /\ \A k \in 1..MaxCalls : k > calls => accepted[k] = 0
        /\ calls >= 1 /\ (newSecurityManager => nonce # 0)
    BY <1>6 DEF WriteOk, DrawInv
  <2> QED
    BY <1>1, <2>4, <2>6, <2>7, <2>8 DEF DrawInv
<1>7. CASE Fail
  <2>1. TypeOK' /\ Reserve' = 0 /\ Reserve \in Nat
    BY <1>1, <1>7 DEF Fail, Return, TypeOK, Reserve
  <2>2. UNCHANGED <<calls, drawn, inbound, outbound, accepted, nonce>> /\ pc' = "idle"
    BY <1>7 DEF Fail, Return
  <2>3. drawn + Len(outbound) + Reserve' <= 4 * calls /\ calls \in Nat
    BY <1>1, <2>1
  <2> QED
    BY <2>1, <2>2, <2>3 DEF DrawInv
<1>8. ASSUME pc = "read", inbound # <<>>,
             \/ VerifyFails(Head(inbound)) \/ DecryptsToGarbage(Head(inbound))
             \/ ReadOk(Head(inbound)) \/ ChallengedAgain(Head(inbound))
      PROVE  TypeOK' /\ DrawInv'
  <2> DEFINE r == Head(inbound)
  <2>1. /\ r \in Reply /\ r.header \in 0..drawn /\ Tail(inbound) \in Seq(Reply)
        /\ \A i \in 1..Len(Tail(inbound)) : Tail(inbound)[i].header \in 0..drawn
    BY <1>8, Taken
  <2> HIDE DEF r
  <2>2. /\ inbound' = Tail(inbound) /\ nonce' \in {nonce, r.header}
        /\ (r.header = 0 => nonce' = nonce)
        /\ pc' = "idle" /\ result' \in {"ok", "error"}
        /\ UNCHANGED <<connected, outbound, peerOpen, srvNonce, accepted, calls, conns, tainted,
                       nextNonce, attempt, drawn>>
    BY <1>8 DEF VerifyFails, DecryptsToGarbage, ReadOk, ChallengedAgain, Read, Return,
                NonceAfter, r
  <2>3. TypeOK'
    BY <1>1, <2>1, <2>2 DEF TypeOK
  <2>4. Reserve' = 0 /\ Reserve \in Nat
    BY <2>2 DEF Reserve
  <2>5. drawn' + Len(outbound') + Reserve' <= 4 * calls'
    BY <1>1, <2>2, <2>4 DEF DrawInv
  <2>6. \A i \in 1..Len(inbound') : inbound'[i].header <= drawn'
    <3>1. inbound' = Tail(inbound) /\ drawn' = drawn /\ drawn \in Nat
      BY <1>1, <2>2
    <3> QED
      BY <2>1, <3>1
  <2> QED
    BY <2>2, <2>3, <2>5, <2>6 DEF DrawInv
<1>9. ASSUME pc = "read", inbound # <<>>, Challenged(Head(inbound))
      PROVE  TypeOK' /\ DrawInv'
  <2> DEFINE r == Head(inbound)
  <2>1. /\ r \in Reply /\ r.header \in 0..drawn /\ Tail(inbound) \in Seq(Reply)
        /\ \A i \in 1..Len(Tail(inbound)) : Tail(inbound)[i].header \in 0..drawn
    BY <1>9, Taken
  <2> HIDE DEF r
  <2>2. /\ inbound' = Tail(inbound)
        /\ nonce' \in {nonce, r.header, drawn + 1} /\ nonce' # 0
        /\ nextNonce' = drawn + 1 /\ drawn' = drawn + 1
        /\ attempt = 1 /\ attempt' = 2 /\ pc' = "write" /\ result' = result
        /\ UNCHANGED <<connected, outbound, peerOpen, srvNonce, accepted, calls, conns, tainted>>
    BY <1>1, <1>9 DEF Challenged, Apply, SaltAfterDraw, FirstAttempt, Read, NonceAfter, r
  <2>3. Reserve = 2 /\ Reserve' = 1
    BY <1>9, <2>2 DEF Reserve
  <2>4. drawn' + Len(outbound') + Reserve' <= 4 * calls'
    BY <1>1, <2>2, <2>3 DEF DrawInv
  <2>5. /\ nonce' \in 0..drawn' /\ nextNonce' \in 0..drawn'
        /\ drawn' \in Nat /\ drawn <= drawn'
        /\ srvNonce' \in 0..drawn'
    <3>1. /\ drawn \in Nat /\ nonce \in 0..drawn /\ srvNonce \in 0..drawn
          /\ r.header \in 0..drawn
      BY <1>1, <2>1 DEF TypeOK
    <3>2. /\ drawn' = drawn + 1 /\ nextNonce' = drawn + 1 /\ srvNonce' = srvNonce
          /\ nonce' \in {nonce, r.header, drawn + 1}
      BY <2>2
    <3> QED
      BY <3>1, <3>2
  <2>6. drawn' \in 0..(4 * calls')
    BY <1>1, <2>2, <2>3, <2>4
  <2>7. TypeOK'
    BY <1>1, <2>1, <2>2, <2>5, <2>6 DEF TypeOK
  <2>8. calls >= 1
    BY <1>1, <1>9 DEF DrawInv
  <2>9. /\ \A i \in 1..Len(outbound') :
             outbound'[i].header <= drawn' /\ outbound'[i].salt <= drawn' /\ outbound'[i].call <= calls'
        /\ \A i \in 1..Len(inbound') : inbound'[i].header <= drawn'
    <3>1. drawn \in Nat /\ calls \in Nat /\ drawn' = drawn + 1 /\ calls' = calls
      BY <1>1, <2>2
    <3>2. \A i \in 1..Len(outbound) : outbound[i].call <= calls
      BY DEF DrawInv
    <3>3. outbound' = outbound /\ inbound' = Tail(inbound)
      BY <2>2
    <3>4. \A i \in 1..Len(outbound') :
            outbound'[i].header <= drawn' /\ outbound'[i].salt <= drawn' /\ outbound'[i].call <= calls'
      BY <1>0, <3>1, <3>2, <3>3
    <3>5. \A i \in 1..Len(inbound') : inbound'[i].header <= drawn'
      BY <2>1, <3>1, <3>3
    <3> QED
      BY <3>4, <3>5
  <2> QED
    BY <1>1, <2>2, <2>4, <2>7, <2>8, <2>9 DEF DrawInv
<1>10. ASSUME NEW r \in Reply, outbound # <<>>,
              outbound' = Tail(outbound), inbound' = Append(inbound, r),
              drawn' \in {drawn, drawn + 1}, r.header <= drawn', srvNonce' \in 0..drawn',
              tainted' \in BOOLEAN, accepted' \in [1..MaxCalls -> Nat],
              \A k \in 1..MaxCalls : k > calls => accepted'[k] = 0,
              UNCHANGED <<clientVars, peerOpen, calls, conns>>
       PROVE  TypeOK' /\ DrawInv'
  <2>1. /\ UNCHANGED <<connected, nonce, nextNonce, pc, attempt, result, peerOpen, calls, conns>>
    BY <1>10
  <2>2. drawn \in Nat /\ drawn' \in Nat /\ drawn <= drawn' /\ drawn' <= drawn + 1
    BY <1>1, <1>10
  <2>3. drawn' + Len(outbound') + Reserve' <= 4 * calls' /\ Reserve' \in Nat /\ Len(outbound') \in Nat
    <3>1. Len(outbound) \in Nat \ {0} /\ Len(outbound') = Len(outbound) - 1
      BY <1>10, Asked
    <3>2. Reserve' = Reserve /\ calls' = calls
      BY <2>1 DEF Reserve
    <3>3. drawn + Len(outbound) + Reserve <= 4 * calls /\ Reserve \in Nat /\ drawn \in Nat /\ calls \in Nat
      BY <1>1
    <3> QED
      BY <2>2, <3>1, <3>2, <3>3
  <2>4. drawn' \in 0..(4 * calls') /\ calls' = calls /\ calls' \in 0..MaxCalls
    BY <1>1, <2>1, <2>2, <2>3
  <2>5. /\ inbound' \in Seq(Reply)
        /\ \A i \in 1..Len(inbound') :
             inbound'[i] = r \/ (i \in 1..Len(inbound) /\ inbound'[i] = inbound[i])
    BY <1>1, <1>10, AppendElems
  <2>6. outbound' \in Seq(Request)
    BY <1>10, Asked
  <2>7. TypeOK'
    <3>1. nonce' \in 0..drawn' /\ nextNonce' \in 0..drawn'
      BY <2>1, <2>2 DEF TypeOK
    <3> QED
      BY <1>1, <1>10, <2>1, <2>4, <2>5, <2>6, <3>1 DEF TypeOK
  <2>8. \A i \in 1..Len(inbound') : inbound'[i].header <= drawn'
    BY <1>0, <1>10, <2>2, <2>5
  <2>9. \A i \in 1..Len(outbound') :
          outbound'[i].header <= drawn' /\ outbound'[i].salt <= drawn' /\ outbound'[i].call <= calls'
    <3>1. calls \in Nat /\ calls' = calls
      BY <1>1, <2>1
    <3>2. \A i \in 1..Len(outbound) : outbound[i].call <= calls
      BY DEF DrawInv
    <3>3. \A i \in 1..Len(outbound') : i + 1 \in 1..Len(outbound) /\ outbound'[i] = outbound[i + 1]
      BY <1>10, Asked
    <3> QED
      BY <1>0, <2>2, <3>1, <3>2, <3>3
  <2>10. /\ \A k \in 1..MaxCalls : k > calls' => accepted'[k] = 0
         /\ pc' # "idle" => calls' >= 1 /\ (newSecurityManager' => nonce' # 0)
    BY <1>1, <1>10, <2>1 DEF DrawInv
  <2> QED
    BY <2>3, <2>7, <2>8, <2>9, <2>10 DEF DrawInv
<1>11. ASSUME NEW status \in {"ok", "challenge"}, NEW form \in {"empty", "flat", "nested"},
              NEW n \in NextSrvNonce, outbound # <<>>, ServerReply(Head(outbound), status, form, n),
              accepted' \in [1..MaxCalls -> Nat],
              \A k \in 1..MaxCalls : k > calls => accepted'[k] = 0
       PROVE  TypeOK' /\ DrawInv'
  <2> DEFINE q == Head(outbound)
  <2> DEFINE r == [call |-> q.call, status |-> status, form |-> form,
                   mac |-> IF setup.auth # "none" /\ status = "ok" THEN q.salt ELSE 0,
                   key |-> q.salt, header |-> n]
  <2>1. q.call \in 1..MaxCalls /\ q.salt \in MaybeNonce
    BY <1>11, Asked DEF Request
  <2> HIDE DEF q
  <2>2. drawn' \in {drawn, drawn + 1} /\ n \in 0..drawn' /\ drawn' \in Nat /\ drawn' <= 4 * MaxCalls
    <3>1. drawn' \in {drawn, drawn + 1} /\ n \in 0..drawn' /\ drawn' \in Nat
      BY <1>1, <1>11 DEF ServerReply, NextSrvNonce, TypeOK
    <3>2. Len(outbound) >= 1
      BY <1>1, <1>11, Asked
    <3> QED
      BY <1>1, <3>1, <3>2
  <2>3. n \in MaybeNonce
    BY <1>1, <2>2, NonceRange
  <2>4. r \in Reply
    BY <2>1, <2>3 DEF Reply, MaybeNonce
  <2>5. /\ outbound' = Tail(outbound) /\ inbound' = Append(inbound, r) /\ srvNonce' = n
        /\ UNCHANGED <<clientVars, peerOpen, calls, conns>> /\ tainted' = tainted
    BY <1>11 DEF ServerReply, q
  <2>6. r.header <= drawn' /\ tainted' \in BOOLEAN
    BY <2>2, <2>5 DEF TypeOK
  <2> HIDE DEF r
  <2> QED
    BY <1>10, <1>11, <2>2, <2>4, <2>5, <2>6
<1>12. CASE Serve
  <2>1. PICK form \in setup.forms, n \in NextSrvNonce : ServerReply(Head(outbound), "ok", form, n)
    BY <1>12 DEF Serve
  <2>2. form \in {"empty", "flat", "nested"}
    BY <1>1, SetupType
  <2>3. Head(outbound).call \in 1..MaxCalls /\ Head(outbound).call \in 1..calls
    BY <1>12, Asked DEF Serve
  <2>4. /\ accepted' = [accepted EXCEPT ![Head(outbound).call] = @ + 1]
        /\ accepted \in [1..MaxCalls -> Nat] /\ outbound # <<>>
    BY <1>12 DEF Serve, TypeOK
  <2>5. accepted' \in [1..MaxCalls -> Nat] /\ \A k \in 1..MaxCalls : k > calls => accepted'[k] = 0
    <3>1. /\ \A k \in 1..MaxCalls : k > calls => accepted[k] = 0
          /\ calls \in Nat /\ MaxCalls \in Nat
      BY <1>1 DEF DrawInv
    <3>2. accepted' \in [1..MaxCalls -> Nat]
      BY <2>3, <2>4
    <3> QED
      BY <2>3, <2>4, <3>1, <3>2
  <2> QED
    BY <2>1, <2>2, <2>4, <2>5, <1>11
<1>13. CASE Challenge
  <2>1. PICK n \in NextSrvNonce : ServerReply(Head(outbound), "challenge", "empty", n)
    BY <1>13 DEF Challenge
  <2>2. accepted' \in [1..MaxCalls -> Nat] /\ \A k \in 1..MaxCalls : k > calls => accepted'[k] = 0
    BY <1>13 DEF Challenge, TypeOK, DrawInv
  <2> QED
    BY <1>13, <2>1, <2>2, <1>11 DEF Challenge
<1>14. CASE ServeWrongly
  <2>1. PICK form \in setup.forms :
          inbound' = Append(inbound, [call |-> Head(outbound).call, status |-> "ok", form |-> form,
                                      mac |-> IF setup.auth # "none" THEN Wrong ELSE 0,
                                      key |-> Wrong, header |-> drawn + 1])
    BY <1>14 DEF ServeWrongly
  <2> DEFINE r == [call |-> Head(outbound).call, status |-> "ok", form |-> form,
                   mac |-> IF setup.auth # "none" THEN Wrong ELSE 0,
                   key |-> Wrong, header |-> drawn + 1]
  <2>2. /\ outbound # <<>> /\ outbound' = Tail(outbound) /\ drawn' = drawn + 1 /\ tainted' = TRUE
        /\ UNCHANGED <<clientVars, peerOpen, calls, conns>>
        /\ srvNonce' = srvNonce /\ accepted' = accepted
    BY <1>14 DEF ServeWrongly
  <2>3. Head(outbound).call \in 1..MaxCalls /\ Len(outbound) >= 1
    BY <1>1, <2>2, Asked
  <2>4. drawn + 1 <= 4 * MaxCalls /\ drawn + 1 \in Nat
    BY <1>1, <2>3
  <2>5. drawn + 1 \in MaybeNonce
    BY <2>4, NonceRange
  <2>6. form \in {"empty", "flat", "nested"}
    BY <1>1, SetupType
  <2>7. r \in Reply /\ r.header = drawn + 1
    BY <2>3, <2>5, <2>6 DEF Reply, MaybeNonce
  <2>8. /\ accepted' \in [1..MaxCalls -> Nat] /\ \A k \in 1..MaxCalls : k > calls => accepted'[k] = 0
        /\ srvNonce' \in 0..drawn'
    <3>1. srvNonce \in 0..drawn /\ accepted \in [1..MaxCalls -> Nat]
      BY DEF TypeOK
    <3>2. \A k \in 1..MaxCalls : k > calls => accepted[k] = 0
      BY DEF DrawInv
    <3>3. drawn \in Nat /\ drawn' = drawn + 1 /\ srvNonce' = srvNonce /\ accepted' = accepted
      BY <1>1, <2>2
    <3>4. srvNonce' \in 0..drawn'
      BY <3>1, <3>3
    <3> QED
      BY <3>1, <3>2, <3>3, <3>4
  <2> HIDE DEF r
  <2>9. r.header <= drawn' /\ drawn' \in {drawn, drawn + 1} /\ tainted' \in BOOLEAN
    BY <2>2, <2>4, <2>7
  <2>10. inbound' = Append(inbound, r)
    BY <2>1 DEF r
  <2> QED
    BY <1>10, <2>2, <2>7, <2>8, <2>9, <2>10
<1>15. CASE PeerClose \/ RestartServer
  <2>1. /\ outbound' = <<>> /\ inbound' = inbound /\ srvNonce' \in {srvNonce, 0}
        /\ peerOpen' = FALSE
        /\ UNCHANGED <<clientVars, accepted, countVars, tainted>>
    BY <1>15 DEF PeerClose, RestartServer
  <2>2. outbound' \in Seq(Request) /\ Len(outbound') = 0
    BY <2>1, EmptyType, EmptyLen
  <2>3. peerOpen' \in BOOLEAN
    BY <2>1
  <2>4. TypeOK'
    BY <1>1, <2>1, <2>2, <2>3 DEF TypeOK
  <2>5. Reserve' = Reserve
    BY <2>1 DEF Reserve
  <2> QED
    BY <1>1, <2>1, <2>2, <2>4, <2>5 DEF DrawInv
<1>16. CASE UNCHANGED vars
  BY <1>1, <1>16 DEF vars, TypeOK, DrawInv, Reserve
<1> QED
  BY Steps, <1>2, <1>3, <1>4, <1>5, <1>6, <1>7, <1>8, <1>9, <1>12, <1>13, <1>14, <1>15, <1>16

\* What the server does with the first request: it accepts it, challenges it, or is
\* another server.
Accepted(q, r) ==
  /\ Expected(q) /\ r.status = "ok" /\ r.form \in setup.forms
  /\ r.key = q.salt /\ r.mac \in {0, q.salt}
  /\ r.header = srvNonce' /\ srvNonce' \in NextSrvNonce
  /\ accepted' = [accepted EXCEPT ![q.call] = @ + 1] /\ tainted' = tainted
Rejected(q, r) ==
  /\ ~Expected(q) /\ r.status = "challenge" /\ r.form = "empty"
  /\ r.key = q.salt /\ r.mac = 0
  /\ r.header = srvNonce' /\ srvNonce' \in NextSrvNonce \ {0}
  /\ accepted' = accepted /\ tainted' = tainted
Misunderstood(r) ==
  r.status = "ok" /\ accepted' = accepted /\ srvNonce' = srvNonce /\ tainted' = TRUE

LEMMA Answering ==
  ASSUME TypeOK, DrawInv, [Next]_vars, Serve \/ Challenge \/ ServeWrongly
  PROVE  /\ outbound # <<>> /\ peerOpen /\ outbound' = Tail(outbound)
         /\ UNCHANGED <<clientVars, peerOpen, calls, conns>>
         /\ \E r \in Reply :
              /\ inbound' = Append(inbound, r)
              /\ \A i \in 1..Len(inbound') :
                   inbound'[i] = r \/ (i \in 1..Len(inbound) /\ inbound'[i] = inbound[i])
              /\ Accepted(Head(outbound), r) \/ Rejected(Head(outbound), r) \/ Misunderstood(r)
<1> DEFINE q == Head(outbound)
<1>1. /\ outbound # <<>> /\ peerOpen /\ outbound' = Tail(outbound)
      /\ UNCHANGED <<clientVars, peerOpen, calls, conns>>
  BY DEF Serve, Challenge, ServeWrongly, ServerReply, serverVars
<1>2. \E r : /\ inbound' = Append(inbound, r)
             /\ Accepted(q, r) \/ Rejected(q, r) \/ Misunderstood(r)
  <2>1. CASE Serve
    <3>1. PICK form \in setup.forms, n \in NextSrvNonce : ServerReply(q, "ok", form, n)
      BY <2>1 DEF Serve
    <3> DEFINE r == [call |-> q.call, status |-> "ok", form |-> form,
                     mac |-> IF setup.auth # "none" THEN q.salt ELSE 0,
                     key |-> q.salt, header |-> n]
    <3>2. inbound' = Append(inbound, r) /\ srvNonce' = n /\ tainted' = tainted
      BY <3>1 DEF ServerReply
    <3>3. Expected(q) /\ accepted' = [accepted EXCEPT ![q.call] = @ + 1]
      BY <2>1 DEF Serve
    <3>4. Accepted(q, r)
      BY <3>1, <3>2, <3>3 DEF Accepted
    <3> QED
      BY <3>2, <3>4
  <2>2. CASE Challenge
    <3>1. PICK n \in NextSrvNonce \ {0} : ServerReply(q, "challenge", "empty", n)
      BY <2>2 DEF Challenge
    <3> DEFINE r == [call |-> q.call, status |-> "challenge", form |-> "empty",
                     mac |-> 0, key |-> q.salt, header |-> n]
    <3>2. inbound' = Append(inbound, r) /\ srvNonce' = n /\ tainted' = tainted
      BY <3>1 DEF ServerReply
    <3>3. ~Expected(q) /\ accepted' = accepted
      BY <2>2 DEF Challenge
    <3>4. Rejected(q, r)
      BY <3>1, <3>2, <3>3 DEF Rejected
    <3> QED
      BY <3>2, <3>4
  <2>3. CASE ServeWrongly
    BY <2>3 DEF ServeWrongly, Misunderstood, serverVars
  <2> QED
    BY <2>1, <2>2, <2>3
<1>3. PICK r : /\ inbound' = Append(inbound, r)
               /\ Accepted(q, r) \/ Rejected(q, r) \/ Misunderstood(r)
  BY <1>2
<1>4. inbound \in Seq(Reply) /\ inbound' \in Seq(Reply)
  BY TypeDrawStep DEF TypeOK
<1>5. inbound'[Len(inbound) + 1] = r /\ Len(inbound') = Len(inbound) + 1 /\ Len(inbound) \in Nat
  BY <1>3, <1>4
<1>6. r \in Reply
  BY <1>4, <1>5
<1>7. \A i \in 1..Len(inbound') :
        inbound'[i] = r \/ (i \in 1..Len(inbound) /\ inbound'[i] = inbound[i])
  BY <1>3, <1>4, <1>6, AppendElems
<1> QED
  BY <1>1, <1>3, <1>6, <1>7

\* Every variable has its type; no more than four nonces are drawn for a send, by the
\* two sides together, and each nonce that anybody has was drawn (SecureExchange!TypeOK,
\* security.go:62-84, client.go:197-233).
THEOREM TypeCorrect == Spec => [](TypeOK /\ DrawInv)
<1>1. Init => TypeOK /\ DrawInv
  BY TypeDrawInit
<1>2. TypeOK /\ DrawInv /\ [Next]_vars => TypeOK' /\ DrawInv'
  BY TypeDrawStep
<1> QED
  BY <1>1, <1>2, PTL DEF Spec

-----------------------------------------------------------------------------
(* A client that is not configured right.                                  *)

LEMMA NoHmacStep ==
  ASSUME TypeOK, DrawInv, NoHmacInv, [Next]_vars
  PROVE  NoHmacInv'
<1> USE DEF clientVars, wireVars, serverVars, countVars
<1>1. setup' = setup /\ (newSecurityManager' <=> newSecurityManager)
  BY Steps DEF newSecurityManager
<1> SUFFICES ASSUME newSecurityManager, setup.auth = "unknown"
             PROVE  /\ pc' # "read" /\ attempt' = 1 /\ result' # "ok"
                    /\ outbound' = <<>> /\ inbound' = <<>>
                    /\ \A k \in 1..MaxCalls : accepted'[k] = 0
  BY <1>1 DEF NoHmacInv
<1>2. /\ pc # "read" /\ attempt = 1 /\ result # "ok"
      /\ outbound = <<>> /\ inbound = <<>>
      /\ \A k \in 1..MaxCalls : accepted[k] = 0
  BY DEF NoHmacInv
<1>3. ~Computable
  BY DEF Computable, Authenticates
<1>4. CASE Reconnect
  BY <1>2, <1>4 DEF Reconnect
<1>5. CASE RestartClient
  BY <1>2, <1>5 DEF RestartClient
<1>6. CASE Send
  BY <1>2, <1>6 DEF Send
<1>7. CASE EncodeFail
  BY <1>2, <1>7 DEF EncodeFail, Return
<1>8. CASE Fail
  BY <1>2, <1>8 DEF Fail, Return
<1>9. CASE PeerClose \/ RestartServer
  BY <1>2, <1>9 DEF PeerClose, RestartServer
<1>10. CASE UNCHANGED vars
  BY <1>2, <1>10 DEF vars
<1>11. ~WriteOk /\ ~Serve /\ ~Challenge /\ ~ServeWrongly
  BY <1>2, <1>3 DEF WriteOk, Serve, Challenge, ServeWrongly
<1> QED
  BY Steps, <1>2, <1>4, <1>5, <1>6, <1>7, <1>8, <1>9, <1>10, <1>11

LEMMA NoManagerStep ==
  ASSUME TypeOK, DrawInv, NoManagerInv, [Next]_vars
  PROVE  NoManagerInv'
<1> USE DEF clientVars, wireVars, serverVars, countVars
<1>1. setup' = setup /\ (newSecurityManager' <=> newSecurityManager)
  BY Steps DEF newSecurityManager
<1> DEFINE NoneTaken == \A k \in 1..MaxCalls : accepted[k] = 0
<1> DEFINE NoneOk == \A i \in 1..Len(inbound) : inbound[i].status # "ok"
<1> DEFINE Unsalted == \A i \in 1..Len(outbound) : outbound[i].salt = 0
<1> SUFFICES ASSUME ~newSecurityManager
             PROVE  /\ nonce' = 0 /\ attempt' = 1
                    /\ Unsalted'
                    /\ setup.demands => NoneTaken' /\ (~tainted' => result' # "ok" /\ NoneOk')
  BY <1>1 DEF NoManagerInv
<1>2. /\ nonce = 0 /\ attempt = 1 /\ Unsalted
      /\ setup.demands => NoneTaken /\ (~tainted => result # "ok" /\ NoneOk)
  BY DEF NoManagerInv
<1>3. ~Authenticates /\ ~Encrypts /\ ~Secured
  BY DEF Authenticates, Encrypts, Secured
<1>4. CASE Reconnect
  <2>1. Unsalted' /\ NoneOk'
    BY <1>4, EmptyLen DEF Reconnect
  <2> QED
    BY <1>2, <1>4, <2>1 DEF Reconnect
<1>5. CASE RestartClient
  <2>1. Unsalted' /\ NoneOk'
    BY <1>5, EmptyLen DEF RestartClient
  <2> QED
    BY <1>2, <1>5, <2>1 DEF RestartClient
<1>6. CASE Send
  BY <1>2, <1>6 DEF Send
<1>7. CASE EncodeFail
  BY <1>2, <1>7 DEF EncodeFail, Return
<1>8. CASE WriteOk
  <2> DEFINE q == [call |-> calls, header |-> nextNonce, salt |-> nonce]
  <2>1. outbound \in Seq(Request) /\ Append(outbound, q) = outbound'
    BY <1>8 DEF WriteOk, TypeOK
  <2>2. \A i \in 1..Len(outbound') :
          outbound'[i] = q \/ (i \in 1..Len(outbound) /\ outbound'[i] = outbound[i])
    BY <2>1
  <2>3. Unsalted'
    BY <1>2, <2>2
  <2> QED
    BY <1>2, <1>8, <2>3 DEF WriteOk
<1>9. CASE Fail
  BY <1>2, <1>9 DEF Fail, Return
<1>10. ASSUME pc = "read", inbound # <<>>,
              \/ VerifyFails(Head(inbound)) \/ DecryptsToGarbage(Head(inbound))
              \/ ReadOk(Head(inbound)) \/ Challenged(Head(inbound))
              \/ ChallengedAgain(Head(inbound))
       PROVE  /\ nonce' = 0 /\ attempt' = 1
              /\ Unsalted'
              /\ setup.demands => NoneTaken' /\ (~tainted' => result' # "ok" /\ NoneOk')
  <2> DEFINE r == Head(inbound)
  <2>1. MacOk(r) /\ KeyOk(r) /\ NonceAfter(r) = nonce
    BY <1>3 DEF MacOk, KeyOk, Ciphered, NonceAfter
  <2>2. ReadOk(r) \/ ChallengedAgain(r)
    BY <1>10, <2>1 DEF VerifyFails, PaddingFails, DecryptsToGarbage, Challenged
  <2>3. /\ inbound' = Tail(inbound) /\ nonce' = nonce
        /\ result' = "ok" => r.status = "ok"
        /\ UNCHANGED <<outbound, accepted, tainted, attempt>>
    BY <2>1, <2>2 DEF ReadOk, ChallengedAgain, Read, Return
  <2>4. NoneOk => NoneOk' /\ r.status # "ok"
    BY <1>10, <2>3, Taken
  <2> QED
    BY <1>2, <2>3, <2>4
<1>11. CASE Serve \/ Challenge \/ ServeWrongly
  <2>1. PICK r \in Reply :
          /\ \A i \in 1..Len(inbound') :
               inbound'[i] = r \/ (i \in 1..Len(inbound) /\ inbound'[i] = inbound[i])
          /\ Accepted(Head(outbound), r) \/ Rejected(Head(outbound), r) \/ Misunderstood(r)
    BY <1>11, Answering
  <2>2. outbound # <<>> /\ outbound' = Tail(outbound) /\ nonce' = nonce /\ attempt' = attempt /\ result' = result
    BY <1>11, Answering
  <2>3. Unsalted' /\ Head(outbound).salt = 0
    BY <1>2, <2>2, Asked
  <2>4. setup.demands => /\ r.status = "ok" => tainted' = TRUE
                         /\ accepted' = accepted /\ (tainted' = tainted \/ tainted' = TRUE)
    BY <2>1, <2>3 DEF Accepted, Rejected, Misunderstood, Expected
  <2>5. setup.demands => (~tainted' => NoneOk')
    BY <1>2, <2>1, <2>4
  <2> QED
    BY <1>2, <2>2, <2>3, <2>4, <2>5
<1>12. CASE PeerClose \/ RestartServer
  <2>1. Unsalted'
    BY <1>12, EmptyLen DEF PeerClose, RestartServer
  <2> QED
    BY <1>2, <1>12, <2>1 DEF PeerClose, RestartServer
<1>13. CASE UNCHANGED vars
  BY <1>2, <1>13 DEF vars
<1> QED
  BY Steps, <1>4, <1>5, <1>6, <1>7, <1>8, <1>9, <1>10, <1>11, <1>12, <1>13

LEMMA ConfiguredInit == Init => NoManagerInv /\ NoHmacInv
BY EmptyLen DEF Init, NoManagerInv, NoHmacInv

\* Without a security manager, and with an HMAC of no known type, the client gets
\* nowhere with a server that demands security (client.go:53-60, security.go:256).
THEOREM Refused == Spec => []MisconfiguredIsRefused
<1> DEFINE I == TypeOK /\ DrawInv /\ NoManagerInv /\ NoHmacInv
<1>1. Init => I
  BY TypeDrawInit, ConfiguredInit
<1>2. I /\ [Next]_vars => I'
  BY TypeDrawStep, NoManagerStep, NoHmacStep
<1>3. I => MisconfiguredIsRefused
  BY DEF NoManagerInv, NoHmacInv, newSecurityManager, MisconfiguredIsRefused
<1> QED
  BY <1>1, <1>2, <1>3, PTL DEF Spec

-----------------------------------------------------------------------------
(* A message counts once.                                                  *)

\* The replies that are read, whichever it is.
LEMMA Reading ==
  ASSUME pc = "read", inbound # <<>>,
         \/ VerifyFails(Head(inbound)) \/ DecryptsToGarbage(Head(inbound))
         \/ ReadOk(Head(inbound)) \/ ChallengedAgain(Head(inbound))
  PROVE  /\ pc' = "idle" /\ inbound' = Tail(inbound)
         /\ UNCHANGED <<attempt, drawn, connected, outbound, peerOpen, srvNonce, accepted, calls, tainted>>
BY DEF VerifyFails, DecryptsToGarbage, ReadOk, ChallengedAgain, Read, Return, serverVars

LEMMA Retrying ==
  ASSUME TypeOK, DrawInv, pc = "read", inbound # <<>>, Challenged(Head(inbound))
  PROVE  /\ pc' = "write" /\ attempt = 1 /\ attempt' = 2 /\ inbound' = Tail(inbound)
         /\ Head(inbound).status = "challenge" /\ newSecurityManager
         /\ nonce' = NonceAfter(Head(inbound)) /\ nonce' \in {nonce, Head(inbound).header}
         /\ UNCHANGED <<outbound, peerOpen, srvNonce, accepted, calls, tainted, result>>
<1>1. /\ pc' = "write" /\ attempt = 1 /\ attempt' = 2 /\ inbound' = Tail(inbound)
      /\ Head(inbound).status = "challenge" /\ newSecurityManager
      /\ UNCHANGED <<outbound, peerOpen, srvNonce, accepted, calls, tainted, result>>
  BY DEF Challenged, FirstAttempt, Read, serverVars, IsChallenge
<1>2. nonce' = SaltAfterDraw(NonceAfter(Head(inbound)))
  BY DEF Challenged, Apply
<1>3. nonce # 0
  BY <1>1 DEF DrawInv
<1>4. NonceAfter(Head(inbound)) \in {nonce, Head(inbound).header} /\ NonceAfter(Head(inbound)) # 0
  BY <1>3 DEF NonceAfter
<1> QED
  BY <1>1, <1>2, <1>4 DEF SaltAfterDraw

LEMMA OrderStep ==
  ASSUME TypeOK, DrawInv, OrderInv, [Next]_vars
  PROVE  OrderInv'
<1> USE DEF clientVars, wireVars, serverVars, countVars
<1> DEFINE Earlier == accepted[calls] = 0 /\ \A i \in 1..Len(outbound) : outbound[i].call < calls
<1> DEFINE AtEnd == \A i \in 1..Len(outbound) : outbound[i].call = calls => i = Len(outbound)
<1>1. /\ pc = "write" /\ attempt = 1 => Earlier
      /\ pc = "read" /\ attempt = 1 => AtEnd
  BY DEF OrderInv
<1>2. /\ outbound \in Seq(Request) /\ Len(outbound) \in Nat /\ calls \in Nat
      /\ calls <= MaxCalls /\ MaxCalls \in Nat
      /\ \A i \in 1..Len(outbound) : outbound[i].call \in Nat /\ outbound[i].call <= calls
      /\ \A k \in 1..MaxCalls : k > calls => accepted[k] = 0
  <2>1. outbound \in Seq(Request) /\ Len(outbound) \in Nat /\ calls \in Nat
    BY BoundsAssumption DEF TypeOK
  <2>2. \A i \in 1..Len(outbound) : outbound[i] \in Request
    BY <2>1
  <2>3. \A i \in 1..Len(outbound) : outbound[i].call \in 1..MaxCalls
    BY <2>2, WireType
  <2>4. calls \in 0..MaxCalls
    BY DEF TypeOK
  <2>5. /\ \A i \in 1..Len(outbound) : outbound[i].call <= calls
        /\ \A k \in 1..MaxCalls : k > calls => accepted[k] = 0
    BY DEF DrawInv
  <2> QED
    BY <2>1, <2>3, <2>4, <2>5, BoundsAssumption
<1>3. CASE Reconnect
  BY <1>3 DEF Reconnect, OrderInv
<1>4. CASE RestartClient
  BY <1>4 DEF RestartClient, OrderInv
<1>5. CASE Send
  <2>1. pc' = "write" /\ calls' = calls + 1 /\ outbound' = outbound /\ accepted' = accepted /\ calls' \in 1..MaxCalls
    BY <1>2, <1>5 DEF Send
  <2>2. Earlier'
    BY <1>2, <2>1
  <2> QED
    BY <2>1, <2>2 DEF OrderInv
<1>6. CASE EncodeFail \/ Fail
  BY <1>6 DEF EncodeFail, Fail, Return, OrderInv
<1>7. CASE WriteOk
  <2> DEFINE q == [call |-> calls, header |-> nextNonce, salt |-> nonce]
  <2>1. /\ pc = "write" /\ pc' = "read" /\ calls' = calls /\ attempt' = attempt
        /\ outbound' = Append(outbound, q)
    BY <1>7 DEF WriteOk
  <2>2. /\ Len(outbound') = Len(outbound) + 1
        /\ \A i \in 1..Len(outbound') :
             i = Len(outbound') \/ (i \in 1..Len(outbound) /\ outbound'[i] = outbound[i])
    BY <1>2, <2>1
  <2>3. attempt = 1 => AtEnd'
    BY <1>1, <1>2, <2>1, <2>2
  <2> QED
    BY <2>1, <2>3 DEF OrderInv
<1>8. ASSUME pc = "read", inbound # <<>>,
             \/ VerifyFails(Head(inbound)) \/ DecryptsToGarbage(Head(inbound))
             \/ ReadOk(Head(inbound)) \/ ChallengedAgain(Head(inbound))
      PROVE  OrderInv'
  BY <1>8, Reading DEF OrderInv
<1>9. ASSUME pc = "read", inbound # <<>>, Challenged(Head(inbound))
      PROVE  OrderInv'
  BY <1>9, Retrying DEF OrderInv
<1>10. CASE Serve \/ Challenge \/ ServeWrongly
  <2>1. /\ outbound # <<>> /\ outbound' = Tail(outbound)
        /\ calls' = calls /\ pc' = pc /\ attempt' = attempt
        /\ \A k \in 1..MaxCalls : k # Head(outbound).call => accepted'[k] = accepted[k]
    <3>1. /\ outbound # <<>> /\ outbound' = Tail(outbound)
          /\ calls' = calls /\ pc' = pc /\ attempt' = attempt
      BY <1>10, Answering
    <3>2. accepted' = accepted \/ accepted' = [accepted EXCEPT ![Head(outbound).call] = @ + 1]
      BY <1>10, Answering DEF Accepted, Rejected, Misunderstood
    <3> QED
      BY <3>1, <3>2 DEF TypeOK
  <2>2. /\ \A i \in 1..Len(outbound') : i + 1 \in 1..Len(outbound) /\ outbound'[i] = outbound[i + 1]
        /\ Len(outbound') = Len(outbound) - 1
        /\ Head(outbound) = outbound[1] /\ 1 \in 1..Len(outbound)
    BY <2>1, Asked
  <2>3. pc = "write" /\ attempt = 1 => Earlier'
    <3>1. pc # "idle" => calls >= 1 /\ calls \in 1..MaxCalls
      BY <1>2 DEF DrawInv
    <3> QED
      BY <1>1, <1>2, <2>1, <2>2, <3>1
  <2>4. ASSUME pc = "read", attempt = 1 PROVE AtEnd'
    <3>1. ASSUME NEW i \in 1..Len(outbound'), outbound'[i].call = calls'
          PROVE  i = Len(outbound')
      <4>1. i + 1 \in 1..Len(outbound) /\ outbound[i + 1].call = calls
        BY <2>1, <2>2, <3>1
      <4>2. i + 1 = Len(outbound)
        BY <1>1, <2>4, <4>1
      <4> QED
        BY <1>2, <2>2, <4>2
    <3> QED
      BY <3>1
  <2> QED
    BY <2>1, <2>3, <2>4 DEF OrderInv
<1>11. CASE PeerClose \/ RestartServer
  <2>1. outbound' = <<>> /\ UNCHANGED <<pc, attempt, calls, accepted>>
    BY <1>11 DEF PeerClose, RestartServer
  <2>2. Len(outbound') = 0
    BY <2>1, EmptyLen
  <2> QED
    BY <1>1, <2>1, <2>2 DEF OrderInv
<1>12. CASE UNCHANGED vars
  BY <1>12 DEF vars, OrderInv
<1> QED
  BY Steps, <1>3, <1>4, <1>5, <1>6, <1>7, <1>8, <1>9, <1>10, <1>11, <1>12

LEMMA SpentStep ==
  ASSUME TypeOK, DrawInv, OrderInv, SpentInv, [Next]_vars
  PROVE  SpentInv'
<1> USE DEF clientVars, wireVars, serverVars, countVars
<1> DEFINE Once == \A k \in 1..MaxCalls : accepted[k] <= 1
<1> DEFINE WireSpent ==
      \A i \in 1..Len(outbound) : accepted[outbound[i].call] = 1 => Spent(outbound[i].salt)
<1> DEFINE NonceSpent == pc # "idle" /\ accepted[calls] = 1 => Spent(nonce)
<1> DEFINE ChallengesSpent ==
      \A i \in 1..Len(inbound) : inbound[i].status = "challenge" => Spent(inbound[i].header)
<1> DEFINE FirstSpent ==
      pc = "read" /\ attempt = 1 /\ accepted[calls] = 1 => outbound = <<>> /\ ChallengesSpent
<1>1. setup' = setup
  BY Steps
<1> SUFFICES ASSUME setup.rotates, setup.demands
             PROVE  Once' /\ (peerOpen' => WireSpent' /\ NonceSpent' /\ FirstSpent')
  BY <1>1 DEF SpentInv
<1>2. Once /\ (peerOpen => WireSpent /\ NonceSpent /\ FirstSpent)
  BY DEF SpentInv
<1>3. /\ outbound \in Seq(Request) /\ inbound \in Seq(Reply)
      /\ drawn \in Nat /\ nonce \in Nat /\ nonce <= drawn /\ srvNonce \in Nat
      /\ \A i \in 1..Len(outbound) :
           outbound[i].salt \in Nat /\ outbound[i].salt <= drawn /\ outbound[i].call \in 1..MaxCalls
      /\ \A i \in 1..Len(inbound) : inbound[i].header \in Nat /\ inbound[i].header <= drawn
  <2>1. outbound \in Seq(Request) /\ inbound \in Seq(Reply)
    BY DEF TypeOK
  <2>2. drawn \in Nat /\ nonce \in Nat /\ nonce <= drawn /\ srvNonce \in Nat
    BY BoundsAssumption DEF TypeOK
  <2>3. /\ \A i \in 1..Len(outbound) : outbound[i] \in Request
        /\ \A i \in 1..Len(inbound) : inbound[i] \in Reply
    BY <2>1
  <2> QED
    BY <2>1, <2>2, <2>3, WireType DEF DrawInv
<1>4. CASE Reconnect
  <2>1. accepted' = accepted /\ outbound' = <<>> /\ pc' = "idle"
    BY <1>4 DEF Reconnect
  <2>2. Len(outbound') = 0
    BY <2>1, EmptyLen
  <2> QED
    BY <1>2, <2>1, <2>2
<1>5. CASE RestartClient \/ PeerClose \/ RestartServer
  <2>1. accepted' = accepted /\ ~peerOpen'
    BY <1>5 DEF RestartClient, PeerClose, RestartServer
  <2> QED
    BY <1>2, <2>1
<1>6. CASE Send
  <2>1. UNCHANGED <<accepted, outbound, peerOpen, srvNonce>> /\ calls' = calls + 1 /\ calls' \in 1..MaxCalls
    BY <1>6, BoundsAssumption DEF Send, TypeOK
  <2>2. accepted'[calls'] = 0
    BY <2>1, BoundsAssumption DEF DrawInv, TypeOK
  <2> QED
    BY <1>2, <2>1, <2>2 DEF Spent
<1>7. CASE EncodeFail \/ Fail
  <2>1. UNCHANGED <<accepted, outbound, peerOpen, srvNonce>> /\ pc' = "idle"
    BY <1>7 DEF EncodeFail, Fail, Return
  <2> QED
    BY <1>2, <2>1 DEF Spent
<1>8. CASE WriteOk
  <2> DEFINE q == [call |-> calls, header |-> nextNonce, salt |-> nonce]
  <2>1. /\ pc = "write" /\ UNCHANGED <<accepted, peerOpen, srvNonce, nonce, attempt, calls>>
        /\ outbound' = Append(outbound, q) /\ q.salt = nonce /\ q.call = calls
    BY <1>8 DEF WriteOk
  <2> HIDE DEF q
  <2>2. \A i \in 1..Len(outbound') :
          outbound'[i] = q \/ (i \in 1..Len(outbound) /\ outbound'[i] = outbound[i])
    BY <1>3, <2>1
  <2>3. attempt = 1 => accepted[calls] = 0
    BY <2>1 DEF OrderInv
  <2>4. peerOpen => NonceSpent' /\ FirstSpent'
    BY <1>2, <2>1, <2>3 DEF Spent
  <2>5. peerOpen => WireSpent'
    BY <1>2, <2>1, <2>2 DEF Spent
  <2> QED
    BY <1>2, <2>1, <2>4, <2>5
<1>9. ASSUME pc = "read", inbound # <<>>,
             \/ VerifyFails(Head(inbound)) \/ DecryptsToGarbage(Head(inbound))
             \/ ReadOk(Head(inbound)) \/ ChallengedAgain(Head(inbound))
      PROVE  Once' /\ (peerOpen' => WireSpent' /\ NonceSpent' /\ FirstSpent')
  BY <1>2, <1>9, Reading DEF Spent
<1>10. ASSUME pc = "read", inbound # <<>>, Challenged(Head(inbound))
       PROVE  Once' /\ (peerOpen' => WireSpent' /\ NonceSpent' /\ FirstSpent')
  <2>1. peerOpen /\ accepted[calls] = 1 => Spent(nonce) /\ Spent(Head(inbound).header)
    <3>1. 1 \in 1..Len(inbound) /\ Head(inbound) = inbound[1]
      BY <1>3, <1>10, TailElems
    <3> QED
      BY <1>2, <1>10, <3>1, Retrying
  <2> QED
    BY <1>2, <1>10, <2>1, Retrying DEF Spent
<1>11. CASE Serve \/ Challenge \/ ServeWrongly
  <2> DEFINE q == Head(outbound)
  <2>1. /\ outbound # <<>> /\ peerOpen /\ outbound' = Tail(outbound)
        /\ UNCHANGED <<pc, attempt, nonce, calls, peerOpen>>
    BY <1>11, Answering
  <2>2. PICK r \in Reply :
          /\ \A i \in 1..Len(inbound') :
               inbound'[i] = r \/ (i \in 1..Len(inbound) /\ inbound'[i] = inbound[i])
          /\ Accepted(q, r) \/ Rejected(q, r) \/ Misunderstood(r)
    BY <1>11, Answering
  <2>3. /\ \A i \in 1..Len(outbound') : i + 1 \in 1..Len(outbound) /\ outbound'[i] = outbound[i + 1]
        /\ Len(outbound') = Len(outbound) - 1 /\ Len(outbound) \in Nat
        /\ q = outbound[1] /\ 1 \in 1..Len(outbound) /\ q.call \in 1..MaxCalls
    BY <2>1, Asked
  <2> HIDE DEF q
  <2>4. q.salt \in Nat
    BY <1>3, <2>3
  <2>5. ~(pc = "read" /\ attempt = 1 /\ accepted[calls] = 1)
    BY <1>2, <2>1
  <2>6. CASE Accepted(q, r) \/ Rejected(q, r)
    <3>1. srvNonce' = drawn + 1
      BY <2>6 DEF Accepted, Rejected, NextSrvNonce
    <3>2. WireSpent' /\ NonceSpent'
      <4>1. \A i \in 1..Len(outbound') : outbound'[i].salt \in Nat /\ outbound'[i].salt <= drawn
        BY <1>3, <2>3
      <4>2. WireSpent'
        BY <1>3, <3>1, <4>1 DEF Spent
      <4>3. NonceSpent'
        BY <1>3, <2>1, <3>1 DEF Spent
      <4> QED
        BY <4>2, <4>3
    <3>3. CASE Rejected(q, r)
      <4>1. accepted' = accepted
        BY <3>3 DEF Rejected
      <4> QED
        BY <1>2, <2>1, <2>5, <3>2, <4>1
    <3>4. CASE Accepted(q, r)
      <4>1. accepted' = [accepted EXCEPT ![q.call] = @ + 1] /\ r.status = "ok"
        BY <3>4 DEF Accepted
      <4>2. accepted[q.call] # 1
        BY <1>2, <1>3, <2>1, <2>3, <2>4, <3>4 DEF Accepted, Expected, Spent
      <4>3. accepted[q.call] = 0 /\ accepted \in [1..MaxCalls -> Nat]
        <5>1. accepted \in [1..MaxCalls -> Nat]
          BY DEF TypeOK
        <5> QED
          BY <1>2, <2>3, <4>2, <5>1
      <4>4. Once'
        BY <1>2, <2>3, <4>1, <4>3
      <4>5. ChallengesSpent'
        BY <1>3, <2>2, <3>1, <4>1 DEF Spent
      <4>6. ASSUME pc = "read", attempt = 1, accepted'[calls] = 1
            PROVE  outbound' = <<>>
        <5>1. calls \in 1..MaxCalls
          BY <4>6, BoundsAssumption DEF DrawInv, TypeOK
        <5>2. q.call = calls
          BY <2>5, <4>1, <4>3, <4>6, <5>1
        <5>3. 1 = Len(outbound)
          BY <2>3, <4>6, <5>2 DEF OrderInv
        <5> QED
          BY <1>3, <2>1, <5>3
      <4> QED
        BY <2>1, <3>2, <4>4, <4>5, <4>6
    <3> QED
      BY <2>6, <3>3, <3>4
  <2>7. CASE Misunderstood(r)
    <3>1. accepted' = accepted /\ srvNonce' = srvNonce
      BY <2>7 DEF Misunderstood
    <3>2. WireSpent'
      BY <1>2, <2>1, <2>3, <3>1 DEF Spent
    <3> QED
      BY <1>2, <2>1, <2>5, <3>1, <3>2 DEF Spent
  <2> QED
    BY <2>2, <2>6, <2>7
<1>12. CASE UNCHANGED vars
  BY <1>2, <1>12 DEF vars, Spent
<1> QED
  BY Steps, <1>4, <1>5, <1>6, <1>7, <1>8, <1>9, <1>10, <1>11, <1>12

LEMMA ContentStep ==
  ASSUME TypeOK, DrawInv, OrderInv, ContentInv, [Next]_vars
  PROVE  ContentInv'
<1> USE DEF clientVars, wireVars, serverVars, countVars
<1> DEFINE Pleased == \A i \in 1..Len(inbound) : inbound[i].status = "ok"
<1> DEFINE Apart == \A i, j \in 1..Len(outbound) : outbound[i].call = outbound[j].call => i = j
<1> DEFINE Waiting == \A i \in 1..Len(outbound) : accepted[outbound[i].call] = 0
<1> DEFINE Once == \A k \in 1..MaxCalls : accepted[k] <= 1
<1>1. setup' = setup
  BY Steps
<1> SUFFICES ASSUME ~setup.demands
             PROVE  attempt' = 1 /\ Pleased' /\ Apart' /\ Waiting' /\ Once'
  BY <1>1 DEF ContentInv
<1>2. attempt = 1 /\ Pleased /\ Apart /\ Waiting /\ Once
  BY DEF ContentInv
<1>3. /\ outbound \in Seq(Request) /\ inbound \in Seq(Reply) /\ accepted \in [1..MaxCalls -> Nat]
      /\ \A i \in 1..Len(outbound) : outbound[i].call \in 1..MaxCalls
  <2>1. outbound \in Seq(Request) /\ inbound \in Seq(Reply) /\ accepted \in [1..MaxCalls -> Nat]
    BY DEF TypeOK
  <2>2. \A i \in 1..Len(outbound) : outbound[i] \in Request
    BY <2>1
  <2> QED
    BY <2>1, <2>2, WireType
<1>4. CASE Reconnect \/ RestartClient
  <2>1. accepted' = accepted /\ outbound' = <<>> /\ inbound' = <<>> /\ attempt' = 1
    BY <1>2, <1>4 DEF Reconnect, RestartClient
  <2>2. Len(outbound') = 0 /\ Len(inbound') = 0
    BY <2>1, EmptyLen
  <2> QED
    BY <1>2, <2>1, <2>2
<1>5. CASE Send \/ EncodeFail \/ Fail
  <2>1. UNCHANGED <<accepted, outbound, inbound>> /\ attempt' = 1
    BY <1>2, <1>5 DEF Send, EncodeFail, Fail
  <2> QED
    BY <1>2, <2>1
<1>6. CASE WriteOk
  <2> DEFINE q == [call |-> calls, header |-> nextNonce, salt |-> nonce]
  <2>1. /\ pc = "write" /\ UNCHANGED <<accepted, inbound, attempt>>
        /\ outbound' = Append(outbound, q) /\ q.call = calls
    BY <1>6 DEF WriteOk
  <2>2. accepted[calls] = 0 /\ \A i \in 1..Len(outbound) : outbound[i].call < calls
    BY <1>2, <2>1 DEF OrderInv
  <2>3. calls \in Nat
    BY BoundsAssumption DEF TypeOK
  <2> HIDE DEF q
  <2>4. /\ Len(outbound') = Len(outbound) + 1 /\ Len(outbound) \in Nat
        /\ outbound'[Len(outbound) + 1] = q
        /\ \A i \in 1..Len(outbound') :
             i = Len(outbound) + 1 \/ (i \in 1..Len(outbound) /\ outbound'[i] = outbound[i])
    BY <1>3, <2>1
  <2>5. Apart'
    <3>1. \A i \in 1..Len(outbound) : outbound[i].call # calls
      BY <1>3, <2>2, <2>3
    <3> QED
      BY <1>2, <2>1, <2>4, <3>1
  <2>6. Waiting'
    BY <1>2, <2>1, <2>2, <2>4
  <2> QED
    BY <1>2, <2>1, <2>5, <2>6
<1>7. ASSUME pc = "read", inbound # <<>>,
             \/ VerifyFails(Head(inbound)) \/ DecryptsToGarbage(Head(inbound))
             \/ ReadOk(Head(inbound)) \/ ChallengedAgain(Head(inbound))
      PROVE  attempt' = 1 /\ Pleased' /\ Apart' /\ Waiting' /\ Once'
  BY <1>2, <1>7, Reading, Taken
<1>8. ASSUME pc = "read", inbound # <<>>, Challenged(Head(inbound))
      PROVE  FALSE
  BY <1>2, <1>8, Retrying, <1>3, TailElems
<1>9. CASE Serve \/ Challenge \/ ServeWrongly
  <2> DEFINE q == Head(outbound)
  <2>1. outbound # <<>> /\ outbound' = Tail(outbound) /\ attempt' = attempt
    BY <1>9, Answering
  <2>2. PICK r \in Reply :
          /\ \A i \in 1..Len(inbound') :
               inbound'[i] = r \/ (i \in 1..Len(inbound) /\ inbound'[i] = inbound[i])
          /\ Accepted(q, r) \/ Rejected(q, r) \/ Misunderstood(r)
    BY <1>9, Answering
  <2>3. /\ \A i \in 1..Len(outbound') : i + 1 \in 1..Len(outbound) /\ outbound'[i] = outbound[i + 1]
        /\ Len(outbound') = Len(outbound) - 1 /\ Len(outbound) \in Nat
        /\ q = outbound[1] /\ 1 \in 1..Len(outbound) /\ q.call \in 1..MaxCalls
    BY <2>1, Asked
  <2> HIDE DEF q
  <2>4. /\ r.status = "ok"
        /\ accepted' = accepted \/ accepted' = [accepted EXCEPT ![q.call] = @ + 1]
    BY <2>2 DEF Accepted, Rejected, Misunderstood, Expected
  <2>5. \A i \in 1..Len(outbound') : outbound'[i].call # q.call
    BY <1>2, <2>3
  <2>6. accepted[q.call] = 0
    BY <1>2, <2>3
  <2>10. \A k \in 1..MaxCalls : accepted'[k] = accepted[k] \/ (k = q.call /\ accepted'[k] = 1)
    <3>1. CASE accepted' = [accepted EXCEPT ![q.call] = @ + 1]
      <4>1. accepted'[q.call] = 1
        BY <1>3, <2>3, <2>6, <3>1
      <4> QED
        BY <1>3, <3>1, <4>1
    <3> QED
      BY <2>4, <3>1
  <2>7. ASSUME NEW i \in 1..Len(outbound') PROVE accepted'[outbound'[i].call] = 0
    <3>1. i + 1 \in 1..Len(outbound) /\ outbound'[i] = outbound[i + 1]
      BY <2>3
    <3>2. outbound'[i].call \in 1..MaxCalls /\ accepted[outbound'[i].call] = 0
      BY <1>2, <1>3, <3>1
    <3>3. outbound'[i].call # q.call
      BY <2>5
    <3> QED
      BY <2>10, <3>2, <3>3
  <2>8. Once'
    BY <1>2, <1>3, <2>10
  <2>9. Apart'
    <3>1. ASSUME NEW i \in 1..Len(outbound'), NEW j \in 1..Len(outbound'),
                 outbound'[i].call = outbound'[j].call
          PROVE  i = j
      <4>1. i + 1 \in 1..Len(outbound) /\ j + 1 \in 1..Len(outbound)
        BY <2>3
      <4>2. outbound[i + 1].call = outbound[j + 1].call
        BY <2>3, <3>1
      <4>3. i + 1 = j + 1
        BY <1>2, <4>1, <4>2
      <4> QED
        BY <2>3, <4>3
    <3> QED
      BY <3>1
  <2> QED
    BY <1>2, <2>1, <2>2, <2>4, <2>7, <2>8, <2>9
<1>10. CASE PeerClose \/ RestartServer
  <2>1. outbound' = <<>> /\ UNCHANGED <<inbound, attempt, accepted>>
    BY <1>10 DEF PeerClose, RestartServer
  <2>2. Len(outbound') = 0
    BY <2>1, EmptyLen
  <2> QED
    BY <1>2, <2>1, <2>2
<1>11. CASE UNCHANGED vars
  BY <1>2, <1>11 DEF vars
<1> QED
  BY Steps, <1>4, <1>5, <1>6, <1>7, <1>8, <1>9, <1>10, <1>11

LEMMA CountingInit == Init => OrderInv /\ SpentInv /\ ContentInv
<1> SUFFICES ASSUME Init PROVE OrderInv /\ SpentInv /\ ContentInv
  OBVIOUS
<1>1. /\ outbound = <<>> /\ inbound = <<>> /\ pc = "idle" /\ attempt = 1 /\ ~peerOpen
      /\ \A k \in 1..MaxCalls : accepted[k] = 0
      /\ Len(outbound) = 0 /\ Len(inbound) = 0
  BY EmptyLen DEF Init
<1> QED
  BY <1>1 DEF OrderInv, SpentInv, ContentInv

\* Whatever is lost, closed or restarted, and however often a send is answered with a
\* challenge, a server that rotates its nonce acts on the message of a send once at
\* most (the retry of client.go:213-233 sends the same message again).
THEOREM OnceOnly == Spec => []ActedOnAtMostOnce
<1> DEFINE I == TypeOK /\ DrawInv /\ OrderInv /\ SpentInv /\ ContentInv
<1>1. Init => I
  BY TypeDrawInit, CountingInit
<1>2. I /\ [Next]_vars => I'
  BY TypeDrawStep, OrderStep, SpentStep, ContentStep
<1>3. I => ActedOnAtMostOnce
  BY DEF SpentInv, ContentInv, ActedOnAtMostOnce
<1> QED
  BY <1>1, <1>2, <1>3, PTL DEF Spec

-----------------------------------------------------------------------------
(* One retry is enough.                                                    *)

\* The only reply there is, to the request under way, is what a reply should be.
LEMMA Understood ==
  ASSUME TypeOK, SettledInv, Secured, ~tainted, pc = "read", inbound # <<>>
  PROVE  /\ outbound = <<>> /\ Tail(inbound) = <<>> /\ Head(inbound) \in Reply
         /\ Answered(Head(inbound)) /\ MacOk(Head(inbound)) /\ KeyOk(Head(inbound))
<1>1. inbound \in Seq(Reply)
  BY DEF TypeOK
<1>2. outbound = <<>> /\ Len(inbound) = 1 /\ Answered(inbound[1])
  BY DEF SettledInv
<1>3. Head(inbound) = inbound[1] /\ Tail(inbound) = <<>> /\ Head(inbound) \in Reply
  <2>1. /\ Head(inbound) \in Reply /\ Tail(inbound) \in Seq(Reply)
        /\ Head(inbound) = inbound[1] /\ Len(Tail(inbound)) = 0
    BY <1>1, <1>2, SeqFacts, TailElems
  <2>2. \A s \in Seq(Reply) : Len(s) = 0 => s = <<>>
    OBVIOUS
  <2> QED
    BY <2>1, <2>2
<1>4. MacOk(Head(inbound)) /\ KeyOk(Head(inbound))
  BY <1>2, <1>3 DEF Answered, MacOk, KeyOk
<1> QED
  BY <1>2, <1>3, <1>4

LEMMA SettledStep ==
  ASSUME TypeOK, DrawInv, SettledInv, [Next]_vars
  PROVE  SettledInv'
<1> USE DEF clientVars, wireVars, serverVars, countVars
<1> DEFINE Quiet == pc # "read" => outbound = <<>> /\ inbound = <<>>
<1> DEFINE Flight ==
      pc = "read" => \/ outbound = <<Requested>> /\ inbound = <<>> /\ accepted[calls] = 0
                     \/ outbound = <<>> /\ inbound = <<>>
                     \/ outbound = <<>> /\ Len(inbound) = 1 /\ Answered(inbound[1])
<1> DEFINE Unacted == pc = "write" => accepted[calls] = 0
<1> DEFINE Synced ==
      attempt = 2 /\ peerOpen /\ (pc = "write" \/ outbound # <<>>) => nonce = srvNonce
<1> DEFINE Fine == (Encrypts => "flat" \notin setup.forms) =>
                     result # "error" /\ (result = "ok" => accepted[calls] = 1)
<1> DEFINE Settled == Quiet /\ Flight /\ Unacted /\ Synced /\ Fine
<1>1. setup' = setup /\ (Secured' <=> Secured)
  BY Steps DEF Secured, Authenticates, Encrypts, newSecurityManager
<1> SUFFICES ASSUME Secured, ~tainted' PROVE Settled'
  BY <1>1 DEF SettledInv
<1>2. ~tainted => Settled
  BY DEF SettledInv
<1>3. newSecurityManager
  BY DEF Secured, Authenticates, Encrypts
<1>4. CASE Reconnect \/ RestartClient
  <2>1. outbound' = <<>> /\ inbound' = <<>> /\ pc' = "idle" /\ result' = "none"
    BY <1>4 DEF Reconnect, RestartClient
  <2> QED
    BY <2>1
<1>5. CASE Send
  <2>1. /\ ~tainted /\ pc = "idle" /\ pc' = "write" /\ attempt' = 1 /\ result' = "none"
        /\ outbound' = outbound /\ inbound' = inbound
    BY <1>5 DEF Send
  <2>2. accepted' = accepted /\ calls' = calls + 1 /\ calls' \in 1..MaxCalls
    BY <1>5, BoundsAssumption DEF Send, TypeOK
  <2>3. accepted'[calls'] = 0
    BY <2>2, BoundsAssumption DEF DrawInv, TypeOK
  <2> QED
    BY <1>2, <2>1, <2>3
<1>6. CASE EncodeFail
  <2>1. /\ ~tainted /\ pc = "write" /\ pc' = "idle" /\ result' = "unsent"
        /\ outbound' = outbound /\ inbound' = inbound
    BY <1>6 DEF EncodeFail, Return
  <2> QED
    BY <1>2, <2>1
<1>7. CASE WriteOk
  <2>1. /\ ~tainted /\ pc = "write" /\ pc' = "read"
        /\ UNCHANGED <<calls, nextNonce, nonce, accepted, attempt, peerOpen, srvNonce, result, inbound>>
        /\ outbound' = Append(outbound, Requested)
    BY <1>7 DEF WriteOk, Requested
  <2>2. outbound = <<>> /\ inbound = <<>> /\ accepted[calls] = 0
    BY <1>2, <2>1
  <2>3. outbound' = <<Requested>> /\ Requested' = Requested
    BY <2>1, <2>2 DEF Requested
  <2>4. Flight'
    BY <2>1, <2>2, <2>3
  <2>5. Fine'
    BY <1>1, <1>2, <2>1 DEF Encrypts, newSecurityManager
  <2> QED
    BY <1>2, <2>1, <2>4, <2>5
<1>8. CASE Fail
  BY <1>8 DEF Fail
<1>9. ASSUME pc = "read", inbound # <<>>,
             \/ VerifyFails(Head(inbound)) \/ DecryptsToGarbage(Head(inbound))
             \/ ReadOk(Head(inbound)) \/ ChallengedAgain(Head(inbound))
      PROVE  Settled'
  <2> DEFINE r == Head(inbound)
  <2>1. /\ pc' = "idle" /\ inbound' = Tail(inbound)
        /\ UNCHANGED <<outbound, accepted, calls>> /\ ~tainted
    BY <1>9, Reading
  <2>2. outbound = <<>> /\ Tail(inbound) = <<>> /\ Answered(r) /\ MacOk(r) /\ KeyOk(r)
    BY <1>9, <2>1, Understood
  <2> HIDE DEF r
  <2>3. ReadOk(r)
    <3>1. VerifyFails(r) \/ DecryptsToGarbage(r) \/ ReadOk(r) \/ ChallengedAgain(r)
      BY <1>9 DEF r
    <3>2. ~VerifyFails(r) /\ ~DecryptsToGarbage(r)
      BY <2>2 DEF VerifyFails, PaddingFails, DecryptsToGarbage
    <3>3. ~ChallengedAgain(r)
      BY <1>3, <2>2 DEF ChallengedAgain, IsChallenge, FirstAttempt, Answered
    <3> QED
      BY <3>1, <3>2, <3>3
  <2>4. r.status = "ok" /\ accepted[calls] = 1
    BY <2>2, <2>3 DEF ReadOk, Answered
  <2>5. result' = "ok" \/ ~Readable(r)
    BY <2>3 DEF ReadOk, Return
  <2>6. Readable(r) \/ (Encrypts /\ "flat" \in setup.forms)
    <3>1. r.form \in {"empty"} \union setup.forms /\ setup.forms \subseteq {"empty", "flat", "nested"}
      BY <2>2, SetupType DEF Answered, TypeOK
    <3> QED
      BY <3>1 DEF Readable, Ciphered
  <2>7. Fine'
    <3>1. Encrypts' <=> Encrypts
      BY <1>1 DEF Encrypts, newSecurityManager
    <3> QED
      BY <1>1, <2>1, <2>4, <2>5, <2>6, <3>1
  <2> QED
    BY <2>1, <2>2, <2>7
<1>10. ASSUME pc = "read", inbound # <<>>, Challenged(Head(inbound))
       PROVE  Settled'
  <2> DEFINE r == Head(inbound)
  <2>1. /\ pc' = "write" /\ inbound' = Tail(inbound) /\ nonce' = NonceAfter(r)
        /\ r.status = "challenge" /\ ~tainted
        /\ UNCHANGED <<outbound, peerOpen, srvNonce, accepted, calls, result>>
    BY <1>10, Retrying
  <2>2. outbound = <<>> /\ Tail(inbound) = <<>> /\ Answered(r)
    BY <1>10, <2>1, Understood
  <2> HIDE DEF r
  <2>3. accepted[calls] = 0 /\ r.form = "empty" /\ r.header # 0 /\ (peerOpen => srvNonce = r.header)
    BY <2>1, <2>2 DEF Answered
  <2>4. Synced'
    BY <2>1, <2>3 DEF NonceAfter
  <2>5. Fine'
    BY <1>1, <1>2, <2>1 DEF Encrypts, newSecurityManager
  <2> QED
    BY <2>1, <2>2, <2>3, <2>4, <2>5
<1>11. CASE Serve \/ Challenge \/ ServeWrongly
  <2> DEFINE q == Head(outbound)
  <2>1. /\ outbound # <<>> /\ peerOpen /\ outbound' = Tail(outbound)
        /\ UNCHANGED <<pc, attempt, nonce, calls, result>>
    BY <1>11, Answering
  <2>2. PICK r \in Reply :
          /\ inbound' = Append(inbound, r)
          /\ Accepted(q, r) \/ Rejected(q, r) \/ Misunderstood(r)
    BY <1>11, Answering
  <2>3. Accepted(q, r) \/ Rejected(q, r)
    BY <2>2 DEF Misunderstood
  <2>4. ~tainted
    BY <2>3 DEF Accepted, Rejected
  <2>5. pc = "read" /\ outbound = <<Requested>> /\ inbound = <<>> /\ accepted[calls] = 0
    BY <1>2, <2>1, <2>4
  <2>6. q = Requested /\ q.salt = nonce /\ q.call = calls /\ outbound' = <<>>
    BY <2>1, <2>5 DEF Requested
  <2>7. Len(inbound') = 1 /\ inbound'[1] = r
    BY <2>2, <2>5
  <2> HIDE DEF q
  <2>8. calls \in 1..MaxCalls /\ accepted \in [1..MaxCalls -> Nat]
    BY <2>5, BoundsAssumption DEF DrawInv, TypeOK
  <2>9. /\ r.key = nonce /\ r.mac \in {0, nonce} /\ r.form \in {"empty"} \union setup.forms
        /\ r.status = "ok" => accepted'[calls] = 1
        /\ r.status = "challenge" => /\ setup.demands /\ attempt = 1 /\ accepted'[calls] = 0
                                     /\ r.form = "empty" /\ r.header # 0 /\ srvNonce' = r.header
    <3>1. CASE Accepted(q, r)
      BY <2>5, <2>6, <2>8, <3>1 DEF Accepted
    <3>2. CASE Rejected(q, r)
      <4>1. setup.demands /\ attempt = 1
        <5>1. setup.demands /\ ~(nonce # 0 /\ nonce = (IF srvNonce = 0 THEN q.header ELSE srvNonce))
          BY <2>6, <3>2 DEF Rejected, Expected
        <5>2. nonce # 0
          BY <1>3, <2>5 DEF DrawInv
        <5>3. attempt = 2 => nonce = srvNonce
          BY <1>2, <2>1, <2>4
        <5>4. attempt \in {1, 2}
          BY DEF TypeOK
        <5> QED
          BY <5>1, <5>2, <5>3, <5>4
      <4> QED
        BY <2>5, <2>6, <3>2, <4>1 DEF Rejected
    <3> QED
      BY <2>3, <3>1, <3>2
  <2>10. Answered(inbound[1])'
    BY <1>1, <2>1, <2>7, <2>9 DEF Answered
  <2>11. Fine'
    <3>1. Encrypts' <=> Encrypts
      BY <1>1 DEF Encrypts, newSecurityManager
    <3> QED
      BY <1>1, <1>2, <2>1, <2>4, <2>5, <3>1
  <2> QED
    BY <2>1, <2>5, <2>6, <2>7, <2>10, <2>11
<1>12. CASE PeerClose \/ RestartServer
  <2>1. /\ outbound' = <<>> /\ ~peerOpen' /\ ~tainted
        /\ UNCHANGED <<pc, attempt, nonce, calls, result, inbound, accepted>>
    BY <1>12 DEF PeerClose, RestartServer
  <2>2. Answered(inbound[1]) => Answered(inbound[1])'
    BY <1>1, <2>1 DEF Answered
  <2>3. Flight'
    BY <1>2, <2>1, <2>2
  <2>4. Fine'
    BY <1>1, <1>2, <2>1 DEF Encrypts, newSecurityManager
  <2> QED
    BY <1>2, <2>1, <2>3, <2>4
<1>13. CASE UNCHANGED vars
  <2>1. (Requested' = Requested) /\ (Answered(inbound[1])' <=> Answered(inbound[1])) /\ (Encrypts' <=> Encrypts)
    BY <1>13 DEF vars, Requested, Answered, Encrypts, newSecurityManager
  <2> QED
    BY <1>2, <1>13, <2>1 DEF vars
<1> QED
  BY Steps, <1>4, <1>5, <1>6, <1>7, <1>8, <1>9, <1>10, <1>11, <1>12, <1>13

LEMMA SettledInit == Init => SettledInv
BY DEF Init, SettledInv

\* On a connection no exchange has failed on, a send with a security manager succeeds
\* in two attempts, whatever was left of the nonces, and the server has then acted on
\* its message (client.go:197-233, security.go:62-84).
THEOREM RetryOnce == Spec => []OneRetrySuffices
<1> DEFINE I == TypeOK /\ DrawInv /\ SettledInv
<1>1. Init => I
  BY TypeDrawInit, SettledInit
<1>2. I /\ [Next]_vars => I'
  BY TypeDrawStep, SettledStep
<1>3. I => OneRetrySuffices
  BY DEF SettledInv, OneRetrySuffices
<1> QED
  BY <1>1, <1>2, <1>3, PTL DEF Spec

\* All of the invariant, part by part.
THEOREM Inductive == Spec => []IndInv
<1>1. Init => IndInv
  BY TypeDrawInit, ConfiguredInit, CountingInit, SettledInit DEF IndInv
<1>2. IndInv /\ [Next]_vars => IndInv'
  BY TypeDrawStep, NoManagerStep, NoHmacStep, OrderStep, SpentStep, ContentStep, SettledStep
     DEF IndInv
<1> QED
  BY <1>1, <1>2, PTL DEF Spec
=============================================================================
