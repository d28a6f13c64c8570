-------------------------- MODULE SecureExchange --------------------------
(***************************************************************************)
(* The exchange with a security manager (security.go), with its retry on   *)
(* an authentication challenge (client.go:197-233), against a server that  *)
(* keeps the nonce protocol as the client expects it.                      *)
(*                                                                         *)
(* The mutex of TCPClient serialises the exchanges (module TcpClient), so  *)
(* that one caller is enough here, and a reply is one unit: what a partly  *)
(* read reply does is the subject of TcpClient as well.                    *)
(*                                                                         *)
(* Cryptography.  A nonce is a number, drawn once: 0 is nil, or a header   *)
(* without the field.  A MAC is the nonce that salted it and a ciphertext  *)
(* is known by the nonce its key and IV were derived from, so that         *)
(* verification and decryption succeed iff the nonces are equal.           *)
(***************************************************************************)
EXTENDS Integers, Sequences

CONSTANTS
  MaxCalls,      \* bound: sends
  MaxConns,      \* bound: connections
  Setups         \* the configurations of the client and the habits of the server

\* auth, cipher: config.Authentication and config.Encryption, "unknown" for a value that
\* is none of the constants (the empty string is one); password: there is one;
\* demands: the server wants the security that the client is configured for; rotates:
\* it draws a nonce for every reply; forms: how it lays out a successful one.
Setup == [auth: {"none", "hmac", "unknown"}, cipher: {"none", "cbc", "ctr", "unknown"},
          password: BOOLEAN, demands: BOOLEAN, rotates: BOOLEAN,
          forms: SUBSET {"empty", "flat", "nested"}]

ASSUME BoundsAssumption == MaxCalls \in Nat /\ MaxConns \in Nat
ASSUME SetupsAssumption == Setups \subseteq Setup

VARIABLES
  setup,       \* one of Setups, for good
  connected,   \* c.connected, with c.conn
  nonce,       \* sm.nonce
  nextNonce,   \* sm.nextNonce
  pc,          \* where the caller is
  attempt,     \* 1, or 2 in the retry
  result,      \* what the last send returned
  outbound,    \* requests the server has not read
  inbound,     \* replies the client has not read
  peerOpen,    \* the server has not closed the connection
  srvNonce,    \* the nonce the server expects as the next salt, 0 for none
  accepted,    \* accepted[k]: how often the server acted on the message of send k
  drawn,       \* nonces drawn so far, by either side
  calls,       \* sends so far
  conns,       \* connections so far
  tainted      \* history: an exchange on this connection failed, or the server did
               \* not know the password

clientVars == <<connected, nonce, nextNonce, pc, attempt, result>>
wireVars   == <<outbound, inbound, peerOpen>>
serverVars == <<srvNonce, accepted>>
countVars  == <<drawn, calls, conns>>
vars == <<setup, clientVars, wireVars, serverVars, countVars, tainted>>

MaxNonces == 4 * MaxCalls        \* two requests and two replies for each send
Nonces == 1..MaxNonces
MaybeNonce == {0} \union Nonces
Wrong == MaxNonces + 1           \* what another password makes of any nonce

\* Mutant of newSecurityManager: the password is not asked for.
CipherKnown == setup.cipher # "unknown"

\* There is a security manager.  When it cannot be made NewTCPClient logs a warning and
\* the client goes without; the type of the HMAC is not looked at.
newSecurityManager == setup.password /\ setup.cipher # "unknown"

Authenticates == newSecurityManager /\ setup.auth # "none"
Encrypts == newSecurityManager /\ setup.cipher # "none"
Secured == Authenticates \/ Encrypts

\* call tells the sends apart, it is not on the wire.
Request == [call: 1..MaxCalls, header: MaybeNonce, salt: MaybeNonce]

\* form "empty": no payload.  "flat": the messages are the payload.  "nested": the
\* payload is an envelope with the status and the messages, as in the requests of
\* applySecurityToEnvelope, and the nonce is in the header of the outer one.
Reply == [call: 1..MaxCalls, status: {"ok", "challenge"}, form: {"empty", "flat", "nested"},
          mac: MaybeNonce \union {Wrong}, key: MaybeNonce \union {Wrong}, header: MaybeNonce]

Init ==
  /\ setup \in Setups
  /\ connected = FALSE /\ nonce = 0 /\ nextNonce = 0
  /\ pc = "idle" /\ attempt = 1 /\ result = "none"
  /\ outbound = <<>> /\ inbound = <<>> /\ peerOpen = FALSE
  /\ srvNonce = 0 /\ accepted = [k \in 1..MaxCalls |-> 0]
  /\ drawn = 0 /\ calls = 0 /\ conns = 0
  /\ tainted = FALSE

-----------------------------------------------------------------------------
(* The client.                                                             *)

\* Close and Connect: what is on the wire is lost, the nonces are kept.
Reconnect ==
  /\ pc = "idle" /\ conns < MaxConns
  /\ conns' = conns + 1
  /\ connected' = TRUE /\ peerOpen' = TRUE
  /\ outbound' = <<>> /\ inbound' = <<>>
  /\ tainted' = FALSE /\ result' = "none"
  /\ UNCHANGED <<nonce, nextNonce, pc, attempt, serverVars, drawn, calls>>

\* The process ends, in a send or not, and a new client is made: nonces are kept in
\* memory only.
RestartClient ==
  /\ connected /\ connected' = FALSE /\ peerOpen' = FALSE
  /\ nonce' = 0 /\ nextNonce' = 0
  /\ pc' = "idle" /\ attempt' = 1 /\ result' = "none"
  /\ outbound' = <<>> /\ inbound' = <<>>
  /\ UNCHANGED <<serverVars, countVars, tainted>>

\* Mutant of SaltAfterDraw: a nonce of its own, that no header has.
SaltOfItsOwn(current) == IF current = 0 THEN drawn + 2 ELSE current

SaltAfterDraw(current) == IF current = 0 THEN drawn + 1 ELSE current

\* applySecurityToEnvelope, with the salt so far (a retry has just replaced it).
\* The salt is stored before anything is encrypted or sent.
Apply(current) ==
  /\ drawn' = drawn + 1
  /\ nextNonce' = drawn + 1
  /\ nonce' = SaltAfterDraw(current)

Send ==
  /\ pc = "idle" /\ connected /\ calls < MaxCalls
  /\ calls' = calls + 1
  /\ IF newSecurityManager THEN Apply(nonce) ELSE UNCHANGED <<nonce, nextNonce, drawn>>
  /\ pc' = "write" /\ attempt' = 1 /\ result' = "none"
  /\ UNCHANGED <<connected, wireVars, serverVars, conns, tainted>>

Return(outcome) == pc' = "idle" /\ result' = outcome

\* The envelope cannot be encrypted or encoded, or there is no HMAC of its type: the
\* salt stays what Apply made it.
EncodeFail ==
  /\ pc = "write"
  /\ Return("unsent")
  /\ UNCHANGED <<connected, nonce, nextNonce, attempt, wireVars, serverVars, countVars, tainted>>

\* calculateHMAC fails on a type it does not know.
Computable == Authenticates => setup.auth # "unknown"

WriteOk ==
  /\ pc = "write" /\ Computable
  /\ outbound' = Append(outbound, [call |-> calls, header |-> nextNonce, salt |-> nonce])
  /\ pc' = "read"
  /\ UNCHANGED <<connected, nonce, nextNonce, attempt, result, inbound, peerOpen,
                 serverVars, countVars, tainted>>

Fail ==
  /\ Return("error")
  /\ tainted' = TRUE
  /\ UNCHANGED <<connected, nonce, nextNonce, attempt, wireVars, serverVars, countVars>>

WriteFail == pc = "write" /\ Computable /\ Fail

ReadTimeout == pc = "read" /\ Fail

ReadEOF == pc = "read" /\ inbound = <<>> /\ ~peerOpen /\ Fail

-----------------------------------------------------------------------------
(* verifyEnvelopeSecurity and what readResponse and the retry make of it.  *)

\* A MAC is verified if there is one, with the salt of the request; both ends key
\* it with the same identity.
MacOk(r) == Authenticates /\ r.mac # 0 => r.mac = nonce
Ciphered(r) == Encrypts /\ r.form # "empty"
KeyOk(r) == Ciphered(r) => r.key = nonce

\* Mutant of NonceAfter: the nonce of the server is ignored.
NonceKept(r) == nonce

\* The header extractAndUpdateNonces looks into is the inner envelope's if there
\* is one, and that has no nonce.
NonceAfter(r) ==
  IF Secured /\ r.form # "nested" /\ r.header # 0 THEN r.header ELSE nonce

\* Messages that are not in a nested envelope are decrypted into a variable that is
\* not used: the body decoder gets the ciphertext, and rejects it but for a chance.
Readable(r) == Ciphered(r) => r.form = "nested"

Read ==
  /\ inbound' = Tail(inbound)
  /\ UNCHANGED <<connected, outbound, peerOpen, serverVars, calls, conns, tainted>>

\* What the wrong key makes of the padding of CBC is no padding, but for a chance; CTR
\* has none.
PaddingFails(r) == setup.cipher = "cbc" /\ ~KeyOk(r)

\* The MAC is another one, or the payload cannot be decrypted.
VerifyFails(r) ==
  /\ Read
  /\ ~MacOk(r) \/ PaddingFails(r)
  /\ Return("error")
  /\ UNCHANGED <<nonce, nextNonce, attempt, drawn>>

\* The wrong key gives bytes that are no envelope, "raw data" that the body decoder
\* rejects in its turn, but for a chance; the nonce of the header is taken before.
DecryptsToGarbage(r) ==
  /\ Read /\ MacOk(r) /\ ~KeyOk(r)
  /\ nonce' = IF r.header # 0 THEN r.header ELSE nonce
  /\ Return("error") \/ Return("ok")
  /\ UNCHANGED <<nextNonce, attempt, drawn>>

Accepts(r) == MacOk(r) /\ KeyOk(r)

ReadOk(r) ==
  /\ Read /\ Accepts(r) /\ r.status = "ok"
  /\ nonce' = NonceAfter(r)
  /\ \E outcome \in (IF Readable(r) THEN {"ok"} ELSE {"error", "ok"}) : Return(outcome)
  /\ UNCHANGED <<nextNonce, attempt, drawn>>

\* Mutant of IsChallenge: the status is not looked at.
AnyStatus(r) == TRUE

IsChallenge(r) == r.status = "challenge"      \* 401 or 407

\* Mutant of FirstAttempt: a challenge is answered however often it comes.
AnyAttempt == TRUE

FirstAttempt == attempt = 1

\* Once more, with the nonce as it is now.
Challenged(r) ==
  /\ Read /\ Accepts(r) /\ IsChallenge(r) /\ FirstAttempt /\ newSecurityManager
  /\ Apply(NonceAfter(r))
  /\ attempt' = 2 /\ pc' = "write"
  /\ UNCHANGED result

\* Once is enough, and a client without a security manager does not try again at all.
ChallengedAgain(r) ==
  /\ Read /\ Accepts(r) /\ IsChallenge(r) /\ ~(FirstAttempt /\ newSecurityManager)
  /\ nonce' = NonceAfter(r)
  /\ Return("error")
  /\ UNCHANGED <<nextNonce, attempt, drawn>>

\* A reply has come.
Receive ==
  /\ pc = "read" /\ inbound # <<>>
  /\ LET r == Head(inbound) IN
       \/ VerifyFails(r) \/ DecryptsToGarbage(r) \/ ReadOk(r)
       \/ Challenged(r) \/ ChallengedAgain(r)

-----------------------------------------------------------------------------
(* The server (external): it expects the nonce it gave last as the salt,   *)
(* and the nonce of the request itself if it gave none; it answers what is *)
(* right with a MAC of the same salt and what is wrong with a challenge.   *)
(* The server the comment of security.go:19 is about need not rotate.      *)

Expected(q) ==
  setup.demands => q.salt # 0 /\ q.salt = (IF srvNonce = 0 THEN q.header ELSE srvNonce)

NextSrvNonce == IF setup.rotates THEN {drawn + 1} ELSE {drawn + 1, srvNonce}

ServerReply(q, status, form, n) ==
  /\ srvNonce' = n
  /\ drawn' = IF n = srvNonce THEN drawn ELSE n
  /\ inbound' = Append(inbound, [call |-> q.call, status |-> status, form |-> form,
                                 mac |-> IF setup.auth # "none" /\ status = "ok" THEN q.salt ELSE 0,
                                 key |-> q.salt, header |-> n])
  /\ outbound' = Tail(outbound)
  /\ UNCHANGED <<clientVars, peerOpen, calls, conns, tainted>>

Serve ==
  /\ peerOpen /\ outbound # <<>>
  /\ Expected(Head(outbound))
  /\ \E form \in setup.forms, n \in NextSrvNonce :
       ServerReply(Head(outbound), "ok", form, n)
  /\ accepted' = [accepted EXCEPT ![Head(outbound).call] = @ + 1]

Challenge ==
  /\ peerOpen /\ outbound # <<>>
  /\ ~Expected(Head(outbound))
  /\ \E n \in NextSrvNonce \ {0} : ServerReply(Head(outbound), "challenge", "empty", n)
  /\ UNCHANGED accepted

\* A reply of a server that does not know the password.
ServeWrongly ==
  /\ peerOpen /\ outbound # <<>>
  /\ drawn' = drawn + 1
  /\ \E form \in setup.forms :
       inbound' = Append(inbound, [call |-> Head(outbound).call, status |-> "ok", form |-> form,
                                   mac |-> IF setup.auth # "none" THEN Wrong ELSE 0,
                                   key |-> Wrong, header |-> drawn + 1])
  /\ outbound' = Tail(outbound)
  /\ tainted' = TRUE
  /\ UNCHANGED <<clientVars, peerOpen, serverVars, calls, conns>>

PeerClose ==
  /\ peerOpen /\ peerOpen' = FALSE
  /\ outbound' = <<>>
  /\ UNCHANGED <<clientVars, inbound, serverVars, countVars, tainted>>

\* The server loses its nonce, and with it the connection.
RestartServer ==
  /\ peerOpen /\ peerOpen' = FALSE
  /\ outbound' = <<>> /\ srvNonce' = 0
  /\ UNCHANGED <<clientVars, inbound, accepted, countVars, tainted>>

-----------------------------------------------------------------------------
Client ==
  \/ Reconnect \/ RestartClient \/ Send \/ EncodeFail \/ WriteOk \/ WriteFail
  \/ ReadTimeout \/ ReadEOF \/ Receive

Server == Serve \/ Challenge \/ ServeWrongly \/ PeerClose \/ RestartServer

\* The bounds allow nothing more.
Done == pc = "idle" /\ (calls = MaxCalls \/ conns = MaxConns) /\ UNCHANGED vars

Next == ((Client \/ Server) /\ UNCHANGED setup) \/ Done

Spec == Init /\ [][Next]_vars

-----------------------------------------------------------------------------
(* Properties.                                                             *)

TypeOK ==
  /\ setup \in Setups
  /\ connected \in BOOLEAN /\ peerOpen \in BOOLEAN /\ tainted \in BOOLEAN
  /\ nonce \in 0..drawn /\ nextNonce \in 0..drawn /\ srvNonce \in 0..drawn
  /\ pc \in {"idle", "write", "read"} /\ attempt \in {1, 2}
  /\ result \in {"none", "ok", "error", "unsent"}
  /\ outbound \in Seq(Request) /\ inbound \in Seq(Reply)
  /\ accepted \in [1..MaxCalls -> Nat]
  /\ drawn \in 0..(4 * calls) /\ calls \in 0..MaxCalls /\ conns \in 0..MaxConns

\* One retry is enough.  Whatever was left of the nonces by earlier timeouts, lost
\* connections and restarts of either side: on a connection no exchange has failed
\* on, a send succeeds in two attempts, even after the client took its nonce from a
\* reply it could not read; and then the server has acted on its message.
\* (Ciphered replies that are not nested are the subject of PlaintextDelivered.)
OneRetrySuffices ==
  (Encrypts => "flat" \notin setup.forms) /\ Secured /\ ~tainted =>
    /\ result # "error"
    /\ result = "ok" => accepted[calls] = 1

\* The retry, which sends the message a second time, does not make a server that
\* rotates its nonce act twice on it, even when the challenge that is answered was an
\* earlier send's: the nonce that salted the first attempt is spent.
ActedOnAtMostOnce == setup.rotates => \A k \in 1..MaxCalls : accepted[k] <= 1

\* What is not configured right is not taken for success.  Without a security manager
\* (client.go:53-60), or with an HMAC of no known type (security.go:256), which is found
\* out only when something is sent, a server that demands security acts on nothing,
\* whatever its challenges said: there is no second attempt, no success but a wrong
\* server's, and a client without a manager takes no nonce over.
MisconfiguredIsRefused ==
  setup.demands /\ (~setup.password \/ "unknown" \in {setup.cipher, setup.auth}) =>
    /\ \A k \in 1..MaxCalls : accepted[k] = 0
    /\ attempt = 1 /\ (~tainted => result # "ok")
    /\ ~setup.password \/ setup.cipher = "unknown" => nonce = 0

(* What comments and tests say and the code does not keep.                 *)

\* "After verification, payload should be decrypted back to original"
\* (security_test.go:278): the messages of a reply with status 200, on a connection
\* where everything was verified, are delivered.
PlaintextDelivered == ~tainted => result # "error"
=============================================================================
