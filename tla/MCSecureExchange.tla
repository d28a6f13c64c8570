-------------------------- MODULE MCSecureExchange --------------------------
(* Model checking of SecureExchange and of the inductive invariant of its  *)
(* proofs: what client and server are set up to do.  A server that may     *)
(* keep its nonce may also draw one each time.                             *)
EXTENDS SecureExchangeProofs

SetupWith(a, c, r, f) ==
  [auth |-> a, cipher |-> c, password |-> TRUE, demands |-> TRUE, rotates |-> r, forms |-> f]

Working ==
  { SetupWith("hmac", "cbc", FALSE, {"empty", "nested"}),
    SetupWith("none", "cbc", FALSE, {"nested"}),
    SetupWith("hmac", "none", FALSE, {"empty", "flat"}),
    SetupWith("hmac", "ctr", TRUE, {"empty", "nested"}),
    SetupWith("hmac", "none", TRUE, {"flat"}) }

\* No password, an encryption and an HMAC that do not exist; and a server that does not
\* mind.
Misconfigured ==
  { [SetupWith("hmac", "cbc", TRUE, {"empty", "nested"}) EXCEPT !.password = FALSE],
    SetupWith("hmac", "unknown", FALSE, {"flat"}), SetupWith("unknown", "ctr", TRUE, {"nested"}),
    [SetupWith("hmac", "unknown", TRUE, {"flat"}) EXCEPT !.demands = FALSE] }

AllSetups == Working \union Misconfigured

FlatCiphered == {SetupWith("hmac", "cbc", TRUE, {"flat"})}
=============================================================================
