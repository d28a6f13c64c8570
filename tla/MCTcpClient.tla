---------------------------- MODULE MCTcpClient ----------------------------
(* Model checking of TcpClient and of the inductive invariant of its       *)
(* proofs: the goroutines are interchangeable.                             *)
EXTENDS TcpClientRefinement, TLC

Callers == Permutations(Goroutines)
=============================================================================
