-------------------------- MODULE MCSessionAdapter --------------------------
(* SessionAdapter on small instances. *)
EXTENDS SessionAdapter, TLC

InterchangeableRequests == Permutations(Requests)
=============================================================================
