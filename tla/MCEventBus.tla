----------------------------- MODULE MCEventBus -----------------------------
(* EventBus on small instances. *)
EXTENDS EventBus, TLC

Interchangeable ==
  Permutations(Clients) \cup Permutations(Legacies)
    \cup Permutations(Lanes \ {PublicLane})
=============================================================================
