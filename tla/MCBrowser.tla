----------------------------- MODULE MCBrowser -----------------------------
(* What a browser holds: its session, and its event streams.  The components  *)
(* share no state, so one of them runs at a time; "shared" is the bus again   *)
(* with more subscribers than places.                                        *)
EXTENDS SessionAdapter, FiniteSets, TLC

CONSTANTS Lanes, PublicLane, OneClient, TwoClients, Legacies, board, reports

\* There are finitely many of each, and "none" is the lane of no event.
ASSUME StreamsAssumption ==
  /\ IsFiniteSet(Lanes) /\ PublicLane \in Lanes /\ "none" \notin Lanes
  /\ IsFiniteSet(OneClient) /\ IsFiniteSet(TwoClients) /\ IsFiniteSet(Legacies)

VARIABLES part, epoch, sequence, order, lane, client, legacy, log

busVars == <<epoch, sequence, order, lane, client, legacy, log>>

OneStream == INSTANCE EventBus WITH
  Clients <- OneClient, Legacies <- {}, Topics <- {board, reports},
  Filters <- {{}, {board}}, SSE_BOUND <- 2, MaxEvents <- 3, MaxRestarts <- 1
Shared == INSTANCE EventBus WITH
  Clients <- TwoClients, Topics <- {board}, Filters <- {{}}, SSE_BOUND <- 1, MaxEvents <- 3, MaxRestarts <- 0

MCInit ==
  /\ part \in {"session", "stream", "shared"}
  /\ Init
  /\ IF part = "shared" THEN Shared!Init ELSE OneStream!Init

MCNext ==
  \/ part = "session" /\ Next /\ UNCHANGED <<part, busVars>>
  \/ part = "stream" /\ OneStream!Next /\ UNCHANGED <<part, vars>>
  \/ part = "shared" /\ Shared!Next /\ UNCHANGED <<part, vars>>

MCSpec == MCInit /\ [][MCNext]_<<part, vars, busVars>>

Interchangeable ==
  Permutations(Requests) \cup Permutations(TwoClients) \cup Permutations(Legacies)

\* The type invariants, with every bound of the bus and of the proof table.
TypesOK == TypeOK /\ IF part = "shared" THEN Shared!TypeOK ELSE OneStream!TypeOK

\* EventBus: no frame leaves after the authority was lost.
NoFrameWithoutAuthority == [][part = "stream" => OneStream!FrameHasAuthority]_busVars

\* EventBus: every event of a stream arrives in order, or a reset does, and a slow
\* legacy page still hears the latest public event.
SubscribersAreTold ==
  IF part = "shared" THEN Shared!StreamIsExact /\ Shared!LegacyHearsLatest
  ELSE OneStream!StreamIsExact
=============================================================================
