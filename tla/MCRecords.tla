----------------------------- MODULE MCRecords -----------------------------
(* The components that write or read files while others replace them, and the  *)
(* analysis of the schedule they feed.  They share no state, so one of them    *)
(* runs at a time.                                                           *)
EXTENDS SnapshotStore, TLC

CONSTANTS
  original, correction, other,
  Composers, MaxVersion, MaxAttempts,
  Cards, MaxEdits,
  Nodes, Abroad, MaxClock, Limit, Window, TTL,
  Items

VARIABLES
  part,
  usage, observed, sent, composer, overlap, base, reader,
  card, edge, entry, history, read,
  clock, index, file, recent, admitted, req,
  edges, others, path, rest, visited, cyclic, done

\* A report, its correction, and a report of its own.
Corrections == [s \in Snapshots |-> IF s = correction THEN original ELSE NoSnapshot]

Usage == INSTANCE UsageIndex WITH index <- usage, files <- observed
Schedule == INSTANCE CardRead
Gateway == INSTANCE GatewayRead
Graph == INSTANCE ScheduleGraph

\* What the files hold that no query reads while another part runs.
Unread == CHOOSE o \in Gateway!Broken : TRUE

\* Each lane has a generation; a card can be edited; the rest are limits of the code.
ASSUME VersionAssumption == MaxVersion \in Nat \ {0}
ASSUME EditsAssumption == MaxEdits \in Nat
ASSUME LimitsAssumption == Limit \in Nat \ {0} /\ Window \in Nat /\ TTL \in Nat
ASSUME ItemsAssumption == Items \in Nat

usageVars == <<usage, observed, sent, composer, overlap, base, reader>>
cardVars == <<card, edge, entry, history, read>>
gatewayVars == <<clock, index, file, recent, admitted, req>>
graphVars == <<edges, others, path, rest, visited, cyclic, done>>
MCvars == <<part, vars, usageVars, cardVars, gatewayVars, graphVars>>

MCInit ==
  /\ part \in {"snapshots", "usage", "cards", "gateway", "graph"}
  /\ Init
  /\ Usage!Init /\ (part # "usage" => usage = Usage!NoIndex)
  /\ Schedule!Init /\ (part # "cards" => edge = {} /\ \A c \in Cards : card[c].done)
  /\ Gateway!Init
  /\ part # "gateway" =>
       index = Gateway!Damaged /\ file = [f \in Gateway!Files |-> Unread]
  /\ Graph!Init /\ (part # "graph" => edges = {} /\ others = {})

SnapshotStep ==
  /\ part = "snapshots" /\ Next
  /\ UNCHANGED <<part, usageVars, cardVars, gatewayVars, graphVars>>
UsageStep ==
  /\ part = "usage" /\ Usage!Next
  /\ UNCHANGED <<part, vars, cardVars, gatewayVars, graphVars>>
CardStep ==
  /\ part = "cards" /\ Schedule!Next
  /\ UNCHANGED <<part, vars, usageVars, gatewayVars, graphVars>>
GatewayStep ==
  /\ part = "gateway" /\ Gateway!Next
  /\ UNCHANGED <<part, vars, usageVars, cardVars, graphVars>>
GraphStep ==
  /\ part = "graph" /\ Graph!Next
  /\ UNCHANGED <<part, vars, usageVars, cardVars, gatewayVars>>

MCNext == SnapshotStep \/ UsageStep \/ CardStep \/ GatewayStep \/ GraphStep

MCSpec == MCInit /\ [][MCNext]_MCvars

Interchangeable == Permutations(Processes) \cup Permutations(Composers)

-----------------------------------------------------------------------------
(* The properties of the instances; the others are SnapshotStore's own.        *)

\* UsageIndex: the index names observations in place, one version of a lane each.
IndexIsWhole == Usage!IndexIsWhole

\* UsageIndex: a lane goes back only through a run that was overtaken, to what it read.
OtherLaneKept == Usage!OtherLaneKept

\* CardRead: a released schedule is the card store of one instant.
ScheduleIsOneInstant == Schedule!ScheduleIsOneInstant

\* GatewayRead: an answer describes one generation of the index.
AnswersAreOneGeneration == Gateway!AnswersAreOneGeneration

\* GatewayRead: no window holds more requests than the limit.
WindowHolds == Gateway!WindowHolds

\* ScheduleGraph: what is called cyclic is, and no cycle opens the critical path.
CyclesAreReal == Graph!CyclesAreReal
=============================================================================
