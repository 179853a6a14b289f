------------------------------ MODULE MCTimed ------------------------------
(* The components whose promise is an answer in the end: bounded pools, the    *)
(* shared estate read, and the jobs that a timer repeats.  They share no state, *)
(* so one of them runs at a time, and each keeps its own fairness.            *)
EXTENDS VisibilityBoundary

CONSTANTS
  Reads, Workers, Overviews, Estates, Findings, Logs,
  Cooldown, MaxLost, MaxTokens, MaxFaults, MaxClock, MaxAppends, MaxMissed

VARIABLES
  part,
  caller, jobs, job, owner, current,
  specs, task, workers, items, req,
  drift, state, poll, sent, told, missing, lost,
  stored, valid, issued, bearer, fresh, faults, pc,
  clock, mtime, appends, last, untold, dropped, missed, look

\* Each local reader, alone or with a second population.
EstatesTried ==
  {{"cmdb.configuration", "skcoord.flow"}, {"skgateway.observed", "sklegal.global"}}
    \cup {{a} : a \in {"capauth.policy", "skos.discovery", "skcapstone.fleet", "atlas.conditions",
                      "skperf.aggregate", "skcapstone.service_release", "skjoule.wallet",
                      "skcounter.harness", "skcapstone.itil"}}

Schedule == INSTANCE ScheduleProvider WITH Requests <- Reads
Estate == INSTANCE EstateRead WITH Requests <- Overviews
Alert == INSTANCE FleetAlert WITH file <- state
Bearer == INSTANCE AgentBearer
Board == INSTANCE BoardPoll WITH poll <- look

\* An executor has a thread at least, an estate a population; a cooldown is a number
\* of seconds.
ASSUME WorkersAssumption == Workers \in Nat \ {0}
ASSUME EstatesAssumption == \A estate \in Estates : estate # {}
ASSUME CooldownAssumption == Cooldown \in Nat

scheduleVars == <<caller, jobs, job, owner, current>>
estateVars == <<specs, task, workers, items, req>>
alertVars == <<drift, state, poll, sent, told, missing, lost>>
bearerVars == <<stored, valid, issued, bearer, fresh, faults, pc>>
boardVars == <<clock, mtime, appends, last, untold, dropped, missed, look>>
MCvars == <<part, vars, scheduleVars, estateVars, alertVars, bearerVars, boardVars>>

MCInit ==
  /\ part \in {"visibility", "schedule", "estate", "alert", "bearer", "board"}
  /\ Init /\ Alert!Init /\ Bearer!Init /\ Board!Init
  /\ Schedule!Init /\ (part # "schedule" => current = [r \in Reads |-> TRUE])
  /\ Estate!Init /\ (part # "estate" => specs = {"skjoule.wallet"})

VisibilityStep ==
  /\ part = "visibility" /\ Next
  /\ UNCHANGED <<part, scheduleVars, estateVars, alertVars, bearerVars, boardVars>>
ScheduleStep ==
  /\ part = "schedule" /\ Schedule!Next
  /\ UNCHANGED <<part, vars, estateVars, alertVars, bearerVars, boardVars>>
EstateStep ==
  /\ part = "estate" /\ Estate!Next
  /\ UNCHANGED <<part, vars, scheduleVars, alertVars, bearerVars, boardVars>>
AlertStep ==
  /\ part = "alert" /\ Alert!Next
  /\ UNCHANGED <<part, vars, scheduleVars, estateVars, bearerVars, boardVars>>
BearerStep ==
  /\ part = "bearer" /\ Bearer!Next
  /\ UNCHANGED <<part, vars, scheduleVars, estateVars, alertVars, boardVars>>
BoardStep ==
  /\ part = "board" /\ Board!Next
  /\ UNCHANGED <<part, vars, scheduleVars, estateVars, alertVars, bearerVars>>

MCNext ==
  VisibilityStep \/ ScheduleStep \/ EstateStep \/ AlertStep \/ BearerStep \/ BoardStep

\* The fairness each module states, of the part that runs.
MCFairness ==
  /\ \A c \in Calls : WF_vars(part = "visibility" /\ Invoke(c))
  /\ \A r \in Reads : /\ WF_scheduleVars(part = "schedule" /\ Schedule!Wait(r))
                      /\ WF_scheduleVars(part = "schedule" /\ Schedule!Serve(r))
  /\ \A a \in UNION Estates : WF_estateVars(part = "estate" /\ Estate!WorkerKilled(a))
  /\ WF_estateVars(part = "estate" /\ Estate!TaskEnds)
  /\ WF_estateVars(part = "estate" /\ Estate!ClearTask)
  /\ \A r \in Overviews : WF_estateVars(part = "estate" /\ Estate!Respond(r))
  /\ WF_alertVars(part = "alert" /\ Alert!Collect)
  /\ WF_alertVars(part = "alert" /\ Alert!Gate)
  /\ WF_alertVars(part = "alert" /\ Alert!Clear)
  /\ WF_alertVars(part = "alert" /\ Alert!Send)
  /\ WF_alertVars(part = "alert" /\ Alert!Record)
  /\ WF_alertVars(part = "alert" /\ Alert!Tick)
  /\ SF_alertVars(part = "alert" /\ Alert!Send /\ told' = poll.seen)
  /\ WF_bearerVars(part = "bearer" /\ Bearer!Work)
  /\ WF_boardVars(part = "board" /\ \E readable \in SUBSET Logs : Board!Look(readable))
  /\ WF_boardVars(part = "board" /\ (Board!Publish \/ Board!PublishRaises))

MCSpec == MCInit /\ [][MCNext]_MCvars /\ MCFairness

-----------------------------------------------------------------------------
(* The properties of the instances; the others are VisibilityBoundary's own.   *)

\* ScheduleProvider: no projection without authority before and after the read.
ReleasedUnderAuthority == Schedule!ReleasedUnderAuthority

\* ScheduleProvider: owner reads that hang keep no request thread.
RequestThreadsReturn == Schedule!RequestThreadsReturn

\* EstateRead: one worker per population, and what a reader can notice shows.
EstateSafe == Estate!EstateSafe

\* EstateRead: every overview that waits is answered or given up.
OverviewsAnswered == Estate!OverviewsAnswered

\* FleetAlert: alerts are rate limited and edge triggered.
AlertsAreOwed == Alert!AlertsAreOwed

\* FleetAlert: drift that stays is told.
StandingDriftIsTold == Alert!StandingDriftIsTold

\* AgentBearer: the agent gets a bearer in date again, wherever the job dies.
BearerComesBack == part = "bearer" => Bearer!BearerComesBack

\* BoardPoll: growth in a later second is published, unless an older time stands
\* against it or its publication raised.
LaterSecondIsTold == Board!LaterSecondIsTold
=============================================================================
