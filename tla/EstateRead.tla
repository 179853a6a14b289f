----------------------------- MODULE EstateRead -----------------------------
(***************************************************************************)
(* The overview's read of the estate: requests share one projection task     *)
(* (control_plane_api.py, overview); the task reads every declared population *)
(* in a worker process killed at its timeout (control_plane_adapters.py) and  *)
(* turns each outcome into an item with a truth state; the answer and its     *)
(* data-quality entry (control_plane_quality.py) fold the items.             *)
(***************************************************************************)
EXTENDS Naturals, FiniteSets

CONSTANTS
  Requests,  \* overview requests
  Estates    \* the sets of populations to try; the code declares sixteen (SPECS)

VARIABLES
  specs,    \* the populations declared, chosen once
  task,     \* the shared task: none, running, done (not yet cleared), cancelled
  workers,  \* populations whose worker process is still running
  items,    \* the item of each population that has answered in this task
  req       \* what each request waits for or was answered

vars == <<specs, task, workers, items, req>>

Board == {"skcapstone.portfolio", "skcoord.flow", "skcoord.agent_presence"}
Usage == {"skcounter.harness", "skgateway.observed"}
Implemented == Board \cup Usage \cup
  {"skcapstone.itil", "cmdb.configuration", "skcapstone.fleet", "skjoule.wallet",
   "skcapstone.service_release", "skperf.aggregate", "capauth.policy",
   "atlas.conditions", "skos.discovery"}

\* What a source may be like when its worker reads it.  "partial": a part of it is
\* missing or unreadable.  "short": fewer report than it lists.  "aged": all of it is
\* older than its time to live.  "lost": it is absent or changes while it is read.
Unreadable == {"malformed", "denied", "unreachable"}
Condition == {"whole", "empty", "partial", "short", "aged", "lost"} \cup Unreadable

-----------------------------------------------------------------------------
(* One operator per local reader: what it tells of a source in a condition in  *)
(* which it does not fail.  A reader that stamps its answer with the time of     *)
(* the read tells nothing of age, one that counts itself nothing of coverage.   *)

Told(errors, observed, short, aged) ==
  [errors |-> errors, observed |-> observed, short |-> short, aged |-> aged]

\* The boards and ITIL are whatever their owner's fold of the store is, and the fold
\* of an absent store is empty: zero is current.
BoardTells(c) == Told(FALSE, TRUE, FALSE, FALSE)
ItilTells(c) == Told(FALSE, TRUE, FALSE, FALSE)
CmdbTells(c) == Told(c = "partial", c \notin {"empty", "lost"}, FALSE, c = "aged")
FleetTells(c) ==
  Told(c \in {"partial"} \cup Unreadable, c \notin {"empty", "lost"} \cup Unreadable,
       c = "short", FALSE)
UsageTells(c) ==
  Told(c \in {"partial", "lost"} \cup Unreadable, c \notin {"empty", "lost"} \cup Unreadable,
       c = "short", c = "aged")
JouleTells(c) == Told(FALSE, c \notin {"empty", "lost"}, FALSE, FALSE)
ReleaseTells(c) ==
  Told(c \in {"partial", "short"}, c \notin {"empty", "lost"}, c \in {"partial", "short"}, FALSE)
PerfTells(c) == Told(c = "partial", c # "empty", c = "short", c = "aged")
PolicyTells(c) == Told(c = "empty", c # "empty", FALSE, c = "aged")
\* Mutant: a missing observation file counts as an observed zero.
ConditionsTellZero(c) ==
  Told(c = "partial", TRUE, c \in {"partial", "short"}, c = "aged")
ConditionsTell(c) ==
  Told(c \in {"partial", "lost"}, c # "lost", c \in {"partial", "short"}, c = "aged")
\* Of two directories one that is absent is passed over, one that fails is an error.
ModulesTell(c) ==
  LET found == c \notin {"empty", "lost", "unreachable"} IN
  {Told(~found, found, ~found, FALSE)}
    \cup (IF c = "partial" THEN {Told(TRUE, TRUE, FALSE, FALSE)} ELSE {})

Tells(a, c) ==
  CASE a \in Board -> {BoardTells(c)}
    [] a = "skcapstone.itil" -> {ItilTells(c)}
    [] a = "cmdb.configuration" -> {CmdbTells(c)}
    [] a = "skcapstone.fleet" -> {FleetTells(c)}
    [] a \in Usage -> {UsageTells(c)}
    [] a = "skjoule.wallet" -> {JouleTells(c)}
    [] a = "skcapstone.service_release" -> {ReleaseTells(c)}
    [] a = "skperf.aggregate" -> {PerfTells(c)}
    [] a = "capauth.policy" -> {PolicyTells(c)}
    [] a = "atlas.conditions" -> {ConditionsTell(c)}
    [] a = "skos.discovery" -> ModulesTell(c)

\* Live telemetry stands in for the gateway lane when that has no observation or a
\* collector that is late; it is as good as the nodes it speaks for.
TelemetryTells == {Told(short, observed, short, FALSE) : short, observed \in BOOLEAN}
TelemetryFor(a, c) == IF a = "skgateway.observed" /\ c # "whole" THEN TelemetryTells ELSE {}

\* Exit status of the worker process, the class of the exception its reader lets out;
\* 0 when it tells.  An owner's library may fail on a lost store or find it empty.
Owned == Board \cup {"skcapstone.itil", "cmdb.configuration", "skjoule.wallet",
                     "skcapstone.service_release"}
TellsOfErrors == Usage \cup {"skcapstone.fleet"}
MaskMalformed == Board \cup {"skcapstone.service_release", "skos.discovery"}
MaskUnreachable == Board \cup
  {"skcapstone.service_release", "skperf.aggregate", "capauth.policy", "atlas.conditions"}
ExitStatus(a, c) ==
  CASE c \notin {"lost"} \cup Unreadable -> {0}
    [] c = "lost" /\ a \in TellsOfErrors -> {0}
    [] c = "lost" /\ a \in {"skperf.aggregate", "capauth.policy"} -> {3}
    [] c = "lost" /\ a \in Owned \cup {"atlas.conditions", "skos.discovery"} -> {0, 3}
    [] c = "denied" /\ a \in Usage -> {0, 5}
    [] c \in Unreadable /\ a \in TellsOfErrors -> {0}
    [] c = "denied" /\ a \notin TellsOfErrors ->
         (IF a \in Board \cup {"skcapstone.itil"} THEN {3} ELSE {})
           \cup (IF a \in Board THEN {} ELSE {5})
    [] c = "unreachable" /\ a = "skos.discovery" -> {0}
    [] c = "unreachable" /\ a \notin TellsOfErrors ->
         IF a \in MaskUnreachable THEN {3}
         ELSE {6} \cup (IF a = "skcapstone.itil" THEN {3} ELSE {})
    [] c = "malformed" /\ a \notin TellsOfErrors ->
         IF a \in MaskMalformed THEN {3}
         ELSE {7} \cup (IF a = "skcapstone.itil" THEN {3} ELSE {})

-----------------------------------------------------------------------------
(* _project: an item for every outcome.                                      *)

FailedTruth(status) ==
  CASE status = 5 -> "unknown" [] status = 6 -> "unreachable" [] OTHER -> "unavailable"
TimedOut == "unavailable"
NoReader == "unavailable"

\* Mutant: the age is not looked at when the source is complete.
ToldTruthUndated(t) ==
  IF t.errors /\ ~t.observed THEN "unavailable"
  ELSE IF t.errors \/ t.short THEN "partial"
  ELSE IF t.observed THEN "current" ELSE "unknown"

ToldTruth(t) ==
  IF t.errors /\ ~t.observed THEN "unavailable"
  ELSE IF t.errors \/ t.short THEN "partial"
  ELSE IF t.observed /\ t.aged THEN "stale"
  ELSE IF t.observed THEN "current" ELSE "unknown"

Truth == {"unavailable", "unreachable", "unknown", "partial", "stale", "current"}

\* "flaw" is no part of an item: what was wrong with the source, of that which its
\* reader can notice.  The others never learn of age, of members that do not report,
\* of a part that is missing, or that the store is gone.
NoticesAge == Usage \cup
  {"cmdb.configuration", "skperf.aggregate", "capauth.policy", "atlas.conditions"}
NoticesShort == Usage \cup {"skcapstone.fleet", "skcapstone.service_release",
  "skperf.aggregate", "atlas.conditions"}
NoticesPart == NoticesShort \cup {"cmdb.configuration"}
NoticesLoss == Implemented \ (Board \cup {"skcapstone.itil"})
Flaw(a, c) ==
  IF c \in Unreadable \/ (c = "lost" /\ a \in NoticesLoss) THEN "all"
  ELSE IF \/ c = "aged" /\ a \in NoticesAge
          \/ c = "short" /\ a \in NoticesShort
          \/ c = "partial" /\ a \in NoticesPart THEN "part"
  ELSE "none"

Item == [truth : Truth, flaw : {"none", "part", "all"}]
NothingRead(truth) == [truth |-> truth, flaw |-> "all"]
ItemsOf(a, c) ==
  {[truth |-> FailedTruth(status), flaw |-> Flaw(a, c)] : status \in ExitStatus(a, c) \ {0}}
    \cup (IF 0 \in ExitStatus(a, c)
             THEN {[truth |-> ToldTruth(t), flaw |-> Flaw(a, c)] : t \in Tells(a, c)} ELSE {})
    \cup {[truth |-> ToldTruth(t), flaw |-> IF t.short THEN "part" ELSE "none"] :
            t \in TelemetryFor(a, c)}

-----------------------------------------------------------------------------
(* The overview: states of all items together, and the quality entry.         *)

Rank(t) == CASE t = "unavailable" -> 0 [] t = "unreachable" -> 1 [] t = "unknown" -> 2
             [] t = "partial" -> 3 [] t = "stale" -> 4 [] t = "current" -> 6
Worst(truths) == CHOOSE t \in truths : \A u \in truths : Rank(t) <= Rank(u)
Together(truths) ==
  IF truths = {"current"} THEN "current"
  ELSE IF truths = {"unavailable"} THEN "unavailable" ELSE "partial"

Truths == {items[a].truth : a \in specs}
NoItem == [truth |-> "none", flaw |-> "none"]
Result == [truths |-> Truths, flaws |-> {items[a].flaw : a \in specs}]

\* A request waits for the task, holds its result, or is over.
At(st) == [st |-> st]
Holding(result) == [st |-> "holds", result |-> result]
Answered(truth, quality, result) ==
  [st |-> "answered", truth |-> truth, quality |-> quality, result |-> result]

Init ==
  /\ specs \in Estates
  /\ task = "none"
  /\ workers = {}
  /\ items = [a \in specs |-> NoItem]
  /\ req = [r \in Requests |-> At("idle")]

\* overview: an invalid scope is refused before any source is read.
Refuse(r) ==
  /\ req[r].st = "idle"
  /\ req' = [req EXCEPT ![r] = At("refused")]
  /\ UNCHANGED <<specs, task, workers, items>>

\* The first request creates the task: every population with a reader gets its worker.
StartRead(r) ==
  /\ req[r].st = "idle"
  /\ task = "none"
  /\ task' = "running"
  /\ workers' = specs \cap Implemented
  /\ items' = [a \in specs |-> IF a \in Implemented THEN NoItem ELSE NothingRead(NoReader)]
  /\ req' = [req EXCEPT ![r] = At("waits")]
  /\ UNCHANGED specs

\* Later ones share it, even in the moment between its end and its callback.
JoinRead(r) ==
  /\ req[r].st = "idle"
  /\ task # "none"
  /\ req' = [req EXCEPT ![r] = IF task = "done" THEN Holding(Result) ELSE At("waits")]
  /\ UNCHANGED <<specs, task, workers, items>>

WorkerAnswers(a) ==
  /\ a \in workers
  /\ \E c \in Condition : \E i \in ItemsOf(a, c) : items' = [items EXCEPT ![a] = i]
  /\ workers' = workers \ {a}
  /\ UNCHANGED <<specs, task, req>>

\* _bounded_run: the process group is killed at the timeout, whatever it is doing.
WorkerKilled(a) ==
  /\ a \in workers
  /\ items' = [items EXCEPT ![a] = NothingRead(TimedOut)]
  /\ workers' = workers \ {a}
  /\ UNCHANGED <<specs, task, req>>

\* project_estate returns once every future has: the waiters are woken.
TaskEnds ==
  /\ task = "running"
  /\ workers = {}
  /\ task' = "done"
  /\ req' = [r \in Requests |-> IF req[r].st = "waits" THEN Holding(Result) ELSE req[r]]
  /\ UNCHANGED <<specs, workers, items>>

ClearTask ==
  /\ task = "done"
  /\ task' = "none"
  /\ items' = [a \in specs |-> NoItem]
  /\ UNCHANGED <<specs, workers, req>>

\* The project snapshot is one more item, read under the request's own authority.
Respond(r) ==
  /\ req[r].st = "holds"
  /\ \E project \in Truth :
       req' = [req EXCEPT ![r] = Answered(Together(@.result.truths \cup {project}),
                                          Worst(@.result.truths), @.result)]
  /\ UNCHANGED <<specs, task, workers, items>>

\* Mutant: the request awaits the task itself, so its cancellation cancels the task.
DisconnectUnshielded(r) ==
  /\ req[r].st \in {"waits", "holds"}
  /\ req' = [req EXCEPT ![r] = At("gone")]
  /\ task' = IF task = "running" THEN "cancelled" ELSE task
  /\ UNCHANGED <<specs, workers, items>>

\* The client goes away: the shield keeps the shared task running.
Disconnect(r) ==
  /\ req[r].st \in {"waits", "holds"}
  /\ req' = [req EXCEPT ![r] = At("gone")]
  /\ UNCHANGED <<specs, task, workers, items>>

Next ==
  \/ \E r \in Requests :
       Refuse(r) \/ StartRead(r) \/ JoinRead(r) \/ Respond(r) \/ Disconnect(r)
  \/ \E a \in specs : WorkerAnswers(a) \/ WorkerKilled(a)
  \/ TaskEnds
  \/ ClearTask

Spec == Init /\ [][Next]_vars

\* Timeouts expire and the event loop runs what is ready; no source has to answer.
Fairness ==
  /\ \A a \in UNION Estates : WF_vars(WorkerKilled(a))
  /\ WF_vars(TaskEnds)
  /\ WF_vars(ClearTask)
  /\ \A r \in Requests : WF_vars(Respond(r))
FairSpec == Spec /\ Fairness

-----------------------------------------------------------------------------
(* Workers run only for the shared task, so there is at most one process per   *)
(* population whatever the number of requests.  What a reader can notice shows:  *)
(* an overview is current, or its quality entry is, only when no population's     *)
(* source had a flaw its reader notices; and when of one nothing could be read    *)
(* (no reader, killed, denied, unreachable, malformed, lost) the quality entry is  *)
(* unknown or worse.                                                         *)
TypeOK ==
  /\ specs \in Estates
  /\ task \in {"none", "running", "done", "cancelled"}
  /\ \A a \in specs : items[a] = NoItem \/ items[a] \in Item
FlawsShow ==
  \A r \in Requests : req[r].st = "answered" =>
    /\ "current" \in {req[r].truth, req[r].quality} => req[r].result.flaws = {"none"}
    /\ "all" \in req[r].result.flaws => Rank(req[r].quality) <= Rank("unknown")
WorkersServeTheTask == workers # {} => task = "running" /\ \A a \in workers : items[a] = NoItem
EstateSafe == TypeOK /\ WorkersServeTheTask /\ FlawsShow

(* Every request that waits is answered or gives up: sources that hang, and     *)
(* other requests that disconnect, keep nobody waiting.                        *)
OverviewsAnswered ==
  \A r \in Requests : req[r].st = "waits" ~> req[r].st \in {"answered", "gone"}

=============================================================================
