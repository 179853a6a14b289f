---------------------------- MODULE GatewayRead ----------------------------
(***************************************************************************)
(* The gateway query (gateway_api.py): a sliding-window limit, the query's        *)
(* checks, a worker thread that reads the index and then one observation after    *)
(* another, within two seconds, and the projection of what it has read.  The      *)
(* composer replaces the index and the observations while the thread reads.      *)
(***************************************************************************)
EXTENDS Integers, FiniteSetsExt, SequencesExt

CONSTANTS
  Nodes,
  Abroad,     \* nodes whose collector writes times with an offset that sorts later
  MaxClock,   \* bound of the clock
  Limit,      \* _RATE_LIMIT
  Window,     \* _RATE_WINDOW
  TTL         \* TTL_SECONDS

VARIABLES
  clock,
  index,      \* latest.json: whether it can be read, and its entries
  file,       \* the observation files: what each entry's path holds
  recent,     \* _RATE of the one client: stamps, each with the number of its request
  admitted,   \* history: when requests were let past the limit
  req

vars == <<clock, index, file, recent, admitted, req>>

Files == {1, 2}
Indexed(S) == [whole |-> TRUE, entries |-> [f \in S |-> file[f]]]
Damaged == [whole |-> FALSE, entries |-> <<>>]

\* An observation: when, of which node, and whether it is damaged: no JSON, facts
\* that are not well formed, no time.  Anything that is not gateway_observed is
\* passed over; of neither the node matters.  Its inventory expects every node.
Observation == [at : 0..1, node : Nodes, shape : {"good"}]
Broken == [at : {0}, node : {CHOOSE n \in Nodes : TRUE}, shape : {"damaged", "lane"}]

At(pc) == [pc |-> pc]

Init ==
  /\ clock = 0
  /\ file \in [Files -> {o \in Observation : o.at = 0} \cup Broken]
  /\ index \in {Damaged, Indexed(Files)}
  /\ recent = {} /\ admitted = <<>>
  /\ req = At("idle")

-----------------------------------------------------------------------------
\* _rate_limited: stamps older than the window are dropped, a refusal adds none.
InWindow(stamps) == {stamp \in stamps : clock - stamp.at < Window}

\* Mutant: one request too many.
LimitedLate(stamps) == Cardinality(stamps) > Limit
Limited(stamps) == Cardinality(stamps) >= Limit

\* What parse_query refuses, by the status of the answer.
QueryFaults == {400, 403}

Failed(status) == [pc |-> "over", status |-> status]

Ask ==
  /\ req.pc \in {"idle", "over"}
  /\ LET stamps == InWindow(recent) IN
     IF Limited(stamps)
       THEN /\ recent' = stamps /\ UNCHANGED admitted
            /\ req' = [pc |-> "over", status |-> 429, at |-> clock]
       ELSE /\ recent' = stamps \cup {[of |-> Len(admitted) + 1, at |-> clock]}
            /\ admitted' = Append(admitted, clock)
            /\ \/ req' = At("parsed")
               \/ \E status \in QueryFaults : req' = Failed(status)
  /\ UNCHANGED <<clock, index, file>>

\* An index that is missing, too large or malformed is unavailable, not empty; bytes
\* that are no UTF-8 raise what nobody catches.
Unreadable == {503, 500}

ReadIndex ==
  /\ req.pc = "parsed"
  /\ \/ /\ index.whole
        /\ req' = [pc |-> "reading", left |-> DOMAIN index.entries, index |-> index.entries,
                   seen |-> {}]
     \/ ~index.whole /\ \E status \in Unreadable : req' = Failed(status)
  /\ UNCHANGED <<clock, index, file, recent, admitted>>

\* _normalize_observation adapts a snapshot of skcounter: the same facts.
Taken(f) == IF file[f].shape = "lane" THEN {} ELSE {<<f, file[f]>>}

\* Mutant: an observation is taken whatever its hash.
ReadFileUnhashed ==
  /\ req.pc = "reading"
  /\ \E f \in req.left :
       req' = [req EXCEPT !.left = @ \ {f}, !.seen = @ \cup Taken(f)]
  /\ UNCHANGED <<clock, index, file, recent, admitted>>
\* A source outside the root, too large, missing or of another hash refuses the query;
\* one whose damage is bytes that are no UTF-8 raises.
ReadFile ==
  /\ req.pc = "reading"
  /\ \E f \in req.left :
       \/ /\ file[f] = req.index[f]
          /\ req' = [req EXCEPT !.left = @ \ {f}, !.seen = @ \cup Taken(f)]
       \/ req' = Failed(503)
       \/ file[f] = req.index[f] /\ file[f].shape = "damaged" /\ req' = Failed(500)
  /\ UNCHANGED <<clock, index, file, recent, admitted>>

-----------------------------------------------------------------------------
(* project                                                                   *)

\* _facts_are_well_formed and the observation's time.
WellFormed(o) == o.shape = "good"

\* _per_node_snapshot: a row for each node seen or expected, of its latest observation.
NodeRow(n, selected, now) ==
  LET of == {o \in selected : o.node = n} IN
  [node |-> n,
   state |-> IF of = {} THEN "missing"
             ELSE IF now - Max({o.at : o \in of}) > TTL THEN "stale" ELSE "current"]

NodeRows(selected, now) ==
  IF selected = {} THEN {} ELSE {NodeRow(n, selected, now) : n \in Nodes}

\* The rows are sorted by the text of their times: what sorts last is the latest.
\* An offset of hours writes a time of day that is not yet.
Written(o) == IF o.node \in Abroad THEN o.at + 2 ELSE o.at
Latest(selected) == CHOOSE o \in selected : \A p \in selected : Written(p) <= Written(o)

\* Mutant: damaged observations are dropped without a word.
AnswerStateQuiet(seen, selected, now) ==
  IF selected = {} THEN "empty"
  ELSE IF now - Latest(selected).at > TTL THEN "stale" ELSE "current"
AnswerState(seen, selected, now) ==
  IF seen # {} /\ \E p \in seen : ~WellFormed(p[2]) THEN "partial"
  ELSE IF selected = {} THEN "empty"
  ELSE IF now - Latest(selected).at > TTL THEN "stale" ELSE "current"

\* _matches: a query selects by time and filters, and takes no more rows than its
\* limit, those that sort last; here all, or what is at its start, or one row.
Selections(seen) ==
  LET good == {o \in {p[2] : p \in seen} : WellFormed(o)} IN
  {good, {o \in good : o.at > 0}} \cup (IF good = {} THEN {} ELSE {{Latest(good)}})

Answer ==
  /\ req.pc = "reading" /\ req.left = {}
  /\ \E selected \in Selections(req.seen) :
       \/ req' = [pc |-> "over", status |-> 200, from |-> req.index, now |-> clock,
                  state |-> AnswerState(req.seen, selected, clock),
                  nodes |-> NodeRows(selected, clock)]
       \/ req' = Failed(503)   \* MAX_RESPONSE_BYTES
  /\ UNCHANGED <<clock, index, file, recent, admitted>>

\* wait_for gives up; the thread it leaves behind answers nobody.
TimeOut ==
  /\ req.pc \in {"parsed", "reading"}
  /\ req' = Failed(503)
  /\ UNCHANGED <<clock, index, file, recent, admitted>>

-----------------------------------------------------------------------------
\* External: the collector replaces an observation, then the composer the index.
Collect ==
  /\ \E f \in Files, o \in Observation : o.at = clock /\ file' = [file EXCEPT ![f] = o]
  /\ UNCHANGED <<clock, index, recent, admitted, req>>

Compose ==
  /\ \E S \in SUBSET Files : index' = Indexed(S)
  /\ UNCHANGED <<clock, file, recent, admitted, req>>

Tick ==
  /\ clock < MaxClock
  /\ clock' = clock + 1
  /\ UNCHANGED <<index, file, recent, admitted, req>>

Next ==
  \/ Ask \/ ReadIndex \/ ReadFile \/ Answer \/ TimeOut
  \/ Collect \/ Compose \/ Tick

Spec == Init /\ [][Next]_vars

-----------------------------------------------------------------------------
(* An answer describes one generation of the index: it is empty only when nothing   *)
(* of that generation is damaged, it is current only when an observation of it is,   *)
(* and a node it shows as current was observed within the time to live.            *)
AnswersAreOneGeneration ==
  req.pc = "over" /\ req.status = 200 =>
    LET was == {req.from[f] : f \in DOMAIN req.from}
        live(o) == o.shape = "good" /\ req.now - o.at <= TTL IN
    /\ req.state = "empty" => \A o \in was : o.shape \in {"good", "lane"}
    /\ req.state = "current" => \E o \in was : live(o)
    /\ \A row \in req.nodes :
         row.state = "current" => \E o \in was : live(o) /\ row.node = o.node

(* No window of time holds more requests than the limit, and a client is refused   *)
(* only when its last window is full: refusals do not count against it.           *)
WindowHolds ==
  /\ \A i \in DOMAIN admitted : i > Limit => admitted[i] - admitted[i - Limit] >= Window
  /\ "at" \in DOMAIN req =>
       Cardinality({i \in DOMAIN admitted : req.at - admitted[i] < Window}) >= Limit

=============================================================================
