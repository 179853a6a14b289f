# A TLA+ model of skdashboard

skdashboard is a dashboard and control plane: it serves read-only projections
of what other programs own (boards, schedules, usage, fleet state), and keeps a
little state of its own: browser sessions, report subscriptions and their
simulated delivery, immutable report snapshots, event streams, an alert gate,
reserved credentials, and pools that bound the work of providers. The arithmetic
of the projections is pure and well covered by tests. What this project models
is the rest: state, and reads of what others change meanwhile, because there the
errors come from interleavings, crashes, late answers and limits.

Line numbers refer to `src/src/skdashboard/` unless another path is given.

## 1. Inventory

### Modelled

| Component | State it keeps | Operations | What makes it hard | What makes it correct |
|---|---|---|---|---|
| Report delivery simulation, `report_delivery.py` | SQLite: subscriptions, outbox, receipts, audit | create_draft, activate, dispatch_due, cancel | several dispatchers, claims that expire under a running one, a crash between the send and the receipt, retries, cancellation in between | at most one acceptance, an unknown outcome is not resent, evidence and statuses agree, an activated delivery settles |
| Browser session adapter, `session_adapter.py` | SQLite: login transactions, encrypted sessions; memory: bounded table of operator proofs | login, callback, resolve, logout, enroll, discard | browsers that return twice or late, one-use refresh tokens, requests of one session interleaved at awaits, late or lost answers of the identity provider, cancellation of a request at its await, restarts | one session per login, no older token stored over a newer one, a session in step with the provider, logout means revoked |
| Event bus and streams, `dashboard_kanban.py`, `dashboard.py` (legacy stream) | memory: lanes with events, resume floors, subscriber queues | publish, open_stream, stream_sse, subscribe | slow consumers, shared replay budget, lanes evicted, cursors of another process, authority lost while waiting | what a browser gets is exact and in order or ends in a reset |
| Event-store poll, `dashboard_kanban.py` | the last fingerprint | poll_event_store | modification times in whole seconds, logs that get an older time from other hosts, looks that miss a log, publications that raise | growth in a later second is published, but for two exceptions the property names |
| Visibility execution boundary, `visibility_execution.py` | semaphore, thread pool, futures | invoke | a timeout races the return of the provider and the registration of its callback; providers hang | every slot has exactly one holder, timeouts are not retried, admitted callers are answered |
| Schedule provider, `dashboard_schedule.py` | two nested bounded executors | read, its owner read, cycle analysis | owner reads that hang, jobs abandoned by their caller, authority revoked during the read | released only under authority before and after, request threads come back, cycles found are cycles |
| Estate read, `control_plane_adapters.py`, `control_plane_quality.py` | one shared task, worker processes | overview, read of each declared population | requests that share a task and disconnect, sources that hang, workers killed | one worker per population, what a reader notices is never folded away, everyone is answered |
| Protected handlers and operator bridge, `control_plane_api.py`, `live_control_plane.py` | open verifiers; proofs by age, revisions by `id(proof)` | admission in five deployments, twelve handlers, enroll, request, discard | authority that lapses between read and release, ids that are reused, proofs evicted at a limit, cancellation at each await | owner data leaves only under an authority current at the read, no verifier outlives its request, a request runs under its own session's revision |
| Change control, `dashboard.py`, `queue_authz.py`, `consent.py` | the log of a change, folded | vote, validate, schedule, unschedule, arm, verify, queue, drafts | other processes append between any two reads, the pull request moves, the consent store fails | every event is answerable to the gate, the session and its consent; a verdict is that of its commit |
| Capability state, `runtime_authorizer.py` | SQLite: revocations, replay rows, audit | verify, snapshot, reserve, record | several processes, a time taken before the lock, pruning, files replaced between checks | a credential is reserved once in its lifetime and never without its audit row |
| Report snapshot store, `dashboard_reports.py` | one file per snapshot | put, get, list | writers in several processes that die half way; list reads file by file | written once, never changed, a correction only of what can be read |
| Usage index, `skcounter_gateway_compose.py`, `dashboard_skcounter.py` | an index and the observations it names | compose, publish, get_ai_usage | publishers that overlap or die between two renames, readers meanwhile | the index names what is in place, an answer is of one generation |
| Card schedule source, `live_control_plane.py` | none | read | cards are read one after another while others write them | a released schedule is the card store of one instant |
| Gateway query, `gateway_api.py` | a window of admission times | rate limit, read, project | index and files replaced during the read, times with an offset | an answer describes one generation; no window holds more than the limit |
| Fleet drift alert gate, `dashboard_fleet.py` | one state file | get_drift / maybe_alert | the alert and the write of the state are two steps, either may fail; changes inside the cooldown | at most one call per cooldown, standing drift is told |
| Agent bearer, `agent_bearer.py` | two token files | refresh | the provider rotates a token before it is written; the process may die in between | the agent gets a bearer in date again |

How they interact: the routes of `dashboard.py` call everything; the protected
handlers await the session adapter, which calls the operator bridge (`enroll`,
`request`, `discard`) and, over HTTP, the identity provider; handlers then read the
estate, the schedule, the reports and the usage index; the streams are fed by
the bus, and the bus by the poll of the event store; report deliveries read
snapshots; the drift route calls the gate, which calls a sender; providers run
in the pool of the visibility boundary. Shared state is therefore: three SQLite
databases, the snapshot directory, the usage index, the card logs, the alert
state file, the token files, and in memory the bus, the proof table, the shared
estate task and the pools.

Two compositions are modelled inside one module each, because the components
meet in their state there: `SessionAdapter` contains the proof table the bridge
keeps for it, and `ProtectedRead` contains the bridge's pairing of requests with
proofs. The other components share no variable: they call each other through
answers that each module takes from a set (an owner's verdict, a source's
fault), so their composition adds interleavings but no behaviour.

### Not modelled

`PROJECT.json` lists every part with its reason. In short:

* Documents assembled without state: architecture, governance, economy,
  operator, overview, observability and CMDB views, `visibility.py` redaction,
  `fleet_chat.py`, `forecast.py` (floating-point simulation). Where such a
  provider can fail or be late, the module of its caller has that outcome.
* The ITIL mirror of `dashboard_itil.py`: it maps records of other packages; its
  handlers' failures are in `ProtectedRead`.
* Checks of a pull request that are run again after they finished: in `ChangeControl`
  the checks of a commit only become more complete.
* Configuration at start, command-line provisioning, static registries,
  packaging, browser rendering, the client library (sequential and stateless).
* The fold of the change log, the card store, JSON Web Tokens, GPG and the policy
  decision point belong to other packages; the modules take their outcomes from
  what `src/` accepts of them.

## 2. The modules

| Module | Models | Code |
|---|---|---|
| `DeliveryContract` | what delivery promises: a bounded number of tries, one at a time, at most one acceptance, closed for good, a receipt only for what was accepted | abstract |
| `ReportDelivery` | the service, its dispatchers and its destination | `report_delivery.py` |
| `LoginTransactions` | logins, their limits, callbacks up to the new session | `session_adapter.py` 363-480 |
| `SessionAdapter` | sessions from the end of their callback, refresh, logout, proof table, identity provider | `session_adapter.py`, `live_control_plane.py` |
| `EventBus` | bus, streams, browsers | `dashboard_kanban.py` 421-719, `dashboard.py` |
| `BoardPoll` | writers' clocks, the sum of times, the poll | `dashboard_kanban.py` |
| `VisibilityBoundary` | admission, attempts, pool | `visibility_execution.py` |
| `ScheduleProvider` | both executors, their queues, the jobs | `dashboard_schedule.py` |
| `ScheduleGraph` | the depth-first search, one step of its loop at a time | `dashboard_schedule.py` `_cycles` |
| `EstateRead` | overview requests, the task, workers, items | `control_plane_adapters.py`, `control_plane_quality.py` |
| `ProtectedRead` | admission, handlers, verifiers, bridge | `control_plane_api.py`, `live_control_plane.py` |
| `ChangeControl` | gate, routes, log, pull request | `dashboard.py`, `queue_authz.py`, `consent.py` |
| `CapabilityState` | a decision's steps, lock, tables | `runtime_authorizer.py` |
| `SnapshotStore` | the files and their writers and readers | `dashboard_reports.py` 590-674 |
| `UsageIndex` | composers, edges, the reader | `skcounter_gateway_compose.py`, `dashboard_skcounter.py` |
| `CardRead` | cards, their writers, the double read | `live_control_plane.py` 421-640 |
| `GatewayRead` | window, index, files, the query | `gateway_api.py` |
| `FleetAlert` | the gate, its file, the poll | `dashboard_fleet.py` 403-570 |
| `AgentBearer` | the job and the provider | `agent_bearer.py` |
| `...Proofs` | theorems about all of them but the board poll and the agent bearer, whose only properties are liveness (section 6) | |
| `MC...` | instances for TLC | |

The names of variables and actions follow the code; `PROJECT.json` maps each
definition to its lines. Operators marked *Mutant* are not part of the model:
each is a plausible bug in the definition it precedes, and shows that a property
would notice it.

**What is one action.** Code that runs without giving up control is one action.
For the two databases it is a transaction (`BEGIN IMMEDIATE` serialises writers)
or the call in between; a dispatcher or a decision is a program counter, and the
process may die or raise between any two steps. For everything on the event
loop (session adapter, bus, handlers, estate task) it is the code between two
awaits. For thread pools it is each operation on a semaphore, a queue or a
future. For files it is a system call: a rename, or the read of one file. For
change control it is an append to the log, a read of it, or a call of `gh`.

**What is abstract.** Report payloads, hashes, redaction and approval documents
are a nondeterministic verdict. A validation accepts or refuses; which of its conditions
failed is told apart only where the outcome differs (a status, a row left out, a
degraded answer). Records of a session are
numbered by the seal instead of encrypted; refresh tokens are numbered by
generation; a future is the pair of a call and an attempt; a fingerprint is the
set of findings it hashes; observations are a lane and a version, or a shape, a
node and a time. Timestamps that the code compares as text keep the *text*
order (`StampLE` in `ReportDelivery`, `Abroad` in `GatewayRead`). Ages in `FleetAlert`
stop at the cooldown. A handler of `ProtectedRead` is a row: what it reads, and the
status it answers when its authority lapsed, its subject is missing or its
source fails. Directory entries lost by a power failure and the trailing
newline of a snapshot file are left out.

**External parts** (marked so in the map): the clock, the supervisor that
restarts the process, the identity provider (redeems each refresh token once,
revokes the family on replay, may answer late or not at all), the future and
thread pool of Python, the event loop, owners whose policies lapse, the fold of
the change log, other writers of cards, logs and files, the fleet.

## 3. The runs

Components that share no state are checked in one TLC run, but never
interleaved: the constant variable `part` is chosen in `MCInit`, one component
steps, and the variables of the others stay at one initial value. The states
of such a run are the sum of its parts, each part is its own module's `Next`,
and a property of one part holds trivially in the others.

| Run | Instance | Question |
|---|---|---|
| `delivery_single` | one subscription, two dispatchers, 3 attempts, clock to 5, one failure | does one delivery survive overlapping dispatchers, lost claims, exceptions and restarts, and does it settle |
| `delivery_pair` | two subscriptions, two keys, two dispatchers, batch of one, one denied activation | is the invariant of the proof right, does the service implement `DeliveryContract` |
| `browser` | session: two requests, 5 seals, clock to 3. stream: two lanes, one browser, filters, queue of 2, 3 events, a restart. shared: two browsers and a legacy page at a limit of one, 3 events | does the credential stay in step with the provider; is a stream exact or reset; is a lane in use ever evicted |
| `timed` | 3 calls on one thread; 2 schedule reads on one worker of each executor; 2 overviews over eleven sets of populations; 2 findings, cooldown of 3, one lost write; 6 tokens, 3 faults; 2 logs, 3 seconds, one append in each, one look that misses a log | who waits is answered, what must be told is told, whatever hangs |
| `records` | 3 processes and 3 snapshots; 2 composers and 2 versions of each lane; 2 cards that change once; 2 nodes, window of 2, limit of 1; every graph of 3 items | what does a reader see while others write |
| `authority` | 2 protected reads, 2 subjects, one proof place, one id; one change request, 2 commits, 2 events of others; 3 reservations of one credential, its expiry inside the clock; 3 logins of 2 sources, 2 callbacks, limits of 1 and 2 | who was let in, and under which authority |
| `delivery_unknown`, `delivery_schedule`, `session_used_once`, `bus_missed`, `schedule_cycles`, `change_verdict` | single modules | *violated*, see section 5 |

The four composed runs have between 0.15 and 1.4 million distinct states and take
about one to three minutes each with two workers.

**Bounds, and why they are enough.** Each bound is a constant tested in a guard,
or an instance size. Two actors are enough for most races in this code, since
few invariants relate more than two dispatchers, requests or writers; three
calls, processes and reservations are used where two compete for something a
third holds. Two dispatchers with a claim of one tick and a clock of five reach the
takeover of a claim, the late answer of the first dispatcher and a retry after
it; three attempts with a backoff of one tick reach the limit. `MaxFailures`
counts exceptions and restarts; one is enough to abandon any single step, and
the counter keeps the failures from exhausting the instance. The seals of a
session allow a refresh, a takeover and a re-enrolment in one behaviour. Three
events overflow a queue of two and the shared budget; five let a lane drop an
event after its floor was set by the trimming of another lane. The budget of two
for three snapshots makes `list` refuse. One proof place for two subjects makes
each enrolment evict, and one proof id makes each reuse collide. A clock of four
around a lifetime of two lets a reservation take its time before the expiry and
commit after it. Two versions per lane let a composer put back the older one. In
`BoardPoll` three seconds with one append in each let one log fall back while the other
gets later, so that the sum stays; the bound of one append keeps the run small and
takes no case away: an append in the second a log already has is one to a log that
was synchronised with a time ahead of the clock. One missed look is enough: it makes the sum fall
and the next look makes it rise again.
Three items are the fewest on which the cycle search goes wrong. In `EstateRead`
the populations are tried one at a time and in two pairs, since items are
computed from their own source only and folded by quantifiers; two suffice for
every mixture. One lost write is enough to make the alert gate's file stale; the
theorem is for any number. Symmetry is declared only in runs without liveness properties,
over identifiers the properties do not tell apart. Runs that may stop (all calls
ended, the clock at its bound) say `CHECK_DEADLOCK FALSE`.

**Fairness, and why the code justifies it.**

* `ReportDelivery`: nothing in the repository calls `dispatch_due` on a schedule;
  it is a library function. `ActivatedSettles` is therefore conditional: if somebody
  keeps calling it and the clock goes on, a dispatcher that has begun goes on to
  its next step unless it fails (each step is straight-line code or a bounded
  call), and failures are finitely many.
* `VisibilityBoundary`: a caller that was admitted goes on, because
  `future.result(timeout=...)` bounds the wait. Nothing is assumed of providers.
* `ScheduleProvider`: both waits have timeouts and free threads take queued jobs;
  nothing is assumed of the owner, whose reads may hang for ever.
* `EstateRead`: a worker that hangs is killed at its timeout (`WorkerKilled`), the
  task ends when its workers have, its callback runs, and a request goes on when
  what it awaits is there.
* `FleetAlert`: the page polls on a timer, the synchronous handler makes polls
  serial, time passes, and the sender does not fail for ever (the one strong
  fairness of the project, on its success).
* `AgentBearer`: the unit's timer starts the job again and the job takes its next
  step; faults are bounded.
* `BoardPoll`: the loop looks once a second and publishes what it found.

In `MCTimed` each of these is stated for its own part, as `MCFairness`. Safety
properties assume no fairness.

## 4. What the properties say

The comments above each property in the modules are the reference; the deepest
ones are these.

* `AcceptedAtMostOnce`, `ImplementsContract`: whatever the dispatchers, claims,
  retries and restarts do, the destination accepts a delivery at most once. The
  reason is not obvious from the code: the destination's memory is lost with the
  process, so it rests on the fact that a claim is never requeued, only
  declared unknown.
* `AuditReplays`: the status of a row can be recomputed from its audit trail.
* `OnlyFaultsDesynchronise`, `TokenNeverRegresses`, `AuthenticatedMeansPresent`: a
  session at rest holds the provider's current token unless an answer or process
  was lost or a reservation taken over; no late failure or write-back restores
  an older token; nobody is authenticated by a session that another request
  logged out while this one waited.
* `SignInsAccounted`: a login waits, is being exchanged, or has opened its session,
  once, although a browser may return with one state during the exchange; the
  logins of others and their limits cost nobody his own.
* `SubscribersAreTold`: between two resets, a browser that keeps its cursor has received
  exactly the events of its lane that pass its filter, in order; a slow
  legacy page still hears the latest event.
* `SlotsAccounted`: the three ways to give a slot back (finally clause, callback,
  callback of a future already done) are exclusive and exhaustive.
* `RequestThreadsReturn`: owner reads that hang hold the owner's threads, never the
  threads that serve requests.
* `OwnerDataIsAuthorized`: an authority that lapses while the owner is read, before
  the check behind the read, releases nothing; and on every path, cancellation
  included, the verifier is closed. An authorizer that decides without offering
  currentness (the deployment "decision") opens no verifier: owner projections are
  then unavailable, and the economy, which the code does not count among them
  (714-722), reads its provider unchecked (870-871). The property speaks of it only
  where it is read with a verifier.
* `SessionsKeepTheirProof`: `_proof_owner_revisions` is keyed by `id(proof)`, and
  refused requests leave entries behind; a reused id still gives the request
  the revision of its own session. Eviction at the limit signs nobody out.
* `ReservedOnceInDate`: `reserve` takes its time before it waits for the lock and
  prunes by that time; a late transaction still cannot prune a row whose
  credential in its lifetime. After its lifetime a request that authenticated in
  time may reserve it again; the property leaves that open.
* `ActsAreAnswerable`, `QuietVerdictIsExact`: what the log of a change says can be
  traced to a request that passed the configured gate, and, without a push in
  between, to checks of the commit it names.
* `OtherLaneKept`: compose reads the other lane's entries and writes them back. A
  generation that lane published meanwhile is lost until it publishes again; the
  property says this is the only way a lane goes back, and bounds the loss: the lane
  falls back to what the index held when that run read it (nothing, if there was no
  index yet), never behind it.
* `EstateSafe`: what a reader notices of its source is never folded away. It says
  no more than that, because the code promises no more: a reader that stamps its
  answer with the time of the read never learns that the data is old, one that
  counts its own rows never learns that some are missing, and the fold of an absent
  board is zero cards, current. `NoticesAge`, `NoticesShort`, `NoticesPart` and
  `NoticesLoss` list which reader notices what; all conditions are offered to
  all readers, and what one does not notice is shown as current, as in the code.
  When nothing could be read at all the quality entry is unknown or worse.
* `LaterSecondIsTold`: logs may get any time from other hosts, older than they have or
  ahead of the clock, looks may miss a log, and a publication may raise after its
  sum was remembered. A growth that gives its log a later second is told in spite
  of that, unless a fall of another log, not told either, may stand against it in
  the sum, or its own publication raised.
* `AlertsAreOwed`: a lost write of the state file costs one early or repeated call, not
  the rate limit: `missing` records what the file lacks of the last call, and only
  while it does may the sender be called again.
* `ScheduleIsOneInstant`: the comparison of two readings, by the fields it compares,
  is enough for the projection that is released.
* `AnswersAreOneGeneration`: an answer composed from files read at different times
  claims nothing that one generation of the index did not have.
* `StandingDriftIsTold`: an edge suppressed by the cooldown is told later, also after
  lost writes, but for the write of a message that was delivered.
* `BearerComesBack`: also when the process dies between the rotation of the token
  at the provider and its write.

## 5. Disagreements found

Checked by a violation run each:

1. `delivery_unknown`: the outcome updates of `_dispatch_one` (754) test only the row
   id. A dispatcher whose claim was declared unknown and whose destination then
   refuses puts the row back to `retry_wait`, and the delivery is sent again,
   although the note promises that an unknown outcome fails terminally.
2. `delivery_schedule`: `"...:00Z"` sorts after `"...:00.500000Z"`, so a delivery
   scheduled half a second later is sent at the full second (634).
3. `session_used_once`: the reservation is taken over by age (596) while the first
   exchange may still be under way.
4. `bus_missed`: a full lane drops its head (620) without moving its resume floor; a
   cursor at the stale floor is accepted and the stream resumes with a gap.
5. `schedule_cycles`: `_cycles` skips targets that were visited (689), so an item
   whose only cycle returns through one is not found and its edges are called
   acyclic. `CyclesAreReal` shows what does hold: what is found is a cycle, and if
   there is any the critical path is closed.
6. `change_verdict`: validate reads the checks and then the head (1478); a push in
   between records the old commit's verdict under the new head, which the
   freshness check cannot refuse.

Observed while modelling, without a run:

* `dashboard.py:1686`: verify answers 409 when its event did not lead to the status,
  but reads the status from the record folded again: it answers success when
  another writer verified meanwhile and its own event was refused by the fold.
* `dashboard_kanban.py:737`: the docstring of `_cards_fingerprint` (728-729) says it
  changes whenever any writer appends an event. The sum is of whole seconds: a
  second append within one second, or a log that Syncthing brings with an older
  time while another gets a later one, can leave it unchanged. And at 755 the sum is
  remembered before the publication, so one that raises is not made up for.
  The model has all of this, and `LaterSecondIsTold` is what holds in spite of it.
* `control_plane_adapters.py`: old, partial or absent data looks current to the readers
  named under `EstateSafe` (for example 711-714, 893, 1153: the time of the read
  stands for the time of the observation).
* `gateway_api.py:140`, `158`: bytes that are no UTF-8 raise `UnicodeDecodeError`, which
  nothing catches: such an index or observation answers 500 instead of being
  unavailable or left out. The model has this outcome.
* `gateway_api.py`: rows are sorted by the text of `observed_at`, which orders
  times with different offsets wrongly; which of two rows of a node is shown
  depends on it.
* `dashboard_reports.py:617`: a put of content whose file another process is still
  writing, or died writing, is refused; the evidence note SKCP-32 (line 31) says
  "idempotent same-content writes". One partial file also makes every `list`
  fail, and `put` never looks at the population limit that `list` enforces.
* `dashboard_fleet.py:537`: while the state file cannot be written, each poll that
  sees drift sends an alert, which the docstring at 481 excludes. Drift that
  returns to the fingerprint of an older file after the write of a delivered
  message was lost stays silent (`StandingDriftIsTold` exempts that case). The comment at 512,
  "recurrence one second later still fires", holds only outside the cooldown.
* `session_adapter.py`: any 4xx answer of the provider, 429 included, deletes the
  session (618-642). The write-back of a new proof (688) has no compare-and-swap
  and is safe only because nothing is awaited between the load and the write.
* `skcounter_gateway_compose.py:133`: the lost update described under
  `OtherLaneKept`.

## 6. Proofs

All are checked by TLAPS with SMT, Zenon and LS4, for every value of the
constants under the assumptions named below. The components that share a TLC run
(section 3) are proved in one module, for the specification of that run: the
parts are chosen in `MCInit`, and a step of one part leaves the variables of the
others alone, so each theorem is the property of the run itself, without its
bounds on processes, items, limits and lifetimes. (Variables such as the clock
still stop at the constant the guards name; the proofs use no value of it.)
`BrowserProofs` states the session theorems over `SessionAdapter`'s own `Spec`,
`TimedProofs` those of the boundary over `VisibilityBoundary`'s, and `EventBusProofs`
its own over `EventBus`'s. Every invariant and every action property a passing run
checks is stated by a theorem.

**`ReportDeliveryProofs`**: `Invariance` proves `Spec => []IInv`. The properties are not
inductive alone: that a delivery is accepted at most once depends on what each
dispatcher's program counter says of the row it holds. `IInv` adds, per row
(`RowInv`), how status, claim, attempts, calls and acceptance relate; per
dispatcher (`WorkerInv`), what it knows of the row it works on at each step;
and that idempotency keys are distinct (`KeysDistinct`). One lemma per action
shows that the parts of other rows and dispatchers are undisturbed. From it
follow `TypeCorrect`, `OneSenderAtATime`, `DeliveredAtMostOnce`, `FailureIsEvidence`,
`ReceiptCorrect`, `CallsBounded`, `StatusesConsistent` and `CancellationFinal`.
`ContractImplemented` is the refinement: the initial states map to initial states
of `DeliveryContract`, and one lemma per action (`ClosingRefines` to `NextRefines`)
names the step of the contract it is, or shows that the mapping stutters.
`AuditFaithful` needs that an action appends to the trail the entries that account
for its change of the row (`TrailGrows`, `Replays`). Assumptions: the null row and
key are not subscriptions or keys, the limits are positive, and `PowerAssumption`:
the backoff `2^n` is a natural number (the prover has no exponentiation; TLC
evaluates it).

**`BrowserProofs`**: `SInv`. That a quiet session is in step with the provider
(`FaultsAlone`) needs to know what each suspended request carries, also one that is
then cancelled and leaves its reservation behind. `Chained`: a
reservation and the record it was written over have one refresh token, also
along a chain of takeovers, so a late restore cannot bring an older token back;
`InStep`: without a fault one request is exchanging, it owns the reservation and
knows which token the provider will take next; `RevocationSeen` and `LoggedOut`: a
browser that was told of its logout has a revoked family and no row. From it
follow `SessionTypes`, `FaultsAlone`, `LogoutIsReal`, `TokensRotateForward` and
`AuthenticatedSessionsExist`. `FramesHaveAuthority` is about the streams: whatever
is published, trimmed or reset, only the step that checked the authority moves
the position (`Streams`, `Framing`). `TypesHold` and `SubscribersTold` are the two
invariants of the run that concern the bus: `BusHolds` says that the bus that runs
satisfies `BusInv`, by the lemmas of `EventBusProofs` instantiated with the values of
the two buses (`OneIsOneStream` and `TwoIsShared` identify the definitions).
Assumptions: the null handle is no handle; lifetimes and bounds are natural
numbers; lanes, browsers and pages are finitely many and "none" is not a lane.

**`EventBusProofs`**: what a stream will still yield (`ToYield`, its replay and its
queue) is exactly what its browser has not seen (`Unseen`), in order. This is not
inductive alone, for it is the lane that gives a stream its replay. `BusInv` has

* per lane (`Window`): it keeps at most the bound, in order, and with an event
  every later one of its lane. Appending, dropping the head and trimming keep
  that; resuming at an event in the window then misses nothing. It does not say
  that the floor borders on the window, since it does not (finding 4): this is
  where a proof of `NothingMissed` stops;
* per stream (`StreamOK`): it has a reset to come, or exactly what it has not seen;
  it has a subscription, or its reset to come; an absent browser holds nothing;
* per subscription: its lane is known, so an eviction never takes it;
* per legacy page (`PageOK`): the latest public event since it subscribed is at the
  end of its queue, or with an empty queue what it heard last;
* the bounds: a new event fills one more cell of the replay buffer and a trim
  empties one (`Cells`, with cardinalities from `FiniteSetTheorems`), a lane leaves
  `order` before one enters it, and who subscribes is counted.

`StreamsAreExact` states the result for every bus; `BusNext` has a lemma per
action. The facts about sequences are inductions: `Least` (every set of numbers has
a least member, from `WFMin`) gives `Upward`, and with it `OnlyIs` shows what the
recursive function in `Only` computes, `OnlyKeeps` and `OnlyInOrder` that it returns
the wanted items, all of them, in order. Assumptions (`BusAssumption`): finite sets
of lanes, browsers and pages, the public lane among the lanes, "none" not, filters
over the topics, a positive bound.

**`AuthorityProofs`**, three components:

* Changes: `ChangeInv` keeps with a request what let it in (`ActOK`), and has its
  consent in the log from the moment it may act (`ConsentIsFirst`); `WrittenOK` is the
  lemma of all the appends. `VerdictsExact` adds `ExactSoFar`: what is still known of
  the checks when they were read, when the head was read after them, and when the
  verdict is written.
* Capabilities: a credential that was reserved is in the table or past its
  lifetime (`ReservedIsKept`), because the time a transaction prunes by is never
  later than the clock (`TimesArePast`, `PrunedIsOver`), and one process is inside
  (`HolderIsInside`).
* Logins: `StagesTell`, how far a login came says in which one of three places it
  may be: the table, one exchange, one session; `WithinLimits`, with cardinalities
  from `FiniteSetTheorems`.

Assumptions: events of others are no request's; there is a head; the mark of a
free lock is no process; limits and lifetimes are natural numbers.

**`TimedProofs`**, four components. The boundary's count of slots is inductive only
together with `CallInv`, which says of each call which of its attempts can be under
way, and so who will give its slot back; `OneCall` is the lemma all the steps use:
a step of one call that keeps `CallInv` and moves a slot exactly when the call
becomes a holder or ceases to be one keeps everything. `AlertInv`: the file has the
age of the sender's last call and the fingerprint told last, but for what `missing`
says it lacks, the poll in between holding what the file does not have yet. `ScheduleInv`: a queue holds a
job once, as long as no thread has taken it (`QueuedOnce`), and caller, job and
owner's read agree (`JobsAgree`), so a check that is reached has a whole read
behind it. `EstateInv`: workers run only for the running task, and an item is
current only if its reader noticed no flaw, unknown or worse if nothing could be read
(`ReaderHonest`, case by case over the readers and every condition of a source); the
fold of the items then keeps both. Assumptions: positive numbers of workers, populations that are not
empty (an overview always declares some), a natural cooldown.

**`ProtectedReadProofs`**: `RequestOK` says what each step of a handler knows of its
authority. Between read and check it is current at the read, or lapsed still;
policies only lapse, so the check behind the read decides for the read.
`SessionsKeepProofs` adds that the revision found by `id(proof)` is that of the
session, and that the table keeps to its limit (removal shortens it, `RemoveAt`).

**`RecordsProofs`**, five components:

* `UsageInvariant`: what a run is about to name is in place and stays
  (`SourcesInPlace`), a reader has rows of the generation it saw
  (`RowsAreOfOneGeneration`), every run holds the other lane as it read it, and one
  nobody overtook as it is (`RetainedIsCurrent`).
* `CardInv`: the two passes agree with the store of one moment, the end of the
  first: each card was read before it and is read again after it, or was edited
  in between and has a later time (`UpTo`, `SecondPass`).
* `GatewayInv`: what a query holds was named by the one index it read
  (`ReadOfIndex`), each observation as that index named it.
* `WindowInv`: requests are admitted in the order of their times, and the stamps
  of the present window are all kept. `RoomInWindow` turns the number of stamps
  into the limit of every window.
* `GraphInv`: the stack is a path of the graph (`PathInGraph`), so what is found
  closes a cycle; what was visited while no cycle was found is on none
  (`NoneMissed`), so a closed walk anywhere is noticed. `PathFits` is the pigeonhole
  argument that bounds the path by the number of items.

Assumptions: a generation at least, a positive limit, natural windows and edits.

**`SnapshotStoreProofs`**: `ProcInv` says what a process knows of the files at each of
its steps: that the superseded snapshot, once read, stays whole, and that the
file it writes is partial and nobody else's. Files only go from absent to
partial to whole, so this knowledge is stable.

**What the proofs changed in the models.** `OtherLaneKept` was false for three
composers as first stated: a run whose retained lane was replaced may itself be
overtaken, and the lane then goes back twice. The history variable `overlap`
exempted too little; it now records every run whose lane was replaced between
its read and its rename, and `base` what each run read, so that the property says
how far a lane can fall. The run has two composers (three exceed its time); the
theorem holds for any number. `GatewayRead` keeps the stamps of the rate limiter
as a set of numbered times instead of a filtered sequence. `EventBus` filtered
with `SelectSeq`, whose recursion is inside the library and hidden from the provers;
it now filters with a recursive function of its own (`Only`), and `Exact` says
what a stream still gets as a set of events in order, instead of comparing it with
the sequence a filter of the log would return. Both say the same.

**Only model-checked:**

* The seven liveness properties (`ActivatedSettles`, `AdmittedIsAnswered`,
  `RequestThreadsReturn`, `OverviewsAnswered`, `StandingDriftIsTold`, `BearerComesBack`,
  `LaterSecondIsTold`): liveness under fairness is beyond the prover.
* The refutations of section 5 are counterexamples and need no proof.

## 7. Plan

1. `BoardPoll` and `AgentBearer`: the safety under their liveness (a fingerprint
   remembered is one that was published; a bearer in the file was issued).
2. For the bus, an abstract stream (a browser has all of its lane up to a position,
   or a reset) which `EventBus` implements, from the invariant it has now.
3. A lemma module for what several proofs repeat (an item removed from a sequence,
   an append that keeps a property of all items, `Least` and `Upward`).

Modules to be proved about use recursive functions and folds, never RECURSIVE
operators.
