--------------------------- MODULE ReportDelivery ---------------------------
(***************************************************************************)
(* The simulated report-delivery service: subscriptions, a transactional   *)
(* outbox, leased claims, bounded retries, receipts and an audit trail     *)
(* (src/src/skdashboard/report_delivery.py).                               *)
(*                                                                         *)
(* Every BEGIN IMMEDIATE ... COMMIT of the code is one action, because     *)
(* SQLite serialises the writers.  dispatch_due is NOT one action: it      *)
(* releases the database between recovering the lost claims, selecting the *)
(* due rows, claiming one, calling the destination and recording the       *)
(* outcome, and any number of dispatchers, activations and cancellations   *)
(* may run in between.                                                     *)
(***************************************************************************)
EXTENDS Integers, Sequences, FiniteSets

CONSTANTS
  Subs,          \* subscription identities, hash(config, draft_key)
  NoRow,         \* a dispatcher that holds no outbox row
  Keys,          \* activation idempotency keys
  NoKey,         \* the outbox row does not exist yet
  DraftKey,      \* the draft key of each subscription identity
  Workers,       \* callers of dispatch_due
  MAX_ATTEMPTS,  \* attempts of one outbox row
  LIMIT,         \* rows selected by one dispatch_due
  CLAIM,         \* CLAIM_SECONDS, in ticks of the clock
  BACKOFF,       \* the base of the exponential retry delay, in ticks
  SECOND,        \* ticks in one second of a stored timestamp
  Schedules,     \* the values of scheduled_for a caller chooses from
  Expiries,      \* the values of the three expiry times
  MaxTime,       \* bound on the clock
  MaxDenied,     \* bound on the refused activations of a subscription
  MaxFailures    \* bound on the exceptions and restarts

NoClaim == -1    \* claim_expires_at IS NULL
NoReceipt == -1  \* the destination has no receipt of the key

ASSUME NameAssumption == NoRow \notin Subs /\ NoKey \notin Keys
ASSUME TimeAssumption ==
  /\ Schedules \subseteq Nat /\ Expiries \subseteq Nat
  /\ CLAIM \in Nat \ {0} /\ BACKOFF \in Nat \ {0} /\ SECOND \in Nat \ {0}
  /\ MaxTime \in Nat
ASSUME AttemptAssumption == MAX_ATTEMPTS \in Nat \ {0}
\* Arithmetic that tlapm has no rule for; TLC evaluates it.
ASSUME PowerAssumption == \A n \in 1 .. MAX_ATTEMPTS : 2 ^ (n - 1) \in Nat
ASSUME BoundAssumption ==
  LIMIT \in Nat \ {0} /\ MaxDenied \in Nat /\ MaxFailures \in Nat

SubStatus == {"absent", "disabled", "active", "receipt_verified", "failed",
              "expired", "cancelled"}
OutboxStatus == {"none", "queued", "dispatching", "retry_wait",
                 "receipt_verified", "failed", "expired", "cancelled"}
FailureCode == {"none", "DESTINATION_ERROR", "POLICY_OR_INTEGRITY_DENIED",
                "DELIVERY_OUTCOME_UNKNOWN"}
Event == {"subscription_drafted", "activation_denied",
          "subscription_activated", "delivery_outcome_unknown",
          "delivery_expired", "delivery_retry_scheduled", "delivery_failed",
          "delivery_denied", "receipt_verified", "subscription_cancelled"}
Phase == {"idle", "recover", "select", "next", "claimed", "cleared",
          "accepted", "refused", "denied"}

VARIABLES
  clock,     \* the time a caller passes as now
  sub,       \* table subscriptions
  outbox,    \* table outbox, one row per subscription (UNIQUE subscription_id)
  receipt,   \* table receipts: the subscriptions that have a row
  audit,     \* table audit, by subscription, in sequence order
  worker,    \* the local state of each running dispatch_due
  dest,      \* SimulationDestination._receipts: delivered_at by key
  calls,     \* history: calls of the destination, by subscription
  accepted,  \* history: deliveries the destination accepted
  failures   \* exceptions and restarts so far

db == <<sub, outbox, receipt, audit>>
outside == <<dest, calls, accepted>>
vars == <<clock, sub, outbox, receipt, audit, worker, dest, calls, accepted,
          failures>>

Due == {"queued", "retry_wait"}
Terminal == {"receipt_verified", "failed", "expired"}
InFlight == {"claimed", "cleared", "accepted", "refused", "denied"}

\* Stored times are ISO strings compared as text.  isoformat drops a zero
\* fraction, and "." sorts before "Z": a whole second sorts after every
\* fraction of the same second.
StampRank(t) == IF t % SECOND = 0 THEN SECOND ELSE t % SECOND
StampLE(a, b) == \/ a \div SECOND < b \div SECOND
                 \/ /\ a \div SECOND = b \div SECOND
                    /\ StampRank(a) <= StampRank(b)

Backoff(n) == BACKOFF * 2 ^ (n - 1)

Idle == [pc |-> "idle", now |-> 0, todo |-> {}, row |-> NoRow, attempt |-> 0]

Init ==
  /\ clock = 0
  /\ sub = [s \in Subs |-> [status |-> "absent", scheduled |-> 0,
                            expires |-> 0, policyExpires |-> 0,
                            verifiedUntil |-> 0]]
  /\ outbox = [s \in Subs |-> [status |-> "none", key |-> NoKey, available |-> 0,
                               claimUntil |-> NoClaim, attempts |-> 0,
                               code |-> "none"]]
  /\ receipt = {}
  /\ audit = [s \in Subs |-> << >>]
  /\ worker = [w \in Workers |-> Idle]
  /\ dest = [k \in Keys |-> NoReceipt]
  /\ calls = [s \in Subs |-> 0]
  /\ accepted = [s \in Subs |-> 0]
  /\ failures = 0

Record(s, event) == audit' = [audit EXCEPT ![s] = Append(@, event)]
SetSub(s, status) == sub' = [sub EXCEPT ![s].status = status]

-----------------------------------------------------------------------------
(* The owner's operations.                                                 *)

\* A draft that repeats a draft key returns the existing row or raises.
CreateDraft(s) ==
  /\ \A t \in Subs : sub[t].status # "absent" => DraftKey[t] # DraftKey[s]
  /\ \E scheduled \in Schedules, expires \in Expiries :
       /\ clock <= scheduled /\ scheduled < expires
       /\ sub' = [sub EXCEPT ![s] =
                    [status |-> "disabled", scheduled |-> scheduled,
                     expires |-> expires, policyExpires |-> 0,
                     verifiedUntil |-> 0]]
  /\ Record(s, "subscription_drafted")
  /\ UNCHANGED <<clock, outbox, receipt, worker, outside, failures>>

UsedKeys == {outbox[s].key : s \in Subs}

\* The approval's times; its other fields must equal the row's.
ApprovalCovers(s, policyExpires, verifiedUntil) ==
  /\ clock < sub[s].expires
  /\ clock < policyExpires
  /\ sub[s].scheduled < policyExpires
  /\ sub[s].scheduled < verifiedUntil

\* A used key returns the existing activation or raises, and writes nothing.
Activate(s, k) ==
  /\ k \notin UsedKeys
  /\ sub[s].status = "disabled"
  /\ \E policyExpires, verifiedUntil \in Expiries :
       /\ ApprovalCovers(s, policyExpires, verifiedUntil)
       /\ sub' = [sub EXCEPT ![s] =
                    [status |-> "active", scheduled |-> sub[s].scheduled,
                     expires |-> sub[s].expires,
                     policyExpires |-> policyExpires,
                     verifiedUntil |-> verifiedUntil]]
  /\ outbox' = [outbox EXCEPT ![s] =
                  [status |-> "queued", key |-> k,
                   available |-> sub[s].scheduled, claimUntil |-> NoClaim,
                   attempts |-> 0, code |-> "none"]]
  /\ Record(s, "subscription_activated")
  /\ UNCHANGED <<clock, receipt, worker, outside, failures>>

\* An approval that does not bind or cover the delivery, or that the policy
\* checker refuses, leaves one audit event.
DenyActivation(s) ==
  /\ sub[s].status = "disabled"
  /\ Cardinality({i \in DOMAIN audit[s] : audit[s][i] = "activation_denied"})
       < MaxDenied
  /\ Record(s, "activation_denied")
  /\ UNCHANGED <<clock, sub, outbox, receipt, worker, outside, failures>>

\* Mutant: a cancellation that does not look for a claimed row.
CancelInFlight(s) ==
  /\ sub[s].status \in {"disabled", "active"}
  /\ SetSub(s, "cancelled")
  /\ outbox' = IF outbox[s].status \in Due
               THEN [outbox EXCEPT ![s].status = "cancelled"]
               ELSE outbox
  /\ Record(s, "subscription_cancelled")
  /\ UNCHANGED <<clock, receipt, worker, outside, failures>>

Cancel(s) ==
  /\ sub[s].status \in {"disabled", "active"}
  /\ outbox[s].status # "dispatching"
  /\ SetSub(s, "cancelled")
  /\ outbox' = IF outbox[s].status \in Due
               THEN [outbox EXCEPT ![s].status = "cancelled"]
               ELSE outbox
  /\ Record(s, "subscription_cancelled")
  /\ UNCHANGED <<clock, receipt, worker, outside, failures>>

-----------------------------------------------------------------------------
(* One call of dispatch_due.                                               *)

Goto(w, pc) == worker' = [worker EXCEPT ![w].pc = pc]

\* The caller passes the current time once, for the whole batch.
Begin(w) ==
  /\ worker[w].pc = "idle"
  /\ worker' = [worker EXCEPT ![w] =
                  [pc |-> "recover", now |-> clock, todo |-> {},
                   row |-> NoRow, attempt |-> 0]]
  /\ UNCHANGED <<clock, db, outside, failures>>

\* The row of s after an update that ends its claim.
Unclaimed(s, status, available, code) ==
  [status |-> status, key |-> outbox[s].key, available |-> available,
   claimUntil |-> NoClaim, attempts |-> outbox[s].attempts, code |-> code]

\* The dispatcher goes on with the rest of its batch.
Resume(w, todo) ==
  worker' = [worker EXCEPT ![w] =
               [pc |-> "next", now |-> worker[w].now, todo |-> todo,
                row |-> NoRow, attempt |-> 0]]

\* Mutant: no claim is ever recovered.
NoneLost(w) == {}

Lost(w) == {s \in Subs : /\ outbox[s].status = "dispatching"
                         /\ StampLE(outbox[s].claimUntil, worker[w].now)}

\* Mutant: a lost claim goes back to the queue.
RecoverByRequeue(w) ==
  /\ worker[w].pc = "recover"
  /\ outbox' = [s \in Subs |->
                  IF s \in Lost(w)
                  THEN Unclaimed(s, "retry_wait", outbox[s].available,
                                 "DELIVERY_OUTCOME_UNKNOWN")
                  ELSE outbox[s]]
  /\ Goto(w, "select")
  /\ UNCHANGED <<clock, sub, audit, receipt, outside, failures>>

\* Mutant: a lost claim is reported as an error of the destination.
RecoverAsError(w) ==
  /\ worker[w].pc = "recover"
  /\ outbox' = [s \in Subs |->
                  IF s \in Lost(w)
                  THEN Unclaimed(s, "failed", outbox[s].available,
                                 "DESTINATION_ERROR")
                  ELSE outbox[s]]
  /\ sub' = [s \in Subs |-> IF s \in Lost(w)
                            THEN [sub[s] EXCEPT !.status = "failed"]
                            ELSE sub[s]]
  /\ audit' = [s \in Subs |-> IF s \in Lost(w)
                              THEN Append(audit[s], "delivery_outcome_unknown")
                              ELSE audit[s]]
  /\ Goto(w, "select")
  /\ UNCHANGED <<clock, receipt, outside, failures>>

\* Every claim whose lease has run out ends as an unknown outcome, whether or
\* not its dispatcher is still running.
RecoverClaims(w) ==
  /\ worker[w].pc = "recover"
  /\ outbox' = [s \in Subs |->
                  IF s \in Lost(w)
                  THEN Unclaimed(s, "failed", outbox[s].available,
                                 "DELIVERY_OUTCOME_UNKNOWN")
                  ELSE outbox[s]]
  /\ sub' = [s \in Subs |-> IF s \in Lost(w)
                            THEN [sub[s] EXCEPT !.status = "failed"]
                            ELSE sub[s]]
  /\ audit' = [s \in Subs |-> IF s \in Lost(w)
                              THEN Append(audit[s], "delivery_outcome_unknown")
                              ELSE audit[s]]
  /\ Goto(w, "select")
  /\ UNCHANGED <<clock, receipt, outside, failures>>

DueRows(w) == {s \in Subs : /\ outbox[s].status \in Due
                            /\ StampLE(outbox[s].available, worker[w].now)}

\* ORDER BY available_at LIMIT: the earliest rows, at most LIMIT of them.
\* The order inside a batch is left open.
Batches(rows) ==
  {batch \in SUBSET rows :
     /\ Cardinality(batch) <= LIMIT
     /\ batch # rows => Cardinality(batch) = LIMIT
     /\ \A a \in batch, b \in rows \ batch :
          StampLE(outbox[a].available, outbox[b].available)}

SelectDue(w) ==
  /\ worker[w].pc = "select"
  /\ \E batch \in Batches(DueRows(w)) : Resume(w, batch)
  /\ UNCHANGED <<clock, db, outside, failures>>

\* A row that another dispatcher or a cancellation took since the selection.
SkipRow(w, s) ==
  /\ worker[w].pc = "next" /\ s \in worker[w].todo
  /\ outbox[s].status \notin Due
  /\ Resume(w, worker[w].todo \ {s})
  /\ UNCHANGED <<clock, db, outside, failures>>

Lapsed(w, s) == \/ worker[w].now >= sub[s].expires
                \/ worker[w].now >= sub[s].policyExpires
                \/ worker[w].now >= sub[s].verifiedUntil

ExpireRow(w, s) ==
  /\ worker[w].pc = "next" /\ s \in worker[w].todo
  /\ outbox[s].status \in Due
  /\ Lapsed(w, s)
  /\ outbox' = [outbox EXCEPT ![s].status = "expired"]
  /\ SetSub(s, "expired")
  /\ Record(s, "delivery_expired")
  /\ Resume(w, worker[w].todo \ {s})
  /\ UNCHANGED <<clock, receipt, outside, failures>>

\* Mutant: the claim trusts the selection and does not read the row again.
ClaimStale(w, s) ==
  /\ worker[w].pc = "next" /\ s \in worker[w].todo
  /\ ~Lapsed(w, s)
  /\ outbox' = [outbox EXCEPT ![s] =
                  [status |-> "dispatching", key |-> outbox[s].key,
                   available |-> outbox[s].available,
                   claimUntil |-> worker[w].now + CLAIM,
                   attempts |-> outbox[s].attempts + 1,
                   code |-> outbox[s].code]]
  /\ worker' = [worker EXCEPT ![w] =
                  [pc |-> "claimed", now |-> worker[w].now,
                   todo |-> worker[w].todo \ {s}, row |-> s,
                   attempt |-> outbox[s].attempts + 1]]
  /\ UNCHANGED <<clock, sub, receipt, audit, outside, failures>>

ClaimRow(w, s) ==
  /\ worker[w].pc = "next" /\ s \in worker[w].todo
  /\ outbox[s].status \in Due
  /\ ~Lapsed(w, s)
  /\ outbox' = [outbox EXCEPT ![s] =
                  [status |-> "dispatching", key |-> outbox[s].key,
                   available |-> outbox[s].available,
                   claimUntil |-> worker[w].now + CLAIM,
                   attempts |-> outbox[s].attempts + 1,
                   code |-> outbox[s].code]]
  /\ worker' = [worker EXCEPT ![w] =
                  [pc |-> "claimed", now |-> worker[w].now,
                   todo |-> worker[w].todo \ {s}, row |-> s,
                   attempt |-> outbox[s].attempts + 1]]
  /\ UNCHANGED <<clock, sub, receipt, audit, outside, failures>>

\* The second policy check and the frozen report, outside any transaction:
\* both agree, or the delivery is refused.
Recheck(w) ==
  /\ worker[w].pc = "claimed"
  /\ \E verdict \in {"cleared", "denied"} : Goto(w, verdict)
  /\ UNCHANGED <<clock, db, outside, failures>>

\* The receipt must carry this dispatch's own time.
Answered(w, at) == IF at = worker[w].now THEN "accepted" ELSE "denied"

\* SimulationDestination.send: a known key returns its first receipt and is
\* not a new delivery.
Send(w) ==
  LET s == worker[w].row
      k == outbox[s].key
  IN /\ worker[w].pc = "cleared"
     /\ IF dest[k] # NoReceipt
        THEN /\ Goto(w, Answered(w, dest[k]))
             /\ UNCHANGED outside
        ELSE /\ calls' = [calls EXCEPT ![s] = @ + 1]
             /\ \/ /\ Goto(w, "refused")
                   /\ UNCHANGED <<dest, accepted>>
                \/ /\ Goto(w, "accepted")
                   /\ dest' = [dest EXCEPT ![k] = worker[w].now]
                   /\ accepted' = [accepted EXCEPT ![s] = @ + 1]
     /\ UNCHANGED <<clock, db, failures>>

\* The outcome transactions test the row's identity only, never that the
\* claim is still held.
Outcome(w, s, status, available, code) ==
  /\ s = worker[w].row
  /\ outbox' = [outbox EXCEPT ![s] = Unclaimed(s, status, available, code)]
  /\ Resume(w, worker[w].todo)

RetryTime(w) == worker[w].now + Backoff(worker[w].attempt)

\* Mutant: the retry bound is off by one.
RetryOnceMore(w, s) ==
  /\ worker[w].pc = "refused"
  /\ worker[w].attempt <= MAX_ATTEMPTS
  /\ Outcome(w, s, "retry_wait", RetryTime(w), "DESTINATION_ERROR")
  /\ Record(s, "delivery_retry_scheduled")
  /\ UNCHANGED <<clock, sub, receipt, outside, failures>>

RetryLater(w, s) ==
  /\ worker[w].pc = "refused"
  /\ worker[w].attempt < MAX_ATTEMPTS
  /\ Outcome(w, s, "retry_wait", RetryTime(w), "DESTINATION_ERROR")
  /\ Record(s, "delivery_retry_scheduled")
  /\ UNCHANGED <<clock, sub, receipt, outside, failures>>

GiveUp(w, s) ==
  /\ worker[w].pc = "refused"
  /\ worker[w].attempt >= MAX_ATTEMPTS
  /\ Outcome(w, s, "failed", RetryTime(w), "DESTINATION_ERROR")
  /\ SetSub(s, "failed")
  /\ Record(s, "delivery_failed")
  /\ UNCHANGED <<clock, receipt, outside, failures>>

Deny(w, s) ==
  /\ worker[w].pc = "denied"
  /\ Outcome(w, s, "failed", outbox[s].available,
             "POLICY_OR_INTEGRITY_DENIED")
  /\ SetSub(s, "failed")
  /\ Record(s, "delivery_denied")
  /\ UNCHANGED <<clock, receipt, outside, failures>>

\* UNIQUE(outbox_id): a second receipt of a row would raise.
Verify(w, s) ==
  /\ worker[w].pc = "accepted"
  /\ s \notin receipt
  /\ receipt' = receipt \cup {s}
  /\ Outcome(w, s, "receipt_verified", outbox[s].available, "none")
  /\ SetSub(s, "receipt_verified")
  /\ Record(s, "receipt_verified")
  /\ UNCHANGED <<clock, outside, failures>>

Return(w) ==
  /\ worker[w].pc = "next" /\ worker[w].todo = {}
  /\ worker' = [worker EXCEPT ![w] = Idle]
  /\ UNCHANGED <<clock, db, outside, failures>>

\* An exception nothing catches (the snapshot store, a locked database, a
\* rejected receipt insert) ends the call and leaves its claim behind.
Abort(w) ==
  /\ worker[w].pc # "idle"
  /\ failures < MaxFailures
  /\ failures' = failures + 1
  /\ worker' = [worker EXCEPT ![w] = Idle]
  /\ UNCHANGED <<clock, db, outside>>

\* The process restarts: the database survives, the dispatchers and the
\* destination's memory do not.
Restart ==
  /\ failures < MaxFailures
  /\ failures' = failures + 1
  /\ worker' = [w \in Workers |-> Idle]
  /\ dest' = [k \in Keys |-> NoReceipt]
  /\ UNCHANGED <<clock, db, calls, accepted>>

Tick ==
  /\ clock < MaxTime
  /\ clock' = clock + 1
  /\ UNCHANGED <<db, worker, outside, failures>>

-----------------------------------------------------------------------------
OwnerStep(s) == \/ CreateDraft(s) \/ DenyActivation(s) \/ Cancel(s)
                \/ \E k \in Keys : Activate(s, k)

RowStep(w, s) == \/ SkipRow(w, s) \/ ExpireRow(w, s) \/ ClaimRow(w, s)
                 \/ RetryLater(w, s) \/ GiveUp(w, s) \/ Deny(w, s)
                 \/ Verify(w, s)

\* A dispatcher at work; its failures are not part of it.
DispatchStep(w) == \/ Begin(w) \/ RecoverClaims(w) \/ SelectDue(w)
                   \/ Recheck(w) \/ Send(w) \/ Return(w)
                   \/ \E s \in Subs : RowStep(w, s)

Next == \/ \E s \in Subs : OwnerStep(s)
        \/ \E w \in Workers : DispatchStep(w) \/ Abort(w)
        \/ Restart
        \/ Tick

Spec == Init /\ [][Next]_vars

\* Time passes, and whoever calls dispatch_due keeps calling it and lets each
\* call run.  Activations, cancellations, answers and failures are not fair.
Fairness == WF_vars(Tick) /\ \A w \in Workers : WF_vars(DispatchStep(w))
FairSpec == Spec /\ Fairness

-----------------------------------------------------------------------------
(* Properties.                                                             *)

SubRow == [status : SubStatus, scheduled : Nat, expires : Nat,
           policyExpires : Nat, verifiedUntil : Nat]
OutboxRow == [status : OutboxStatus, key : Keys \cup {NoKey},
              available : Nat, claimUntil : Nat \cup {NoClaim},
              attempts : 0 .. MAX_ATTEMPTS, code : FailureCode]
Dispatcher == [pc : Phase, now : Nat, todo : SUBSET Subs,
               row : Subs \cup {NoRow}, attempt : 0 .. MAX_ATTEMPTS]

\* Every table column and local variable has its type; attempts, the column
\* the retry bound is tested on, never passes MAX_ATTEMPTS.
TypeOK ==
  /\ clock \in Nat /\ failures \in Nat
  /\ sub \in [Subs -> SubRow]
  /\ outbox \in [Subs -> OutboxRow]
  /\ receipt \in SUBSET Subs
  /\ audit \in [Subs -> Seq(Event)]
  /\ worker \in [Workers -> Dispatcher]
  /\ dest \in [Keys -> Nat \cup {NoReceipt}]
  /\ calls \in [Subs -> Nat]
  /\ accepted \in [Subs -> Nat]

Holds(w, s) == worker[w].pc \in InFlight /\ worker[w].row = s

\* Two dispatchers never have one delivery in flight together, although a
\* claim expires under a dispatcher that is still running and the outcome
\* transactions of _dispatch_one do not test the claim.
SingleSender ==
  \A v, w \in Workers, s \in Subs : Holds(v, s) /\ Holds(w, s) => v = w

\* The destination accepts a delivery at most once, through retries, lost
\* claims, restarts of the process and the loss of the destination's receipts.
AcceptedAtMostOnce == \A s \in Subs : accepted[s] <= 1

\* A failure code that names a cause is final evidence of no delivery: only
\* DELIVERY_OUTCOME_UNKNOWN leaves the question open.
NamedFailureWasNotDelivered ==
  \A s \in Subs : /\ \/ outbox[s].status \in {"retry_wait", "expired",
                                               "cancelled"}
                     \/ /\ outbox[s].status = "failed"
                        /\ outbox[s].code # "DELIVERY_OUTCOME_UNKNOWN"
                  => accepted[s] = 0

\* A receipt row exists exactly for the verified rows, and only for what the
\* destination accepted.
ReceiptIsEvidence ==
  \A s \in Subs : /\ s \in receipt <=> outbox[s].status = "receipt_verified"
                  /\ s \in receipt <=> sub[s].status = "receipt_verified"
                  /\ s \in receipt => accepted[s] = 1

\* The destination is called at most once per recorded attempt, so at most
\* MAX_ATTEMPTS times in all.
CallsWithinAttempts == \A s \in Subs : calls[s] <= outbox[s].attempts

\* The two status columns, always written together but by unguarded updates,
\* never contradict one another.  A failed subscription may still have a row
\* in retry_wait or dispatching: a late refusal requeues a row whose claim was
\* declared lost.
Agree(status, row) ==
  \/ status \in {"absent", "disabled"} /\ row = "none"
  \/ status = "active" /\ row \in {"queued", "dispatching", "retry_wait"}
  \/ status = "failed" /\ row \in {"failed", "retry_wait", "dispatching"}
  \/ status = "cancelled" /\ row \in {"none", "cancelled"}
  \/ status \in {"receipt_verified", "expired"} /\ row = status
StatusesAgree == \A s \in Subs : Agree(sub[s].status, outbox[s].status)

\* The row status the audit trail implies.
AuditedStatus(event) ==
  CASE event \in {"subscription_drafted", "activation_denied"} -> "none"
    [] event = "subscription_activated" -> "queued"
    [] event = "delivery_retry_scheduled" -> "retry_wait"
    [] event = "delivery_expired" -> "expired"
    [] event = "receipt_verified" -> "receipt_verified"
    [] event = "subscription_cancelled" -> "cancelled"
    [] OTHER -> "failed"

\* The last audit event gives the row's status, except for a claim, which is
\* not audited, and a cancelled draft, which has no row.
AuditReplays ==
  \A s \in Subs : audit[s] # << >> =>
    LET last == AuditedStatus(audit[s][Len(audit[s])])
    IN \/ outbox[s].status = last
       \/ outbox[s].status = "dispatching" /\ last \in Due
       \/ outbox[s].status = "none" /\ last = "cancelled"

\* A cancellation that was accepted is final: the destination is never called
\* afterwards and no late outcome overwrites it.
CancelIsFinal ==
  [][\A s \in Subs : sub[s].status = "cancelled" =>
       /\ sub'[s].status = "cancelled"
       /\ calls'[s] = calls[s]]_vars

\* Once activated, a delivery settles, whatever the destination answers.
Settled(s) == sub[s].status \in Terminal \cup {"cancelled"}
              /\ outbox[s].status \notin {"queued", "retry_wait", "dispatching"}
ActivatedSettles ==
  \A s \in Subs : sub[s].status = "active" ~> Settled(s)

\* "An interrupted send has an unknown outcome and fails terminally with audit
\* evidence rather than silently resending."
UnknownIsNeverResent ==
  [][\A s \in Subs : calls[s] > 0 /\ calls'[s] # calls[s] =>
       \A i \in DOMAIN audit[s] :
         audit[s][i] # "delivery_outcome_unknown"]_vars

\* The destination is not called before scheduled_for.
NotBeforeSchedule ==
  [][\A s \in Subs : calls'[s] # calls[s] => clock >= sub[s].scheduled]_vars

-----------------------------------------------------------------------------
(* The inductive invariant.                                                 *)

\* The rows whose delivery the destination cannot have taken.
Untaken(s) ==
  \/ outbox[s].status \in {"none", "queued", "retry_wait", "expired",
                            "cancelled"}
  \/ outbox[s].status = "failed" /\ outbox[s].code # "DELIVERY_OUTCOME_UNKNOWN"

RowInv(s) ==
  /\ outbox[s].key = NoKey <=> outbox[s].status = "none"
  /\ outbox[s].status = "none" => outbox[s].attempts = 0
  /\ Agree(sub[s].status, outbox[s].status)
  /\ outbox[s].status \in Due => outbox[s].attempts < MAX_ATTEMPTS
  /\ calls[s] <= outbox[s].attempts
  /\ accepted[s] <= 1
  /\ Untaken(s) => accepted[s] = 0
  /\ s \in receipt <=> outbox[s].status = "receipt_verified"
  /\ s \in receipt => accepted[s] = 1
  /\ outbox[s].key # NoKey /\ accepted[s] = 0 => dest[outbox[s].key] = NoReceipt

\* A dispatcher between its claim and its outcome: the row is still claimed or
\* was declared lost, nobody else changed its attempts, and the dispatcher
\* knows whether the destination took the delivery.
WorkerInv(w) ==
  LET s == worker[w].row IN
  worker[w].pc \in InFlight =>
    /\ s \in Subs
    /\ \/ outbox[s].status = "dispatching"
       \/ /\ outbox[s].status = "failed"
          /\ outbox[s].code = "DELIVERY_OUTCOME_UNKNOWN"
    /\ worker[w].attempt = outbox[s].attempts /\ worker[w].attempt >= 1
    /\ worker[w].pc \in {"claimed", "cleared"} => calls[s] < outbox[s].attempts
    /\ accepted[s] = IF worker[w].pc = "accepted" THEN 1 ELSE 0

KeysDistinct ==
  /\ \A s, t \in Subs :
       s # t /\ outbox[s].key # NoKey => outbox[s].key # outbox[t].key
  /\ \A k \in Keys \ UsedKeys : dest[k] = NoReceipt

\* Type correctness with what makes the delivery properties inductive.
IInv == /\ TypeOK
        /\ \A s \in Subs : RowInv(s)
        /\ \A w \in Workers : WorkerInv(w)
        /\ SingleSender
        /\ KeysDistinct

-----------------------------------------------------------------------------
(* The contract.  A delivery is being tried while its row is claimed OR a   *)
(* dispatcher still works on it: after a claim is declared lost the table   *)
(* says failed, and only the end of that dispatcher closes the delivery.    *)

Stage(s) ==
  IF outbox[s].status = "dispatching" \/ \E w \in Workers : Holds(w, s)
  THEN "trying"
  ELSE CASE outbox[s].status \in Due -> "ready"
         [] outbox[s].status = "none" /\ sub[s].status # "cancelled"
              -> "unarmed"
         [] OTHER -> "closed"

Contract == INSTANCE DeliveryContract WITH
  Deliveries <- Subs, MaxTries <- MAX_ATTEMPTS,
  stage <- [s \in Subs |-> Stage(s)],
  tries <- calls,
  taken <- {s \in Subs : accepted[s] > 0},
  receipts <- receipt

\* The service implements the contract: whatever the dispatchers, the lost
\* claims and the restarts do, each delivery is tried one call at a time, is
\* never tried after it was taken, and never reopens once nobody works on it.
ImplementsContract == Contract!CSpec
=============================================================================
