------------------------ MODULE ReportDeliveryProofs ------------------------
(***************************************************************************)
(* Proofs about ReportDelivery, for every set of subscriptions, keys and    *)
(* dispatchers and every value of the time constants.                       *)
(***************************************************************************)
EXTENDS ReportDelivery, TLAPS

USE DEF NoClaim, NoReceipt

\* The tables start empty.
LEMMA InitIInv == Init => IInv
<1>. SUFFICES ASSUME Init PROVE IInv
  OBVIOUS
<1>1. TypeOK
  BY TimeAssumption, AttemptAssumption
  DEF Init, TypeOK, Idle, SubRow, OutboxRow, Dispatcher, SubStatus,
      OutboxStatus, FailureCode, Phase
<1>2. ASSUME NEW s \in Subs PROVE RowInv(s)
  BY DEF Init, RowInv, Untaken, Agree, Due
<1>3. ASSUME NEW w \in Workers PROVE WorkerInv(w)
  BY DEF Init, WorkerInv, InFlight, Idle
<1>4. SingleSender
  BY DEF Init, SingleSender, Holds, InFlight, Idle
<1>5. KeysDistinct
  BY DEF Init, KeysDistinct, UsedKeys
<1>. QED BY <1>1, <1>2, <1>3, <1>4, <1>5 DEF IInv

\* Steps that touch only the clock, the failure count or a dispatcher that
\* works on no row keep the invariant.
LEMMA IdleStep ==
  ASSUME IInv, UNCHANGED <<db, outside>>, clock' \in Nat, failures' \in Nat,
         worker' \in [Workers -> Dispatcher],
         \A w \in Workers : \/ worker'[w] = worker[w]
                            \/ worker'[w].pc \notin InFlight
  PROVE  IInv'
<1>. USE DEF db, outside
<1>1. TypeOK'
  BY DEF IInv, TypeOK
<1>2. ASSUME NEW s \in Subs PROVE RowInv(s)'
  BY DEF IInv, RowInv, Untaken
<1>3. ASSUME NEW w \in Workers PROVE WorkerInv(w)'
  BY DEF IInv, WorkerInv
<1>4. SingleSender'
  BY DEF IInv, SingleSender, Holds
<1>5. KeysDistinct'
  BY DEF IInv, KeysDistinct, UsedKeys
<1>. QED BY <1>1, <1>2, <1>3, <1>4, <1>5 DEF IInv

\* What every action may use of the row and the dispatcher it is about.
LEMMA RowType ==
  ASSUME IInv, NEW s \in Subs
  PROVE  /\ sub[s] \in SubRow /\ outbox[s] \in OutboxRow
         /\ audit[s] \in Seq(Event)
         /\ calls[s] \in Nat /\ accepted[s] \in Nat
         /\ RowInv(s)
BY DEF IInv, TypeOK

\* The locals of a dispatcher have their types.
LEMMA WorkerType ==
  ASSUME IInv, NEW w \in Workers
  PROVE  worker[w] \in Dispatcher /\ WorkerInv(w)
BY DEF IInv, TypeOK

\* Appending events keeps the type of the audit trail.
LEMMA AuditType ==
  ASSUME IInv, NEW s \in Subs, NEW event \in Event, Record(s, event)
  PROVE  audit' \in [Subs -> Seq(Event)]
BY DEF IInv, TypeOK, Record

\* Updating the status of a subscription keeps its type.
LEMMA SetSubType ==
  ASSUME IInv, NEW s \in Subs, NEW status \in SubStatus, SetSub(s, status)
  PROVE  sub' \in [Subs -> SubRow]
<1>. [sub[s] EXCEPT !.status = status] \in SubRow
  BY RowType DEF SubRow
<1>. QED BY DEF IInv, TypeOK, SetSub

\* A change of one row that no dispatcher works on, before the destination was
\* called: the other rows and every dispatcher keep their part.
LEMMA CreateDraftStep == ASSUME IInv, NEW s \in Subs, CreateDraft(s) PROVE IInv'
<1>. USE DEF outside
<1>1. sub[s].status = "absent" /\ outbox[s].status = "none"
  BY RowType DEF CreateDraft, RowInv, Agree, SubRow, SubStatus
<1>2. TypeOK'
  <2>1. audit' \in [Subs -> Seq(Event)]
    BY AuditType DEF CreateDraft, Event
  <2>2. PICK scheduled \in Nat, expires \in Nat :
          sub' = [sub EXCEPT ![s] =
                    [status |-> "disabled", scheduled |-> scheduled,
                     expires |-> expires, policyExpires |-> 0,
                     verifiedUntil |-> 0]]
    BY TimeAssumption DEF CreateDraft
  <2>3. sub' \in [Subs -> SubRow]
    BY <2>2 DEF IInv, TypeOK, SubRow, SubStatus
  <2>. QED BY <2>1, <2>3 DEF CreateDraft, IInv, TypeOK
<1>3. ASSUME NEW t \in Subs PROVE RowInv(t)'
  BY <1>1, RowType DEF CreateDraft, IInv, TypeOK, RowInv, Untaken, Agree
<1>4. ASSUME NEW w \in Workers PROVE WorkerInv(w)'
  BY WorkerType DEF CreateDraft, WorkerInv
<1>5. SingleSender'
  BY DEF CreateDraft, IInv, SingleSender, Holds
<1>6. KeysDistinct'
  BY DEF CreateDraft, IInv, KeysDistinct, UsedKeys
<1>. QED BY <1>2, <1>3, <1>4, <1>5, <1>6 DEF IInv

\* activate keeps the invariant: the key it takes is new.
LEMMA ActivateStep ==
  ASSUME IInv, NEW s \in Subs, NEW k \in Keys, Activate(s, k) PROVE IInv'
<1>. USE DEF outside
<1>1. sub[s].status = "disabled" /\ outbox[s].status = "none"
  BY RowType DEF Activate, RowInv, Agree, SubRow, SubStatus
<1>2. k # NoKey /\ outbox[s].key = NoKey /\ outbox[s].attempts >= calls[s]
      /\ calls[s] >= 0
  BY <1>1, RowType, NameAssumption DEF RowInv
<1>3. TypeOK'
  <2>1. audit' \in [Subs -> Seq(Event)]
    BY AuditType DEF Activate, Event
  <2>2. PICK policyExpires \in Nat, verifiedUntil \in Nat :
          sub' = [sub EXCEPT ![s] =
                    [status |-> "active", scheduled |-> sub[s].scheduled,
                     expires |-> sub[s].expires,
                     policyExpires |-> policyExpires,
                     verifiedUntil |-> verifiedUntil]]
    BY TimeAssumption DEF Activate
  <2>3. sub' \in [Subs -> SubRow]
    BY <2>2, RowType DEF IInv, TypeOK, SubRow, SubStatus
  <2>4. outbox' \in [Subs -> OutboxRow]
    <3>. DEFINE row == [status |-> "queued", key |-> k,
                        available |-> sub[s].scheduled,
                        claimUntil |-> NoClaim, attempts |-> 0,
                        code |-> "none"]
    <3>1. row \in OutboxRow
      BY RowType, AttemptAssumption
      DEF SubRow, OutboxRow, OutboxStatus, FailureCode
    <3>2. outbox' = [outbox EXCEPT ![s] = row]
      BY DEF Activate
    <3>. HIDE DEF row
    <3>. QED BY <3>1, <3>2 DEF IInv, TypeOK
  <2>. QED BY <2>1, <2>3, <2>4 DEF Activate, IInv, TypeOK
<1>4. ASSUME NEW t \in Subs PROVE RowInv(t)'
  <2>1. CASE t = s
    <3>1. dest[k] = NoReceipt
      BY DEF Activate, IInv, KeysDistinct
    <3>2. /\ outbox'[s] = [status |-> "queued", key |-> k,
                           available |-> sub[s].scheduled,
                           claimUntil |-> NoClaim, attempts |-> 0,
                           code |-> "none"]
          /\ sub'[s].status = "active"
      BY DEF Activate, IInv, TypeOK
    <3>3. accepted[s] = 0 /\ calls[s] = 0 /\ s \notin receipt
      BY <1>1, <1>2, RowType DEF RowInv, Untaken, KeysDistinct, IInv
    <3>. QED
      BY <1>2, <2>1, <3>1, <3>2, <3>3, AttemptAssumption
      DEF Activate, RowInv, Untaken, Agree, Due
  <2>2. CASE t # s
    BY <2>2, RowType DEF Activate, IInv, TypeOK, RowInv, Untaken, Agree
  <2>. QED BY <2>1, <2>2
<1>5. ASSUME NEW w \in Workers PROVE WorkerInv(w)'
  BY <1>1, WorkerType DEF Activate, IInv, TypeOK, WorkerInv
<1>6. SingleSender'
  BY DEF Activate, IInv, SingleSender, Holds
<1>7. KeysDistinct'
  <2>1. \A t \in Subs : outbox'[t].key = IF t = s THEN k ELSE outbox[t].key
    BY DEF Activate, IInv, TypeOK
  <2>2. \A t \in Subs : outbox[t].key # k
    BY DEF Activate, UsedKeys
  <2>3. dest' = dest
    BY DEF Activate
  <2>4. ASSUME NEW j \in Keys \ UsedKeys' PROVE dest'[j] = NoReceipt
    <3>1. \A t \in Subs : outbox[t].key # j
      BY <1>2, <2>1, NameAssumption DEF UsedKeys
    <3>. QED BY <2>3, <3>1 DEF IInv, KeysDistinct, UsedKeys
  <2>5. ASSUME NEW a \in Subs, NEW b \in Subs, a # b, outbox'[a].key # NoKey
        PROVE  outbox'[a].key # outbox'[b].key
    BY <2>1, <2>2, <2>5 DEF IInv, KeysDistinct
  <2>. QED BY <2>4, <2>5 DEF KeysDistinct
<1>. QED BY <1>3, <1>4, <1>5, <1>6, <1>7 DEF IInv

\* A denied activation keeps the invariant.
LEMMA DenyActivationStep ==
  ASSUME IInv, NEW s \in Subs, DenyActivation(s) PROVE IInv'
<1>. USE DEF outside
<1>1. TypeOK'
  BY DEF DenyActivation, Record, IInv, TypeOK, Event
<1>2. ASSUME NEW t \in Subs PROVE RowInv(t)'
  BY RowType DEF DenyActivation, RowInv, Untaken, Agree
<1>3. ASSUME NEW w \in Workers PROVE WorkerInv(w)'
  BY WorkerType DEF DenyActivation, WorkerInv
<1>4. SingleSender' /\ KeysDistinct'
  BY DEF DenyActivation, IInv, SingleSender, Holds, KeysDistinct, UsedKeys
<1>. QED BY <1>1, <1>2, <1>3, <1>4 DEF IInv

\* cancel keeps the invariant: it never touches a row in flight.
LEMMA CancelStep == ASSUME IInv, NEW s \in Subs, Cancel(s) PROVE IInv'
<1>. USE DEF outside
<1>1. outbox[s].status \in {"none", "queued", "retry_wait"}
  BY RowType DEF Cancel, RowInv, Agree, SubRow, SubStatus
<1>2. TypeOK'
  <2>1. audit' \in [Subs -> Seq(Event)] /\ sub' \in [Subs -> SubRow]
    BY AuditType, SetSubType DEF Cancel, Event, SubStatus
  <2>2. [outbox[s] EXCEPT !.status = "cancelled"] \in OutboxRow
    BY RowType DEF OutboxRow, OutboxStatus
  <2>3. outbox' \in [Subs -> OutboxRow]
    BY <2>2 DEF Cancel, IInv, TypeOK
  <2>. QED BY <2>1, <2>3 DEF Cancel, IInv, TypeOK
<1>3. ASSUME NEW t \in Subs PROVE RowInv(t)'
  <2>1. CASE t = s
    BY <1>1, <2>1, RowType
    DEF Cancel, SetSub, IInv, TypeOK, RowInv, Untaken, Agree, Due, SubRow,
        OutboxRow
  <2>2. CASE t # s
    BY <2>2, RowType DEF Cancel, SetSub, IInv, TypeOK, RowInv, Untaken, Agree
  <2>. QED BY <2>1, <2>2
<1>4. ASSUME NEW w \in Workers PROVE WorkerInv(w)'
  BY <1>1, WorkerType DEF Cancel, IInv, TypeOK, WorkerInv
<1>5. SingleSender'
  BY DEF Cancel, IInv, SingleSender, Holds
<1>6. KeysDistinct'
  BY DEF Cancel, IInv, TypeOK, OutboxRow, KeysDistinct, UsedKeys
<1>. QED BY <1>2, <1>3, <1>4, <1>5, <1>6 DEF IInv

\* Where a dispatcher goes after a row is a place it can be in.
LEMMA ResumeType ==
  ASSUME IInv, NEW w \in Workers, NEW todo \in SUBSET Subs, Resume(w, todo)
  PROVE  /\ worker' \in [Workers -> Dispatcher]
         /\ worker'[w].pc = "next"
         /\ \A v \in Workers : v # w => worker'[v] = worker[v]
<1>. DEFINE local == [pc |-> "next", now |-> worker[w].now, todo |-> todo,
                      row |-> NoRow, attempt |-> 0]
<1>1. local \in Dispatcher
  BY WorkerType, AttemptAssumption DEF Dispatcher, Phase
<1>2. worker' = [worker EXCEPT ![w] = local]
  BY DEF Resume
<1>3. local.pc = "next"
  OBVIOUS
<1>. HIDE DEF local
<1>. QED BY <1>1, <1>2, <1>3 DEF IInv, TypeOK

\* No dispatcher works on a row that is due.
LEMMA DueIsFree ==
  ASSUME IInv, NEW s \in Subs, outbox[s].status \in Due, NEW w \in Workers
  PROVE  ~Holds(w, s)
BY WorkerType DEF WorkerInv, Holds, Due

\* The start of dispatch_due keeps the invariant.
LEMMA BeginStep == ASSUME IInv, NEW w \in Workers, Begin(w) PROVE IInv'
<1>. DEFINE local == [pc |-> "recover", now |-> clock, todo |-> {},
                      row |-> NoRow, attempt |-> 0]
<1>1. local \in Dispatcher /\ local.pc \notin InFlight
  BY AttemptAssumption DEF IInv, TypeOK, Dispatcher, Phase, InFlight
<1>2. worker' = [worker EXCEPT ![w] = local]
  BY DEF Begin
<1>. HIDE DEF local
<1>3. /\ worker' \in [Workers -> Dispatcher]
      /\ \A v \in Workers : worker'[v] = worker[v] \/ worker'[v].pc \notin InFlight
  BY <1>1, <1>2 DEF IInv, TypeOK
<1>4. clock' \in Nat /\ failures' \in Nat /\ UNCHANGED <<db, outside>>
  BY DEF Begin, IInv, TypeOK
<1>. QED BY <1>3, <1>4, IdleStep

\* The selection of due rows keeps the invariant.
LEMMA SelectDueStep == ASSUME IInv, NEW w \in Workers, SelectDue(w) PROVE IInv'
<1>1. PICK batch \in SUBSET Subs : Resume(w, batch)
  BY DEF SelectDue, Batches, DueRows
<1>2. /\ worker' \in [Workers -> Dispatcher]
      /\ \A v \in Workers : worker'[v] = worker[v] \/ worker'[v].pc \notin InFlight
  BY <1>1, ResumeType DEF InFlight
<1>3. clock' \in Nat /\ failures' \in Nat /\ UNCHANGED <<db, outside>>
  BY DEF SelectDue, IInv, TypeOK
<1>. QED BY <1>2, <1>3, IdleStep

\* A row that changed since its selection is left alone.
LEMMA SkipRowStep ==
  ASSUME IInv, NEW w \in Workers, NEW s \in Subs, SkipRow(w, s) PROVE IInv'
<1>1. worker[w].todo \ {s} \in SUBSET Subs
  BY WorkerType DEF Dispatcher
<1>2. /\ worker' \in [Workers -> Dispatcher]
      /\ \A v \in Workers : worker'[v] = worker[v] \/ worker'[v].pc \notin InFlight
  BY <1>1, ResumeType DEF SkipRow, InFlight
<1>3. clock' \in Nat /\ failures' \in Nat /\ UNCHANGED <<db, outside>>
  BY DEF SkipRow, IInv, TypeOK
<1>. QED BY <1>2, <1>3, IdleStep

\* A dispatcher that stops leaves the tables as they are.
LEMMA IdleType == Idle \in Dispatcher /\ Idle.pc \notin InFlight
BY AttemptAssumption DEF Idle, Dispatcher, Phase, InFlight

\* A dispatcher that returns or raises keeps the invariant.
LEMMA StopStep ==
  ASSUME IInv, NEW w \in Workers, Return(w) \/ Abort(w) PROVE IInv'
<1>1. worker' = [worker EXCEPT ![w] = Idle]
  BY DEF Return, Abort
<1>2. /\ worker' \in [Workers -> Dispatcher]
      /\ \A v \in Workers : worker'[v] = worker[v] \/ worker'[v].pc \notin InFlight
  BY <1>1, IdleType DEF IInv, TypeOK
<1>3. clock' \in Nat /\ failures' \in Nat /\ UNCHANGED <<db, outside>>
  BY DEF Return, Abort, IInv, TypeOK
<1>. QED BY <1>2, <1>3, IdleStep

\* Time keeps the invariant.
LEMMA TickStep == ASSUME IInv, Tick PROVE IInv'
<1>1. /\ worker' \in [Workers -> Dispatcher]
      /\ \A v \in Workers : worker'[v] = worker[v]
  BY DEF Tick, IInv, TypeOK
<1>2. clock' \in Nat /\ failures' \in Nat /\ UNCHANGED <<db, outside>>
  BY DEF Tick, IInv, TypeOK
<1>. QED BY <1>1, <1>2, IdleStep

\* The destination forgets its receipts, the tables do not.
LEMMA RestartStep == ASSUME IInv, Restart PROVE IInv'
<1>1. TypeOK'
  BY IdleType DEF Restart, db, IInv, TypeOK
<1>2. ASSUME NEW s \in Subs PROVE RowInv(s)'
  <2>1. outbox[s].key # NoKey => outbox[s].key \in Keys
    BY RowType DEF OutboxRow
  <2>. QED BY <2>1, RowType DEF Restart, db, RowInv, Untaken
<1>3. ASSUME NEW w \in Workers PROVE WorkerInv(w)'
  BY IdleType DEF Restart, WorkerInv
<1>4. SingleSender'
  BY IdleType DEF Restart, SingleSender, Holds
<1>5. KeysDistinct'
  BY DEF Restart, db, IInv, KeysDistinct, UsedKeys
<1>. QED BY <1>1, <1>2, <1>3, <1>4, <1>5 DEF IInv

-----------------------------------------------------------------------------
(* The steps that change a row.                                             *)

\* The claims declared lost keep every fact but the status: a dispatcher that
\* is still running finds its row failed with an unknown outcome.
LEMMA RecoverClaimsStep ==
  ASSUME IInv, NEW w \in Workers, RecoverClaims(w) PROVE IInv'
<1>. DEFINE row(s) == Unclaimed(s, "failed", outbox[s].available,
                                "DELIVERY_OUTCOME_UNKNOWN")
<1>1. ASSUME NEW s \in Lost(w)
      PROVE  outbox[s].status = "dispatching" /\ sub[s].status \in {"active", "failed"}
  BY RowType DEF Lost, RowInv, Agree, SubRow, SubStatus
<1>2. ASSUME NEW s \in Subs PROVE row(s) \in OutboxRow
  BY RowType DEF Unclaimed, OutboxRow, OutboxStatus, FailureCode
<1>3. \A s \in Subs : outbox'[s] = IF s \in Lost(w) THEN row(s) ELSE outbox[s]
  BY DEF RecoverClaims
<1>4. \A s \in Subs :
        sub'[s] = IF s \in Lost(w) THEN [sub[s] EXCEPT !.status = "failed"]
                                   ELSE sub[s]
  BY DEF RecoverClaims
<1>5. \A s \in Lost(w) : /\ row(s).status = "failed"
                          /\ row(s).code = "DELIVERY_OUTCOME_UNKNOWN"
                          /\ row(s).key = outbox[s].key
                          /\ row(s).attempts = outbox[s].attempts
  BY DEF Unclaimed
<1>6. /\ worker' = [worker EXCEPT ![w].pc = "select"]
      /\ worker[w].pc = "recover"
      /\ UNCHANGED <<clock, receipt, dest, calls, accepted, failures>>
  BY DEF RecoverClaims, Goto, outside
<1>7. TypeOK'
  <2>1. outbox' \in [Subs -> OutboxRow]
    <3>1. outbox' = [s \in Subs |-> IF s \in Lost(w) THEN row(s) ELSE outbox[s]]
      BY DEF RecoverClaims
    <3>. HIDE DEF row
    <3>. QED BY <1>2, <3>1 DEF IInv, TypeOK
  <2>2. sub' \in [Subs -> SubRow]
    <3>1. ASSUME NEW s \in Subs
          PROVE  [sub[s] EXCEPT !.status = "failed"] \in SubRow
      BY RowType DEF SubRow, SubStatus
    <3>. QED BY <3>1 DEF RecoverClaims, IInv, TypeOK
  <2>3. audit' \in [Subs -> Seq(Event)]
    <3>1. ASSUME NEW s \in Subs
          PROVE  Append(audit[s], "delivery_outcome_unknown") \in Seq(Event)
      BY RowType DEF Event
    <3>. QED BY <3>1 DEF RecoverClaims, IInv, TypeOK
  <2>4. worker' \in [Workers -> Dispatcher]
    <3>1. [worker[w] EXCEPT !.pc = "select"] \in Dispatcher
      BY WorkerType DEF Dispatcher, Phase
    <3>. QED BY <1>6, <3>1 DEF IInv, TypeOK
  <2>. QED BY <1>6, <2>1, <2>2, <2>3, <2>4 DEF IInv, TypeOK
<1>. HIDE DEF row
<1>8. ASSUME NEW s \in Subs PROVE RowInv(s)'
  <2>1. CASE s \in Lost(w)
    <3>1. sub'[s].status = "failed"
      BY <1>4, <2>1, RowType DEF SubRow
    <3>. QED BY <1>1, <1>3, <1>5, <1>6, <2>1, <3>1, RowType
             DEF RowInv, Untaken, Agree, Due
  <2>2. CASE s \notin Lost(w)
    BY <1>3, <1>4, <1>6, <2>2, RowType DEF RowInv, Untaken
  <2>. QED BY <2>1, <2>2
<1>9. ASSUME NEW v \in Workers PROVE WorkerInv(v)'
  <2>1. v = w => worker'[v].pc \notin InFlight
    BY <1>6, WorkerType DEF Dispatcher, InFlight, IInv, TypeOK
  <2>2. v # w => worker'[v] = worker[v]
    BY <1>6 DEF IInv, TypeOK
  <2>. QED BY <1>1, <1>3, <1>5, <1>6, <2>1, <2>2, WorkerType DEF WorkerInv
<1>10. SingleSender'
  <2>1. worker'[w].pc \notin InFlight
    BY <1>6, WorkerType DEF Dispatcher, InFlight, IInv, TypeOK
  <2>2. \A v \in Workers : v # w => worker'[v] = worker[v]
    BY <1>6 DEF IInv, TypeOK
  <2>. QED BY <2>1, <2>2 DEF IInv, SingleSender, Holds
<1>11. KeysDistinct'
  <2>1. \A s \in Subs : outbox'[s].key = outbox[s].key
    BY <1>3, <1>5
  <2>. QED BY <1>6, <2>1 DEF IInv, KeysDistinct, UsedKeys
<1>. QED BY <1>7, <1>8, <1>9, <1>10, <1>11 DEF IInv

\* A step of w that changes the row of s and no other row, which only w may be
\* working on, and that ends with w on no row: what is left to show is the row.
LEMMA OneRowStep ==
  ASSUME IInv, NEW w \in Workers, NEW s \in Subs,
         \A v \in Workers \ {w} : ~Holds(v, s),
         Resume(w, worker[w].todo) \/ Resume(w, worker[w].todo \ {s}),
         NEW row \in OutboxRow, row.key = outbox[s].key,
         outbox' = [outbox EXCEPT ![s] = row],
         sub' \in [Subs -> SubRow], \A t \in Subs \ {s} : sub'[t] = sub[t],
         receipt' = receipt \/ receipt' = receipt \cup {s},
         audit' \in [Subs -> Seq(Event)],
         UNCHANGED <<clock, outside, failures>>,
         RowInv(s)'
  PROVE  IInv'
<1>. USE DEF outside
<1>1. worker[w].todo \in SUBSET Subs /\ worker[w].todo \ {s} \in SUBSET Subs
  BY WorkerType DEF Dispatcher
<1>2. /\ worker' \in [Workers -> Dispatcher]
      /\ worker'[w].pc = "next"
      /\ \A v \in Workers : v # w => worker'[v] = worker[v]
  BY <1>1, ResumeType
<1>3. /\ outbox' \in [Subs -> OutboxRow]
      /\ outbox'[s] = row
      /\ \A t \in Subs : t # s => outbox'[t] = outbox[t]
  BY DEF IInv, TypeOK
<1>4. TypeOK'
  BY <1>2, <1>3 DEF IInv, TypeOK
<1>5. ASSUME NEW t \in Subs PROVE RowInv(t)'
  <2>1. CASE t # s
    BY <1>3, <2>1, RowType DEF RowInv, Untaken
  <2>. QED BY <2>1
<1>6. ASSUME NEW v \in Workers PROVE WorkerInv(v)'
  <2>1. CASE v = w
    BY <1>2, <2>1 DEF WorkerInv, InFlight
  <2>2. CASE v # w
    BY <1>2, <1>3, <2>2, WorkerType DEF WorkerInv, Holds
  <2>. QED BY <2>1, <2>2
<1>7. SingleSender'
  BY <1>2 DEF IInv, SingleSender, Holds, InFlight
<1>8. KeysDistinct'
  <2>1. \A t \in Subs : outbox'[t].key = outbox[t].key
    BY <1>3
  <2>. QED BY <2>1 DEF IInv, KeysDistinct, UsedKeys
<1>. QED BY <1>4, <1>5, <1>6, <1>7, <1>8 DEF IInv

\* The expiry of a row keeps the invariant.
LEMMA ExpireRowStep ==
  ASSUME IInv, NEW w \in Workers, NEW s \in Subs, ExpireRow(w, s) PROVE IInv'
<1>. DEFINE row == [outbox[s] EXCEPT !.status = "expired"]
<1>1. /\ row \in OutboxRow /\ row.key = outbox[s].key
      /\ row.status = "expired" /\ row.attempts = outbox[s].attempts
  BY RowType DEF OutboxRow, OutboxStatus
<1>2. outbox' = [outbox EXCEPT ![s] = row] /\ outbox[s].status \in Due
  BY DEF ExpireRow
<1>. HIDE DEF row
<1>3. outbox'[s] = row
  BY <1>2 DEF IInv, TypeOK
<1>4. sub' \in [Subs -> SubRow] /\ audit' \in [Subs -> Seq(Event)]
  BY SetSubType, AuditType DEF ExpireRow, SubStatus, Event
<1>5. sub'[s].status = "expired" /\ \A t \in Subs \ {s} : sub'[t] = sub[t]
  BY RowType DEF ExpireRow, SetSub, IInv, TypeOK, SubRow
<1>6. UNCHANGED <<clock, receipt, dest, calls, accepted, failures>>
  BY DEF ExpireRow, outside
<1>7. RowInv(s)'
  BY <1>1, <1>2, <1>3, <1>5, <1>6, RowType DEF RowInv, Untaken, Agree, Due
<1>8. Resume(w, worker[w].todo \ {s})
  BY DEF ExpireRow
<1>. QED BY <1>1, <1>2, <1>4, <1>5, <1>6, <1>7, <1>8, DueIsFree, OneRowStep
         DEF outside

\* A claim keeps the invariant: no other dispatcher has the row.
LEMMA ClaimRowStep ==
  ASSUME IInv, NEW w \in Workers, NEW s \in Subs, ClaimRow(w, s) PROVE IInv'
<1>. DEFINE row == [status |-> "dispatching", key |-> outbox[s].key,
                    available |-> outbox[s].available,
                    claimUntil |-> worker[w].now + CLAIM,
                    attempts |-> outbox[s].attempts + 1,
                    code |-> outbox[s].code]
            local == [pc |-> "claimed", now |-> worker[w].now,
                      todo |-> worker[w].todo \ {s}, row |-> s,
                      attempt |-> outbox[s].attempts + 1]
<1>1. /\ outbox[s].status \in Due /\ outbox[s].attempts < MAX_ATTEMPTS
      /\ calls[s] <= outbox[s].attempts /\ accepted[s] = 0
      /\ s \notin receipt
  BY RowType DEF ClaimRow, RowInv, Untaken, Due
<1>2. row \in OutboxRow
  BY <1>1, RowType, WorkerType, AttemptAssumption, TimeAssumption
  DEF OutboxRow, OutboxStatus, Dispatcher
<1>3. local \in Dispatcher
  BY <1>1, RowType, WorkerType, AttemptAssumption
  DEF OutboxRow, Dispatcher, Phase
<1>4. /\ row.status = "dispatching" /\ row.key = outbox[s].key
      /\ row.attempts = outbox[s].attempts + 1 /\ row.code = outbox[s].code
  OBVIOUS
<1>5. /\ local.pc = "claimed" /\ local.row = s
      /\ local.attempt = outbox[s].attempts + 1
  OBVIOUS
<1>6. /\ outbox' = [outbox EXCEPT ![s] = row]
      /\ worker' = [worker EXCEPT ![w] = local]
      /\ UNCHANGED <<clock, sub, receipt, audit, dest, calls, accepted, failures>>
  BY DEF ClaimRow, outside
<1>. HIDE DEF row, local
<1>7. /\ outbox'[s] = row /\ worker'[w] = local
      /\ \A t \in Subs : t # s => outbox'[t] = outbox[t]
      /\ \A v \in Workers : v # w => worker'[v] = worker[v]
  BY <1>6 DEF IInv, TypeOK
<1>8. TypeOK'
  BY <1>2, <1>3, <1>6 DEF IInv, TypeOK
<1>9. ASSUME NEW t \in Subs PROVE RowInv(t)'
  <2>1. CASE t = s
    <3>1. sub[s].status \in {"active", "failed"}
      BY <1>1, RowType DEF RowInv, Agree, Due, SubRow, SubStatus
    <3>2. calls[s] \in Nat /\ outbox[s].attempts \in Nat
      BY RowType, AttemptAssumption DEF OutboxRow
    <3>. QED BY <1>1, <1>4, <1>6, <1>7, <2>1, <3>1, <3>2, RowType
             DEF RowInv, Untaken, Agree, Due
  <2>2. CASE t # s
    BY <1>6, <1>7, <2>2, RowType DEF RowInv, Untaken
  <2>. QED BY <2>1, <2>2
<1>10. ASSUME NEW v \in Workers PROVE WorkerInv(v)'
  <2>1. CASE v = w
    <3>1. calls[s] \in Nat /\ outbox[s].attempts \in Nat
      BY RowType, AttemptAssumption DEF OutboxRow
    <3>. QED BY <1>1, <1>4, <1>5, <1>6, <1>7, <2>1, <3>1 DEF WorkerInv
  <2>2. CASE v # w
    BY <1>1, <1>6, <1>7, <2>2, DueIsFree, WorkerType DEF WorkerInv, Holds
  <2>. QED BY <2>1, <2>2
<1>11. SingleSender'
  <2>1. \A v \in Workers : ~Holds(v, s)
    BY <1>1, DueIsFree
  <2>. QED BY <1>5, <1>7, <2>1 DEF IInv, SingleSender, Holds
<1>12. KeysDistinct'
  <2>1. \A t \in Subs : outbox'[t].key = outbox[t].key
    BY <1>4, <1>7
  <2>. QED BY <1>6, <2>1 DEF IInv, KeysDistinct, UsedKeys
<1>. QED BY <1>8, <1>9, <1>10, <1>11, <1>12 DEF IInv

\* A dispatcher that moves on between two phases of its own delivery.
LEMMA RecheckStep == ASSUME IInv, NEW w \in Workers, Recheck(w) PROVE IInv'
<1>1. PICK pc \in {"cleared", "denied"} :
        worker' = [worker EXCEPT ![w].pc = pc]
  BY DEF Recheck, Goto
<1>2. /\ worker[w].pc = "claimed"
      /\ UNCHANGED <<clock, sub, outbox, receipt, audit, dest, calls, accepted,
                     failures>>
  BY DEF Recheck, db, outside
<1>3. /\ worker'[w].pc = pc /\ worker'[w].row = worker[w].row
      /\ worker'[w].attempt = worker[w].attempt /\ worker'[w] \in Dispatcher
      /\ \A v \in Workers : v # w => worker'[v] = worker[v]
  BY <1>1, WorkerType DEF IInv, TypeOK, Dispatcher, Phase
<1>4. TypeOK'
  BY <1>2, <1>3, <1>1 DEF IInv, TypeOK
<1>5. ASSUME NEW s \in Subs PROVE RowInv(s)'
  BY <1>2, RowType DEF RowInv, Untaken
<1>6. ASSUME NEW v \in Workers PROVE WorkerInv(v)'
  BY <1>2, <1>3, WorkerType DEF WorkerInv, InFlight
<1>7. SingleSender'
  BY <1>2, <1>3 DEF IInv, SingleSender, Holds, InFlight
<1>8. KeysDistinct'
  BY <1>2 DEF IInv, KeysDistinct, UsedKeys
<1>. QED BY <1>4, <1>5, <1>6, <1>7, <1>8 DEF IInv

\* The destination is called for a delivery it never took, so it has no
\* receipt of the key, and the call is within the recorded attempt.
LEMMA SendStep == ASSUME IInv, NEW w \in Workers, Send(w) PROVE IInv'
<1>. DEFINE s == worker[w].row
            k == outbox[s].key
<1>1. /\ s \in Subs /\ worker[w].pc = "cleared" /\ accepted[s] = 0
      /\ calls[s] < outbox[s].attempts
      /\ outbox[s].status \in {"dispatching", "failed"}
      /\ outbox[s].status = "failed"
           => outbox[s].code = "DELIVERY_OUTCOME_UNKNOWN"
  BY WorkerType DEF Send, WorkerInv, InFlight
<1>2. k \in Keys /\ k # NoKey /\ dest[k] = NoReceipt /\ s \notin receipt
  BY <1>1, RowType DEF RowInv, OutboxRow
<1>3. PICK pc \in {"refused", "accepted"} :
        /\ worker' = [worker EXCEPT ![w].pc = pc]
        /\ calls' = [calls EXCEPT ![s] = @ + 1]
        /\ pc = "refused" => UNCHANGED <<dest, accepted>>
        /\ pc = "accepted" =>
             /\ dest' = [dest EXCEPT ![k] = worker[w].now]
             /\ accepted' = [accepted EXCEPT ![s] = @ + 1]
  BY <1>2 DEF Send, Goto
<1>4. UNCHANGED <<clock, sub, outbox, receipt, audit, failures>>
  BY DEF Send, db
<1>5. /\ worker'[w].pc = pc /\ worker'[w].row = s
      /\ worker'[w].attempt = worker[w].attempt /\ worker'[w] \in Dispatcher
      /\ worker[w].now \in Nat
      /\ \A v \in Workers : v # w => worker'[v] = worker[v]
  <2>1. worker' = [worker EXCEPT ![w].pc = pc]
    BY <1>3
  <2>. QED BY <2>1, WorkerType DEF IInv, TypeOK, Dispatcher, Phase
<1>. HIDE DEF s, k
<1>6. /\ calls'[s] = calls[s] + 1
      /\ accepted'[s] = IF pc = "accepted" THEN 1 ELSE 0
      /\ \A t \in Subs : t # s => calls'[t] = calls[t] /\ accepted'[t] = accepted[t]
      /\ \A j \in Keys : j # k => dest'[j] = dest[j]
      /\ pc = "refused" => dest'[k] = NoReceipt
  BY <1>1, <1>2, <1>3 DEF IInv, TypeOK
<1>7. TypeOK'
  <2>. s \in Subs /\ calls[s] + 1 \in Nat /\ accepted[s] + 1 \in Nat
    BY <1>1, RowType
  <2>1. calls' \in [Subs -> Nat]
    <3>1. calls' = [calls EXCEPT ![s] = calls[s] + 1]
      BY <1>3
    <3>. QED BY <3>1 DEF IInv, TypeOK
  <2>2. accepted' \in [Subs -> Nat] /\ dest' \in [Keys -> Nat \cup {NoReceipt}]
    <3>1. CASE pc = "refused"
      BY <1>3, <3>1 DEF IInv, TypeOK
    <3>2. CASE pc = "accepted"
      <4>1. /\ accepted' = [accepted EXCEPT ![s] = accepted[s] + 1]
            /\ dest' = [dest EXCEPT ![k] = worker[w].now]
        BY <1>3, <3>2
      <4>. QED BY <1>5, <4>1 DEF IInv, TypeOK
    <3>. QED BY <3>1, <3>2
  <2>3. worker' \in [Workers -> Dispatcher]
    BY <1>3, <1>5 DEF IInv, TypeOK
  <2>. QED BY <1>4, <2>1, <2>2, <2>3 DEF IInv, TypeOK
<1>8. ASSUME NEW t \in Subs PROVE RowInv(t)'
  <2>1. CASE t = s
    <3>1. calls[s] \in Nat /\ outbox[s].attempts \in Nat
      BY <1>1, RowType, AttemptAssumption DEF OutboxRow
    <3>. QED BY <1>1, <1>2, <1>4, <1>6, <2>1, <3>1, RowType
             DEF RowInv, Untaken, k, Due
  <2>2. CASE t # s
    <3>1. outbox[t].key # k
      BY <1>1, <1>2, <2>2 DEF IInv, KeysDistinct, k
    <3>2. outbox[t].key # NoKey => outbox[t].key \in Keys
      BY RowType DEF OutboxRow
    <3>. QED BY <1>4, <1>6, <2>2, <3>1, <3>2, RowType DEF RowInv, Untaken
  <2>. QED BY <2>1, <2>2
<1>9. ASSUME NEW v \in Workers PROVE WorkerInv(v)'
  <2>1. CASE v = w
    BY <1>1, <1>4, <1>5, <1>6, <2>1, WorkerType DEF WorkerInv, InFlight, s
  <2>2. CASE v # w
    <3>1. worker[v].pc \in InFlight => worker[v].row # s
      BY <1>1, <2>2 DEF IInv, SingleSender, Holds, InFlight, s
    <3>. QED BY <1>4, <1>5, <1>6, <2>2, <3>1, WorkerType DEF WorkerInv
  <2>. QED BY <2>1, <2>2
<1>10. SingleSender'
  BY <1>1, <1>5 DEF IInv, SingleSender, Holds, InFlight, s
<1>11. KeysDistinct'
  BY <1>1, <1>4, <1>6 DEF IInv, KeysDistinct, UsedKeys, k
<1>. QED BY <1>7, <1>8, <1>9, <1>10, <1>11 DEF IInv

\* The outcome steps: w works on s alone, and its row is claimed or lost.
LEMMA OutcomeFacts ==
  ASSUME IInv, NEW w \in Workers, NEW s \in Subs,
         worker[w].pc \in InFlight, s = worker[w].row
  PROVE  /\ \A v \in Workers \ {w} : ~Holds(v, s)
         /\ outbox[s].status \in {"dispatching", "failed"}
         /\ sub[s].status \in {"active", "failed"}
         /\ s \notin receipt
         /\ worker[w].attempt = outbox[s].attempts /\ worker[w].attempt >= 1
         /\ accepted[s] = IF worker[w].pc = "accepted" THEN 1 ELSE 0
         /\ calls[s] <= outbox[s].attempts
<1>1. \A v \in Workers \ {w} : ~Holds(v, s)
  BY DEF IInv, SingleSender, Holds
<1>2. /\ outbox[s].status \in {"dispatching", "failed"}
      /\ worker[w].attempt = outbox[s].attempts /\ worker[w].attempt >= 1
      /\ accepted[s] = IF worker[w].pc = "accepted" THEN 1 ELSE 0
  BY WorkerType DEF WorkerInv
<1>3. /\ sub[s].status \in {"active", "failed"} /\ s \notin receipt
      /\ calls[s] <= outbox[s].attempts
  BY <1>2, RowType DEF RowInv, Agree, SubRow, SubStatus
<1>. QED BY <1>1, <1>2, <1>3

\* The time of a retry is a natural number.
LEMMA RetryTimeType ==
  ASSUME IInv, NEW w \in Workers, worker[w].attempt >= 1
  PROVE  RetryTime(w) \in Nat
<1>1. worker[w].attempt \in 1 .. MAX_ATTEMPTS /\ worker[w].now \in Nat
  BY WorkerType, AttemptAssumption DEF Dispatcher
<1>. DEFINE power == 2 ^ (worker[w].attempt - 1)
<1>2. power \in Nat
  BY <1>1, PowerAssumption
<1>. HIDE DEF power
<1>3. BACKOFF * power \in Nat
  BY <1>2, TimeAssumption
<1>4. worker[w].now + BACKOFF * power \in Nat
  BY <1>1, <1>3
<1>. QED BY <1>4 DEF RetryTime, Backoff, power

\* The row an outcome leaves behind.
LEMMA UnclaimedType ==
  ASSUME IInv, NEW s \in Subs, NEW status \in OutboxStatus,
         NEW available \in Nat, NEW code \in FailureCode
  PROVE  LET row == Unclaimed(s, status, available, code)
         IN  /\ row \in OutboxRow
             /\ row.status = status /\ row.code = code
             /\ row.key = outbox[s].key /\ row.attempts = outbox[s].attempts
BY RowType DEF Unclaimed, OutboxRow

\* Every outcome that records nothing but statuses and a cause.
LEMMA UntakenOutcome ==
  ASSUME IInv, NEW w \in Workers, NEW s \in Subs,
         worker[w].pc \in InFlight \ {"accepted"},
         NEW status \in {"retry_wait", "failed"}, NEW available \in Nat,
         NEW code \in {"DESTINATION_ERROR", "POLICY_OR_INTEGRITY_DENIED"},
         NEW event \in Event,
         status = "retry_wait" => worker[w].attempt < MAX_ATTEMPTS,
         Outcome(w, s, status, available, code), Record(s, event),
         \/ SetSub(s, "failed")
         \/ status = "retry_wait" /\ UNCHANGED sub,
         UNCHANGED <<clock, receipt, outside, failures>>
  PROVE  IInv'
<1>. DEFINE row == Unclaimed(s, status, available, code)
<1>1. s = worker[w].row
  BY DEF Outcome
<1>2. /\ row \in OutboxRow /\ row.status = status /\ row.code = code
      /\ row.key = outbox[s].key /\ row.attempts = outbox[s].attempts
  BY UnclaimedType DEF OutboxStatus, FailureCode
<1>3. outbox' = [outbox EXCEPT ![s] = row] /\ Resume(w, worker[w].todo)
  BY DEF Outcome
<1>. HIDE DEF row
<1>4. outbox'[s] = row
  BY <1>3 DEF IInv, TypeOK
<1>5. sub' \in [Subs -> SubRow] /\ audit' \in [Subs -> Seq(Event)]
  BY SetSubType, AuditType DEF SubStatus, IInv, TypeOK
<1>6. /\ \A t \in Subs \ {s} : sub'[t] = sub[t]
      /\ sub'[s].status = "failed" \/ (status = "retry_wait" /\ sub' = sub)
  BY RowType DEF SetSub, IInv, TypeOK, SubRow
<1>7. RowInv(s)'
  <2>1. /\ sub[s].status \in {"active", "failed"} /\ accepted[s] = 0
        /\ outbox[s].status \in {"dispatching", "failed"}
        /\ s \notin receipt /\ calls[s] <= outbox[s].attempts
        /\ worker[w].attempt = outbox[s].attempts
    BY <1>1, OutcomeFacts
  <2>. QED BY <1>2, <1>4, <1>6, <2>1, RowType
           DEF RowInv, Untaken, Agree, Due, outside
<1>. QED BY <1>1, <1>2, <1>3, <1>5, <1>6, <1>7, OutcomeFacts, OneRowStep

\* A refusal, retried or final, keeps the invariant.
LEMMA RefusalStep ==
  ASSUME IInv, NEW w \in Workers, NEW s \in Subs,
         RetryLater(w, s) \/ GiveUp(w, s) \/ Deny(w, s)
  PROVE  IInv'
<1>1. CASE RetryLater(w, s)
  <2>1. worker[w].attempt >= 1
    BY <1>1, OutcomeFacts DEF RetryLater, Outcome, InFlight
  <2>. QED BY <1>1, <2>1, RetryTimeType, UntakenOutcome
           DEF RetryLater, InFlight, Event
<1>2. CASE GiveUp(w, s)
  <2>1. worker[w].attempt >= 1
    BY <1>2, OutcomeFacts DEF GiveUp, Outcome, InFlight
  <2>. QED BY <1>2, <2>1, RetryTimeType, UntakenOutcome
           DEF GiveUp, InFlight, Event
<1>3. CASE Deny(w, s)
  <2>1. outbox[s].available \in Nat
    BY RowType DEF OutboxRow
  <2>. QED BY <1>3, <2>1, UntakenOutcome DEF Deny, InFlight, Event
<1>. QED BY <1>1, <1>2, <1>3

\* The receipt transaction keeps the invariant.
LEMMA VerifyStep ==
  ASSUME IInv, NEW w \in Workers, NEW s \in Subs, Verify(w, s) PROVE IInv'
<1>. DEFINE row == Unclaimed(s, "receipt_verified", outbox[s].available, "none")
<1>1. s = worker[w].row /\ worker[w].pc = "accepted"
  BY DEF Verify, Outcome
<1>2. outbox[s].available \in Nat
  BY RowType DEF OutboxRow
<1>3. /\ row \in OutboxRow /\ row.status = "receipt_verified"
      /\ row.key = outbox[s].key /\ row.attempts = outbox[s].attempts
  BY <1>2, UnclaimedType DEF OutboxStatus, FailureCode
<1>4. /\ outbox' = [outbox EXCEPT ![s] = row] /\ Resume(w, worker[w].todo)
      /\ receipt' = receipt \cup {s}
      /\ UNCHANGED <<clock, dest, calls, accepted, failures>>
  BY DEF Verify, Outcome, outside
<1>. HIDE DEF row
<1>5. outbox'[s] = row
  BY <1>4 DEF IInv, TypeOK
<1>6. sub' \in [Subs -> SubRow] /\ audit' \in [Subs -> Seq(Event)]
  BY SetSubType, AuditType DEF Verify, SubStatus, Event
<1>7. /\ \A t \in Subs \ {s} : sub'[t] = sub[t]
      /\ sub'[s].status = "receipt_verified"
  BY RowType DEF Verify, SetSub, IInv, TypeOK, SubRow
<1>8. RowInv(s)'
  <2>1. /\ accepted[s] = 1 /\ outbox[s].status \in {"dispatching", "failed"}
        /\ calls[s] <= outbox[s].attempts
    BY <1>1, OutcomeFacts DEF InFlight
  <2>. QED BY <1>3, <1>4, <1>5, <1>7, <2>1, RowType
           DEF RowInv, Untaken, Agree, Due
<1>9. worker[w].pc \in InFlight
  BY <1>1 DEF InFlight
<1>. QED BY <1>1, <1>3, <1>4, <1>6, <1>7, <1>8, <1>9, OutcomeFacts, OneRowStep
         DEF outside

-----------------------------------------------------------------------------
(* The theorems.                                                            *)

\* Every step keeps the invariant.
LEMMA NextIInv == IInv /\ [Next]_vars => IInv'
<1>. SUFFICES ASSUME IInv, [Next]_vars PROVE IInv'
  OBVIOUS
<1>1. CASE UNCHANGED vars
  <2>1. clock' \in Nat /\ failures' \in Nat /\ UNCHANGED <<db, outside>>
    BY <1>1 DEF vars, db, outside, IInv, TypeOK
  <2>2. /\ worker' \in [Workers -> Dispatcher]
        /\ \A w \in Workers : worker'[w] = worker[w]
    BY <1>1 DEF vars, IInv, TypeOK
  <2>. QED BY <2>1, <2>2, IdleStep
<1>2. ASSUME NEW s \in Subs, OwnerStep(s) PROVE IInv'
  BY <1>2, CreateDraftStep, ActivateStep, DenyActivationStep, CancelStep
  DEF OwnerStep
<1>3. ASSUME NEW w \in Workers, NEW s \in Subs, RowStep(w, s) PROVE IInv'
  BY <1>3, SkipRowStep, ExpireRowStep, ClaimRowStep, RefusalStep, VerifyStep
  DEF RowStep
<1>4. ASSUME NEW w \in Workers, DispatchStep(w) PROVE IInv'
  BY <1>3, <1>4, BeginStep, RecoverClaimsStep, SelectDueStep, RecheckStep,
     SendStep, StopStep
  DEF DispatchStep
<1>5. ASSUME NEW w \in Workers, Abort(w) PROVE IInv'
  BY <1>5, StopStep
<1>. QED BY <1>1, <1>2, <1>4, <1>5, RestartStep, TickStep DEF Next

\* The inductive invariant holds in every reachable state.
THEOREM Invariance == Spec => []IInv
BY InitIInv, NextIInv, PTL DEF Spec

\* Every column and local variable has its type, and no row passes
\* MAX_ATTEMPTS attempts, however claims are lost and outcomes arrive late.
THEOREM TypeCorrect == Spec => []TypeOK
<1>1. IInv => TypeOK
  BY DEF IInv
<1>. QED BY <1>1, Invariance, PTL

\* At most one dispatcher works on a delivery, for any number of dispatchers.
THEOREM OneSenderAtATime == Spec => []SingleSender
<1>1. IInv => SingleSender
  BY DEF IInv
<1>. QED BY <1>1, Invariance, PTL

\* The destination takes each delivery at most once.
THEOREM DeliveredAtMostOnce == Spec => []AcceptedAtMostOnce
<1>1. IInv => AcceptedAtMostOnce
  BY DEF IInv, RowInv, AcceptedAtMostOnce
<1>. QED BY <1>1, Invariance, PTL

\* A failure with a named cause, a retry, an expiry or a cancellation is
\* evidence that nothing was delivered.
THEOREM FailureIsEvidence == Spec => []NamedFailureWasNotDelivered
<1>1. IInv => NamedFailureWasNotDelivered
  BY DEF IInv, RowInv, Untaken, NamedFailureWasNotDelivered
<1>. QED BY <1>1, Invariance, PTL

\* The receipts, the row status and the subscription status agree, and name
\* only what the destination accepted.
THEOREM ReceiptCorrect == Spec => []ReceiptIsEvidence
<1>1. IInv => ReceiptIsEvidence
  BY DEF IInv, RowInv, Agree, ReceiptIsEvidence
<1>. QED BY <1>1, Invariance, PTL

\* The destination is called at most once per recorded attempt.
THEOREM CallsBounded == Spec => []CallsWithinAttempts
<1>1. IInv => CallsWithinAttempts
  BY DEF IInv, RowInv, CallsWithinAttempts
<1>. QED BY <1>1, Invariance, PTL

\* The two status columns never contradict one another.
THEOREM StatusesConsistent == Spec => []StatusesAgree
<1>1. IInv => StatusesAgree
  BY DEF IInv, RowInv, StatusesAgree
<1>. QED BY <1>1, Invariance, PTL

\* No step takes a cancelled subscription anywhere or calls the destination
\* for it: nobody holds its row, and only a due row is claimed.
LEMMA CancelledStays ==
  ASSUME IInv, [Next]_vars, NEW s \in Subs, sub[s].status = "cancelled"
  PROVE  sub'[s].status = "cancelled" /\ calls'[s] = calls[s]
<1>1. /\ outbox[s].status \in {"none", "cancelled"}
      /\ \A w \in Workers : ~Holds(w, s)
  <2>1. outbox[s].status \in {"none", "cancelled"}
    BY RowType DEF RowInv, Agree
  <2>. QED BY <2>1, WorkerType DEF WorkerInv, Holds
<1>2. CASE UNCHANGED vars
  BY <1>2 DEF vars
<1>3. ASSUME NEW t \in Subs, OwnerStep(t)
      PROVE  sub'[s].status = "cancelled" /\ calls'[s] = calls[s]
  <2>1. t # s
    <3>1. sub[t].status # "cancelled" \/ DenyActivation(t)
      BY <1>3 DEF OwnerStep, CreateDraft, Activate, Cancel
    <3>. QED BY <3>1 DEF DenyActivation
  <2>. QED BY <1>3, <2>1
           DEF OwnerStep, CreateDraft, Activate, DenyActivation, Cancel, SetSub,
               outside, IInv, TypeOK
<1>4. ASSUME NEW w \in Workers, NEW t \in Subs, RowStep(w, t)
      PROVE  sub'[s].status = "cancelled" /\ calls'[s] = calls[s]
  <2>1. CASE SkipRow(w, t) \/ ClaimRow(w, t) \/ RetryLater(w, t)
    BY <2>1 DEF SkipRow, ClaimRow, RetryLater, db, outside
  <2>2. CASE ExpireRow(w, t)
    <3>1. t # s
      BY <1>1, <2>2 DEF ExpireRow, Due
    <3>. QED BY <2>2, <3>1 DEF ExpireRow, SetSub, outside, IInv, TypeOK
  <2>3. CASE GiveUp(w, t) \/ Deny(w, t) \/ Verify(w, t)
    <3>1. Holds(w, t)
      BY <2>3 DEF GiveUp, Deny, Verify, Outcome, Holds, InFlight
    <3>2. t # s
      BY <1>1, <3>1
    <3>. QED BY <2>3, <3>2
             DEF GiveUp, Deny, Verify, SetSub, outside, IInv, TypeOK
  <2>. QED BY <1>4, <2>1, <2>2, <2>3 DEF RowStep
<1>5. ASSUME NEW w \in Workers, DispatchStep(w)
      PROVE  sub'[s].status = "cancelled" /\ calls'[s] = calls[s]
  <2>1. CASE RecoverClaims(w)
    <3>1. s \notin Lost(w)
      BY <1>1 DEF Lost
    <3>. QED BY <2>1, <3>1 DEF RecoverClaims, outside
  <2>2. CASE Send(w)
    <3>1. worker[w].row # s
      BY <1>1, <2>2 DEF Send, Holds, InFlight
    <3>2. UNCHANGED calls \/ calls' = [calls EXCEPT ![worker[w].row] = @ + 1]
      BY <2>2 DEF Send, outside
    <3>. QED BY <2>2, <3>1, <3>2 DEF Send, db, IInv, TypeOK
  <2>3. CASE Begin(w) \/ SelectDue(w) \/ Recheck(w) \/ Return(w)
    BY <2>3 DEF Begin, SelectDue, Recheck, Return, db, outside
  <2>. QED BY <1>4, <1>5, <2>1, <2>2, <2>3 DEF DispatchStep
<1>6. CASE Tick \/ Restart \/ \E w \in Workers : Abort(w)
  BY <1>6 DEF Tick, Restart, Abort, db, outside
<1>. QED BY <1>2, <1>3, <1>5, <1>6 DEF Next

\* A cancellation the service accepted is final.
THEOREM CancellationFinal == Spec => CancelIsFinal
<1>1. IInv /\ [Next]_vars =>
        [\A s \in Subs : sub[s].status = "cancelled" =>
           /\ sub'[s].status = "cancelled"
           /\ calls'[s] = calls[s]]_vars
  BY CancelledStays
<1>. QED BY <1>1, Invariance, PTL DEF Spec, CancelIsFinal

-----------------------------------------------------------------------------
(* The refinement of the contract.                                          *)

\* The steps of the contract that open nothing: some deliveries close, the
\* others stay as they are, and the destination is not called.
Closing == /\ UNCHANGED <<calls, accepted, receipt>>
           /\ \A s \in Subs : \/ Stage(s)' = Stage(s)
                              \/ Stage(s) # "closed" /\ Stage(s)' = "closed"

\* A closing step is a Close of the contract or a stutter.
LEMMA ClosingRefines ==
  ASSUME Closing PROVE [Contract!CNext]_(Contract!cvars)
<1>. DEFINE lost == {s \in Subs : Stage(s) # "closed" /\ Stage(s)' = "closed"}
<1>1. ASSUME NEW s \in Subs
      PROVE  Stage(s)' = IF s \in lost THEN "closed" ELSE Stage(s)
  BY DEF Closing
<1>2. {s \in Subs : accepted[s] > 0}' = {s \in Subs : accepted[s] > 0}
  BY DEF Closing
<1>3. CASE lost = {}
  <2>1. [s \in Subs |-> Stage(s)]' = [s \in Subs |-> Stage(s)]
    BY <1>1, <1>3
  <2>. QED BY <1>2, <2>1 DEF Contract!cvars, Closing
<1>4. CASE lost # {}
  <2>1. [s \in Subs |-> Stage(s)]'
          = [s \in Subs |-> IF s \in lost THEN "closed" ELSE Stage(s)]
    BY <1>1
  <2>2. lost \in SUBSET {s \in Subs : [t \in Subs |-> Stage(t)][s] # "closed"}
    OBVIOUS
  <2>. HIDE DEF lost
  <2>3. [s \in Subs |-> IF s \in lost THEN "closed" ELSE Stage(s)]
          = [s \in Subs |-> IF s \in lost THEN "closed"
                            ELSE [t \in Subs |-> Stage(t)][s]]
    OBVIOUS
  <2>4. Contract!Close(lost)
    BY <1>2, <1>4, <2>1, <2>3 DEF Contract!Close, Closing
  <2>. QED BY <2>2, <2>4 DEF Contract!CNext
<1>. QED BY <1>3, <1>4

\* A row whose status is not touched, and that is held by the same
\* dispatchers, keeps its stage.
LEMMA StageKept ==
  ASSUME NEW s \in Subs, outbox'[s].status = outbox[s].status,
         sub'[s].status = "cancelled" <=> sub[s].status = "cancelled",
         \A w \in Workers : Holds(w, s)' <=> Holds(w, s)
  PROVE  Stage(s)' = Stage(s)
BY DEF Stage, Due

\* A row is tried or given up for good while a dispatcher has it: nobody holds
\* a row that is not claimed and not failed.
LEMMA FreeRow ==
  ASSUME IInv, NEW s \in Subs,
         outbox[s].status \notin {"dispatching", "failed"}
  PROVE  \A w \in Workers : ~Holds(w, s)
BY WorkerType DEF WorkerInv, Holds

\* One delivery moves from its stage to another, the others stay.
LEMMA OneMoves ==
  ASSUME NEW d \in Subs, NEW to, Stage(d)' = to,
         \A s \in Subs \ {d} : Stage(s)' = Stage(s)
  PROVE  Contract!Move(d, Stage(d), to)
<1>1. [s \in Subs |-> Stage(s)]' = [[s \in Subs |-> Stage(s)] EXCEPT ![d] = to]
  OBVIOUS
<1>. QED BY <1>1 DEF Contract!Move

\* The owner's operations arm a delivery, close it, or are not visible.
LEMMA OwnerRefines ==
  ASSUME IInv, NEW s \in Subs, OwnerStep(s)
  PROVE  [Contract!CNext]_(Contract!cvars)
<1>0. ASSUME NEW t \in Subs \ {s} PROVE Stage(t)' = Stage(t)
  <2>1. outbox'[t] = outbox[t] /\ sub'[t] = sub[t] /\ worker' = worker
    BY DEF OwnerStep, CreateDraft, DenyActivation, Cancel, Activate, SetSub,
           IInv, TypeOK
  <2>. QED BY <2>1, StageKept DEF Holds
<1>1. CASE CreateDraft(s) \/ DenyActivation(s)
  <2>1. /\ outbox' = outbox /\ worker' = worker
        /\ UNCHANGED <<calls, accepted, receipt>>
    BY <1>1 DEF CreateDraft, DenyActivation, outside
  <2>2. sub[s].status # "cancelled" /\ sub'[s].status # "cancelled"
    BY <1>1 DEF CreateDraft, DenyActivation, IInv, TypeOK
  <2>3. Stage(s)' = Stage(s)
    BY <2>1, <2>2, StageKept DEF Holds
  <2>. QED BY <1>0, <2>1, <2>3, ClosingRefines DEF Closing
<1>2. CASE Cancel(s)
  <2>1. /\ worker' = worker /\ UNCHANGED <<calls, accepted, receipt>>
        /\ outbox[s].status \in {"none", "queued", "retry_wait"}
    BY <1>2, RowType DEF Cancel, RowInv, Agree, SubRow, SubStatus, outside
  <2>2. \A w \in Workers : ~Holds(w, s) /\ ~Holds(w, s)'
    BY <2>1, FreeRow DEF Holds
  <2>3. /\ outbox'[s].status = IF outbox[s].status \in Due
                               THEN "cancelled" ELSE outbox[s].status
        /\ sub'[s].status = "cancelled" /\ sub[s].status # "cancelled"
    BY <1>2, RowType
    DEF Cancel, SetSub, IInv, TypeOK, SubRow, OutboxRow
  <2>4. Stage(s) # "closed" /\ Stage(s)' = "closed"
    BY <2>1, <2>2, <2>3 DEF Stage, Due
  <2>. QED BY <1>0, <2>1, <2>4, ClosingRefines DEF Closing
<1>3. ASSUME NEW k \in Keys, Activate(s, k)
      PROVE  [Contract!CNext]_(Contract!cvars)
  <2>1. /\ worker' = worker /\ UNCHANGED <<calls, accepted, receipt>>
        /\ sub[s].status = "disabled" /\ outbox[s].status = "none"
        /\ outbox'[s].status = "queued"
    BY <1>3, RowType
    DEF Activate, RowInv, Agree, SubRow, SubStatus, outside, IInv, TypeOK
  <2>2. \A w \in Workers : ~Holds(w, s) /\ ~Holds(w, s)'
    BY <2>1, FreeRow DEF Holds
  <2>3. Stage(s) = "unarmed" /\ Stage(s)' = "ready"
    BY <2>1, <2>2 DEF Stage, Due
  <2>4. Contract!Arm(s)
    BY <1>0, <2>1, <2>3, OneMoves DEF Contract!Arm
  <2>. QED BY <2>4 DEF Contract!CNext
<1>. QED BY <1>1, <1>2, <1>3 DEF OwnerStep


\* The steps of a dispatcher that change neither a row nor who holds it.
LEMMA QuietRefines ==
  ASSUME IInv, UNCHANGED <<sub, outbox, receipt, calls, accepted>>,
         \A w \in Workers, s \in Subs : Holds(w, s)' <=> Holds(w, s)
  PROVE  [Contract!CNext]_(Contract!cvars)
<1>1. \A s \in Subs : Stage(s)' = Stage(s)
  BY StageKept
<1>. QED BY <1>1, ClosingRefines DEF Closing

\* What the steps on one row share: the other rows and dispatchers stay.
LEMMA OthersKept ==
  ASSUME IInv, NEW w \in Workers, NEW s \in Subs,
         \A t \in Subs \ {s} : /\ outbox'[t] = outbox[t]
                               /\ sub'[t] = sub[t],
         \A v \in Workers \ {w} : worker'[v] = worker[v],
         \A t \in Subs \ {s} : ~Holds(w, t) /\ ~Holds(w, t)'
  PROVE  \A t \in Subs \ {s} : Stage(t)' = Stage(t)
<1>1. ASSUME NEW t \in Subs \ {s}, NEW v \in Workers
      PROVE  Holds(v, t)' <=> Holds(v, t)
  BY <1>1 DEF Holds
<1>. QED BY <1>1, StageKept

\* The claim declared lost closes a delivery only when its dispatcher is gone.
LEMMA RecoverRefines ==
  ASSUME IInv, NEW w \in Workers, RecoverClaims(w)
  PROVE  [Contract!CNext]_(Contract!cvars)
<1>1. UNCHANGED <<calls, accepted, receipt>>
  BY DEF RecoverClaims, outside
<1>2. ASSUME NEW v \in Workers, NEW s \in Subs
      PROVE  Holds(v, s)' <=> Holds(v, s)
  <2>1. worker'[v].row = worker[v].row /\
        (v # w => worker'[v] = worker[v]) /\
        (v = w => worker[v].pc \notin InFlight /\ worker'[v].pc \notin InFlight)
    BY WorkerType
    DEF RecoverClaims, Goto, IInv, TypeOK, Dispatcher, InFlight
  <2>. QED BY <2>1 DEF Holds
<1>3. ASSUME NEW s \in Subs
      PROVE  \/ Stage(s)' = Stage(s)
             \/ Stage(s) # "closed" /\ Stage(s)' = "closed"
  <2>1. CASE s \in Lost(w)
    <3>1. /\ outbox[s].status = "dispatching"
          /\ outbox'[s].status = "failed"
      BY <2>1 DEF RecoverClaims, Lost, Unclaimed
    <3>. QED BY <1>2, <3>1 DEF Stage, Due
  <2>2. CASE s \notin Lost(w)
    <3>1. outbox'[s] = outbox[s] /\ sub'[s] = sub[s]
      BY <2>2 DEF RecoverClaims
    <3>. QED BY <1>2, <3>1, StageKept
  <2>. QED BY <2>1, <2>2
<1>. QED BY <1>1, <1>3, ClosingRefines DEF Closing

\* The destination is called for a delivery that is being tried and that it
\* has not taken, within the bound of the contract.
LEMMA SendRefines ==
  ASSUME IInv, NEW w \in Workers, Send(w), NEW s \in Subs, s = worker[w].row
  PROVE  [Contract!CNext]_(Contract!cvars)
<1>. DEFINE k == outbox[s].key
<1>1. /\ Holds(w, s) /\ accepted[s] = 0
      /\ calls[s] < MAX_ATTEMPTS /\ worker[w].pc = "cleared"
      /\ outbox[s].status \in {"dispatching", "failed"}
  <2>1. /\ worker[w].pc = "cleared" /\ accepted[s] = 0
        /\ calls[s] < outbox[s].attempts
        /\ outbox[s].status \in {"dispatching", "failed"}
    BY WorkerType DEF Send, WorkerInv, InFlight
  <2>2. outbox[s].attempts \in 0 .. MAX_ATTEMPTS /\ calls[s] \in Nat
    BY <2>1, RowType DEF OutboxRow
  <2>. QED BY <2>1, <2>2, AttemptAssumption DEF Holds, InFlight
<1>2. dest[k] = NoReceipt
  BY <1>1, RowType DEF RowInv
<1>3. PICK pc \in {"refused", "accepted"} :
        /\ worker' = [worker EXCEPT ![w].pc = pc]
        /\ calls' = [calls EXCEPT ![s] = @ + 1]
        /\ pc = "refused" => accepted' = accepted
        /\ pc = "accepted" => accepted' = [accepted EXCEPT ![s] = @ + 1]
  BY <1>2 DEF Send, Goto
<1>4. UNCHANGED <<sub, outbox, receipt>>
  BY DEF Send, db
<1>5. ASSUME NEW v \in Workers, NEW t \in Subs
      PROVE  Holds(v, t)' <=> Holds(v, t)
  <2>1. worker[v] \in Dispatcher /\ worker \in [Workers -> Dispatcher]
    BY DEF IInv, TypeOK
  <2>2. CASE v = w
    <3>1. PICK phase \in {"refused", "accepted"} : worker'[v] = [worker[v] EXCEPT !.pc = phase]
      BY <1>3, <2>1, <2>2
    <3>2. worker'[v].row = worker[v].row /\ worker'[v].pc = phase
      BY <2>1, <3>1 DEF Dispatcher
    <3>. QED BY <1>1, <2>2, <3>2 DEF Holds, InFlight
  <2>3. CASE v # w
    BY <1>3, <2>1, <2>3 DEF Holds
  <2>. QED BY <2>2, <2>3
<1>6. ASSUME NEW t \in Subs PROVE Stage(t)' = Stage(t)
  BY <1>4, <1>5, StageKept
<1>7. Stage(s) = "trying"
  BY <1>1 DEF Stage
<1>. HIDE DEF k
<1>8. {t \in Subs : accepted[t] > 0}'
        \in {{t \in Subs : accepted[t] > 0},
             {t \in Subs : accepted[t] > 0} \cup {s}}
  <2>1. CASE pc = "refused"
    BY <1>3, <2>1
  <2>2. CASE pc = "accepted"
    <3>1. \A t \in Subs : accepted'[t] = IF t = s THEN 1 ELSE accepted[t]
      BY <1>1, <1>3, <2>2 DEF IInv, TypeOK
    <3>2. ASSUME NEW t \in Subs
          PROVE  accepted'[t] > 0 <=> t = s \/ accepted[t] > 0
      BY <3>1, <3>2
    <3>. QED BY <1>1, <3>2
  <2>. QED BY <2>1, <2>2
<1>9. Contract!Try(s)
  <2>1. [t \in Subs |-> Stage(t)]' = [t \in Subs |-> Stage(t)]
    BY <1>6
  <2>2. [t \in Subs |-> Stage(t)][s] = "trying"
        /\ s \notin {t \in Subs : accepted[t] > 0}
    BY <1>1, <1>7
  <2>. QED BY <1>1, <1>3, <1>4, <1>8, <2>1, <2>2 DEF Contract!Try
<1>. QED BY <1>9 DEF Contract!CNext


\* A claim starts a delivery that nobody holds and nobody has taken.
LEMMA ClaimRefines ==
  ASSUME IInv, NEW w \in Workers, NEW s \in Subs, ClaimRow(w, s)
  PROVE  [Contract!CNext]_(Contract!cvars)
<1>1. /\ outbox[s].status \in Due /\ accepted[s] = 0
      /\ calls[s] < MAX_ATTEMPTS
  <2>1. /\ outbox[s].status \in Due /\ accepted[s] = 0
        /\ calls[s] <= outbox[s].attempts /\ outbox[s].attempts < MAX_ATTEMPTS
    BY RowType DEF ClaimRow, RowInv, Untaken, Due
  <2>2. outbox[s].attempts \in Nat /\ calls[s] \in Nat
    BY RowType, AttemptAssumption DEF OutboxRow
  <2>. QED BY <2>1, <2>2, AttemptAssumption
<1>2. /\ \A t \in Subs \ {s} : outbox'[t] = outbox[t] /\ sub'[t] = sub[t]
      /\ \A v \in Workers \ {w} : worker'[v] = worker[v]
      /\ outbox'[s].status = "dispatching"
      /\ worker'[w].row = s /\ worker[w].pc = "next"
      /\ UNCHANGED <<calls, accepted, receipt>>
  BY DEF ClaimRow, outside, IInv, TypeOK
<1>3. \A t \in Subs \ {s} : ~Holds(w, t) /\ ~Holds(w, t)'
  BY <1>2 DEF Holds, InFlight
<1>4. \A t \in Subs \ {s} : Stage(t)' = Stage(t)
  BY <1>2, <1>3, OthersKept
<1>5. Stage(s) = "ready" /\ Stage(s)' = "trying"
  <2>1. \A v \in Workers : ~Holds(v, s)
    BY <1>1, FreeRow DEF Due
  <2>. QED BY <1>1, <1>2, <2>1 DEF Stage, Due
<1>6. Contract!Start(s)
  BY <1>1, <1>2, <1>4, <1>5, OneMoves DEF Contract!Start
<1>. QED BY <1>6 DEF Contract!CNext

\* The end of a dispatcher's work on a row, for which it is the only holder.
LEMMA OutcomeShape ==
  ASSUME IInv, NEW w \in Workers, NEW s \in Subs,
         NEW status \in OutboxStatus, NEW available, NEW code,
         worker[w].pc \in InFlight, Outcome(w, s, status, available, code),
         \A t \in Subs \ {s} : sub'[t] = sub[t]
  PROVE  /\ \A t \in Subs \ {s} : Stage(t)' = Stage(t)
         /\ Stage(s) = "trying"
         /\ outbox'[s].status = status
         /\ \A v \in Workers : ~Holds(v, s)'
<1>1. /\ \A t \in Subs \ {s} : outbox'[t] = outbox[t]
      /\ outbox'[s].status = status
      /\ worker'[w].pc = "next"
      /\ \A v \in Workers \ {w} : worker'[v] = worker[v]
      /\ worker[w].row = s
  BY DEF Outcome, Resume, Unclaimed, IInv, TypeOK
<1>2. \A t \in Subs \ {s} : ~Holds(w, t) /\ ~Holds(w, t)'
  BY <1>1 DEF Holds, InFlight
<1>3. \A t \in Subs \ {s} : Stage(t)' = Stage(t)
  BY <1>1, <1>2, OthersKept
<1>4. Stage(s) = "trying"
  BY <1>1 DEF Stage, Holds
<1>5. \A v \in Workers : ~Holds(v, s)'
  BY <1>1, OutcomeFacts DEF Holds, InFlight
<1>. QED BY <1>1, <1>3, <1>4, <1>5

\* A refusal that is retried puts the delivery back, untaken.
LEMMA RetryRefines ==
  ASSUME IInv, NEW w \in Workers, NEW s \in Subs, RetryLater(w, s)
  PROVE  [Contract!CNext]_(Contract!cvars)
<1>1. /\ worker[w].pc \in InFlight /\ worker[w].pc # "accepted"
      /\ s = worker[w].row
      /\ Outcome(w, s, "retry_wait", RetryTime(w), "DESTINATION_ERROR")
      /\ UNCHANGED <<sub, calls, accepted, receipt>>
  BY DEF RetryLater, Outcome, InFlight, outside
<1>2. accepted[s] = 0
  BY <1>1, OutcomeFacts
<1>3. /\ \A t \in Subs \ {s} : Stage(t)' = Stage(t)
      /\ Stage(s) = "trying"
      /\ outbox'[s].status = "retry_wait"
      /\ \A v \in Workers : ~Holds(v, s)'
  BY <1>1, OutcomeShape DEF OutboxStatus
<1>4. Stage(s)' = "ready"
  BY <1>3 DEF Stage, Due
<1>5. Contract!Requeue(s)
  BY <1>1, <1>2, <1>3, <1>4, OneMoves DEF Contract!Requeue
<1>. QED BY <1>5 DEF Contract!CNext

\* A final refusal and a denial close the delivery.
LEMMA FailureRefines ==
  ASSUME IInv, NEW w \in Workers, NEW s \in Subs, GiveUp(w, s) \/ Deny(w, s)
  PROVE  [Contract!CNext]_(Contract!cvars)
<1>0. worker[w].pc \in InFlight /\ SetSub(s, "failed") /\ UNCHANGED <<receipt, outside>>
  BY DEF GiveUp, Deny, InFlight
<1>1. /\ worker[w].pc \in InFlight
      /\ \A t \in Subs \ {s} : sub'[t] = sub[t]
      /\ UNCHANGED <<calls, accepted, receipt>>
      /\ sub'[s].status = "failed"
  <2>1. sub \in [Subs -> SubRow] /\ sub' = [sub EXCEPT ![s].status = "failed"]
    BY <1>0 DEF SetSub, IInv, TypeOK
  <2>2. sub[s] \in SubRow
    BY <2>1
  <2>3. sub'[s] = [sub[s] EXCEPT !.status = "failed"]
    BY <2>1
  <2>. QED BY <1>0, <2>1, <2>2, <2>3 DEF outside, SubRow
<1>2. PICK available, code : Outcome(w, s, "failed", available, code)
  BY DEF GiveUp, Deny
<1>3. /\ \A t \in Subs \ {s} : Stage(t)' = Stage(t)
      /\ Stage(s) = "trying"
      /\ outbox'[s].status = "failed"
      /\ \A v \in Workers : ~Holds(v, s)'
  BY <1>1, <1>2, OutcomeShape DEF OutboxStatus
<1>4. Stage(s)' = "closed"
  BY <1>3 DEF Stage, Due
<1>. QED BY <1>1, <1>3, <1>4, ClosingRefines DEF Closing

\* A receipt is recorded for a delivery that was taken.
LEMMA VerifyRefines ==
  ASSUME IInv, NEW w \in Workers, NEW s \in Subs, Verify(w, s)
  PROVE  [Contract!CNext]_(Contract!cvars)
<1>1. /\ worker[w].pc \in InFlight /\ worker[w].pc = "accepted"
      /\ s = worker[w].row
      /\ Outcome(w, s, "receipt_verified", outbox[s].available, "none")
      /\ \A t \in Subs \ {s} : sub'[t] = sub[t]
      /\ UNCHANGED <<calls, accepted>> /\ receipt' = receipt \cup {s}
  BY DEF Verify, Outcome, SetSub, InFlight, outside, IInv, TypeOK
<1>2. accepted[s] = 1
  BY <1>1, OutcomeFacts
<1>3. /\ \A t \in Subs \ {s} : Stage(t)' = Stage(t)
      /\ Stage(s) = "trying"
      /\ outbox'[s].status = "receipt_verified"
      /\ \A v \in Workers : ~Holds(v, s)'
  BY <1>1, OutcomeShape DEF OutboxStatus
<1>4. Stage(s)' = "closed"
  BY <1>3 DEF Stage, Due
<1>5. s \in {t \in Subs : accepted[t] > 0}
  BY <1>2
<1>6. Contract!Confirm(s)
  BY <1>1, <1>3, <1>4, <1>5, OneMoves DEF Contract!Confirm
<1>. QED BY <1>6 DEF Contract!CNext

\* The expiry of a due row closes its delivery.
LEMMA ExpireRefines ==
  ASSUME IInv, NEW w \in Workers, NEW s \in Subs, ExpireRow(w, s)
  PROVE  [Contract!CNext]_(Contract!cvars)
<1>1. /\ \A t \in Subs \ {s} : outbox'[t] = outbox[t] /\ sub'[t] = sub[t]
      /\ outbox[s].status \in Due
      /\ worker[w].pc = "next" /\ worker'[w].pc = "next"
      /\ \A v \in Workers \ {w} : worker'[v] = worker[v]
      /\ UNCHANGED <<calls, accepted, receipt>>
  BY DEF ExpireRow, SetSub, Resume, outside, IInv, TypeOK
<1>2. outbox'[s].status = "expired"
  BY RowType DEF ExpireRow, IInv, TypeOK, OutboxRow
<1>3. \A t \in Subs : ~Holds(w, t) /\ ~Holds(w, t)'
  BY <1>1 DEF Holds, InFlight
<1>4. \A t \in Subs \ {s} : Stage(t)' = Stage(t)
  BY <1>1, <1>3, OthersKept
<1>5. \A v \in Workers : ~Holds(v, s)
  BY <1>1, DueIsFree
<1>6. \A v \in Workers : ~Holds(v, s)'
  BY <1>1, <1>3, <1>5 DEF Holds
<1>7. Stage(s) = "ready" /\ Stage(s)' = "closed"
  BY <1>1, <1>2, <1>5, <1>6 DEF Stage, Due
<1>. QED BY <1>1, <1>4, <1>7, ClosingRefines DEF Closing

\* Dispatchers that stop, one or all, close the deliveries whose claims were
\* declared lost under them, and leave the claimed ones as they are.
LEMMA StopRefines ==
  ASSUME IInv, UNCHANGED <<sub, outbox, receipt, calls, accepted>>,
         \A v \in Workers : worker'[v] = worker[v] \/ worker'[v] = Idle
  PROVE  [Contract!CNext]_(Contract!cvars)
<1>1. ASSUME NEW s \in Subs
      PROVE  \/ Stage(s)' = Stage(s)
             \/ Stage(s) # "closed" /\ Stage(s)' = "closed"
  <2>1. \A v \in Workers : Holds(v, s)' => Holds(v, s)
    BY DEF Holds, Idle, InFlight
  <2>2. CASE \A v \in Workers : Holds(v, s) => Holds(v, s)'
    BY <2>1, <2>2, StageKept
  <2>3. CASE outbox[s].status = "dispatching"
    BY <2>3 DEF Stage
  <2>4. CASE /\ outbox[s].status # "dispatching"
             /\ \E v \in Workers : Holds(v, s) /\ ~Holds(v, s)'
    <3>1. PICK v \in Workers : Holds(v, s) /\ ~Holds(v, s)'
      BY <2>4
    <3>2. outbox[s].status = "failed"
      BY <2>4, <3>1, WorkerType DEF WorkerInv, Holds
    <3>3. \A u \in Workers : ~Holds(u, s)'
      BY <2>1, <3>1 DEF IInv, SingleSender
    <3>. QED BY <3>1, <3>2, <3>3 DEF Stage, Due
  <2>. QED BY <2>2, <2>3, <2>4
<1>. QED BY <1>1, ClosingRefines DEF Closing

\* A step of a dispatcher is a step of the contract or is not visible.
LEMMA DispatchRefines ==
  ASSUME IInv, NEW w \in Workers, DispatchStep(w)
  PROVE  [Contract!CNext]_(Contract!cvars)
<1>1. CASE Begin(w) \/ SelectDue(w) \/ Return(w)
  <2>1. /\ UNCHANGED <<sub, outbox, receipt, calls, accepted>>
        /\ worker[w].pc \notin InFlight /\ worker'[w].pc \notin InFlight
        /\ \A v \in Workers \ {w} : worker'[v] = worker[v]
    BY <1>1
    DEF Begin, SelectDue, Return, Resume, Idle, db, outside, InFlight, IInv,
        TypeOK
  <2>. QED BY <2>1, QuietRefines DEF Holds
<1>2. ASSUME NEW s \in Subs, SkipRow(w, s)
      PROVE  [Contract!CNext]_(Contract!cvars)
  <2>1. /\ UNCHANGED <<sub, outbox, receipt, calls, accepted>>
        /\ worker[w].pc \notin InFlight /\ worker'[w].pc \notin InFlight
        /\ \A v \in Workers \ {w} : worker'[v] = worker[v]
    BY <1>2 DEF SkipRow, Resume, db, outside, InFlight, IInv, TypeOK
  <2>. QED BY <2>1, QuietRefines DEF Holds
<1>3. CASE Recheck(w)
  <2>1. /\ UNCHANGED <<sub, outbox, receipt, calls, accepted>>
        /\ worker'[w].row = worker[w].row
        /\ worker[w].pc \in InFlight /\ worker'[w].pc \in InFlight
        /\ \A v \in Workers \ {w} : worker'[v] = worker[v]
    BY <1>3, WorkerType
    DEF Recheck, Goto, db, outside, InFlight, IInv, TypeOK, Dispatcher
  <2>. QED BY <2>1, QuietRefines DEF Holds
<1>4. CASE Send(w)
  <2>1. PICK s \in Subs : s = worker[w].row
    BY <1>4, WorkerType DEF Send, WorkerInv, InFlight
  <2>. QED BY <1>4, <2>1, SendRefines
<1>. QED BY <1>1, <1>2, <1>3, <1>4, RecoverRefines, ExpireRefines,
            ClaimRefines, RetryRefines, FailureRefines, VerifyRefines
         DEF DispatchStep, RowStep

\* The service starts as the contract does.
LEMMA InitRefines == Init => Contract!CInit
<1>. SUFFICES ASSUME Init PROVE Contract!CInit
  OBVIOUS
<1>1. ASSUME NEW s \in Subs PROVE Stage(s) = "unarmed"
  BY DEF Init, Stage, Holds, Idle, InFlight, Due
<1>2. {s \in Subs : accepted[s] > 0} = {}
  BY DEF Init
<1>. QED BY <1>1, <1>2 DEF Init, Contract!CInit

\* Every step of the service is a step of the contract or is not visible.
LEMMA NextRefines ==
  IInv /\ [Next]_vars => [Contract!CNext]_(Contract!cvars)
<1>. SUFFICES ASSUME IInv, [Next]_vars
              PROVE  [Contract!CNext]_(Contract!cvars)
  OBVIOUS
<1>1. CASE UNCHANGED vars
  BY <1>1, StopRefines DEF vars
<1>2. CASE Tick
  BY <1>2, StopRefines DEF Tick, db, outside
<1>3. ASSUME NEW w \in Workers, Abort(w)
      PROVE  [Contract!CNext]_(Contract!cvars)
  <2>1. /\ UNCHANGED <<sub, outbox, receipt, calls, accepted>>
        /\ \A v \in Workers : worker'[v] = worker[v] \/ worker'[v] = Idle
    BY <1>3 DEF Abort, db, outside, IInv, TypeOK
  <2>. QED BY <2>1, StopRefines
<1>4. CASE Restart
  BY <1>4, StopRefines DEF Restart, db
<1>. QED BY <1>1, <1>2, <1>3, <1>4, OwnerRefines, DispatchRefines DEF Next

\* The service implements the contract, for any number of subscriptions,
\* dispatchers and attempts: a delivery is tried one call at a time and at most
\* MAX_ATTEMPTS times, never after it was taken, and never once it is closed.
THEOREM ContractImplemented == Spec => ImplementsContract
BY InitRefines, NextRefines, Invariance, PTL
DEF Spec, ImplementsContract, Contract!CSpec

-----------------------------------------------------------------------------
(* The audit trail.                                                         *)

\* A trail and the status of its row: the last event gives the status.
Replays(trail, status) ==
  trail # << >> =>
    LET last == AuditedStatus(trail[Len(trail)])
    IN \/ status = last
       \/ status = "dispatching" /\ last \in Due
       \/ status = "none" /\ last = "cancelled"

\* The last event of a trail to which an event was appended.
LEMMA LastEvent ==
  ASSUME NEW trail \in Seq(Event), NEW event \in Event
  PROVE  /\ Append(trail, event) # << >>
         /\ Append(trail, event)[Len(Append(trail, event))] = event
OBVIOUS

\* A step that leaves the row's trail alone and does not claim the row.
LEMMA TrailKept ==
  ASSUME NEW s \in Subs, Replays(audit[s], outbox[s].status),
         audit'[s] = audit[s],
         \/ outbox'[s].status = outbox[s].status
         \/ outbox[s].status \in Due /\ outbox'[s].status = "dispatching"
  PROVE  Replays(audit'[s], outbox'[s].status)
BY DEF Replays, Due

\* A step that records an event and leaves the status the event stands for.
LEMMA TrailGrows ==
  ASSUME IInv, NEW s \in Subs, NEW event \in Event,
         audit'[s] = Append(audit[s], event),
         \/ outbox'[s].status = AuditedStatus(event)
         \/ event = "subscription_cancelled" /\ outbox'[s].status = "none"
  PROVE  Replays(audit'[s], outbox'[s].status)
<1>1. /\ audit'[s] # << >> /\ audit'[s][Len(audit'[s])] = event
  BY LastEvent, RowType
<1>. QED BY <1>1 DEF Replays, AuditedStatus

\* Every step keeps the trail and the row together.
LEMMA NextReplays ==
  ASSUME IInv, [Next]_vars, NEW s \in Subs, Replays(audit[s], outbox[s].status)
  PROVE  Replays(audit'[s], outbox'[s].status)
<1>1. CASE UNCHANGED <<audit, outbox>>
  BY <1>1, TrailKept
<1>2. ASSUME NEW t \in Subs, t # s, NEW event,
             Record(t, event), outbox'[s] = outbox[s]
      PROVE  Replays(audit'[s], outbox'[s].status)
  <2>1. audit'[s] = audit[s]
    BY <1>2 DEF Record, IInv, TypeOK
  <2>. QED BY <1>2, <2>1, TrailKept
<1>3. ASSUME NEW event \in Event, Record(s, event),
             \/ outbox'[s].status = AuditedStatus(event)
             \/ event = "subscription_cancelled" /\ outbox'[s].status = "none"
      PROVE  Replays(audit'[s], outbox'[s].status)
  <2>1. audit'[s] = Append(audit[s], event)
    BY <1>3 DEF Record, IInv, TypeOK
  <2>. QED BY <1>3, <2>1, TrailGrows
<1>4. ASSUME NEW t \in Subs, OwnerStep(t)
      PROVE  Replays(audit'[s], outbox'[s].status)
  <2>1. CASE t # s
    <3>1. outbox'[s] = outbox[s]
      BY <1>4, <2>1 DEF OwnerStep, CreateDraft, DenyActivation, Cancel,
                        Activate, IInv, TypeOK
    <3>2. \E event : Record(t, event)
      BY <1>4 DEF OwnerStep, CreateDraft, DenyActivation, Cancel, Activate
    <3>. QED BY <1>2, <2>1, <3>1, <3>2
  <2>2. CASE CreateDraft(s)
    <3>1. outbox'[s].status = "none"
      BY <2>2, RowType
      DEF CreateDraft, RowInv, Agree, SubRow, SubStatus, IInv, TypeOK
    <3>. QED BY <1>3, <2>2, <3>1 DEF CreateDraft, AuditedStatus, Event
  <2>3. CASE DenyActivation(s)
    <3>1. outbox'[s].status = "none"
      BY <2>3, RowType DEF DenyActivation, RowInv, Agree, SubRow, SubStatus
    <3>. QED BY <1>3, <2>3, <3>1 DEF DenyActivation, AuditedStatus, Event
  <2>4. CASE Cancel(s)
    <3>1. outbox'[s].status \in {"none", "cancelled"}
      BY <2>4, RowType
      DEF Cancel, RowInv, Agree, SubRow, SubStatus, Due, OutboxRow, IInv,
          TypeOK
    <3>. QED BY <1>3, <2>4, <3>1 DEF Cancel, AuditedStatus, Event
  <2>5. ASSUME NEW k \in Keys, Activate(s, k)
        PROVE  Replays(audit'[s], outbox'[s].status)
    <3>1. outbox'[s].status = "queued"
      BY <2>5 DEF Activate, IInv, TypeOK
    <3>. QED BY <1>3, <2>5, <3>1 DEF Activate, AuditedStatus, Event
  <2>. QED BY <1>4, <2>1, <2>2, <2>3, <2>4, <2>5 DEF OwnerStep
<1>5. ASSUME NEW w \in Workers, RecoverClaims(w)
      PROVE  Replays(audit'[s], outbox'[s].status)
  <2>1. CASE s \in Lost(w)
    <3>1. /\ outbox'[s].status = "failed"
          /\ audit'[s] = Append(audit[s], "delivery_outcome_unknown")
      BY <1>5, <2>1 DEF RecoverClaims, Unclaimed
    <3>. QED BY <3>1, TrailGrows DEF AuditedStatus, Event
  <2>2. CASE s \notin Lost(w)
    <3>1. outbox'[s] = outbox[s] /\ audit'[s] = audit[s]
      BY <1>5, <2>2 DEF RecoverClaims
    <3>. QED BY <3>1, TrailKept
  <2>. QED BY <2>1, <2>2
<1>6. ASSUME NEW w \in Workers, NEW t \in Subs, RowStep(w, t)
      PROVE  Replays(audit'[s], outbox'[s].status)
  <2>1. CASE SkipRow(w, t)
    BY <1>1, <2>1 DEF SkipRow, db
  <2>2. CASE ClaimRow(w, t)
    <3>1. /\ audit' = audit
          /\ t # s => outbox'[s] = outbox[s]
          /\ outbox[t].status \in Due /\ outbox'[t].status = "dispatching"
      BY <2>2 DEF ClaimRow, IInv, TypeOK
    <3>. QED BY <3>1, TrailKept
  <2>3. CASE ExpireRow(w, t)
    <3>1. outbox'[t].status = "expired" /\ (t # s => outbox'[s] = outbox[s])
      BY <2>3, RowType DEF ExpireRow, IInv, TypeOK, OutboxRow
    <3>2. Record(t, "delivery_expired")
      BY <2>3 DEF ExpireRow
    <3>. QED BY <1>2, <1>3, <3>1, <3>2 DEF AuditedStatus, Event
  <2>4. ASSUME NEW status, NEW available, NEW code, NEW event \in Event,
               Outcome(w, t, status, available, code), Record(t, event),
               status = AuditedStatus(event)
        PROVE  Replays(audit'[s], outbox'[s].status)
    <3>1. outbox'[t].status = status /\ (t # s => outbox'[s] = outbox[s])
      BY <2>4 DEF Outcome, Unclaimed, IInv, TypeOK
    <3>. QED BY <1>2, <1>3, <2>4, <3>1
  <2>5. CASE RetryLater(w, t)
    BY <2>4, <2>5 DEF RetryLater, AuditedStatus, Event
  <2>6. CASE GiveUp(w, t)
    BY <2>4, <2>6 DEF GiveUp, AuditedStatus, Event
  <2>7. CASE Deny(w, t)
    BY <2>4, <2>7 DEF Deny, AuditedStatus, Event
  <2>8. CASE Verify(w, t)
    BY <2>4, <2>8 DEF Verify, AuditedStatus, Event
  <2>. QED BY <1>6, <2>1, <2>2, <2>3, <2>5, <2>6, <2>7, <2>8 DEF RowStep
<1>7. ASSUME NEW w \in Workers, DispatchStep(w) \/ Abort(w)
      PROVE  Replays(audit'[s], outbox'[s].status)
  <2>1. CASE \/ Begin(w) \/ SelectDue(w) \/ Recheck(w) \/ Send(w) \/ Return(w)
             \/ Abort(w)
    BY <1>1, <2>1 DEF Begin, SelectDue, Recheck, Send, Return, Abort, db
  <2>. QED BY <1>5, <1>6, <1>7, <2>1 DEF DispatchStep
<1>8. CASE Tick \/ Restart \/ UNCHANGED vars
  BY <1>1, <1>8 DEF Tick, Restart, vars, db
<1>. QED BY <1>4, <1>7, <1>8 DEF Next

\* The last audit event of a subscription gives the status of its row, for any
\* interleaving of owners, dispatchers, lost claims and restarts.
THEOREM AuditFaithful == Spec => []AuditReplays
<1>1. AuditReplays <=> \A s \in Subs : Replays(audit[s], outbox[s].status)
  BY DEF AuditReplays, Replays
<1>2. Init => AuditReplays
  BY DEF Init, AuditReplays
<1>3. AuditReplays /\ IInv /\ [Next]_vars => AuditReplays'
  <2>1. AuditReplays' <=> \A s \in Subs : Replays(audit'[s], outbox'[s].status)
    BY DEF AuditReplays, Replays
  <2>. QED BY <1>1, <2>1, NextReplays
<1>. QED BY <1>2, <1>3, Invariance, PTL DEF Spec
=============================================================================
