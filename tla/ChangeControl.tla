--------------------------- MODULE ChangeControl ---------------------------
(***************************************************************************)
(* The change-management routes of dashboard.py: a gate (queue_authz.py), a     *)
(* consent event (consent.py), and an act on one change, whose state is the      *)
(* fold of a log that other processes append to as well.  Each read of the log,   *)
(* each append and each call of gh is a step: between two of them another writer  *)
(* may append, and the pull request may move.                               *)
(***************************************************************************)
EXTENDS Naturals, SequencesExt

CONSTANTS
  Requests,
  MaxHead,   \* bound: commits the pull request's branch gets
  MaxOther   \* bound: events other writers append

VARIABLES
  gate,     \* how authorisation is configured in the environment
  status,   \* status of the folded change
  pr,       \* head of the pull request, its checks by head, the head prepared_pr names
  log,      \* the change's events: who wrote each, and whether the fold took it
  req       \* step of each request

vars == <<gate, status, pr, log, req>>

Kinds == {"vote", "validate", "schedule", "unschedule", "arm", "verify", "draft", "queue", "card"}

\* What the board may decide; an abstention leads nowhere.
Votes == {"approve", "reject", "abstain"}

\* External: skcoord's fold.  A status an event leads to; an event the fold
\* refuses stays in the log, conflicted.
Folded(kind, from) ==
  CASE kind = "approve" /\ from \in {"proposed", "reviewing"} -> {from, "approved"}
    [] kind = "reject" /\ from \in {"proposed", "reviewing"} -> {"rejected"}
    [] kind = "abstain" /\ from \in {"proposed", "reviewing"} -> {from}
    [] kind = "passed" -> {IF from = "proposed" THEN "reviewing" ELSE from}
    [] kind \in {"failed", "arm", "consent"} -> {from}
    [] kind = "schedule" /\ from = "approved" -> {"scheduled"}
    [] kind = "unschedule" /\ from = "scheduled" -> {"approved"}
    [] kind = "deploy" /\ from = "scheduled" -> {"deployed"}
    [] kind = "verify" /\ from = "deployed" -> {"verified"}
    [] OTHER -> {}

Entry(writer, kind, applied) == [by |-> writer, kind |-> kind, applied |-> applied]

Appended(writer, kind) ==
  IF Folded(kind, status) = {}
    THEN log' = Append(log, Entry(writer, kind, FALSE)) /\ UNCHANGED status
    ELSE /\ log' = Append(log, Entry(writer, kind, TRUE))
         /\ status' \in Folded(kind, status)

Applied(r, kinds) == \E e \in ToSet(log) : e.by = r /\ e.applied /\ e.kind \in kinds

-----------------------------------------------------------------------------
(* The gate                                                                  *)

Gates == {g \in [set : BOOLEAN, mode : {"token", "pdp", "both"}, secret : BOOLEAN] :
            ~g.set => g.mode = "token"}

\* Neither variable is set: open to the loopback.
Open == ~gate.set /\ ~gate.secret

\* An unset secret denies.
TokenOk(token) == gate.secret /\ token

\* Mutant: in the mode that asks for both, one is enough.
AllowedByEither(token, pdp) ==
  Open \/ (gate.mode # "pdp" /\ TokenOk(token)) \/ (gate.mode # "token" /\ pdp)
\* authorize_capability: pdp is FALSE as well when the PDP raises or is missing.
Allowed(token, pdp) ==
  \/ Open
  \/ /\ gate.mode # "pdp" => TokenOk(token)
     /\ gate.mode # "token" => pdp

-----------------------------------------------------------------------------
At(pc) == [pc |-> pc]

Init ==
  /\ gate \in Gates
  /\ status \in {"proposed", "approved", "deployed"}
  /\ pr \in [head : {1}, checks : [1..MaxHead -> {"none"}], prepared : {0, 1}]
  /\ log = <<>>
  /\ req = [r \in Requests |-> At("idle")]

Answer(r, answer) == req' = [req EXCEPT ![r] = [@ EXCEPT !.pc = "over", !.answer = answer]]
Move(r, pc) == req' = [req EXCEPT ![r].pc = pc]

\* Mutant: the operator's session is not asked for.
NoSession(kind, session) == FALSE
\* A CAB vote needs a verified operator session; X-SK-Actor never does.
Unproved(kind, session) == kind = "vote" /\ ~session

\* The handler up to its first access to the log: 401, 403 and 404.  From the body
\* to the answer there is no await: this process serves one such request at a time,
\* and what interleaves with it is another process.
Ask(r) ==
  /\ req[r].pc = "idle"
  /\ \A q \in Requests : req[q].pc \in {"idle", "over"}
  /\ \E kind \in Kinds, token, pdp, session, found \in BOOLEAN :
       LET let == ~Unproved(kind, session) /\ Allowed(token, pdp) /\ found IN
       req' = [req EXCEPT ![r] =
         [kind |-> kind, token |-> token, pdp |-> pdp, session |-> session,
          stored |-> TRUE, judged |-> "none", head |-> 0, quiet |-> TRUE,
          pc |-> IF ~let THEN "over"
                 ELSE IF kind \in {"vote", "verify", "draft", "card"} THEN "allowed"
                 ELSE "consenting",
          answer |-> IF let THEN "" ELSE "refused"]]
  /\ UNCHANGED <<gate, status, pr, log>>

\* vote and verify look at the folded status first: 409, and 400 for a decision
\* that is none or a note that is empty.
LookAt(r) ==
  /\ req[r].pc = "allowed"
  /\ req[r].kind \in {"vote", "verify"}
  /\ \/ /\ req[r].kind = "vote" /\ status \in {"proposed", "reviewing"}
        /\ Move(r, "consenting")
     \/ req[r].kind = "verify" /\ status = "deployed" /\ Move(r, "acting")
     \/ Answer(r, "refused")
  /\ UNCHANGED <<gate, status, pr, log>>

\* Mutant: the consent is written when the act is.
ConsentLater(r) ==
  /\ req[r].pc = "consenting"
  /\ Move(r, "acting")
  /\ UNCHANGED <<gate, status, pr, log>>
\* The consent event; a store that fails does not stop the request.
Consent(r) ==
  /\ req[r].pc = "consenting"
  /\ \/ req[r].kind # "queue" /\ Appended(r, "consent") /\ Move(r, "acting")
     \/ req[r].kind = "queue" /\ Move(r, "acting") /\ UNCHANGED <<status, log>>
     \/ /\ req' = [req EXCEPT ![r].stored = FALSE, ![r].pc = "acting"]
        /\ UNCHANGED <<status, log>>
  /\ UNCHANGED <<gate, pr>>

\* The draft of a review, a card's mutation and a queued run leave the change alone.
ActElsewhere(r) ==
  /\ \/ req[r].pc = "allowed" /\ req[r].kind \in {"draft", "card"}
     \/ req[r].pc = "acting" /\ req[r].kind = "queue"
  /\ \E answer \in {"done", "refused"} : Answer(r, answer)
  /\ UNCHANGED <<gate, status, pr, log>>

Vote(r) ==
  /\ req[r].pc = "acting" /\ req[r].kind = "vote"
  /\ \E decision \in Votes : Appended(r, decision)
  /\ Answer(r, "done")
  /\ UNCHANGED <<gate, pr>>

\* The arm file is written whatever the change's status is.
Arm(r) ==
  /\ req[r].pc = "acting" /\ req[r].kind = "arm"
  /\ Appended(r, "arm")
  /\ Answer(r, "done")
  /\ UNCHANGED <<gate, pr>>

\* A deploy mode that is not confirm and a window that is missing are refused.
RefuseSchedule(r) ==
  /\ req[r].pc = "acting" /\ req[r].kind = "schedule"
  /\ Answer(r, "refused")
  /\ UNCHANGED <<gate, status, pr, log>>

AppendTransition(r) ==
  /\ req[r].pc = "acting" /\ req[r].kind \in {"schedule", "verify"}
  /\ Appended(r, req[r].kind)
  /\ Move(r, "appended")
  /\ UNCHANGED <<gate, pr>>

\* The answer is the status of the record folded again.
Refold(r) ==
  /\ req[r].pc = "appended"
  /\ LET reached == IF req[r].kind = "schedule" THEN "scheduled" ELSE "verified" IN
     Answer(r, IF status = reached THEN "done" ELSE "refused")
  /\ UNCHANGED <<gate, status, pr, log>>

\* unschedule answers 200 whatever the fold makes of it.
Unschedule(r) ==
  /\ req[r].pc = "acting" /\ req[r].kind = "unschedule"
  /\ Appended(r, "unschedule")
  /\ Answer(r, "done")
  /\ UNCHANGED <<gate, pr>>

-----------------------------------------------------------------------------
(* validate: gh pr checks, a trigger when none has started and a second read, gh   *)
(* pr view for the head, the verdict.                                       *)

NothingPrepared(r) ==
  /\ req[r].pc = "acting" /\ req[r].kind = "validate"
  /\ pr.prepared = 0
  /\ Answer(r, "refused")
  /\ UNCHANGED <<gate, status, pr, log>>

\* A gh that fails reports no checks.
Judged(r, seen, pc) ==
  req' = [req EXCEPT ![r].judged = seen, ![r].pc = pc]

ReadChecks(r) ==
  /\ req[r].pc = "acting" /\ req[r].kind = "validate" /\ pr.prepared # 0
  /\ \E seen \in {"none", pr.checks[pr.head]} :
       Judged(r, seen, IF seen = "none" THEN "triggering" ELSE "judged")
  /\ UNCHANGED <<gate, status, pr, log>>

\* Mutant: a trigger that worked is taken for checks that pass.
TriggerTrusted(r) ==
  /\ req[r].pc = "triggering"
  /\ Judged(r, "pass", "judged")
  /\ UNCHANGED <<gate, status, pr, log>>
TriggerAndReadAgain(r) ==
  /\ req[r].pc = "triggering"
  /\ \E seen \in {"none", pr.checks[pr.head]} : Judged(r, seen, "judged")
  /\ UNCHANGED <<gate, status, pr, log>>

\* A head that cannot be fetched is the one prepared_pr named.
ReadHead(r) ==
  /\ req[r].pc = "judged"
  /\ \/ req' = [req EXCEPT ![r].head = pr.head, ![r].pc = "headed"]
     \/ req' = [req EXCEPT ![r].head = pr.prepared, ![r].pc = "headed", ![r].quiet = FALSE]
  /\ UNCHANGED <<gate, status, pr, log>>

AppendVerdict(r) ==
  /\ req[r].pc = "headed"
  /\ Appended(r, IF req[r].judged = "pass" THEN "passed" ELSE "failed")
  /\ Answer(r, "done")
  /\ UNCHANGED <<gate, pr>>

-----------------------------------------------------------------------------
\* External: a push, a run of the checks, which nobody repeats, and events of other
\* writers.
Push ==
  /\ pr.head < MaxHead
  /\ pr' = [pr EXCEPT !.head = @ + 1]
  /\ req' = [r \in Requests |->
       IF req[r].pc \in {"triggering", "judged"} THEN [req[r] EXCEPT !.quiet = FALSE] ELSE req[r]]
  /\ UNCHANGED <<gate, status, log>>

RunChecks ==
  /\ pr.checks[pr.head] = "none"
  /\ \E seen \in {"pass", "fail"} : pr' = [pr EXCEPT !.checks[pr.head] = seen]
  /\ UNCHANGED <<gate, status, log, req>>

OtherWriter ==
  /\ Len(SelectSeq(log, LAMBDA e : e.by = "other")) < MaxOther
  /\ \E kind \in {"approve", "reject", "schedule", "unschedule", "deploy", "verify"} :
       Folded(kind, status) # {} /\ Appended("other", kind)
  /\ UNCHANGED <<gate, pr, req>>

Next ==
  \/ \E r \in Requests :
       \/ Ask(r) \/ LookAt(r) \/ Consent(r) \/ ActElsewhere(r) \/ Vote(r) \/ Arm(r)
       \/ RefuseSchedule(r) \/ AppendTransition(r) \/ Refold(r) \/ Unschedule(r)
       \/ NothingPrepared(r) \/ ReadChecks(r) \/ TriggerAndReadAgain(r) \/ ReadHead(r)
       \/ AppendVerdict(r)
  \/ Push \/ RunChecks \/ OtherWriter

Spec == Init /\ [][Next]_vars

-----------------------------------------------------------------------------
(* Every event a route wrote is answerable: its request passed every check the    *)
(* environment asks for, a vote came from a proved session, and the act follows   *)
(* the consent of the same request in the log, unless the store refused that one.  *)
ActsAreAnswerable ==
  \A i \in DOMAIN log :
    LET e == log[i] IN
    e.by \in Requests =>
      /\ gate.secret /\ gate.mode # "pdp" => req[e.by].token
      /\ gate.set /\ gate.mode # "token" => req[e.by].pdp
      /\ gate.set /\ gate.mode # "pdp" => gate.secret
      /\ e.kind \in Votes => req[e.by].session
      /\ e.kind \in {"consent", "verify"} \/ ~req[e.by].stored
         \/ \E j \in 1..(i - 1) : log[j] = Entry(e.by, "consent", TRUE)

(* A passing verdict, taken while nothing was pushed and with a head that could be *)
(* fetched, is recorded under the head whose checks passed.                    *)
QuietVerdictIsExact ==
  \A r \in Requests :
    req[r].pc # "idle" /\ req[r].quiet /\ Applied(r, {"passed"}) =>
      req[r].head # 0 /\ pr.checks[req[r].head] = "pass"

(* The head recorded with a verdict is there for the executor to refuse a stale    *)
(* one (_gh_pr_head_sha).  A verdict it does not refuse, because it names the head  *)
(* the pull request has, must then be the verdict on that head.                *)
VerdictIsOfItsHead ==
  \A r \in Requests :
    Applied(r, {"passed"}) /\ req[r].head = pr.head => pr.checks[pr.head] = "pass"

=============================================================================
