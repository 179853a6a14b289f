--------------------------- MODULE ProtectedRead ---------------------------
(***************************************************************************)
(* A protected read (control_plane_api.py): the request is denied, let past   *)
(* or given an authority with a currentness verifier; its handler reads the   *)
(* owner's data between two checks of that authority; whatever happens the    *)
(* verifier is closed.  In the live composition the authority comes from the   *)
(* operator bridge (live_control_plane.py), whose proofs live in this process. *)
(*                                                                         *)
(* The event loop switches requests at awaits only; owners, on the other hand,  *)
(* let policies lapse between any two statements.                           *)
(***************************************************************************)
EXTENDS Naturals, SequencesExt

CONSTANTS
  Requests,
  Subjects,   \* operators with a browser session each
  ProofIds,   \* addresses the interpreter gives to proof objects
  MaxProofs   \* MAX_OPERATOR_PROOFS

\* The proof table has room for one proof at least (1024 in the source).
ASSUME MaxProofsAssumption == MaxProofs \in Nat \ {0}

VARIABLES
  deployment,  \* which authorisation the application was composed with
  lapsed,      \* subjects whose owner policy or decision is no longer current
  proofs,      \* _proofs: subjects enrolled, oldest first
  pending,     \* _proof_owner_revisions: the subject whose revision an id carries
  open,        \* requests whose verifier is open
  req          \* step of each request

vars == <<deployment, lapsed, proofs, pending, open, req>>

\* "decision": an authorizer that decides and offers no currentness.
Deployments == {"off", "untyped", "decision", "typed", "bridge"}
Nobody == "nobody"

-----------------------------------------------------------------------------
(* The handlers: what each reads, and how it answers when its authority has     *)
(* lapsed, when what it names is missing and when its source fails.           *)

Row(reads, lapsedStatus, missingStatus, brokenStatus) ==
  [reads |-> reads, lapsed |-> lapsedStatus, missing |-> missingStatus, broken |-> brokenStatus]

Schedule == Row("owner", 503, 503, 503)
Forecast == Row("owner", 503, 503, 503)
Reliability == Row("owner", 503, 503, 503)
Architecture == Row("owner", 500, 500, 500)
Governance == Row("owner", 500, 500, 500)
Reports == Row("owner", 500, 404, 503)
Snapshot == Row("owner", 500, 404, 404)
Economy == Row("either", 500, 500, 500)
Overview == Row("estate", 500, 500, 500)
Brief == Row("brief", 500, 500, 500)
Board == Row("local", 500, 500, 500)
Events == Row("stream", 503, 400, 503)

Handlers == {Schedule, Forecast, Reliability, Architecture, Governance, Reports, Snapshot,
             Economy, Overview, Brief, Board, Events}

\* What a query may ask for that a projection does not offer.
ScopeStatus == {400, 403}

At(pc) == [pc |-> pc]
Handling(pc, row, session, subject) ==
  [pc |-> pc, row |-> row, session |-> session, subject |-> subject, inDate |-> TRUE]
Answered(status, owner, inDate) ==
  [pc |-> "over", status |-> status, owner |-> owner, inDate |-> inDate]
Failed(status) == Answered(status, FALSE, TRUE)
SignedOut(s) ==
  [pc |-> "over", status |-> 401, owner |-> FALSE, inDate |-> TRUE, signedOut |-> s]

Init ==
  /\ deployment \in Deployments
  /\ lapsed = {}
  /\ proofs = <<>>
  /\ pending = [i \in ProofIds |-> Nobody]
  /\ open = {}
  /\ req = [r \in Requests |-> At("idle")]

Keep == UNCHANGED <<deployment, lapsed, proofs, pending>>

\* Mutant: the decision is cleared on the way out of the handler only.
EndAtReturn(r, answer) ==
  /\ req' = [req EXCEPT ![r] = answer]
  /\ open' = IF answer.status = 0 THEN open ELSE open \ {r}
\* The finally clause of the wrapper: whatever ends a request closes its verifier.
End(r, answer) ==
  /\ req' = [req EXCEPT ![r] = answer]
  /\ open' = open \ {r}

-----------------------------------------------------------------------------
(* Admission                                                                 *)

\* Foreign origin, browser bearer where sessions are used, malformed bearer.
Deny(r) ==
  /\ req[r].pc = "idle"
  /\ \E status \in {401, 403} : End(r, Failed(status))
  /\ Keep

\* A local request of an open deployment, or a bearer capauth's policy allows:
\* without typed context there is no verifier, and never a stream.
AdmitUntyped(r) ==
  /\ req[r].pc = "idle"
  /\ deployment \in {"off", "untyped"}
  /\ \E row \in Handlers \ {Events} :
       req' = [req EXCEPT ![r] = Handling("handling", row, Nobody, Nobody)]
  /\ UNCHANGED open
  /\ Keep

\* _typed_context: only an exact context in date is let in, with its verifier if the
\* authorizer gives one.
TypedContext(r, row, session, subject) ==
  \/ /\ subject \notin lapsed
     /\ req' = [req EXCEPT ![r] = Handling("handling", row, session, subject)]
     /\ open' = IF deployment = "decision" THEN open ELSE open \cup {r}
  \/ End(r, Failed(403))

AdmitTyped(r) ==
  /\ req[r].pc = "idle"
  /\ deployment \in {"typed", "decision"}
  /\ \E row \in Handlers, s \in Subjects : TypedContext(r, row, s, s)
  /\ Keep

\* _protected_handler awaits the session's resolution.
AwaitSession(r) ==
  /\ req[r].pc = "idle"
  /\ deployment = "bridge"
  /\ \E s \in Subjects : req' = [req EXCEPT ![r] = [pc |-> "resolving", session |-> s]]
  /\ UNCHANGED open
  /\ Keep

-----------------------------------------------------------------------------
(* InProcessOperatorBridge                                                   *)

\* enroll: only a subject whose entry is in date; the oldest makes room.
Enrolled(s) ==
  Append(IF Len(proofs) >= MaxProofs THEN Tail(proofs) ELSE proofs, s)
HasProof(s) == s \in ToSet(proofs)

\* Mutant: an id that is still there keeps its revision.
IssuedOnce(id, s) == [pending EXCEPT ![id] = IF @ = Nobody THEN s ELSE @]
\* request: the proof is remembered by its id, over whatever the id still carries.
Issued(id, s) == [pending EXCEPT ![id] = s]

\* Mutant: a proof that is gone signs its session out.
ProofsForEvicted(s) == IF HasProof(s) THEN {proofs} ELSE {}
\* _resolution: a proof that is gone is made again, if the subject may enroll.
ProofsFor(s) ==
  IF HasProof(s) THEN {proofs} ELSE IF s \notin lapsed THEN {Enrolled(s)} ELSE {}

\* From the resolution to the authority there is no await.  A target outside the
\* bindings, or an origin that is not approved, leaves the id behind.
Resolve(r) ==
  /\ req[r].pc = "resolving"
  /\ LET s == req[r].session IN
     \/ /\ \E status \in {401, 503} : End(r, Failed(status))
        /\ UNCHANGED <<proofs, pending>>
     \/ /\ ProofsFor(s) = {}
        /\ End(r, SignedOut(s))
        /\ UNCHANGED <<proofs, pending>>
     \/ /\ proofs' \in ProofsFor(s)
        /\ \E id \in ProofIds :
             \/ /\ pending' = Issued(id, s)
                /\ End(r, Failed(403))
             \/ /\ pending' = [Issued(id, s) EXCEPT ![id] = Nobody]
                /\ \E row \in Handlers : TypedContext(r, row, s, Issued(id, s)[id])
  /\ UNCHANGED <<deployment, lapsed>>

SignIn(s) ==
  /\ deployment = "bridge"
  /\ s \notin lapsed
  /\ ~HasProof(s)
  /\ proofs' = Enrolled(s)
  /\ UNCHANGED <<deployment, lapsed, pending, open, req>>

\* discard, at logout.
Discard(s) ==
  /\ HasProof(s)
  /\ \E i \in DOMAIN proofs : proofs[i] = s /\ proofs' = RemoveAt(proofs, i)
  /\ UNCHANGED <<deployment, lapsed, pending, open, req>>

-----------------------------------------------------------------------------
(* The handlers                                                              *)

Refuse(r) ==
  /\ req[r].pc = "handling"
  /\ \E status \in ScopeStatus : End(r, Failed(status))
  /\ Keep

\* No provider, or no authority: 503 before anything is read.
Unavailable(r) ==
  /\ req[r].pc = "handling"
  /\ req[r].row.reads = "owner"
  /\ End(r, Failed(503))
  /\ Keep

\* The aggregates of this host need no more than the decision.  Nor does the economy,
\* which is not one of the owner projections of routes: without a verifier its
\* provider, if there is one, is read unchecked.
ReadLocal(r) ==
  /\ req[r].pc = "handling"
  /\ \/ req[r].row.reads = "local"
     \/ req[r].row.reads = "either" /\ r \notin open
  /\ \E status \in {200, 304, 400, 500} : End(r, Failed(status))
  /\ Keep

\* overview awaits the shared estate task, and may have no project to add.
AwaitEstate(r) ==
  /\ req[r].pc = "handling"
  /\ req[r].row.reads \in {"estate", "brief"}
  /\ req' = [req EXCEPT ![r].pc = "waiting"]
  /\ UNCHANGED open
  /\ Keep

EstateOnly(r) ==
  /\ req[r].pc = "waiting"
  /\ IF req[r].row = Brief
       THEN req' = [req EXCEPT ![r].pc = "briefing", ![r].subject = Nobody] /\ UNCHANGED open
       ELSE End(r, Failed(200))
  /\ Keep

CheckBefore(r) ==
  /\ \/ req[r].pc = "handling" /\ req[r].row.reads \in {"owner", "either"}
     \/ req[r].pc = "waiting"
  /\ r \in open
  /\ IF req[r].subject \in lapsed THEN End(r, Failed(req[r].row.lapsed))
     ELSE req' = [req EXCEPT ![r].pc = "checked"] /\ UNCHANGED open
  /\ Keep

ReadOwner(r) ==
  /\ req[r].pc = "checked"
  /\ \/ /\ req' = [req EXCEPT ![r].pc = "read", ![r].inDate = req[r].subject \notin lapsed]
        /\ UNCHANGED open
     \/ \E status \in {req[r].row.missing, req[r].row.broken} : End(r, Failed(status))
  /\ Keep

\* Mutant: the authority is checked before the read only.
CheckAfterNothing(r) ==
  /\ req[r].pc = "read"
  /\ req' = [req EXCEPT ![r].pc = "ready"] /\ UNCHANGED open
  /\ Keep
CheckAfter(r) ==
  /\ req[r].pc = "read"
  /\ IF req[r].subject \in lapsed THEN End(r, Failed(req[r].row.lapsed))
     ELSE req' = [req EXCEPT ![r].pc = "ready"] /\ UNCHANGED open
  /\ Keep

\* A projection of the wrong shape is not released.
Release(r) ==
  /\ req[r].pc = "ready"
  /\ IF req[r].row = Brief
       THEN req' = [req EXCEPT ![r].pc = "briefing"] /\ UNCHANGED open
       ELSE \/ End(r, Answered(200, TRUE, req[r].inDate))
            \/ End(r, Failed(503))
  /\ Keep

\* now_ai_brief awaits the assistant, for 65 seconds at most.
AnswerBrief(r) ==
  /\ req[r].pc = "briefing"
  /\ \/ End(r, Answered(200, req[r].subject # Nobody, req[r].inDate))
     \/ End(r, Failed(503))
  /\ Keep

\* The stream's authority fails closed: its first check closes the verifier.
Stream(r) ==
  /\ req[r].pc = "handling"
  /\ req[r].row = Events
  /\ \/ req' = [req EXCEPT ![r].pc = "streaming"] /\ UNCHANGED open
     \/ \E status \in {400, 403, 503} : End(r, Failed(status))
  /\ Keep

StreamCheck(r) ==
  /\ req[r].pc = "streaming"
  /\ End(r, Failed(200))
  /\ Keep

\* Cancellation at an await.
Disconnect(r) ==
  /\ req[r].pc \in {"resolving", "waiting", "briefing", "streaming"}
  /\ End(r, Failed(0))
  /\ Keep

-----------------------------------------------------------------------------
\* External: an owner's entry, a session or a decision expires or is revoked.
Lapse(s) ==
  /\ s \notin lapsed
  /\ lapsed' = lapsed \cup {s}
  /\ UNCHANGED <<deployment, proofs, pending, open, req>>

\* Proofs and requests are the process's; sessions and policies are not.
Restart ==
  /\ proofs' = <<>>
  /\ pending' = [i \in ProofIds |-> Nobody]
  /\ open' = {}
  /\ req' = [r \in Requests |-> At("idle")]
  /\ UNCHANGED <<deployment, lapsed>>

Next ==
  \/ \E r \in Requests :
       \/ Deny(r) \/ AdmitUntyped(r) \/ AdmitTyped(r) \/ AwaitSession(r) \/ Resolve(r)
       \/ Refuse(r) \/ Unavailable(r) \/ ReadLocal(r) \/ AwaitEstate(r) \/ EstateOnly(r)
       \/ CheckBefore(r) \/ ReadOwner(r) \/ CheckAfter(r) \/ Release(r) \/ AnswerBrief(r)
       \/ Stream(r) \/ StreamCheck(r) \/ Disconnect(r)
  \/ \E s \in Subjects : SignIn(s) \/ Discard(s) \/ Lapse(s)
  \/ Restart

Spec == Init /\ [][Next]_vars

-----------------------------------------------------------------------------
(* Owner data leaves the process only when the authority was current at the     *)
(* moment the owner's source was read, and only for an authority; and no         *)
(* verifier stays open when its request is over, however it ended.  The economy   *)
(* is owner data where it is read with a verifier, as the code has it.           *)
ReadInDate == \A r \in Requests : req[r].pc = "over" /\ req[r].owner => req[r].inDate
VerifiersClosed == \A r \in open : req[r].pc \notin {"idle", "resolving", "over"}
OwnerDataIsAuthorized == ReadInDate /\ VerifiersClosed

(* The revision a request is authorised under is that of its own session, and a  *)
(* session is signed out only when its subject's entry lapsed: neither the reuse  *)
(* of ids, nor the limit of the proof table, nor a restart does it.            *)
RevisionIsOwn == \A r \in open : req[r].subject \in {req[r].session, Nobody}
SignedOutIsLapsed ==
  \A r \in Requests : "signedOut" \in DOMAIN req[r] => req[r].signedOut \in lapsed
SessionsKeepTheirProof ==
  Len(proofs) <= MaxProofs /\ RevisionIsOwn /\ SignedOutIsLapsed

=============================================================================
