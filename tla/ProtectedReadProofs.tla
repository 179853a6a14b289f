------------------------- MODULE ProtectedReadProofs -------------------------
(***************************************************************************)
(* Proofs about ProtectedRead, for any requests, subjects, proof ids and limit  *)
(* of the proof table, in each deployment.                                    *)
(***************************************************************************)
EXTENDS ProtectedRead, SequenceTheorems, TLAPS

\* A request with its handler.
Working == {"handling", "waiting", "checked", "read", "ready", "briefing", "streaming"}
Handled ==
  [pc : Working, row : Handlers, session : Subjects \cup {Nobody},
   subject : Subjects \cup {Nobody}, inDate : BOOLEAN]

\* What a request may be at each of its steps.  Between the read and the check that
\* follows it, an authority that had lapsed is lapsed still; a brief that keeps its
\* authority read under it.
RequestOK(v) ==
  \/ v = At("idle")
  \/ \E s \in Subjects : v = [pc |-> "resolving", session |-> s]
  \/ /\ v \in Handled
     /\ v.pc = "read" => v.inDate \/ v.subject \in lapsed
     /\ v.pc = "ready" => v.inDate
     /\ v.pc = "briefing" /\ v.subject # Nobody => v.inDate
  \/ \E status, owner, inDate :
       v = Answered(status, owner, inDate) /\ owner \in BOOLEAN /\ (owner => inDate)
  \/ \E s \in lapsed : v = SignedOut(s)

\* A verifier is open for a request that is being handled, under the revision of its
\* own session; an id can carry what it is given.
IInv ==
  /\ pending \in [ProofIds -> Subjects \cup {Nobody}]
  /\ DOMAIN req = Requests /\ open \subseteq Requests
  /\ \A r \in Requests : RequestOK(req[r])
  /\ \A r \in open : req[r] \in Handled /\ req[r].subject \in {req[r].session, Nobody}

\* A step of one request: its new value is as it may be, and its verifier is closed, or
\* open for a request that is being handled.
LEMMA OneRequest ==
  ASSUME IInv, NEW r \in Requests, NEW v, RequestOK(v),
         req' = [req EXCEPT ![r] = v], UNCHANGED lapsed,
         pending' \in [ProofIds -> Subjects \cup {Nobody}],
         \/ open' = open \ {r}
         \/ /\ open' \subseteq open \cup {r}
            /\ r \in open' => v \in Handled /\ v.subject \in {v.session, Nobody}
  PROVE  IInv'
<1>1. \A q \in Requests : req'[q] = IF q = r THEN v ELSE req[q]
  BY DEF IInv
<1>2. \A w : RequestOK(w) => RequestOK(w)'
  BY DEF RequestOK
<1>3. \A q \in Requests : RequestOK(req[q])'
  BY <1>1, <1>2 DEF IInv
<1>. QED BY <1>1, <1>3 DEF IInv

\* The end of a request.
LEMMA EndOK ==
  ASSUME IInv, NEW r \in Requests, NEW v, End(r, v), RequestOK(v), UNCHANGED lapsed,
         pending' \in [ProofIds -> Subjects \cup {Nobody}]
  PROVE  IInv'
BY OneRequest DEF End

\* A request that is over, by how it ended.
LEMMA WhenOver ==
  ASSUME NEW v, RequestOK(v)
  PROVE  /\ v.pc = "over" /\ v.owner => v.inDate
         /\ "signedOut" \in DOMAIN v => v.signedOut \in lapsed
<1>1. CASE v = At("idle") \/ \E s \in Subjects : v = [pc |-> "resolving", session |-> s]
  BY <1>1 DEF At
<1>2. CASE v \in Handled
  BY <1>2 DEF Handled, Working
<1>3. ASSUME NEW status, NEW owner, NEW inDate, v = Answered(status, owner, inDate),
             owner => inDate
      PROVE  /\ v.pc = "over" /\ v.owner => v.inDate
             /\ "signedOut" \in DOMAIN v => v.signedOut \in lapsed
  <2>1. v.owner = owner /\ v.inDate = inDate /\ DOMAIN v = {"pc", "status", "owner", "inDate"}
    BY <1>3 DEF Answered
  <2>. QED BY <1>3, <2>1
<1>4. CASE \E s \in lapsed : v = SignedOut(s)
  BY <1>4 DEF SignedOut
<1>. QED BY <1>1, <1>2, <1>3, <1>4 DEF RequestOK

\* A refusal or a failure carries no owner data.
LEMMA FailedOK ==
  \A status : RequestOK(Failed(status))
BY DEF RequestOK, Failed

\* An answer carries owner data only if the authority was current at the read.
LEMMA AnsweredOK ==
  ASSUME NEW status, NEW owner \in BOOLEAN, NEW inDate, owner => inDate
  PROVE  RequestOK(Answered(status, owner, inDate))
<1>1. \E x, y, z : Answered(status, owner, inDate) = Answered(x, y, z)
                  /\ y \in BOOLEAN /\ (y => z)
  <2>. DEFINE ok(y, z) == y \in BOOLEAN /\ (y => z)
  <2>1. ok(owner, inDate)
    OBVIOUS
  <2>. QED BY <2>1
<1>. QED BY <1>1 DEF RequestOK

\* A request that goes on being handled.
LEMMA HandledStep ==
  ASSUME IInv, NEW r \in Requests, NEW v \in Handled, Keep, UNCHANGED open,
         req' = [req EXCEPT ![r] = v],
         v.pc = "read" => v.inDate \/ v.subject \in lapsed,
         v.pc = "ready" => v.inDate,
         v.pc = "briefing" /\ v.subject # Nobody => v.inDate,
         r \in open => v.subject \in {v.session, Nobody}
  PROVE  IInv'
<1>1. RequestOK(v)
  BY DEF RequestOK
<1>. QED BY <1>1, OneRequest DEF Keep, IInv

\* At a step of its handler a request is a record of the handler.
LEMMA AtWork ==
  ASSUME IInv, NEW r \in Requests, req[r].pc \in Working
  PROVE  /\ req[r] \in Handled
         /\ req[r].pc = "read" => req[r].inDate \/ req[r].subject \in lapsed
         /\ req[r].pc = "ready" => req[r].inDate
         /\ req[r].pc = "briefing" /\ req[r].subject # Nobody => req[r].inDate
         /\ r \in open => req[r].subject \in {req[r].session, Nobody}
         /\ \A pc \in Working : /\ [req[r] EXCEPT !.pc = pc] \in Handled
                                /\ [req[r] EXCEPT !.pc = pc].pc = pc
                                /\ [req[r] EXCEPT !.pc = pc].inDate = req[r].inDate
                                /\ [req[r] EXCEPT !.pc = pc].session = req[r].session
                                /\ [req[r] EXCEPT !.pc = pc].subject = req[r].subject
<1>1. /\ req[r] \in Handled
      /\ req[r].pc = "read" => req[r].inDate \/ req[r].subject \in lapsed
      /\ req[r].pc = "ready" => req[r].inDate
      /\ req[r].pc = "briefing" /\ req[r].subject # Nobody => req[r].inDate
  BY DEF IInv, RequestOK, At, Answered, SignedOut, Working
<1>2. r \in open => req[r].subject \in {req[r].session, Nobody}
  BY DEF IInv
<1>3. \A pc \in Working : /\ [req[r] EXCEPT !.pc = pc] \in Handled
                          /\ [req[r] EXCEPT !.pc = pc].pc = pc
                          /\ [req[r] EXCEPT !.pc = pc].inDate = req[r].inDate
                          /\ [req[r] EXCEPT !.pc = pc].session = req[r].session
                          /\ [req[r] EXCEPT !.pc = pc].subject = req[r].subject
  BY <1>1 DEF Handled
<1>. QED BY <1>1, <1>2, <1>3

-----------------------------------------------------------------------------
(* Admission                                                                 *)

\* Only a lapsed subject is refused a new proof.
LEMMA ProofGone ==
  ASSUME NEW s, ProofsFor(s) = {}
  PROVE  s \in lapsed
BY DEF ProofsFor

\* The step that lets a request in, or ends it.
LEMMA TypedContextOK ==
  ASSUME IInv, NEW r \in Requests, NEW row \in Handlers, NEW s \in Subjects,
         TypedContext(r, row, s, s), UNCHANGED lapsed,
         pending' \in [ProofIds -> Subjects \cup {Nobody}]
  PROVE  IInv'
<1>1. CASE End(r, Failed(403))
  BY <1>1, EndOK, FailedOK
<1>2. CASE /\ req' = [req EXCEPT ![r] = Handling("handling", row, s, s)]
           /\ open' \in {open, open \cup {r}}
  <2>. DEFINE v == Handling("handling", row, s, s)
  <2>1. v \in Handled /\ v.pc = "handling" /\ v.subject = v.session
    BY DEF Handling, Handled, Working
  <2>. HIDE DEF v
  <2>2. RequestOK(v)
    BY <2>1 DEF RequestOK
  <2>3. req' = [req EXCEPT ![r] = v]
    BY <1>2 DEF v
  <2>. QED BY <1>2, <2>1, <2>2, <2>3, OneRequest
<1>. QED BY <1>1, <1>2 DEF TypedContext

\* Admission lets a request in under its own revision, or ends it.
LEMMA AdmissionStep ==
  ASSUME IInv, NEW r \in Requests,
         Deny(r) \/ AdmitUntyped(r) \/ AdmitTyped(r) \/ AwaitSession(r) \/ Resolve(r)
  PROVE  IInv'
<1>1. Keep => UNCHANGED lapsed /\ pending' \in [ProofIds -> Subjects \cup {Nobody}]
  BY DEF Keep, IInv
<1>2. req[r].pc = "idle" => r \notin open
  BY DEF IInv, Handled, Working
<1>3. CASE Deny(r)
  BY <1>1, <1>3, EndOK, FailedOK DEF Deny
<1>4. CASE AdmitUntyped(r)
  <2>1. PICK row \in Handlers \ {Events} :
          req' = [req EXCEPT ![r] = Handling("handling", row, Nobody, Nobody)]
    BY <1>4 DEF AdmitUntyped
  <2>. DEFINE v == Handling("handling", row, Nobody, Nobody)
  <2>2. v \in Handled /\ v.pc = "handling"
    BY DEF Handling, Handled, Working
  <2>. QED BY <1>2, <1>4, <2>1, <2>2, HandledStep DEF AdmitUntyped
<1>5. CASE AdmitTyped(r)
  BY <1>1, <1>5, TypedContextOK DEF AdmitTyped
<1>6. CASE AwaitSession(r)
  <2>1. PICK s \in Subjects : req' = [req EXCEPT ![r] = [pc |-> "resolving", session |-> s]]
    BY <1>6 DEF AwaitSession
  <2>2. RequestOK([pc |-> "resolving", session |-> s])
    BY DEF RequestOK
  <2>. QED BY <1>1, <1>2, <1>6, <2>1, <2>2, OneRequest DEF AwaitSession
<1>7. CASE Resolve(r)
  <2>. DEFINE s == req[r].session
  <2>1. s \in Subjects
    BY <1>7 DEF Resolve, IInv, RequestOK, At, Answered, SignedOut, Handled, Working
  <2>2. UNCHANGED lapsed
    BY <1>7 DEF Resolve
  <2>3. CASE (\E status \in {401, 503} : End(r, Failed(status))) /\ UNCHANGED pending
    BY <2>2, <2>3, EndOK, FailedOK DEF IInv
  <2>4. CASE ProofsFor(s) = {} /\ End(r, SignedOut(s)) /\ UNCHANGED pending
    <3>1. RequestOK(SignedOut(s))
      BY <2>4, ProofGone DEF RequestOK
    <3>. QED BY <2>2, <2>4, <3>1, EndOK DEF IInv
  <2>5. ASSUME NEW id \in ProofIds, pending' = Issued(id, s), End(r, Failed(403)) PROVE IInv'
    <3>1. pending' \in [ProofIds -> Subjects \cup {Nobody}]
      BY <2>1, <2>5 DEF Issued, IInv
    <3>. QED BY <2>2, <2>5, <3>1, EndOK, FailedOK
  <2>6. ASSUME NEW id \in ProofIds, pending' = [Issued(id, s) EXCEPT ![id] = Nobody],
               NEW row \in Handlers, TypedContext(r, row, s, Issued(id, s)[id])
        PROVE  IInv'
    <3>1. Issued(id, s)[id] = s /\ pending' \in [ProofIds -> Subjects \cup {Nobody}]
      BY <2>1, <2>6 DEF Issued, IInv
    <3>. QED BY <2>1, <2>2, <2>6, <3>1, TypedContextOK
  <2>. QED BY <1>7, <2>3, <2>4, <2>5, <2>6 DEF Resolve
<1>. QED BY <1>3, <1>4, <1>5, <1>6, <1>7

-----------------------------------------------------------------------------
(* The handlers                                                              *)

\* Each step of a handler keeps the invariant.
LEMMA HandlerStep ==
  ASSUME IInv, NEW r \in Requests,
         \/ Refuse(r) \/ Unavailable(r) \/ ReadLocal(r) \/ AwaitEstate(r) \/ EstateOnly(r)
         \/ CheckBefore(r) \/ ReadOwner(r) \/ CheckAfter(r) \/ Release(r) \/ AnswerBrief(r)
         \/ Stream(r) \/ StreamCheck(r) \/ Disconnect(r)
  PROVE  IInv'
<1>1. Keep => UNCHANGED lapsed /\ pending' \in [ProofIds -> Subjects \cup {Nobody}]
  BY DEF Keep, IInv
<1>2. ASSUME Keep, NEW status, End(r, Failed(status)) PROVE IInv'
  BY <1>1, <1>2, EndOK, FailedOK
<1>3. ASSUME Keep, UNCHANGED open, NEW pc \in Working, req[r].pc \in Working,
             req' = [req EXCEPT ![r] = [req[r] EXCEPT !.pc = pc]],
             pc # "read",
             pc = "ready" => req[r].inDate,
             pc = "briefing" /\ req[r].subject # Nobody => req[r].inDate
      PROVE  IInv'
  <2>. DEFINE v == [req[r] EXCEPT !.pc = pc]
  <2>1. /\ v \in Handled /\ v.pc = pc /\ v.inDate = req[r].inDate
        /\ v.session = req[r].session /\ v.subject = req[r].subject
        /\ r \in open => req[r].subject \in {req[r].session, Nobody}
    BY <1>3, AtWork
  <2>2. req' = [req EXCEPT ![r] = v]
    BY <1>3
  <2>. HIDE DEF v
  <2>. QED BY <1>3, <2>1, <2>2, HandledStep
<1>4. ASSUME req[r].pc \in Working, Keep, UNCHANGED open,
             req' = [req EXCEPT ![r].pc = "briefing", ![r].subject = Nobody]
      PROVE  IInv'
  <2>. DEFINE v == [[req[r] EXCEPT !.pc = "briefing"] EXCEPT !.subject = Nobody]
  <2>1. req[r] \in Handled
    BY <1>4, AtWork
  <2>2. v \in Handled /\ v.pc = "briefing" /\ v.subject = Nobody
    BY <2>1 DEF Handled, Working
  <2>3. req' = [req EXCEPT ![r] = v]
    BY <1>4 DEF IInv
  <2>. HIDE DEF v
  <2>. QED BY <1>4, <2>2, <2>3, HandledStep
<1>5. CASE Refuse(r) \/ Unavailable(r) \/ ReadLocal(r) \/ StreamCheck(r) \/ Disconnect(r)
  BY <1>2, <1>5 DEF Refuse, Unavailable, ReadLocal, StreamCheck, Disconnect
<1>6. CASE AwaitEstate(r) \/ Stream(r)
  BY <1>2, <1>3, <1>6 DEF AwaitEstate, Stream, Working, IInv
<1>7. CASE EstateOnly(r)
  BY <1>2, <1>4, <1>7 DEF EstateOnly, Working
<1>8. CASE CheckBefore(r)
  BY <1>2, <1>3, <1>8 DEF CheckBefore, Working, IInv
<1>9. CASE ReadOwner(r)
  <2>1. CASE /\ req' = [req EXCEPT ![r].pc = "read", ![r].inDate = req[r].subject \notin lapsed]
             /\ UNCHANGED open
    <3>. DEFINE v == [[req[r] EXCEPT !.pc = "read"] EXCEPT !.inDate = (req[r].subject \notin lapsed)]
    <3>1. req[r] \in Handled /\ (r \in open => req[r].subject \in {req[r].session, Nobody})
      BY <1>9, AtWork DEF ReadOwner, Working
    <3>2. /\ v \in Handled /\ v.pc = "read" /\ v.inDate = (req[r].subject \notin lapsed)
          /\ v.subject = req[r].subject /\ v.session = req[r].session
      BY <3>1 DEF Handled, Working
    <3>3. req' = [req EXCEPT ![r] = v]
      BY <2>1 DEF IInv
    <3>. HIDE DEF v
    <3>. QED BY <1>9, <2>1, <3>1, <3>2, <3>3, HandledStep DEF ReadOwner
  <2>2. CASE \E status : End(r, Failed(status))
    BY <1>2, <1>9, <2>2 DEF ReadOwner
  <2>. QED BY <1>9, <2>1, <2>2 DEF ReadOwner
<1>10. CASE CheckAfter(r)
  <2>1. req[r].inDate \/ req[r].subject \in lapsed
    BY <1>10, AtWork DEF CheckAfter, Working
  <2>. QED BY <1>2, <1>3, <1>10, <2>1 DEF CheckAfter, Working, IInv
<1>11. CASE Release(r)
  <2>1. req[r].inDate
    BY <1>11, AtWork DEF Release, Working
  <2>2. RequestOK(Answered(200, TRUE, req[r].inDate))
    BY <2>1, AnsweredOK
  <2>3. CASE End(r, Answered(200, TRUE, req[r].inDate))
    <3>1. PICK v : v = Answered(200, TRUE, req[r].inDate)
      OBVIOUS
    <3>2. RequestOK(v) /\ End(r, v)
      BY <2>2, <2>3, <3>1
    <3>3. Keep
      BY <1>11 DEF Release
    <3>. QED BY <1>1, <3>2, <3>3, EndOK
  <2>4. CASE req' = [req EXCEPT ![r].pc = "briefing"] /\ UNCHANGED open
    <3>1. req[r].pc = "ready" /\ Keep
      BY <1>11 DEF Release
    <3>2. req' = [req EXCEPT ![r] = [req[r] EXCEPT !.pc = "briefing"]]
      BY <2>4 DEF IInv
    <3>. QED BY <1>3, <2>1, <2>4, <3>1, <3>2 DEF Working
  <2>5. CASE req[r].row = Brief
    BY <1>11, <2>4, <2>5 DEF Release
  <2>6. CASE req[r].row # Brief
    BY <1>2, <1>11, <2>3, <2>6 DEF Release
  <2>. QED BY <2>5, <2>6
<1>12. CASE AnswerBrief(r)
  <2>1. req[r].subject # Nobody => req[r].inDate
    BY <1>12, AtWork DEF AnswerBrief, Working
  <2>2. RequestOK(Answered(200, req[r].subject # Nobody, req[r].inDate))
    <3>1. PICK owner \in BOOLEAN : owner = (req[r].subject # Nobody)
      OBVIOUS
    <3>2. PICK inDate : inDate = req[r].inDate
      OBVIOUS
    <3>3. owner => inDate
      BY <2>1, <3>1, <3>2
    <3>4. RequestOK(Answered(200, owner, inDate))
      BY <3>3, AnsweredOK
    <3>. QED BY <3>1, <3>2, <3>4
  <2>3. CASE End(r, Answered(200, req[r].subject # Nobody, req[r].inDate))
    <3>1. PICK v : v = Answered(200, req[r].subject # Nobody, req[r].inDate)
      OBVIOUS
    <3>2. RequestOK(v) /\ End(r, v)
      BY <2>2, <2>3, <3>1
    <3>3. Keep
      BY <1>12 DEF AnswerBrief
    <3>. QED BY <1>1, <3>2, <3>3, EndOK
  <2>. QED BY <1>2, <1>12, <2>3 DEF AnswerBrief
<1>. QED BY <1>5, <1>6, <1>7, <1>8, <1>9, <1>10, <1>11, <1>12

-----------------------------------------------------------------------------

\* The strengthened invariant: what was current at the read and is current at the check
\* after it was so in between, because what lapses stays lapsed.
THEOREM Invariance == Spec => []IInv
<1>1. Init => IInv
  BY DEF Init, IInv, RequestOK
<1>2. IInv /\ [Next]_vars => IInv'
  <2>. SUFFICES ASSUME IInv, [Next]_vars PROVE IInv'
    OBVIOUS
  <2>1. ASSUME NEW s \in Subjects, SignIn(s) \/ Discard(s) PROVE IInv'
    BY <2>1 DEF SignIn, Discard, IInv, RequestOK
  <2>2. ASSUME NEW s \in Subjects, Lapse(s) PROVE IInv'
    <3>1. \A v : RequestOK(v) => RequestOK(v)'
      BY <2>2 DEF Lapse, RequestOK
    <3>. QED BY <2>2, <3>1 DEF Lapse, IInv
  <2>3. CASE Restart
    BY <2>3 DEF Restart, IInv, RequestOK
  <2>4. CASE UNCHANGED vars
    BY <2>4 DEF vars, IInv, RequestOK
  <2>. QED BY <2>1, <2>2, <2>3, <2>4, AdmissionStep, HandlerStep DEF Next
<1>. QED BY <1>1, <1>2, PTL DEF Spec

\* The handlers of control_plane_api.py release owner data only when the authority was
\* current as the owner was read, and the wrapper leaves no verifier open.
THEOREM OwnerDataAuthorized == Spec => []OwnerDataIsAuthorized
<1>1. IInv => OwnerDataIsAuthorized
  <2>. SUFFICES ASSUME IInv PROVE ReadInDate /\ VerifiersClosed
    BY DEF OwnerDataIsAuthorized
  <2>1. ASSUME NEW r \in Requests, req[r].pc = "over", req[r].owner PROVE req[r].inDate
    <3>1. RequestOK(req[r])
      BY DEF IInv
    <3>. QED BY <2>1, <3>1, WhenOver
  <2>2. VerifiersClosed
    BY DEF IInv, VerifiersClosed, Handled, Working
  <2>. QED BY <2>1, <2>2 DEF ReadInDate
<1>. QED BY <1>1, Invariance, PTL

\* _resolution signs a session out only when its subject's entry lapsed, and request
\* gives a proof the revision of its own subject, whatever ids are reused.
THEOREM RevisionOwn == Spec => [](RevisionIsOwn /\ SignedOutIsLapsed)
<1>1. IInv => RevisionIsOwn /\ SignedOutIsLapsed
  <2>. SUFFICES ASSUME IInv PROVE RevisionIsOwn /\ SignedOutIsLapsed
    OBVIOUS
  <2>1. ASSUME NEW r \in Requests, "signedOut" \in DOMAIN req[r] PROVE req[r].signedOut \in lapsed
    <3>1. RequestOK(req[r])
      BY DEF IInv
    <3>. QED BY <2>1, <3>1, WhenOver
  <2>. QED BY <2>1 DEF IInv, RevisionIsOwn, SignedOutIsLapsed
<1>. QED BY <1>1, Invariance, PTL


-----------------------------------------------------------------------------
(* The proof table                                                           *)

ProofTable(p) == p \in Seq(Subjects) /\ Len(p) <= MaxProofs

\* A sequence less one of its elements.
LEMMA RemoveAtType ==
  ASSUME NEW S, NEW s \in Seq(S), NEW i \in 1 .. Len(s)
  PROVE  RemoveAt(s, i) \in Seq(S) /\ Len(RemoveAt(s, i)) = Len(s) - 1
<1>. DEFINE a == SubSeq(s, 1, i - 1)
            b == SubSeq(s, i + 1, Len(s))
<1>0. Len(s) \in Nat
  OBVIOUS
<1>1. a \in Seq(S) /\ Len(a) = i - 1
  <2>. i - 1 \in 1 .. Len(s) \/ i - 1 = 0
    BY <1>0
  <2>. QED BY <1>0, SubSeqProperties
<1>2. b \in Seq(S) /\ Len(b) = Len(s) - i
  BY <1>0, SubSeqProperties
<1>3. RemoveAt(s, i) = a \o b
  BY DEF RemoveAt
<1>. HIDE DEF a, b
<1>4. a \o b \in Seq(S) /\ Len(a \o b) = Len(a) + Len(b)
  BY <1>1, <1>2, ConcatProperties
<1>. QED BY <1>0, <1>1, <1>2, <1>3, <1>4

\* enroll keeps the table at its limit: the oldest proof makes room.
LEMMA EnrolledType ==
  ASSUME ProofTable(proofs), NEW s \in Subjects
  PROVE  ProofTable(Enrolled(s))
<1>. MaxProofs \in Nat \ {0} /\ proofs \in Seq(Subjects) /\ Len(proofs) <= MaxProofs
  BY MaxProofsAssumption DEF ProofTable
<1>0. Len(proofs) \in Nat
  OBVIOUS
<1>1. CASE Len(proofs) >= MaxProofs
  <2>. DEFINE t == Tail(proofs)
  <2>1. t \in Seq(Subjects) /\ Len(t) = Len(proofs) - 1
    BY <1>0, <1>1, HeadTailProperties
  <2>2. Enrolled(s) = Append(t, s)
    BY <1>1 DEF Enrolled
  <2>. HIDE DEF t
  <2>3. Append(t, s) \in Seq(Subjects) /\ Len(Append(t, s)) = Len(t) + 1
    BY <2>1, AppendProperties
  <2>. QED BY <1>0, <1>1, <2>1, <2>2, <2>3 DEF ProofTable
<1>2. CASE Len(proofs) < MaxProofs
  <2>1. Enrolled(s) = Append(proofs, s)
    BY <1>0, <1>2 DEF Enrolled
  <2>2. Append(proofs, s) \in Seq(Subjects) /\ Len(Append(proofs, s)) = Len(proofs) + 1
    BY AppendProperties
  <2>. QED BY <1>0, <1>2, <2>1, <2>2 DEF ProofTable
<1>. QED BY <1>0, <1>1, <1>2

\* enroll, discard and a restart are all that changes the table.
LEMMA TableStep ==
  ASSUME IInv, ProofTable(proofs), [Next]_vars
  PROVE  ProofTable(proofs')
<1>1. ASSUME NEW r \in Requests, Resolve(r) PROVE ProofTable(proofs')
  <2>. DEFINE s == req[r].session
  <2>1. s \in Subjects
    BY <1>1 DEF Resolve, IInv, RequestOK, At, Answered, SignedOut, Handled, Working
  <2>2. UNCHANGED proofs \/ proofs' \in ProofsFor(s)
    BY <1>1 DEF Resolve
  <2>. QED BY <2>1, <2>2, EnrolledType DEF ProofsFor
<1>2. ASSUME NEW s \in Subjects, SignIn(s) PROVE ProofTable(proofs')
  BY <1>2, EnrolledType DEF SignIn
<1>3. ASSUME NEW s \in Subjects, Discard(s) PROVE ProofTable(proofs')
  <2>1. PICK i \in DOMAIN proofs : proofs' = RemoveAt(proofs, i)
    BY <1>3 DEF Discard
  <2>2. proofs \in Seq(Subjects) /\ i \in 1..Len(proofs) /\ Len(proofs) \in Nat
    BY DEF ProofTable
  <2>3. RemoveAt(proofs, i) \in Seq(Subjects) /\ Len(RemoveAt(proofs, i)) = Len(proofs) - 1
    BY <2>2, RemoveAtType
  <2>. QED BY <2>1, <2>2, <2>3, MaxProofsAssumption DEF ProofTable
<1>4. CASE Restart
  BY <1>4, MaxProofsAssumption, EmptySeq DEF Restart, ProofTable
<1>5. CASE UNCHANGED proofs
  BY <1>5
<1>6. ASSUME NEW r \in Requests,
             \/ Deny(r) \/ AdmitUntyped(r) \/ AdmitTyped(r) \/ AwaitSession(r) \/ Refuse(r)
             \/ Unavailable(r) \/ ReadLocal(r) \/ AwaitEstate(r) \/ EstateOnly(r)
      PROVE  UNCHANGED proofs
  BY <1>6 DEF Deny, AdmitUntyped, AdmitTyped, AwaitSession, Refuse, Unavailable, ReadLocal,
              AwaitEstate, EstateOnly, Keep
<1>7. ASSUME NEW r \in Requests,
             \/ CheckBefore(r) \/ ReadOwner(r) \/ CheckAfter(r) \/ Release(r)
             \/ AnswerBrief(r) \/ Stream(r) \/ StreamCheck(r) \/ Disconnect(r)
      PROVE  UNCHANGED proofs
  BY <1>7 DEF CheckBefore, ReadOwner, CheckAfter, Release, AnswerBrief, Stream, StreamCheck,
              Disconnect, Keep
<1>8. ASSUME NEW s \in Subjects, Lapse(s) PROVE UNCHANGED proofs
  BY <1>8 DEF Lapse
<1>9. UNCHANGED vars => UNCHANGED proofs
  BY DEF vars
<1>. QED BY <1>1, <1>2, <1>3, <1>4, <1>5, <1>6, <1>7, <1>8, <1>9 DEF Next

\* The proof table of live_control_plane.py stays at its limit, and neither that limit,
\* nor the reuse of ids, nor a restart costs a session its proof or its revision.
THEOREM SessionsKeepProofs == Spec => []SessionsKeepTheirProof
<1>1. Init => ProofTable(proofs)
  BY MaxProofsAssumption, EmptySeq DEF Init, ProofTable
<1>2. IInv /\ ProofTable(proofs) /\ [Next]_vars => ProofTable(proofs)'
  BY TableStep
<1>3. Spec => []ProofTable(proofs)
  BY <1>1, <1>2, Invariance, PTL DEF Spec
<1>4. ProofTable(proofs) /\ RevisionIsOwn /\ SignedOutIsLapsed => SessionsKeepTheirProof
  BY DEF ProofTable, SessionsKeepTheirProof
<1>. QED BY <1>3, <1>4, RevisionOwn, PTL
=============================================================================
