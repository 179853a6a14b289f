--------------------------- MODULE AuthorityProofs ---------------------------
(***************************************************************************)
(* Proofs about the components MCAuthority composes with the protected reads:  *)
(* changes and their consent (ChangeControl), the capability state             *)
(* (CapabilityState) and sign-in (LoginTransactions), each for every value of   *)
(* its constants.  MCAuthority runs one of them at a time, so a step of one     *)
(* leaves the variables of the others alone.                                 *)
(***************************************************************************)
EXTENDS MCAuthority, FiniteSetTheorems, TLAPS

-----------------------------------------------------------------------------
(* ChangeControl                                                             *)

ActFields ==
  {"kind", "token", "pdp", "session", "stored", "judged", "head", "quiet", "pc", "answer"}
Judging == {"triggering", "judged", "headed"}
Admitted == {"allowed", "consenting", "acting", "appended"} \cup Judging
Words == Change!Votes \cup {"consent", "passed", "failed", "arm", "schedule", "unschedule",
                           "deploy", "verify"}
ChangeEvents == [by : Acts \cup {"other"}, kind : Words, applied : BOOLEAN]

\* A request that was let in passed the gate and has the session its kind asks for.
ActOK(v) ==
  \/ v.pc = "idle"
  \/ /\ DOMAIN v = ActFields
     /\ \/ v.pc = "over"
        \/ /\ v.pc \in Admitted
           /\ v.token \in BOOLEAN /\ v.pdp \in BOOLEAN /\ v.session \in BOOLEAN
           /\ Change!Allowed(v.token, v.pdp) /\ ~Change!Unproved(v.kind, v.session)
           /\ v.pc \in Judging => v.kind = "validate"

IsConsent(e, r) == e = Change!Entry(r, "consent", TRUE)

\* What ActsAreAnswerable says of one event.
AnswerableEvent(i) ==
  log[i].by \in Acts =>
    /\ gate.secret /\ gate.mode # "pdp" => act[log[i].by].token
    /\ gate.set /\ gate.mode # "token" => act[log[i].by].pdp
    /\ gate.set /\ gate.mode # "pdp" => gate.secret
    /\ log[i].kind \in Change!Votes => act[log[i].by].session
    /\ log[i].kind \in {"consent", "verify"} \/ ~act[log[i].by].stored
       \/ \E j \in 1..(i - 1) : IsConsent(log[j], log[i].by)

HasConsent(r) == \E j \in DOMAIN log : IsConsent(log[j], r)

\* The request that is about to write has its consent in the log.
ConsentIsFirst ==
  \A r \in Acts :
    act[r].pc \in {"acting"} \cup Judging
      /\ act[r].kind \notin {"verify", "queue"} /\ act[r].stored
    => HasConsent(r)

ChangeInv ==
  /\ gate \in Change!Gates /\ log \in Seq(ChangeEvents) /\ DOMAIN act = Acts
  /\ \A r \in Acts : ActOK(act[r])
  /\ \A r \in Acts : act[r].pc = "idle" => \A i \in DOMAIN log : log[i].by # r
  /\ ConsentIsFirst
  /\ Change!ActsAreAnswerable

\* What a request may not change of itself once it was asked.
SameAct(v, w) ==
  /\ v.kind = w.kind /\ v.token = w.token /\ v.pdp = w.pdp /\ v.session = w.session
  /\ v.stored => w.stored

-----------------------------------------------------------------------------
(* Steps that write nothing, and steps that append one event                  *)

\* A step that writes nothing keeps the invariant.
LEMMA MoveOK ==
  ASSUME ChangeInv, NEW r \in Acts, NEW v, ActOK(v), SameAct(v, act[r]),
         act' = [act EXCEPT ![r] = v], UNCHANGED <<gate, log>>,
         v.pc # "idle", act[r].pc # "idle",
         v.pc \in {"acting"} \cup Judging /\ v.kind \notin {"verify", "queue"} /\ v.stored
           => HasConsent(r)
  PROVE  ChangeInv'
<1>1. \A q \in Acts : act'[q] = IF q = r THEN v ELSE act[q]
  BY DEF ChangeInv
<1>2. \A w : ActOK(w) => ActOK(w)'
  BY DEF ActOK, Change!Allowed, Change!Open, Change!TokenOk
<1>3. /\ \A q \in Acts : ActOK(act[q])'
      /\ \A q \in Acts : act'[q].pc = "idle" => \A i \in DOMAIN log' : log'[i].by # q
  BY <1>1, <1>2 DEF ChangeInv
<1>4. ConsentIsFirst'
  BY <1>1 DEF ChangeInv, ConsentIsFirst, HasConsent
<1>5. Change!ActsAreAnswerable'
  <2>1. \A i \in DOMAIN log : AnswerableEvent(i)
    BY DEF ChangeInv, Change!ActsAreAnswerable, AnswerableEvent, IsConsent
  <2>2. \A i \in DOMAIN log' : AnswerableEvent(i)'
    BY <1>1, <2>1 DEF AnswerableEvent, SameAct
  <2>. QED BY <2>2 DEF Change!ActsAreAnswerable, AnswerableEvent, IsConsent
<1>. QED BY <1>3, <1>4, <1>5 DEF ChangeInv

\* The log as it is after an event of a request was written behind its first n events.
Written(n, r, kind, applied) ==
  /\ n \in Nat /\ log' \in Seq(ChangeEvents)
  /\ DOMAIN log = 1..n /\ DOMAIN log' = 1..(n + 1)
  /\ log'[n + 1] = Change!Entry(r, kind, applied)
  /\ \A i \in 1..n : log'[i] = log[i]

\* Append writes behind all that is there.
LEMMA AppendIsWritten ==
  ASSUME ChangeInv, NEW r \in Acts, NEW kind \in Words, NEW applied \in BOOLEAN,
         log' = Append(log, Change!Entry(r, kind, applied))
  PROVE  Written(Len(log), r, kind, applied)
<1>1. Change!Entry(r, kind, applied) \in ChangeEvents /\ log \in Seq(ChangeEvents)
  BY DEF ChangeInv, Change!Entry, ChangeEvents
<1>. QED BY <1>1 DEF Written

\* A step that writes one event keeps the invariant, if the event is answerable.
LEMMA WrittenOK ==
  ASSUME ChangeInv, NEW r \in Acts, NEW v, ActOK(v), SameAct(v, act[r]),
         act' = [act EXCEPT ![r] = v], UNCHANGED gate,
         v.pc # "idle", act[r].pc \in Admitted,
         NEW kind \in Words, NEW applied \in BOOLEAN, NEW n, Written(n, r, kind, applied),
         kind \in Change!Votes => v.session,
         kind \in {"consent", "verify"} \/ ~v.stored \/ HasConsent(r),
         v.pc \in {"acting"} \cup Judging /\ v.kind \notin {"verify", "queue"} /\ v.stored
           => HasConsent(r) \/ (kind = "consent" /\ applied)
  PROVE  ChangeInv'
<1>1. \A q \in Acts : act'[q] = IF q = r THEN v ELSE act[q]
  BY DEF ChangeInv
<1>2. /\ log'[n + 1].by = r /\ log'[n + 1].kind = kind
      /\ n \in Nat /\ DOMAIN log = 1..n /\ DOMAIN log' = 1..(n + 1)
  BY DEF Written, Change!Entry
<1>3. \A w : ActOK(w) => ActOK(w)'
  BY DEF ActOK, Change!Allowed, Change!Open, Change!TokenOk
<1>4. \A q \in Acts : ActOK(act[q])'
  BY <1>1, <1>3 DEF ChangeInv
<1>5. \A q \in Acts : act'[q].pc = "idle" => \A i \in DOMAIN log' : log'[i].by # q
  <2>. SUFFICES ASSUME NEW q \in Acts, act'[q].pc = "idle", NEW i \in 1..(n + 1)
                PROVE  log'[i].by # q
    BY <1>2
  <2>1. q # r /\ act[q].pc = "idle"
    BY <1>1
  <2>2. CASE i = n + 1
    BY <1>2, <2>1, <2>2
  <2>3. CASE i \in 1..n
    BY <1>2, <2>1, <2>3 DEF ChangeInv, Written
  <2>. QED BY <1>2, <2>2, <2>3
<1>6. ConsentIsFirst'
  <2>1. \A q \in Acts : HasConsent(q) => HasConsent(q)'
    BY DEF HasConsent, Written
  <2>2. kind = "consent" /\ applied => HasConsent(r)'
    BY <1>2 DEF HasConsent, Written, IsConsent, Change!Entry
  <2>. QED BY <1>1, <2>1, <2>2 DEF ChangeInv, ConsentIsFirst
<1>7. Change!ActsAreAnswerable'
  <2>. SUFFICES ASSUME NEW i \in 1..(n + 1) PROVE AnswerableEvent(i)'
    BY <1>2 DEF Change!ActsAreAnswerable, AnswerableEvent, IsConsent
  <2>1. CASE i \in 1..n
    <3>1. log'[i] = log[i] /\ \A j \in 1..(i - 1) : log'[j] = log[j]
      BY <2>1 DEF Written
    <3>2. AnswerableEvent(i)
      BY <1>2, <2>1 DEF ChangeInv, Change!ActsAreAnswerable, AnswerableEvent, IsConsent
    <3>. QED BY <1>1, <3>1, <3>2 DEF AnswerableEvent, SameAct
  <2>2. CASE i = n + 1
    <3>1. HasConsent(r) => \E j \in 1..(i - 1) : IsConsent(log'[j], r)
      BY <1>2, <2>2 DEF HasConsent, Written
    <3>2. Change!Allowed(v.token, v.pdp) /\ gate \in Change!Gates
      BY DEF ChangeInv, ActOK, SameAct, Admitted, Judging
    <3>3. /\ gate.secret /\ gate.mode # "pdp" => v.token
          /\ gate.set /\ gate.mode # "token" => v.pdp
          /\ gate.set /\ gate.mode # "pdp" => gate.secret
      BY <3>2 DEF Change!Allowed, Change!Open, Change!TokenOk, Change!Gates
    <3>. QED BY <1>1, <1>2, <2>2, <3>1, <3>3 DEF AnswerableEvent
  <2>. QED BY <1>2, <2>1, <2>2
<1>. QED BY <1>4, <1>5, <1>6, <1>7 DEF ChangeInv, Written

\* An append adds one entry, taken by the fold or conflicted; a consent is taken.
LEMMA AppendedIs ==
  ASSUME NEW r, NEW kind, Change!Appended(r, kind)
  PROVE  /\ \E applied \in BOOLEAN : log' = Append(log, Change!Entry(r, kind, applied))
         /\ kind = "consent" => log' = Append(log, Change!Entry(r, kind, TRUE))
BY DEF Change!Appended, Change!Folded

\* A request that was let in, with its step, and with its answer.
LEMMA ActAtWork ==
  ASSUME ChangeInv, NEW r \in Acts, act[r].pc \in Admitted
  PROVE  /\ ActOK(act[r]) /\ DOMAIN act[r] = ActFields
         /\ ~Change!Unproved(act[r].kind, act[r].session)
BY DEF ChangeInv, ActOK, Admitted, Judging

\* The value of a request that only goes on.
LEMMA MovedIs ==
  ASSUME ChangeInv, NEW r \in Acts, act[r].pc \in Admitted,
         NEW pc \in Admitted, Change!Move(r, pc), pc \in Judging => act[r].kind = "validate"
  PROVE  \E v : /\ act' = [act EXCEPT ![r] = v]
                /\ ActOK(v) /\ SameAct(v, act[r]) /\ v.pc = pc /\ v.stored = act[r].stored
<1>. DEFINE v == [act[r] EXCEPT !.pc = pc]
<1>1. /\ v.pc = pc /\ DOMAIN v = ActFields /\ SameAct(v, act[r]) /\ v.stored = act[r].stored
  BY ActAtWork DEF SameAct, ActFields
<1>2. ActOK(v)
  BY <1>1, ActAtWork DEF ActOK, SameAct, Admitted, Judging
<1>3. act' = [act EXCEPT ![r] = v]
  BY DEF Change!Move
<1>. QED BY <1>1, <1>2, <1>3

\* The value of a request that is answered.
LEMMA AnsweredIs ==
  ASSUME ChangeInv, NEW r \in Acts, act[r].pc \in Admitted, NEW answer, Change!Answer(r, answer)
  PROVE  \E v : /\ act' = [act EXCEPT ![r] = v]
                /\ ActOK(v) /\ SameAct(v, act[r]) /\ v.pc = "over" /\ v.stored = act[r].stored
<1>. DEFINE v == [[act[r] EXCEPT !.pc = "over"] EXCEPT !.answer = answer]
<1>1. /\ v.pc = "over" /\ DOMAIN v = ActFields /\ SameAct(v, act[r]) /\ v.stored = act[r].stored
  BY ActAtWork DEF SameAct, ActFields
<1>2. ActOK(v)
  BY <1>1 DEF ActOK
<1>3. act' = [act EXCEPT ![r] = v]
  BY DEF Change!Answer
<1>. QED BY <1>1, <1>2, <1>3

\* A request that goes on, writes nothing, and knows more.
LEMMA MoveStep ==
  ASSUME ChangeInv, NEW r \in Acts, act[r].pc \in Admitted, UNCHANGED <<gate, log>>,
         NEW v, act' = [act EXCEPT ![r] = v],
         ActOK(v), SameAct(v, act[r]), v.stored = act[r].stored, v.pc # "idle",
         v.pc \in {"acting"} \cup Judging =>
           act[r].pc \in {"acting"} \cup Judging \/ act[r].kind \in {"verify", "queue"}
  PROVE  ChangeInv'
<1>1. act[r].pc # "idle"
  BY DEF Admitted, Judging
<1>2. v.pc \in {"acting"} \cup Judging /\ v.kind \notin {"verify", "queue"} /\ v.stored
        => HasConsent(r)
  BY DEF ChangeInv, ConsentIsFirst, SameAct
<1>. QED BY <1>1, <1>2, MoveOK

\* An answer that writes nothing.
LEMMA AnswerStep ==
  ASSUME ChangeInv, NEW r \in Acts, act[r].pc \in Admitted, NEW answer, Change!Answer(r, answer),
         UNCHANGED <<gate, log>>
  PROVE  ChangeInv'
<1>1. PICK v : /\ act' = [act EXCEPT ![r] = v]
               /\ ActOK(v) /\ SameAct(v, act[r]) /\ v.pc = "over" /\ v.stored = act[r].stored
  BY AnsweredIs
<1>. QED BY <1>1, MoveStep DEF Judging

\* A request that writes its act behind its consent.
LEMMA ActStep ==
  ASSUME ChangeInv, NEW r \in Acts, act[r].pc \in {"acting", "headed"}, UNCHANGED gate,
         act[r].kind # "queue",
         NEW kind \in Words, Change!Appended(r, kind),
         act[r].kind = "verify" => kind = "verify",
         kind \in Change!Votes => act[r].kind = "vote",
         NEW v, act' = [act EXCEPT ![r] = v],
         ActOK(v), SameAct(v, act[r]), v.stored = act[r].stored, v.pc \in {"over", "appended"}
  PROVE  ChangeInv'
<1>1. PICK applied \in BOOLEAN : log' = Append(log, Change!Entry(r, kind, applied))
  BY AppendedIs
<1>2. Written(Len(log), r, kind, applied)
  BY <1>1, AppendIsWritten
<1>3. act[r].pc \in Admitted
  BY DEF Admitted, Judging
<1>4. kind \in Change!Votes => v.session
  BY <1>3, ActAtWork DEF Change!Unproved, SameAct
<1>5. kind \in {"consent", "verify"} \/ ~v.stored \/ HasConsent(r)
  BY DEF ChangeInv, ConsentIsFirst, Judging
<1>. HIDE DEF Written
<1>. QED BY <1>2, <1>3, <1>4, <1>5, WrittenOK DEF Judging

\* The gate: what lets a request in is what ActsAreAnswerable asks of its events.
LEMMA AskOK ==
  ASSUME ChangeInv, NEW r \in Acts, Change!Ask(r)
  PROVE  ChangeInv'
<1>1. PICK kind \in Change!Kinds, token \in BOOLEAN, pdp \in BOOLEAN, session \in BOOLEAN,
           found \in BOOLEAN :
        LET let == ~Change!Unproved(kind, session) /\ Change!Allowed(token, pdp) /\ found IN
        act' = [act EXCEPT ![r] =
          [kind |-> kind, token |-> token, pdp |-> pdp, session |-> session,
           stored |-> TRUE, judged |-> "none", head |-> 0, quiet |-> TRUE,
           pc |-> IF ~let THEN "over"
                  ELSE IF kind \in {"vote", "verify", "draft", "card"} THEN "allowed"
                  ELSE "consenting",
           answer |-> IF let THEN "" ELSE "refused"]]
  BY DEF Change!Ask
<1>. DEFINE v == act'[r]
<1>2. /\ DOMAIN v = ActFields
      /\ v.token = token /\ v.pdp = pdp /\ v.session = session /\ v.kind = kind
      /\ v.pc = "over" \/ (/\ v.pc \in {"allowed", "consenting"}
                           /\ ~Change!Unproved(kind, session) /\ Change!Allowed(token, pdp))
  BY <1>1 DEF ChangeInv, ActFields
<1>3. /\ \A q \in Acts : q # r => act'[q] = act[q]
      /\ DOMAIN act' = Acts
  BY <1>1 DEF ChangeInv
<1>. HIDE DEF v
<1>4. ActOK(v)
  BY <1>2 DEF ActOK, Admitted, Judging
<1>5. UNCHANGED <<gate, log>> /\ act[r].pc = "idle" /\ v = act'[r]
  BY DEF Change!Ask, v
<1>6. \A w : ActOK(w) => ActOK(w)'
  BY <1>5 DEF ActOK, Change!Allowed, Change!Open, Change!TokenOk
<1>7. \A q \in Acts : ActOK(act[q])'
  BY <1>3, <1>4, <1>5, <1>6 DEF ChangeInv
<1>8. \A q \in Acts : act'[q].pc = "idle" => \A i \in DOMAIN log' : log'[i].by # q
  BY <1>3, <1>5 DEF ChangeInv
<1>9. ConsentIsFirst'
  BY <1>2, <1>3, <1>5 DEF ChangeInv, ConsentIsFirst, HasConsent, Judging
<1>10. Change!ActsAreAnswerable'
  <2>1. \A i \in DOMAIN log : AnswerableEvent(i) /\ log[i].by # r
    BY <1>5 DEF ChangeInv, Change!ActsAreAnswerable, AnswerableEvent, IsConsent
  <2>2. \A i \in DOMAIN log' : AnswerableEvent(i)'
    BY <1>3, <1>5, <2>1 DEF AnswerableEvent
  <2>. QED BY <2>2 DEF Change!ActsAreAnswerable, AnswerableEvent, IsConsent
<1>. QED BY <1>3, <1>5, <1>7, <1>8, <1>9, <1>10 DEF ChangeInv

\* The consent event, or the store that refuses it.
LEMMA ConsentOK ==
  ASSUME ChangeInv, NEW r \in Acts, Change!Consent(r)
  PROVE  ChangeInv'
<1>1. act[r].pc = "consenting" /\ act[r].pc \in Admitted /\ UNCHANGED gate
  BY DEF Change!Consent, Admitted
<1>2. CASE Change!Appended(r, "consent") /\ Change!Move(r, "acting")
  <2>1. PICK v : /\ act' = [act EXCEPT ![r] = v]
                 /\ ActOK(v) /\ SameAct(v, act[r]) /\ v.pc = "acting" /\ v.stored = act[r].stored
    BY <1>1, <1>2, MovedIs DEF Admitted, Judging
  <2>2. log' = Append(log, Change!Entry(r, "consent", TRUE))
    BY <1>2, AppendedIs
  <2>3. PICK applied \in BOOLEAN : applied = TRUE
    OBVIOUS
  <2>4. Written(Len(log), r, "consent", applied)
    BY <2>2, <2>3, AppendIsWritten DEF Change!Votes, Words
  <2>. HIDE DEF Written
  <2>. QED BY <1>1, <2>1, <2>3, <2>4, WrittenOK DEF Change!Votes, Words
<1>3. CASE act[r].kind = "queue" /\ Change!Move(r, "acting") /\ UNCHANGED log
  <2>1. PICK v : /\ act' = [act EXCEPT ![r] = v]
                 /\ ActOK(v) /\ SameAct(v, act[r]) /\ v.pc = "acting" /\ v.stored = act[r].stored
    BY <1>1, <1>3, MovedIs DEF Admitted, Judging
  <2>. QED BY <1>1, <1>3, <2>1, MoveStep
<1>4. CASE act' = [act EXCEPT ![r].stored = FALSE, ![r].pc = "acting"] /\ UNCHANGED log
  <2>. DEFINE v == [[act[r] EXCEPT !.stored = FALSE] EXCEPT !.pc = "acting"]
  <2>1. v.pc = "acting" /\ DOMAIN v = ActFields /\ SameAct(v, act[r]) /\ v.stored = FALSE
    BY <1>1, ActAtWork DEF SameAct, ActFields
  <2>2. ActOK(v)
    BY <1>1, <2>1, ActAtWork DEF ActOK, SameAct, Admitted, Judging
  <2>3. act' = [act EXCEPT ![r] = v]
    BY <1>4 DEF ChangeInv
  <2>. HIDE DEF v
  <2>. QED BY <1>1, <1>4, <2>1, <2>2, <2>3, MoveOK DEF Judging
<1>. QED BY <1>2, <1>3, <1>4 DEF Change!Consent

-----------------------------------------------------------------------------
(* The acts                                                                  *)

\* The acts on a change, and the answers without one.
LEMMA ActionOK ==
  ASSUME ChangeInv, NEW r \in Acts,
         \/ Change!LookAt(r) \/ Change!ActElsewhere(r) \/ Change!Vote(r) \/ Change!Arm(r)
         \/ Change!RefuseSchedule(r)
         \/ Change!AppendTransition(r) \/ Change!Refold(r) \/ Change!Unschedule(r)
         \/ Change!NothingPrepared(r)
  PROVE  ChangeInv'
<1>1. "allowed" \in Admitted /\ "acting" \in Admitted /\ "appended" \in Admitted
  BY DEF Admitted
<1>2. CASE Change!LookAt(r)
  <2>1. act[r].pc \in Admitted /\ UNCHANGED <<gate, log>>
    BY <1>1, <1>2 DEF Change!LookAt
  <2>2. ASSUME NEW pc \in {"consenting", "acting"}, Change!Move(r, pc),
               pc = "acting" => act[r].kind = "verify"
        PROVE  ChangeInv'
    <3>1. PICK v : /\ act' = [act EXCEPT ![r] = v]
                   /\ ActOK(v) /\ SameAct(v, act[r]) /\ v.pc = pc /\ v.stored = act[r].stored
      BY <2>1, <2>2, MovedIs DEF Admitted, Judging
    <3>. QED BY <2>1, <2>2, <3>1, MoveStep DEF Judging
  <2>. QED BY <1>2, <2>1, <2>2, AnswerStep DEF Change!LookAt
<1>3. CASE Change!ActElsewhere(r) \/ Change!RefuseSchedule(r) \/ Change!Refold(r) \/
        Change!NothingPrepared(r)
  <2>1. act[r].pc \in Admitted /\ UNCHANGED <<gate, log>>
    BY <1>1, <1>3
    DEF Change!ActElsewhere, Change!RefuseSchedule, Change!Refold, Change!NothingPrepared
  <2>2. \E answer : Change!Answer(r, answer)
    BY <1>3 DEF Change!ActElsewhere, Change!RefuseSchedule, Change!Refold, Change!NothingPrepared
  <2>. QED BY <2>1, <2>2, AnswerStep
<1>4. ASSUME NEW kind \in Words, Change!Appended(r, kind), Change!Answer(r, "done"),
             UNCHANGED gate,
             act[r].pc = "acting", act[r].kind \notin {"queue", "verify"},
             kind \in Change!Votes => act[r].kind = "vote"
      PROVE  ChangeInv'
  <2>1. PICK v : /\ act' = [act EXCEPT ![r] = v]
                 /\ ActOK(v) /\ SameAct(v, act[r]) /\ v.pc = "over" /\ v.stored = act[r].stored
    BY <1>1, <1>4, AnsweredIs
  <2>. QED BY <1>4, <2>1, ActStep
<1>5. CASE Change!Vote(r)
  BY <1>4, <1>5 DEF Change!Vote, Change!Votes, Words
<1>6. CASE Change!Arm(r) \/ Change!Unschedule(r)
  BY <1>4, <1>6 DEF Change!Arm, Change!Unschedule, Change!Votes, Words
<1>7. CASE Change!AppendTransition(r)
  <2>1. PICK v : /\ act' = [act EXCEPT ![r] = v]
                 /\ ActOK(v) /\ SameAct(v, act[r]) /\ v.pc = "appended"
                 /\ v.stored = act[r].stored
    BY <1>1, <1>7, MovedIs DEF Change!AppendTransition, Judging
  <2>2. /\ act[r].pc = "acting" /\ UNCHANGED gate /\ act[r].kind \in {"schedule", "verify"}
        /\ Change!Appended(r, act[r].kind)
    BY <1>7 DEF Change!AppendTransition
  <2>. QED BY <2>1, <2>2, ActStep DEF Change!Votes, Words
<1>. QED BY <1>2, <1>3, <1>5, <1>6, <1>7

\* The steps of validate.
LEMMA ValidateOK ==
  ASSUME ChangeInv, NEW r \in Acts,
         Change!ReadChecks(r) \/ Change!TriggerAndReadAgain(r) \/ Change!ReadHead(r) \/
           Change!AppendVerdict(r)
  PROVE  ChangeInv'
<1>1. act[r].pc \in {"acting"} \cup Judging /\ act[r].pc \in Admitted /\ UNCHANGED gate
  BY DEF Change!ReadChecks, Change!TriggerAndReadAgain, Change!ReadHead, Change!AppendVerdict,
         Judging, Admitted
<1>2. act[r].kind = "validate"
  BY <1>1 DEF Change!ReadChecks, Change!TriggerAndReadAgain, Change!ReadHead,
              Change!AppendVerdict, ChangeInv, ActOK,
              Admitted, Judging
<1>3. ASSUME NEW v, DOMAIN v = ActFields, v.pc \in Judging, SameAct(v, act[r]),
             v.stored = act[r].stored, act' = [act EXCEPT ![r] = v], UNCHANGED log
      PROVE  ChangeInv'
  <2>1. ActOK(v)
    BY <1>1, <1>2, <1>3, ActAtWork DEF ActOK, SameAct, Admitted, Judging
  <2>. QED BY <1>1, <1>3, <2>1, MoveStep DEF Judging
<1>4. ASSUME NEW seen, NEW pc \in Judging, Change!Judged(r, seen, pc), UNCHANGED log
      PROVE ChangeInv'
  <2>. DEFINE v == [[act[r] EXCEPT !.judged = seen] EXCEPT !.pc = pc]
  <2>1. v.pc = pc /\ DOMAIN v = ActFields /\ SameAct(v, act[r]) /\ v.stored = act[r].stored
    BY <1>1, ActAtWork DEF SameAct, ActFields
  <2>2. act' = [act EXCEPT ![r] = v]
    BY <1>4 DEF Change!Judged, ChangeInv
  <2>. HIDE DEF v
  <2>. QED BY <1>3, <1>4, <2>1, <2>2
<1>5. CASE Change!ReadChecks(r) \/ Change!TriggerAndReadAgain(r)
  BY <1>4, <1>5 DEF Change!ReadChecks, Change!TriggerAndReadAgain, Judging
<1>6. CASE Change!ReadHead(r)
  <2>. DEFINE v(head) == [[act[r] EXCEPT !.head = head] EXCEPT !.pc = "headed"]
              w(head) == [v(head) EXCEPT !.quiet = FALSE]
  <2>1. \A head : /\ v(head).pc = "headed" /\ DOMAIN v(head) = ActFields
                  /\ SameAct(v(head), act[r]) /\ v(head).stored = act[r].stored
    BY <1>1, ActAtWork DEF SameAct, ActFields
  <2>2. \A head : /\ w(head).pc = "headed" /\ DOMAIN w(head) = ActFields
                  /\ SameAct(w(head), act[r]) /\ w(head).stored = act[r].stored
    BY <1>1, ActAtWork DEF SameAct, ActFields
  <2>3. \E head : act' = [act EXCEPT ![r] = v(head)] \/ act' = [act EXCEPT ![r] = w(head)]
    BY <1>6 DEF Change!ReadHead, ChangeInv
  <2>. HIDE DEF v, w
  <2>. QED BY <1>3, <1>6, <2>1, <2>2, <2>3 DEF Change!ReadHead, Judging
<1>7. CASE Change!AppendVerdict(r)
  <2>1. PICK v : /\ act' = [act EXCEPT ![r] = v]
                 /\ ActOK(v) /\ SameAct(v, act[r]) /\ v.pc = "over" /\ v.stored = act[r].stored
    BY <1>1, <1>7, AnsweredIs DEF Change!AppendVerdict
  <2>2. PICK kind \in {"passed", "failed"} : Change!Appended(r, kind)
    BY <1>7 DEF Change!AppendVerdict
  <2>3. act[r].pc = "headed"
    BY <1>7 DEF Change!AppendVerdict
  <2>. QED BY <1>1, <1>2, <2>1, <2>2, <2>3, ActStep DEF Change!Votes, Words
<1>. QED BY <1>5, <1>6, <1>7

-----------------------------------------------------------------------------
(* What others do                                                            *)

\* A push only makes requests unquiet.
LEMMA PushOK ==
  ASSUME ChangeInv, Change!Push
  PROVE  ChangeInv'
<1>1. /\ UNCHANGED <<gate, log>> /\ DOMAIN act' = Acts
      /\ \A q \in Acts :
           act'[q] = IF act[q].pc \in {"triggering", "judged"}
                     THEN [act[q] EXCEPT !.quiet = FALSE]
                     ELSE act[q]
  BY DEF Change!Push
<1>2. \A q \in Acts :
        /\ act'[q].pc = act[q].pc /\ act'[q].kind = act[q].kind
        /\ act'[q].token = act[q].token /\ act'[q].pdp = act[q].pdp
        /\ act'[q].session = act[q].session /\ act'[q].stored = act[q].stored
        /\ DOMAIN act'[q] = DOMAIN act[q]
  <2>. SUFFICES ASSUME NEW q \in Acts, act'[q] = [act[q] EXCEPT !.quiet = FALSE],
                       DOMAIN act[q] = ActFields
                PROVE  /\ act'[q].pc = act[q].pc /\ act'[q].kind = act[q].kind
                       /\ act'[q].token = act[q].token /\ act'[q].pdp = act[q].pdp
                       /\ act'[q].session = act[q].session /\ act'[q].stored = act[q].stored
                       /\ DOMAIN act'[q] = DOMAIN act[q]
    BY <1>1, ActAtWork DEF Admitted, Judging
  <2>. QED BY DEF ActFields
<1>3. \A q \in Acts : ActOK(act[q])'
  BY <1>1, <1>2 DEF ChangeInv, ActOK, Change!Allowed, Change!Open, Change!TokenOk
<1>4. ConsentIsFirst'
  BY <1>1, <1>2 DEF ChangeInv, ConsentIsFirst, HasConsent
<1>5. Change!ActsAreAnswerable'
  <2>1. \A i \in DOMAIN log : AnswerableEvent(i)
    BY DEF ChangeInv, Change!ActsAreAnswerable, AnswerableEvent, IsConsent
  <2>2. \A i \in DOMAIN log' : AnswerableEvent(i)'
    BY <1>1, <1>2, <2>1 DEF AnswerableEvent
  <2>. QED BY <2>2 DEF Change!ActsAreAnswerable, AnswerableEvent, IsConsent
<1>. QED BY <1>1, <1>2, <1>3, <1>4, <1>5 DEF ChangeInv

\* Events of others are answered for by no request.
LEMMA OtherWriterOK ==
  ASSUME ChangeInv, Change!OtherWriter, "other" \notin Acts
  PROVE  ChangeInv'
<1>1. PICK kind \in Words : Change!Appended("other", kind)
  BY DEF Change!OtherWriter, Change!Votes, Words
<1>2. PICK applied \in BOOLEAN : log' = Append(log, Change!Entry("other", kind, applied))
  BY <1>1, AppendedIs
<1>3. UNCHANGED <<gate, act>>
  BY DEF Change!OtherWriter
<1>. DEFINE n == Len(log)
<1>4. /\ n \in Nat /\ DOMAIN log = 1..n /\ log' \in Seq(ChangeEvents) /\ DOMAIN log' = 1..(n + 1)
      /\ log'[n + 1].by = "other" /\ \A i \in 1..n : log'[i] = log[i]
  BY <1>2 DEF ChangeInv, Change!Entry, ChangeEvents
<1>. HIDE DEF n
<1>5. \A q \in Acts : HasConsent(q) => HasConsent(q)'
  BY <1>4 DEF HasConsent
<1>6. ConsentIsFirst'
  BY <1>3, <1>5 DEF ChangeInv, ConsentIsFirst
<1>7. Change!ActsAreAnswerable'
  <2>1. \A i \in 1..n : AnswerableEvent(i)
    BY <1>4 DEF ChangeInv, Change!ActsAreAnswerable, AnswerableEvent, IsConsent
  <2>2. \A i \in 1..(n + 1) : AnswerableEvent(i)'
    <3>. SUFFICES ASSUME NEW i \in 1..(n + 1), log'[i].by \in Acts PROVE AnswerableEvent(i)'
      BY DEF AnswerableEvent
    <3>1. i \in 1..n
      BY <1>4
    <3>2. \A j \in 1..(i - 1) : log'[j] = log[j]
      BY <1>4, <3>1
    <3>. QED BY <1>3, <1>4, <2>1, <3>1, <3>2 DEF AnswerableEvent
  <2>. QED BY <1>4, <2>2 DEF Change!ActsAreAnswerable, AnswerableEvent, IsConsent
<1>8. \A q \in Acts : act'[q].pc = "idle" => \A i \in DOMAIN log' : log'[i].by # q
  <2>. SUFFICES ASSUME NEW q \in Acts, act'[q].pc = "idle", NEW i \in 1..(n + 1)
                PROVE  log'[i].by # q
    BY <1>4
  <2>. QED BY <1>3, <1>4 DEF ChangeInv
<1>. QED BY <1>3, <1>4, <1>6, <1>7, <1>8
         DEF ChangeInv, ActOK, Change!Allowed, Change!Open, Change!TokenOk

-----------------------------------------------------------------------------

\* The strengthened invariant: what let a request in stays with it, and its consent is
\* in the log from the moment it may act.
THEOREM ChangeInvariance == MCSpec => []ChangeInv
<1>1. MCInit => ChangeInv
  BY DEF MCInit, Change!Init, ChangeInv, ActOK, Change!At, ConsentIsFirst,
         Change!ActsAreAnswerable, Judging
<1>2. ChangeInv /\ [MCNext]_MCvars => ChangeInv'
  <2>. SUFFICES ASSUME ChangeInv, [MCNext]_MCvars PROVE ChangeInv'
    OBVIOUS
  <2>1. CASE UNCHANGED <<gate, log, act>>
    <3>1. \A q \in Acts : ActOK(act[q])'
      BY <2>1 DEF ChangeInv, ActOK, Change!Allowed, Change!Open, Change!TokenOk
    <3>2. ConsentIsFirst' /\ Change!ActsAreAnswerable'
      BY <2>1 DEF ChangeInv, ConsentIsFirst, HasConsent, Change!ActsAreAnswerable
    <3>. QED BY <2>1, <3>1, <3>2 DEF ChangeInv
  <2>2. CASE Change!Next
    <3>1. Change!RunChecks => UNCHANGED <<gate, log, act>>
      BY DEF Change!RunChecks
    <3>. QED BY <2>1, <2>2, <3>1, WriterAssumption, AskOK, ConsentOK, ActionOK,
                ValidateOK, PushOK, OtherWriterOK DEF Change!Next
  <2>3. Change!Next \/ UNCHANGED <<gate, log, act>>
    BY DEF MCNext, MCvars, changeVars, ReadStep, ChangeStep, CapabilityStep, LoginStep
  <2>. QED BY <2>1, <2>2, <2>3
<1>. QED BY <1>1, <1>2, PTL DEF MCSpec

\* The routes of dashboard.py write no event a request did not pass the configured gate
\* for, no vote without a proved session, and no act before its consent.
THEOREM ActsAnswerable == MCSpec => []ActsAreAnswerable
<1>1. ChangeInv => ActsAreAnswerable
  BY DEF ChangeInv, ActsAreAnswerable
<1>. QED BY <1>1, ChangeInvariance, PTL

-----------------------------------------------------------------------------
(* The verdict of validate                                                   *)

PullRequests ==
  [head : 1..MaxHead, checks : [1..MaxHead -> {"none", "pass", "fail"}], prepared : {0, 1}]
IsPassed(e, r) == e.by = r /\ e.applied /\ e.kind = "passed"
Passed(r) == \E i \in DOMAIN log : IsPassed(log[i], r)
PassedAt(head) == head \in 1..MaxHead /\ pr.checks[head] = "pass"

\* What is known of the checks, as long as nothing was pushed, when they were read, when
\* the head was read after them, and when the verdict is in the log.
ExactSoFar(v, passed) ==
  /\ v.pc # "over" => ~passed
  /\ v.pc = "judged" /\ v.quiet /\ v.judged = "pass" => PassedAt(pr.head)
  /\ v.pc = "headed" /\ v.quiet /\ v.judged = "pass" => PassedAt(v.head)
  /\ v.pc = "over" /\ v.quiet /\ passed => PassedAt(v.head)

VerdictInv == pr \in PullRequests /\ \A r \in Acts : ExactSoFar(act[r], Passed(r))

\* An event that is no passing verdict of q leaves q as it was.
LEMMA PassedKept ==
  ASSUME ChangeInv, NEW w \in Acts \cup {"other"}, NEW kind \in Words, NEW applied \in BOOLEAN,
         log' = Append(log, Change!Entry(w, kind, applied)), NEW q \in Acts,
         q # w \/ kind # "passed"
  PROVE  Passed(q)' <=> Passed(q)
<1>. DEFINE n == Len(log)
            e == Change!Entry(w, kind, applied)
<1>1. log \in Seq(ChangeEvents) /\ e \in ChangeEvents
  BY DEF ChangeInv, Change!Entry, ChangeEvents
<1>2. ~IsPassed(e, q)
  BY DEF IsPassed, Change!Entry
<1>. HIDE DEF e
<1>3. /\ n \in Nat /\ DOMAIN log = 1..n /\ DOMAIN log' = 1..(n + 1)
      /\ log'[n + 1] = e /\ \A i \in 1..n : log'[i] = log[i]
  BY <1>1 DEF e
<1>. HIDE DEF n
<1>4. \A i \in 1..(n + 1) : i \in 1..n \/ i = n + 1
  BY <1>3
<1>. QED BY <1>2, <1>3, <1>4 DEF Passed

\* A step of one request.
LEMMA VerdictStep ==
  ASSUME ChangeInv, VerdictInv, NEW r \in Acts, NEW v, act' = [act EXCEPT ![r] = v],
         UNCHANGED pr, \A q \in Acts \ {r} : Passed(q)' <=> Passed(q),
         ExactSoFar(v, Passed(r)')
  PROVE  VerdictInv'
<1>1. \A q \in Acts : act'[q] = IF q = r THEN v ELSE act[q]
  BY DEF ChangeInv
<1>2. pr' \in PullRequests
  BY DEF VerdictInv
<1>3. ASSUME NEW q \in Acts PROVE ExactSoFar(act[q], Passed(q))'
  <2>1. CASE q = r
    BY <1>1, <2>1 DEF ExactSoFar, PassedAt
  <2>2. CASE q # r
    BY <1>1, <2>2 DEF VerdictInv, ExactSoFar, PassedAt
  <2>. QED BY <2>1, <2>2
<1>. QED BY <1>2, <1>3 DEF VerdictInv

\* A step of a request that has no verdict yet, nor gets one.
LEMMA EarlyStep ==
  ASSUME ChangeInv, VerdictInv, NEW r \in Acts, NEW v, act' = [act EXCEPT ![r] = v],
         UNCHANGED pr, act[r].pc # "over",
         v.pc \in {"allowed", "consenting", "acting", "appended", "triggering", "over"},
         \/ UNCHANGED log
         \/ \E kind \in Words \ {"passed"} : Change!Appended(r, kind)
  PROVE  VerdictInv'
<1>1. \A q \in Acts : Passed(q)' <=> Passed(q)
  <2>1. CASE UNCHANGED log
    BY <2>1 DEF Passed
  <2>2. ASSUME NEW kind \in Words \ {"passed"}, Change!Appended(r, kind),
               NEW q \in Acts
        PROVE  Passed(q)' <=> Passed(q)
    <3>1. PICK applied \in BOOLEAN : log' = Append(log, Change!Entry(r, kind, applied))
      BY <2>2, AppendedIs
    <3>. QED BY <2>2, <3>1, PassedKept
  <2>. QED BY <2>1, <2>2
<1>2. ~Passed(r)
  BY DEF VerdictInv, ExactSoFar
<1>3. ExactSoFar(v, Passed(r)')
  BY <1>1, <1>2 DEF ExactSoFar
<1>. QED BY <1>1, <1>3, VerdictStep

\* The requests that never judge, and the ones that do not yet.
LEMMA NoVerdict ==
  ASSUME ChangeInv, VerdictInv, NEW r \in Acts,
         \/ Change!Ask(r) \/ Change!LookAt(r) \/ Change!Consent(r) \/ Change!ActElsewhere(r)
         \/ Change!Vote(r) \/ Change!Arm(r) \/ Change!RefuseSchedule(r)
         \/ Change!AppendTransition(r) \/ Change!Refold(r) \/ Change!Unschedule(r)
         \/ Change!NothingPrepared(r)
  PROVE  VerdictInv'
<1>1. CASE Change!Ask(r)
  <2>1. PICK kind \in Change!Kinds, token \in BOOLEAN, pdp \in BOOLEAN, session \in BOOLEAN,
             found \in BOOLEAN :
          LET let == ~Change!Unproved(kind, session) /\ Change!Allowed(token, pdp) /\ found IN
          act' = [act EXCEPT ![r] =
            [kind |-> kind, token |-> token, pdp |-> pdp, session |-> session,
             stored |-> TRUE, judged |-> "none", head |-> 0, quiet |-> TRUE,
             pc |-> IF ~let THEN "over"
                    ELSE IF kind \in {"vote", "verify", "draft", "card"} THEN "allowed"
                    ELSE "consenting",
             answer |-> IF let THEN "" ELSE "refused"]]
    BY <1>1 DEF Change!Ask
  <2>. DEFINE v == act'[r]
  <2>2. v.pc \in {"over", "allowed", "consenting"} /\ act' = [act EXCEPT ![r] = v]
    BY <2>1 DEF ChangeInv
  <2>. HIDE DEF v
  <2>3. UNCHANGED <<pr, log>> /\ act[r].pc = "idle"
    BY <1>1 DEF Change!Ask
  <2>. QED BY <2>2, <2>3, EarlyStep
<1>2. CASE ~Change!Ask(r)
  <2>1. act[r].pc \in {"allowed", "consenting", "acting", "appended"} /\ UNCHANGED pr
    BY <1>2 DEF Change!LookAt, Change!Consent, Change!ActElsewhere, Change!Vote, Change!Arm,
                Change!RefuseSchedule, Change!AppendTransition, Change!Refold,
                Change!Unschedule, Change!NothingPrepared
  <2>2. DOMAIN act[r] = ActFields
    BY <2>1, ActAtWork DEF Admitted
  <2>3. \A pc : [act[r] EXCEPT !.pc = pc].pc = pc
    BY <2>2 DEF ActFields
  <2>4. ASSUME NEW pc \in {"consenting", "acting", "appended"}, Change!Move(r, pc)
        PROVE  \E v : act' = [act EXCEPT ![r] = v] /\ v.pc = pc
    BY <2>3, <2>4 DEF Change!Move
  <2>5. ASSUME NEW answer, Change!Answer(r, answer)
        PROVE  \E v : act' = [act EXCEPT ![r] = v] /\ v.pc = "over"
    <3>1. act' = [act EXCEPT ![r] = [act[r] EXCEPT !.pc = "over", !.answer = answer]]
      BY <2>5 DEF Change!Answer
    <3>2. [act[r] EXCEPT !.pc = "over", !.answer = answer].pc = "over"
      BY <2>2 DEF ActFields
    <3>. QED BY <3>1, <3>2
  <2>6. ASSUME act' = [act EXCEPT ![r].stored = FALSE, ![r].pc = "acting"]
        PROVE  \E v : act' = [act EXCEPT ![r] = v] /\ v.pc = "acting"
    <3>. DEFINE v == [[act[r] EXCEPT !.stored = FALSE] EXCEPT !.pc = "acting"]
    <3>1. v.pc = "acting"
      BY <2>2 DEF ActFields
    <3>2. act' = [act EXCEPT ![r] = v]
      BY <2>6 DEF ChangeInv
    <3>. QED BY <3>1, <3>2
  <2>7. \E v : /\ act' = [act EXCEPT ![r] = v]
               /\ v.pc \in {"consenting", "acting", "appended", "over"}
    BY <1>2, <2>4, <2>5, <2>6
    DEF Change!LookAt, Change!Consent, Change!ActElsewhere, Change!Vote, Change!Arm,
        Change!RefuseSchedule, Change!AppendTransition, Change!Refold,
        Change!Unschedule, Change!NothingPrepared
  <2>8. UNCHANGED log \/ \E kind \in Words \ {"passed"} : Change!Appended(r, kind)
    <3>1. Change!Votes \cup {"consent", "arm", "schedule", "unschedule", "verify"}
            \subseteq Words \ {"passed"}
      BY DEF Change!Votes, Words
    <3>2. CASE Change!Vote(r)
      BY <3>1, <3>2 DEF Change!Vote
    <3>3. CASE Change!AppendTransition(r) \/ Change!Unschedule(r) \/ Change!Arm(r)
      BY <3>1, <3>3 DEF Change!AppendTransition, Change!Unschedule, Change!Arm
    <3>4. CASE Change!Consent(r)
      BY <3>1, <3>4 DEF Change!Consent
    <3>5. CASE \/ Change!LookAt(r) \/ Change!ActElsewhere(r) \/ Change!RefuseSchedule(r)
               \/ Change!Refold(r) \/ Change!NothingPrepared(r)
      BY <3>5 DEF Change!LookAt, Change!ActElsewhere, Change!RefuseSchedule, Change!Refold,
                  Change!NothingPrepared
    <3>. QED BY <1>2, <3>2, <3>3, <3>4, <3>5
  <2>. QED BY <2>1, <2>7, <2>8, EarlyStep
<1>. QED BY <1>1, <1>2

\* The steps of validate.
LEMMA JudgingStep ==
  ASSUME ChangeInv, VerdictInv, NEW r \in Acts,
         \/ Change!ReadChecks(r) \/ Change!TriggerAndReadAgain(r)
         \/ Change!ReadHead(r) \/ Change!AppendVerdict(r)
  PROVE  VerdictInv'
<1>1. /\ act[r].pc \in {"acting", "triggering", "judged", "headed"} /\ UNCHANGED pr
      /\ pr \in PullRequests /\ pr.head \in 1..MaxHead
  BY DEF Change!ReadChecks, Change!TriggerAndReadAgain, Change!ReadHead,
         Change!AppendVerdict, VerdictInv, PullRequests
<1>2. DOMAIN act[r] = ActFields
  BY <1>1, ActAtWork DEF Admitted, Judging
<1>3. ExactSoFar(act[r], Passed(r)) /\ ~Passed(r)
  BY <1>1 DEF VerdictInv, ExactSoFar
<1>4. ASSUME UNCHANGED log PROVE \A q \in Acts : Passed(q)' <=> Passed(q)
  BY <1>4 DEF Passed
<1>5. ASSUME NEW seen \in {"none", pr.checks[pr.head]}, NEW pc \in {"triggering", "judged"},
             Change!Judged(r, seen, pc), UNCHANGED log
      PROVE  VerdictInv'
  <2>. DEFINE v == [[act[r] EXCEPT !.judged = seen] EXCEPT !.pc = pc]
  <2>1. v.pc = pc /\ v.judged = seen
    BY <1>2 DEF ActFields
  <2>2. act' = [act EXCEPT ![r] = v]
    BY <1>5 DEF Change!Judged, ChangeInv
  <2>. HIDE DEF v
  <2>3. ExactSoFar(v, Passed(r)')
    BY <1>1, <1>3, <1>4, <1>5, <2>1 DEF ExactSoFar, PassedAt
  <2>. QED BY <1>1, <1>4, <1>5, <2>2, <2>3, VerdictStep
<1>6. CASE Change!ReadChecks(r)
  BY <1>5, <1>6 DEF Change!ReadChecks
<1>7. CASE Change!TriggerAndReadAgain(r)
  BY <1>5, <1>7 DEF Change!TriggerAndReadAgain
<1>8. CASE Change!ReadHead(r)
  <2>. DEFINE v == [[act[r] EXCEPT !.head = pr.head] EXCEPT !.pc = "headed"]
              w == [[[act[r] EXCEPT !.head = pr.prepared] EXCEPT !.pc = "headed"]
                      EXCEPT !.quiet = FALSE]
  <2>1. /\ v.pc = "headed" /\ v.head = pr.head /\ v.quiet = act[r].quiet
        /\ v.judged = act[r].judged
        /\ w.pc = "headed" /\ w.quiet = FALSE
    BY <1>2 DEF ActFields
  <2>2. act' = [act EXCEPT ![r] = v] \/ act' = [act EXCEPT ![r] = w]
    BY <1>8 DEF Change!ReadHead, ChangeInv
  <2>3. act[r].pc = "judged" /\ UNCHANGED log
    BY <1>8 DEF Change!ReadHead
  <2>. HIDE DEF v, w
  <2>4. ExactSoFar(v, Passed(r)') /\ ExactSoFar(w, Passed(r)')
    BY <1>3, <1>4, <2>1, <2>3 DEF ExactSoFar
  <2>. QED BY <1>1, <1>4, <2>2, <2>3, <2>4, VerdictStep
<1>9. CASE Change!AppendVerdict(r)
  <2>1. PICK kind \in {"passed", "failed"} :
          /\ Change!Appended(r, kind)
          /\ kind = "passed" => act[r].judged = "pass"
    BY <1>9 DEF Change!AppendVerdict
  <2>2. PICK applied \in BOOLEAN : log' = Append(log, Change!Entry(r, kind, applied))
    BY <2>1, AppendedIs
  <2>3. \A q \in Acts : q # r \/ kind # "passed" => (Passed(q)' <=> Passed(q))
    BY <2>1, <2>2, PassedKept DEF Change!Votes, Words
  <2>. DEFINE v == [act[r] EXCEPT !.pc = "over", !.answer = "done"]
  <2>4. act' = [act EXCEPT ![r] = v]
    BY <1>9 DEF Change!AppendVerdict, Change!Answer
  <2>5. /\ v.pc = "over" /\ v.head = act[r].head /\ v.quiet = act[r].quiet
        /\ v.judged = act[r].judged
    BY <1>2 DEF ActFields
  <2>6. act[r].pc = "headed"
    BY <1>9 DEF Change!AppendVerdict
  <2>. HIDE DEF v
  <2>7. ExactSoFar(v, Passed(r)')
    BY <1>3, <2>1, <2>3, <2>5, <2>6 DEF ExactSoFar
  <2>. QED BY <1>1, <2>3, <2>4, <2>7, VerdictStep
<1>. QED BY <1>6, <1>7, <1>8, <1>9

\* A push ends the quiet of whoever has read the checks and not the head; a run of the
\* checks changes those of a head that has none.
LEMMA OthersVerdict ==
  ASSUME ChangeInv, VerdictInv, Change!Push \/ Change!RunChecks \/ Change!OtherWriter
  PROVE  VerdictInv'
<1>. DEFINE h == pr.head
<1>1. /\ pr \in PullRequests /\ h \in 1..MaxHead /\ MaxHead \in Nat
      /\ pr.checks \in [1..MaxHead -> {"none", "pass", "fail"}]
  BY HeadAssumption DEF VerdictInv, PullRequests
<1>2. CASE Change!Push
  <2>1. /\ pr'.checks = pr.checks /\ pr' \in PullRequests
    BY <1>1, <1>2 DEF Change!Push, PullRequests
  <2>2. \A q \in Acts : Passed(q)' <=> Passed(q)
    BY <1>2 DEF Change!Push, Passed
  <2>3. ASSUME NEW q \in Acts PROVE ExactSoFar(act[q], Passed(q))'
    <3>1. CASE act[q].pc \in {"triggering", "judged"}
      <4>1. DOMAIN act[q] = ActFields
        BY <3>1, ActAtWork DEF Admitted, Judging
      <4>2. act'[q].quiet = FALSE /\ act'[q].pc = act[q].pc
        BY <1>2, <3>1, <4>1 DEF Change!Push, ActFields
      <4>. QED BY <2>2, <3>1, <4>2 DEF VerdictInv, ExactSoFar
    <3>2. CASE act[q].pc \notin {"triggering", "judged"}
      <4>1. act'[q] = act[q]
        BY <1>2, <3>2 DEF Change!Push
      <4>2. PassedAt(act[q].head)' <=> PassedAt(act[q].head)
        BY <2>1, <4>1 DEF PassedAt
      <4>. QED BY <2>2, <3>2, <4>1, <4>2 DEF VerdictInv, ExactSoFar
    <3>. QED BY <3>1, <3>2
  <2>. QED BY <2>1, <2>3 DEF VerdictInv
<1>3. CASE Change!RunChecks
  <2>1. PICK seen \in {"pass", "fail"} : pr' = [pr EXCEPT !.checks[pr.head] = seen]
    BY <1>3 DEF Change!RunChecks
  <2>2. /\ pr'.head = h /\ pr'.checks = [pr.checks EXCEPT ![h] = seen]
        /\ pr' \in PullRequests /\ pr.checks[h] = "none"
        /\ UNCHANGED <<act, log>>
    BY <1>1, <1>3, <2>1 DEF Change!RunChecks, PullRequests
  <2>3. \A k : PassedAt(k) => PassedAt(k)'
    BY <1>1, <2>2 DEF PassedAt
  <2>4. ASSUME NEW q \in Acts PROVE ExactSoFar(act[q], Passed(q))'
    <3>1. act'[q] = act[q] /\ (Passed(q)' <=> Passed(q)) /\ ExactSoFar(act[q], Passed(q))
      BY <2>2 DEF Passed, VerdictInv
    <3>2. /\ PassedAt(pr.head) => PassedAt(pr.head)'
          /\ PassedAt(act[q].head) => PassedAt(act[q].head)'
      <4>1. pr'.head = pr.head
        BY <2>2
      <4>. QED BY <2>3, <3>1, <4>1 DEF PassedAt
    <3>. QED BY <3>1, <3>2 DEF ExactSoFar
  <2>. QED BY <2>2, <2>4 DEF VerdictInv
<1>4. CASE Change!OtherWriter
  <2>1. PICK kind \in Words : Change!Appended("other", kind)
    BY <1>4 DEF Change!OtherWriter, Change!Votes, Words
  <2>2. PICK applied \in BOOLEAN : log' = Append(log, Change!Entry("other", kind, applied))
    BY <2>1, AppendedIs
  <2>3. \A q \in Acts : Passed(q)' <=> Passed(q)
    BY <2>2, PassedKept, WriterAssumption
  <2>4. UNCHANGED <<pr, act>>
    BY <1>4 DEF Change!OtherWriter
  <2>. QED BY <2>3, <2>4 DEF VerdictInv, ExactSoFar, PassedAt
<1>. QED BY <1>2, <1>3, <1>4

\* A passing verdict, taken while nothing was pushed and with a head that could be
\* fetched, is recorded under the head whose checks passed.
THEOREM VerdictsExact == MCSpec => []QuietVerdictIsExact
<1>1. MCInit => VerdictInv
  <2>. SUFFICES ASSUME MCInit PROVE VerdictInv
    OBVIOUS
  <2>1. pr \in PullRequests
    BY HeadAssumption DEF MCInit, Change!Init, PullRequests
  <2>2. log = <<>> /\ \A r \in Acts : act[r].pc = "idle"
    BY DEF MCInit, Change!Init, Change!At
  <2>. QED BY <2>1, <2>2 DEF VerdictInv, ExactSoFar, Passed
<1>2. ChangeInv /\ VerdictInv /\ [MCNext]_MCvars => VerdictInv'
  <2>. SUFFICES ASSUME ChangeInv, VerdictInv, [MCNext]_MCvars PROVE VerdictInv'
    OBVIOUS
  <2>1. CASE UNCHANGED changeVars
    BY <2>1 DEF changeVars, VerdictInv, ExactSoFar, Passed, PassedAt
  <2>2. CASE Change!Next
    BY <2>2, NoVerdict, JudgingStep, OthersVerdict DEF Change!Next
  <2>3. Change!Next \/ UNCHANGED changeVars
    BY DEF MCNext, MCvars, ReadStep, ChangeStep, CapabilityStep, LoginStep
  <2>. QED BY <2>1, <2>2, <2>3
<1>3. ChangeInv /\ VerdictInv => QuietVerdictIsExact
  <2>. SUFFICES ASSUME ChangeInv, VerdictInv, NEW r \in Acts,
                       act[r].pc # "idle", act[r].quiet, Change!Applied(r, {"passed"})
                PROVE  act[r].head # 0 /\ pr.checks[act[r].head] = "pass"
    BY DEF QuietVerdictIsExact, Change!QuietVerdictIsExact
  <2>1. PICK e \in Change!ToSet(log) : e.by = r /\ e.applied /\ e.kind \in {"passed"}
    BY DEF Change!Applied
  <2>2. PICK i \in DOMAIN log : log[i] = e
    BY DEF Change!ToSet
  <2>3. Passed(r)
    BY <2>1, <2>2 DEF Passed, IsPassed
  <2>4. PassedAt(act[r].head)
    BY <2>3 DEF VerdictInv, ExactSoFar
  <2>. QED BY <2>4, HeadAssumption DEF PassedAt
<1>. QED BY <1>1, <1>2, <1>3, ChangeInvariance, PTL DEF MCSpec

-----------------------------------------------------------------------------
(* CapabilityState                                                           *)

\* What a request holds at each of its steps.
Authorization ==
  [pc : {"idle", "denied", "allowed"}]
    \cup [pc : {"authentic", "live"}, credential : Credentials]
    \cup [pc : {"waiting", "holding", "reserved"}, credential : Credentials, now : Nat]

CapabilityTypes ==
  /\ clock \in Nat
  /\ audit \in Seq(Authorizations)
  /\ reserved \in [Credentials -> Seq(Nat)]
  /\ authorization \in [Authorizations -> Authorization]

\* The time a request took is past, and who holds the lock is in its transaction.
TimesArePast ==
  \A r \in Authorizations : authorization[r].pc \in {"waiting", "holding", "reserved"} =>
    authorization[r].now <= clock
HolderIsInside ==
  holder # Capability!Nobody =>
    holder \in Authorizations /\ authorization[holder].pc = "holding"

\* A credential that was reserved is in the table until its lifetime is over: this is
\* what pruning must not break, and what makes the property inductive.
ReservedIsKept ==
  \A c \in Credentials : reserved[c] # <<>> => c \in replay \/ Lifetime < clock

CapabilityInv ==
  CapabilityTypes /\ TimesArePast /\ HolderIsInside /\ ReservedIsKept /\
    Capability!ReservedOnceInDate

\* A reservation by an earlier time than now prunes only what is over.
LEMMA PrunedIsOver ==
  ASSUME Lifetime \in Nat, clock \in Nat, NEW time \in Nat, time <= clock,
         NEW c \in replay, c \notin Capability!Kept(time)
  PROVE  Lifetime < clock
BY DEF Capability!Kept

\* Each action but the commit leaves the table of replays and the history alone.
LEMMA CapabilityKept ==
  ASSUME Lifetime \in Nat, Capability!Nobody \notin Authorizations, CapabilityInv, Capability!Next
  PROVE  CapabilityTypes' /\ TimesArePast' /\ HolderIsInside'
<1>. USE DEF CapabilityInv, CapabilityTypes, TimesArePast, HolderIsInside
<1>1. ASSUME NEW r \in Authorizations, Capability!Authenticate(r)
      PROVE  CapabilityTypes' /\ TimesArePast' /\ HolderIsInside'
  <2>. PICK c \in Credentials, approved \in BOOLEAN :
         Capability!Step(r, IF custody \subseteq {"database"} /\ approved /\ clock < Lifetime
                   THEN [pc |-> "authentic", credential |-> c] ELSE Capability!Denied)
    BY <1>1 DEF Capability!Authenticate
  <2>1. /\ [pc |-> "authentic", credential |-> c] \in Authorization
        /\ Capability!Denied \in Authorization
    BY DEF Authorization, Capability!Denied, Capability!At
  <2>2. CASE authorization' = [authorization EXCEPT ![r] = [pc |-> "authentic", credential |-> c]]
    BY <1>1, <2>1, <2>2 DEF Capability!Authenticate
  <2>3. CASE authorization' = [authorization EXCEPT ![r] = Capability!Denied]
    BY <1>1, <2>1, <2>3 DEF Capability!Authenticate, Capability!Denied, Capability!At
  <2>. QED BY <2>2, <2>3 DEF Capability!Step
<1>2. ASSUME NEW r \in Authorizations, Capability!ReadRevocations(r)
      PROVE  CapabilityTypes' /\ TimesArePast' /\ HolderIsInside'
  <2>1. authorization[r] \in [pc : {"authentic"}, credential : Credentials]
    BY <1>2 DEF Capability!ReadRevocations, Authorization
  <2>2. /\ [authorization[r] EXCEPT !.pc = "live"] \in Authorization
        /\ [authorization[r] EXCEPT !.pc = "live"].pc = "live"
        /\ Capability!Denied \in Authorization
    BY <2>1 DEF Authorization, Capability!Denied, Capability!At
  <2>3. CASE authorization' = [authorization EXCEPT ![r] = [authorization[r] EXCEPT !.pc = "live"]]
    BY <1>2, <2>1, <2>2, <2>3 DEF Capability!ReadRevocations
  <2>4. CASE authorization' = [authorization EXCEPT ![r] = Capability!Denied]
    BY <1>2, <2>1, <2>2, <2>4 DEF Capability!ReadRevocations, Capability!Denied, Capability!At
  <2>. QED BY <1>2, <2>3, <2>4 DEF Capability!ReadRevocations, Capability!Step
<1>3. ASSUME NEW r \in Authorizations, Capability!TakeTime(r)
      PROVE  CapabilityTypes' /\ TimesArePast' /\ HolderIsInside'
  <2>1. authorization[r].credential \in Credentials
    BY <1>3 DEF Capability!TakeTime, Authorization
  <2>2. \E v \in Authorization : /\ v.pc = "waiting" /\ v.now = clock
                           /\ authorization' = [authorization EXCEPT ![r] = v]
    BY <1>3, <2>1 DEF Capability!TakeTime, Capability!Step, Authorization
  <2>. QED BY <1>3, <2>2 DEF Capability!TakeTime
<1>4. ASSUME NEW r \in Authorizations, Capability!BeginImmediate(r)
      PROVE  CapabilityTypes' /\ TimesArePast' /\ HolderIsInside'
  <2>1. authorization[r] \in [pc : {"waiting"}, credential : Credentials, now : Nat]
    BY <1>4 DEF Capability!BeginImmediate, Authorization
  <2>2. CASE authorization' = [authorization EXCEPT ![r] = Capability!Denied] /\ UNCHANGED holder
    BY <1>4, <2>1, <2>2
    DEF Capability!BeginImmediate, Capability!Denied, Capability!At, Authorization
  <2>3. CASE /\ holder' = r
             /\ authorization' = [authorization EXCEPT ![r] = [authorization[r] EXCEPT !.pc = "holding"]]
    <3>1. /\ [authorization[r] EXCEPT !.pc = "holding"] \in Authorization
          /\ [authorization[r] EXCEPT !.pc = "holding"].now = authorization[r].now
          /\ [authorization[r] EXCEPT !.pc = "holding"].pc = "holding"
      BY <2>1 DEF Authorization
    <3>. QED BY <1>4, <2>1, <2>3, <3>1 DEF Capability!BeginImmediate
  <2>. QED BY <1>4, <2>2, <2>3 DEF Capability!BeginImmediate, Capability!Step
<1>5. ASSUME NEW r \in Authorizations, Capability!Commit(r)
      PROVE  CapabilityTypes' /\ TimesArePast' /\ HolderIsInside'
  <2>1. authorization[r] \in [pc : {"holding"}, credential : Credentials, now : Nat]
    BY <1>5 DEF Capability!Commit, Authorization
  <2>2. PICK v \in Authorization :
          /\ v.pc \in {"reserved", "denied"}
          /\ v.pc = "reserved" => v.now = authorization[r].now
          /\ authorization' = [authorization EXCEPT ![r] = v]
    BY <1>5, <2>1
    DEF Capability!Commit, Capability!Step, Capability!Denied, Capability!At, Authorization
  <2>3. reserved' \in [Credentials -> Seq(Nat)]
    <3>1. Append(reserved[authorization[r].credential], clock) \in Seq(Nat)
      BY <2>1
    <3>2. CASE UNCHANGED reserved
      BY <3>2
    <3>3. CASE reserved' = [reserved EXCEPT ![authorization[r].credential] = Append(@, clock)]
      BY <2>1, <3>1, <3>3
    <3>. QED BY <1>5, <3>2, <3>3 DEF Capability!Commit
  <2>4. holder' = Capability!Nobody /\ UNCHANGED <<clock, audit>>
    BY <1>5 DEF Capability!Commit
  <2>5. TimesArePast'
    BY <2>1, <2>2, <2>4
  <2>. QED BY <2>2, <2>3, <2>4, <2>5
<1>6. ASSUME NEW r \in Authorizations, Capability!Record(r)
      PROVE  CapabilityTypes' /\ TimesArePast' /\ HolderIsInside'
  <2>1. \E v \in Authorization : v.pc \in {"allowed", "denied"} /\
          authorization' = [authorization EXCEPT ![r] = v]
    BY <1>6 DEF Capability!Record, Capability!Step, Capability!Denied, Capability!At,
                Authorization
  <2>2. audit' \in Seq(Authorizations)
    BY <1>6 DEF Capability!Record
  <2>. QED BY <1>6, <2>1, <2>2 DEF Capability!Record
<1>7. ASSUME NEW r \in Authorizations, Capability!Crash(r)
      PROVE  CapabilityTypes' /\ TimesArePast' /\ HolderIsInside'
  <2>1. \E v \in Authorization : v.pc = "denied" /\
          authorization' = [authorization EXCEPT ![r] = v]
    BY <1>7 DEF Capability!Crash, Capability!Step, Capability!Denied, Capability!At, Authorization
  <2>. QED BY <1>7, <2>1 DEF Capability!Crash
<1>8. ASSUME \/ \E c \in Credentials : Capability!Revoke(c)
             \/ Capability!Spoil
      PROVE  CapabilityTypes' /\ TimesArePast' /\ HolderIsInside'
  BY <1>8 DEF Capability!Revoke, Capability!Spoil
<1>9. CASE Capability!Tick
  <2>1. \A r \in Authorizations : authorization[r].pc \in {"waiting", "holding", "reserved"} =>
          authorization[r].now \in Nat
    BY DEF Authorization
  <2>. QED BY <1>9, <2>1 DEF Capability!Tick
<1>. QED BY <1>1, <1>2, <1>3, <1>4, <1>5, <1>6, <1>7, <1>8, <1>9 DEF Capability!Next

\* The commit: a row that is there refuses, a row that is gone was over.
LEMMA CommitKeeps ==
  ASSUME Lifetime \in Nat, CapabilityInv, NEW r \in Authorizations, Capability!Commit(r),
         Capability!Nobody \notin Authorizations
  PROVE  /\ ReservedIsKept'
         /\ \A c \in Credentials : \A i, j \in DOMAIN reserved'[c] :
              i < j => Lifetime < reserved'[c][j]
<1>. DEFINE c == authorization[r].credential
<1>1. /\ clock \in Nat /\ clock' = clock
      /\ c \in Credentials /\ authorization[r].now \in Nat /\ authorization[r].now <= clock
      /\ reserved \in [Credentials -> Seq(Nat)]
  BY DEF CapabilityInv, CapabilityTypes, TimesArePast, HolderIsInside, Capability!Commit,
         Authorization
<1>2. \A d \in Credentials : \A i, j \in DOMAIN reserved[d] : i < j => Lifetime < reserved[d][j]
  BY DEF CapabilityInv, Capability!ReservedOnceInDate
<1>3. \A d \in replay : d \in Capability!Kept(authorization[r].now) \/ Lifetime < clock
  BY <1>1, PrunedIsOver
<1>4. CASE UNCHANGED <<replay, reserved>>
  BY <1>1, <1>2, <1>4 DEF CapabilityInv, ReservedIsKept
<1>5. CASE replay' = Capability!Kept(authorization[r].now) \cup {c} /\ UNCHANGED reserved
  BY <1>1, <1>2, <1>3, <1>5 DEF CapabilityInv, ReservedIsKept
<1>6. CASE /\ replay' = Capability!Kept(authorization[r].now) \cup {c}
           /\ c \notin Capability!Kept(authorization[r].now)
           /\ reserved' = [reserved EXCEPT ![c] = Append(@, clock)]
  <2>1. reserved[c] # <<>> => Lifetime < clock
    BY <1>1, <1>3, <1>6 DEF CapabilityInv, ReservedIsKept
  <2>2. reserved'[c] = Append(reserved[c], clock) /\ reserved[c] \in Seq(Nat)
    BY <1>1, <1>6
  <2>3. \A i, j \in DOMAIN reserved'[c] : i < j => Lifetime < reserved'[c][j]
    <3>. TAKE i, j \in DOMAIN reserved'[c]
    <3>. HAVE i < j
    <3>1. CASE j \in DOMAIN reserved[c]
      <4>1. i \in DOMAIN reserved[c] /\ reserved'[c][j] = reserved[c][j]
        BY <2>2, <3>1, <1>1
      <4>. QED BY <1>1, <1>2, <4>1, <3>1
    <3>2. CASE j \notin DOMAIN reserved[c]
      <4>1. j = Len(reserved[c]) + 1 /\ reserved[c] # <<>> /\ reserved'[c][j] = clock
        BY <2>2, <3>2, <1>1
      <4>. QED BY <2>1, <4>1
    <3>. QED BY <3>1, <3>2
  <2>4. \A d \in Credentials : d # c => reserved'[d] = reserved[d]
    BY <1>1, <1>6
  <2>5. \A d \in Credentials : \A i, j \in DOMAIN reserved'[d] :
          i < j => Lifetime < reserved'[d][j]
    BY <1>2, <2>3, <2>4
  <2>6. ReservedIsKept'
    BY <1>1, <1>3, <1>6, <2>4 DEF CapabilityInv, ReservedIsKept
  <2>. QED BY <2>5, <2>6
<1>. QED BY <1>4, <1>5, <1>6 DEF Capability!Commit, Capability!Inserted

\* Who is let in has just written its row, and rows stay.
LEMMA AuditKeeps ==
  ASSUME CapabilityInv, Capability!Next, Capability!Nobody \notin Authorizations
  PROVE  \A r \in Authorizations :
           authorization'[r].pc = "allowed" => \E i \in DOMAIN audit' : audit'[i] = r
<1>. USE DEF CapabilityInv, CapabilityTypes
<1>1. ASSUME NEW q \in Authorizations, Capability!Record(q)
      PROVE  \A r \in Authorizations :
               authorization'[r].pc = "allowed" => \E i \in DOMAIN audit' : audit'[i] = r
  <2>1. CASE audit' = Append(audit, q)
    <3>1. \A i \in DOMAIN audit : i \in DOMAIN audit' /\ audit'[i] = audit[i]
      BY <2>1
    <3>2. Len(audit) + 1 \in DOMAIN audit' /\ audit'[Len(audit) + 1] = q
      BY <2>1
    <3>3. \A r \in Authorizations : r # q => authorization'[r] = authorization[r]
      BY <1>1 DEF Capability!Record, Capability!Step
    <3>. QED BY <3>1, <3>2, <3>3 DEF Capability!ReservedOnceInDate
  <2>2. CASE UNCHANGED audit /\ authorization' = [authorization EXCEPT ![q] = Capability!Denied]
    BY <2>2 DEF Capability!Denied, Capability!At, Capability!ReservedOnceInDate
  <2>. QED BY <1>1, <2>1, <2>2 DEF Capability!Record, Capability!Step
<1>2. ASSUME UNCHANGED audit,
             \A r \in Authorizations : authorization'[r].pc = "allowed" =>
               authorization[r].pc = "allowed"
      PROVE  \A r \in Authorizations :
               authorization'[r].pc = "allowed" => \E i \in DOMAIN audit' : audit'[i] = r
  BY <1>2 DEF Capability!ReservedOnceInDate
<1>3. ASSUME NEW q \in Authorizations, NEW v, v.pc # "allowed",
             authorization' = [authorization EXCEPT ![q] = v]
      PROVE  \A r \in Authorizations : authorization'[r].pc = "allowed" =>
        authorization[r].pc = "allowed"
  BY <1>3
<1>4. ASSUME NEW q \in Authorizations,
             \/ Capability!Authenticate(q) \/ Capability!ReadRevocations(q)
             \/ Capability!TakeTime(q)
             \/ Capability!BeginImmediate(q) \/ Capability!Commit(q) \/ Capability!Crash(q)
      PROVE  \E v : v.pc # "allowed" /\ authorization' = [authorization EXCEPT ![q] = v]
  <2>1. authorization[q].pc \in {"authentic", "waiting", "holding"} =>
          \A pc : [authorization[q] EXCEPT !.pc = pc].pc = pc
    BY DEF Authorization
  <2>2. holder = q => authorization[q].pc = "holding"
    BY DEF HolderIsInside
  <2>3. CASE Capability!Authenticate(q) \/ Capability!TakeTime(q) \/ Capability!Crash(q)
    BY <2>3 DEF Capability!Authenticate, Capability!TakeTime, Capability!Crash, Capability!Step,
                Capability!Denied, Capability!At
  <2>4. CASE Capability!ReadRevocations(q) \/ Capability!BeginImmediate(q)
    BY <2>1, <2>4
    DEF Capability!ReadRevocations, Capability!BeginImmediate, Capability!Step,
        Capability!Denied, Capability!At
  <2>5. CASE Capability!Commit(q)
    BY <2>1, <2>2, <2>5 DEF Capability!Commit, Capability!Step, Capability!Denied, Capability!At
  <2>. QED BY <1>4, <2>3, <2>4, <2>5
<1>5. ASSUME NEW q \in Authorizations,
             \/ Capability!Authenticate(q) \/ Capability!ReadRevocations(q)
             \/ Capability!TakeTime(q)
             \/ Capability!BeginImmediate(q) \/ Capability!Commit(q) \/ Capability!Crash(q)
      PROVE  UNCHANGED audit
  BY <1>5 DEF Capability!Authenticate, Capability!ReadRevocations, Capability!TakeTime,
              Capability!BeginImmediate, Capability!Commit, Capability!Crash
<1>6. CASE Capability!Tick \/ Capability!Spoil \/ \E c \in Credentials : Capability!Revoke(c)
  BY <1>6, <1>2 DEF Capability!Tick, Capability!Spoil, Capability!Revoke
<1>. QED BY <1>1, <1>2, <1>3, <1>4, <1>5, <1>6 DEF Capability!Next

-----------------------------------------------------------------------------

\* The strengthened invariant: a reservation is refused as long as its row is there,
\* and its row is there as long as the credential lives, because the time a
\* transaction prunes by is never later than the clock.
THEOREM CapabilityInvariance == MCSpec => []CapabilityInv
<1>1. MCInit => CapabilityInv
  BY DEF MCInit, Capability!Init, CapabilityInv, CapabilityTypes, TimesArePast, HolderIsInside,
         ReservedIsKept,
         Capability!ReservedOnceInDate, Authorization, Capability!At
<1>2. CapabilityInv /\ [MCNext]_MCvars => CapabilityInv'
  <2>. SUFFICES ASSUME CapabilityInv, [MCNext]_MCvars PROVE CapabilityInv'
    OBVIOUS
  <2>1. CASE UNCHANGED capabilityVars
    BY <2>1 DEF capabilityVars, CapabilityInv, CapabilityTypes, TimesArePast, HolderIsInside,
                ReservedIsKept,
                Capability!ReservedOnceInDate
  <2>2. ASSUME Capability!Next,
               ReservedIsKept',
               \A c \in Credentials : \A i, j \in DOMAIN reserved'[c] :
                 i < j => Lifetime < reserved'[c][j]
        PROVE  CapabilityInv'
    BY <2>2, HolderAssumption, CapabilityKept, AuditKeeps
    DEF CapabilityInv, Capability!ReservedOnceInDate
  <2>3. ASSUME NEW r \in Authorizations, Capability!Commit(r) PROVE CapabilityInv'
    BY <2>2, <2>3, HolderAssumption, CommitKeeps DEF Capability!Next
  <2>4. ASSUME Capability!Next, UNCHANGED <<replay, reserved>>, clock' >= clock
        PROVE CapabilityInv'
    <3>1. ReservedIsKept'
      BY <2>4, HolderAssumption, CapabilityKept DEF CapabilityInv, CapabilityTypes, ReservedIsKept
    <3>. QED BY <2>2, <2>4, <3>1 DEF CapabilityInv, Capability!ReservedOnceInDate
  <2>5. ASSUME NEW r \in Authorizations,
               \/ Capability!Authenticate(r) \/ Capability!ReadRevocations(r)
               \/ Capability!TakeTime(r)
               \/ Capability!BeginImmediate(r) \/ Capability!Record(r) \/ Capability!Crash(r)
        PROVE  UNCHANGED <<replay, reserved>> /\ clock' >= clock
    BY <2>5 DEF Capability!Authenticate, Capability!ReadRevocations, Capability!TakeTime,
                Capability!BeginImmediate, Capability!Record, Capability!Crash,
                CapabilityInv, CapabilityTypes
  <2>6. ASSUME Capability!Tick \/ Capability!Spoil \/ \E c \in Credentials : Capability!Revoke(c)
        PROVE  UNCHANGED <<replay, reserved>> /\ clock' >= clock
    BY <2>6 DEF Capability!Tick, Capability!Spoil, Capability!Revoke, CapabilityInv,
                CapabilityTypes
  <2>7. Capability!Next => CapabilityInv'
    BY <2>3, <2>4, <2>5, <2>6 DEF Capability!Next
  <2>8. Capability!Next \/ UNCHANGED capabilityVars
    BY DEF MCNext, MCvars, ReadStep, ChangeStep, CapabilityStep, LoginStep
  <2>. QED BY <2>1, <2>7, <2>8
<1>. QED BY <1>1, <1>2, PTL DEF MCSpec

\* A credential in its lifetime is reserved once, and nobody is let in unrecorded.
THEOREM ReservedOnce == MCSpec => []ReservedOnceInDate
<1>1. CapabilityInv => ReservedOnceInDate
  BY DEF CapabilityInv, ReservedOnceInDate
<1>. QED BY <1>1, CapabilityInvariance, PTL

-----------------------------------------------------------------------------
(* LoginTransactions                                                         *)

LoginRow ==
  [stage : {"unused", "asked", "sent", "lost", "returned"}, source : Sources, expires : Nat]
Exchange == [pc : {"exchange"}, login : Logins, now : Nat]

LoginTypes ==
  /\ now \in Nat
  /\ table \subseteq Logins /\ IsFiniteSet(table)
  /\ login \in [Logins -> LoginRow]
  /\ DOMAIN callback = Callbacks
  /\ \A c \in Callbacks : callback[c] = Entry!Idle \/ callback[c] \in Exchange
  /\ sessions \in [Logins -> Nat]

\* How far a login came says which of its three places it may be in: the table until
\* the browser is back, then one exchange or one session.
StagesTell ==
  /\ \A l \in table : login[l].stage \in {"asked", "sent", "lost"}
  /\ \A c \in Callbacks : callback[c].pc = "exchange" =>
       /\ login[callback[c].login].stage = "returned"
       /\ callback[c].now < login[callback[c].login].expires
       /\ sessions[callback[c].login] = 0
       /\ \A d \in Callbacks :
            callback[d].pc = "exchange" /\ callback[d].login = callback[c].login => d = c
  /\ \A l \in Logins :
       sessions[l] \in {0, 1} /\ (sessions[l] = 1 => login[l].stage = "returned")

LiveNow == {l \in table : login[l].expires > now}
FromNow(s) == {l \in LiveNow : login[l].source = s}

WithinLimits ==
  /\ Cardinality(LiveNow) <= MAX_LOGIN_GLOBAL
  /\ \A s \in Sources : Cardinality(FromNow(s)) <= MAX_LOGIN_SOURCE

LoginInv == LoginTypes /\ StagesTell /\ Entry!LoginIsKept /\ WithinLimits

\* The instance counts as this module does.
LEMMA SameCount == \A S : Entry!Cardinality(S) = Cardinality(S)
BY DEF Entry!Cardinality, Cardinality

\* One more element is one more at most.
LEMMA OneMore ==
  ASSUME NEW S, NEW x, IsFiniteSet(S)
  PROVE  /\ Cardinality(S) \in Nat /\ IsFiniteSet(S \cup {x})
         /\ Cardinality(S \cup {x}) <= Cardinality(S) + 1
<1>1. Cardinality(S) \in Nat
  BY FS_CardinalityType
<1>2. /\ IsFiniteSet(S \cup {x})
      /\ Cardinality(S \cup {x}) = IF x \in S THEN Cardinality(S) ELSE Cardinality(S) + 1
  BY FS_AddElement
<1>. QED BY <1>1, <1>2

\* Fewer live logins stay within the limits.
LEMMA FewerAreWithin ==
  ASSUME LoginInv, IsFiniteSet(table'), LiveNow' \subseteq LiveNow,
         \A l \in LiveNow' : login'[l].source = login[l].source
  PROVE  WithinLimits'
<1>1. IsFiniteSet(LiveNow)
  BY FS_Subset DEF LiveNow, LoginInv, LoginTypes
<1>2. Cardinality(LiveNow') <= Cardinality(LiveNow) /\ IsFiniteSet(LiveNow')
  BY <1>1, FS_Subset
<1>3. /\ Cardinality(LiveNow) \in Nat /\ Cardinality(LiveNow') \in Nat
  BY <1>1, <1>2, FS_CardinalityType
<1>4. Cardinality(LiveNow') <= MAX_LOGIN_GLOBAL
  BY <1>2, <1>3, LoginAssumption DEF LoginInv, WithinLimits
<1>5. ASSUME NEW s \in Sources PROVE Cardinality(FromNow(s)') <= MAX_LOGIN_SOURCE
  <2>1. FromNow(s)' \subseteq FromNow(s) /\ IsFiniteSet(FromNow(s))
    BY <1>1, FS_Subset DEF FromNow
  <2>2. Cardinality(FromNow(s)') <= Cardinality(FromNow(s)) /\ IsFiniteSet(FromNow(s)')
    BY <2>1, FS_Subset
  <2>3. Cardinality(FromNow(s)) \in Nat /\ Cardinality(FromNow(s)') \in Nat
    BY <2>1, <2>2, FS_CardinalityType
  <2>. QED BY <2>2, <2>3, LoginAssumption DEF LoginInv, WithinLimits
<1>. QED BY <1>4, <1>5 DEF WithinLimits

\* login stores a row while there is room for it.
LEMMA StoredOK ==
  ASSUME LoginInv, NEW l \in Logins, Entry!Login(l)
  PROVE  LoginInv'
<1>. DEFINE row == [[login[l] EXCEPT !.stage = "asked"] EXCEPT !.expires = now + LOGIN_TTL]
            s == login[l].source
<1>1. /\ now \in Nat /\ LOGIN_TTL \in Nat /\ login[l] \in LoginRow /\ login[l].stage = "unused"
      /\ table \subseteq Logins /\ IsFiniteSet(table) /\ now + LOGIN_TTL \in Nat
  BY LoginAssumption DEF Entry!Login, LoginInv, LoginTypes
<1>2. row \in LoginRow /\ row.stage = "asked" /\ row.source = s
  BY <1>1 DEF LoginRow
<1>3. login' = [login EXCEPT ![l] = row]
  BY DEF Entry!Login, LoginInv, LoginTypes
<1>. HIDE DEF row
<1>4. /\ table' = LiveNow \cup {l} /\ UNCHANGED <<now, callback, sessions>>
      /\ Cardinality(LiveNow) < MAX_LOGIN_GLOBAL
      /\ Cardinality(FromNow(s)) < MAX_LOGIN_SOURCE
  <2>1. Cardinality(LiveNow) \in Nat /\ Cardinality(FromNow(s)) \in Nat
    <3>1. IsFiniteSet(LiveNow)
      BY <1>1, FS_Subset DEF LiveNow
    <3>2. IsFiniteSet(FromNow(s))
      BY <3>1, FS_Subset DEF FromNow
    <3>. QED BY <3>1, <3>2, FS_CardinalityType
  <2>2. Entry!Live = LiveNow /\ Entry!From(s) = FromNow(s)
    BY DEF Entry!Live, Entry!From, LiveNow, FromNow
  <2>3. ~(Cardinality(LiveNow) >= MAX_LOGIN_GLOBAL) /\
          ~(Cardinality(FromNow(s)) >= MAX_LOGIN_SOURCE)
    BY <2>2, SameCount DEF Entry!Login, Entry!Limited
  <2>. QED BY <2>1, <2>2, <2>3, LoginAssumption DEF Entry!Login
<1>5. login' \in [Logins -> LoginRow] /\
        \A k \in Logins : login'[k] = IF k = l THEN row ELSE login[k]
  BY <1>2, <1>3 DEF LoginInv, LoginTypes
<1>6. l \notin table /\ sessions[l] = 0
  BY <1>1 DEF LoginInv, StagesTell
<1>7. IsFiniteSet(LiveNow) /\ LiveNow \subseteq table
  BY <1>1, FS_Subset DEF LiveNow
<1>8. LoginTypes'
  <2>1. IsFiniteSet(table')
    BY <1>4, <1>7, FS_AddElement
  <2>. QED BY <1>1, <1>4, <1>5, <1>7, <2>1 DEF LoginInv, LoginTypes
<1>9. StagesTell'
  <2>1. \A c \in Callbacks : callback[c].pc = "exchange" => callback[c].login \in Logins /\
          callback[c].login # l
    BY <1>1 DEF LoginInv, LoginTypes, StagesTell, Entry!Idle, Exchange
  <2>2. \A k \in table' : login'[k].stage \in {"asked", "sent", "lost"}
    BY <1>1, <1>2, <1>4, <1>5, <1>7 DEF LoginInv, StagesTell
  <2>3. \A k \in Logins : sessions[k] \in {0, 1} /\
          (sessions[k] = 1 => login'[k].stage = "returned")
    BY <1>5, <1>6 DEF LoginInv, StagesTell
  <2>. QED BY <1>4, <1>5, <2>1, <2>2, <2>3 DEF LoginInv, StagesTell
<1>10. Entry!LoginIsKept'
  BY <1>1, <1>2, <1>4, <1>5 DEF LoginInv, Entry!LoginIsKept, LiveNow, LoginTypes, LoginRow
<1>11. WithinLimits'
  <2>1. LiveNow' \subseteq LiveNow \cup {l}
    BY <1>4, <1>5 DEF LiveNow
  <2>2. /\ Cardinality(LiveNow) \in Nat /\ IsFiniteSet(LiveNow \cup {l})
        /\ Cardinality(LiveNow \cup {l}) <= Cardinality(LiveNow) + 1
    BY <1>7, OneMore
  <2>3. /\ IsFiniteSet(LiveNow') /\ Cardinality(LiveNow') <= Cardinality(LiveNow \cup {l})
    BY <2>1, <2>2, FS_Subset
  <2>4. Cardinality(LiveNow') \in Nat /\ Cardinality(LiveNow \cup {l}) \in Nat
    BY <2>2, <2>3, FS_CardinalityType
  <2>5. Cardinality(LiveNow') <= MAX_LOGIN_GLOBAL
    BY <1>4, <2>2, <2>3, <2>4, LoginAssumption
  <2>6. ASSUME NEW t \in Sources PROVE Cardinality(FromNow(t)') <= MAX_LOGIN_SOURCE
    <3>1. FromNow(t)' \subseteq IF t = s THEN FromNow(t) \cup {l} ELSE FromNow(t)
      BY <1>1, <1>2, <1>5, <1>7, <2>1 DEF FromNow
    <3>2. IsFiniteSet(FromNow(t))
      BY <1>7, FS_Subset DEF FromNow
    <3>3. /\ Cardinality(FromNow(t)) \in Nat /\ IsFiniteSet(FromNow(t) \cup {l})
          /\ Cardinality(FromNow(t) \cup {l}) <= Cardinality(FromNow(t)) + 1
      BY <3>2, OneMore
    <3>4. CASE t = s
      <4>1. IsFiniteSet(FromNow(t)') /\
              Cardinality(FromNow(t)') <= Cardinality(FromNow(t) \cup {l})
        BY <3>1, <3>3, <3>4, FS_Subset
      <4>2. Cardinality(FromNow(t)') \in Nat /\ Cardinality(FromNow(t) \cup {l}) \in Nat
        BY <3>3, <4>1, FS_CardinalityType
      <4>. QED BY <1>4, <3>3, <3>4, <4>1, <4>2, LoginAssumption
    <3>5. CASE t # s
      <4>1. IsFiniteSet(FromNow(t)') /\ Cardinality(FromNow(t)') <= Cardinality(FromNow(t))
        BY <3>1, <3>2, <3>5, FS_Subset
      <4>2. Cardinality(FromNow(t)') \in Nat
        BY <4>1, FS_CardinalityType
      <4>. QED BY <3>3, <4>1, <4>2, LoginAssumption DEF LoginInv, WithinLimits
    <3>. QED BY <3>4, <3>5
  <2>. QED BY <2>5, <2>6 DEF WithinLimits
<1>. QED BY <1>8, <1>9, <1>10, <1>11 DEF LoginInv

\* The browser is back: its login is out of the table, and exchanged if it was in date.
LEMMA CallbackOK ==
  ASSUME LoginInv, NEW l \in Logins, NEW b \in Callbacks, Entry!Callback(b, l)
  PROVE  LoginInv'
<1>. DEFINE row == [login[l] EXCEPT !.stage = "returned"]
            x == [pc |-> "exchange", login |-> l, now |-> now]
<1>1. /\ now \in Nat /\ login[l] \in LoginRow /\ login[l].stage \in {"sent", "returned"}
      /\ callback[b] = Entry!Idle /\ Entry!Idle.pc = "idle"
      /\ table' = table \ {l} /\ UNCHANGED <<now, sessions>>
      /\ login' = [login EXCEPT ![l] = row]
      /\ table \subseteq Logins /\ IsFiniteSet(table)
  BY DEF Entry!Callback, Entry!CameBack, Entry!Idle, LoginInv, LoginTypes
<1>2. /\ row \in LoginRow /\ row.stage = "returned" /\ row.source = login[l].source
      /\ row.expires = login[l].expires
  BY <1>1 DEF LoginRow
<1>. HIDE DEF row
<1>3. /\ login' \in [Logins -> LoginRow]
      /\ \A k \in Logins : login'[k] = IF k = l THEN row ELSE login[k]
  BY <1>1, <1>2 DEF LoginInv, LoginTypes
<1>4. /\ x \in Exchange /\ x.pc = "exchange" /\ x.login = l /\ x.now = now
  BY <1>1 DEF Exchange
<1>5. callback' = IF l \in LiveNow THEN [callback EXCEPT ![b] = x] ELSE callback
  BY DEF Entry!Callback, Entry!Exchanging, Entry!Live, LiveNow
<1>. HIDE DEF x
<1>6. /\ DOMAIN callback = Callbacks /\ DOMAIN callback' = Callbacks
      /\ \A c \in Callbacks : \/ callback'[c] = callback[c]
                              \/ c = b /\ callback'[c] = x /\ l \in LiveNow
  BY <1>5 DEF LoginInv, LoginTypes
<1>7. LoginTypes'
  <2>1. IsFiniteSet(table')
    BY <1>1, FS_RemoveElement
  <2>. QED BY <1>1, <1>3, <1>4, <1>6, <2>1 DEF LoginInv, LoginTypes
<1>8. StagesTell'
  <2>1. \A k \in table' : login'[k].stage \in {"asked", "sent", "lost"}
    BY <1>1, <1>3 DEF LoginInv, StagesTell
  <2>2. \A k \in Logins : sessions[k] \in {0, 1} /\
          (sessions[k] = 1 => login'[k].stage = "returned")
    BY <1>2, <1>3 DEF LoginInv, StagesTell
  <2>3. \A c \in Callbacks : callback[c].pc = "exchange" => callback[c].login \in Logins
    BY <1>1 DEF LoginInv, LoginTypes, Exchange
  <2>4. l \in LiveNow => /\ sessions[l] = 0 /\ now < login[l].expires
                         /\ \A c \in Callbacks : callback[c].pc = "exchange" =>
                              callback[c].login # l
    <3>1. l \in LiveNow => login[l].stage # "returned" /\ login[l].expires > now
      BY DEF LiveNow, LoginInv, StagesTell
    <3>2. login[l].expires \in Nat
      BY <1>1 DEF LoginRow
    <3>. QED BY <1>1, <3>1, <3>2 DEF LoginInv, StagesTell
  <2>5. ASSUME NEW c \in Callbacks, callback'[c].pc = "exchange"
        PROVE  /\ login'[callback'[c].login].stage = "returned"
               /\ callback'[c].now < login'[callback'[c].login].expires
               /\ sessions[callback'[c].login] = 0
               /\ \A d \in Callbacks :
                    callback'[d].pc = "exchange" /\ callback'[d].login = callback'[c].login =>
                      d = c
    <3>1. CASE callback'[c] = callback[c]
      <4>1. /\ login'[callback[c].login].stage = "returned"
            /\ callback[c].now < login'[callback[c].login].expires
            /\ sessions[callback[c].login] = 0
        BY <1>2, <1>3, <2>3, <2>5, <3>1 DEF LoginInv, StagesTell
      <4>2. \A d \in Callbacks :
              callback'[d].pc = "exchange" /\ callback'[d].login = callback[c].login => d = c
        BY <1>4, <1>6, <2>4, <2>5, <3>1 DEF LoginInv, StagesTell
      <4>. QED BY <3>1, <4>1, <4>2
    <3>2. CASE c = b /\ callback'[c] = x /\ l \in LiveNow
      BY <1>1, <1>2, <1>3, <1>4, <1>6, <2>4, <3>2
    <3>. QED BY <1>6, <3>1, <3>2
  <2>. QED BY <1>1, <2>1, <2>2, <2>5 DEF StagesTell
<1>9. Entry!LoginIsKept'
  BY <1>1, <1>2, <1>3 DEF LoginInv, Entry!LoginIsKept
<1>10. WithinLimits'
  <2>1. IsFiniteSet(table')
    BY <1>1, FS_RemoveElement
  <2>2. LiveNow' \subseteq LiveNow /\ \A k \in LiveNow' : login'[k].source = login[k].source
    BY <1>1, <1>2, <1>3 DEF LiveNow
  <2>. QED BY <2>1, <2>2, FewerAreWithin
<1>. QED BY <1>7, <1>8, <1>9, <1>10 DEF LoginInv

\* An exchange ends, with a session or without.
LEMMA ExchangeOK ==
  ASSUME LoginInv, NEW b \in Callbacks, Entry!SessionOpened(b) \/ Entry!SignInFailed(b)
  PROVE  LoginInv'
<1>. DEFINE l == callback[b].login
<1>1. /\ l \in Logins /\ login[l].stage = "returned" /\ sessions[l] = 0
      /\ callback[b].pc = "exchange"
      /\ \A d \in Callbacks : callback[d].pc = "exchange" /\ callback[d].login = l => d = b
      /\ callback' = [callback EXCEPT ![b] = Entry!Idle] /\ UNCHANGED <<now, table, login>>
  BY DEF Entry!SessionOpened, Entry!SignInFailed, Entry!Idle, Exchange, LoginInv, LoginTypes,
         StagesTell
<1>2. Entry!Idle.pc = "idle"
  BY DEF Entry!Idle
<1>3. /\ \A c \in Callbacks : callback'[c] = IF c = b THEN Entry!Idle ELSE callback[c]
      /\ DOMAIN callback' = Callbacks
  BY <1>1 DEF LoginInv, LoginTypes
<1>4. sessions' = sessions \/ sessions' = [sessions EXCEPT ![l] = 1]
  BY <1>1 DEF Entry!SessionOpened, Entry!SignInFailed
<1>. HIDE DEF l
<1>5. /\ sessions' \in [Logins -> Nat]
      /\ \A k \in Logins : sessions'[k] = sessions[k] \/ (k = l /\ sessions'[k] = 1)
  BY <1>1, <1>4 DEF LoginInv, LoginTypes
<1>6. LoginTypes'
  BY <1>1, <1>3, <1>5 DEF LoginInv, LoginTypes
<1>7. StagesTell'
  <2>1. \A c \in Callbacks : callback'[c].pc = "exchange" =>
          callback'[c] = callback[c] /\ callback[c].login # l /\ callback[c].login \in Logins
    BY <1>1, <1>2, <1>3 DEF LoginInv, LoginTypes, Entry!Idle, Exchange
  <2>. QED BY <1>1, <1>5, <2>1 DEF LoginInv, StagesTell
<1>8. Entry!LoginIsKept' /\ WithinLimits'
  BY <1>1 DEF LoginInv, Entry!LoginIsKept, WithinLimits, LiveNow, FromNow
<1>. QED BY <1>6, <1>7, <1>8 DEF LoginInv

\* The other steps.
LEMMA OtherLoginStep ==
  ASSUME LoginInv,
         \/ \E l \in Logins : Entry!Redirect(l)
         \/ \E s \in Sources : Entry!RateLimited(s)
         \/ Entry!Restart \/ Entry!Tick
  PROVE  LoginInv'
<1>1. /\ now \in Nat /\ table \subseteq Logins /\ IsFiniteSet(table)
      /\ login \in [Logins -> LoginRow] /\ sessions \in [Logins -> Nat]
      /\ DOMAIN callback = Callbacks
  BY DEF LoginInv, LoginTypes
<1>2. ASSUME NEW l \in Logins, Entry!Redirect(l) PROVE LoginInv'
  <2>1. PICK stage \in {"sent", "lost"} : login' = [login EXCEPT ![l].stage = stage]
    BY <1>2 DEF Entry!Redirect
  <2>. DEFINE row == [login[l] EXCEPT !.stage = stage]
  <2>2. /\ login[l] \in LoginRow /\ login[l].stage = "asked"
        /\ UNCHANGED <<now, table, callback, sessions>> /\ login' = [login EXCEPT ![l] = row]
    BY <1>1, <1>2, <2>1 DEF Entry!Redirect
  <2>3. /\ row \in LoginRow /\ row.stage = stage /\ row.source = login[l].source
        /\ row.expires = login[l].expires
    BY <2>2 DEF LoginRow
  <2>. HIDE DEF row
  <2>4. /\ login' \in [Logins -> LoginRow]
        /\ \A k \in Logins : login'[k] = IF k = l THEN row ELSE login[k]
    BY <1>1, <2>2, <2>3
  <2>5. LoginTypes'
    BY <2>2, <2>4 DEF LoginInv, LoginTypes
  <2>6. StagesTell'
    <3>1. \A c \in Callbacks : callback[c].pc = "exchange" => callback[c].login \in Logins
      BY DEF LoginInv, LoginTypes, Entry!Idle, Exchange
    <3>2. \A k \in Logins : /\ login'[k].expires = login[k].expires
                            /\ login[k].stage = "returned" => login'[k].stage = "returned"
                            /\ \/ login'[k].stage = login[k].stage
                               \/ login'[k].stage \in {"sent", "lost"}
      BY <2>2, <2>3, <2>4
    <3>. QED BY <1>1, <2>2, <3>1, <3>2 DEF LoginInv, StagesTell
  <2>7. Entry!LoginIsKept'
    BY <2>2, <2>3, <2>4 DEF LoginInv, Entry!LoginIsKept
  <2>8. LiveNow' \subseteq LiveNow /\ \A k \in LiveNow' : login'[k].source = login[k].source
    BY <1>1, <2>2, <2>3, <2>4 DEF LiveNow
  <2>. QED BY <1>1, <2>2, <2>5, <2>6, <2>7, <2>8, FewerAreWithin DEF LoginInv
<1>3. ASSUME NEW s \in Sources, Entry!RateLimited(s) PROVE LoginInv'
  <2>1. table' = LiveNow /\ UNCHANGED <<now, login, callback, sessions>>
    BY <1>3 DEF Entry!RateLimited, Entry!Live, LiveNow
  <2>2. IsFiniteSet(table') /\ table' \subseteq table
    BY <1>1, <2>1, FS_Subset DEF LiveNow
  <2>3. LiveNow' \subseteq LiveNow
    BY <2>1, <2>2 DEF LiveNow
  <2>4. LoginTypes' /\ StagesTell'
    BY <1>1, <2>1, <2>2 DEF LoginInv, LoginTypes, StagesTell
  <2>5. Entry!LoginIsKept'
    BY <1>1, <2>1 DEF LoginInv, Entry!LoginIsKept, LiveNow, LoginRow
  <2>. QED BY <2>1, <2>2, <2>3, <2>4, <2>5, FewerAreWithin DEF LoginInv
<1>4. CASE Entry!Restart
  <2>1. /\ UNCHANGED <<now, table, sessions>>
        /\ callback' = [c \in Callbacks |-> Entry!Idle]
        /\ login' = [l \in Logins |-> IF login[l].stage = "asked"
                                      THEN [login[l] EXCEPT !.stage = "lost"] ELSE login[l]]
    BY <1>4 DEF Entry!Restart
  <2>2. \A l \in Logins :
          /\ login'[l] \in LoginRow /\ login'[l].source = login[l].source
          /\ login'[l].expires = login[l].expires
          /\ \/ login'[l].stage = login[l].stage
             \/ login[l].stage = "asked" /\ login'[l].stage = "lost"
    BY <1>1, <2>1 DEF LoginRow
  <2>3. /\ \A c \in Callbacks : callback'[c] = Entry!Idle /\ callback'[c].pc = "idle"
        /\ DOMAIN callback' = Callbacks /\ DOMAIN login' = Logins
    BY <2>1 DEF Entry!Idle
  <2>4. login' \in [Logins -> LoginRow]
    BY <2>1, <2>2
  <2>5. LoginTypes' /\ StagesTell'
    BY <1>1, <2>1, <2>2, <2>3, <2>4 DEF LoginInv, LoginTypes, StagesTell
  <2>6. Entry!LoginIsKept'
    BY <2>1, <2>2 DEF LoginInv, Entry!LoginIsKept
  <2>7. LiveNow' \subseteq LiveNow /\ \A k \in LiveNow' : login'[k].source = login[k].source
    BY <1>1, <2>1, <2>2 DEF LiveNow
  <2>. QED BY <1>1, <2>1, <2>5, <2>6, <2>7, FewerAreWithin DEF LoginInv
<1>5. CASE Entry!Tick
  <2>1. now' = now + 1 /\ UNCHANGED <<table, login, callback, sessions>>
    BY <1>5 DEF Entry!Tick
  <2>2. LoginTypes' /\ StagesTell'
    BY <1>1, <2>1 DEF LoginInv, LoginTypes, StagesTell
  <2>3. \A l \in Logins : login[l].expires \in Nat
    BY <1>1 DEF LoginRow
  <2>4. Entry!LoginIsKept'
    BY <1>1, <2>1, <2>3 DEF LoginInv, Entry!LoginIsKept
  <2>5. LiveNow' \subseteq LiveNow
    BY <1>1, <2>1, <2>3 DEF LiveNow
  <2>. QED BY <1>1, <2>1, <2>2, <2>4, <2>5, FewerAreWithin DEF LoginInv
<1>. QED BY <1>2, <1>3, <1>4, <1>5

\* The strengthened invariant: the stage of a login says in which of its three places
\* it may be, and that is what keeps it in one.
THEOREM LoginInvariance == MCSpec => []LoginInv
<1>1. MCInit => LoginInv
  <2>. SUFFICES ASSUME MCInit PROVE LoginInv
    OBVIOUS
  <2>1. /\ now = 0 /\ table = {} /\ sessions = [l \in Logins |-> 0]
        /\ login \in [Logins -> {Entry!Unused(s) : s \in Sources}]
        /\ callback = [c \in Callbacks |-> Entry!Idle]
    BY DEF MCInit, Entry!Init
  <2>2. \A l \in Logins : /\ login[l] \in LoginRow /\ login[l].stage = "unused"
                          /\ login[l].expires = 0
    BY <2>1 DEF Entry!Unused, LoginRow
  <2>3. LoginTypes /\ StagesTell /\ Entry!LoginIsKept
    BY <2>1, <2>2, FS_EmptySet DEF LoginTypes, StagesTell, Entry!LoginIsKept, Entry!Idle
  <2>4. LiveNow = {} /\ \A s \in Sources : FromNow(s) = {}
    BY <2>1 DEF LiveNow, FromNow
  <2>5. WithinLimits
    BY <2>4, FS_EmptySet, LoginAssumption DEF WithinLimits
  <2>. QED BY <2>3, <2>5 DEF LoginInv
<1>2. LoginInv /\ [MCNext]_MCvars => LoginInv'
  <2>. SUFFICES ASSUME LoginInv, [MCNext]_MCvars PROVE LoginInv'
    OBVIOUS
  <2>1. CASE UNCHANGED loginVars
    BY <2>1 DEF loginVars, LoginInv, LoginTypes, StagesTell, Entry!LoginIsKept, WithinLimits,
                LiveNow, FromNow
  <2>2. CASE Entry!Next
    BY <2>2, StoredOK, CallbackOK, ExchangeOK, OtherLoginStep DEF Entry!Next
  <2>3. Entry!Next \/ UNCHANGED loginVars
    BY DEF MCNext, MCvars, ReadStep, ChangeStep, CapabilityStep, LoginStep
  <2>. QED BY <2>1, <2>2, <2>3
<1>. QED BY <1>1, <1>2, PTL DEF MCSpec

\* login and callback of session_adapter.py: a login is in one place, once, and opens one
\* session at most; it is there for its browser; and the limits hold.
THEOREM SignInsAreAccounted == MCSpec => []SignInsAccounted
<1>1. LoginInv => SignInsAccounted
  <2>. SUFFICES ASSUME LoginInv PROVE SignInsAccounted
    OBVIOUS
  <2>1. Entry!LimitsHold
    <3>1. Entry!Live = LiveNow /\ \A s \in Sources : Entry!From(s) = FromNow(s)
      BY DEF Entry!Live, Entry!From, LiveNow, FromNow
    <3>. QED BY <3>1, SameCount DEF LoginInv, WithinLimits, Entry!LimitsHold
  <2>2. ASSUME NEW l \in Logins
        PROVE  LET exchanges ==
                     {c \in Callbacks : callback[c].pc = "exchange" /\ callback[c].login = l}
               IN  /\ Entry!Cardinality({l} \cap table) + Entry!Cardinality(exchanges) + sessions[l] <= 1
                   /\ \A c \in exchanges : callback[c].now < login[l].expires
    <3>. DEFINE exchanges ==
           {c \in Callbacks : callback[c].pc = "exchange" /\ callback[c].login = l}
    <3>1. \A c \in exchanges : /\ callback[c].now < login[l].expires /\ sessions[l] = 0
                               /\ login[l].stage = "returned" /\ exchanges = {c}
      BY DEF LoginInv, StagesTell
    <3>2. l \in table => login[l].stage # "returned"
      BY DEF LoginInv, StagesTell
    <3>3. sessions[l] \in {0, 1} /\ (sessions[l] = 1 => login[l].stage = "returned")
      BY DEF LoginInv, StagesTell
    <3>4. exchanges = {} \/ \E c \in exchanges : exchanges = {c}
      BY <3>1
    <3>. HIDE DEF exchanges
    <3>5. Cardinality(exchanges) = IF exchanges = {} THEN 0 ELSE 1
      BY <3>4, FS_EmptySet, FS_Singleton
    <3>6. Cardinality({l} \cap table) = IF l \in table THEN 1 ELSE 0
      <4>1. {l} \cap table = IF l \in table THEN {l} ELSE {}
        OBVIOUS
      <4>. QED BY <4>1, FS_EmptySet, FS_Singleton
    <3>7. Cardinality({l} \cap table) + Cardinality(exchanges) + sessions[l] <= 1
      BY <3>1, <3>2, <3>3, <3>5, <3>6
    <3>. QED BY <3>1, <3>7, SameCount DEF exchanges
  <2>3. Entry!OneSessionPerLogin
    BY <2>2 DEF Entry!OneSessionPerLogin
  <2>. QED BY <2>1, <2>3 DEF SignInsAccounted, Entry!SignInsAccounted, LoginInv
<1>. QED BY <1>1, LoginInvariance, PTL
=============================================================================
