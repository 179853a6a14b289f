----------------------------- MODULE TimedProofs -----------------------------
(***************************************************************************)
(* Proofs about the components MCTimed composes: the visibility boundary, the   *)
(* alert gate (FleetAlert), the schedule provider (ScheduleProvider) and the    *)
(* estate read (EstateRead), each for every value of its constants.            *)
(* MCTimed runs one of them at a time, so a step of one leaves the variables    *)
(* of the others alone.                                                      *)
(***************************************************************************)
EXTENDS MCTimed, FiniteSetTheorems, SequenceTheorems, TLAPS

-----------------------------------------------------------------------------
(* VisibilityBoundary, for every number of calls, threads, places and retries. *)

Call == [pc : CallState, attempt : 0..(Retries + 1), result : Result]
UnderWay == {"queued", "running"}

\* The slots are counted in naturals.
LEMMA HoldersFinite ==
  ASSUME released \in SUBSET Calls
  PROVE  /\ IsFiniteSet(Holders) /\ Cardinality(Holders) \in Nat
         /\ Capacity \in Nat
<1>1. Holders \in SUBSET Calls
  BY DEF Holders
<1>. QED BY <1>1, CallsAssumption, BoundsAssumption, FS_Subset, FS_CardinalityType
         DEF Capacity

\* A call that comes to hold a slot, or gives it back, is one holder more or
\* less.
LEMMA HoldersStep ==
  ASSUME IsFiniteSet(Holders), NEW c
  PROVE  /\ c \notin Holders /\ Holders' = Holders \cup {c} =>
              Cardinality(Holders') = Cardinality(Holders) + 1
         /\ c \in Holders /\ Holders' = Holders \ {c} =>
              Cardinality(Holders') = Cardinality(Holders) - 1
BY FS_AddElement, FS_RemoveElement

\* The invariant holds at the start.
LEMMA InitIInv == Init => IInv
<1>. SUFFICES ASSUME Init PROVE IInv
  OBVIOUS
<1>1. Holders = {}
  BY DEF Init, Holders
<1>2. SlotsAccounted
  BY <1>1, HoldersFinite, FS_EmptySet DEF SlotsAccounted, Init
<1>3. TypeOK
  BY BoundsAssumption
  DEF Init, TypeOK, Capacity, CallState, Result, FutureState
<1>4. ASSUME NEW c \in Calls PROVE CallInv(c)
  BY BoundsAssumption DEF Init, CallInv, Attempts
<1>. QED BY <1>2, <1>3, <1>4 DEF IInv

\* What the steps of a call may use.
LEMMA CallFacts ==
  ASSUME IInv, NEW c \in Calls
  PROVE  /\ call[c] \in Call /\ CallInv(c)
         /\ future[c] \in [Attempts -> FutureState]
         /\ slots \in Nat /\ Retries \in Nat
         /\ Cardinality(Holders) \in Nat /\ IsFiniteSet(Holders)
         /\ slots + Cardinality(Holders) = Capacity /\ Capacity \in Nat
BY HoldersFinite, BoundsAssumption DEF IInv, TypeOK, SlotsAccounted, Call

Quiet(c) == \A d \in Calls : d # c =>
  call'[d] = call[d] /\ future'[d] = future[d] /\ (d \in released' <=> d \in released)

\* A step of one call keeps the invariant if it keeps what holds of that call
\* and moves a slot exactly when the call becomes a holder or ceases to be one.
LEMMA OneCall ==
  ASSUME IInv, NEW c \in Calls, Quiet(c),
         call' \in [Calls -> Call], future' \in [Calls -> [Attempts -> FutureState]],
         released' \in SUBSET Calls, CallInv(c)',
         \/ slots' = slots /\ (c \in Holders' <=> c \in Holders)
         \/ slots > 0 /\ slots' = slots - 1 /\ c \notin Holders /\ c \in Holders'
         \/ slots' = slots + 1 /\ c \in Holders /\ c \notin Holders'
  PROVE  IInv'
<1>1. \A d \in Calls : d # c => (d \in Holders' <=> d \in Holders)
  BY DEF Quiet, Holders
<1>2. Holders \in SUBSET Calls /\ Holders' \in SUBSET Calls
  BY DEF Holders, IInv, TypeOK
<1>. DEFINE h == Cardinality(Holders)
<1>0. slots \in Nat /\ h \in Nat /\ Capacity \in Nat /\ slots + h = Capacity
  BY CallFacts
<1>3. slots' + Cardinality(Holders') = Capacity /\ slots' \in Nat
  <2>1. CASE slots' = slots /\ (c \in Holders' <=> c \in Holders)
    <3>1. Holders' = Holders
      <4>1. \A d \in Calls : d \in Holders' <=> d \in Holders
        BY <1>1, <2>1
      <4>. QED BY <1>2, <4>1
    <3>2. Cardinality(Holders') = h
      BY <3>1
    <3>. HIDE DEF h
    <3>. QED BY <1>0, <2>1, <3>2
  <2>2. CASE slots > 0 /\ slots' = slots - 1 /\ c \notin Holders /\ c \in Holders'
    <3>1. Holders' = Holders \cup {c}
      BY <1>1, <1>2, <2>2
    <3>2. Cardinality(Holders') = h + 1
      BY <2>2, <3>1, CallFacts, HoldersStep
    <3>. HIDE DEF h
    <3>. QED BY <1>0, <2>2, <3>2
  <2>3. CASE slots' = slots + 1 /\ c \in Holders /\ c \notin Holders'
    <3>1. Holders' = Holders \ {c}
      BY <1>1, <1>2, <2>3
    <3>2. Cardinality(Holders') = h - 1
      BY <2>3, <3>1, CallFacts, HoldersStep
    <3>. HIDE DEF h
    <3>. QED BY <1>0, <2>3, <3>2
  <2>. QED BY <2>1, <2>2, <2>3
<1>4. slots' \in 0..Capacity
  <2>1. Cardinality(Holders') \in Nat /\ Capacity \in Nat
    BY <1>2, CallFacts, CallsAssumption, FS_Subset, FS_CardinalityType
  <2>. QED BY <1>3, <2>1
<1>5. ASSUME NEW d \in Calls PROVE CallInv(d)'
  <2>1. CASE d # c
    BY <2>1, CallFacts DEF Quiet, CallInv
  <2>. QED BY <2>1
<1>. QED BY <1>3, <1>4, <1>5 DEF IInv, TypeOK, SlotsAccounted, Call, Capacity

\* The end of a call.
LEMMA EndedStep ==
  ASSUME IInv, NEW c \in Calls, NEW result \in Result, Ended(c, result)
  PROVE  /\ call' \in [Calls -> Call]
         /\ call'[c].pc = "ended" /\ call'[c].attempt = call[c].attempt
         /\ \A d \in Calls : d # c => call'[d] = call[d]
<1>1. call \in [Calls -> Call]
  BY DEF IInv, TypeOK, Call
<1>. QED BY <1>1 DEF Ended, Call, CallState

\* The steps of invoke that start or continue a call.
LEMMA AdmitStep == ASSUME IInv, NEW c \in Calls, Admit(c) PROVE IInv'
<1>. call \in [Calls -> Call] /\ Retries \in Nat
  BY BoundsAssumption DEF IInv, TypeOK, Call
<1>. DEFINE r == [pc |-> "submitting", attempt |-> 1, result |-> "none"]
<1>1. call' = [call EXCEPT ![c] = r] /\ r \in Call
  BY DEF Admit, Call, CallState, Result
<1>2. Quiet(c) /\ call' \in [Calls -> Call] /\ call'[c] = r
  BY <1>1 DEF Quiet, Admit
<1>3. CallInv(c)'
  BY <1>2, CallFacts DEF Admit, CallInv, Attempts
<1>4. c \notin Holders /\ c \in Holders'
  BY <1>2, CallFacts DEF Holders, Admit, CallInv
<1>. QED BY <1>2, <1>3, <1>4, OneCall DEF Admit, IInv, TypeOK

\* A refused call holds no slot.
LEMMA OverloadStep == ASSUME IInv, NEW c \in Calls, Overload(c) PROVE IInv'
<1>. "overloaded" \in Result
  BY DEF Result
<1>1. /\ call' \in [Calls -> Call] /\ call'[c].pc = "ended"
      /\ call'[c].attempt = call[c].attempt /\ Quiet(c)
  BY EndedStep DEF Overload, Quiet
<1>2. c \notin Holders /\ c \notin Holders'
  BY <1>1, CallFacts DEF Holders, Overload, CallInv
<1>3. CallInv(c)'
  BY <1>1, CallFacts DEF Overload, CallInv
<1>. QED BY <1>1, <1>2, <1>3, OneCall DEF Overload, IInv, TypeOK

\* A submitted attempt is the last one of its call.
LEMMA SubmitStep == ASSUME IInv, NEW c \in Calls, Submit(c) PROVE IInv'
<1>. call \in [Calls -> Call] /\ future \in [Calls -> [Attempts -> FutureState]]
  BY DEF IInv, TypeOK, Call
<1>. DEFINE n == call[c].attempt
<1>0. n \in Attempts
  BY CallFacts DEF Submit, CallInv
<1>1. /\ call' \in [Calls -> Call] /\ call'[c].pc = "waiting" /\ call'[c].attempt = n
      /\ \A d \in Calls : d # c => call'[d] = call[d]
  BY DEF Submit, Call, CallState
<1>2. /\ future' \in [Calls -> [Attempts -> FutureState]]
      /\ future'[c] = [future[c] EXCEPT ![n] = "queued"]
      /\ \A d \in Calls : d # c => future'[d] = future[d]
  BY <1>0 DEF Submit, FutureState
<1>3. Quiet(c)
  BY <1>1, <1>2 DEF Quiet, Submit
<1>4. CallInv(c)'
  BY <1>0, <1>1, <1>2, CallFacts DEF Submit, CallInv
<1>5. c \in Holders /\ c \in Holders'
  BY <1>1 DEF Holders, Submit
<1>. QED BY <1>1, <1>2, <1>3, <1>4, <1>5, OneCall DEF Submit, IInv, TypeOK

\* A retry comes after attempts that raised.
LEMMA RetryStep == ASSUME IInv, NEW c \in Calls, Retry(c) PROVE IInv'
<1>. call \in [Calls -> Call] /\ Retries \in Nat
  BY BoundsAssumption DEF IInv, TypeOK, Call
<1>. DEFINE n == call[c].attempt
            r == [pc |-> "submitting", attempt |-> n + 1, result |-> "none"]
<1>0. n \in Attempts /\ n + 1 \in Attempts /\ call[c].pc = "waiting"
  BY CallFacts DEF Retry, CallInv, Attempts
<1>1. call' = [call EXCEPT ![c] = r] /\ r \in Call
  BY <1>0 DEF Retry, Call, CallState, Result, Attempts
<1>2. Quiet(c) /\ call' \in [Calls -> Call] /\ call'[c] = r
  BY <1>1 DEF Quiet, Retry
<1>a. /\ future' = future /\ released' = released /\ future[c][n] = "raised"
      /\ n \in Nat /\ \A m \in Attempts : m \in Nat
  BY <1>0 DEF Retry, Current, Attempts
<1>b. CallInv(c)
  BY CallFacts
<1>c. \A m \in Attempts : m < n + 1 => m < n \/ m = n
  BY <1>a
<1>d. \A m \in Attempts : m > n + 1 => m > n
  BY <1>a
<1>3. CallInv(c)'
  BY <1>0, <1>2, <1>a, <1>b, <1>c, <1>d DEF CallInv
<1>4. c \in Holders /\ c \in Holders'
  BY <1>0, <1>2 DEF Holders
<1>. QED BY <1>2, <1>3, <1>4, OneCall DEF Retry, IInv, TypeOK

\* A timeout leaves the slot with the call.
LEMMA TimeOutStep == ASSUME IInv, NEW c \in Calls, TimeOut(c) PROVE IInv'
<1>. call \in [Calls -> Call]
  BY DEF IInv, TypeOK, Call
<1>1. /\ call' \in [Calls -> Call] /\ call'[c].pc = "abandoning"
      /\ call'[c].attempt = call[c].attempt
      /\ \A d \in Calls : d # c => call'[d] = call[d]
  BY DEF TimeOut, Call, CallState
<1>2. Quiet(c)
  BY <1>1 DEF Quiet, TimeOut
<1>3. CallInv(c)'
  BY <1>1, CallFacts DEF TimeOut, CallInv
<1>4. c \in Holders /\ c \in Holders'
  BY <1>1 DEF Holders, TimeOut
<1>. QED BY <1>1, <1>2, <1>3, <1>4, OneCall DEF TimeOut, IInv, TypeOK

\* The steps that end a call.
LEMMA JudgeStep == ASSUME IInv, NEW c \in Calls, Judge(c) PROVE IInv'
<1>0. PICK result \in Result : Ended(c, result)
  BY DEF Judge, Result
<1>1. /\ call' \in [Calls -> Call] /\ call'[c].pc = "ended"
      /\ call'[c].attempt = call[c].attempt /\ Quiet(c)
  BY <1>0, EndedStep DEF Judge, Quiet
<1>2. call[c].pc = "waiting" /\ c \notin released
  BY CallFacts DEF Judge, CallInv
<1>3. c \in Holders /\ c \notin Holders'
  BY <1>1, <1>2 DEF Holders, Judge
<1>4. Current(c) \notin UnderWay
  BY DEF Judge, UnderWay
<1>5. CallInv(c)'
  BY <1>1, <1>2, <1>4, CallFacts DEF Judge, CallInv, Current, UnderWay
<1>. QED BY <1>1, <1>3, <1>5, OneCall DEF Judge, IInv, TypeOK

\* An abandoned call passes its slot to its future or frees it.
LEMMA AbandonStep == ASSUME IInv, NEW c \in Calls, Abandon(c) PROVE IInv'
<1>. "timeout" \in Result
  BY DEF Result
<1>. DEFINE n == call[c].attempt
<1>1. /\ call' \in [Calls -> Call] /\ call'[c].pc = "ended" /\ call'[c].attempt = n
      /\ \A d \in Calls : d # c => call'[d] = call[d]
  BY EndedStep DEF Abandon
<1>2. call[c].pc = "abandoning" /\ c \notin released /\ n \in Attempts
  BY CallFacts DEF Abandon, CallInv
<1>3. Active(c) => future[c][n] \in UnderWay
  BY CallFacts DEF Active, CallInv, UnderWay
<1>5. CASE Active(c)
  <2>1. released' = released \cup {c} /\ UNCHANGED <<slots, future>>
    BY <1>5 DEF Abandon
  <2>2. Quiet(c) /\ c \in Holders /\ c \in Holders'
    BY <1>1, <1>2, <2>1 DEF Quiet, Holders
  <2>3. CallInv(c)'
    BY <1>1, <1>2, <1>3, <1>5, <2>1, CallFacts DEF CallInv, UnderWay
  <2>. QED BY <1>1, <2>1, <2>2, <2>3, OneCall DEF IInv, TypeOK
<1>6. CASE ~Active(c)
  <2>1. slots' = slots + 1 /\ UNCHANGED <<released, future>>
    BY <1>6 DEF Abandon
  <2>2. Quiet(c) /\ c \in Holders /\ c \notin Holders'
    BY <1>1, <1>2, <2>1 DEF Quiet, Holders
  <2>3. CallInv(c)'
    BY <1>1, <1>2, <1>6, <2>1, CallFacts DEF CallInv, Active
  <2>. QED BY <1>1, <2>1, <2>2, <2>3, OneCall DEF IInv, TypeOK
<1>. QED BY <1>5, <1>6

\* The steps of the pool.
LEMMA StartStep ==
  ASSUME IInv, NEW c \in Calls, NEW n \in Attempts, Start(c, n) PROVE IInv'
<1>. future \in [Calls -> [Attempts -> FutureState]]
  BY DEF IInv, TypeOK
<1>1. /\ future' \in [Calls -> [Attempts -> FutureState]]
      /\ future'[c] = [future[c] EXCEPT ![n] = "running"]
      /\ \A d \in Calls : d # c => future'[d] = future[d]
  BY DEF Start, FutureState
<1>2. Quiet(c) /\ (c \in Holders' <=> c \in Holders)
  BY <1>1 DEF Quiet, Start, Holders
<1>3. n = call[c].attempt
  BY CallFacts DEF Start, CallInv
<1>4. CallInv(c)'
  BY <1>1, <1>3, CallFacts DEF Start, CallInv
<1>. QED BY <1>1, <1>2, <1>4, OneCall DEF Start, IInv, TypeOK, Call

\* A provider that returns frees the slot of an abandoned call only.
LEMMA ReturnStep ==
  ASSUME IInv, NEW c \in Calls, NEW n \in Attempts, Return(c, n) PROVE IInv'
<1>. future \in [Calls -> [Attempts -> FutureState]]
  BY DEF IInv, TypeOK
<1>0. PICK outcome \in Outcome : future' = [future EXCEPT ![c][n] = outcome]
  BY DEF Return
<1>1. /\ future' \in [Calls -> [Attempts -> FutureState]]
      /\ future'[c] = [future[c] EXCEPT ![n] = outcome]
      /\ \A d \in Calls : d # c => future'[d] = future[d]
      /\ outcome \notin {"queued", "running"}
  BY <1>0 DEF FutureState, Outcome
<1>2. n = call[c].attempt /\ future[c][n] = "running"
  BY CallFacts DEF Return, CallInv
<1>3. CASE c \in released
  <2>1. slots' = slots + 1 /\ released' = released \ {c} /\ UNCHANGED call
    BY <1>3 DEF Return
  <2>2. call[c].pc = "ended"
    BY <1>3, CallFacts DEF CallInv
  <2>3. Quiet(c) /\ c \in Holders /\ c \notin Holders'
    BY <1>1, <1>3, <2>1, <2>2 DEF Quiet, Holders
  <2>4. CallInv(c)'
    BY <1>1, <1>2, <2>1, <2>2, CallFacts DEF CallInv
  <2>. QED BY <1>1, <2>1, <2>3, <2>4, OneCall DEF IInv, TypeOK, Call
<1>4. CASE c \notin released
  <2>1. UNCHANGED <<slots, released, call>>
    BY <1>4 DEF Return
  <2>2. Quiet(c) /\ (c \in Holders' <=> c \in Holders)
    BY <1>1, <2>1 DEF Quiet, Holders
  <2>3. CallInv(c)'
    BY <1>1, <1>2, <1>4, <2>1, CallFacts DEF CallInv
  <2>. QED BY <1>1, <2>1, <2>2, <2>3, OneCall DEF IInv, TypeOK, Call
<1>. QED BY <1>3, <1>4

\* Every step keeps the invariant.
LEMMA NextStep == ASSUME IInv, [Next]_vars PROVE IInv'
<1>1. CASE UNCHANGED vars
  BY <1>1 DEF vars, IInv, TypeOK, SlotsAccounted, Holders, CallInv
<1>2. CASE Next
  BY <1>2, AdmitStep, OverloadStep, SubmitStep, JudgeStep, RetryStep, TimeOutStep,
     AbandonStep, StartStep, ReturnStep DEF Next, Invoke
<1>. QED BY <1>1, <1>2

-----------------------------------------------------------------------------

\* The invariant is inductive: besides the count of the slots it says of each
\* call which of its attempts can be under way, which is what decides who gives
\* the slot back.
THEOREM Invariance == Spec => []IInv
BY InitIInv, NextStep, PTL DEF Spec

\* Type correctness; the semaphore is never released once too often.
THEOREM TypeCorrect == Spec => []TypeOK
BY Invariance, PTL DEF IInv

\* No slot leaks and none is given back twice.
THEOREM NoSlotLost == Spec => []SlotsAccounted
BY Invariance, PTL DEF IInv

\* Hung providers cannot pile up.
THEOREM WorkHeld == Spec => []WorkIsHeld
<1>1. IInv => WorkIsHeld
  BY DEF IInv, CallInv, WorkIsHeld, Holders
<1>. QED BY <1>1, Invariance, PTL

\* A provider call is started again only when the earlier ones have raised.
THEOREM NoRetryAfterTimeout == Spec => TimeoutIsFinal
<1>1. IInv /\ [Next]_vars =>
        [\A c \in Calls : \A n \in Attempts :
           future[c][n] = "none" /\ future'[c][n] # "none" =>
             \A m \in Attempts : m < n => future[c][m] = "raised"]_vars
  <2>. SUFFICES ASSUME IInv, Next, NEW c \in Calls, NEW n \in Attempts,
                       future[c][n] = "none", future'[c][n] # "none",
                       NEW m \in Attempts, m < n
                PROVE  future[c][m] = "raised"
    OBVIOUS
  <2>. future \in [Calls -> [Attempts -> FutureState]]
    BY DEF IInv, TypeOK
  <2>1. ASSUME NEW d \in Calls, Submit(d) PROVE future[c][m] = "raised"
    <3>1. call[d].attempt \in Attempts
      BY <2>1, CallFacts DEF Submit, CallInv
    <3>2. d = c /\ call[c].attempt = n
      BY <2>1, <3>1 DEF Submit
    <3>. QED BY <3>2, CallFacts DEF CallInv
  <2>2. ASSUME NEW d \in Calls, NEW k \in Attempts, Start(d, k) \/ Return(d, k)
        PROVE  FALSE
    BY <2>2 DEF Start, Return
  <2>. QED BY <2>1, <2>2
           DEF Next, Invoke, Admit, Overload, Judge, Retry, TimeOut, Abandon
<1>. QED BY <1>1, Invariance, PTL DEF Spec, TimeoutIsFinal

-----------------------------------------------------------------------------
(* FleetAlert                                                                *)

\* Steps of a poll that has called the sender and has not recorded it.
Called == {"send", "fired", "failed"}

AlertTypes ==
  /\ state \in [fingerprint : Alert!Fingerprint \cup {Alert!Never}, age : Alert!Age]
  /\ poll \in [pc : {"idle", "gate", "clear"} \cup Called, seen : Alert!Fingerprint,
       age : Alert!Age, at : Alert!Age]
  /\ drift \in Alert!Fingerprint /\ told \in Alert!Fingerprint
  /\ sent \in Alert!Age
  /\ missing \subseteq {"age", "fingerprint"}
  /\ lost \in Nat

\* What the last call of the sender was, is the file's business, unless its write was
\* lost, or the poll's until it is recorded; a poll that clears carries the file's age.
AgeIsOfLastCall ==
  /\ poll.pc \in Called => sent = poll.at
  /\ poll.pc \notin Called => sent = state.age \/ "age" \in missing
  /\ poll.pc = "clear" => poll.age = state.age

\* The file holds what the operator was told last, but while an alert that was
\* delivered is not recorded yet, and after its write was lost.
FileIsTold ==
  /\ poll.pc = "fired" => told = poll.seen
  /\ poll.pc # "fired" =>
       \/ told = state.fingerprint
       \/ state.fingerprint = Alert!Never /\ told = {}
       \/ "fingerprint" \in missing
  /\ poll.pc = "clear" => poll.seen = {}

AlertInv == AlertTypes /\ AgeIsOfLastCall /\ FileIsTold

\* Time keeps ages in their range.
LEMMA OlderIsAge ==
  ASSUME NEW age \in Alert!Age
  PROVE  Alert!Older(age) \in Alert!Age
BY CooldownAssumption DEF Alert!Older, Alert!Age

\* Each action keeps the types.
LEMMA AlertTypeStep ==
  ASSUME AlertTypes, [Alert!Next]_alertVars
  PROVE  AlertTypes'
<1>. USE DEF AlertTypes, Called
<1>1. Alert!NoPoll \in [pc : {"idle", "gate", "clear"} \cup Called, seen : Alert!Fingerprint,
        age : Alert!Age, at : Alert!Age]
  BY CooldownAssumption DEF Alert!NoPoll, Alert!Age, Alert!Fingerprint
<1>2. 0 \in Alert!Age /\ Cooldown \in Alert!Age
  BY CooldownAssumption DEF Alert!Age
<1>3. CASE Alert!Collect
  BY <1>1, <1>3 DEF Alert!Collect, Alert!NoPoll
<1>4. CASE Alert!Gate
  <2>1. poll' \in [pc : {"idle", "gate", "clear"} \cup Called, seen : Alert!Fingerprint,
          age : Alert!Age, at : Alert!Age]
    BY <1>1, <1>2, <1>4 DEF Alert!Gate
  <2>. QED BY <1>2, <1>4, <2>1 DEF Alert!Gate
<1>5. CASE Alert!Clear
  BY <1>1, <1>5 DEF Alert!Clear, Alert!Fingerprint
<1>6. CASE Alert!Send
  BY <1>6 DEF Alert!Send
<1>7. CASE Alert!Record
  BY <1>1, <1>7 DEF Alert!Record
<1>8. CASE Alert!LoseWrite
  BY <1>1, <1>8 DEF Alert!LoseWrite
<1>9. CASE Alert!Drift
  BY <1>9 DEF Alert!Drift
<1>10. CASE Alert!Tick
  BY <1>10, OlderIsAge DEF Alert!Tick
<1>11. CASE UNCHANGED alertVars
  BY <1>11 DEF alertVars
<1>. QED BY <1>3, <1>4, <1>5, <1>6, <1>7, <1>8, <1>9, <1>10, <1>11 DEF Alert!Next, Alert!Poll

\* Each action keeps the file in step with the sender, but for what is missing in it.
LEMMA CorrespondenceStep ==
  ASSUME AlertInv, [Alert!Next]_alertVars
  PROVE  AgeIsOfLastCall' /\ FileIsTold'
<1>. USE DEF AlertInv, AlertTypes, AgeIsOfLastCall, FileIsTold, Called
<1>1. CASE Alert!Collect
  BY <1>1 DEF Alert!Collect, Alert!NoPoll
<1>2. CASE Alert!Gate
  <2>1. poll.pc = "gate" /\ (sent = state.age \/ "age" \in missing)
    /\ UNCHANGED <<state, told, missing, lost>>
    BY <1>2 DEF Alert!Gate
  <2>2. CASE poll' = Alert!NoPoll
    BY <1>2, <2>1, <2>2 DEF Alert!Gate, Alert!NoPoll
  <2>3. CASE poll.seen = {} /\ poll' = [poll EXCEPT !.pc = "clear", !.age = state.age]
    BY <1>2, <2>1, <2>3 DEF Alert!Gate
  <2>4. CASE poll' = [poll EXCEPT !.pc = "send", !.at = 0]
    BY <1>2, <2>1, <2>4 DEF Alert!Gate
  <2>. QED BY <1>2, <2>2, <2>3, <2>4 DEF Alert!Gate
<1>3. CASE Alert!Clear
  BY <1>3 DEF Alert!Clear, Alert!NoPoll
<1>4. CASE Alert!Send
  BY <1>4 DEF Alert!Send
<1>5. CASE Alert!Record
  BY <1>5 DEF Alert!Record, Alert!NoPoll
<1>6. CASE Alert!LoseWrite
  BY <1>6 DEF Alert!LoseWrite, Alert!NoPoll
<1>7. CASE Alert!Drift
  BY <1>7 DEF Alert!Drift
<1>8. CASE Alert!Tick
  BY <1>8 DEF Alert!Tick
<1>9. CASE UNCHANGED alertVars
  BY <1>9 DEF alertVars
<1>. QED BY <1>1, <1>2, <1>3, <1>4, <1>5, <1>6, <1>7, <1>8, <1>9 DEF Alert!Next, Alert!Poll

-----------------------------------------------------------------------------

\* The strengthened invariant: the file's age and fingerprint are those of the last
\* call and the last message, but for what a lost write left out of it.
THEOREM AlertInvariance == MCSpec => []AlertInv
<1>1. MCInit => AlertInv
  BY CooldownAssumption
  DEF MCInit, Alert!Init, AlertInv, AlertTypes, AgeIsOfLastCall, FileIsTold, Called,
      Alert!NoPoll, Alert!Age, Alert!Fingerprint
<1>2. AlertInv /\ [MCNext]_MCvars => AlertInv'
  <2>1. [MCNext]_MCvars => [Alert!Next]_alertVars
    BY DEF MCNext, MCvars, VisibilityStep, ScheduleStep, EstateStep, AlertStep, BearerStep,
           BoardStep
  <2>. QED BY <2>1, AlertTypeStep, CorrespondenceStep DEF AlertInv
<1>. QED BY <1>1, <1>2, PTL DEF MCSpec

\* The gate of dashboard_fleet.py calls the sender at most once per cooldown and never
\* with what was told last, however the sender answers, unless the write of that call,
\* or of that message, was lost.
THEOREM AlertsOwed == MCSpec => AlertsAreOwed
<1>. DEFINE Owed ==
           /\ sent = Cooldown \/ "age" \in missing
           /\ poll.seen # told \/ "fingerprint" \in missing
<1>1. AlertInv /\ Alert!Next /\ Alert!Call => Owed
  <2>. SUFFICES ASSUME AlertInv, Alert!Next, Alert!Call
                PROVE  Owed
    OBVIOUS
  <2>1. Alert!Gate
    <3>. USE DEF Alert!Call
    <3>1. ~Alert!Collect /\ ~Alert!Clear /\ ~Alert!Send /\ ~Alert!Record /\ ~Alert!LoseWrite
      BY DEF Alert!Collect, Alert!Clear, Alert!Send, Alert!Record, Alert!LoseWrite
    <3>2. ~Alert!Drift
      BY DEF Alert!Drift
    <3>3. ~Alert!Tick
      BY DEF Alert!Tick, AlertInv, AlertTypes
    <3>. QED BY <3>1, <3>2, <3>3 DEF Alert!Next, Alert!Poll
  <2>2. poll.seen # state.fingerprint /\ poll.seen # {} /\ state.age = Cooldown
    <3>1. poll' # Alert!NoPoll
      BY DEF Alert!Call, Alert!NoPoll
    <3>2. poll' # [poll EXCEPT !.pc = "clear", !.age = state.age]
      BY DEF Alert!Call, AlertInv, AlertTypes
    <3>. QED BY <2>1, <3>1, <3>2 DEF Alert!Gate
  <2>3. /\ sent = state.age \/ "age" \in missing
        /\ told = state.fingerprint \/ told = {} \/ "fingerprint" \in missing
    BY DEF Alert!Call, AlertInv, AgeIsOfLastCall, FileIsTold, Called
  <2>. QED BY <2>2, <2>3
<1>2. AlertInv /\ [MCNext]_MCvars =>
        [Alert!Call => Owed]_(Alert!vars)
  BY <1>1 DEF MCNext, MCvars, alertVars, Alert!vars, VisibilityStep, ScheduleStep, EstateStep,
              AlertStep, BearerStep, BoardStep
<1>. QED BY <1>2, AlertInvariance, PTL DEF MCSpec, AlertsAreOwed, Alert!AlertsAreOwed


-----------------------------------------------------------------------------
(* ScheduleProvider                                                          *)

ScheduleTypes ==
  /\ caller \in [Reads -> Schedule!Caller]
  /\ jobs \in [Schedule!Executor -> Seq(Reads)]
  /\ job \in [Reads -> Schedule!JobStep]
  /\ owner \in [Reads -> Schedule!OwnerState]
  /\ current \in [Reads -> BOOLEAN]

Once(q) == \A i, j \in 1..Len(q) : q[i] = q[j] => i = j

\* A queue holds a job once, as long as no thread has taken it.
QueuedOnce ==
  /\ Once(jobs["request"]) /\ Once(jobs["owner"])
  /\ \A i \in 1..Len(jobs["request"]) : job[jobs["request"][i]] = "queued"
  /\ \A i \in 1..Len(jobs["owner"]) : owner[jobs["owner"][i]] = "queued"

\* What the caller and the owner's executor know of a job at each of its steps.
JobsAgree ==
  \A r \in Reads :
    /\ caller[r] = "idle" => job[r] = "none"
    /\ caller[r] = "projection" => job[r] = "released"
    /\ job[r] \in {"none", "queued", "start"} => owner[r] = "none"
    /\ job[r] = "checking" => owner[r] = "whole"

ScheduleInv == ScheduleTypes /\ QueuedOnce /\ JobsAgree

\* put_nowait: a job that was in no queue is in this one once.
LEMMA PutOnce ==
  ASSUME NEW q \in Seq(Reads), Once(q), NEW r \in Reads, \A i \in 1..Len(q) : q[i] # r
  PROVE  /\ Append(q, r) \in Seq(Reads) /\ Once(Append(q, r))
         /\ \A i \in 1..Len(Append(q, r)) :
              Append(q, r)[i] = r \/ \E j \in 1..Len(q) : Append(q, r)[i] = q[j]
<1>. DEFINE n == Len(q)
            p == Append(q, r)
<1>1. /\ n \in Nat /\ p \in Seq(Reads) /\ Len(p) = n + 1
      /\ p[n + 1] = r /\ \A i \in 1..n : p[i] = q[i]
  BY AppendProperties
<1>. HIDE DEF n, p
<1>2. \A i \in 1..(n + 1) : i \in 1..n \/ i = n + 1
  BY <1>1
<1>3. Once(p)
  BY <1>1, <1>2 DEF Once, n
<1>. QED BY <1>1, <1>2, <1>3 DEF n, p

\* A thread takes the job at the head; it is no longer in the queue.
LEMMA TakeOnce ==
  ASSUME NEW q \in Seq(Reads), Once(q), q # <<>>
  PROVE  /\ Head(q) = q[1] /\ 1 \in 1..Len(q)
         /\ Tail(q) \in Seq(Reads) /\ Once(Tail(q))
         /\ \A i \in 1..Len(Tail(q)) :
              Tail(q)[i] # Head(q) /\ \E j \in 1..Len(q) : Tail(q)[i] = q[j]
<1>. DEFINE n == Len(q)
            t == Tail(q)
<1>1. n \in Nat /\ n # 0
  BY EmptySeq
<1>2. /\ Head(q) = q[1] /\ t \in Seq(Reads) /\ Len(t) = n - 1
      /\ \A i \in 1..Len(t) : t[i] = q[i + 1]
  BY <1>1, HeadTailProperties
<1>. HIDE DEF n, t
<1>3. \A i \in 1..Len(t) : i + 1 \in 1..n /\ i + 1 # 1 /\ i \in Nat
  BY <1>1, <1>2
<1>4. Once(t)
  <2>. SUFFICES ASSUME NEW i \in 1..Len(t), NEW j \in 1..Len(t), t[i] = t[j] PROVE i = j
    BY DEF Once
  <2>1. i + 1 = j + 1
    BY <1>2, <1>3 DEF Once, n
  <2>. QED BY <1>3, <2>1
<1>5. 1 \in 1..n
  BY <1>1
<1>. QED BY <1>2, <1>3, <1>4, <1>5 DEF n, t, Once

\* read: the caller queues its job, or is refused; later it takes what there is.
LEMMA CallerStep ==
  ASSUME ScheduleInv, NEW r \in Reads,
         Schedule!Read(r) \/ Schedule!Receive(r) \/ Schedule!TimeOut(r)
  PROVE  ScheduleInv'
<1>. USE DEF Schedule!Caller, Schedule!Executor, Schedule!JobStep, Schedule!OwnerState
<1>1. CASE Schedule!Receive(r) \/ Schedule!TimeOut(r)
  BY <1>1 DEF ScheduleInv, ScheduleTypes, QueuedOnce, JobsAgree, Schedule!Receive,
              Schedule!TimeOut
<1>2. CASE Schedule!Read(r)
  <2>1. CASE caller' = [caller EXCEPT ![r] = "unavailable"] /\ UNCHANGED <<jobs, job>>
    BY <1>2, <2>1 DEF ScheduleInv, ScheduleTypes, QueuedOnce, JobsAgree, Schedule!Read
  <2>2. CASE /\ caller' = [caller EXCEPT ![r] = "waiting"]
             /\ Schedule!Put("request", r) /\ Schedule!Step(r, "queued")
    <3>. DEFINE q == jobs["request"]
    <3>1. /\ jobs' = [jobs EXCEPT !["request"] = Append(q, r)]
          /\ job' = [job EXCEPT ![r] = "queued"] /\ UNCHANGED <<owner, current>>
          /\ job[r] = "none" /\ owner[r] = "none"
      BY <1>2, <2>2 DEF Schedule!Read, Schedule!Put, Schedule!Step, ScheduleInv, JobsAgree
    <3>2. /\ q \in Seq(Reads) /\ Once(q) /\ \A i \in 1..Len(q) : q[i] # r
          /\ jobs["owner"] \in Seq(Reads)
      BY <3>1 DEF ScheduleInv, ScheduleTypes, QueuedOnce
    <3>3. /\ jobs'["request"] = Append(q, r) /\ jobs'["owner"] = jobs["owner"]
          /\ jobs' \in [Schedule!Executor -> Seq(Reads)]
      BY <3>1, <3>2, PutOnce DEF ScheduleInv, ScheduleTypes
    <3>4. ScheduleTypes'
      BY <2>2, <3>1, <3>3 DEF ScheduleInv, ScheduleTypes
    <3>5. JobsAgree'
      BY <2>2, <3>1 DEF ScheduleInv, ScheduleTypes, JobsAgree
    <3>6. QueuedOnce'
      <4>1. /\ Once(Append(q, r))
            /\ \A i \in 1..Len(Append(q, r)) :
                 Append(q, r)[i] = r \/ \E j \in 1..Len(q) : Append(q, r)[i] = q[j]
        BY <3>2, PutOnce
      <4>2. \A s \in Reads : job[s] = "queued" => job'[s] = "queued"
        BY <3>1 DEF ScheduleInv, ScheduleTypes
      <4>3. job'[r] = "queued" /\ \A i \in 1..Len(q) : q[i] \in Reads
        BY <3>1, <3>2 DEF ScheduleInv, ScheduleTypes
      <4>. QED BY <3>1, <3>3, <4>1, <4>2, <4>3 DEF ScheduleInv, QueuedOnce
    <3>. QED BY <3>4, <3>5, <3>6 DEF ScheduleInv
  <2>. QED BY <1>2, <2>1, <2>2 DEF Schedule!Read
<1>. QED BY <1>1, <1>2

\* A job takes its place on a thread, or ends there.
LEMMA JobStepOK ==
  ASSUME ScheduleInv, NEW r \in Reads, Schedule!Serve(r)
  PROVE  ScheduleInv'
<1>. USE DEF Schedule!Caller, Schedule!Executor, Schedule!JobStep, Schedule!OwnerState
<1>1. CASE Schedule!Start(r)
  <2>. DEFINE q == jobs["request"]
  <2>1. /\ q # <<>> /\ Head(q) = r /\ jobs' = [jobs EXCEPT !["request"] = Tail(q)]
        /\ job' = [job EXCEPT ![r] = "start"] /\ UNCHANGED <<caller, owner, current>>
        /\ q \in Seq(Reads) /\ Once(q)
    BY <1>1 DEF Schedule!Start, Schedule!Take, Schedule!Step, ScheduleInv, ScheduleTypes,
                QueuedOnce
  <2>2. job[r] = "queued"
    BY <2>1, TakeOnce DEF ScheduleInv, QueuedOnce
  <2>3. /\ jobs'["request"] = Tail(q) /\ jobs'["owner"] = jobs["owner"]
        /\ jobs' \in [Schedule!Executor -> Seq(Reads)]
    BY <2>1, TakeOnce DEF ScheduleInv, ScheduleTypes
  <2>4. ScheduleTypes'
    BY <2>1, <2>3 DEF ScheduleInv, ScheduleTypes
  <2>5. JobsAgree'
    BY <2>1, <2>2 DEF ScheduleInv, ScheduleTypes, JobsAgree
  <2>6. QueuedOnce'
    <3>1. /\ Once(Tail(q))
          /\ \A i \in 1..Len(Tail(q)) : Tail(q)[i] # r /\ \E j \in 1..Len(q) : Tail(q)[i] = q[j]
      BY <2>1, TakeOnce
    <3>2. \A i \in 1..Len(q) : q[i] \in Reads /\ job[q[i]] = "queued"
      BY <2>1 DEF ScheduleInv, QueuedOnce
    <3>3. \A s \in Reads : s # r => job'[s] = job[s]
      BY <2>1 DEF ScheduleInv, ScheduleTypes
    <3>. QED BY <2>1, <2>3, <3>1, <3>2, <3>3 DEF ScheduleInv, QueuedOnce
  <2>. QED BY <2>4, <2>5, <2>6 DEF ScheduleInv
<1>2. ASSUME NEW to \in {"checking", "released", "failed"}, Schedule!Step(r, to),
             job[r] \in {"start", "reading", "checking"}, to = "checking" => owner[r] = "whole",
             UNCHANGED <<caller, jobs, owner, current>>
      PROVE  ScheduleInv'
  <2>1. job' = [job EXCEPT ![r] = to]
    BY <1>2 DEF Schedule!Step
  <2>2. /\ ScheduleTypes' /\ JobsAgree'
    BY <1>2, <2>1 DEF ScheduleInv, ScheduleTypes, JobsAgree
  <2>3. \A s \in Reads : job[s] = "queued" => job'[s] = "queued"
    BY <1>2, <2>1 DEF ScheduleInv, ScheduleTypes
  <2>4. \A i \in 1..Len(jobs["request"]) : jobs["request"][i] \in Reads
    BY DEF ScheduleInv, ScheduleTypes
  <2>5. QueuedOnce'
    BY <1>2, <2>3, <2>4 DEF ScheduleInv, QueuedOnce
  <2>. QED BY <2>2, <2>5 DEF ScheduleInv
<1>3. CASE Schedule!Begin(r)
  <2>1. CASE Schedule!Step(r, "failed") /\ UNCHANGED <<jobs, owner>>
    BY <1>2, <1>3, <2>1 DEF Schedule!Begin
  <2>2. CASE /\ Schedule!Put("owner", r) /\ Schedule!Step(r, "reading")
             /\ owner' = [owner EXCEPT ![r] = "queued"]
    <3>. DEFINE q == jobs["owner"]
    <3>1. /\ jobs' = [jobs EXCEPT !["owner"] = Append(q, r)]
          /\ job' = [job EXCEPT ![r] = "reading"] /\ UNCHANGED <<caller, current>>
          /\ owner' = [owner EXCEPT ![r] = "queued"]
          /\ job[r] = "start" /\ owner[r] = "none"
      BY <1>3, <2>2 DEF Schedule!Begin, Schedule!Put, Schedule!Step, ScheduleInv, JobsAgree
    <3>2. /\ q \in Seq(Reads) /\ Once(q) /\ \A i \in 1..Len(q) : q[i] # r
          /\ jobs["request"] \in Seq(Reads)
      BY <3>1 DEF ScheduleInv, ScheduleTypes, QueuedOnce
    <3>3. /\ jobs'["owner"] = Append(q, r) /\ jobs'["request"] = jobs["request"]
          /\ jobs' \in [Schedule!Executor -> Seq(Reads)]
      BY <3>1, <3>2, PutOnce DEF ScheduleInv, ScheduleTypes
    <3>4. ScheduleTypes'
      BY <3>1, <3>3 DEF ScheduleInv, ScheduleTypes
    <3>5. JobsAgree'
      BY <3>1 DEF ScheduleInv, ScheduleTypes, JobsAgree
    <3>6. QueuedOnce'
      <4>1. /\ Once(Append(q, r))
            /\ \A i \in 1..Len(Append(q, r)) :
                 Append(q, r)[i] = r \/ \E j \in 1..Len(q) : Append(q, r)[i] = q[j]
        BY <3>2, PutOnce
      <4>2. \A s \in Reads : /\ owner[s] = "queued" => owner'[s] = "queued"
                             /\ job[s] = "queued" => job'[s] = "queued"
        BY <3>1 DEF ScheduleInv, ScheduleTypes
      <4>3. /\ owner'[r] = "queued" /\ \A i \in 1..Len(q) : q[i] \in Reads
            /\ \A i \in 1..Len(jobs["request"]) : jobs["request"][i] \in Reads
        BY <3>1, <3>2 DEF ScheduleInv, ScheduleTypes
      <4>. QED BY <3>1, <3>3, <4>1, <4>2, <4>3 DEF ScheduleInv, QueuedOnce
    <3>. QED BY <3>4, <3>5, <3>6 DEF ScheduleInv
  <2>. QED BY <1>3, <2>1, <2>2 DEF Schedule!Begin
<1>4. CASE Schedule!OwnerTimeOut(r) \/ Schedule!Project(r) \/ Schedule!Release(r)
  BY <1>2, <1>4 DEF Schedule!OwnerTimeOut, Schedule!Project, Schedule!Release
<1>. QED BY <1>1, <1>3, <1>4 DEF Schedule!Serve

\* The owner's threads, and what the verifier answers.
LEMMA OwnerStep ==
  ASSUME ScheduleInv, NEW r \in Reads,
         Schedule!OwnerStart(r) \/ Schedule!OwnerReturn(r) \/ Schedule!Revoke(r)
  PROVE  ScheduleInv'
<1>. USE DEF Schedule!Caller, Schedule!Executor, Schedule!JobStep, Schedule!OwnerState
<1>1. CASE Schedule!OwnerStart(r)
  <2>. DEFINE q == jobs["owner"]
  <2>1. /\ q # <<>> /\ Head(q) = r /\ jobs' = [jobs EXCEPT !["owner"] = Tail(q)]
        /\ owner' = [owner EXCEPT ![r] = "running"] /\ UNCHANGED <<caller, job, current>>
        /\ q \in Seq(Reads) /\ Once(q)
    BY <1>1 DEF Schedule!OwnerStart, Schedule!Take, ScheduleInv, ScheduleTypes, QueuedOnce
  <2>2. owner[r] = "queued"
    BY <2>1, TakeOnce DEF ScheduleInv, QueuedOnce
  <2>3. /\ jobs'["owner"] = Tail(q) /\ jobs'["request"] = jobs["request"]
        /\ jobs' \in [Schedule!Executor -> Seq(Reads)]
    BY <2>1, TakeOnce DEF ScheduleInv, ScheduleTypes
  <2>4. ScheduleTypes'
    BY <2>1, <2>3 DEF ScheduleInv, ScheduleTypes
  <2>5. JobsAgree'
    BY <2>1, <2>2 DEF ScheduleInv, ScheduleTypes, JobsAgree
  <2>6. QueuedOnce'
    <3>1. /\ Once(Tail(q))
          /\ \A i \in 1..Len(Tail(q)) : Tail(q)[i] # r /\ \E j \in 1..Len(q) : Tail(q)[i] = q[j]
      BY <2>1, TakeOnce
    <3>2. \A i \in 1..Len(q) : q[i] \in Reads /\ owner[q[i]] = "queued"
      BY <2>1 DEF ScheduleInv, QueuedOnce
    <3>3. \A s \in Reads : s # r => owner'[s] = owner[s]
      BY <2>1 DEF ScheduleInv, ScheduleTypes
    <3>. QED BY <2>1, <2>3, <3>1, <3>2, <3>3 DEF ScheduleInv, QueuedOnce
  <2>. QED BY <2>4, <2>5, <2>6 DEF ScheduleInv
<1>2. CASE Schedule!OwnerReturn(r)
  <2>1. PICK end \in {"raised", "whole", "faulty"} : owner' = [owner EXCEPT ![r] = end]
    BY <1>2 DEF Schedule!OwnerReturn, Schedule!Done
  <2>2. owner[r] = "running" /\ UNCHANGED <<caller, jobs, job, current>>
    BY <1>2 DEF Schedule!OwnerReturn
  <2>3. ScheduleTypes' /\ JobsAgree'
    BY <2>1, <2>2 DEF ScheduleInv, ScheduleTypes, JobsAgree
  <2>4. \A s \in Reads : owner[s] = "queued" => owner'[s] = "queued"
    BY <2>1, <2>2 DEF ScheduleInv, ScheduleTypes
  <2>5. \A i \in 1..Len(jobs["owner"]) : jobs["owner"][i] \in Reads
    BY DEF ScheduleInv, ScheduleTypes
  <2>6. QueuedOnce'
    BY <2>2, <2>4, <2>5 DEF ScheduleInv, QueuedOnce
  <2>. QED BY <2>3, <2>6 DEF ScheduleInv
<1>3. CASE Schedule!Revoke(r)
  BY <1>3 DEF Schedule!Revoke, ScheduleInv, ScheduleTypes, QueuedOnce, JobsAgree
<1>. QED BY <1>1, <1>2, <1>3

\* The strengthened invariant: a job is in one place at a time, and a caller, a job and
\* its owner read agree on how far they came.
THEOREM ScheduleInvariance == MCSpec => []ScheduleInv
<1>1. MCInit => ScheduleInv
  <2>. SUFFICES ASSUME MCInit PROVE ScheduleInv
    OBVIOUS
  <2>1. Schedule!Init
    BY DEF MCInit
  <2>2. \A e \in Schedule!Executor : jobs[e] = <<>>
    BY <2>1 DEF Schedule!Init
  <2>3. QueuedOnce
    BY <2>2 DEF QueuedOnce, Once, Schedule!Executor
  <2>. QED BY <2>1, <2>3, EmptySeq
           DEF Schedule!Init, ScheduleInv, ScheduleTypes, JobsAgree, Schedule!Caller,
               Schedule!Executor, Schedule!JobStep, Schedule!OwnerState
<1>2. ScheduleInv /\ [MCNext]_MCvars => ScheduleInv'
  <2>. SUFFICES ASSUME ScheduleInv, [MCNext]_MCvars PROVE ScheduleInv'
    OBVIOUS
  <2>1. CASE UNCHANGED scheduleVars
    BY <2>1 DEF scheduleVars, ScheduleInv, ScheduleTypes, QueuedOnce, JobsAgree
  <2>2. CASE Schedule!Next
    BY <2>2, CallerStep, JobStepOK, OwnerStep DEF Schedule!Next, Schedule!Wait
  <2>3. Schedule!Next \/ UNCHANGED scheduleVars
    BY DEF MCNext, MCvars, VisibilityStep, ScheduleStep, EstateStep, AlertStep, BearerStep,
           BoardStep
  <2>. QED BY <2>1, <2>2, <2>3
<1>. QED BY <1>1, <1>2, PTL DEF MCSpec

\* _read of dashboard_schedule.py releases a projection only when the verifier answers yes
\* after the owner was read whole, and a caller gets no other.
THEOREM ReleaseIsAuthorized == MCSpec => ReleasedUnderAuthority
<1>. DEFINE Authorized ==
       \A r \in Reads :
         /\ job'[r] = "released" /\ job[r] # "released" => current[r] /\ owner[r] = "whole"
         /\ caller'[r] = "projection" => job[r] = "released"
<1>1. ScheduleInv /\ Schedule!Next => Authorized
  <2>. SUFFICES ASSUME ScheduleInv, NEW s \in Reads,
                       \/ Schedule!Read(s) \/ Schedule!Wait(s) \/ Schedule!Serve(s)
                       \/ Schedule!OwnerStart(s) \/ Schedule!OwnerReturn(s) \/ Schedule!Revoke(s),
                       NEW r \in Reads
                PROVE  /\ job'[r] = "released" /\ job[r] # "released" =>
                            current[r] /\ owner[r] = "whole"
                       /\ caller'[r] = "projection" => job[r] = "released"
    BY DEF Schedule!Next
  <2>1. ASSUME job'[r] = "released", job[r] # "released" PROVE current[r] /\ owner[r] = "whole"
    <3>1. \/ Schedule!Read(s) \/ Schedule!Start(s) \/ Schedule!Begin(s) \/
            Schedule!OwnerTimeOut(s)
          \/ Schedule!Project(s) \/ Schedule!Release(s)
      BY <2>1 DEF Schedule!Wait, Schedule!Receive, Schedule!TimeOut, Schedule!Serve,
                  Schedule!OwnerStart, Schedule!OwnerReturn, Schedule!Revoke
    <3>2. \A to \in Schedule!JobStep : Schedule!Step(s, to) => r = s /\ to = "released"
      BY <2>1 DEF Schedule!Step, ScheduleInv, ScheduleTypes
    <3>3. Schedule!Release(s) /\ r = s
      BY <2>1, <3>1, <3>2 DEF Schedule!Read, Schedule!Start, Schedule!Begin,
         Schedule!OwnerTimeOut, Schedule!Project, Schedule!Release, Schedule!JobStep
    <3>4. job[r] = "checking" /\ current[r]
      BY <3>2, <3>3 DEF Schedule!Release, Schedule!JobStep
    <3>. QED BY <3>4 DEF ScheduleInv, JobsAgree
  <2>2. ASSUME caller'[r] = "projection" PROVE job[r] = "released"
    <3>1. CASE caller'[r] = caller[r]
      BY <2>2, <3>1 DEF ScheduleInv, JobsAgree
    <3>2. CASE caller'[r] # caller[r]
      BY <2>2, <3>2 DEF ScheduleInv, ScheduleTypes, Schedule!Read, Schedule!Wait,
         Schedule!Receive, Schedule!TimeOut, Schedule!Serve, Schedule!Start, Schedule!Begin,
         Schedule!OwnerTimeOut, Schedule!Project, Schedule!Release, Schedule!OwnerStart,
         Schedule!OwnerReturn, Schedule!Revoke
    <3>. QED BY <3>1, <3>2
  <2>. QED BY <2>1, <2>2
<1>2. ScheduleInv /\ [MCNext]_MCvars => [Authorized]_(Schedule!vars)
  BY <1>1 DEF MCNext, MCvars, scheduleVars, Schedule!vars, VisibilityStep, ScheduleStep,
              EstateStep, AlertStep, BearerStep, BoardStep
<1>. QED BY <1>2, ScheduleInvariance, PTL
         DEF MCSpec, ReleasedUnderAuthority, Schedule!ReleasedUnderAuthority

-----------------------------------------------------------------------------
(* EstateRead                                                                *)

\* Where an item stands of which nothing could be read.
EstateSunk == {"unavailable", "unreachable", "unknown"}

\* An item shows what its reader noticed.
EstateItemGood(i) ==
  /\ i \in Estate!Item
  /\ i.truth = "current" => i.flaw = "none"
  /\ i.flaw = "all" => i.truth \in EstateSunk

\* The items together show it.
EstateResultGood(result) ==
  /\ result.truths # {} /\ result.truths \subseteq Estate!Truth
  /\ result.truths = {"current"} => result.flaws = {"none"}
  /\ "all" \in result.flaws => result.truths \cap EstateSunk # {}

\* What a request is: where it stands, and what it holds or was answered.
EstateRequestGood(q) ==
  \/ q \in [st : {"idle", "refused", "waits", "gone"}]
  \/ q.st = "holds" /\ EstateResultGood(q.result)
  \/ /\ q.st = "answered"
     /\ "current" \in {q.truth, q.quality} => q.result.flaws = {"none"}
     /\ "all" \in q.result.flaws => Estate!Rank(q.quality) <= Estate!Rank("unknown")

EstateInv ==
  /\ specs \in Estates
  /\ task \in {"none", "running", "done"}
  /\ workers \subseteq specs \cap Estate!Implemented
  /\ DOMAIN items = specs
  /\ DOMAIN req = Overviews
  /\ workers # {} => task = "running"
  /\ task = "none" => \A a \in specs : items[a] = Estate!NoItem
  /\ \A a \in workers : items[a] = Estate!NoItem
  /\ task # "none" => \A a \in specs \ workers : EstateItemGood(items[a])
  /\ \A r \in Overviews : EstateRequestGood(req[r])

\* What a reader tells shows the flaw it noticed: no observation of what could not be
\* read, and an error, a shortfall or an age for the rest.
EstateEvidence(t, flaw) ==
  /\ flaw = "all" => ~t.observed /\ (t.short => t.errors)
  /\ flaw = "part" => t.errors \/ t.short \/ t.aged

\* _project turns such evidence into an item that shows it.
LEMMA EvidenceShows ==
  ASSUME NEW t, NEW flaw \in {"none", "part", "all"}, EstateEvidence(t, flaw)
  PROVE  EstateItemGood([truth |-> Estate!ToldTruth(t), flaw |-> flaw])
<1>1. /\ Estate!ToldTruth(t) \in Estate!Truth
      /\ Estate!ToldTruth(t) = "current" => t.observed /\ ~t.errors /\ ~t.short /\ ~t.aged
      /\ ~t.observed /\ (t.short => t.errors) => Estate!ToldTruth(t) \in EstateSunk
  BY DEF EstateEvidence, Estate!ToldTruth, Estate!Truth, EstateSunk
<1>2. /\ Estate!ToldTruth(t) = "current" => flaw = "none"
      /\ flaw = "all" => Estate!ToldTruth(t) \in EstateSunk
  BY <1>1 DEF EstateEvidence
<1>. QED BY <1>1, <1>2 DEF EstateItemGood, Estate!Item

\* Each of the readers, in each condition its source can be in, shows what it noticed.
LEMMA ReaderHonest ==
  ASSUME NEW a \in Estate!Implemented, NEW c \in Estate!Condition,
         NEW i \in Estate!ItemsOf(a, c)
  PROVE  EstateItemGood(i)
<1>0. Estate!Flaw(a, c) \in {"none", "part", "all"}
  BY DEF Estate!Flaw
<1>1. CASE \E status : i = [truth |-> Estate!FailedTruth(status), flaw |-> Estate!Flaw(a, c)]
  <2>1. PICK status :
          i = [truth |-> Estate!FailedTruth(status), flaw |-> Estate!Flaw(a, c)]
    BY <1>1
  <2>2. Estate!FailedTruth(status) \in EstateSunk
    BY DEF Estate!FailedTruth, EstateSunk
  <2>. QED BY <1>0, <2>1, <2>2 DEF EstateItemGood, Estate!Item, Estate!Truth, EstateSunk
<1>2. CASE 0 \in Estate!ExitStatus(a, c) /\
           \E t \in Estate!Tells(a, c) :
             i = [truth |-> Estate!ToldTruth(t), flaw |-> Estate!Flaw(a, c)]
  <2>1. PICK t \in Estate!Tells(a, c) :
             i = [truth |-> Estate!ToldTruth(t), flaw |-> Estate!Flaw(a, c)]
    BY <1>2
  <2>. USE DEF Estate!Implemented, Estate!Board, Estate!Usage, Estate!Condition,
               Estate!Unreadable
  <2>2. /\ c \in Estate!Unreadable =>
             \/ a \in Estate!Usage \cup {"skcapstone.fleet"}
             \/ a = "skos.discovery" /\ c = "unreachable"
        /\ c = "lost" => a \notin {"skperf.aggregate", "capauth.policy"}
    <3>. USE DEF Estate!ExitStatus, Estate!TellsOfErrors, Estate!Owned
    <3>1. c = "lost" => a \notin {"skperf.aggregate", "capauth.policy"}
      BY <1>2
    <3>2. c = "denied" => a \in Estate!TellsOfErrors
      BY <1>2
    <3>3. c = "unreachable" => a \in Estate!TellsOfErrors \cup {"skos.discovery"}
      BY <1>2 DEF Estate!MaskUnreachable
    <3>4. c = "malformed" => a \in Estate!TellsOfErrors
      BY <1>2 DEF Estate!MaskMalformed
    <3>. QED BY <3>1, <3>2, <3>3, <3>4
  <2>3. /\ Estate!Flaw(a, c) = "all" =>
             c \in Estate!Unreadable \/ (c = "lost" /\ a \in Estate!NoticesLoss)
        /\ Estate!Flaw(a, c) = "part" =>
             \/ c = "aged" /\ a \in Estate!NoticesAge
             \/ c = "short" /\ a \in Estate!NoticesShort
             \/ c = "partial" /\ a \in Estate!NoticesPart
    BY DEF Estate!Flaw
  <2>4. EstateEvidence(t, Estate!Flaw(a, c))
    <3>. USE DEF Estate!NoticesAge, Estate!NoticesShort, Estate!NoticesPart,
                 Estate!NoticesLoss, EstateEvidence
    <3>1. CASE a \in Estate!Board \cup {"skcapstone.itil"}
      BY <2>2, <2>3, <3>1
    <3>2. CASE a = "cmdb.configuration"
      <4>1. t = Estate!CmdbTells(c)
        BY <3>2 DEF Estate!Tells
      <4>2. /\ t.errors <=> c = "partial"
            /\ t.observed <=> c \notin {"empty", "lost"}
            /\ ~t.short
            /\ t.aged <=> c = "aged"
        BY <4>1 DEF Estate!Told, Estate!CmdbTells
      <4>. QED BY <2>2, <2>3, <3>2, <4>2
    <3>3. CASE a = "skcapstone.fleet"
      <4>1. t = Estate!FleetTells(c)
        BY <3>3 DEF Estate!Tells
      <4>2. /\ t.errors <=> c \in {"partial"} \cup Estate!Unreadable
            /\ t.observed <=> c \notin {"empty", "lost"} \cup Estate!Unreadable
            /\ t.short <=> c = "short"
        BY <4>1 DEF Estate!Told, Estate!FleetTells
      <4>. QED BY <2>2, <2>3, <3>3, <4>2
    <3>4. CASE a \in Estate!Usage
      <4>1. t = Estate!UsageTells(c)
        BY <3>4 DEF Estate!Tells
      <4>2. /\ t.errors <=> c \in {"partial", "lost"} \cup Estate!Unreadable
            /\ t.observed <=> c \notin {"empty", "lost"} \cup Estate!Unreadable
            /\ t.short <=> c = "short"
            /\ t.aged <=> c = "aged"
        BY <4>1 DEF Estate!Told, Estate!UsageTells
      <4>. QED BY <2>2, <2>3, <3>4, <4>2
    <3>5. CASE a = "skjoule.wallet"
      <4>1. t = Estate!JouleTells(c)
        BY <3>5 DEF Estate!Tells
      <4>2. /\ t.observed <=> c \notin {"empty", "lost"}
            /\ ~t.short
        BY <4>1 DEF Estate!Told, Estate!JouleTells
      <4>. QED BY <2>2, <2>3, <3>5, <4>2
    <3>6. CASE a = "skcapstone.service_release"
      <4>1. t = Estate!ReleaseTells(c)
        BY <3>6 DEF Estate!Tells
      <4>2. /\ t.errors <=> c \in {"partial", "short"}
            /\ t.observed <=> c \notin {"empty", "lost"}
            /\ t.short <=> c \in {"partial", "short"}
        BY <4>1 DEF Estate!Told, Estate!ReleaseTells
      <4>. QED BY <2>2, <2>3, <3>6, <4>2
    <3>7. CASE a = "skperf.aggregate"
      <4>1. t = Estate!PerfTells(c)
        BY <3>7 DEF Estate!Tells
      <4>2. /\ t.errors <=> c = "partial"
            /\ t.short <=> c = "short"
            /\ t.aged <=> c = "aged"
        BY <4>1 DEF Estate!Told, Estate!PerfTells
      <4>. QED BY <2>2, <2>3, <3>7, <4>2
    <3>8. CASE a = "capauth.policy"
      <4>1. t = Estate!PolicyTells(c)
        BY <3>8 DEF Estate!Tells
      <4>2. /\ t.aged <=> c = "aged"
        BY <4>1 DEF Estate!Told, Estate!PolicyTells
      <4>. QED BY <2>2, <2>3, <3>8, <4>2
    <3>9. CASE a = "atlas.conditions"
      <4>1. t = Estate!ConditionsTell(c)
        BY <3>9 DEF Estate!Tells
      <4>2. /\ t.errors <=> c \in {"partial", "lost"}
            /\ t.observed <=> c # "lost"
            /\ t.short <=> c \in {"partial", "short"}
            /\ t.aged <=> c = "aged"
        BY <4>1 DEF Estate!Told, Estate!ConditionsTell
      <4>. QED BY <2>2, <2>3, <3>9, <4>2
    <3>10. CASE a = "skos.discovery"
      <4>1. t \in Estate!ModulesTell(c)
        BY <3>10 DEF Estate!Tells
      <4>. DEFINE found == c \notin {"empty", "lost", "unreachable"}
      <4>2. \/ t = Estate!Told(~found, found, ~found, FALSE)
            \/ c = "partial" /\ t = Estate!Told(TRUE, TRUE, FALSE, FALSE)
        BY <4>1 DEF Estate!ModulesTell
      <4>3. CASE t = Estate!Told(~found, found, ~found, FALSE)
        <5>1. (t.observed <=> found) /\ (t.short <=> t.errors)
          BY <4>3 DEF Estate!Told
        <5>. QED BY <2>2, <2>3, <3>10, <5>1
      <4>4. CASE c = "partial"
        BY <2>2, <2>3, <3>10, <4>4
      <4>. QED BY <4>2, <4>3, <4>4
    <3>. QED BY <3>1, <3>2, <3>3, <3>4, <3>5, <3>6, <3>7, <3>8, <3>9, <3>10
  <2>. QED BY <1>0, <2>1, <2>4, EvidenceShows
<1>3. CASE \E t \in Estate!TelemetryTells :
             i = [truth |-> Estate!ToldTruth(t), flaw |-> IF t.short THEN "part" ELSE "none"]
  <2>1. PICK t \in Estate!TelemetryTells :
             i = [truth |-> Estate!ToldTruth(t), flaw |-> IF t.short THEN "part" ELSE "none"]
    BY <1>3
  <2>2. EstateEvidence(t, IF t.short THEN "part" ELSE "none")
    BY DEF EstateEvidence, Estate!TelemetryTells, Estate!Told
  <2>. QED BY <2>1, <2>2, EvidenceShows
<1>. QED BY <1>1, <1>2, <1>3 DEF Estate!ItemsOf, Estate!TelemetryFor

\* The quality entry is the worst of the items: none ranks below it.
LEMMA WorstIsLeast ==
  ASSUME NEW S \in SUBSET Estate!Truth, S # {}
  PROVE  Estate!Worst(S) \in S /\ \A u \in S : Estate!Rank(Estate!Worst(S)) <= Estate!Rank(u)
<1>0. /\ Estate!Rank("unavailable") = 0 /\ Estate!Rank("unreachable") = 1
      /\ Estate!Rank("unknown") = 2 /\ Estate!Rank("partial") = 3
      /\ Estate!Rank("stale") = 4 /\ Estate!Rank("current") = 6
  BY DEF Estate!Rank
<1>2. \E t \in S : \A u \in S : Estate!Rank(t) <= Estate!Rank(u)
  <2>1. CASE "unavailable" \in S
    BY <1>0, <2>1 DEF Estate!Truth
  <2>2. CASE "unavailable" \notin S /\ "unreachable" \in S
    BY <1>0, <2>2 DEF Estate!Truth
  <2>3. CASE S \cap {"unavailable", "unreachable"} = {} /\ "unknown" \in S
    BY <1>0, <2>3 DEF Estate!Truth
  <2>4. CASE S \cap {"unavailable", "unreachable", "unknown"} = {} /\ "partial" \in S
    BY <1>0, <2>4 DEF Estate!Truth
  <2>5. CASE S \subseteq {"stale", "current"} /\ "stale" \in S
    BY <1>0, <2>5
  <2>6. CASE S = {"current"}
    BY <1>0, <2>6
  <2>. QED BY <2>1, <2>2, <2>3, <2>4, <2>5, <2>6 DEF Estate!Truth
<1>3. Estate!Worst(S) = CHOOSE t \in S : \A u \in S : Estate!Rank(t) <= Estate!Rank(u)
  BY DEF Estate!Worst
<1>. QED BY <1>2, <1>3

\* So it is healthy only when every item is, and unknown or worse when one is.
LEMMA WorstShows ==
  ASSUME NEW S \in SUBSET Estate!Truth, S # {}
  PROVE  /\ Estate!Worst(S) = "current" => S = {"current"}
         /\ S \cap EstateSunk # {} => Estate!Rank(Estate!Worst(S)) <= Estate!Rank("unknown")
<1>1. PICK w \in S : w = Estate!Worst(S) /\ \A u \in S : Estate!Rank(w) <= Estate!Rank(u)
  BY WorstIsLeast
<1>2. /\ \A t \in Estate!Truth : Estate!Rank(t) \in 0..6 /\ (Estate!Rank(t) >= 6 => t = "current")
      /\ Estate!Rank("current") = 6 /\ Estate!Rank("unknown") = 2
      /\ \A t \in EstateSunk : Estate!Rank(t) <= 2
  BY DEF Estate!Truth, Estate!Rank, EstateSunk
<1>3. w = "current" => \A u \in S : u = "current"
  BY <1>1, <1>2
<1>4. S \cap EstateSunk # {} => Estate!Rank(w) <= Estate!Rank("unknown")
  BY <1>1, <1>2
<1>. QED BY <1>1, <1>3, <1>4

\* When the shared task has read every population, its result is good.
LEMMA EstateResultIsGood ==
  ASSUME EstateInv, workers = {}, task # "none"
  PROVE  EstateResultGood(Estate!Result)
<1>1. \A a \in specs : EstateItemGood(items[a])
  BY DEF EstateInv
<1>2. specs # {}
  BY EstatesAssumption DEF EstateInv
<1>3. Estate!Truths # {} /\ Estate!Truths \subseteq Estate!Truth
  BY <1>1, <1>2 DEF Estate!Truths, EstateItemGood, Estate!Item
<1>4. Estate!Truths = {"current"} => {items[a].flaw : a \in specs} = {"none"}
  BY <1>1, <1>2 DEF Estate!Truths, EstateItemGood
<1>5. "all" \in {items[a].flaw : a \in specs} => Estate!Truths \cap EstateSunk # {}
  BY <1>1 DEF Estate!Truths, EstateItemGood
<1>6. Estate!Result.truths = Estate!Truths /\
        Estate!Result.flaws = {items[a].flaw : a \in specs}
  BY DEF Estate!Result
<1>. QED BY <1>3, <1>4, <1>5, <1>6 DEF EstateResultGood

\* A request's new state leaves the others as they were.
LEMMA RequestMoves ==
  ASSUME NEW f, DOMAIN f = Overviews, \A x \in Overviews : EstateRequestGood(f[x]),
         NEW r \in Overviews, NEW q, EstateRequestGood(q)
  PROVE  /\ DOMAIN [f EXCEPT ![r] = q] = Overviews
         /\ \A x \in Overviews : EstateRequestGood([f EXCEPT ![r] = q][x])
<1>1. \A x \in Overviews : [f EXCEPT ![r] = q][x] = IF x = r THEN q ELSE f[x]
  OBVIOUS
<1>. QED BY <1>1


\* Before the first request nothing runs and nothing was read.
LEMMA EstateInitial == MCInit => EstateInv
<1>. SUFFICES ASSUME MCInit PROVE EstateInv
  OBVIOUS
<1>1. /\ specs \in Estates /\ task = "none" /\ workers = {}
      /\ items = [a \in specs |-> Estate!NoItem]
      /\ req = [r \in Overviews |-> Estate!At("idle")]
  BY DEF MCInit, Estate!Init
<1>2. EstateRequestGood(Estate!At("idle"))
  BY DEF EstateRequestGood, Estate!At
<1>. QED BY <1>1, <1>2 DEF EstateInv

\* Every step of the component keeps it.
LEMMA EstateKeeps == EstateInv /\ Estate!Next => EstateInv'
<1>. SUFFICES ASSUME EstateInv, Estate!Next PROVE EstateInv'
  OBVIOUS
<1>0. /\ DOMAIN req = Overviews /\ \A r \in Overviews : EstateRequestGood(req[r])
      /\ DOMAIN items = specs
  BY DEF EstateInv
<1>a. \A st \in {"idle", "refused", "waits", "gone"} : EstateRequestGood(Estate!At(st))
  BY DEF EstateRequestGood, Estate!At
<1>1. CASE \E r \in Overviews : Estate!Refuse(r) \/ Estate!Disconnect(r)
  <2>1. PICK r \in Overviews, st \in {"refused", "gone"} :
          /\ req' = [req EXCEPT ![r] = Estate!At(st)]
          /\ UNCHANGED <<specs, task, workers, items>>
    BY <1>1 DEF Estate!Refuse, Estate!Disconnect
  <2>2. DOMAIN req' = Overviews /\ \A x \in Overviews : EstateRequestGood(req'[x])
    <3>1. PICK f, q : f = req /\ q = Estate!At(st)
      OBVIOUS
    <3>2. EstateRequestGood(q)
      BY <1>a, <3>1
    <3>3. \A x \in Overviews : EstateRequestGood(f[x])
      BY <1>0, <3>1
    <3>. QED BY <1>0, <2>1, <3>1, <3>2, <3>3, RequestMoves
  <2>. QED BY <2>1, <2>2 DEF EstateInv
<1>2. CASE \E r \in Overviews : Estate!StartRead(r)
  <2>1. PICK r \in Overviews : Estate!StartRead(r)
    BY <1>2
  <2>2. DOMAIN req' = Overviews /\ \A x \in Overviews : EstateRequestGood(req'[x])
    BY <1>0, <1>a, <2>1 DEF Estate!StartRead
  <2>3. /\ task' = "running" /\ specs' = specs /\ workers' = specs \cap Estate!Implemented
        /\ DOMAIN items' = specs
        /\ \A a \in specs : items'[a] = IF a \in Estate!Implemented THEN Estate!NoItem
                                        ELSE Estate!NothingRead(Estate!NoReader)
    BY <2>1 DEF Estate!StartRead
  <2>4. EstateItemGood(Estate!NothingRead(Estate!NoReader))
    BY DEF EstateItemGood, Estate!Item, Estate!Truth, Estate!NoReader, Estate!NothingRead,
           EstateSunk
  <2>. QED BY <2>2, <2>3, <2>4 DEF EstateInv
<1>3. CASE \E r \in Overviews : Estate!JoinRead(r)
  <2>1. PICK r \in Overviews : Estate!JoinRead(r)
    BY <1>3
  <2>2. task = "done" => EstateRequestGood(Estate!Holding(Estate!Result))
    BY EstateResultIsGood DEF EstateInv, EstateRequestGood, Estate!Holding
  <2>3. DOMAIN req' = Overviews /\ \A x \in Overviews : EstateRequestGood(req'[x])
    BY <1>0, <1>a, <2>1, <2>2 DEF Estate!JoinRead
  <2>. QED BY <2>1, <2>3 DEF EstateInv, Estate!JoinRead
<1>4. CASE \E a \in specs : Estate!WorkerAnswers(a) \/ Estate!WorkerKilled(a)
  <2>1. PICK a \in specs : Estate!WorkerAnswers(a) \/ Estate!WorkerKilled(a)
    BY <1>4
  <2>2. a \in workers /\ workers' = workers \ {a} /\ UNCHANGED <<specs, task, req>>
    BY <2>1 DEF Estate!WorkerAnswers, Estate!WorkerKilled
  <2>3. \E i : EstateItemGood(i) /\ items' = [items EXCEPT ![a] = i]
    <3>1. CASE Estate!WorkerAnswers(a)
      BY <2>2, <3>1, ReaderHonest DEF Estate!WorkerAnswers, EstateInv
    <3>2. CASE Estate!WorkerKilled(a)
      BY <3>2 DEF Estate!WorkerKilled, EstateItemGood, Estate!Item, Estate!Truth,
                  Estate!TimedOut, Estate!NothingRead, EstateSunk
    <3>. QED BY <2>1, <3>1, <3>2
  <2>. QED BY <2>2, <2>3 DEF EstateInv
<1>5. CASE Estate!TaskEnds
  <2>1. EstateResultGood(Estate!Result)
    BY <1>5, EstateResultIsGood DEF Estate!TaskEnds
  <2>2. EstateRequestGood(Estate!Holding(Estate!Result))
    BY <2>1 DEF EstateRequestGood, Estate!Holding
  <2>3. DOMAIN req' = Overviews /\ \A x \in Overviews : EstateRequestGood(req'[x])
    BY <1>0, <1>5, <2>2 DEF Estate!TaskEnds
  <2>. QED BY <1>5, <2>3 DEF EstateInv, Estate!TaskEnds
<1>6. CASE Estate!ClearTask
  <2>1. workers = {}
    BY <1>6 DEF EstateInv, Estate!ClearTask
  <2>. QED BY <1>0, <1>6, <2>1 DEF EstateInv, Estate!ClearTask
<1>7. CASE \E r \in Overviews : Estate!Respond(r)
  <2>1. PICK r \in Overviews : Estate!Respond(r)
    BY <1>7
  <2>2. PICK project \in Estate!Truth :
          req' = [req EXCEPT ![r] =
                    Estate!Answered(Estate!Together(req[r].result.truths \cup {project}),
                                    Estate!Worst(req[r].result.truths), req[r].result)]
    BY <1>0, <2>1 DEF Estate!Respond
  <2>3. EstateResultGood(req[r].result)
    BY <1>0, <2>1 DEF EstateRequestGood, Estate!Respond
  <2>. DEFINE result == req[r].result
              q == Estate!Answered(Estate!Together(result.truths \cup {project}),
                                   Estate!Worst(result.truths), result)
  <2>4. Estate!Together(result.truths \cup {project}) = "current" => result.truths = {"current"}
    BY <2>3 DEF Estate!Together, EstateResultGood
  <2>5. /\ Estate!Worst(result.truths) = "current" => result.truths = {"current"}
        /\ result.truths \cap EstateSunk # {} =>
             Estate!Rank(Estate!Worst(result.truths)) <= Estate!Rank("unknown")
    BY <2>3, WorstShows DEF EstateResultGood
  <2>6. EstateRequestGood(q)
    BY <2>3, <2>4, <2>5 DEF EstateRequestGood, EstateResultGood, Estate!Answered
  <2>7. req' = [req EXCEPT ![r] = q]
    BY <2>2
  <2>. HIDE DEF q
  <2>8. DOMAIN req' = Overviews /\ \A x \in Overviews : EstateRequestGood(req'[x])
    BY <1>0, <2>6, <2>7
  <2>. QED BY <2>1, <2>8 DEF EstateInv, Estate!Respond
<1>. QED BY <1>1, <1>2, <1>3, <1>4, <1>5, <1>6, <1>7 DEF Estate!Next

\* Through every behaviour, whatever the populations, requests and readers do.
THEOREM EstateInvariance == MCSpec => []EstateInv
<1>1. EstateInv /\ [MCNext]_MCvars => EstateInv'
  <2>. SUFFICES ASSUME EstateInv, [MCNext]_MCvars PROVE EstateInv'
    OBVIOUS
  <2>1. CASE EstateStep
    BY <2>1, EstateKeeps DEF EstateStep
  <2>2. CASE UNCHANGED estateVars
    BY <2>2 DEF EstateInv, estateVars, Estate!Truths, Estate!Result
  <2>. QED BY <2>1, <2>2 DEF MCNext, MCvars, VisibilityStep, ScheduleStep, AlertStep,
                             BearerStep, BoardStep
<1>. QED BY EstateInitial, <1>1, PTL DEF MCSpec

\* The estate read is safe: one worker per population, only for the shared task; an
\* overview or its quality entry is current only when no source had a flaw its reader
\* can notice, and the entry is unknown or worse when of some source nothing was read.
THEOREM EstateIsSafe == MCSpec => []EstateSafe
<1>1. EstateInv => EstateSafe
  <2>. SUFFICES ASSUME EstateInv PROVE EstateSafe
    OBVIOUS
  <2>1. Estate!TypeOK
    BY DEF EstateInv, EstateItemGood, Estate!TypeOK
  <2>2. Estate!WorkersServeTheTask
    BY DEF EstateInv, Estate!WorkersServeTheTask
  <2>3. Estate!FlawsShow
    <3>. SUFFICES ASSUME NEW r \in Overviews, req[r].st = "answered"
                  PROVE  /\ "current" \in {req[r].truth, req[r].quality} =>
                              req[r].result.flaws = {"none"}
                         /\ "all" \in req[r].result.flaws =>
                              Estate!Rank(req[r].quality) <= Estate!Rank("unknown")
      BY DEF Estate!FlawsShow
    <3>1. EstateRequestGood(req[r])
      BY DEF EstateInv
    <3>. QED BY <3>1 DEF EstateRequestGood
  <2>. QED BY <2>1, <2>2, <2>3 DEF EstateSafe, Estate!EstateSafe
<1>. QED BY <1>1, EstateInvariance, PTL
=============================================================================
