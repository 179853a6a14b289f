----------------------------- MODULE FleetAlert -----------------------------
(***************************************************************************)
(* The alert gate of the fleet drift view                                    *)
(* (src/src/skdashboard/dashboard_fleet.py): each poll of the page collects  *)
(* the error-grade findings, compares their fingerprint with the one in a    *)
(* state file, and sends at most one alert, with a cooldown.                *)
(*                                                                         *)
(* A poll reads the file, sends, and writes the file; the dashboard may die  *)
(* and the write may fail in between.  Times are ages that stop counting at  *)
(* the cooldown, so that the model needs no bound on time.                  *)
(***************************************************************************)
EXTENDS Naturals

CONSTANTS
  Findings,     \* error-grade findings a node can have
  Cooldown,     \* ALERT_MIN_INTERVAL_S, one at least
  MaxLost       \* state writes lost, by failure or by a crash

VARIABLES
  drift,      \* the fingerprint of the fleet now
  file,       \* the state file: fingerprint and age of last_fire
  poll,       \* the poll under way
  sent,       \* age of the last call of the sender, made as now is taken
  told,       \* fingerprint of the last alert delivered, or recorded as cleared
  missing,    \* what of the last call or message the file lacks; for the properties only
  lost        \* state writes lost so far

vars == <<drift, file, poll, sent, told, missing, lost>>

Age == 0..Cooldown
Older(age) == IF age < Cooldown THEN age + 1 ELSE age
Fingerprint == SUBSET Findings
Never == {"never"}     \* no fingerprint in the file

NoPoll == [pc |-> "idle", seen |-> {}, age |-> Cooldown, at |-> Cooldown]

Init ==
  /\ drift = {}
  /\ file = [fingerprint |-> Never, age |-> Cooldown]
  /\ poll = NoPoll
  /\ sent = Cooldown
  /\ told = {}
  /\ missing = {}
  /\ lost = 0

-----------------------------------------------------------------------------
(* A poll.  poll.age is the age of last_fire in the state the poll will      *)
(* write, poll.at the time since the poll took its now.                     *)

Collect ==
  /\ poll.pc = "idle"
  /\ poll' = [NoPoll EXCEPT !.pc = "gate", !.seen = drift]
  /\ UNCHANGED <<drift, file, sent, told, missing, lost>>

\* Mutant: the cooldown is not looked at.
GateWithoutCooldown ==
  /\ poll.pc = "gate"
  /\ poll' = CASE poll.seen = file.fingerprint -> NoPoll
               [] poll.seen # file.fingerprint /\ poll.seen = {} ->
                    [poll EXCEPT !.pc = "clear", !.age = file.age]
               [] OTHER -> [poll EXCEPT !.pc = "send", !.at = 0]
  /\ sent' = IF poll'.pc = "send" THEN 0 ELSE sent
  /\ UNCHANGED <<drift, file, told, missing, lost>>

\* The three gates in their order, unchanged, cleared and rate limited; past
\* them, the sender is called.
Gate ==
  /\ poll.pc = "gate"
  /\ LET changed == poll.seen # file.fingerprint IN
       \/ ~changed /\ poll' = NoPoll
       \/ /\ changed /\ poll.seen = {}
          /\ poll' = [poll EXCEPT !.pc = "clear", !.age = file.age]
       \/ /\ changed /\ poll.seen # {} /\ file.age < Cooldown
          /\ poll' = NoPoll
       \/ /\ changed /\ poll.seen # {} /\ file.age = Cooldown
          /\ poll' = [poll EXCEPT !.pc = "send", !.at = 0]
  /\ sent' = IF poll'.pc = "send" THEN 0 ELSE sent
  /\ UNCHANGED <<drift, file, told, missing, lost>>

\* Recovery: the fingerprint is recorded, last_fire is left alone.
Clear ==
  /\ poll.pc = "clear"
  /\ file' = [fingerprint |-> {}, age |-> poll.age]
  /\ told' = {}
  /\ missing' = missing \ {"fingerprint"}
  /\ poll' = NoPoll
  /\ UNCHANGED <<drift, sent, lost>>

\* The sender answers: the alert is delivered, or it failed.
Send ==
  /\ poll.pc = "send"
  /\ \/ told' = poll.seen /\ poll' = [poll EXCEPT !.pc = "fired"]
     \/ UNCHANGED told /\ poll' = [poll EXCEPT !.pc = "failed"]
  /\ UNCHANGED <<drift, file, sent, missing, lost>>

\* Mutant: the fingerprint is recorded whether or not the alert was delivered.
RecordAlways ==
  /\ poll.pc \in {"fired", "failed"}
  /\ file' = [fingerprint |-> poll.seen, age |-> poll.at]
  /\ missing' = {}
  /\ poll' = NoPoll
  /\ UNCHANGED <<drift, sent, told, lost>>

\* Mutant: only last_fire is recorded.
RecordTime ==
  /\ poll.pc \in {"fired", "failed"}
  /\ file' = [file EXCEPT !.age = poll.at]
  /\ missing' = missing \ {"age"}
  /\ poll' = NoPoll
  /\ UNCHANGED <<drift, sent, told, lost>>

\* last_fire advances in any case, the fingerprint only if the alert was
\* delivered.
Record ==
  /\ poll.pc \in {"fired", "failed"}
  /\ file' = [fingerprint |-> IF poll.pc = "fired" THEN poll.seen ELSE file.fingerprint,
              age |-> poll.at]
  /\ missing' = IF poll.pc = "fired" THEN {} ELSE missing \ {"age"}
  /\ poll' = NoPoll
  /\ UNCHANGED <<drift, sent, told, lost>>

\* The write fails, which the gate survives, or the dashboard dies before it.
LoseWrite ==
  /\ poll.pc \in {"clear", "send", "fired", "failed"} /\ lost < MaxLost
  /\ poll' = NoPoll /\ lost' = lost + 1
  /\ missing' = missing \cup (CASE poll.pc = "clear" -> {}
                                [] poll.pc = "fired" -> {"age", "fingerprint"}
                                [] OTHER -> {"age"})
  /\ UNCHANGED <<drift, file, sent, told>>

-----------------------------------------------------------------------------
(* The fleet and time.                                                      *)

Drift ==
  /\ drift' \in Fingerprint \ {drift}
  /\ UNCHANGED <<file, poll, sent, told, missing, lost>>

Tick ==
  /\ file' = [file EXCEPT !.age = Older(@)]
  /\ poll' = [poll EXCEPT !.age = Older(@), !.at = Older(@)]
  /\ sent' = Older(sent)
  /\ UNCHANGED <<drift, told, missing, lost>>

Poll == Collect \/ Gate \/ Clear \/ Send \/ Record

Next == Poll \/ LoseWrite \/ Drift \/ Tick

Spec == Init /\ [][Next]_vars

\* The page keeps polling, time passes, and the sender does not fail for ever.
FairSpec ==
  /\ Spec
  /\ WF_vars(Collect) /\ WF_vars(Gate) /\ WF_vars(Clear) /\ WF_vars(Send) /\ WF_vars(Record)
  /\ WF_vars(Tick) /\ SF_vars(Send /\ told' = poll.seen)

-----------------------------------------------------------------------------
(* Properties.                                                              *)

\* The step of a poll that calls the sender.
Call == poll.pc = "gate" /\ poll'.pc = "send"

\* The rate of the alerts is not that of the polls: the sender is called again
\* within the cooldown only right after a call whose write was lost, and with what
\* the operator was told last only until a write after it succeeds.
AlertsAreOwed ==
  [][Call => /\ sent = Cooldown \/ "age" \in missing
             /\ poll.seen # told \/ "fingerprint" \in missing]_vars

\* Drift that stays is told, through failed sends, the cooldown, changes deferred by
\* it and lost writes, unless the write lost is that of a delivered message: drift
\* that returns to the fingerprint of the older file looks unchanged.
StandingDriftIsTold ==
  \A f \in Fingerprint \ {{}} :
    <>[](drift = f) => <>[](told = f \/ "fingerprint" \in missing)
=============================================================================
