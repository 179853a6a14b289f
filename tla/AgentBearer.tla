----------------------------- MODULE AgentBearer ----------------------------
(***************************************************************************)
(* agent_bearer.py: a timer starts a process that turns the stored refresh        *)
(* token into a bearer, or signs the agent in when the provider does not take      *)
(* the token, and writes the new refresh token before the bearer.  The provider    *)
(* takes a refresh token once.  The process may die anywhere.                  *)
(***************************************************************************)
EXTENDS Naturals

CONSTANTS
  MaxTokens,   \* bound: tokens the provider issues
  MaxFaults    \* bound: deaths, and requests of the provider that fail

VARIABLES
  stored,   \* refresh token in the file, 0 if there is none
  valid,    \* the refresh token the provider takes, 0 if it takes none
  issued,   \* tokens issued
  bearer,   \* the token whose bearer the file holds
  fresh,    \* whether that bearer is in date
  faults,
  pc        \* step of the process, and the tokens it holds

vars == <<stored, valid, issued, bearer, fresh, faults, pc>>

At(step) == [at |-> step, token |-> 0]
Holding(step, token) == [at |-> step, token |-> token]

Init ==
  /\ stored = 0 /\ valid = 0 /\ issued = 0 /\ bearer = 0
  /\ fresh = FALSE
  /\ faults = 0
  /\ pc = At("idle")

\* refresh: the agent's directory and the token file.
Start ==
  /\ pc.at = "idle"
  /\ issued < MaxTokens
  /\ pc' = At(IF stored # 0 THEN "refreshing" ELSE "login")
  /\ UNCHANGED <<stored, valid, issued, bearer, fresh, faults>>

\* A grant rotates the refresh token.  One may also come without a refresh token, which
\* leaves the file as it is, whether or not the provider still takes what is in it.
Granted ==
  /\ issued' = issued + 1
  /\ \/ valid' = issued + 1 /\ pc' = Holding("received", issued + 1)
     \/ valid' \in {valid, 0} /\ pc' = Holding("kept", issued + 1)

\* Mutant: a token that is refused ends the run.
RefreshOrEnd ==
  /\ pc.at = "refreshing"
  /\ IF stored = valid THEN Granted ELSE pc' = At("idle") /\ UNCHANGED <<valid, issued>>
  /\ UNCHANGED <<stored, bearer, fresh, faults>>
\* A token that is refused is not the end: the agent signs in.
Refresh ==
  /\ pc.at = "refreshing"
  /\ IF stored = valid THEN Granted ELSE pc' = At("login") /\ UNCHANGED <<valid, issued>>
  /\ UNCHANGED <<stored, bearer, fresh, faults>>

\* _login_code: authorize, challenge, a signature by the agent's key, complete, exchange.
Login ==
  /\ pc.at = "login"
  /\ Granted
  /\ UNCHANGED <<stored, bearer, fresh, faults>>

\* _write_private replaces the file.
WriteRefresh ==
  /\ pc.at = "received"
  /\ stored' = pc.token
  /\ pc' = [pc EXCEPT !.at = "kept"]
  /\ UNCHANGED <<valid, issued, bearer, fresh, faults>>

WriteBearer ==
  /\ pc.at = "kept"
  /\ bearer' = pc.token
  /\ fresh' = TRUE
  /\ pc' = At("idle")
  /\ UNCHANGED <<stored, valid, issued, faults>>

\* The process dies, or the provider or gpg fails and it raises.
Fail ==
  /\ faults < MaxFaults
  /\ pc.at # "idle"
  /\ faults' = faults + 1
  /\ pc' = At("idle")
  /\ UNCHANGED <<stored, valid, issued, bearer, fresh>>

\* The answer of a rotation is lost: the provider has taken the token.
LoseAnswer ==
  /\ faults < MaxFaults
  /\ pc.at = "refreshing" /\ stored = valid
  /\ issued' = issued + 1 /\ valid' = issued + 1
  /\ faults' = faults + 1
  /\ pc' = At("idle")
  /\ UNCHANGED <<stored, bearer, fresh>>

\* External: the bearer's date passes, and the provider forgets the token.
Expire ==
  /\ fresh
  /\ fresh' = FALSE
  /\ valid' \in {valid, 0}
  /\ UNCHANGED <<stored, issued, bearer, faults, pc>>

Work == Start \/ Refresh \/ Login \/ WriteRefresh \/ WriteBearer
Next == Work \/ Fail \/ LoseAnswer \/ Expire

\* The timer starts the process again, and the process takes its next step.
Fairness == WF_vars(Work)

FairSpec == Init /\ [][Next]_vars /\ Fairness

-----------------------------------------------------------------------------
(* Wherever the process dies, also between the rotation at the provider and the     *)
(* write of the new token, a later run gives the agent a bearer that is in date.     *)
BearerComesBack == ~fresh ~> (fresh \/ issued = MaxTokens)

=============================================================================
