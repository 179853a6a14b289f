---------------------------- MODULE MCAuthority ----------------------------
(* The components that decide who may read or act: sign-in, protected reads,   *)
(* changes and their consent, and the capability state.  They share no state,  *)
(* so one of them runs at a time.                                              *)
EXTENDS ProtectedRead, TLC

CONSTANTS
  Acts, MaxHead, MaxOther,
  Authorizations, Credentials, Lifetime, MaxClock, LockWait,
  Logins, Sources, Callbacks, MAX_LOGIN_GLOBAL, MAX_LOGIN_SOURCE, LOGIN_TTL

VARIABLES
  part,
  gate, status, pr, log, act,
  clock, custody, revoked, replay, audit, holder, reserved, authorization,
  now, table, login, callback, sessions

Change == INSTANCE ChangeControl WITH Requests <- Acts, req <- act
Capability == INSTANCE CapabilityState WITH Requests <- Authorizations, req <- authorization
Entry == INSTANCE LoginTransactions WITH clock <- now, MaxClock <- LOGIN_TTL + 1

\* The names of the other writers and of no holder are no request's; a lifetime is
\* a number of seconds.
ASSUME WriterAssumption == "other" \notin Acts
ASSUME HeadAssumption == MaxHead \in Nat \ {0}
ASSUME HolderAssumption == Capability!Nobody \notin Authorizations /\ Lifetime \in Nat
\* The limits and the lifetime of a login are numbers of logins and of seconds.
ASSUME LoginAssumption ==
  MAX_LOGIN_GLOBAL \in Nat /\ MAX_LOGIN_SOURCE \in Nat /\ LOGIN_TTL \in Nat

changeVars == <<gate, status, pr, log, act>>
capabilityVars ==
  <<clock, custody, revoked, replay, audit, holder, reserved, authorization>>
loginVars == <<now, table, login, callback, sessions>>
MCvars == <<part, vars, changeVars, capabilityVars, loginVars>>

MCInit ==
  /\ part \in {"reads", "changes", "capabilities", "logins"}
  /\ Init /\ (part # "reads" => deployment = CHOOSE d \in Deployments : TRUE)
  /\ Change!Init
  /\ part # "changes" =>
       /\ gate = (CHOOSE g \in Change!Gates : TRUE)
       /\ status = "proposed" /\ pr.prepared = 0
  /\ Capability!Init
  /\ Entry!Init
  /\ part # "logins" =>
       \A l \in Logins : login[l].source = CHOOSE s \in Sources : TRUE

ReadStep ==
  /\ part = "reads" /\ Next
  /\ UNCHANGED <<part, changeVars, capabilityVars, loginVars>>
ChangeStep ==
  /\ part = "changes" /\ Change!Next
  /\ UNCHANGED <<part, vars, capabilityVars, loginVars>>
CapabilityStep ==
  /\ part = "capabilities" /\ Capability!Next
  /\ UNCHANGED <<part, vars, changeVars, loginVars>>
LoginStep ==
  /\ part = "logins" /\ Entry!Next
  /\ UNCHANGED <<part, vars, changeVars, capabilityVars>>

MCNext == ReadStep \/ ChangeStep \/ CapabilityStep \/ LoginStep

MCSpec == MCInit /\ [][MCNext]_MCvars

Interchangeable == Permutations(Authorizations)

-----------------------------------------------------------------------------
(* The properties of the instances; the others are ProtectedRead's own.        *)

\* ChangeControl: what is applied was allowed, by a person where it must be.
ActsAreAnswerable == Change!ActsAreAnswerable

\* ChangeControl: without a push in between, a verdict is that of its commit.
QuietVerdictIsExact == Change!QuietVerdictIsExact

\* CapabilityState: no credential is reserved twice, or after its date.
ReservedOnceInDate == Capability!ReservedOnceInDate

\* LoginTransactions: one session per login, no login lost to others, within the limits.
SignInsAccounted == Entry!SignInsAccounted
=============================================================================
