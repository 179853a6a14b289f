------------------------- MODULE LoginTransactions -------------------------
(***************************************************************************)
(* Sign-in of a browser: the login transaction that login stores, and the   *)
(* callback that consumes it and opens a session                            *)
(* (src/src/skdashboard/session_adapter.py).                                *)
(*                                                                         *)
(* Each database transaction is one action.  login awaits the provider's     *)
(* metadata once its row is stored, callback awaits the exchange of the code  *)
(* once it has taken the row; other requests, a cancellation or a restart     *)
(* may come in between.  A browser may return with the same state again, and  *)
(* the provider issues a new code to a browser that asks again with it.      *)
(* State, nonce and verifier are the identity of a login.                   *)
(***************************************************************************)
EXTENDS Naturals, FiniteSets

CONSTANTS
  Logins,            \* the states that login draws; each is drawn once
  Sources,           \* client hosts
  Callbacks,         \* callback requests served at a time
  MAX_LOGIN_GLOBAL, MAX_LOGIN_SOURCE,
  LOGIN_TTL,
  MaxClock           \* bound on the clock

VARIABLES
  clock,
  table,     \* login_transactions: the logins that have a row
  login,     \* each login: how far it came; source and expires_at of its row
  callback,  \* each callback being served
  sessions   \* how many sessions were opened from each login

vars == <<clock, table, login, callback, sessions>>

Unused(s) == [stage |-> "unused", source |-> s, expires |-> 0]
Idle == [pc |-> "idle"]
Exchanging(l) == [pc |-> "exchange", login |-> l, now |-> clock]

Init ==
  /\ clock = 0 /\ table = {}
  /\ login \in [Logins -> {Unused(s) : s \in Sources}]
  /\ callback = [c \in Callbacks |-> Idle]
  /\ sessions = [l \in Logins |-> 0]

Live == {l \in table : login[l].expires > clock}
From(s) == {l \in Live : login[l].source = s}
Limited(s) == Cardinality(Live) >= MAX_LOGIN_GLOBAL \/ Cardinality(From(s)) >= MAX_LOGIN_SOURCE

-----------------------------------------------------------------------------
(* login: rows that are over are purged, whether or not there is room.       *)

Login(l) ==
  /\ login[l].stage = "unused" /\ ~Limited(login[l].source)
  /\ table' = Live \cup {l}
  /\ login' = [login EXCEPT ![l].stage = "asked", ![l].expires = clock + LOGIN_TTL]
  /\ UNCHANGED <<clock, callback, sessions>>

RateLimited(s) ==
  /\ Limited(s)
  /\ table' = Live
  /\ UNCHANGED <<clock, login, callback, sessions>>

\* The browser is sent to the provider, or told that there is none: the row stays.
Redirect(l) ==
  /\ login[l].stage = "asked"
  /\ \E stage \in {"sent", "lost"} : login' = [login EXCEPT ![l].stage = stage]
  /\ UNCHANGED <<clock, table, callback, sessions>>

-----------------------------------------------------------------------------
(* callback                                                                  *)

CameBack(l) == login' = [login EXCEPT ![l].stage = "returned"]

\* Mutant: the row is read, and left to the purge.
CallbackByReading(c, l) ==
  /\ callback[c] = Idle /\ login[l].stage \in {"sent", "returned"}
  /\ CameBack(l)
  /\ callback' = IF l \in Live THEN [callback EXCEPT ![c] = Exchanging(l)] ELSE callback
  /\ UNCHANGED <<clock, table, sessions>>
\* The row is deleted and read at once; what was over, or taken before, is refused.
Callback(c, l) ==
  /\ callback[c] = Idle /\ login[l].stage \in {"sent", "returned"}
  /\ CameBack(l)
  /\ table' = table \ {l}
  /\ callback' = IF l \in Live THEN [callback EXCEPT ![c] = Exchanging(l)] ELSE callback
  /\ UNCHANGED <<clock, sessions>>

\* The exchange, the enrolment of the operator and the new row succeed.
SessionOpened(c) ==
  /\ callback[c].pc = "exchange"
  /\ sessions' = [sessions EXCEPT ![callback[c].login] = @ + 1]
  /\ callback' = [callback EXCEPT ![c] = Idle]
  /\ UNCHANGED <<clock, table, login>>

\* One of them fails, or the browser leaves: the login is not given back.
SignInFailed(c) ==
  /\ callback[c].pc = "exchange"
  /\ callback' = [callback EXCEPT ![c] = Idle]
  /\ UNCHANGED <<clock, table, login, sessions>>

-----------------------------------------------------------------------------
Restart ==
  /\ callback' = [c \in Callbacks |-> Idle]
  /\ login' = [l \in Logins |-> IF login[l].stage = "asked"
                                THEN [login[l] EXCEPT !.stage = "lost"] ELSE login[l]]
  /\ UNCHANGED <<clock, table, sessions>>

Tick ==
  /\ clock < MaxClock
  /\ clock' = clock + 1
  /\ UNCHANGED <<table, login, callback, sessions>>

Next ==
  \/ \E l \in Logins : Login(l) \/ Redirect(l) \/ \E c \in Callbacks : Callback(c, l)
  \/ \E s \in Sources : RateLimited(s)
  \/ \E c \in Callbacks : SessionOpened(c) \/ SignInFailed(c)
  \/ Restart \/ Tick

Spec == Init /\ [][Next]_vars

-----------------------------------------------------------------------------
(* Properties.                                                              *)

\* A login waits in the table, or is being exchanged, or has opened its session: one of
\* them, once, however often the browser returns; it was taken before it was over.
OneSessionPerLogin ==
  \A l \in Logins :
    LET exchanges == {c \in Callbacks : callback[c].pc = "exchange" /\ callback[c].login = l}
    IN  /\ Cardinality({l} \cap table) + Cardinality(exchanges) + sessions[l] <= 1
        /\ \A c \in exchanges : callback[c].now < login[l].expires

\* Neither the logins of others nor their purge cost a browser its own: until it comes
\* back, or its time is over, its row is there.
LoginIsKept ==
  \A l \in Logins :
    login[l].stage \in {"asked", "sent"} /\ clock < login[l].expires => l \in table

\* The limits hold, also while rows are over and not purged.
LimitsHold ==
  /\ Cardinality(Live) <= MAX_LOGIN_GLOBAL
  /\ \A s \in Sources : Cardinality(From(s)) <= MAX_LOGIN_SOURCE

\* A login leads to one session at most and is there for it; the limits of session_adapter.py hold.
SignInsAccounted == OneSessionPerLogin /\ LoginIsKept /\ LimitsHold
=============================================================================
