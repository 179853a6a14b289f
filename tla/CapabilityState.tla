-------------------------- MODULE CapabilityState --------------------------
(***************************************************************************)
(* The runtime authorizer (runtime_authorizer.py): the policy files and the     *)
(* keyring a decision is verified with, and the SQLite state that makes a        *)
(* credential usable once.  Several processes share that state; a reservation    *)
(* takes its time before it waits for the database's write lock.               *)
(* The order of a decision's steps is capauth's.                             *)
(***************************************************************************)
EXTENDS Naturals, Sequences

CONSTANTS
  Requests,
  Credentials,
  Lifetime,   \* the expiry of a credential
  MaxClock,   \* bound of the clock
  LockWait    \* ticks sqlite waits for the lock

VARIABLES
  clock,
  custody,    \* of the policy files, the keyring and the database
  revoked,
  replay,     \* credentials reserved
  audit,
  holder,     \* the request in its transaction
  reserved,   \* history: when a credential was reserved with success
  req

vars == <<clock, custody, revoked, replay, audit, holder, reserved, req>>

Nobody == "nobody"

\* _read_private_file: owner, mode, links and digest; _verify: the executable, the
\* home and the signature; snapshot: the exact binding.  Each fault refuses.
Faults == {"file", "digest", "keyring", "signature", "binding", "database"}

At(pc) == [pc |-> pc]
Denied == At("denied")

Init ==
  /\ clock = 0
  /\ custody = {}
  /\ revoked = {} /\ replay = {}
  /\ audit = <<>>
  /\ holder = Nobody
  /\ reserved = [c \in Credentials |-> <<>>]
  /\ req = [r \in Requests |-> At("idle")]

Step(r, value) == req' = [req EXCEPT ![r] = value]

\* Issuer policy, signature and principal are read anew for each decision.
Authenticate(r) ==
  /\ req[r].pc = "idle"
  /\ \E c \in Credentials, approved \in BOOLEAN :
       Step(r, IF custody \subseteq {"database"} /\ approved /\ clock < Lifetime
                 THEN [pc |-> "authentic", credential |-> c] ELSE Denied)
  /\ UNCHANGED <<clock, custody, revoked, replay, audit, holder, reserved>>

ReadRevocations(r) ==
  /\ req[r].pc = "authentic"
  /\ Step(r, IF "database" \in custody \/ req[r].credential \in revoked THEN Denied
             ELSE [req[r] EXCEPT !.pc = "live"])
  /\ UNCHANGED <<clock, custody, revoked, replay, audit, holder, reserved>>

\* reserve reads the clock, then connects.
TakeTime(r) ==
  /\ req[r].pc = "live"
  /\ Step(r, [pc |-> "waiting", credential |-> req[r].credential, now |-> clock])
  /\ UNCHANGED <<clock, custody, revoked, replay, audit, holder, reserved>>

BeginImmediate(r) ==
  /\ req[r].pc = "waiting"
  /\ IF "database" \in custody \/ (holder # Nobody /\ clock - req[r].now >= LockWait)
       THEN Step(r, Denied) /\ UNCHANGED holder
       ELSE holder = Nobody /\ holder' = r /\ Step(r, [req[r] EXCEPT !.pc = "holding"])
  /\ UNCHANGED <<clock, custody, revoked, replay, audit, reserved>>

\* Mutant: rows are pruned when they are about to expire.
KeptTooFew(now) == {c \in replay : Lifetime > now + 1}
\* DELETE FROM replay WHERE expires_at < now.
Kept(now) == {c \in replay : ~(Lifetime < now)}

\* Mutant: INSERT OR REPLACE.
InsertedAlways(c, rows) == TRUE
\* INSERT OR IGNORE changes a row only when there is none.
Inserted(c, rows) == c \notin rows

\* The transaction commits whole or rolls back whole.
Commit(r) ==
  /\ holder = r
  /\ holder' = Nobody
  /\ LET c == req[r].credential
         rows == Kept(req[r].now) IN
     \/ /\ replay' = rows \cup {c}
        /\ IF Inserted(c, rows)
             THEN /\ Step(r, [req[r] EXCEPT !.pc = "reserved"])
                  /\ reserved' = [reserved EXCEPT ![c] = Append(@, clock)]
             ELSE Step(r, Denied) /\ UNCHANGED reserved
     \/ Step(r, Denied) /\ UNCHANGED <<replay, reserved>>
  /\ UNCHANGED <<clock, custody, revoked, audit>>

\* Triggers refuse an update and a delete of an audit row.
Record(r) ==
  /\ req[r].pc = "reserved"
  /\ \/ "database" \notin custody /\ audit' = Append(audit, r) /\ Step(r, At("allowed"))
     \/ UNCHANGED audit /\ Step(r, Denied)
  /\ UNCHANGED <<clock, custody, revoked, replay, holder, reserved>>

-----------------------------------------------------------------------------
\* External: time, an operator who revokes, files that are replaced.
Tick ==
  /\ clock < MaxClock
  /\ clock' = clock + 1
  /\ UNCHANGED <<custody, revoked, replay, audit, holder, reserved, req>>

Revoke(c) ==
  /\ c \notin revoked
  /\ revoked' = revoked \cup {c}
  /\ UNCHANGED <<clock, custody, replay, audit, holder, reserved, req>>

Spoil ==
  /\ custody = {}
  /\ \E fault \in Faults : custody' = {fault}
  /\ UNCHANGED <<clock, revoked, replay, audit, holder, reserved, req>>

\* A process that dies in its transaction leaves nothing of it.
Crash(r) ==
  /\ req[r].pc \notin {"idle", "denied", "allowed"}
  /\ Step(r, Denied)
  /\ holder' = IF holder = r THEN Nobody ELSE holder
  /\ UNCHANGED <<clock, custody, revoked, replay, audit, reserved>>

Next ==
  \/ \E r \in Requests :
       \/ Authenticate(r) \/ ReadRevocations(r) \/ TakeTime(r) \/ BeginImmediate(r)
       \/ Commit(r) \/ Record(r) \/ Crash(r)
  \/ \E c \in Credentials : Revoke(c)
  \/ Tick \/ Spoil

Spec == Init /\ [][Next]_vars

-----------------------------------------------------------------------------
(* A credential in its lifetime is reserved once, whatever processes wait for the  *)
(* lock, whatever time they took before, and whatever was pruned meanwhile; and   *)
(* nobody is let in without a row of the audit.  Once its lifetime is over, a        *)
(* request that authenticated before may reserve a pruned credential again.       *)
ReservedOnceInDate ==
  /\ \A c \in Credentials : \A i, j \in DOMAIN reserved[c] :
       i < j => Lifetime < reserved[c][j]
  /\ \A r \in Requests :
       req[r].pc = "allowed" => \E i \in DOMAIN audit : audit[i] = r

=============================================================================
