--------------------------- MODULE SessionAdapter ---------------------------
(***************************************************************************)
(* Browser sessions whose refresh credential stays on the server: resolve,  *)
(* refresh under a compare-and-swap reservation, re-enrolment and logout    *)
(* (src/src/skdashboard/session_adapter.py), with the bounded table of      *)
(* operator proofs of live_control_plane.py.                                *)
(*                                                                         *)
(* The adapter runs on one asyncio event loop: the code between two awaits  *)
(* is one action, and at each await (the token exchange, the revocation)    *)
(* other requests of the same session, a cancellation, a restart or the     *)
(* identity provider may come first.  The provider is external: it redeems  *)
(* each refresh token once, revokes the family when an old one is replayed, *)
(* and may answer late, unusably, or not at all.                            *)
(***************************************************************************)
EXTENDS Naturals, SequencesExt

CONSTANTS
  Handles,              \* session handles, one per sign-in
  Requests,             \* browser requests being served at a time
  NoHandle,
  ACCESS_TTL,           \* expires_in of an access token
  MARGIN,               \* an access token is refreshed this early
  REFRESH_RESERVATION_TTL,
  SESSION_TTL,
  MAX_OPERATOR_PROOFS,
  MaxTime,              \* bound on the clock
  MaxSeals              \* bound on the records sealed

ASSUME HandleAssumption == NoHandle \notin Handles
ASSUME SessionTimesAssumption ==
  /\ ACCESS_TTL \in Nat \ {0} /\ MARGIN \in Nat
  /\ REFRESH_RESERVATION_TTL \in Nat \ {0} /\ SESSION_TTL \in Nat \ {0}
  /\ MAX_OPERATOR_PROOFS \in Nat \ {0} /\ MaxTime \in Nat /\ MaxSeals \in Nat

VARIABLES
  clock,
  row,      \* table sessions, decrypted: one record per handle
  seals,    \* how many records were sealed; a seal never repeats (random IV)
  request,  \* the local variables of each request being served
  proofs,   \* _proofs of the bridge: enrolment numbers, oldest first
  idp,      \* external: the provider's token family of each session
  fault     \* history: the sessions for which an answer or a request was
            \* lost, or a reservation was taken over during its exchange

vars == <<clock, row, seals, request, proofs, idp, fault>>

Reply == {"none", "authenticated", "expired", "unavailable", "reauth_required",
          "logged_out", "forbidden", "session_unavailable"}
Answer == {"none", "rotated", "denied", "malformed", "error", "revoked"}

EmptyRow == [state |-> "none", seal |-> 0, token |-> 0, accessUntil |-> 0,
             expires |-> 0, refreshing |-> FALSE, refreshingAt |-> 0, proof |-> 0]
GoneRow == [EmptyRow EXCEPT !.state = "gone"]
NoRequest == [pc |-> "idle", handle |-> NoHandle, now |-> 0, old |-> EmptyRow,
              mine |-> 0, answer |-> "none", reply |-> "none"]

Init ==
  /\ clock = 0 /\ seals = 0
  /\ row = [h \in Handles |-> EmptyRow]
  /\ request = [r \in Requests |-> NoRequest]
  /\ proofs = <<>>
  /\ idp = [h \in Handles |-> [current |-> 0, revoked |-> FALSE]]
  /\ fault = {}

Idle(r) == request[r].pc = "idle"
Serving(h, pcs) == {r \in Requests : request[r].pc \in pcs /\ request[r].handle = h}
Holds(h, seal) == row[h].state = "live" /\ row[h].seal = seal

\* _load, _load_with_state: the row exists and has not expired.
Loaded(h) == row[h].state = "live" /\ clock < row[h].expires

\* The request is answered; the reply stays visible until the next one.
Respond(r, h, reply) ==
  request' = [request EXCEPT ![r] =
                [NoRequest EXCEPT !.handle = h, !.reply = reply]]
Delete(h) == row' = [row EXCEPT ![h] = GoneRow]

\* enroll: at the limit the oldest proof, whoever owns it, makes room.
Enrolled(n) ==
  Append(IF Len(proofs) >= MAX_OPERATOR_PROOFS THEN Tail(proofs) ELSE proofs, n)
Unowned == 0
HasProof(n) == \E i \in 1..Len(proofs) : proofs[i] = n
Discarded(n) ==
  IF HasProof(n) THEN RemoveAt(proofs, CHOOSE i \in 1..Len(proofs) : proofs[i] = n)
  ELSE proofs

-----------------------------------------------------------------------------
(* Sign-in and the identity provider.                                       *)

\* The end of callback: the provider issued the first tokens, the bridge
\* enrolled the operator, the row is inserted.
SignIn(h) ==
  /\ row[h].state = "none" /\ seals < MaxSeals
  /\ seals' = seals + 1
  /\ row' = [row EXCEPT ![h] =
               [EmptyRow EXCEPT !.state = "live", !.seal = seals + 1, !.token = 1,
                                !.accessUntil = clock + ACCESS_TTL,
                                !.expires = clock + SESSION_TTL,
                                !.proof = seals + 1]]
  /\ idp' = [idp EXCEPT ![h].current = 1]
  /\ proofs' = Enrolled(seals + 1)
  /\ UNCHANGED <<clock, request, fault>>

Awaiting(r, pc) == request[r].pc = pc /\ request[r].answer = "none"
Answered(r, answer) == request' = [request EXCEPT ![r].answer = answer]
Current(r) == LET h == request[r].handle
              IN  request[r].old.token = idp[h].current /\ ~idp[h].revoked

\* The provider redeems the current token of a family, once; the response
\* that carries the new one may be unusable or lost.
Redeem(r) ==
  LET h == request[r].handle IN
  /\ Awaiting(r, "exchange") /\ Current(r)
  /\ idp' = [idp EXCEPT ![h].current = @ + 1]
  /\ \/ Answered(r, "rotated") /\ UNCHANGED fault
     \/ \E answer \in {"malformed", "error"} :
          Answered(r, answer) /\ fault' = fault \cup {h}
  /\ UNCHANGED <<clock, row, seals, proofs>>

\* A replayed token revokes its family.
RefuseReplay(r) ==
  /\ Awaiting(r, "exchange") /\ ~Current(r)
  /\ idp' = [idp EXCEPT ![request[r].handle].revoked = TRUE]
  /\ \E answer \in {"denied", "error"} : Answered(r, answer)
  /\ UNCHANGED <<clock, row, seals, proofs, fault>>

\* The provider was not reached, or refused for a reason of its own: the
\* family does not change.
Unreached(r) ==
  /\ Awaiting(r, "exchange") \/ Awaiting(r, "revoke")
  /\ \E answer \in {"error", "denied"} : Answered(r, answer)
  /\ UNCHANGED <<clock, row, seals, proofs, idp, fault>>

\* The revocation endpoint revokes the whole family.
Revoke(r) ==
  LET h == request[r].handle IN
  /\ Awaiting(r, "revoke")
  /\ idp' = [idp EXCEPT ![h].revoked = TRUE]
  /\ \/ Answered(r, "revoked") /\ UNCHANGED fault
     \/ Answered(r, "error") /\ fault' = fault \cup {h}
  /\ UNCHANGED <<clock, row, seals, proofs>>

-----------------------------------------------------------------------------
(* resolve.                                                                 *)

\* _resolution, for the record resolve holds and has stored as row h, when
\* sealed records exist: the operator proof of this process or, when it is
\* gone, a new enrolment.  The write-back of the new proof has no
\* compare-and-swap.  A request for a path with no capability is unavailable
\* when the proof is there, and deletes the session when it is not; a record
\* without a subject is left, and so is one whose new proof failed otherwise.
\* An enrolment that fails half way leaves a proof that no record names.
Resolution(r, h, record, sealed) ==
  \/ /\ HasProof(record.proof)
     /\ row' = [row EXCEPT ![h] = record] /\ seals' = sealed
     /\ \E reply \in {"authenticated", "unavailable"} : Respond(r, h, reply)
     /\ UNCHANGED proofs
  \/ /\ ~HasProof(record.proof) /\ sealed < MaxSeals
     /\ proofs' = Enrolled(sealed + 1)
     /\ row' = [row EXCEPT ![h] = [record EXCEPT !.seal = sealed + 1,
                                                 !.proof = sealed + 1]]
     /\ seals' = sealed + 1
     /\ Respond(r, h, "authenticated")
  \/ /\ ~HasProof(record.proof)
     /\ proofs' \in {proofs, Enrolled(Unowned)}
     /\ Delete(h) /\ seals' = sealed
     /\ Respond(r, h, "reauth_required")
  \/ /\ ~HasProof(record.proof)
     /\ row' = [row EXCEPT ![h] = record] /\ seals' = sealed
     /\ \/ UNCHANGED proofs /\ Respond(r, h, "reauth_required")
        \/ proofs' \in {proofs, Enrolled(Unowned)} /\ Respond(r, h, "unavailable")

\* The access token outlives the margin: no exchange.
ResolveFresh(r, h) ==
  /\ Idle(r) /\ Loaded(h) /\ row[h].accessUntil > clock + MARGIN
  /\ Resolution(r, h, row[h], seals)
  /\ UNCHANGED <<clock, idp, fault>>

ResolveAbsent(r, h) ==
  /\ Idle(r) /\ ~Loaded(h)
  /\ Respond(r, h, "expired")
  /\ UNCHANGED <<clock, row, seals, proofs, idp, fault>>

Stale(h) == Loaded(h) /\ row[h].accessUntil <= clock + MARGIN

Reserved(h) ==
  row[h].refreshing /\ clock - row[h].refreshingAt < REFRESH_RESERVATION_TTL

ResolveReserved(r, h) ==
  /\ Idle(r) /\ Stale(h) /\ Reserved(h)
  /\ Respond(r, h, "unavailable")
  /\ UNCHANGED <<clock, row, seals, proofs, idp, fault>>

\* The reservation is written and the exchange starts.
Reserve(r, h) ==
  /\ Idle(r) /\ Stale(h) /\ ~Reserved(h) /\ seals < MaxSeals
  /\ seals' = seals + 1
  /\ row' = [row EXCEPT ![h] = [@ EXCEPT !.seal = seals + 1, !.refreshing = TRUE,
                                         !.refreshingAt = clock]]
  /\ request' = [request EXCEPT ![r] =
                   [NoRequest EXCEPT !.pc = "exchange", !.handle = h, !.now = clock,
                                     !.old = row[h], !.mine = seals + 1]]
  /\ fault' = IF Serving(h, {"exchange"}) = {} THEN fault ELSE fault \cup {h}
  /\ UNCHANGED <<clock, proofs, idp>>

\* What resolve stores after the exchange: the record it loaded, updated.
\* Mutant: the rotated token is not stored.
RenewedWithoutToken(r) ==
  [request[r].old EXCEPT !.accessUntil = request[r].now + ACCESS_TTL, !.seal = seals + 1]
Renewed(r) ==
  [request[r].old EXCEPT !.token = @ + 1, !.seal = seals + 1,
                         !.accessUntil = request[r].now + ACCESS_TTL]

\* Mutant: a lost reservation is answered like a kept one.
RotatedUnchecked(r) ==
  LET h == request[r].handle IN
  /\ request[r].pc = "exchange" /\ request[r].answer = "rotated"
  /\ IF Holds(h, request[r].mine)
     THEN seals < MaxSeals /\ Resolution(r, h, Renewed(r), seals + 1)
     ELSE Respond(r, h, "authenticated") /\ UNCHANGED <<row, seals, proofs>>
  /\ UNCHANGED <<clock, idp, fault>>
Rotated(r) ==
  LET h == request[r].handle IN
  /\ request[r].pc = "exchange" /\ request[r].answer = "rotated"
  /\ IF Holds(h, request[r].mine)
     THEN seals < MaxSeals /\ Resolution(r, h, Renewed(r), seals + 1)
     ELSE Respond(r, h, "unavailable") /\ UNCHANGED <<row, seals, proofs>>
  /\ UNCHANGED <<clock, idp, fault>>

\* A 4xx answer or an unusable token: the row is deleted, whoever wrote it.
Denied(r) ==
  LET h == request[r].handle IN
  /\ request[r].pc = "exchange" /\ request[r].answer \in {"denied", "malformed"}
  /\ Delete(h)
  /\ Respond(r, h, "reauth_required")
  /\ UNCHANGED <<clock, seals, proofs, idp, fault>>

\* Any other failure: the old record comes back, if the reservation stands.
\* Mutant: the old record comes back without compare-and-swap.
RestoredBlindly(r, h) == [row EXCEPT ![h] = request[r].old]
Restored(r, h) ==
  IF Holds(h, request[r].mine) THEN [row EXCEPT ![h] = request[r].old] ELSE row

Failed(r) ==
  LET h == request[r].handle IN
  /\ request[r].pc = "exchange" /\ request[r].answer = "error"
  /\ row' = Restored(r, h)
  /\ Respond(r, h, "unavailable")
  /\ UNCHANGED <<clock, seals, proofs, idp, fault>>

-----------------------------------------------------------------------------
(* logout, and the environment.                                             *)

\* An exact origin and the session's CSRF token, or 403.
Logout(r, h) ==
  /\ Idle(r)
  /\ \/ /\ Loaded(h)
        /\ request' = [request EXCEPT ![r] =
                         [NoRequest EXCEPT !.pc = "revoke", !.handle = h,
                                           !.now = clock, !.old = row[h]]]
     \/ Respond(r, h, "forbidden")
  /\ UNCHANGED <<clock, row, seals, proofs, idp, fault>>

\* Mutant: the session ends whether or not the provider revoked.
LogoutAnyway(r) ==
  LET h == request[r].handle IN
  /\ request[r].pc = "revoke" /\ request[r].answer # "none"
  /\ Delete(h)
  /\ proofs' = Discarded(request[r].old.proof)
  /\ Respond(r, h, "logged_out")
  /\ UNCHANGED <<clock, seals, idp, fault>>
LogoutAnswered(r) ==
  LET h == request[r].handle IN
  /\ request[r].pc = "revoke" /\ request[r].answer # "none"
  /\ IF request[r].answer = "revoked"
     THEN /\ Delete(h)
          /\ proofs' = Discarded(request[r].old.proof)
          /\ Respond(r, h, "logged_out")
     ELSE Respond(r, h, "session_unavailable") /\ UNCHANGED <<row, proofs>>
  /\ UNCHANGED <<clock, seals, idp, fault>>

\* A request is cancelled at its await: nothing is caught, the reservation
\* stays until its age frees it.
Cancel(r) ==
  /\ ~Idle(r)
  /\ request' = [request EXCEPT ![r] = NoRequest]
  /\ fault' = fault \cup {request[r].handle}
  /\ UNCHANGED <<clock, row, seals, proofs, idp>>

\* The process dies: requests and proofs are gone, the database stays.
Restart ==
  /\ request' = [r \in Requests |-> NoRequest]
  /\ proofs' = <<>>
  /\ fault' = fault \cup {request[r].handle : r \in {q \in Requests : ~Idle(q)}}
  /\ UNCHANGED <<clock, row, seals, idp>>

Tick == clock < MaxTime /\ clock' = clock + 1
        /\ UNCHANGED <<row, seals, request, proofs, idp, fault>>

Handle(r, h) ==
  \/ ResolveFresh(r, h) \/ ResolveAbsent(r, h) \/ ResolveReserved(r, h)
  \/ Reserve(r, h) \/ Logout(r, h)
Provider(r) == Redeem(r) \/ RefuseReplay(r) \/ Unreached(r) \/ Revoke(r)
Finish(r) == Rotated(r) \/ Denied(r) \/ Failed(r) \/ LogoutAnswered(r)

Next ==
  \/ \E h \in Handles : SignIn(h) \/ \E r \in Requests : Handle(r, h)
  \/ \E r \in Requests : Provider(r) \/ Finish(r) \/ Cancel(r)
  \/ Restart \/ Tick

Spec == Init /\ [][Next]_vars

-----------------------------------------------------------------------------
(* Properties.                                                              *)

\* Types; the table of operator proofs keeps to its limit, and no session or
\* access token is kept beyond its lifetime from now.
TypeOK ==
  /\ clock \in 0..MaxTime /\ seals \in 0..MaxSeals
  /\ \A h \in Handles :
       /\ row[h].state \in {"none", "live", "gone"} /\ row[h].refreshing \in BOOLEAN
       /\ row[h].seal <= seals /\ row[h].proof <= seals
       /\ row[h].accessUntil <= clock + ACCESS_TTL
       /\ row[h].expires <= clock + SESSION_TTL
       /\ row[h].refreshingAt <= clock /\ row[h].token \in 0..(seals + 1)
       /\ idp[h].current \in 0..(seals + 1) /\ idp[h].revoked \in BOOLEAN
  /\ \A r \in Requests :
       /\ request[r].pc \in {"idle", "exchange", "revoke"}
       /\ request[r].handle \in Handles \cup {NoHandle}
       /\ request[r].answer \in Answer /\ request[r].reply \in Reply
       /\ request[r].mine <= seals
  /\ Len(proofs) <= MAX_OPERATOR_PROOFS
  /\ fault \subseteq Handles

\* What the evidence note promises: two requests never use the same refresh
\* token.
RefreshTokenUsedOnce ==
  \A h \in Handles : \A r, q \in Serving(h, {"exchange"}) :
     r # q => request[r].old.token # request[q].old.token

\* A session whose requests are all answered holds the current token of an
\* unrevoked family, unless an answer or a process was lost or a reservation
\* taken over.
OnlyFaultsDesynchronise ==
  \A h \in Handles :
     row[h].state = "live" /\ h \notin fault /\ Serving(h, {"exchange", "revoke"}) = {} =>
       row[h].token = idp[h].current /\ ~idp[h].revoked

\* No late failure, retry or write-back puts an older refresh token back.
TokenNeverRegresses ==
  [][\A h \in Handles :
       row'[h].state = "live" => row'[h].token >= row[h].token]_vars

\* A request is answered as authenticated only for a session that is still
\* there: not one that another request logged out while this one waited.
AuthenticatedMeansPresent ==
  [][\A r \in Requests :
       request'[r].reply = "authenticated" /\ request'[r] # request[r] =>
         row'[request'[r].handle].state = "live"]_vars

\* A browser is told it is logged out only once the provider has revoked the
\* family, and then the session answers nobody.
LogoutRevokes ==
  \A r \in Requests :
     request[r].reply = "logged_out" =>
       LET h == request[r].handle IN idp[h].revoked /\ row[h].state = "gone"
=============================================================================
