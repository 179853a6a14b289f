--------------------------- MODULE BrowserProofs ---------------------------
(***************************************************************************)
(* Proofs about SessionAdapter, for every set of sessions and of requests   *)
(* being served, and every value of the lifetimes; and about the streams of *)
(* EventBus, with what EventBusProofs shows of every bus.                    *)
(***************************************************************************)
EXTENDS MCBrowser, FiniteSetTheorems, SequenceTheorems, TLAPS

-----------------------------------------------------------------------------
(* The inductive invariant.                                                 *)

SessionRow ==
  [state : {"none", "live", "gone"}, seal : Nat, token : Nat, accessUntil : Nat,
   expires : Nat, refreshing : BOOLEAN, refreshingAt : Nat, proof : Nat]

\* A record, stored or held by a request, is not from the future.
RowOK(x, sealed, now) ==
  /\ x \in SessionRow
  /\ x.token <= x.seal /\ x.seal <= sealed /\ x.proof <= sealed
  /\ x.accessUntil <= now + ACCESS_TTL /\ x.expires <= now + SESSION_TTL
  /\ x.refreshingAt <= now
  /\ x.state # "live" => x.token = 0

Locals ==
  [pc : {"idle", "exchange", "revoke"}, handle : Handles \cup {NoHandle},
   now : Nat, old : SessionRow, mine : Nat, answer : Answer, reply : Reply]
LocalsOK(q, sealed, now) ==
  /\ q \in Locals /\ RowOK(q.old, sealed, now) /\ q.now <= now /\ q.mine <= sealed
  /\ q.pc # "idle" => /\ q.handle \in Handles
                      /\ q.reply = "none" /\ q.old.state = "live"
  /\ q.pc = "exchange" => q.old.seal < q.mine

Family == [current : Nat, revoked : BOOLEAN]
ProofTable(p) == p \in Seq(Nat) /\ Len(p) <= MAX_OPERATOR_PROOFS

Typed ==
  /\ clock \in 0..MaxTime /\ seals \in 0..MaxSeals
  /\ row \in [Handles -> SessionRow]
  /\ \A h \in Handles : RowOK(row[h], seals, clock)
  /\ idp \in [Handles -> Family]
  /\ \A h \in Handles : idp[h].current <= seals
  /\ request \in [Requests -> Locals]
  /\ \A r \in Requests : LocalsOK(request[r], seals, clock)
  /\ ProofTable(proofs)
  /\ fault \subseteq Handles

\* A request between the start of its exchange and its end, and one whose
\* revocation the provider confirmed.
Exchanging(r, h) == request[r].pc = "exchange" /\ request[r].handle = h
Revoked(r, h) == /\ request[r].pc = "revoke" /\ request[r].handle = h
                 /\ request[r].answer = "revoked"

\* Before the sign-in there is nothing to serve.
Untouched(h) ==
  row[h].state = "none" =>
    /\ ~idp[h].revoked
    /\ \A r \in Requests : request[r].pc # "idle" => request[r].handle # h

\* A reservation and the record it was written over carry one refresh token,
\* also when reservations were taken over and restored out of order.
Chained(h) ==
  /\ \A r \in Requests :
       Exchanging(r, h) /\ Holds(h, request[r].mine)
         => row[h].token = request[r].old.token
  /\ \A r, q \in Requests :
       Exchanging(r, h) /\ Exchanging(q, h) /\ request[q].old.seal = request[r].mine
         => request[q].old.token = request[r].old.token

RevocationSeen(h) == \A r \in Requests : Revoked(r, h) => idp[h].revoked

\* One exchange at a time, whose request owns the reservation, knows where the
\* provider's family is, and finds no fresh access token beside it.
InStep(h) ==
  h \notin fault /\ row[h].state = "live" =>
    /\ idp[h].revoked => \E r \in Requests : Revoked(r, h)
    /\ \A r \in Requests : Exchanging(r, h) =>
         /\ \A q \in Requests : Exchanging(q, h) => q = r
         /\ row[h].seal = request[r].mine
         /\ row[h].accessUntil <= clock + MARGIN
         /\ idp[h].current = IF request[r].answer = "rotated"
                             THEN request[r].old.token + 1
                             ELSE request[r].old.token
    /\ (\A r \in Requests : ~Exchanging(r, h)) => row[h].token = idp[h].current

SessionInv(h) == Untouched(h) /\ Chained(h) /\ RevocationSeen(h) /\ InStep(h)

LoggedOut(r) ==
  request[r].reply = "logged_out" =>
    LET h == request[r].handle
    IN  h \in Handles /\ idp[h].revoked /\ row[h].state = "gone"

SInv == /\ Typed
        /\ \A h \in Handles : SessionInv(h)
        /\ \A r \in Requests : LoggedOut(r)

-----------------------------------------------------------------------------
(* The table of operator proofs.                                            *)

\* Removing one element of a sequence leaves a shorter one.
LEMMA RemoveAtType ==
  ASSUME NEW S, NEW s \in Seq(S), NEW i \in 1 .. Len(s)
  PROVE  RemoveAt(s, i) \in Seq(S) /\ Len(RemoveAt(s, i)) = Len(s) - 1
<1>. DEFINE a == SubSeq(s, 1, i - 1)
            b == SubSeq(s, i + 1, Len(s))
<1>0. Len(s) \in Nat
  OBVIOUS
<1>1. a \in Seq(S) /\ Len(a) = i - 1
  <2>. i - 1 \in 1 .. Len(s) \/ i - 1 = 0
    BY <1>0
  <2>. QED BY <1>0, SubSeqProperties
<1>2. b \in Seq(S) /\ Len(b) = Len(s) - i
  BY <1>0, SubSeqProperties
<1>3. RemoveAt(s, i) = a \o b
  BY DEF RemoveAt
<1>. HIDE DEF a, b
<1>4. a \o b \in Seq(S) /\ Len(a \o b) = Len(a) + Len(b)
  BY <1>1, <1>2, ConcatProperties
<1>. QED BY <1>0, <1>1, <1>2, <1>3, <1>4

\* enroll keeps the table at its limit, whoever owned the oldest proof.
LEMMA EnrolledType ==
  ASSUME ProofTable(proofs), NEW n \in Nat
  PROVE  ProofTable(Enrolled(n))
<1>. MAX_OPERATOR_PROOFS \in Nat \ {0} /\ proofs \in Seq(Nat)
     /\ Len(proofs) <= MAX_OPERATOR_PROOFS
  BY SessionTimesAssumption DEF ProofTable
<1>0. Len(proofs) \in Nat
  OBVIOUS
<1>1. CASE Len(proofs) >= MAX_OPERATOR_PROOFS
  <2>. DEFINE t == Tail(proofs)
  <2>1. t \in Seq(Nat) /\ Len(t) = Len(proofs) - 1
    BY <1>0, <1>1, HeadTailProperties
  <2>2. Enrolled(n) = Append(t, n)
    BY <1>1 DEF Enrolled
  <2>. HIDE DEF t
  <2>3. Append(t, n) \in Seq(Nat) /\ Len(Append(t, n)) = Len(t) + 1
    BY <2>1, AppendProperties
  <2>. QED BY <1>0, <1>1, <2>1, <2>2, <2>3 DEF ProofTable
<1>2. CASE Len(proofs) < MAX_OPERATOR_PROOFS
  <2>1. Enrolled(n) = Append(proofs, n)
    BY <1>0, <1>2 DEF Enrolled
  <2>2. Append(proofs, n) \in Seq(Nat) /\ Len(Append(proofs, n)) = Len(proofs) + 1
    BY AppendProperties
  <2>. QED BY <1>0, <1>2, <2>1, <2>2 DEF ProofTable
<1>. QED BY <1>0, <1>1, <1>2

\* discard keeps the table at its limit.
LEMMA DiscardedType ==
  ASSUME ProofTable(proofs), NEW n PROVE ProofTable(Discarded(n))
<1>1. CASE HasProof(n)
  <2>. DEFINE i == CHOOSE j \in 1..Len(proofs) : proofs[j] = n
  <2>1. i \in 1..Len(proofs)
    BY <1>1 DEF HasProof
  <2>2. Discarded(n) = RemoveAt(proofs, i)
    BY <1>1 DEF Discarded
  <2>. HIDE DEF i
  <2>3. /\ RemoveAt(proofs, i) \in Seq(Nat)
        /\ Len(RemoveAt(proofs, i)) = Len(proofs) - 1
    BY <2>1, RemoveAtType DEF ProofTable
  <2>4. Len(proofs) \in Nat
    BY DEF ProofTable
  <2>. QED BY <2>2, <2>3, <2>4, SessionTimesAssumption DEF ProofTable
<1>2. CASE ~HasProof(n)
  BY <1>2 DEF Discarded
<1>. QED BY <1>1, <1>2

-----------------------------------------------------------------------------
(* Steps in general.                                                        *)

\* A record stays good as time passes and seals are spent.
LEMMA RowLater ==
  ASSUME NEW x, NEW s \in Nat, NEW t \in Nat, NEW c \in Nat, NEW d \in Nat,
         RowOK(x, s, c), s <= t, c <= d
  PROVE  RowOK(x, t, d)
<1>1. /\ x \in SessionRow /\ x.token <= x.seal /\ x.seal <= s /\ x.proof <= s
      /\ x.accessUntil <= c + ACCESS_TTL /\ x.expires <= c + SESSION_TTL
      /\ x.refreshingAt <= c
  BY DEF RowOK
<1>2. /\ x.seal \in Nat /\ x.proof \in Nat /\ x.accessUntil \in Nat
      /\ x.expires \in Nat /\ x.refreshingAt \in Nat
  BY <1>1 DEF SessionRow
<1>3. ACCESS_TTL \in Nat /\ SESSION_TTL \in Nat
  BY SessionTimesAssumption
<1>4. /\ x.seal <= t /\ x.proof <= t /\ x.refreshingAt <= d
      /\ x.accessUntil <= d + ACCESS_TTL /\ x.expires <= d + SESSION_TTL
  BY <1>1, <1>2, <1>3
<1>. QED BY <1>1, <1>4 DEF RowOK

\* So do the locals of a request.
LEMMA LocalsLater ==
  ASSUME NEW q, NEW s \in Nat, NEW t \in Nat, NEW c \in Nat, NEW d \in Nat,
         LocalsOK(q, s, c), s <= t, c <= d
  PROVE  LocalsOK(q, t, d)
<1>1. RowOK(q.old, t, d)
  BY RowLater DEF LocalsOK
<1>2. q.now <= d /\ q.mine <= t
  <2>1. q.now \in Nat /\ q.mine \in Nat /\ q.now <= c /\ q.mine <= s
    BY DEF LocalsOK, Locals
  <2>. QED BY <2>1
<1>. QED BY <1>1, <1>2 DEF LocalsOK

\* The records before a sign-in and after the end of a session.
LEMMA BlankRows ==
  ASSUME NEW s \in Nat, NEW c \in Nat
  PROVE  RowOK(EmptyRow, s, c) /\ RowOK(GoneRow, s, c) /\ GoneRow.state = "gone"
<1>1. 0 <= s /\ 0 <= c /\ 0 <= c + ACCESS_TTL /\ 0 <= c + SESSION_TTL
  BY SessionTimesAssumption
<1>2. /\ EmptyRow \in SessionRow
      /\ EmptyRow.token = 0 /\ EmptyRow.seal = 0 /\ EmptyRow.proof = 0
      /\ EmptyRow.accessUntil = 0 /\ EmptyRow.expires = 0
      /\ EmptyRow.refreshingAt = 0
  BY DEF EmptyRow, SessionRow
<1>3. /\ GoneRow \in SessionRow /\ GoneRow.state = "gone"
      /\ GoneRow.token = 0 /\ GoneRow.seal = 0 /\ GoneRow.proof = 0
      /\ GoneRow.accessUntil = 0 /\ GoneRow.expires = 0
      /\ GoneRow.refreshingAt = 0
  BY <1>2 DEF GoneRow, SessionRow
<1>. QED BY <1>1, <1>2, <1>3 DEF RowOK

\* What a request is after its answer.
AnsweredLocals(h, reply) == [NoRequest EXCEPT !.handle = h, !.reply = reply]

\* An answered request holds nothing.
LEMMA AnsweredType ==
  ASSUME NEW h \in Handles \cup {NoHandle}, NEW reply \in Reply,
         NEW s \in Nat, NEW c \in Nat
  PROVE  LET q == AnsweredLocals(h, reply)
         IN  /\ LocalsOK(q, s, c) /\ q.pc = "idle" /\ q.handle = h
             /\ q.reply = reply
<1>. DEFINE q == AnsweredLocals(h, reply)
<1>1. /\ q.pc = "idle" /\ q.handle = h /\ q.now = 0 /\ q.old = EmptyRow
      /\ q.mine = 0 /\ q.reply = reply
  BY DEF AnsweredLocals, NoRequest
<1>2. RowOK(EmptyRow, s, c) /\ EmptyRow \in SessionRow
  BY BlankRows DEF RowOK
<1>3. NoRequest \in Locals
  BY <1>2 DEF NoRequest, Locals, Answer, Reply
<1>4. q \in Locals
  BY <1>3 DEF AnsweredLocals, Locals
<1>5. LocalsOK(q, s, c)
  <2>. HIDE DEF q
  <2>. QED BY <1>1, <1>2, <1>4 DEF LocalsOK
<1>. QED BY <1>1, <1>5

\* A step that does not touch the session g, its family or its requests.
LEMMA OtherSession ==
  ASSUME NEW g \in Handles, Typed, SessionInv(g),
         row'[g] = row[g], idp'[g] = idp[g], fault \subseteq fault',
         clock' \in Nat, clock <= clock',
         \A r \in Requests :
           \/ request'[r] = request[r]
           \/ /\ request[r].pc = "idle" \/ request[r].handle # g
              /\ request'[r].pc = "idle" \/ request'[r].handle # g
  PROVE  SessionInv(g)'
<1>1. \A r \in Requests : /\ Exchanging(r, g)' <=> Exchanging(r, g)
                          /\ Revoked(r, g)' <=> Revoked(r, g)
                          /\ Exchanging(r, g) => request'[r] = request[r]
  BY DEF Exchanging, Revoked
<1>2. Untouched(g)'
  BY DEF SessionInv, Untouched
<1>3. Chained(g)'
  BY <1>1 DEF SessionInv, Chained, Holds
<1>4. RevocationSeen(g)'
  BY <1>1 DEF SessionInv, RevocationSeen
<1>5. InStep(g)'
  <2>1. row[g].accessUntil <= clock + MARGIN
          => row'[g].accessUntil <= clock' + MARGIN
    BY SessionTimesAssumption DEF Typed, SessionRow
  <2>. QED BY <1>1, <2>1 DEF SessionInv, InStep
<1>. QED BY <1>2, <1>3, <1>4, <1>5 DEF SessionInv

\* A step of the request r, about the session h: what is left to show is h.
LEMMA RequestStep ==
  ASSUME SInv, NEW r \in Requests, NEW h \in Handles,
         request[r].pc # "idle" => request[r].handle = h,
         clock' = clock, seals' \in seals..MaxSeals,
         NEW x, RowOK(x, seals', clock), row' = [row EXCEPT ![h] = x],
         NEW q, LocalsOK(q, seals', clock), request' = [request EXCEPT ![r] = q],
         q.pc # "idle" => q.handle = h,
         NEW i \in Family, idp' = [idp EXCEPT ![h] = i], i.current <= seals',
         ProofTable(proofs'), fault' \in {fault, fault \cup {h}},
         idp[h].revoked => i.revoked, row[h].state = "gone" => x.state = "gone",
         SessionInv(h)', LoggedOut(r)'
  PROVE  SInv'
<1>0. seals \in Nat /\ clock \in Nat /\ seals' \in Nat /\ seals <= seals'
      /\ seals' \in 0..MaxSeals
  BY SessionTimesAssumption DEF SInv, Typed
<1>1. /\ \A g \in Handles : row'[g] = IF g = h THEN x ELSE row[g]
      /\ \A g \in Handles : idp'[g] = IF g = h THEN i ELSE idp[g]
      /\ \A p \in Requests : request'[p] = IF p = r THEN q ELSE request[p]
  BY DEF SInv, Typed
<1>2. Typed'
  <2>1. \A g \in Handles : RowOK(row'[g], seals', clock')
    BY <1>0, <1>1, RowLater DEF SInv, Typed
  <2>2. \A p \in Requests : LocalsOK(request'[p], seals', clock')
    BY <1>0, <1>1, LocalsLater DEF SInv, Typed
  <2>3. \A g \in Handles : idp'[g].current <= seals'
    BY <1>0, <1>1 DEF SInv, Typed, Family
  <2>4. x \in SessionRow /\ q \in Locals
    BY DEF RowOK, LocalsOK
  <2>5. row' \in [Handles -> SessionRow] /\ request' \in [Requests -> Locals]
        /\ idp' \in [Handles -> Family] /\ fault' \subseteq Handles
    BY <2>4 DEF SInv, Typed
  <2>. QED BY <1>0, <2>1, <2>2, <2>3, <2>5 DEF SInv, Typed
<1>3. ASSUME NEW g \in Handles PROVE SessionInv(g)'
  <2>1. CASE g # h
    <3>1. \A p \in Requests :
            \/ request'[p] = request[p]
            \/ /\ request[p].pc = "idle" \/ request[p].handle # g
               /\ request'[p].pc = "idle" \/ request'[p].handle # g
      BY <1>1, <2>1
    <3>. QED BY <1>0, <1>1, <2>1, <3>1, OtherSession DEF SInv
  <2>. QED BY <2>1
<1>4. ASSUME NEW p \in Requests PROVE LoggedOut(p)'
  <2>1. CASE p # r
    BY <1>1, <2>1 DEF SInv, LoggedOut
  <2>. QED BY <2>1
<1>. QED BY <1>2, <1>3, <1>4 DEF SInv

\* What the end of r may make of the record of h: no other reservation finds a
\* refresh token that is not its own, and a session in step stays in step.
TokensMatch(r, h, x) ==
  \A p \in Requests \ {r} :
    Exchanging(p, h) /\ x.state = "live" /\ x.seal = request[p].mine
      => x.token = request[p].old.token
StaysInStep(r, h, x) ==
  h \notin fault /\ x.state = "live" =>
    /\ idp[h].revoked => \E p \in Requests \ {r} : Revoked(p, h)
    /\ \/ /\ \A p \in Requests \ {r} : ~Exchanging(p, h)
          /\ x.token = idp[h].current
       \/ x = row[h] /\ ~Exchanging(r, h)

\* The answer of a request, whatever becomes of its session: no reservation
\* may outlive its refresh token, and a session in step must stay in step.
LEMMA EndStep ==
  ASSUME SInv, NEW r \in Requests, NEW h \in Handles,
         request[r].pc # "idle" => request[r].handle = h,
         clock' = clock, seals' \in seals..MaxSeals,
         NEW x, RowOK(x, seals', clock), row' = [row EXCEPT ![h] = x],
         NEW reply \in Reply, Respond(r, h, reply),
         idp' = idp, fault' = fault, ProofTable(proofs'),
         row[h].state = "gone" => x.state = "gone",
         x.state # "none" \/ x = row[h],
         reply = "logged_out" => x.state = "gone" /\ idp[h].revoked,
         TokensMatch(r, h, x), StaysInStep(r, h, x)
  PROVE  SInv'
<1>. USE DEF TokensMatch, StaysInStep
<1>. DEFINE q == AnsweredLocals(h, reply)
<1>0. seals \in Nat /\ clock \in Nat /\ seals' \in Nat
  BY SessionTimesAssumption DEF SInv, Typed
<1>1. /\ LocalsOK(q, seals', clock) /\ q.pc = "idle" /\ q.handle = h
      /\ q.reply = reply
  BY <1>0, AnsweredType
<1>2. request' = [request EXCEPT ![r] = q]
  BY DEF Respond, AnsweredLocals
<1>. HIDE DEF q
<1>3. /\ row'[h] = x
      /\ request'[r] = q
      /\ \A p \in Requests \ {r} : request'[p] = request[p]
  BY <1>2 DEF SInv, Typed
<1>4. /\ \A p \in Requests : /\ Exchanging(p, h)' <=> p # r /\ Exchanging(p, h)
                             /\ Revoked(p, h)' <=> p # r /\ Revoked(p, h)
      /\ \A p \in Requests : request'[p].pc # "idle" => request'[p] = request[p]
      /\ \A p \in Requests : Exchanging(p, h)' => request'[p] = request[p]
  BY <1>1, <1>3 DEF Exchanging, Revoked
<1>5. Untouched(h)'
  <2>1. Untouched(h)
    BY DEF SInv, SessionInv
  <2>2. CASE x.state # "none"
    BY <1>3, <2>2 DEF Untouched
  <2>3. CASE x = row[h]
    BY <1>3, <1>4, <2>1, <2>3 DEF Untouched
  <2>. QED BY <2>2, <2>3
<1>6. Chained(h)'
  <2>1. Chained(h)
    BY DEF SInv, SessionInv
  <2>. QED BY <1>3, <1>4, <2>1 DEF Chained, Holds
<1>7. RevocationSeen(h)'
  <2>1. RevocationSeen(h)
    BY DEF SInv, SessionInv
  <2>. QED BY <1>4, <2>1 DEF RevocationSeen
<1>8. InStep(h)'
  <2>1. InStep(h)
    BY DEF SInv, SessionInv
  <2>2. CASE h \notin fault /\ x.state = "live"
    <3>1. idp'[h].revoked => \E p \in Requests : Revoked(p, h)'
      BY <1>4, <2>2
    <3>2. CASE /\ \A p \in Requests \ {r} : ~Exchanging(p, h)
               /\ x.token = idp[h].current
      BY <1>3, <1>4, <2>2, <3>1, <3>2 DEF InStep
    <3>3. CASE x = row[h] /\ ~Exchanging(r, h)
      BY <1>3, <1>4, <2>1, <2>2, <3>1, <3>3 DEF InStep
    <3>. QED BY <2>2, <3>2, <3>3
  <2>. QED BY <1>3, <2>2 DEF InStep
<1>9. LoggedOut(r)'
  BY <1>1, <1>3 DEF LoggedOut
<1>10. /\ idp[h] \in Family /\ idp' = [idp EXCEPT ![h] = idp[h]]
       /\ idp[h].current <= seals'
  BY <1>0 DEF SInv, Typed, Family
<1>11. SessionInv(h)'
  BY <1>5, <1>6, <1>7, <1>8 DEF SessionInv
<1>. QED BY <1>1, <1>2, <1>9, <1>10, <1>11, RequestStep

\* The row of a session the request was let into.
LEMMA RowType ==
  ASSUME SInv, NEW h \in Handles
  PROVE  /\ RowOK(row[h], seals, clock) /\ row[h] \in SessionRow
         /\ idp[h] \in Family /\ idp[h].current <= seals
         /\ seals \in Nat /\ clock \in Nat /\ MaxSeals \in Nat
         /\ SessionInv(h)
BY SessionTimesAssumption DEF SInv, Typed

\* The locals of a request.
LEMMA LocalsType ==
  ASSUME SInv, NEW r \in Requests
  PROVE  LocalsOK(request[r], seals, clock) /\ request[r] \in Locals
BY DEF SInv, Typed

\* What a resolution does with the record it holds: it stores it, perhaps
\* sealed again with a new proof, or deletes the session.
LEMMA ResolutionShape ==
  ASSUME SInv, NEW r \in Requests, NEW h \in Handles, NEW record,
         NEW sealed \in seals..MaxSeals, RowOK(record, sealed, clock),
         record.state = "live", Resolution(r, h, record, sealed)
  PROVE  /\ seals' \in seals..MaxSeals /\ ProofTable(proofs')
         /\ \E x, reply :
              /\ reply \in Reply
              /\ row' = [row EXCEPT ![h] = x] /\ RowOK(x, seals', clock)
              /\ Respond(r, h, reply) /\ reply # "logged_out"
              /\ reply = "authenticated" => x.state = "live"
              /\ \/ x = record
                 \/ x.state = "gone"
                 \/ /\ x.state = "live" /\ x.token = record.token
                    /\ x.seal = sealed + 1
<1>0. /\ seals \in Nat /\ sealed \in Nat /\ clock \in Nat /\ MaxSeals \in Nat
      /\ record \in SessionRow /\ sealed \in seals..MaxSeals
  BY RowType DEF RowOK
<1>1. CASE /\ row' = [row EXCEPT ![h] = record] /\ seals' = sealed
           /\ \E reply \in {"authenticated", "unavailable"} : Respond(r, h, reply)
           /\ UNCHANGED proofs
  BY <1>0, <1>1 DEF SInv, Typed, Reply
<1>2. CASE /\ sealed < MaxSeals
           /\ proofs' = Enrolled(sealed + 1)
           /\ row' = [row EXCEPT ![h] = [record EXCEPT !.seal = sealed + 1,
                                                       !.proof = sealed + 1]]
           /\ seals' = sealed + 1
           /\ Respond(r, h, "authenticated")
  <2>0. PICK n \in Nat : n = sealed + 1
    BY <1>0
  <2>. DEFINE x == [record EXCEPT !.seal = n, !.proof = n]
  <2>1. x \in SessionRow
    BY <1>0 DEF SessionRow
  <2>2. /\ x.seal = n /\ x.proof = n /\ x.state = record.state
        /\ x.token = record.token /\ x.accessUntil = record.accessUntil
        /\ x.expires = record.expires /\ x.refreshingAt = record.refreshingAt
    BY <1>0 DEF SessionRow
  <2>3. row' = [row EXCEPT ![h] = x]
    BY <1>2, <2>0
  <2>. HIDE DEF x
  <2>4. RowOK(x, n, clock)
    <3>1. record.token <= record.seal /\ record.seal <= sealed
          /\ record.token \in Nat /\ record.seal \in Nat
      BY <1>0 DEF RowOK, SessionRow
    <3>2. x.token <= x.seal /\ x.seal <= n /\ x.proof <= n
      BY <1>0, <2>0, <2>2, <3>1
    <3>. QED BY <2>1, <2>2, <3>2 DEF RowOK
  <2>5. ProofTable(proofs')
    BY <1>0, <1>2, EnrolledType DEF SInv, Typed
  <2>6. seals' = n /\ seals' \in seals..MaxSeals
    BY <1>0, <1>2, <2>0
  <2>. QED BY <1>2, <2>0, <2>2, <2>3, <2>4, <2>5, <2>6 DEF Reply
<1>3. proofs' \in {proofs, Enrolled(Unowned)} => ProofTable(proofs')
  BY EnrolledType DEF Unowned, SInv, Typed
<1>4. CASE /\ proofs' \in {proofs, Enrolled(Unowned)}
           /\ Delete(h) /\ seals' = sealed
           /\ Respond(r, h, "reauth_required")
  BY <1>0, <1>4, <1>3, BlankRows DEF Delete, Reply
<1>5. CASE /\ row' = [row EXCEPT ![h] = record] /\ seals' = sealed
           /\ \/ UNCHANGED proofs /\ Respond(r, h, "reauth_required")
              \/ proofs' \in {proofs, Enrolled(Unowned)} /\ Respond(r, h, "unavailable")
  BY <1>0, <1>5, <1>3 DEF Reply
<1>. QED BY <1>1, <1>2, <1>4, <1>5 DEF Resolution

\* A resolution without an exchange keeps the invariant: no exchange is under
\* way in a session whose access token is fresh and that nothing disturbed.
LEMMA ResolveFreshStep ==
  ASSUME SInv, NEW r \in Requests, NEW h \in Handles, ResolveFresh(r, h)
  PROVE  SInv'
<1>1. /\ request[r].pc = "idle" /\ row[h].state = "live"
      /\ row[h].accessUntil > clock + MARGIN
      /\ Resolution(r, h, row[h], seals)
      /\ UNCHANGED <<clock, idp, fault>>
  BY DEF ResolveFresh, Idle, Loaded
<1>2. /\ RowOK(row[h], seals, clock) /\ row[h] \in SessionRow
      /\ seals \in Nat /\ clock \in Nat /\ seals \in seals..MaxSeals
      /\ Chained(h) /\ InStep(h) /\ MARGIN \in Nat
  BY RowType, SessionTimesAssumption DEF SessionInv, SInv, Typed
<1>3. PICK x, reply :
              /\ reply \in Reply
              /\ row' = [row EXCEPT ![h] = x] /\ RowOK(x, seals', clock)
              /\ Respond(r, h, reply) /\ reply # "logged_out"
              /\ \/ x = row[h]
                 \/ x.state = "gone"
                 \/ /\ x.state = "live" /\ x.token = row[h].token
                    /\ x.seal = seals + 1
  BY <1>1, <1>2, ResolutionShape
<1>4. seals' \in seals..MaxSeals /\ ProofTable(proofs')
  BY <1>1, <1>2, ResolutionShape
<1>5. ASSUME NEW p \in Requests \ {r}, Exchanging(p, h), x.state = "live",
             x.seal = request[p].mine
      PROVE  x.token = request[p].old.token
  <2>1. request[p].mine \in Nat /\ request[p].mine <= seals
    BY LocalsType DEF LocalsOK, Locals
  <2>2. x = row[h]
    BY <1>2, <1>3, <1>5, <2>1
  <2>. QED BY <1>1, <1>2, <1>5, <2>2 DEF Chained, Holds
<1>6. ~Exchanging(r, h) /\ ~Revoked(r, h)
  BY <1>1 DEF Exchanging, Revoked
<1>7. ASSUME h \notin fault, x.state = "live"
      PROVE  /\ idp[h].revoked => \E p \in Requests \ {r} : Revoked(p, h)
             /\ \A p \in Requests \ {r} : ~Exchanging(p, h)
             /\ x.token = idp[h].current
  <2>1. \A p \in Requests : ~Exchanging(p, h)
    BY <1>1, <1>2, <1>7 DEF InStep, SessionRow
  <2>2. x.token = row[h].token
    BY <1>3, <1>7
  <2>. QED BY <1>1, <1>2, <1>6, <1>7, <2>1, <2>2 DEF InStep
<1>8. x.state # "none"
  BY <1>1, <1>3
<1>9. TokensMatch(r, h, x) /\ StaysInStep(r, h, x)
  BY <1>5, <1>7 DEF TokensMatch, StaysInStep
<1>. QED BY <1>1, <1>3, <1>4, <1>8, <1>9, EndStep

\* A request that is answered from what it read.
LEMMA ResolveElseStep ==
  ASSUME SInv, NEW r \in Requests, NEW h \in Handles, NEW reply \in Reply,
         request[r].pc = "idle", Respond(r, h, reply), reply # "logged_out",
         UNCHANGED <<clock, row, seals, proofs, idp, fault>>
  PROVE  SInv'
<1>1. /\ seals' \in seals..MaxSeals /\ RowOK(row[h], seals', clock)
      /\ row' = [row EXCEPT ![h] = row[h]] /\ ProofTable(proofs')
      /\ Chained(h) /\ InStep(h)
  BY RowType DEF SInv, Typed, SessionInv
<1>2. ~Exchanging(r, h) /\ ~Revoked(r, h)
  BY DEF Exchanging, Revoked
<1>3. \A p \in Requests \ {r} :
           Exchanging(p, h) /\ row[h].state = "live" /\ row[h].seal = request[p].mine
             => row[h].token = request[p].old.token
  BY <1>1 DEF Chained, Holds
<1>4. h \notin fault /\ row[h].state = "live" =>
        (idp[h].revoked => \E p \in Requests \ {r} : Revoked(p, h))
  BY <1>1, <1>2 DEF InStep
<1>5. TokensMatch(r, h, row[h]) /\ StaysInStep(r, h, row[h])
  BY <1>2, <1>3, <1>4 DEF TokensMatch, StaysInStep
<1>. QED BY <1>1, <1>5, EndStep

-----------------------------------------------------------------------------
(* The answers of the identity provider.                                    *)

\* Answer a reaches request r of session h, whose family is i from then on.
AnswerComes(r, h, a, i) ==
  /\ h = request[r].handle
  /\ request[r].pc \in {"exchange", "revoke"} /\ request[r].answer = "none"
  /\ Answered(r, a)
  /\ UNCHANGED <<clock, row, seals, proofs>>
  /\ idp' = [idp EXCEPT ![h] = i] /\ i.current <= seals
  /\ idp[h].revoked => i.revoked
  /\ fault' \in {fault, fault \cup {h}}
  /\ a = "revoked" => request[r].pc = "revoke" /\ i.revoked
  /\ h \notin fault' /\ row[h].state = "live" =>
       /\ i.revoked => idp[h].revoked \/ a = "revoked"
       /\ i.current = IF request[r].pc = "exchange"
                      THEN IF a = "rotated" THEN request[r].old.token + 1
                                            ELSE request[r].old.token
                      ELSE idp[h].current

\* Such a step keeps the invariant.
LEMMA ProviderStep ==
  ASSUME SInv, NEW r \in Requests, NEW h \in Handles, NEW a \in Answer, NEW i \in Family,
         AnswerComes(r, h, a, i)
  PROVE  SInv'
<1>. USE DEF AnswerComes
<1>. DEFINE q == [request[r] EXCEPT !.answer = a]
<1>0. /\ LocalsOK(request[r], seals, clock) /\ request[r] \in Locals
      /\ SessionInv(h) /\ RowOK(row[h], seals, clock)
  BY RowType, LocalsType
<1>1. /\ q \in Locals /\ q.pc = request[r].pc /\ q.handle = h
      /\ q.now = request[r].now /\ q.old = request[r].old
      /\ q.mine = request[r].mine /\ q.reply = request[r].reply /\ q.answer = a
  BY <1>0 DEF Locals
<1>2. request' = [request EXCEPT ![r] = q]
  BY DEF Answered
<1>. HIDE DEF q
<1>3. LocalsOK(q, seals, clock)
  BY <1>0, <1>1 DEF LocalsOK
<1>4. /\ row' = [row EXCEPT ![h] = row[h]]
      /\ seals' = seals /\ seals' \in seals..MaxSeals
      /\ ProofTable(proofs')
  BY RowType DEF SInv, Typed
<1>5. /\ request'[r] = q /\ idp'[h] = i
      /\ \A p \in Requests \ {r} : request'[p] = request[p]
  BY <1>2 DEF SInv, Typed
<1>6. \A p \in Requests : /\ Exchanging(p, h)' <=> Exchanging(p, h)
                          /\ request'[p].mine = request[p].mine
                          /\ request'[p].old = request[p].old
                          /\ request'[p].handle = request[p].handle
                          /\ request'[p].pc = request[p].pc
  BY <1>1, <1>5 DEF Exchanging
<1>7. \A p \in Requests : Revoked(p, h)' <=> \/ p # r /\ Revoked(p, h)
                                             \/ p = r /\ a = "revoked"
  BY <1>1, <1>5 DEF Revoked
<1>8. ~Revoked(r, h)
  BY DEF Revoked
<1>9. row[h].state # "none"
  BY <1>0 DEF SessionInv, Untouched
<1>10. SessionInv(h)'
  <2>1. Untouched(h)'
    BY <1>9 DEF Untouched
  <2>2. Chained(h)'
    BY <1>0, <1>6 DEF SessionInv, Chained, Holds
  <2>3. RevocationSeen(h)'
    BY <1>0, <1>5, <1>7 DEF SessionInv, RevocationSeen
  <2>4. InStep(h)'
    <3>1. CASE h \notin fault' /\ row[h].state = "live"
      <4>1. h \notin fault /\ InStep(h)
        BY <1>0, <3>1 DEF SessionInv
      <4>2. i.revoked => \E p \in Requests : Revoked(p, h)'
        BY <1>7, <1>8, <3>1, <4>1 DEF InStep
      <4>3. CASE request[r].pc = "exchange"
        <5>1. Exchanging(r, h) /\ \A p \in Requests : Exchanging(p, h) => p = r
          BY <3>1, <4>1, <4>3 DEF InStep, Exchanging
        <5>2. /\ row[h].seal = request[r].mine
              /\ row[h].accessUntil <= clock + MARGIN
          BY <3>1, <4>1, <5>1 DEF InStep
        <5>3. i.current = IF a = "rotated" THEN request[r].old.token + 1
                                           ELSE request[r].old.token
          BY <3>1, <4>3
        <5>. QED BY <1>1, <1>5, <1>6, <3>1, <4>2, <5>1, <5>2, <5>3 DEF InStep
      <4>4. CASE request[r].pc = "revoke"
        <5>1. i.current = idp[h].current
          BY <3>1, <4>4
        <5>2. ~Exchanging(r, h)
          BY <4>4 DEF Exchanging
        <5>. QED BY <1>5, <1>6, <3>1, <4>1, <4>2, <5>1, <5>2 DEF InStep
      <4>. QED BY <4>3, <4>4
    <3>. QED BY <3>1 DEF InStep
  <2>. QED BY <2>1, <2>2, <2>3, <2>4 DEF SessionInv
<1>11. LoggedOut(r)'
  BY <1>0, <1>1, <1>5 DEF LoggedOut, LocalsOK
<1>12. clock' = clock
  OBVIOUS
<1>13. PICK x, p : x = row[h] /\ p = q
  OBVIOUS
<1>14. /\ RowOK(x, seals', clock) /\ row' = [row EXCEPT ![h] = x]
       /\ row[h].state = "gone" => x.state = "gone"
  BY <1>0, <1>4, <1>13
<1>15. /\ LocalsOK(p, seals', clock) /\ request' = [request EXCEPT ![r] = p]
       /\ p.pc # "idle" => p.handle = h
  BY <1>1, <1>2, <1>3, <1>4, <1>13
<1>16. i.current <= seals' /\ (request[r].pc # "idle" => request[r].handle = h)
  BY <1>4
<1>. QED BY <1>4, <1>10, <1>11, <1>12, <1>14, <1>15, <1>16, RequestStep

\* The session a waiting request is about.
LEMMA WaitingFor ==
  ASSUME SInv, NEW r \in Requests, request[r].pc # "idle"
  PROVE  request[r].handle \in Handles
BY LocalsType DEF LocalsOK

\* Every answer of the provider keeps the invariant: while the session is in
\* step, the token that is redeemed is the current one, so a replay is refused
\* only in a family that a logout has revoked.
LEMMA AnswersStep ==
  ASSUME SInv, NEW r \in Requests, Provider(r) PROVE SInv'
<1>1. PICK h \in Handles : h = request[r].handle
  BY WaitingFor DEF Provider, Redeem, RefuseReplay, Unreached, Revoke, Awaiting
<1>2. /\ LocalsOK(request[r], seals, clock) /\ request[r] \in Locals
      /\ idp[h] \in Family /\ idp[h].current <= seals
      /\ SessionInv(h)
      /\ seals \in Nat
  BY RowType, LocalsType
<1>3. request[r].pc = "exchange" => Exchanging(r, h)
  BY <1>1 DEF Exchanging
<1>4. ASSUME request[r].pc = "exchange", request[r].answer = "none",
             h \notin fault, row[h].state = "live"
      PROVE  idp[h].current = request[r].old.token
  BY <1>2, <1>3, <1>4 DEF SessionInv, InStep
<1>5. CASE Redeem(r)
  <2>. DEFINE i == [current |-> idp[h].current + 1, revoked |-> idp[h].revoked]
  <2>1. /\ request[r].pc = "exchange" /\ request[r].answer = "none"
        /\ request[r].old.token = idp[h].current
        /\ UNCHANGED <<clock, row, seals, proofs>>
    BY <1>1, <1>5 DEF Redeem, Awaiting, Current
  <2>2. PICK a \in {"rotated", "malformed", "error"} :
          /\ Answered(r, a)
          /\ fault' = IF a = "rotated" THEN fault ELSE fault \cup {h}
    BY <1>1, <1>5 DEF Redeem
  <2>3. i \in Family /\ i.current <= seals
    <3>1. /\ request[r].old.token <= request[r].old.seal
          /\ request[r].old.seal < request[r].mine /\ request[r].mine <= seals
          /\ request[r].old.token \in Nat /\ request[r].old.seal \in Nat
          /\ request[r].mine \in Nat
      BY <1>2, <2>1 DEF LocalsOK, RowOK, Locals, SessionRow
    <3>. QED BY <1>2, <2>1, <3>1 DEF Family
  <2>4. idp' = [idp EXCEPT ![h] = i]
    <3>1. idp' = [idp EXCEPT ![h].current = @ + 1]
      BY <1>1, <1>5 DEF Redeem
    <3>2. [idp[h] EXCEPT !.current = @ + 1] = i
      BY <1>2 DEF Family
    <3>. QED BY <3>1, <3>2
  <2>5. i.revoked = idp[h].revoked /\ i.current = request[r].old.token + 1
    BY <2>1
  <2>6. a \in Answer
    BY DEF Answer
  <2>. HIDE DEF i
  <2>7. AnswerComes(r, h, a, i)
    BY <1>1, <2>1, <2>2, <2>3, <2>4, <2>5 DEF AnswerComes
  <2>. QED BY <2>3, <2>6, <2>7, ProviderStep
<1>6. CASE RefuseReplay(r)
  <2>. DEFINE i == [idp[h] EXCEPT !.revoked = TRUE]
  <2>1. /\ request[r].pc = "exchange" /\ request[r].answer = "none"
        /\ request[r].old.token # idp[h].current \/ idp[h].revoked
        /\ UNCHANGED <<clock, row, seals, proofs, fault>>
    BY <1>1, <1>6 DEF RefuseReplay, Awaiting, Current
  <2>2. PICK a \in {"denied", "error"} : Answered(r, a)
    BY <1>6 DEF RefuseReplay
  <2>3. i \in Family /\ i.current = idp[h].current /\ i.revoked
    BY <1>2 DEF Family
  <2>4. idp' = [idp EXCEPT ![h] = i]
    BY <1>1, <1>6 DEF RefuseReplay
  <2>5. a \in Answer /\ a # "revoked" /\ a # "rotated"
    BY DEF Answer
  <2>6. h \notin fault /\ row[h].state = "live" =>
          i.current = request[r].old.token /\ idp[h].revoked
    BY <1>4, <2>1, <2>3
  <2>. HIDE DEF i
  <2>7. AnswerComes(r, h, a, i)
    BY <1>1, <1>2, <2>1, <2>2, <2>3, <2>4, <2>5, <2>6 DEF AnswerComes
  <2>. QED BY <2>3, <2>5, <2>7, ProviderStep
<1>7. CASE Unreached(r)
  <2>1. /\ request[r].pc \in {"exchange", "revoke"} /\ request[r].answer = "none"
        /\ UNCHANGED <<clock, row, seals, proofs, idp, fault>>
    BY <1>7 DEF Unreached, Awaiting
  <2>2. PICK a \in {"denied", "error"} : Answered(r, a)
    BY <1>7 DEF Unreached
  <2>3. idp' = [idp EXCEPT ![h] = idp[h]]
    BY <2>1 DEF SInv, Typed
  <2>4. a \in Answer /\ a # "revoked" /\ a # "rotated"
    BY DEF Answer
  <2>5. AnswerComes(r, h, a, idp[h])
    BY <1>1, <1>2, <1>4, <2>1, <2>2, <2>3, <2>4 DEF AnswerComes
  <2>. QED BY <1>2, <2>4, <2>5, ProviderStep
<1>8. CASE Revoke(r)
  <2>. DEFINE i == [idp[h] EXCEPT !.revoked = TRUE]
  <2>1. /\ request[r].pc = "revoke" /\ request[r].answer = "none"
        /\ UNCHANGED <<clock, row, seals, proofs>>
    BY <1>1, <1>8 DEF Revoke, Awaiting
  <2>2. PICK a \in {"revoked", "error"} :
          /\ Answered(r, a)
          /\ fault' = IF a = "revoked" THEN fault ELSE fault \cup {h}
    BY <1>1, <1>8 DEF Revoke
  <2>3. i \in Family /\ i.current = idp[h].current /\ i.revoked
    BY <1>2 DEF Family
  <2>4. idp' = [idp EXCEPT ![h] = i]
    BY <1>1, <1>8 DEF Revoke
  <2>5. a \in Answer
    BY DEF Answer
  <2>6. PICK j \in Family : j = i
    BY <2>3
  <2>. HIDE DEF i
  <2>7. /\ idp' = [idp EXCEPT ![h] = j] /\ j.current = idp[h].current /\ j.revoked
        /\ j.current <= seals
        /\ h \notin fault' => a = "revoked"
    BY <1>1, <1>2, <2>2, <2>3, <2>4, <2>6
  <2>8. AnswerComes(r, h, a, j)
    BY <1>1, <2>1, <2>2, <2>7 DEF AnswerComes
  <2>. QED BY <2>5, <2>8, ProviderStep
<1>. QED BY <1>5, <1>6, <1>7, <1>8 DEF Provider

-----------------------------------------------------------------------------
(* The end of an exchange and of a revocation.                              *)

\* What a request that waited finds.
LEMMA WaitFacts ==
  ASSUME SInv, NEW r \in Requests, NEW h \in Handles, h = request[r].handle,
         request[r].pc # "idle"
  PROVE  /\ RowOK(request[r].old, seals, clock) /\ request[r].old \in SessionRow
         /\ request[r].old.state = "live"
         /\ request[r].mine \in Nat /\ request[r].mine <= seals
         /\ request[r].now \in Nat /\ request[r].now <= clock
         /\ Chained(h) /\ InStep(h) /\ RevocationSeen(h)
         /\ row[h].state # "none"
         /\ seals \in Nat /\ clock \in Nat /\ MaxSeals \in Nat
         /\ \A p \in Requests : request[p].mine \in Nat /\ request[p].mine <= seals
         /\ RowOK(row[h], seals, clock)
<1>1. /\ LocalsOK(request[r], seals, clock) /\ request[r] \in Locals
      /\ SessionInv(h)
  BY LocalsType, RowType
<1>2. \A p \in Requests : request[p].mine \in Nat /\ request[p].mine <= seals
  BY LocalsType DEF LocalsOK, Locals
<1>. QED BY <1>1, <1>2, RowType DEF LocalsOK, Locals, SessionInv, Untouched

\* An answer that leaves the session alone.
LEMMA LeftAlone ==
  ASSUME SInv, NEW r \in Requests, NEW h \in Handles, h = request[r].handle,
         request[r].pc # "idle", NEW reply \in Reply, reply # "logged_out",
         Respond(r, h, reply), UNCHANGED <<clock, row, seals, proofs, idp, fault>>,
         h \notin fault /\ row[h].state = "live"
           => ~Exchanging(r, h) /\ ~Revoked(r, h)
  PROVE  SInv'
<1>0. Chained(h) /\ InStep(h) /\ RowOK(row[h], seals, clock)
  BY WaitFacts, RowType
<1>1. PICK x : x = row[h]
  OBVIOUS
<1>2. /\ seals' \in seals..MaxSeals /\ RowOK(x, seals', clock)
      /\ row' = [row EXCEPT ![h] = x] /\ ProofTable(proofs')
  BY <1>0, <1>1, RowType DEF SInv, Typed
<1>3. \A p \in Requests \ {r} :
           Exchanging(p, h) /\ x.state = "live" /\ x.seal = request[p].mine
             => x.token = request[p].old.token
  BY <1>0, <1>1 DEF Chained, Holds
<1>4. h \notin fault /\ x.state = "live" =>
        /\ idp[h].revoked => \E p \in Requests \ {r} : Revoked(p, h)
        /\ x = row[h] /\ ~Exchanging(r, h)
  BY <1>0, <1>1 DEF InStep
<1>5. /\ clock' = clock /\ idp' = idp /\ fault' = fault
      /\ row[h].state = "gone" => x.state = "gone"
      /\ request[r].pc # "idle" => request[r].handle = h
  BY <1>1
<1>6. TokensMatch(r, h, x) /\ StaysInStep(r, h, x)
  BY <1>3, <1>4 DEF TokensMatch, StaysInStep
<1>. QED BY <1>1, <1>2, <1>5, <1>6, EndStep

\* The record stored after an exchange.
LEMMA RenewedType ==
  ASSUME SInv, NEW r \in Requests, request[r].pc # "idle"
  PROVE  LET x == Renewed(r)
         IN  /\ RowOK(x, seals + 1, clock) /\ x.state = "live"
             /\ x.seal = seals + 1 /\ x.token = request[r].old.token + 1
<1>. DEFINE o == request[r].old
<1>1. /\ RowOK(o, seals, clock) /\ o \in SessionRow /\ o.state = "live"
      /\ request[r].now \in Nat /\ request[r].now <= clock
      /\ seals \in Nat /\ clock \in Nat
  BY WaitFacts, WaitingFor
<1>2. /\ o.token \in Nat /\ o.seal \in Nat /\ o.proof \in Nat /\ o.expires \in Nat
      /\ o.refreshingAt \in Nat
      /\ o.token <= o.seal /\ o.seal <= seals /\ o.proof <= seals
      /\ o.expires <= clock + SESSION_TTL /\ o.refreshingAt <= clock
      /\ ACCESS_TTL \in Nat
  BY <1>1, SessionTimesAssumption DEF RowOK, SessionRow
<1>3. PICK n, t, u : n = seals + 1 /\ t = o.token + 1 /\ u = request[r].now + ACCESS_TTL
  OBVIOUS
<1>4. n \in Nat /\ t \in Nat /\ u \in Nat /\ t <= n /\ o.proof <= n
      /\ u <= clock + ACCESS_TTL
  BY <1>1, <1>2, <1>3
<1>5. Renewed(r) = [o EXCEPT !.token = t, !.seal = n, !.accessUntil = u]
  BY <1>3 DEF Renewed
<1>. HIDE DEF o
<1>. DEFINE x == [o EXCEPT !.token = t, !.seal = n, !.accessUntil = u]
<1>6. /\ x \in SessionRow /\ x.state = "live" /\ x.token = t /\ x.seal = n
      /\ x.accessUntil = u /\ x.expires = o.expires /\ x.proof = o.proof
      /\ x.refreshingAt = o.refreshingAt
  BY <1>1, <1>4 DEF SessionRow
<1>. HIDE DEF x
<1>7. RowOK(x, n, clock)
  BY <1>2, <1>4, <1>6 DEF RowOK
<1>. QED BY <1>3, <1>5, <1>6, <1>7 DEF x, o

\* The rotated token is stored under the reservation, or not at all.
LEMMA RotatedStep ==
  ASSUME SInv, NEW r \in Requests, Rotated(r) PROVE SInv'
<1>1. PICK h \in Handles : h = request[r].handle
  BY WaitingFor DEF Rotated
<1>2. /\ request[r].pc = "exchange" /\ request[r].answer = "rotated"
      /\ UNCHANGED <<clock, idp, fault>> /\ Exchanging(r, h) /\ ~Revoked(r, h)
  BY <1>1 DEF Rotated, Exchanging, Revoked
<1>3. /\ Chained(h) /\ InStep(h) /\ row[h].state # "none"
      /\ seals \in Nat /\ clock \in Nat /\ MaxSeals \in Nat
      /\ \A p \in Requests : request[p].mine \in Nat /\ request[p].mine <= seals
  BY <1>1, <1>2, WaitFacts
<1>4. CASE Holds(h, request[r].mine)
  <2>1. PICK record, n : record = Renewed(r) /\ n = seals + 1
    OBVIOUS
  <2>2. seals < MaxSeals /\ Resolution(r, h, record, n)
    BY <1>1, <1>4, <2>1 DEF Rotated
  <2>3. /\ RowOK(record, n, clock) /\ record.state = "live" /\ record.seal = n
        /\ record.token = request[r].old.token + 1 /\ n \in seals..MaxSeals
        /\ n \in Nat
    BY <1>2, <1>3, <2>1, <2>2, RenewedType
  <2>4. PICK x, reply :
              /\ reply \in Reply
              /\ row' = [row EXCEPT ![h] = x] /\ RowOK(x, seals', clock)
              /\ Respond(r, h, reply) /\ reply # "logged_out"
              /\ \/ x = record
                 \/ x.state = "gone"
                 \/ /\ x.state = "live" /\ x.token = record.token
                    /\ x.seal = n + 1
    BY <2>2, <2>3, ResolutionShape
  <2>5. seals' \in seals..MaxSeals /\ ProofTable(proofs')
    BY <2>2, <2>3, ResolutionShape
  <2>6. x.state = "live" => x.token = record.token /\ x.seal \in {n, n + 1}
    BY <2>3, <2>4
  <2>7. \A p \in Requests : x.state = "live" => x.seal # request[p].mine
    BY <1>3, <2>1, <2>3, <2>6
  <2>8. ASSUME h \notin fault
        PROVE  /\ idp[h].revoked => \E p \in Requests \ {r} : Revoked(p, h)
               /\ \A p \in Requests \ {r} : ~Exchanging(p, h)
               /\ idp[h].current = record.token
    BY <1>2, <1>3, <1>4, <2>3, <2>8 DEF InStep, Holds
  <2>9. x.state # "none" /\ row[h].state = "live"
    BY <1>4, <2>3, <2>4 DEF Holds
  <2>10. h \notin fault /\ x.state = "live" =>
           /\ idp[h].revoked => \E p \in Requests \ {r} : Revoked(p, h)
           /\ \A p \in Requests \ {r} : ~Exchanging(p, h)
           /\ x.token = idp[h].current
    BY <2>6, <2>8
  <2>11. /\ clock' = clock /\ idp' = idp /\ fault' = fault
         /\ request[r].pc # "idle" => request[r].handle = h
         /\ row[h].state = "gone" => x.state = "gone"
    BY <1>1, <1>2, <2>9
  <2>12. TokensMatch(r, h, x) /\ StaysInStep(r, h, x)
    BY <2>7, <2>10 DEF TokensMatch, StaysInStep
  <2>. QED BY <2>4, <2>5, <2>9, <2>11, <2>12, EndStep
<1>5. CASE ~Holds(h, request[r].mine)
  <2>1. Respond(r, h, "unavailable") /\ UNCHANGED <<row, seals, proofs>>
    BY <1>1, <1>5 DEF Rotated
  <2>2. ~(h \notin fault /\ row[h].state = "live")
    BY <1>2, <1>3, <1>5 DEF InStep, Holds
  <2>. QED BY <1>1, <1>2, <2>1, <2>2, LeftAlone DEF Reply
<1>. QED BY <1>4, <1>5

\* A session that ends, by a refusal or a logout.
LEMMA DeletedStep ==
  ASSUME SInv, NEW r \in Requests, NEW h \in Handles, h = request[r].handle,
         request[r].pc # "idle", Delete(h), NEW reply \in Reply,
         Respond(r, h, reply), reply = "logged_out" => idp[h].revoked,
         ProofTable(proofs'), UNCHANGED <<clock, seals, idp, fault>>
  PROVE  SInv'
<1>1. PICK x : x = GoneRow
  OBVIOUS
<1>2. /\ seals' \in seals..MaxSeals /\ RowOK(x, seals', clock) /\ x.state = "gone"
  BY <1>1, RowType, BlankRows DEF SInv, Typed
<1>3. row' = [row EXCEPT ![h] = x]
  BY <1>1 DEF Delete
<1>4. TokensMatch(r, h, x) /\ StaysInStep(r, h, x)
  BY <1>2 DEF TokensMatch, StaysInStep
<1>5. /\ clock' = clock /\ idp' = idp /\ fault' = fault /\ x.state # "none"
      /\ request[r].pc # "idle" => request[r].handle = h
  BY <1>2
<1>. QED BY <1>2, <1>3, <1>4, <1>5, EndStep

\* A refused exchange deletes the session, whoever wrote it last.
LEMMA DeniedStep ==
  ASSUME SInv, NEW r \in Requests, Denied(r) PROVE SInv'
<1>1. PICK h \in Handles : h = request[r].handle
  BY WaitingFor DEF Denied
<1>2. /\ request[r].pc # "idle" /\ Delete(h) /\ Respond(r, h, "reauth_required")
      /\ UNCHANGED <<clock, seals, proofs, idp, fault>>
  BY <1>1 DEF Denied
<1>3. ProofTable(proofs')
  BY <1>2 DEF SInv, Typed
<1>. QED BY <1>1, <1>2, <1>3, DeletedStep DEF Reply

\* A failed exchange puts its record back only under its own reservation, and
\* then the record carries the token of whoever finds the reservation below.
LEMMA FailedStep ==
  ASSUME SInv, NEW r \in Requests, Failed(r) PROVE SInv'
<1>1. PICK h \in Handles : h = request[r].handle
  BY WaitingFor DEF Failed
<1>2. /\ request[r].pc = "exchange" /\ request[r].answer = "error"
      /\ UNCHANGED <<clock, seals, proofs, idp, fault>> /\ Exchanging(r, h)
      /\ ~Revoked(r, h) /\ Respond(r, h, "unavailable")
      /\ row' = Restored(r, h)
  BY <1>1 DEF Failed, Exchanging, Revoked
<1>3. /\ Chained(h) /\ InStep(h) /\ RowOK(request[r].old, seals, clock)
      /\ request[r].old.state = "live"
  BY <1>1, <1>2, WaitFacts
<1>4. CASE Holds(h, request[r].mine)
  <2>1. PICK x : x = request[r].old
    OBVIOUS
  <2>2. /\ seals' \in seals..MaxSeals /\ RowOK(x, seals', clock)
        /\ ProofTable(proofs')
    BY <1>2, <1>3, <2>1, RowType DEF SInv, Typed
  <2>3. row' = [row EXCEPT ![h] = x]
    BY <1>2, <1>4, <2>1 DEF Restored
  <2>4. TokensMatch(r, h, x)
    <3>1. ASSUME NEW p \in Requests \ {r}, Exchanging(p, h),
                 x.seal = request[p].mine
          PROVE  x.token = request[p].old.token
      BY <1>2, <1>3, <2>1, <3>1 DEF Chained
    <3>. QED BY <3>1 DEF TokensMatch
  <2>5. StaysInStep(r, h, x)
    <3>1. CASE h \notin fault
      <4>1. row[h].state = "live"
        BY <1>4 DEF Holds
      <4>2. /\ \A p \in Requests \ {r} : ~Exchanging(p, h)
            /\ x.token = idp[h].current
            /\ idp[h].revoked => \E p \in Requests \ {r} : Revoked(p, h)
        BY <1>2, <1>3, <2>1, <3>1, <4>1 DEF InStep
      <4>. QED BY <4>2 DEF StaysInStep
    <3>. QED BY <3>1 DEF StaysInStep
  <2>6. /\ clock' = clock /\ idp' = idp /\ fault' = fault
        /\ x.state = "live" /\ row[h].state = "live"
        /\ request[r].pc # "idle" => request[r].handle = h
    BY <1>1, <1>2, <1>3, <1>4, <2>1 DEF Holds
  <2>. QED BY <1>2, <2>2, <2>3, <2>4, <2>5, <2>6, EndStep DEF Reply
<1>5. CASE ~Holds(h, request[r].mine)
  <2>1. UNCHANGED row
    BY <1>2, <1>5 DEF Restored
  <2>2. ~(h \notin fault /\ row[h].state = "live")
    BY <1>2, <1>3, <1>5 DEF InStep, Holds
  <2>. QED BY <1>1, <1>2, <2>1, <2>2, LeftAlone DEF Reply
<1>. QED BY <1>4, <1>5

\* A logout ends the session when the provider confirmed the revocation, and
\* changes nothing otherwise.
LEMMA LogoutAnsweredStep ==
  ASSUME SInv, NEW r \in Requests, LogoutAnswered(r) PROVE SInv'
<1>1. PICK h \in Handles : h = request[r].handle
  BY WaitingFor DEF LogoutAnswered
<1>2. /\ request[r].pc = "revoke" /\ UNCHANGED <<clock, seals, idp, fault>>
      /\ ~Exchanging(r, h)
  BY <1>1 DEF LogoutAnswered, Exchanging
<1>3. CASE request[r].answer = "revoked"
  <2>1. /\ Delete(h) /\ Respond(r, h, "logged_out")
        /\ proofs' = Discarded(request[r].old.proof)
    BY <1>1, <1>3 DEF LogoutAnswered
  <2>2. ProofTable(proofs')
    BY <2>1, DiscardedType DEF SInv, Typed
  <2>3. idp[h].revoked
    <3>1. RevocationSeen(h)
      BY <1>1, <1>2, WaitFacts
    <3>. QED BY <1>1, <1>2, <1>3, <3>1 DEF RevocationSeen, Revoked
  <2>. QED BY <1>1, <1>2, <2>1, <2>2, <2>3, DeletedStep DEF Reply
<1>4. CASE request[r].answer # "revoked"
  <2>1. Respond(r, h, "session_unavailable") /\ UNCHANGED <<row, proofs>>
    BY <1>1, <1>4 DEF LogoutAnswered
  <2>2. ~Revoked(r, h)
    BY <1>4 DEF Revoked
  <2>. QED BY <1>1, <1>2, <2>1, <2>2, LeftAlone DEF Reply
<1>. QED BY <1>3, <1>4

-----------------------------------------------------------------------------
(* The start of an exchange, of a logout and of a session.                  *)

\* A logout waits for the provider and holds the record it read.
LEMMA LogoutStep ==
  ASSUME SInv, NEW r \in Requests, NEW h \in Handles, Logout(r, h)
  PROVE  SInv'
<1>1. /\ request[r].pc = "idle"
      /\ UNCHANGED <<clock, row, seals, proofs, idp, fault>>
  BY DEF Logout, Idle
<1>2. CASE Respond(r, h, "forbidden")
  BY <1>1, <1>2, ResolveElseStep DEF Reply
<1>3. CASE /\ Loaded(h)
           /\ request' = [request EXCEPT ![r] =
                            [NoRequest EXCEPT !.pc = "revoke", !.handle = h,
                                              !.now = clock, !.old = row[h]]]
  <2>1. PICK q : q = [NoRequest EXCEPT !.pc = "revoke", !.handle = h,
                                       !.now = clock, !.old = row[h]]
    OBVIOUS
  <2>2. /\ row[h] \in SessionRow /\ RowOK(row[h], seals, clock)
        /\ clock \in Nat /\ seals \in Nat /\ SessionInv(h)
        /\ row[h].state = "live"
    BY <1>3, RowType DEF Loaded
  <2>3. /\ q.pc = "revoke" /\ q.handle = h /\ q.now = clock /\ q.old = row[h]
        /\ q.mine = 0 /\ q.answer = "none" /\ q.reply = "none"
    BY <2>1 DEF NoRequest
  <2>4. q \in Locals
    <3>1. NoRequest \in Locals
      BY BlankRows DEF NoRequest, Locals, Answer, Reply, RowOK
    <3>. QED BY <2>1, <2>2, <3>1 DEF Locals
  <2>5. LocalsOK(q, seals, clock)
    BY <2>2, <2>3, <2>4 DEF LocalsOK
  <2>6. /\ request'[r] = q
        /\ \A p \in Requests \ {r} : request'[p] = request[p]
    BY <1>3, <2>1 DEF SInv, Typed
  <2>7. /\ \A p \in Requests : /\ Exchanging(p, h)' <=> Exchanging(p, h)
                               /\ Revoked(p, h)' <=> Revoked(p, h)
        /\ \A p \in Requests : Exchanging(p, h) => request'[p] = request[p]
    BY <1>1, <2>3, <2>6 DEF Exchanging, Revoked
  <2>8. Untouched(h)'
    BY <1>1, <2>2 DEF Untouched
  <2>9. Chained(h)'
    BY <1>1, <2>2, <2>7 DEF SessionInv, Chained, Holds
  <2>10. RevocationSeen(h)'
    BY <1>1, <2>2, <2>7 DEF SessionInv, RevocationSeen
  <2>11. InStep(h)'
    BY <1>1, <2>2, <2>7 DEF SessionInv, InStep
  <2>12. LoggedOut(r)'
    BY <2>3, <2>6 DEF LoggedOut
  <2>13. PICK x, i : x = row[h] /\ i = idp[h]
    OBVIOUS
  <2>14. /\ RowOK(x, seals', clock) /\ row' = [row EXCEPT ![h] = x]
         /\ i \in Family /\ idp' = [idp EXCEPT ![h] = i] /\ i.current <= seals'
         /\ idp[h].revoked => i.revoked
         /\ row[h].state = "gone" => x.state = "gone"
    BY <1>1, <2>2, <2>13, RowType DEF SInv, Typed
  <2>15. /\ LocalsOK(q, seals', clock) /\ seals' \in seals..MaxSeals
         /\ ProofTable(proofs') /\ clock' = clock /\ fault' \in {fault, fault \cup {h}}
         /\ request' = [request EXCEPT ![r] = q]
         /\ SessionInv(h)'
    BY <1>1, <1>3, <2>1, <2>2, <2>5, <2>8, <2>9, <2>10, <2>11
    DEF SInv, Typed, SessionInv
  <2>. QED BY <1>1, <2>3, <2>12, <2>14, <2>15, RequestStep
<1>. QED BY <1>2, <1>3 DEF Logout

\* The record of a reservation.
LEMMA ReservedType ==
  ASSUME SInv, NEW h \in Handles, NEW n \in Nat, n = seals + 1
  PROVE  LET x == [row[h] EXCEPT !.seal = n, !.refreshing = TRUE,
                                 !.refreshingAt = clock]
         IN  /\ RowOK(x, n, clock) /\ x.state = row[h].state
             /\ x.seal = n /\ x.token = row[h].token
             /\ x.accessUntil = row[h].accessUntil
<1>1. PICK o : o = row[h]
  OBVIOUS
<1>2. /\ RowOK(o, seals, clock) /\ o \in SessionRow /\ seals \in Nat /\ clock \in Nat
  BY <1>1, RowType
<1>3. /\ o.token \in Nat /\ o.seal \in Nat /\ o.proof \in Nat
      /\ o.token <= o.seal /\ o.seal <= seals /\ o.proof <= seals
  BY <1>2 DEF RowOK, SessionRow
<1>4. o.token <= n /\ o.proof <= n
  BY <1>2, <1>3
<1>. DEFINE x == [o EXCEPT !.seal = n, !.refreshing = TRUE, !.refreshingAt = clock]
<1>5. /\ x \in SessionRow /\ x.state = o.state /\ x.token = o.token /\ x.seal = n
      /\ x.accessUntil = o.accessUntil /\ x.expires = o.expires
      /\ x.proof = o.proof /\ x.refreshingAt = clock
  BY <1>2 DEF SessionRow
<1>. HIDE DEF x
<1>6. RowOK(x, n, clock)
  BY <1>2, <1>4, <1>5 DEF RowOK
<1>. QED BY <1>1, <1>5, <1>6 DEF x

\* A reservation is written over the record it holds: its seal is new, and the
\* record below carries the token it will exchange.
LEMMA ReserveStep ==
  ASSUME SInv, NEW r \in Requests, NEW h \in Handles, Reserve(r, h)
  PROVE  SInv'
<1>1. /\ request[r].pc = "idle" /\ row[h].state = "live"
      /\ row[h].accessUntil <= clock + MARGIN
      /\ seals < MaxSeals /\ seals' = seals + 1
      /\ UNCHANGED <<clock, proofs, idp>>
  BY DEF Reserve, Idle, Stale, Loaded
<1>2. /\ row[h] \in SessionRow /\ RowOK(row[h], seals, clock)
      /\ clock \in Nat /\ seals \in Nat /\ MaxSeals \in Nat
      /\ Chained(h) /\ InStep(h) /\ RevocationSeen(h)
      /\ idp[h] \in Family /\ idp[h].current <= seals
  BY RowType DEF SessionInv
<1>3. PICK n \in Nat : n = seals + 1
  BY <1>2
<1>4. PICK x : x = [row[h] EXCEPT !.seal = n, !.refreshing = TRUE,
                                  !.refreshingAt = clock]
  OBVIOUS
<1>5. /\ RowOK(x, n, clock) /\ x.state = "live" /\ x.seal = n
      /\ x.token = row[h].token /\ x.accessUntil = row[h].accessUntil
  BY <1>1, <1>3, <1>4, ReservedType
<1>6. row' = [row EXCEPT ![h] = x]
  BY <1>3, <1>4 DEF Reserve
<1>7. PICK q : q = [NoRequest EXCEPT !.pc = "exchange", !.handle = h, !.now = clock,
                                     !.old = row[h], !.mine = n]
  OBVIOUS
<1>8. request' = [request EXCEPT ![r] = q]
  BY <1>3, <1>7 DEF Reserve
<1>9. /\ q.pc = "exchange" /\ q.handle = h /\ q.now = clock /\ q.old = row[h]
      /\ q.mine = n /\ q.answer = "none" /\ q.reply = "none"
  BY <1>7 DEF NoRequest
<1>10. LocalsOK(q, n, clock)
  <2>1. NoRequest \in Locals
    BY BlankRows DEF NoRequest, Locals, Answer, Reply, RowOK
  <2>2. q \in Locals
    BY <1>2, <1>7, <2>1 DEF Locals
  <2>3. RowOK(row[h], n, clock)
    BY <1>2, <1>3, RowLater
  <2>4. row[h].seal < n
    BY <1>2, <1>3 DEF RowOK, SessionRow
  <2>. QED BY <1>1, <1>2, <1>9, <2>2, <2>3, <2>4 DEF LocalsOK
<1>11. /\ row'[h] = x /\ request'[r] = q
       /\ \A p \in Requests \ {r} : request'[p] = request[p]
  BY <1>6, <1>8 DEF SInv, Typed
<1>12. /\ \A p \in Requests : Exchanging(p, h)' <=> p = r \/ Exchanging(p, h)
       /\ \A p \in Requests : Revoked(p, h)' <=> Revoked(p, h)
       /\ ~Exchanging(r, h)
       /\ \A p \in Requests : Exchanging(p, h) => p # r /\ request'[p] = request[p]
  BY <1>1, <1>9, <1>11 DEF Exchanging, Revoked
<1>13. \A p \in Requests : request[p].mine \in Nat /\ request[p].mine # n
                           /\ request[p].old.seal # n
  BY <1>2, <1>3, LocalsType DEF LocalsOK, Locals, RowOK, SessionRow
<1>14. row[h].seal # n
  BY <1>2, <1>3 DEF RowOK, SessionRow
<1>15. Chained(h)'
  <2>1. ASSUME NEW p \in Requests, Exchanging(p, h)', Holds(h, request[p].mine)'
        PROVE  row'[h].token = request'[p].old.token
    BY <1>5, <1>9, <1>11, <1>12, <1>13, <2>1 DEF Holds
  <2>2. ASSUME NEW p \in Requests, NEW o \in Requests,
               Exchanging(p, h)', Exchanging(o, h)',
               request'[o].old.seal = request'[p].mine
        PROVE  request'[o].old.token = request'[p].old.token
    <3>1. CASE p = r
      BY <1>9, <1>11, <1>12, <1>13, <1>14, <2>2, <3>1
    <3>2. CASE p # r /\ o = r
      BY <1>1, <1>2, <1>9, <1>11, <1>12, <2>2, <3>2 DEF Chained, Holds
    <3>3. CASE p # r /\ o # r
      BY <1>2, <1>11, <1>12, <2>2, <3>3 DEF Chained
    <3>. QED BY <3>1, <3>2, <3>3
  <2>. QED BY <2>1, <2>2 DEF Chained
<1>16. InStep(h)'
  <2>1. CASE h \notin fault'
    <3>1. h \notin fault /\ \A p \in Requests : ~Exchanging(p, h)
      BY <2>1 DEF Reserve, Serving, Exchanging
    <3>2. /\ idp[h].revoked => \E p \in Requests : Revoked(p, h)
          /\ row[h].token = idp[h].current
      BY <1>1, <1>2, <3>1 DEF InStep
    <3>. QED BY <1>1, <1>5, <1>9, <1>11, <1>12, <3>1, <3>2 DEF InStep
  <2>. QED BY <2>1 DEF InStep
<1>17. SessionInv(h)'
  <2>1. Untouched(h)'
    BY <1>5, <1>11 DEF Untouched
  <2>2. RevocationSeen(h)'
    BY <1>1, <1>2, <1>12 DEF RevocationSeen
  <2>. QED BY <1>15, <1>16, <2>1, <2>2 DEF SessionInv
<1>18. LoggedOut(r)'
  BY <1>9, <1>11 DEF LoggedOut
<1>19. PICK i : i = idp[h]
  OBVIOUS
<1>20. /\ i \in Family /\ idp' = [idp EXCEPT ![h] = i] /\ i.current <= seals'
       /\ idp[h].revoked => i.revoked
       /\ seals' = n /\ seals' \in seals..MaxSeals /\ clock' = clock
       /\ ProofTable(proofs') /\ fault' \in {fault, fault \cup {h}}
       /\ row[h].state = "gone" => x.state = "gone"
  BY <1>1, <1>2, <1>3, <1>19 DEF SInv, Typed, Family, Reserve
<1>. QED BY <1>1, <1>5, <1>6, <1>8, <1>9, <1>10, <1>17, <1>18, <1>20, RequestStep

-----------------------------------------------------------------------------
(* Sign-in, restart and the clock.                                          *)

\* Typed, piece by piece, for a step that spends seals or time.
LEMMA TypedLater ==
  ASSUME Typed, clock' \in clock..MaxTime, seals' \in seals..MaxSeals,
         row' \in [Handles -> SessionRow],
         \A h \in Handles : row'[h] = row[h] \/ RowOK(row'[h], seals', clock'),
         idp' \in [Handles -> Family],
         \A h \in Handles : idp'[h].current <= seals',
         request' \in [Requests -> Locals],
         \A r \in Requests :
           request'[r] = request[r] \/ LocalsOK(request'[r], seals', clock'),
         ProofTable(proofs'), fault' \subseteq Handles
  PROVE  Typed'
<1>1. /\ clock \in Nat /\ clock' \in Nat /\ clock <= clock' /\ clock' \in 0..MaxTime
      /\ seals \in Nat /\ seals' \in Nat /\ seals <= seals' /\ seals' \in 0..MaxSeals
  BY SessionTimesAssumption DEF Typed
<1>2. \A h \in Handles : RowOK(row'[h], seals', clock')
  BY <1>1, RowLater DEF Typed
<1>3. \A r \in Requests : LocalsOK(request'[r], seals', clock')
  BY <1>1, LocalsLater DEF Typed
<1>. QED BY <1>1, <1>2, <1>3 DEF Typed

\* The row and the family of a sign-in.
LEMMA SignedInType ==
  ASSUME SInv, NEW h \in Handles, NEW n \in Nat, n = seals + 1, row[h].state = "none"
  PROVE  LET x == [EmptyRow EXCEPT !.state = "live", !.seal = n, !.token = 1,
                                   !.accessUntil = clock + ACCESS_TTL,
                                   !.expires = clock + SESSION_TTL, !.proof = n]
             i == [idp[h] EXCEPT !.current = 1]
         IN  /\ RowOK(x, n, clock) /\ x.state = "live" /\ x.token = 1 /\ x.seal = n
             /\ i \in Family /\ i.current = 1 /\ ~i.revoked
<1>1. /\ seals \in Nat /\ clock \in Nat /\ idp[h] \in Family /\ ~idp[h].revoked
      /\ EmptyRow \in SessionRow
  BY RowType, BlankRows DEF SessionInv, Untouched, RowOK
<1>2. PICK a \in Nat, e \in Nat : a = clock + ACCESS_TTL /\ e = clock + SESSION_TTL
  BY <1>1, SessionTimesAssumption
<1>. DEFINE x == [EmptyRow EXCEPT !.state = "live", !.seal = n, !.token = 1,
                                  !.accessUntil = a, !.expires = e, !.proof = n]
            i == [idp[h] EXCEPT !.current = 1]
<1>3. /\ x \in SessionRow /\ x.state = "live" /\ x.token = 1 /\ x.seal = n
      /\ x.accessUntil = a /\ x.expires = e /\ x.proof = n
      /\ x.refreshingAt = 0
  BY <1>1 DEF SessionRow, EmptyRow
<1>4. i \in Family /\ i.current = 1 /\ i.revoked = idp[h].revoked
  BY <1>1 DEF Family
<1>. HIDE DEF x, i
<1>5. RowOK(x, n, clock)
  BY <1>1, <1>2, <1>3 DEF RowOK
<1>. QED BY <1>1, <1>2, <1>3, <1>4, <1>5 DEF x, i

\* A sign-in begins a session in step: nothing was served before.
LEMMA SignInStep ==
  ASSUME SInv, NEW h \in Handles, SignIn(h) PROVE SInv'
<1>1. /\ row[h].state = "none" /\ seals < MaxSeals /\ seals' = seals + 1
      /\ UNCHANGED <<clock, request, fault>> /\ Typed
      /\ seals \in Nat /\ clock \in Nat
  BY RowType DEF SignIn, SInv
<1>2. PICK n \in Nat : n = seals + 1
  BY <1>1
<1>3. PICK x, i : /\ x = [EmptyRow EXCEPT !.state = "live", !.seal = n, !.token = 1,
                                          !.accessUntil = clock + ACCESS_TTL,
                                          !.expires = clock + SESSION_TTL, !.proof = n]
                  /\ i = [idp[h] EXCEPT !.current = 1]
  OBVIOUS
<1>4. /\ RowOK(x, n, clock) /\ x.state = "live" /\ x.token = 1 /\ x.seal = n
      /\ i \in Family /\ i.current = 1 /\ ~i.revoked /\ x \in SessionRow
  BY <1>1, <1>2, <1>3, SignedInType DEF RowOK
<1>5. row' = [row EXCEPT ![h] = x] /\ idp' = [idp EXCEPT ![h] = i]
  BY <1>2, <1>3 DEF SignIn
<1>6. /\ \A g \in Handles : row'[g] = IF g = h THEN x ELSE row[g]
      /\ \A g \in Handles : idp'[g] = IF g = h THEN i ELSE idp[g]
  BY <1>1, <1>5 DEF Typed
<1>7. /\ seals' = n /\ seals' \in seals..MaxSeals /\ clock' = clock
      /\ clock' \in clock..MaxTime
  BY <1>1, <1>2, SessionTimesAssumption DEF Typed
<1>8. ProofTable(proofs')
  BY <1>1, <1>2, EnrolledType DEF SignIn, Typed
<1>9. \A g \in Handles : idp'[g].current <= seals'
  BY <1>1, <1>2, <1>4, <1>6, <1>7 DEF Typed, Family
<1>10. Typed'
  <2>1. /\ row' \in [Handles -> SessionRow] /\ idp' \in [Handles -> Family]
        /\ request' \in [Requests -> Locals] /\ fault' \subseteq Handles
    BY <1>1, <1>4, <1>5 DEF Typed
  <2>2. \A g \in Handles : row'[g] = row[g] \/ RowOK(row'[g], seals', clock')
    BY <1>4, <1>6, <1>7
  <2>. QED BY <1>1, <1>7, <1>8, <1>9, <2>1, <2>2, TypedLater
<1>11. \A r \in Requests : request[r].pc # "idle" => request[r].handle # h
  BY <1>1, RowType DEF SessionInv, Untouched
<1>12. ASSUME NEW g \in Handles PROVE SessionInv(g)'
  <2>1. CASE g # h
    BY <1>1, <1>6, <1>7, <2>1, OtherSession DEF SInv
  <2>2. CASE g = h
    <3>1. \A r \in Requests : ~Exchanging(r, h)' /\ ~Revoked(r, h)'
      BY <1>1, <1>11 DEF Exchanging, Revoked
    <3>2. row'[h] = x /\ idp'[h] = i
      BY <1>6
    <3>3. Untouched(h)'
      BY <1>4, <3>2 DEF Untouched
    <3>4. Chained(h)' /\ RevocationSeen(h)'
      BY <3>1 DEF Chained, RevocationSeen
    <3>5. InStep(h)'
      BY <1>4, <3>1, <3>2 DEF InStep
    <3>. QED BY <2>2, <3>3, <3>4, <3>5 DEF SessionInv
  <2>. QED BY <2>1, <2>2
<1>13. ASSUME NEW r \in Requests PROVE LoggedOut(r)'
  <2>1. LoggedOut(r) /\ request'[r] = request[r]
    BY <1>1 DEF SInv
  <2>. QED BY <1>1, <1>6, <2>1 DEF LoggedOut
<1>. QED BY <1>10, <1>12, <1>13 DEF SInv

\* A cancelled request leaves its session marked, and its reservation where it was.
LEMMA CancelStep ==
  ASSUME SInv, NEW r \in Requests, Cancel(r)
  PROVE  SInv'
<1>1. PICK h \in Handles : h = request[r].handle /\ request[r].pc # "idle"
  BY WaitingFor DEF Cancel, Idle
<1>2. /\ RowOK(row[h], seals, clock) /\ idp[h] \in Family /\ idp[h].current <= seals
      /\ seals \in Nat /\ clock \in Nat /\ MaxSeals \in Nat /\ seals \in seals..MaxSeals
      /\ Untouched(h) /\ Chained(h) /\ RevocationSeen(h)
  BY RowType DEF SInv, Typed, SessionInv
<1>3. /\ LocalsOK(NoRequest, seals, clock) /\ NoRequest.pc = "idle"
      /\ NoRequest.reply = "none"
  <2>1. RowOK(EmptyRow, seals, clock) /\ EmptyRow \in SessionRow
    BY <1>2, BlankRows DEF RowOK
  <2>2. NoRequest \in Locals
    BY <2>1 DEF NoRequest, Locals, Answer, Reply
  <2>3. /\ NoRequest.pc = "idle" /\ NoRequest.reply = "none" /\ NoRequest.now = 0
        /\ NoRequest.mine = 0 /\ NoRequest.old = EmptyRow
    BY DEF NoRequest
  <2>. QED BY <1>2, <2>1, <2>2, <2>3 DEF LocalsOK
<1>4. /\ request' = [request EXCEPT ![r] = NoRequest] /\ fault' = fault \cup {h}
      /\ UNCHANGED <<clock, row, seals, proofs, idp>>
  BY <1>1 DEF Cancel
<1>5. /\ request'[r] = NoRequest
      /\ \A p \in Requests \ {r} : request'[p] = request[p]
  BY <1>4 DEF SInv, Typed
<1>6. /\ \A p \in Requests : /\ Exchanging(p, h)' <=> p # r /\ Exchanging(p, h)
                             /\ Revoked(p, h)' <=> p # r /\ Revoked(p, h)
      /\ \A p \in Requests : Exchanging(p, h)' => request'[p] = request[p]
  BY <1>3, <1>5 DEF Exchanging, Revoked
<1>7. Untouched(h)'
  BY <1>2, <1>3, <1>4, <1>5 DEF Untouched
<1>8. Chained(h)'
  BY <1>2, <1>4, <1>6 DEF Chained, Holds
<1>9. RevocationSeen(h)' /\ InStep(h)'
  BY <1>2, <1>4, <1>6 DEF RevocationSeen, InStep
<1>10. LoggedOut(r)'
  BY <1>3, <1>5 DEF LoggedOut
<1>11. row' = [row EXCEPT ![h] = row[h]] /\ idp' = [idp EXCEPT ![h] = idp[h]]
  BY <1>4 DEF SInv, Typed
<1>12. ProofTable(proofs') /\ SessionInv(h)'
  BY <1>4, <1>7, <1>8, <1>9 DEF SInv, Typed, SessionInv
<1>. QED BY <1>1, <1>2, <1>3, <1>4, <1>10, <1>11, <1>12, RequestStep

\* After a crash no request is left, and every session that had one is marked.
LEMMA RestartStep ==
  ASSUME SInv, Restart PROVE SInv'
<1>1. /\ request' = [r \in Requests |-> NoRequest] /\ proofs' = <<>>
      /\ fault' = fault \cup {request[r].handle : r \in {q \in Requests : ~Idle(q)}}
      /\ UNCHANGED <<clock, row, seals, idp>> /\ Typed
      /\ seals \in Nat /\ clock \in Nat
  BY SessionTimesAssumption DEF Restart, SInv, Typed
<1>2. /\ \A r \in Requests : request'[r] = NoRequest
      /\ NoRequest \in Locals /\ NoRequest.pc = "idle" /\ NoRequest.reply = "none"
      /\ LocalsOK(NoRequest, seals, clock)
  <2>1. RowOK(EmptyRow, seals, clock) /\ EmptyRow \in SessionRow
    BY <1>1, BlankRows DEF RowOK
  <2>2. NoRequest \in Locals
    BY <2>1 DEF NoRequest, Locals, Answer, Reply
  <2>3. /\ NoRequest.pc = "idle" /\ NoRequest.reply = "none" /\ NoRequest.now = 0
        /\ NoRequest.mine = 0 /\ NoRequest.old = EmptyRow
    BY DEF NoRequest
  <2>. QED BY <1>1, <2>1, <2>2, <2>3 DEF LocalsOK
<1>3. \A r \in Requests : ~Idle(r) => request[r].handle \in Handles
  BY WaitingFor DEF Idle
<1>4. Typed'
  <2>1. ProofTable(proofs')
    <3>1. Len(proofs') = 0 /\ proofs' \in Seq(Nat)
      BY <1>1
    <3>. QED BY <3>1, SessionTimesAssumption DEF ProofTable
  <2>2. fault' \subseteq Handles
    BY <1>1, <1>3 DEF Typed
  <2>3. request' \in [Requests -> Locals]
    BY <1>1, <1>2
  <2>4. /\ row' \in [Handles -> SessionRow] /\ idp' \in [Handles -> Family]
        /\ \A h \in Handles : row'[h] = row[h]
        /\ \A h \in Handles : idp'[h].current <= seals'
        /\ clock' \in clock..MaxTime /\ seals' \in seals..MaxSeals
    BY <1>1, SessionTimesAssumption DEF Typed
  <2>5. \A r \in Requests : LocalsOK(request'[r], seals', clock')
    BY <1>1, <1>2
  <2>. QED BY <1>1, <2>1, <2>2, <2>3, <2>4, <2>5, TypedLater
<1>5. ASSUME NEW h \in Handles PROVE SessionInv(h)'
  <2>1. \A r \in Requests : ~Exchanging(r, h)' /\ ~Revoked(r, h)'
    BY <1>2 DEF Exchanging, Revoked
  <2>2. SessionInv(h)
    BY DEF SInv
  <2>3. Untouched(h)'
    BY <1>1, <1>2, <2>2 DEF SessionInv, Untouched
  <2>4. Chained(h)' /\ RevocationSeen(h)'
    BY <2>1 DEF Chained, RevocationSeen
  <2>5. InStep(h)'
    <3>1. CASE h \notin fault'
      <4>1. h \notin fault /\ \A r \in Requests : Idle(r) \/ request[r].handle # h
        BY <1>1, <3>1
      <4>2. \A r \in Requests : ~Exchanging(r, h) /\ ~Revoked(r, h)
        BY <4>1 DEF Exchanging, Revoked, Idle
      <4>. QED BY <1>1, <2>1, <2>2, <4>1, <4>2 DEF SessionInv, InStep
    <3>. QED BY <3>1 DEF InStep
  <2>. QED BY <2>3, <2>4, <2>5 DEF SessionInv
<1>6. ASSUME NEW r \in Requests PROVE LoggedOut(r)'
  BY <1>2 DEF LoggedOut
<1>. QED BY <1>4, <1>5, <1>6 DEF SInv

\* Time passes.
LEMMA TickStep ==
  ASSUME SInv, Tick PROVE SInv'
<1>1. /\ clock < MaxTime /\ clock' = clock + 1 /\ Typed
      /\ UNCHANGED <<row, seals, request, proofs, idp, fault>>
      /\ clock \in Nat /\ MaxTime \in Nat
  BY SessionTimesAssumption DEF Tick, SInv, Typed
<1>2. clock' \in Nat /\ clock <= clock' /\ clock' \in clock..MaxTime
  BY <1>1
<1>3. Typed'
  <2>1. /\ seals' \in seals..MaxSeals /\ ProofTable(proofs')
        /\ row' \in [Handles -> SessionRow] /\ idp' \in [Handles -> Family]
        /\ request' \in [Requests -> Locals] /\ fault' \subseteq Handles
        /\ \A h \in Handles : row'[h] = row[h]
        /\ \A h \in Handles : idp'[h].current <= seals'
        /\ \A r \in Requests : request'[r] = request[r]
    BY <1>1, SessionTimesAssumption DEF Typed
  <2>. QED BY <1>1, <1>2, <2>1, TypedLater
<1>4. ASSUME NEW h \in Handles PROVE SessionInv(h)'
  <2>1. SessionInv(h)
    BY DEF SInv
  <2>2. /\ row'[h] = row[h] /\ idp'[h] = idp[h] /\ fault \subseteq fault'
        /\ \A r \in Requests : request'[r] = request[r]
    BY <1>1
  <2>. QED BY <1>1, <1>2, <2>1, <2>2, OtherSession
<1>5. ASSUME NEW r \in Requests PROVE LoggedOut(r)'
  <2>1. LoggedOut(r)
    BY DEF SInv
  <2>. QED BY <1>1, <2>1 DEF LoggedOut
<1>. QED BY <1>3, <1>4, <1>5 DEF SInv

-----------------------------------------------------------------------------
(* The invariant, and what it shows.                                        *)

\* At the start there is no session.
LEMMA InitSInv == ASSUME Init PROVE SInv
<1>1. /\ clock = 0 /\ seals = 0 /\ row = [h \in Handles |-> EmptyRow]
      /\ request = [r \in Requests |-> NoRequest] /\ proofs = <<>>
      /\ idp = [h \in Handles |-> [current |-> 0, revoked |-> FALSE]] /\ fault = {}
  BY DEF Init
<1>2. RowOK(EmptyRow, seals, clock) /\ EmptyRow \in SessionRow /\ EmptyRow.state = "none"
  BY <1>1, BlankRows DEF RowOK, EmptyRow
<1>3. /\ NoRequest \in Locals /\ NoRequest.pc = "idle" /\ NoRequest.reply = "none"
      /\ LocalsOK(NoRequest, seals, clock)
  <2>1. NoRequest \in Locals
    BY <1>2 DEF NoRequest, Locals, Answer, Reply
  <2>2. /\ NoRequest.pc = "idle" /\ NoRequest.reply = "none" /\ NoRequest.now = 0
        /\ NoRequest.mine = 0 /\ NoRequest.old = EmptyRow
    BY DEF NoRequest
  <2>. QED BY <1>1, <1>2, <2>1, <2>2 DEF LocalsOK
<1>4. /\ \A h \in Handles : /\ row[h] = EmptyRow /\ ~idp[h].revoked
                            /\ idp[h].current = 0 /\ idp[h] \in Family
      /\ \A r \in Requests : request[r] = NoRequest
  BY <1>1 DEF Family
<1>5. Typed
  <2>1. ProofTable(proofs)
    <3>1. Len(proofs) = 0 /\ proofs \in Seq(Nat)
      BY <1>1
    <3>. QED BY <3>1, SessionTimesAssumption DEF ProofTable
  <2>2. /\ row \in [Handles -> SessionRow] /\ request \in [Requests -> Locals]
        /\ idp \in [Handles -> Family]
    BY <1>1, <1>2, <1>3 DEF Family
  <2>. QED BY <1>1, <1>2, <1>3, <1>4, <2>1, <2>2, SessionTimesAssumption DEF Typed
<1>6. ASSUME NEW h \in Handles PROVE SessionInv(h)
  BY <1>2, <1>3, <1>4
  DEF SessionInv, Untouched, Chained, RevocationSeen, InStep, Exchanging, Revoked
<1>7. ASSUME NEW r \in Requests PROVE LoggedOut(r)
  BY <1>3, <1>4 DEF LoggedOut
<1>. QED BY <1>5, <1>6, <1>7 DEF SInv

\* Every step keeps the invariant.
LEMMA NextSInv == ASSUME SInv, [Next]_vars PROVE SInv'
<1>1. ASSUME NEW r \in Requests, NEW h \in Handles, Handle(r, h) PROVE SInv'
  <2>1. CASE ResolveAbsent(r, h)
    BY <2>1, ResolveElseStep DEF ResolveAbsent, Idle, Reply
  <2>2. CASE ResolveReserved(r, h)
    BY <2>2, ResolveElseStep DEF ResolveReserved, Idle, Reply
  <2>. QED BY <1>1, <2>1, <2>2, ResolveFreshStep, ReserveStep, LogoutStep DEF Handle
<1>2. ASSUME NEW r \in Requests, Finish(r) PROVE SInv'
  BY <1>2, RotatedStep, DeniedStep, FailedStep, LogoutAnsweredStep DEF Finish
<1>3. CASE UNCHANGED vars
  <2>1. Typed'
    BY <1>3 DEF vars, SInv, Typed
  <2>2. ASSUME NEW h \in Handles PROVE SessionInv(h)'
    <3>1. SessionInv(h)
      BY DEF SInv
    <3>. QED BY <1>3, <3>1
         DEF vars, SessionInv, Untouched, Chained, RevocationSeen, InStep,
             Exchanging, Revoked, Holds
  <2>3. ASSUME NEW r \in Requests PROVE LoggedOut(r)'
    <3>1. LoggedOut(r)
      BY DEF SInv
    <3>. QED BY <1>3, <3>1 DEF vars, LoggedOut
  <2>. QED BY <2>1, <2>2, <2>3 DEF SInv
<1>. QED BY <1>1, <1>2, <1>3, SignInStep, AnswersStep, CancelStep, RestartStep, TickStep
         DEF Next

\* The inductive invariant holds of every reachable state.
THEOREM SessionInvariant == Spec => []SInv
<1>. QED BY InitSInv, NextSInv, PTL DEF Spec

\* Types; the table of operator proofs never exceeds its limit, and no token or
\* session is kept beyond its lifetime.
THEOREM SessionTypes == Spec => []TypeOK
<1>1. ASSUME SInv PROVE TypeOK
  <2>1. Typed /\ clock \in Nat /\ seals \in Nat
    BY <1>1, SessionTimesAssumption DEF SInv, Typed
  <2>2. ASSUME NEW h \in Handles
        PROVE  /\ row[h].state \in {"none", "live", "gone"}
               /\ row[h].refreshing \in BOOLEAN
               /\ row[h].seal <= seals /\ row[h].proof <= seals
               /\ row[h].accessUntil <= clock + ACCESS_TTL
               /\ row[h].expires <= clock + SESSION_TTL
               /\ row[h].refreshingAt <= clock /\ row[h].token \in 0..(seals + 1)
               /\ idp[h].current \in 0..(seals + 1) /\ idp[h].revoked \in BOOLEAN
    <3>1. RowOK(row[h], seals, clock) /\ row[h] \in SessionRow
          /\ idp[h] \in Family /\ idp[h].current <= seals
      BY <1>1, RowType
    <3>2. /\ row[h].token \in Nat /\ row[h].seal \in Nat /\ row[h].token <= row[h].seal
          /\ row[h].seal <= seals
      BY <3>1 DEF RowOK, SessionRow
    <3>3. row[h].token \in 0..(seals + 1)
      BY <2>1, <3>2
    <3>4. idp[h].current \in 0..(seals + 1) /\ idp[h].revoked \in BOOLEAN
      BY <2>1, <3>1 DEF Family
    <3>. QED BY <3>1, <3>3, <3>4 DEF RowOK, SessionRow
  <2>3. ASSUME NEW r \in Requests
        PROVE  /\ request[r].pc \in {"idle", "exchange", "revoke"}
               /\ request[r].handle \in Handles \cup {NoHandle}
               /\ request[r].answer \in Answer /\ request[r].reply \in Reply
               /\ request[r].mine <= seals
    BY <1>1, LocalsType DEF LocalsOK, Locals
  <2>. QED BY <2>1, <2>2, <2>3 DEF TypeOK, Typed, ProofTable
<1>. QED BY <1>1, SessionInvariant, PTL

\* Without a lost answer, a crash or a reservation taken over, an answered
\* session holds the current token of an unrevoked family: refresh rotation
\* never loses a session by itself.
THEOREM FaultsAlone == Spec => []OnlyFaultsDesynchronise
<1>1. ASSUME SInv PROVE OnlyFaultsDesynchronise
  <2>1. ASSUME NEW h \in Handles, row[h].state = "live", h \notin fault,
               Serving(h, {"exchange", "revoke"}) = {}
        PROVE  row[h].token = idp[h].current /\ ~idp[h].revoked
    <3>1. \A r \in Requests : ~Exchanging(r, h) /\ ~Revoked(r, h)
      BY <2>1 DEF Serving, Exchanging, Revoked
    <3>2. InStep(h)
      BY <1>1 DEF SInv, SessionInv
    <3>. QED BY <2>1, <3>1, <3>2 DEF InStep
  <2>. QED BY <2>1 DEF OnlyFaultsDesynchronise
<1>. QED BY <1>1, SessionInvariant, PTL

\* A browser that was told it is logged out has a revoked family and no session.
THEOREM LogoutIsReal == Spec => []LogoutRevokes
<1>1. SInv => LogoutRevokes
  BY DEF SInv, LoggedOut, LogoutRevokes
<1>. QED BY <1>1, SessionInvariant, PTL

\* No late failure, retry or write-back puts an older refresh token back.
THEOREM TokensRotateForward == Spec => TokenNeverRegresses
<1>. DEFINE Kept(h) == row'[h].state = "live" => row'[h].token >= row[h].token
<1>1. ASSUME SInv, Next, NEW h \in Handles PROVE Kept(h)
  <2>0. /\ Typed /\ row[h] \in SessionRow /\ RowOK(row[h], seals, clock)
        /\ row[h].token \in Nat
    BY <1>1, RowType DEF SInv, SessionRow
  <2>1. CASE row'[h] = row[h]
    BY <2>0, <2>1
  <2>2. ASSUME NEW r \in Requests, NEW g \in Handles, NEW record, NEW sealed \in seals..MaxSeals,
               RowOK(record, sealed, clock), record.state = "live",
               row[g].state = "live" => record.token >= row[g].token,
               Resolution(r, g, record, sealed)
        PROVE  Kept(h)
    <3>1. PICK x : /\ row' = [row EXCEPT ![g] = x]
                   /\ \/ x = record
                      \/ x.state = "gone"
                      \/ x.state = "live" /\ x.token = record.token
      BY <1>1, <2>2, ResolutionShape
    <3>2. record.token \in Nat
      BY <2>2 DEF RowOK, SessionRow
    <3>3. row[g].state # "live" => row[g].token = 0
      BY <1>1, RowType DEF RowOK
    <3>4. record.token >= row[g].token
      BY <2>2, <3>2, <3>3
    <3>. QED BY <2>0, <3>1, <3>2, <3>4 DEF Typed
  <2>3. ASSUME NEW g \in Handles, SignIn(g) PROVE Kept(h)
    <3>1. CASE g = h
      <4>1. row[h].token = 0
        BY <2>0, <2>3, <3>1 DEF SignIn, RowOK
      <4>2. row'[h].token = 1
        BY <2>0, <2>3, <3>1 DEF SignIn, Typed, EmptyRow
      <4>. QED BY <4>1, <4>2
    <3>2. CASE g # h
      BY <2>0, <2>1, <2>3, <3>2 DEF SignIn, Typed
    <3>. QED BY <3>1, <3>2
  <2>4. ASSUME NEW r \in Requests, NEW g \in Handles, Handle(r, g) PROVE Kept(h)
    <3>1. CASE ResolveFresh(r, g)
      <4>1. /\ row[g].state = "live" /\ RowOK(row[g], seals, clock)
            /\ row[g].token \in Nat /\ seals \in seals..MaxSeals
            /\ Resolution(r, g, row[g], seals)
        BY <1>1, <3>1, RowType DEF ResolveFresh, Loaded, SessionRow, SInv, Typed
      <4>2. row[g].token >= row[g].token
        BY <4>1
      <4>. QED BY <2>2, <4>1, <4>2
    <3>2. CASE Reserve(r, g)
      <4>1. row[g] \in SessionRow
        BY <1>1, RowType
      <4>2. row'[h].token = row[h].token
        BY <2>0, <3>2, <4>1 DEF Reserve, Typed, SessionRow
      <4>. QED BY <2>0, <4>2
    <3>3. CASE ResolveAbsent(r, g) \/ ResolveReserved(r, g) \/ Logout(r, g)
      BY <2>1, <3>3 DEF ResolveAbsent, ResolveReserved, Logout
    <3>. QED BY <2>4, <3>1, <3>2, <3>3 DEF Handle
  <2>5. ASSUME NEW r \in Requests, Finish(r) PROVE Kept(h)
    <3>1. PICK g \in Handles : g = request[r].handle /\ request[r].pc # "idle"
      BY <1>1, <2>5, WaitingFor DEF Finish, Rotated, Denied, Failed, LogoutAnswered
    <3>2. /\ RowOK(request[r].old, seals, clock) /\ request[r].old \in SessionRow
          /\ Chained(g) /\ request[r].old.token \in Nat
          /\ seals \in Nat /\ MaxSeals \in Nat /\ clock \in Nat
      BY <1>1, <3>1, WaitFacts DEF SessionRow
    <3>3. CASE request[r].pc = "exchange" /\ Holds(g, request[r].mine)
      <4>1. row[g].token = request[r].old.token
        BY <3>1, <3>2, <3>3 DEF Chained, Exchanging
      <4>2. CASE Rotated(r)
        <5>1. PICK record, n : record = Renewed(r) /\ n = seals + 1
          OBVIOUS
        <5>2. seals < MaxSeals /\ Resolution(r, g, record, n)
          BY <3>1, <3>3, <4>2, <5>1 DEF Rotated
        <5>3. /\ RowOK(record, n, clock) /\ record.state = "live"
              /\ record.token = request[r].old.token + 1 /\ n \in seals..MaxSeals
          BY <1>1, <3>1, <3>2, <5>1, <5>2, RenewedType
        <5>4. record.token >= row[g].token
          BY <3>2, <4>1, <5>3
        <5>. QED BY <2>2, <5>2, <5>3, <5>4
      <4>3. CASE Failed(r)
        <5>1. row' = [row EXCEPT ![g] = request[r].old]
          BY <3>1, <3>3, <4>3 DEF Failed, Restored
        <5>. QED BY <2>0, <3>2, <4>1, <5>1 DEF Typed
      <4>4. CASE Denied(r) \/ LogoutAnswered(r)
        BY <2>0, <3>1, <3>3, <4>4
        DEF Denied, LogoutAnswered, Delete, Typed, GoneRow, EmptyRow
      <4>. QED BY <2>5, <4>2, <4>3, <4>4 DEF Finish
    <3>4. CASE ~(request[r].pc = "exchange" /\ Holds(g, request[r].mine))
      <4>1. CASE Rotated(r) \/ Failed(r)
        BY <2>1, <3>1, <3>4, <4>1 DEF Rotated, Failed, Restored
      <4>2. CASE Denied(r)
        BY <2>0, <3>1, <4>2 DEF Denied, Delete, Typed, GoneRow, EmptyRow
      <4>3. CASE LogoutAnswered(r)
        BY <2>0, <2>1, <3>1, <4>3 DEF LogoutAnswered, Delete, Typed, GoneRow, EmptyRow
      <4>. QED BY <2>5, <4>1, <4>2, <4>3 DEF Finish
    <3>. QED BY <3>3, <3>4
  <2>6. CASE Restart \/ Tick \/ \E r \in Requests : Provider(r) \/ Cancel(r)
    BY <2>1, <2>6 DEF Restart, Tick, Cancel, Provider, Redeem, RefuseReplay, Unreached, Revoke
  <2>. QED BY <1>1, <2>3, <2>4, <2>5, <2>6 DEF Next
<1>. DEFINE Fwd == \A h \in Handles : Kept(h)
<1>2. SInv /\ [Next]_vars => [Fwd]_vars
  BY <1>1
<1>3. TokenNeverRegresses <=> [][Fwd]_vars
  BY DEF TokenNeverRegresses
<1>. HIDE DEF Fwd
<1>. QED BY <1>2, <1>3, SessionInvariant, PTL DEF Spec

\* A request is answered as authenticated only while its session is there.
THEOREM AuthenticatedSessionsExist == Spec => AuthenticatedMeansPresent
<1>. DEFINE Told(r) ==
       request'[r].reply = "authenticated" /\ request'[r] # request[r] =>
         row'[request'[r].handle].state = "live"
<1>1. ASSUME SInv, Next, NEW r \in Requests PROVE Told(r)
  <2>0. Typed /\ request[r] \in Locals
    BY <1>1, LocalsType DEF SInv
  <2>1. CASE request'[r] = request[r]
    BY <2>1
  <2>2. ASSUME NEW q \in Requests, NEW g \in Handles, NEW reply, Respond(q, g, reply),
               reply = "authenticated" => row'[g].state = "live"
        PROVE  Told(r)
    <3>1. CASE q = r
      <4>1. request'[r].reply = reply /\ request'[r].handle = g
        BY <2>0, <2>2, <3>1 DEF Respond, Typed, NoRequest
      <4>. QED BY <2>2, <4>1
    <3>2. CASE q # r
      BY <2>0, <2>1, <2>2, <3>2 DEF Respond, Typed
    <3>. QED BY <3>1, <3>2
  <2>3. ASSUME NEW q \in Requests, NEW g \in Handles, NEW record, NEW sealed \in seals..MaxSeals,
               RowOK(record, sealed, clock), record.state = "live",
               Resolution(q, g, record, sealed)
        PROVE  Told(r)
    <3>1. PICK x, reply : /\ row' = [row EXCEPT ![g] = x]
                          /\ Respond(q, g, reply)
                          /\ reply = "authenticated" => x.state = "live"
      BY <1>1, <2>3, ResolutionShape
    <3>2. row'[g] = x
      BY <2>0, <3>1 DEF Typed
    <3>. QED BY <2>2, <3>1, <3>2
  <2>4. ASSUME NEW q \in Requests, NEW g \in Handles, Handle(q, g) PROVE Told(r)
    <3>1. CASE ResolveFresh(q, g)
      <4>1. /\ row[g].state = "live" /\ RowOK(row[g], seals, clock)
            /\ seals \in seals..MaxSeals
            /\ Resolution(q, g, row[g], seals)
        BY <1>1, <3>1, RowType DEF ResolveFresh, Loaded, SInv, Typed
      <4>. QED BY <2>3, <4>1
    <3>2. CASE Reserve(q, g)
      <4>1. q = r => request'[r].reply = "none"
        BY <2>0, <3>2 DEF Reserve, Typed, NoRequest
      <4>2. q # r => request'[r] = request[r]
        BY <2>0, <3>2 DEF Reserve, Typed
      <4>. QED BY <2>1, <4>1, <4>2
    <3>3. CASE ResolveAbsent(q, g)
      BY <2>2, <3>3 DEF ResolveAbsent
    <3>4. CASE ResolveReserved(q, g)
      BY <2>2, <3>4 DEF ResolveReserved
    <3>5. CASE Logout(q, g)
      <4>1. CASE Respond(q, g, "forbidden")
        BY <2>2, <4>1
      <4>2. CASE request' = [request EXCEPT ![q] =
                         [NoRequest EXCEPT !.pc = "revoke", !.handle = g,
                                           !.now = clock, !.old = row[g]]]
        <5>1. q = r => request'[r].reply = "none"
          BY <2>0, <4>2 DEF Typed, NoRequest
        <5>2. q # r => request'[r] = request[r]
          BY <2>0, <4>2 DEF Typed
        <5>. QED BY <2>1, <5>1, <5>2
      <4>. QED BY <3>5, <4>1, <4>2 DEF Logout
    <3>. QED BY <2>4, <3>1, <3>2, <3>3, <3>4, <3>5 DEF Handle
  <2>5. ASSUME NEW q \in Requests, Finish(q) PROVE Told(r)
    <3>1. PICK g \in Handles : g = request[q].handle /\ request[q].pc # "idle"
      BY <1>1, <2>5, WaitingFor DEF Finish, Rotated, Denied, Failed, LogoutAnswered
    <3>2. seals \in Nat /\ MaxSeals \in Nat
      BY <1>1, <3>1, WaitFacts
    <3>3. CASE Rotated(q)
      <4>1. CASE Holds(g, request[q].mine)
        <5>1. PICK record, n : record = Renewed(q) /\ n = seals + 1
          OBVIOUS
        <5>2. seals < MaxSeals /\ Resolution(q, g, record, n)
          BY <3>1, <3>3, <4>1, <5>1 DEF Rotated
        <5>3. /\ RowOK(record, n, clock) /\ record.state = "live"
              /\ n \in seals..MaxSeals
          BY <1>1, <3>1, <3>2, <5>1, <5>2, RenewedType
        <5>. QED BY <2>3, <5>2, <5>3
      <4>2. CASE ~Holds(g, request[q].mine)
        BY <2>2, <3>1, <3>3, <4>2 DEF Rotated
      <4>. QED BY <4>1, <4>2
    <3>4. CASE Denied(q)
      BY <2>2, <3>1, <3>4 DEF Denied
    <3>5. CASE Failed(q)
      BY <2>2, <3>1, <3>5 DEF Failed
    <3>6. CASE LogoutAnswered(q)
      BY <2>2, <3>1, <3>6 DEF LogoutAnswered
    <3>. QED BY <2>5, <3>3, <3>4, <3>5, <3>6 DEF Finish
  <2>6. ASSUME NEW q \in Requests, Provider(q) PROVE Told(r)
    <3>1. PICK a : Answered(q, a)
      BY <2>6 DEF Provider, Redeem, RefuseReplay, Unreached, Revoke
    <3>2. CASE q = r
      <4>1. request[r].pc # "idle"
        BY <2>6, <3>2 DEF Provider, Redeem, RefuseReplay, Unreached, Revoke, Awaiting
      <4>2. request[r].reply = "none"
        BY <1>1, <4>1, LocalsType DEF LocalsOK
      <4>3. request'[r].reply = request[r].reply
        BY <2>0, <3>1, <3>2 DEF Answered, Typed, Locals
      <4>. QED BY <4>2, <4>3
    <3>3. CASE q # r
      BY <2>0, <2>1, <3>1, <3>3 DEF Answered, Typed
    <3>. QED BY <3>2, <3>3
  <2>7. CASE Restart \/ \E q \in Requests : Cancel(q)
    BY <2>0, <2>1, <2>7 DEF Restart, Cancel, NoRequest, Typed
  <2>8. CASE Tick \/ \E g \in Handles : SignIn(g)
    BY <2>1, <2>8 DEF Tick, SignIn
  <2>. QED BY <1>1, <2>4, <2>5, <2>6, <2>7, <2>8 DEF Next
<1>. DEFINE Ok == \A r \in Requests : Told(r)
<1>2. SInv /\ [Next]_vars => [Ok]_vars
  BY <1>1
<1>3. AuthenticatedMeansPresent <=> [][Ok]_vars
  BY DEF AuthenticatedMeansPresent
<1>. HIDE DEF Ok
<1>. QED BY <1>2, <1>3, SessionInvariant, PTL DEF Spec

-----------------------------------------------------------------------------
(* The event streams.                                                       *)

\* What a stream is made of; and, of a step of the bus, what it may do to one:
\* its frames move it on only under its authority.
IsStream(x) ==
  x = [k \in {"pc", "lane", "topics", "replay", "queue", "subscribed", "authority",
              "via", "position", "cursor"} |-> x[k]]
Streams == client = [c \in OneClient |-> client[c]] /\ \A c \in OneClient : IsStream(client[c])
Framing(x, y) ==
  y.pc # "away" /\ y.pc = x.pc /\ y.position # x.position => x.authority

\* One stream moves.
LEMMA OneStreamMoves ==
  ASSUME Streams, NEW d \in OneClient, NEW y, IsStream(y),
         Framing(client[d], y), client' = [client EXCEPT ![d] = y]
  PROVE  Streams' /\ OneStream!FrameHasAuthority
BY DEF Streams, Framing, OneStream!FrameHasAuthority

\* The initial stream, and what ends one.
LEMMA AwayStream ==
  ASSUME NEW cursor
  PROVE  LET y == [OneStream!Away EXCEPT !.cursor = cursor]
         IN  /\ IsStream(y) /\ y.pc = "away"
             /\ IsStream(OneStream!Away) /\ OneStream!Away.pc = "away"
BY DEF IsStream, OneStream!Away

\* No step of the bus lets a frame out without authority.
LEMMA StreamSteps ==
  ASSUME Streams, OneStream!Next PROVE Streams' /\ OneStream!FrameHasAuthority
<1>0. ASSUME UNCHANGED client PROVE Streams' /\ OneStream!FrameHasAuthority
  BY <1>0 DEF Streams, OneStream!FrameHasAuthority
<1>1. ASSUME NEW d \in OneClient, NEW y, OneStream!OnlyClient(d, y), IsStream(y),
             Framing(client[d], y)
      PROVE  Streams' /\ OneStream!FrameHasAuthority
  BY <1>1, OneStreamMoves DEF OneStream!OnlyClient
<1>2. ASSUME NEW f, client' = f, f = [c \in OneClient |-> f[c]],
             \A c \in OneClient : IsStream(f[c]) /\ Framing(client[c], f[c])
      PROVE  Streams' /\ OneStream!FrameHasAuthority
  BY <1>2 DEF Streams, Framing, OneStream!FrameHasAuthority
<1>3. ASSUME NEW b \in Lanes, NEW t, OneStream!Publish(b, t)
      PROVE  Streams' /\ OneStream!FrameHasAuthority
  <2>. DEFINE n == sequence + 1
              f == [c \in OneClient |->
                      IF c \in OneStream!Subscribers(b)
                           /\ (client[c].topics = {} \/ t \in client[c].topics)
                      THEN OneStream!Offered(client[c], n) ELSE client[c]]
  <2>1. client' = f
    BY <1>3 DEF OneStream!Publish
  <2>2. ASSUME NEW c \in OneClient PROVE IsStream(f[c]) /\ Framing(client[c], f[c])
    <3>1. IsStream(client[c])
      BY DEF Streams
    <3>2. \/ f[c] = client[c]
          \/ f[c] = [client[c] EXCEPT !.queue = <<OneStream!Reset>>, !.subscribed = FALSE]
          \/ f[c] = [client[c] EXCEPT !.queue = Append(client[c].queue, n)]
      BY <3>1 DEF OneStream!Offered
    <3>3. PICK y : y = f[c]
      OBVIOUS
    <3>. HIDE DEF f
    <3>4. PICK x : x = client[c]
      OBVIOUS
    <3>5. IsStream(y) /\ y.position = x.position
      BY <3>1, <3>2, <3>3, <3>4 DEF IsStream
    <3>. QED BY <3>3, <3>4, <3>5 DEF Framing
  <2>3. f = [c \in OneClient |-> f[c]]
    OBVIOUS
  <2>. HIDE DEF f
  <2>. QED BY <1>2, <2>1, <2>2, <2>3
<1>4. ASSUME NEW b \in Lanes, OneStream!ProducerFailure(b)
      PROVE  Streams' /\ OneStream!FrameHasAuthority
  <2>. DEFINE f == [c \in OneClient |->
                      IF c \in OneStream!Subscribers(b)
                      THEN [client[c] EXCEPT !.queue = <<OneStream!Reset>>, !.subscribed = FALSE]
                      ELSE client[c]]
  <2>1. client' = f
    BY <1>4 DEF OneStream!ProducerFailure
  <2>2. ASSUME NEW c \in OneClient PROVE IsStream(f[c]) /\ Framing(client[c], f[c])
    <3>1. PICK x : x = client[c] /\ IsStream(x)
      BY DEF Streams
    <3>2. PICK y : /\ y = f[c]
                   /\ \/ y = x
                      \/ y = [x EXCEPT !.queue = <<OneStream!Reset>>, !.subscribed = FALSE]
      BY <3>1
    <3>. HIDE DEF f
    <3>3. IsStream(y) /\ y.position = x.position
      BY <3>1, <3>2 DEF IsStream
    <3>. QED BY <3>1, <3>2, <3>3 DEF Framing
  <2>3. f = [c \in OneClient |-> f[c]]
    OBVIOUS
  <2>. HIDE DEF f
  <2>. QED BY <1>2, <2>1, <2>2, <2>3
<1>5. CASE OneStream!Restart
  <2>. DEFINE f == [c \in OneClient |-> OneStream!Ended(c)]
  <2>1. client' = f
    BY <1>5 DEF OneStream!Restart
  <2>2. ASSUME NEW c \in OneClient PROVE IsStream(f[c]) /\ Framing(client[c], f[c])
    BY AwayStream DEF OneStream!Ended, Framing
  <2>3. f = [c \in OneClient |-> f[c]]
    OBVIOUS
  <2>. HIDE DEF f
  <2>. QED BY <1>2, <2>1, <2>2, <2>3
<1>6. ASSUME NEW c \in OneClient, OneStream!Stream(c)
      PROVE  Streams' /\ OneStream!FrameHasAuthority
  <2>0. IsStream(client[c])
    BY DEF Streams
  <2>1. CASE OneStream!ReplayFrame(c)
    <3>1. PICK y : /\ OneStream!OnlyClient(c, y) /\ client[c].authority
                   /\ \/ y = OneStream!Away
                      \/ y = [OneStream!Framed(c, Head(client[c].replay))
                                EXCEPT !.replay = Tail(@)]
      BY <2>1 DEF OneStream!ReplayFrame, OneStream!Told
    <3>2. IsStream(OneStream!Framed(c, Head(client[c].replay)))
      BY <2>0 DEF OneStream!Framed, IsStream
    <3>3. IsStream(y)
      BY <3>1, <3>2, AwayStream DEF IsStream
    <3>. QED BY <1>1, <3>1, <3>3 DEF Framing
  <2>2. CASE OneStream!LiveFrame(c)
    <3>1. PICK y : /\ OneStream!OnlyClient(c, y) /\ client[c].authority
                   /\ \/ y = OneStream!Away
                      \/ y = [OneStream!Framed(c, Head(client[c].queue))
                                EXCEPT !.queue = Tail(@)]
      BY <2>2 DEF OneStream!LiveFrame, OneStream!Told
    <3>2. IsStream(OneStream!Framed(c, Head(client[c].queue)))
      BY <2>0 DEF OneStream!Framed, IsStream
    <3>3. IsStream(y)
      BY <3>1, <3>2, AwayStream DEF IsStream
    <3>. QED BY <1>1, <3>1, <3>3 DEF Framing
  <2>3. CASE OneStream!GoLive(c)
    <3>1. IsStream([client[c] EXCEPT !.pc = "live"])
      BY <2>0 DEF IsStream
    <3>. QED BY <1>1, <2>3, <3>1 DEF OneStream!GoLive, Framing
  <2>4. CASE OneStream!AuthorityReset(c)
    BY <1>1, <2>4, AwayStream DEF OneStream!AuthorityReset, OneStream!Told, Framing
  <2>. QED BY <1>6, <2>1, <2>2, <2>3, <2>4 DEF OneStream!Stream
<1>7. ASSUME NEW c \in OneClient,
             OneStream!Disconnect(c) \/ OneStream!LoseAuthority(c) \/ OneStream!Forget(c)
      PROVE  Streams' /\ OneStream!FrameHasAuthority
  <2>0. IsStream(client[c])
    BY DEF Streams
  <2>1. CASE OneStream!Disconnect(c)
    BY <1>1, <2>1, AwayStream DEF OneStream!Disconnect, OneStream!Ended, Framing
  <2>2. CASE OneStream!LoseAuthority(c)
    <3>1. IsStream([client[c] EXCEPT !.authority = FALSE])
      BY <2>0 DEF IsStream
    <3>. QED BY <1>1, <2>2, <3>1 DEF OneStream!LoseAuthority, Framing
  <2>3. CASE OneStream!Forget(c)
    BY <1>1, <2>3, AwayStream DEF OneStream!Forget, Framing
  <2>. QED BY <1>7, <2>1, <2>2, <2>3
<1>8. ASSUME NEW c \in OneClient, NEW b \in Lanes, NEW topics, OneStream!Open(c, b, topics)
      PROVE  Streams' /\ OneStream!FrameHasAuthority
  <2>1. CASE UNCHANGED client
    BY <1>0, <2>1
  <2>2. ASSUME NEW y, client' = [client EXCEPT ![c] = y], IsStream(y),
               y.pc = "replaying", client[c].pc = "away"
        PROVE  Streams' /\ OneStream!FrameHasAuthority
    BY <2>2, OneStreamMoves DEF Framing
  <2>3. client[c].pc = "away"
    BY <1>8 DEF OneStream!Open
  <2>. DEFINE base == OneStream!Subscription(c, b, topics)
  <2>4. IsStream(base) /\ base.pc = "replaying"
    BY DEF OneStream!Subscription, OneStream!Away, IsStream
  <2>. HIDE DEF base
  <2>5. CASE OneStream!OpenAtEnd(c, b, topics)
    <3>. DEFINE y == [base EXCEPT !.via = "start", !.position = sequence]
    <3>1. IsStream(y) /\ y.pc = "replaying"
      BY <2>4 DEF IsStream
    <3>2. client' = [client EXCEPT ![c] = y]
      BY <2>5 DEF OneStream!OpenAtEnd, base
    <3>. HIDE DEF y
    <3>. QED BY <2>2, <2>3, <3>1, <3>2
  <2>6. CASE OneStream!OpenReset(c, b, topics)
    <3>. DEFINE y == [base EXCEPT !.replay = <<OneStream!Reset>>, !.subscribed = FALSE]
    <3>1. IsStream(y) /\ y.pc = "replaying"
      BY <2>4 DEF IsStream
    <3>2. client' = [client EXCEPT ![c] = y]
      BY <2>6 DEF OneStream!OpenReset, base
    <3>. HIDE DEF y
    <3>. QED BY <2>2, <2>3, <3>1, <3>2
  <2>7. CASE OneStream!OpenAtCursor(c, b, topics, client[c].cursor, OneStream!Cleared(b))
    <3>1. PICK u, v, w : client' = [client EXCEPT ![c] =
                           [base EXCEPT !.replay = u, !.via = v, !.position = w]]
      BY <2>7 DEF OneStream!OpenAtCursor, base
    <3>. DEFINE y == [base EXCEPT !.replay = u, !.via = v, !.position = w]
    <3>2. IsStream(y) /\ y.pc = "replaying"
      BY <2>4 DEF IsStream
    <3>3. client' = [client EXCEPT ![c] = y]
      BY <3>1
    <3>. HIDE DEF y
    <3>. QED BY <2>2, <2>3, <3>2, <3>3
  <2>. QED BY <1>8, <2>1, <2>5, <2>6, <2>7 DEF OneStream!Open
<1>9. CASE \/ \E b \in Lanes : OneStream!PublishWithoutRoom(b)
           \/ \E l \in {} : \/ OneStream!LegacySubscribe(l)
                            \/ OneStream!LegacyReceive(l)
                            \/ OneStream!LegacyUnsubscribe(l)
  BY <1>0, <1>9 DEF OneStream!PublishWithoutRoom
<1>. QED BY <1>3, <1>4, <1>5, <1>6, <1>7, <1>8, <1>9 DEF OneStream!Next

\* No frame leaves a stream after its authority was lost, even for an item that
\* was queued before.
THEOREM FramesHaveAuthority == MCSpec => NoFrameWithoutAuthority
<1>. DEFINE IStreams == part = "stream" => Streams
            Guarded == part = "stream" => OneStream!FrameHasAuthority
<1>1. MCInit => IStreams
  <2>1. ASSUME OneStream!Init PROVE Streams
    <3>1. client = [c \in OneClient |-> OneStream!Away]
      BY <2>1 DEF OneStream!Init
    <3>. QED BY <3>1, AwayStream DEF Streams
  <2>. QED BY <2>1 DEF MCInit
<1>2. IStreams /\ [MCNext]_<<part, vars, busVars>> => IStreams' /\ [Guarded]_busVars
  <2>1. ASSUME IStreams, MCNext, part = "stream" PROVE IStreams' /\ Guarded
    BY <2>1, StreamSteps DEF MCNext
  <2>2. ASSUME MCNext, part # "stream" PROVE IStreams' /\ Guarded
    BY <2>2 DEF MCNext
  <2>3. ASSUME IStreams, UNCHANGED <<part, vars, busVars>>
        PROVE  IStreams' /\ UNCHANGED busVars
    BY <2>3 DEF busVars, Streams
  <2>. QED BY <2>1, <2>2, <2>3
<1>3. NoFrameWithoutAuthority <=> [][Guarded]_busVars
  BY DEF NoFrameWithoutAuthority
<1>. HIDE DEF IStreams, Guarded
<1>. QED BY <1>1, <1>2, <1>3, PTL DEF MCSpec

-----------------------------------------------------------------------------
(* What the streams promise: the theorems of EventBusProofs, with the values *)
(* of the two buses.                                                         *)

One == INSTANCE EventBusProofs WITH
  Clients <- OneClient, Legacies <- {}, Topics <- {board, reports},
  Filters <- {{}, {board}}, SSE_BOUND <- 2, MaxEvents <- 3, MaxRestarts <- 1
Two == INSTANCE EventBusProofs WITH
  Clients <- TwoClients, Topics <- {board}, Filters <- {{}}, SSE_BOUND <- 1,
  MaxEvents <- 3, MaxRestarts <- 0

\* The two instances of EventBus are the same definitions twice.
LEMMA OneIsOneStream ==
  /\ One!BusAssumption
  /\ OneStream!Init => One!Init
  /\ OneStream!Next => One!Next
  /\ One!TypeOK => OneStream!TypeOK
  /\ One!StreamIsExact => OneStream!StreamIsExact
<1>1. One!BusAssumption
  BY StreamsAssumption, FS_EmptySet, SMTT(30) DEF One!BusAssumption, IsFiniteSet, One!IsFiniteSet
<1>2. OneStream!Init => One!Init
  BY DEF OneStream!Init, OneStream!EmptyLane, OneStream!Away, OneStream!Silent,
       OneStream!NoCursor, One!Init, One!EmptyLane, One!Away, One!Silent, One!NoCursor
<1>3. OneStream!Next => One!Next
  BY DEF OneStream!Next, OneStream!Reset, OneStream!EmptyLane, OneStream!NoCursor,
       OneStream!Away, OneStream!Silent, OneStream!Elements, OneStream!Only,
       OneStream!Subscribers, OneStream!SubscriberCount, OneStream!Wants,
       OneStream!Known, OneStream!InactiveAt, OneStream!EvictableInactive,
       OneStream!Evictable, OneStream!Crowded, OneStream!HasRoom, OneStream!Victim,
       OneStream!Touched, OneStream!Cleared, OneStream!Kept, OneStream!ReplaySize,
       OneStream!OldestLane, OneStream!Trimmed, OneStream!Offered, OneStream!Pushed,
       OneStream!Publish, OneStream!PublishWithoutRoom, OneStream!ProducerFailure,
       OneStream!After, OneStream!CursorKnown, OneStream!Subscription,
       OneStream!OpenAtEnd, OneStream!SeenUpTo, OneStream!OpenAtCursor,
       OneStream!OpenReset, OneStream!Open, OneStream!LegacySubscribe,
       OneStream!LegacyReceive, OneStream!LegacyUnsubscribe, OneStream!OnlyClient,
       OneStream!Ended, OneStream!Told, OneStream!Framed, OneStream!ReplayFrame,
       OneStream!GoLive, OneStream!LiveFrame, OneStream!AuthorityReset,
       OneStream!Disconnect, OneStream!LoseAuthority, OneStream!Forget,
       OneStream!Restart, OneStream!Stream, OneStream!Cardinality, One!Next, One!Reset,
       One!EmptyLane, One!NoCursor, One!Away, One!Silent, One!Elements, One!Only,
       One!Subscribers, One!SubscriberCount, One!Wants, One!Known, One!InactiveAt,
       One!EvictableInactive, One!Evictable, One!Crowded, One!HasRoom, One!Victim,
       One!Touched, One!Cleared, One!Kept, One!ReplaySize, One!OldestLane, One!Trimmed,
       One!Offered, One!Pushed, One!Publish, One!PublishWithoutRoom,
       One!ProducerFailure, One!After, One!CursorKnown, One!Subscription, One!OpenAtEnd,
       One!SeenUpTo, One!OpenAtCursor, One!OpenReset, One!Open, One!LegacySubscribe,
       One!LegacyReceive, One!LegacyUnsubscribe, One!OnlyClient, One!Ended, One!Told,
       One!Framed, One!ReplayFrame, One!GoLive, One!LiveFrame, One!AuthorityReset,
       One!Disconnect, One!LoseAuthority, One!Forget, One!Restart, One!Stream,
       One!Cardinality
<1>4. One!TypeOK => OneStream!TypeOK
  BY DEF OneStream!TypeOK, OneStream!Elements, OneStream!ReplaySize,
       OneStream!SubscriberCount, OneStream!Known, OneStream!Cardinality, One!TypeOK,
       One!Elements, One!ReplaySize, One!SubscriberCount, One!Known, One!Cardinality
<1>5. One!StreamIsExact => OneStream!StreamIsExact
  BY DEF OneStream!StreamIsExact, OneStream!Exact, OneStream!Pending, OneStream!Missing,
       OneStream!Elements, OneStream!InOrder, OneStream!Wants, OneStream!Reset,
       One!StreamIsExact, One!Exact, One!Pending, One!Missing, One!Elements,
       One!InOrder, One!Wants, One!Reset
<1>. QED BY <1>1, <1>2, <1>3, <1>4, <1>5

LEMMA TwoIsShared ==
  /\ Two!BusAssumption
  /\ Shared!Init => Two!Init
  /\ Shared!Next => Two!Next
  /\ Two!TypeOK => Shared!TypeOK
  /\ Two!StreamIsExact => Shared!StreamIsExact
  /\ Two!LegacyHearsLatest => Shared!LegacyHearsLatest
<1>1. Two!BusAssumption
  BY StreamsAssumption, FS_EmptySet, SMTT(30) DEF Two!BusAssumption, IsFiniteSet, Two!IsFiniteSet
<1>2. Shared!Init => Two!Init
  BY DEF Shared!Init, Shared!EmptyLane, Shared!Away, Shared!Silent, Shared!NoCursor,
       Two!Init, Two!EmptyLane, Two!Away, Two!Silent, Two!NoCursor
<1>3. Shared!Next => Two!Next
  BY DEF Shared!Next, Shared!Reset, Shared!EmptyLane, Shared!NoCursor, Shared!Away,
       Shared!Silent, Shared!Elements, Shared!Only, Shared!Subscribers,
       Shared!SubscriberCount, Shared!Wants, Shared!Known, Shared!InactiveAt,
       Shared!EvictableInactive, Shared!Evictable, Shared!Crowded, Shared!HasRoom,
       Shared!Victim, Shared!Touched, Shared!Cleared, Shared!Kept, Shared!ReplaySize,
       Shared!OldestLane, Shared!Trimmed, Shared!Offered, Shared!Pushed, Shared!Publish,
       Shared!PublishWithoutRoom, Shared!ProducerFailure, Shared!After,
       Shared!CursorKnown, Shared!Subscription, Shared!OpenAtEnd, Shared!SeenUpTo,
       Shared!OpenAtCursor, Shared!OpenReset, Shared!Open, Shared!LegacySubscribe,
       Shared!LegacyReceive, Shared!LegacyUnsubscribe, Shared!OnlyClient, Shared!Ended,
       Shared!Told, Shared!Framed, Shared!ReplayFrame, Shared!GoLive, Shared!LiveFrame,
       Shared!AuthorityReset, Shared!Disconnect, Shared!LoseAuthority, Shared!Forget,
       Shared!Restart, Shared!Stream, Shared!Cardinality, Two!Next, Two!Reset,
       Two!EmptyLane, Two!NoCursor, Two!Away, Two!Silent, Two!Elements, Two!Only,
       Two!Subscribers, Two!SubscriberCount, Two!Wants, Two!Known, Two!InactiveAt,
       Two!EvictableInactive, Two!Evictable, Two!Crowded, Two!HasRoom, Two!Victim,
       Two!Touched, Two!Cleared, Two!Kept, Two!ReplaySize, Two!OldestLane, Two!Trimmed,
       Two!Offered, Two!Pushed, Two!Publish, Two!PublishWithoutRoom,
       Two!ProducerFailure, Two!After, Two!CursorKnown, Two!Subscription, Two!OpenAtEnd,
       Two!SeenUpTo, Two!OpenAtCursor, Two!OpenReset, Two!Open, Two!LegacySubscribe,
       Two!LegacyReceive, Two!LegacyUnsubscribe, Two!OnlyClient, Two!Ended, Two!Told,
       Two!Framed, Two!ReplayFrame, Two!GoLive, Two!LiveFrame, Two!AuthorityReset,
       Two!Disconnect, Two!LoseAuthority, Two!Forget, Two!Restart, Two!Stream,
       Two!Cardinality
<1>4. Two!TypeOK => Shared!TypeOK
  BY DEF Shared!TypeOK, Shared!Elements, Shared!ReplaySize, Shared!SubscriberCount,
       Shared!Known, Shared!Cardinality, Two!TypeOK, Two!Elements, Two!ReplaySize,
       Two!SubscriberCount, Two!Known, Two!Cardinality
<1>5. Two!StreamIsExact => Shared!StreamIsExact
  BY DEF Shared!StreamIsExact, Shared!Exact, Shared!Pending, Shared!Missing,
       Shared!Elements, Shared!InOrder, Shared!Wants, Shared!Reset, Two!StreamIsExact,
       Two!Exact, Two!Pending, Two!Missing, Two!Elements, Two!InOrder, Two!Wants,
       Two!Reset
<1>6. Two!LegacyHearsLatest => Shared!LegacyHearsLatest
  BY DEF Shared!LegacyHearsLatest, Two!LegacyHearsLatest
<1>. QED BY <1>1, <1>2, <1>3, <1>4, <1>5, <1>6

\* A step of the other parts leaves the bus where it is.
LEMMA BusAlone == UNCHANGED busVars => UNCHANGED One!vars /\ UNCHANGED Two!vars
BY DEF busVars, One!vars, Two!vars

BusHolds == IF part = "shared" THEN Two!BusInv ELSE One!BusInv

\* The invariant of the bus that runs.
LEMMA BusesHold == MCSpec => []BusHolds
<1>1. MCInit => BusHolds
  <2>1. One!Init => One!BusInv
    BY OneIsOneStream, One!BusInit
  <2>2. Two!Init => Two!BusInv
    BY TwoIsShared, Two!BusInit
  <2>3. /\ OneStream!Init => One!BusInv
        /\ Shared!Init => Two!BusInv
    BY <2>1, <2>2, OneIsOneStream, TwoIsShared
  <2>. QED BY <2>3 DEF MCInit, BusHolds
<1>2. BusHolds /\ [MCNext]_<<part, vars, busVars>> => BusHolds'
  <2>1. One!BusInv /\ (One!Next \/ UNCHANGED One!vars) => One!BusInv'
    BY OneIsOneStream, One!BusNext
  <2>2. Two!BusInv /\ (Two!Next \/ UNCHANGED Two!vars) => Two!BusInv'
    BY TwoIsShared, Two!BusNext
  <2>3. One!BusInv /\ (OneStream!Next \/ UNCHANGED busVars) => One!BusInv'
    BY <2>1, OneIsOneStream, BusAlone
  <2>4. Two!BusInv /\ (Shared!Next \/ UNCHANGED busVars) => Two!BusInv'
    BY <2>2, TwoIsShared, BusAlone
  <2>5. ASSUME [MCNext]_<<part, vars, busVars>>
        PROVE  /\ part' = part
               /\ IF part = "shared" THEN Shared!Next \/ UNCHANGED busVars
                  ELSE OneStream!Next \/ UNCHANGED busVars
    BY <2>5 DEF MCNext
  <2>. QED BY <2>3, <2>4, <2>5 DEF BusHolds
<1>. QED BY <1>1, <1>2, PTL DEF MCSpec

LEMMA BusHoldsTells ==
  ASSUME BusHolds
  PROVE  /\ IF part = "shared" THEN Shared!TypeOK ELSE OneStream!TypeOK
         /\ SubscribersAreTold
<1>1. CASE part = "shared"
  <2>1. Two!TypeOK /\ Two!StreamIsExact /\ Two!LegacyHearsLatest
    BY <1>1, TwoIsShared, Two!BusTells DEF BusHolds
  <2>. QED BY <1>1, <2>1, TwoIsShared DEF SubscribersAreTold
<1>2. CASE part # "shared"
  <2>1. One!TypeOK /\ One!StreamIsExact
    BY <1>2, OneIsOneStream, One!BusTells DEF BusHolds
  <2>. QED BY <1>2, <2>1, OneIsOneStream DEF SubscribersAreTold
<1>. QED BY <1>1, <1>2

\* The types of the session and of its streams, with every bound of the bus: lanes,
\* replay over all the lanes, queues and subscribers.
THEOREM TypesHold == MCSpec => []TypesOK
<1>1. MCSpec => Spec
  <2>1. MCInit => Init
    BY DEF MCInit
  <2>2. [MCNext]_<<part, vars, busVars>> => [Next]_vars
    BY DEF MCNext
  <2>. QED BY <2>1, <2>2, PTL DEF MCSpec, Spec
<1>2. BusHolds /\ TypeOK => TypesOK
  BY BusHoldsTells DEF TypesOK
<1>. QED BY <1>1, <1>2, BusesHold, SessionTypes, PTL

\* Every event of a stream's lane and topics arrives once and in order, or an
\* explicit reset does, and a slow legacy page still hears the latest public event.
THEOREM SubscribersTold == MCSpec => []SubscribersAreTold
<1>1. BusHolds => SubscribersAreTold
  BY BusHoldsTells
<1>. QED BY <1>1, BusesHold, PTL
=============================================================================
