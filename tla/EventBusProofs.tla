--------------------------- MODULE EventBusProofs ---------------------------
(***************************************************************************)
(* Proofs about EventBus, for any lanes, browsers, legacy pages, topics and   *)
(* filters and any bound: the bounds of the bus, what a stream still has to   *)
(* deliver, and what a legacy page hears.                                    *)
(***************************************************************************)
EXTENDS EventBus, FiniteSetTheorems, SequenceTheorems, WellFoundedInduction, TLAPS

\* There are finitely many of each, an unpublished event has no lane, and the bound
\* of a deque, a queue and the subscribers is positive.
BusAssumption ==
  /\ IsFiniteSet(Lanes) /\ IsFiniteSet(Clients) /\ IsFiniteSet(Legacies)
  /\ PublicLane \in Lanes /\ "none" \notin Lanes
  /\ Filters \subseteq SUBSET Topics
  /\ SSE_BOUND \in Nat \ {0} /\ MaxEvents \in Nat /\ MaxRestarts \in Nat

-----------------------------------------------------------------------------
(* The inductive invariant.                                                 *)

Event == [lane : Lanes \cup {"none"}, topic : Topics \cup {"none"}]
Cursor == [epoch : Nat, lane : Lanes, seq : Nat]
StreamState ==
  [pc : {"away", "replaying", "live"}, lane : Lanes, topics : SUBSET Topics,
   replay : Seq(Nat), queue : Seq(Nat), subscribed : BOOLEAN, authority : BOOLEAN,
   via : {"none", "start", "window", "floor"}, position : Nat, cursor : Cursor]
LaneState == [replay : Seq(Nat), floor : Nat]
PageState == [on : BOOLEAN, queue : Seq(Nat), since : Nat, heard : Nat]

BusTypes ==
  /\ epoch \in 1..(MaxRestarts + 1) /\ sequence \in 0..MaxEvents
  /\ log \in Seq(Event) /\ Len(log) = sequence
  /\ order \in Seq(Lanes) /\ Len(order) <= SSE_BOUND
  /\ lane \in [Lanes -> LaneState]
  /\ client \in [Clients -> StreamState]
  /\ legacy \in [Legacies -> PageState]
  /\ SubscriberCount <= SSE_BOUND /\ ReplaySize(lane) <= SSE_BOUND

\* What lane b keeps: the latest of the events published in it, in order.
Latest(b, replay, l) ==
  /\ InOrder(replay)
  /\ \A n \in Elements(replay) : n \in 1..Len(l) /\ l[n].lane = b
  /\ \A n \in Elements(replay) : \A m \in 1..Len(l) :
       m > n /\ l[m].lane = b => m \in Elements(replay)
Window(b, replay, l) == Len(replay) <= SSE_BOUND /\ Latest(b, replay, l)

\* What the generator of stream x will still yield, and what was published for it.
ToYield(x) == x.replay \o x.queue
Accepts(x, e) == e.lane = x.lane /\ (x.topics = {} \/ e.topic \in x.topics)
Unseen(x, l) == {n \in 1..Len(l) : n > x.position /\ Accepts(x, l[n])}

\* A stream whose generator is suspended: a stream without a subscription has its
\* reset to come; one that began or resumed properly has a reset to come or exactly
\* what it has not seen.
StreamOK(x, l) ==
  /\ x \in StreamState /\ x.position <= Len(l)
  /\ Elements(x.replay) \subseteq 0..Len(l) /\ Elements(x.queue) \subseteq 0..Len(l)
  /\ Len(x.queue) <= SSE_BOUND
  /\ x.pc = "away" => x = [Away EXCEPT !.cursor = x.cursor]
  /\ x.pc = "live" => x.replay = <<>>
  /\ x.pc # "away" /\ ~x.subscribed => Reset \in Elements(ToYield(x))
  /\ x.via \in {"start", "window"} =>
       \/ Reset \in Elements(ToYield(x))
       \/ InOrder(ToYield(x)) /\ Elements(ToYield(x)) = Unseen(x, l)

\* What a legacy page hears last is the latest public event, or it is in its queue.
Public(since, l) == {n \in 1..Len(l) : n > since /\ l[n].lane = PublicLane}
HearsLatest(x, public) ==
  public # {} =>
    \E n \in public :
       /\ \A m \in public : m <= n
       /\ IF x.queue = <<>> THEN x.heard = n ELSE x.queue[Len(x.queue)] = n
PageOK(x, l) ==
  /\ x \in PageState /\ x.since <= Len(l) /\ Len(x.queue) <= SSE_BOUND
  /\ IF x.on THEN HearsLatest(x, Public(x.since, l)) ELSE x = Silent

BusInv ==
  /\ BusTypes
  /\ \A b \in Lanes : Window(b, lane[b].replay, log)
  /\ \A c \in Clients : StreamOK(client[c], log)
  /\ \A c \in Clients : client[c].subscribed => Known(client[c].lane)
  /\ \A l \in Legacies : PageOK(legacy[l], log)

-----------------------------------------------------------------------------
(* Sequences of numbers.                                                    *)

\* A set of numbers has a least one: the induction of the proofs below.
LEMMA Least ==
  ASSUME NEW S \in SUBSET Nat, S # {}
  PROVE  \E n \in S : \A m \in S : n <= m
<1>1. IsWellFoundedOn(OpToRel(<, Nat), Nat)
  BY NatLessThanWellFounded
<1>2. \E n \in S : \A m \in S : ~ (<<m, n>> \in OpToRel(<, Nat))
  BY <1>1, WFMin
<1>3. PICK n \in S : \A m \in S : ~ (<<m, n>> \in OpToRel(<, Nat))
  BY <1>2
<1>4. ASSUME NEW m \in S PROVE n <= m
  <2>1. n \in Nat /\ m \in Nat
    OBVIOUS
  <2>2. ~(m < n)
    BY <1>3, <2>1 DEF OpToRel
  <2>. QED BY <2>1, <2>2
<1>. QED BY <1>4

\* The items of a sequence are its values.
LEMMA ElementsIn ==
  ASSUME NEW S, NEW s \in Seq(S)
  PROVE  /\ Elements(s) \in SUBSET S
         /\ s # <<>> => Head(s) \in Elements(s) /\ Head(s) = s[1] /\ Len(s) >= 1
         /\ \A i \in 1..Len(s) : s[i] \in Elements(s)
         /\ Elements(<<>>) = {}
BY DEF Elements

\* An item more at the end.
LEMMA ElementsAppend ==
  ASSUME NEW S, NEW s \in Seq(S), NEW e \in S
  PROVE  Elements(Append(s, e)) = Elements(s) \cup {e}
<1>. DEFINE t == Append(s, e)
<1>1. /\ Len(s) \in Nat /\ Len(t) = Len(s) + 1 /\ t[Len(s) + 1] = e
      /\ \A i \in 1..Len(s) : t[i] = s[i]
  BY AppendProperties, LenProperties
<1>2. 1..Len(t) = (1..Len(s)) \cup {Len(s) + 1}
  BY <1>1
<1>. QED BY <1>1, <1>2 DEF Elements

\* The first item and the rest.
LEMMA ElementsTail ==
  ASSUME NEW S, NEW s \in Seq(S), s # <<>>
  PROVE  Elements(s) = {Head(s)} \cup Elements(Tail(s))
<1>. DEFINE t == Tail(s)
<1>1. /\ Len(s) \in Nat /\ Len(s) >= 1 /\ Len(t) = Len(s) - 1 /\ Head(s) = s[1]
      /\ \A i \in 1..Len(t) : t[i] = s[i + 1]
  BY HeadTailProperties, LenProperties, EmptySeq
<1>2. ASSUME NEW x \in Elements(s) PROVE x \in {Head(s)} \cup Elements(t)
  <2>1. PICK i \in 1..Len(s) : x = s[i]
    BY <1>2 DEF Elements
  <2>2. CASE i = 1
    BY <1>1, <2>1, <2>2
  <2>3. CASE i # 1
    <3>1. i - 1 \in 1..Len(t) /\ (i - 1) + 1 = i
      BY <1>1, <2>3
    <3>2. t[i - 1] = s[i]
      BY <1>1, <3>1
    <3>. QED BY <2>1, <3>1, <3>2 DEF Elements
  <2>. QED BY <2>2, <2>3
<1>3. ASSUME NEW x \in Elements(t) PROVE x \in Elements(s)
  <2>1. PICK i \in 1..Len(t) : x = t[i]
    BY <1>3 DEF Elements
  <2>2. i + 1 \in 1..Len(s)
    BY <1>1
  <2>. QED BY <1>1, <2>1, <2>2 DEF Elements
<1>4. Head(s) \in Elements(s)
  BY <1>1 DEF Elements
<1>. QED BY <1>2, <1>3, <1>4

\* Items of two sequences, one behind the other.
LEMMA ElementsConcat ==
  ASSUME NEW S, NEW s \in Seq(S), NEW t \in Seq(S)
  PROVE  Elements(s \o t) = Elements(s) \cup Elements(t)
<1>. DEFINE u == s \o t
<1>1. /\ Len(s) \in Nat /\ Len(t) \in Nat /\ Len(u) = Len(s) + Len(t)
      /\ \A i \in 1..(Len(s) + Len(t)) : u[i] = IF i <= Len(s) THEN s[i] ELSE t[i - Len(s)]
  BY ConcatProperties, LenProperties
<1>2. ASSUME NEW x \in Elements(u) PROVE x \in Elements(s) \cup Elements(t)
  <2>1. PICK i \in 1..(Len(s) + Len(t)) : x = u[i]
    BY <1>1, <1>2 DEF Elements
  <2>2. CASE i <= Len(s)
    BY <1>1, <2>1, <2>2 DEF Elements
  <2>3. CASE ~(i <= Len(s))
    <3>1. i - Len(s) \in 1..Len(t) /\ x = t[i - Len(s)]
      BY <1>1, <2>1, <2>3
    <3>. QED BY <3>1 DEF Elements
  <2>. QED BY <2>2, <2>3
<1>3. ASSUME NEW x \in Elements(s) PROVE x \in Elements(u)
  <2>1. PICK i \in 1..Len(s) : x = s[i]
    BY <1>3 DEF Elements
  <2>2. i \in 1..(Len(s) + Len(t)) /\ u[i] = s[i]
    BY <1>1
  <2>. QED BY <1>1, <2>1, <2>2 DEF Elements
<1>4. ASSUME NEW x \in Elements(t) PROVE x \in Elements(u)
  <2>1. PICK i \in 1..Len(t) : x = t[i]
    BY <1>4 DEF Elements
  <2>2. i + Len(s) \in 1..(Len(s) + Len(t)) /\ ~(i + Len(s) <= Len(s)) /\ (i + Len(s)) - Len(s) = i
    BY <1>1
  <2>3. u[i + Len(s)] = t[i]
    BY <1>1, <2>2
  <2>. QED BY <1>1, <2>1, <2>2, <2>3 DEF Elements
<1>. QED BY <1>2, <1>3, <1>4

\* A greater number behind others keeps them in order.
LEMMA InOrderAppend ==
  ASSUME NEW s \in Seq(Nat), InOrder(s), NEW n \in Nat, \A m \in Elements(s) : m < n
  PROVE  InOrder(Append(s, n))
<1>. DEFINE t == Append(s, n)
<1>1. /\ Len(s) \in Nat /\ Len(t) = Len(s) + 1 /\ t[Len(s) + 1] = n
      /\ \A i \in 1..Len(s) : t[i] = s[i]
  BY AppendProperties, LenProperties
<1>2. ASSUME NEW i \in 1..Len(t), NEW j \in 1..Len(t), i < j PROVE t[i] < t[j]
  <2>1. i \in 1..Len(s) /\ (j \in 1..Len(s) \/ j = Len(s) + 1)
    BY <1>1, <1>2
  <2>2. CASE j \in 1..Len(s)
    BY <1>1, <1>2, <2>1, <2>2 DEF InOrder
  <2>3. CASE j = Len(s) + 1
    <3>1. s[i] \in Elements(s)
      BY <2>1 DEF Elements
    <3>. QED BY <1>1, <2>1, <2>3, <3>1
  <2>. QED BY <2>1, <2>2, <2>3
<1>. QED BY <1>2 DEF InOrder

\* The first of numbers in order is the least, and the rest is in order.
LEMMA InOrderTail ==
  ASSUME NEW s \in Seq(Nat), InOrder(s), s # <<>>
  PROVE  InOrder(Tail(s)) /\ \A m \in Elements(Tail(s)) : Head(s) < m
<1>. DEFINE t == Tail(s)
<1>1. /\ Len(s) \in Nat /\ Len(s) >= 1 /\ Len(t) = Len(s) - 1 /\ Head(s) = s[1]
      /\ \A i \in 1..Len(t) : t[i] = s[i + 1]
  BY HeadTailProperties, LenProperties, EmptySeq
<1>2. \A i \in 1..Len(t) : i + 1 \in 1..Len(s) /\ 1 < i + 1
  BY <1>1
<1>3. 1 \in 1..Len(s)
  BY <1>1
<1>4. ASSUME NEW i \in 1..Len(t), NEW j \in 1..Len(t), i < j PROVE t[i] < t[j]
  <2>1. i + 1 < j + 1
    BY <1>4
  <2>. QED BY <1>1, <1>2, <2>1 DEF InOrder
<1>5. ASSUME NEW i \in 1..Len(t) PROVE Head(s) < t[i]
  BY <1>1, <1>2, <1>3 DEF InOrder
<1>. QED BY <1>4, <1>5 DEF InOrder, Elements

\* Induction up to k, over a set.
LEMMA Upward ==
  ASSUME NEW good \in SUBSET Nat, NEW k \in Nat, 0 \in good,
         \A n \in 1..k : n - 1 \in good => n \in good
  PROVE  \A n \in 0..k : n \in good
<1>. DEFINE bad == {n \in 0..k : n \notin good}
<1>1. SUFFICES ASSUME bad # {} PROVE FALSE
  OBVIOUS
<1>2. bad \in SUBSET Nat
  OBVIOUS
<1>3. PICK n \in bad : \A m \in bad : n <= m
  BY <1>1, <1>2, Least
<1>4. n # 0 /\ n \in 1..k /\ n - 1 \in 0..k /\ ~(n <= n - 1)
  BY <1>3
<1>5. n - 1 \in good
  BY <1>3, <1>4
<1>. QED BY <1>4, <1>5

\* What Only computes, one item after another.
LEMMA OnlyIs ==
  ASSUME NEW S, NEW s \in Seq(S), NEW W
  PROVE  \E f : /\ f[0] = <<>> /\ Only(s, W) = f[Len(s)]
                /\ \A i \in 1..Len(s) :
                     f[i] = IF s[i] \in W THEN Append(f[i - 1], s[i]) ELSE f[i - 1]
<1>. DEFINE At(f, i) == IF i = 0 THEN <<>>
                        ELSE IF s[i] \in W THEN Append(f[i - 1], s[i]) ELSE f[i - 1]
            Is(f, n) == f = [i \in 0..n |-> At(f, i)]
            bad == {n \in Nat : n <= Len(s) /\ ~ \E f : Is(f, n)}
<1>1. Len(s) \in Nat
  BY LenProperties
<1>2. bad = {}
  <2>1. SUFFICES ASSUME bad # {} PROVE FALSE
    OBVIOUS
  <2>2. PICK n \in bad : \A m \in bad : n <= m
    BY <2>1, Least
  <2>3. n # 0
    <3>. DEFINE g == [i \in 0..0 |-> <<>>]
    <3>1. Is(g, 0)
      <4>1. \A i \in 0..0 : At(g, i) = <<>>
        OBVIOUS
      <4>. QED BY <4>1
    <3>. QED BY <3>1
  <2>4. n - 1 \in Nat /\ n - 1 <= Len(s) /\ ~(n <= n - 1)
    BY <1>1, <2>3
  <2>5. PICK f : Is(f, n - 1)
    BY <2>2, <2>4
  <2>. DEFINE g == [i \in 0..n |-> IF i = n THEN At(f, n) ELSE f[i]]
  <2>6. \A i \in 0..n : g[i] = At(g, i)
    <3>1. ASSUME NEW i \in 0..n PROVE g[i] = At(g, i)
      <4>1. CASE i = 0
        <5>1. g[0] = f[0] /\ 0 \in 0..(n - 1)
          BY <2>3, <2>4
        <5>2. f[0] = <<>>
          BY <2>5, <5>1
        <5>. QED BY <4>1, <5>1, <5>2
      <4>2. CASE i # 0 /\ i # n
        <5>1. i \in 0..(n - 1) /\ i - 1 \in 0..n /\ i - 1 # n
          BY <4>2
        <5>2. g[i] = f[i] /\ g[i - 1] = f[i - 1]
          BY <4>2, <5>1
        <5>3. f[i] = At(f, i)
          BY <2>5, <5>1
        <5>. QED BY <4>2, <5>2, <5>3
      <4>3. CASE i = n
        <5>1. n - 1 \in 0..n /\ n - 1 # n /\ n \in 0..n
          BY <2>4
        <5>2. g[n - 1] = f[n - 1]
          BY <5>1
        <5>3. g[n] = At(f, n)
          BY <5>1
        <5>. QED BY <2>3, <4>3, <5>2, <5>3
      <4>. QED BY <4>1, <4>2, <4>3
    <3>. QED BY <3>1
  <2>7. Is(g, n)
    BY <2>6
  <2>. QED BY <2>2, <2>7
<1>3. PICK h : Is(h, Len(s))
  <2>1. ~(Len(s) \in bad)
    BY <1>2
  <2>2. Len(s) \in Nat /\ Len(s) <= Len(s)
    BY <1>1
  <2>. HIDE DEF Is
  <2>. QED BY <2>1, <2>2
<1>. DEFINE upTo[i \in 0..Len(s)] ==
       IF i = 0 THEN <<>>
       ELSE IF s[i] \in W THEN Append(upTo[i - 1], s[i]) ELSE upTo[i - 1]
<1>4. Only(s, W) = upTo[Len(s)]
  BY DEF Only
<1>5. Is(upTo, Len(s))
  BY <1>3
<1>. HIDE DEF upTo
<1>6. upTo[0] = <<>>
  BY <1>1, <1>5
<1>7. \A i \in 1..Len(s) : upTo[i] = IF s[i] \in W THEN Append(upTo[i - 1], s[i]) ELSE upTo[i - 1]
  <2>1. \A i \in 0..Len(s) : upTo[i] = At(upTo, i)
    BY <1>5
  <2>2. \A i \in 1..Len(s) : i \in 0..Len(s) /\ i # 0
    BY <1>1
  <2>. QED BY <2>1, <2>2
<1>. QED BY <1>4, <1>6, <1>7

\* Only keeps the items of s that are in W, and is shorter when one is not.
LEMMA OnlyKeeps ==
  ASSUME NEW S, NEW s \in Seq(S), NEW W
  PROVE  /\ Only(s, W) \in Seq(S) /\ Elements(Only(s, W)) = Elements(s) \cap W
         /\ Len(Only(s, W)) <= Len(s)
         /\ (\E x \in Elements(s) : x \notin W) => Len(Only(s, W)) < Len(s)
<1>1. Len(s) \in Nat /\ \A i \in 1..Len(s) : s[i] \in S
  BY LenProperties, ElementOfSeq
<1>2. PICK f : /\ f[0] = <<>> /\ Only(s, W) = f[Len(s)]
               /\ \A i \in 1..Len(s) :
                    f[i] = IF s[i] \in W THEN Append(f[i - 1], s[i]) ELSE f[i - 1]
  BY OnlyIs
<1>. DEFINE first(n) == {s[i] : i \in 1..n}
            KeptTo(n) == /\ f[n] \in Seq(S) /\ Elements(f[n]) = first(n) \cap W
                         /\ Len(f[n]) <= n
                         /\ (\E x \in first(n) : x \notin W) => Len(f[n]) < n
            good == {n \in Nat : KeptTo(n)}
<1>3. 0 \in good
  <2>1. first(0) = {} /\ f[0] \in Seq(S) /\ Elements(f[0]) = {} /\ Len(f[0]) = 0
    BY <1>2, ElementsIn, EmptySeq
  <2>. QED BY <2>1
<1>4. ASSUME NEW n \in 1..Len(s), n - 1 \in good PROVE n \in good
  <2>. DEFINE k == n - 1
  <2>1. n \in Nat /\ k \in Nat /\ n = k + 1 /\ s[n] \in S
    BY <1>1
  <2>2. first(n) = first(k) \cup {s[n]}
    <3>1. 1..n = (1..k) \cup {n}
      BY <2>1
    <3>. QED BY <3>1
  <2>3. /\ f[k] \in Seq(S) /\ Elements(f[k]) = first(k) \cap W /\ Len(f[k]) <= k
        /\ (\E x \in first(k) : x \notin W) => Len(f[k]) < k
    BY <1>4
  <2>. HIDE DEF first
  <2>4. /\ f[n] \in Seq(S) /\ Elements(f[n]) = first(n) \cap W /\ Len(f[n]) <= n
        /\ (\E x \in first(n) : x \notin W) => Len(f[n]) < n
    <3>. HIDE DEF KeptTo, good
    <3>1. CASE s[n] \in W
      <4>1. f[n] = Append(f[k], s[n])
        BY <1>2, <3>1
      <4>. HIDE DEF k
      <4>2. f[n] \in Seq(S) /\ Len(f[n]) = Len(f[k]) + 1
        BY <2>1, <2>3, <4>1, AppendProperties
      <4>3. Elements(f[n]) = Elements(f[k]) \cup {s[n]}
        BY <2>1, <2>3, <4>1, ElementsAppend
      <4>4. Elements(f[n]) = first(n) \cap W
        BY <2>2, <2>3, <3>1, <4>3
      <4>5. (\E x \in first(n) : x \notin W) => \E x \in first(k) : x \notin W
        BY <2>2, <3>1
      <4>6. Len(f[k]) \in Nat
        BY <2>3, LenProperties
      <4>. QED BY <2>1, <2>3, <4>2, <4>4, <4>5, <4>6
    <3>2. CASE s[n] \notin W
      <4>1. f[n] = f[k]
        BY <1>2, <3>2
      <4>. HIDE DEF k
      <4>2. first(n) \cap W = first(k) \cap W
        BY <2>2, <3>2
      <4>3. Len(f[k]) \in Nat
        BY <2>3, LenProperties
      <4>. QED BY <2>1, <2>3, <4>1, <4>2, <4>3
    <3>. QED BY <3>1, <3>2
  <2>. QED BY <2>1, <2>4
<1>5. Len(s) \in good
  <2>. HIDE DEF good
  <2>1. good \in SUBSET Nat
    BY DEF good
  <2>2. \A n \in 0..Len(s) : n \in good
    BY <1>1, <1>3, <1>4, <2>1, Upward
  <2>. QED BY <1>1, <2>2
<1>. QED BY <1>2, <1>5 DEF Elements

\* It keeps them in their order.
LEMMA OnlyInOrder ==
  ASSUME NEW s \in Seq(Nat), InOrder(s), NEW W
  PROVE  InOrder(Only(s, W))
<1>1. Len(s) \in Nat /\ \A i \in 1..Len(s) : s[i] \in Nat
  BY LenProperties, ElementOfSeq
<1>2. PICK f : /\ f[0] = <<>> /\ Only(s, W) = f[Len(s)]
               /\ \A i \in 1..Len(s) :
                    f[i] = IF s[i] \in W THEN Append(f[i - 1], s[i]) ELSE f[i - 1]
  BY OnlyIs
<1>. DEFINE InOrderTo(n) == /\ f[n] \in Seq(Nat) /\ InOrder(f[n])
                            /\ Elements(f[n]) \subseteq {s[i] : i \in 1..n}
            good == {n \in Nat : InOrderTo(n)}
<1>3. 0 \in good
  <2>1. f[0] \in Seq(Nat) /\ Elements(f[0]) = {} /\ Len(f[0]) = 0
    BY <1>2, ElementsIn, EmptySeq
  <2>. QED BY <2>1 DEF InOrder
<1>4. ASSUME NEW n \in 1..Len(s), n - 1 \in good PROVE n \in good
  <2>. DEFINE k == n - 1
  <2>1. n \in Nat /\ k \in Nat /\ n = k + 1 /\ InOrderTo(k) /\ s[n] \in Nat
    BY <1>1, <1>4
  <2>2. \A m \in Elements(f[k]) : m < s[n] /\ m \in {s[i] : i \in 1..n}
    <3>1. ASSUME NEW i \in 1..k PROVE s[i] < s[n]
      <4>1. i \in 1..Len(s) /\ i < n
        BY <1>1
      <4>. QED BY <4>1 DEF InOrder
    <3>2. \A i \in 1..k : i \in 1..n
      BY <2>1
    <3>. QED BY <2>1, <3>1, <3>2
  <2>. HIDE DEF k
  <2>3. CASE s[n] \in W
    <3>1. f[n] = Append(f[k], s[n])
      BY <1>2, <2>3 DEF k
    <3>2. f[n] \in Seq(Nat)
      BY <2>1, <3>1, AppendProperties
    <3>3. Elements(f[n]) = Elements(f[k]) \cup {s[n]}
      BY <2>1, <3>1, ElementsAppend
    <3>4. InOrder(f[n])
      BY <2>1, <2>2, <3>1, InOrderAppend
    <3>5. Elements(f[n]) \subseteq {s[i] : i \in 1..n}
      BY <2>1, <2>2, <3>3
    <3>. QED BY <2>1, <3>2, <3>4, <3>5
  <2>4. CASE s[n] \notin W
    <3>1. f[n] = f[k]
      BY <1>2, <2>4 DEF k
    <3>. QED BY <2>1, <2>2, <3>1
  <2>. QED BY <2>3, <2>4
<1>5. Len(s) \in good
  <2>. HIDE DEF good
  <2>1. good \in SUBSET Nat
    BY DEF good
  <2>2. \A n \in 0..Len(s) : n \in good
    BY <1>1, <1>3, <1>4, <2>1, Upward
  <2>. QED BY <1>1, <2>2
<1>. QED BY <1>2, <1>5

-----------------------------------------------------------------------------
(* The bounds.                                                              *)

Cells(lanes) == {at \in Lanes \X (1..SSE_BOUND) : at[2] <= Len(lanes[at[1]].replay)}

\* One element more makes a finite set larger by one at most.
LEMMA AtMostOneMore ==
  ASSUME NEW A, IsFiniteSet(A), NEW x, NEW B \in SUBSET (A \cup {x})
  PROVE  /\ IsFiniteSet(B) /\ Cardinality(B) \in Nat /\ Cardinality(A) \in Nat
         /\ Cardinality(B) <= Cardinality(A) + 1
<1>1. /\ IsFiniteSet(A \cup {x})
      /\ Cardinality(A \cup {x}) = Cardinality(A) \/ Cardinality(A \cup {x}) = Cardinality(A) + 1
  BY FS_AddElement
<1>2. IsFiniteSet(B) /\ Cardinality(B) <= Cardinality(A \cup {x})
  BY <1>1, FS_Subset
<1>3. Cardinality(B) \in Nat /\ Cardinality(A) \in Nat
  BY <1>2, FS_CardinalityType
<1>. QED BY <1>1, <1>2, <1>3

\* The cells of the lanes are finitely many, and fewer lanes have fewer.
LEMMA CellsFinite ==
  ASSUME BusAssumption, NEW lanes
  PROVE  IsFiniteSet(Cells(lanes)) /\ ReplaySize(lanes) = Cardinality(Cells(lanes))
         /\ ReplaySize(lanes) \in Nat
<1>1. IsFiniteSet(Lanes \X (1..SSE_BOUND))
  <2>1. IsFiniteSet(1..SSE_BOUND)
    BY FS_Interval DEF BusAssumption
  <2>. QED BY <2>1, FS_Product DEF BusAssumption
<1>2. IsFiniteSet(Cells(lanes))
  BY <1>1, FS_Subset DEF Cells
<1>. QED BY <1>2, FS_CardinalityType DEF Cells, ReplaySize

\* A lane that is not empty has a cell, and the one whose head is the least exists.
LEMMA OldestExists ==
  ASSUME BusAssumption, NEW lanes \in [Lanes -> LaneState], ReplaySize(lanes) > 0
  PROVE  OldestLane(lanes) \in Lanes /\ lanes[OldestLane(lanes)].replay # <<>>
<1>1. PICK at \in Cells(lanes) : TRUE
  <2>1. Cells(lanes) # {}
    BY CellsFinite, FS_EmptySet
  <2>. QED BY <2>1
<1>2. at[1] \in Lanes /\ lanes[at[1]].replay # <<>>
  <2>1. at[1] \in Lanes /\ at[2] \in 1..SSE_BOUND /\ at[2] <= Len(lanes[at[1]].replay)
    BY <1>1 DEF Cells
  <2>2. SSE_BOUND \in Nat /\ Len(<<>>) = 0
    BY DEF BusAssumption
  <2>. QED BY <2>1, <2>2
<1>. DEFINE heads == {Head(lanes[b].replay) : b \in {o \in Lanes : lanes[o].replay # <<>>}}
<1>3. \A b \in Lanes : lanes[b].replay # <<>> => Head(lanes[b].replay) \in Nat
  <2>1. ASSUME NEW b \in Lanes, lanes[b].replay # <<>> PROVE Head(lanes[b].replay) \in Nat
    <3>1. lanes[b].replay \in Seq(Nat)
      BY DEF LaneState
    <3>. QED BY <2>1, <3>1, HeadTailProperties
  <2>. QED BY <2>1
<1>4. heads \in SUBSET Nat /\ heads # {}
  BY <1>2, <1>3
<1>5. PICK h \in heads : \A m \in heads : h <= m
  BY <1>4, Least
<1>6. \E b \in Lanes :
        /\ lanes[b].replay # <<>>
        /\ \A o \in Lanes : lanes[o].replay # <<>> => Head(lanes[b].replay) <= Head(lanes[o].replay)
  BY <1>5
<1>. QED BY <1>6 DEF OldestLane

\* Trimming takes the head of one lane when there is one event too many.
LEMMA TrimmedBound ==
  ASSUME BusAssumption, NEW lanes \in [Lanes -> LaneState], ReplaySize(lanes) <= SSE_BOUND + 1,
         \A b \in Lanes : Len(lanes[b].replay) <= SSE_BOUND
  PROVE  /\ Trimmed(lanes) \in [Lanes -> LaneState] /\ ReplaySize(Trimmed(lanes)) <= SSE_BOUND
         /\ \A b \in Lanes : \/ Trimmed(lanes)[b].replay = lanes[b].replay
                             \/ /\ lanes[b].replay # <<>>
                                /\ Trimmed(lanes)[b].replay = Tail(lanes[b].replay)
<1>0. SSE_BOUND \in Nat /\ SSE_BOUND > 0 /\ ReplaySize(lanes) \in Nat
  BY CellsFinite DEF BusAssumption
<1>1. CASE ReplaySize(lanes) <= SSE_BOUND
  BY <1>1 DEF Trimmed
<1>2. CASE ~(ReplaySize(lanes) <= SSE_BOUND)
  <2>. DEFINE o == OldestLane(lanes)
              shorter == [replay |-> Tail(lanes[o].replay), floor |-> Head(lanes[o].replay)]
              rest == [lanes EXCEPT ![o] = shorter]
              last == <<o, Len(lanes[o].replay)>>
  <2>1. o \in Lanes /\ lanes[o].replay # <<>>
    BY <1>0, <1>2, OldestExists
  <2>2. Trimmed(lanes) = rest
    BY <1>2 DEF Trimmed
  <2>. HIDE DEF o
  <2>3. lanes[o].replay \in Seq(Nat)
    BY <2>1 DEF LaneState
  <2>4. /\ Tail(lanes[o].replay) \in Seq(Nat) /\ Head(lanes[o].replay) \in Nat
        /\ Len(Tail(lanes[o].replay)) = Len(lanes[o].replay) - 1
        /\ Len(lanes[o].replay) \in Nat /\ Len(lanes[o].replay) >= 1
    BY <2>1, <2>3, HeadTailProperties, LenProperties, EmptySeq
  <2>5. shorter \in LaneState
    BY <2>4 DEF LaneState
  <2>6. rest \in [Lanes -> LaneState]
    BY <2>1, <2>5
  <2>7. \A b \in Lanes : rest[b] = IF b = o THEN shorter ELSE lanes[b]
    BY <2>1
  <2>8. last \in Cells(lanes) /\ Cells(rest) \subseteq Cells(lanes) \ {last}
    <3>1. last \in Cells(lanes)
      BY <1>0, <2>1, <2>4 DEF Cells
    <3>2. ASSUME NEW at \in Cells(rest) PROVE at \in Cells(lanes) /\ at # last
      <4>1. at \in Lanes \X (1..SSE_BOUND) /\ at[2] <= Len(rest[at[1]].replay)
        BY <3>2 DEF Cells
      <4>2. at[1] \in Lanes /\ at[2] \in 1..SSE_BOUND /\ at = <<at[1], at[2]>>
        BY <4>1
      <4>3. CASE at[1] = o
        <5>1. at[2] <= Len(lanes[o].replay) - 1
          BY <2>4, <2>7, <4>1, <4>2, <4>3
        <5>2. at[2] <= Len(lanes[o].replay) /\ at[2] # Len(lanes[o].replay)
          <6>1. at[2] \in Nat
            BY <1>0, <4>2
          <6>2. \A k, n \in Nat : k <= n - 1 => k <= n /\ k # n
            OBVIOUS
          <6>. QED BY <2>4, <5>1, <6>1, <6>2
        <5>. QED BY <4>1, <4>2, <4>3, <5>2 DEF Cells
      <4>4. CASE at[1] # o
        BY <2>7, <4>1, <4>2, <4>4 DEF Cells
      <4>. QED BY <4>3, <4>4
    <3>. QED BY <3>1, <3>2
  <2>9. ReplaySize(rest) <= ReplaySize(lanes) - 1
    <3>1. IsFiniteSet(Cells(lanes) \ {last}) /\ Cardinality(Cells(lanes) \ {last}) = Cardinality(Cells(lanes)) - 1
      BY <2>8, CellsFinite, FS_RemoveElement
    <3>2. Cardinality(Cells(rest)) <= Cardinality(Cells(lanes) \ {last})
      BY <2>8, <3>1, FS_Subset
    <3>. QED BY <3>1, <3>2, CellsFinite
  <2>10. ReplaySize(rest) \in Nat
    BY CellsFinite
  <2>11. ReplaySize(rest) <= SSE_BOUND
    BY <1>0, <2>9, <2>10
  <2>. QED BY <2>1, <2>2, <2>6, <2>7, <2>11
<1>. QED BY <1>1, <1>2

\* Lanes that are no longer have no more cells.
LEMMA FewerCells ==
  ASSUME BusAssumption, NEW more, NEW fewer,
         \A b \in Lanes : fewer[b].replay = more[b].replay \/ fewer[b].replay = <<>>
  PROVE  ReplaySize(fewer) <= ReplaySize(more)
<1>1. Cells(fewer) \subseteq Cells(more)
  <2>1. ASSUME NEW at \in Cells(fewer) PROVE at \in Cells(more)
    <3>1. at \in Lanes \X (1..SSE_BOUND) /\ at[2] <= Len(fewer[at[1]].replay) /\ at[1] \in Lanes
      BY <2>1 DEF Cells
    <3>2. at[2] \in Nat /\ ~(at[2] <= 0) /\ Len(<<>>) = 0
      BY <3>1 DEF BusAssumption
    <3>3. fewer[at[1]].replay = more[at[1]].replay
      BY <3>1, <3>2
    <3>. QED BY <3>1, <3>3 DEF Cells
  <2>. QED BY <2>1
<1>. QED BY <1>1, CellsFinite, FS_Subset

\* deque(maxlen): the items with the new one behind, or without their first.
LEMMA KeptIs ==
  ASSUME BusAssumption, NEW s \in Seq(Nat), Len(s) <= SSE_BOUND, NEW n \in Nat
  PROVE  /\ Append(s, n) \in Seq(Nat) /\ Append(s, n) # <<>>
         /\ Kept(Append(s, n)) \in Seq(Nat)
         /\ Len(Kept(Append(s, n))) <= SSE_BOUND
         /\ Len(Kept(Append(s, n))) <= Len(s) + 1
         /\ Kept(Append(s, n)) \in {Append(s, n), Tail(Append(s, n))}
<1>. DEFINE t == Append(s, n)
<1>1. Len(s) \in Nat /\ t \in Seq(Nat) /\ Len(t) = Len(s) + 1 /\ t # <<>> /\ SSE_BOUND \in Nat
  BY AppendProperties, LenProperties DEF BusAssumption
<1>2. Tail(t) \in Seq(Nat) /\ Len(Tail(t)) = Len(t) - 1
  BY <1>1, HeadTailProperties
<1>3. Kept(t) = IF Len(t) > SSE_BOUND THEN Tail(t) ELSE t
  BY DEF Kept
<1>. HIDE DEF t
<1>4. /\ Kept(t) \in Seq(Nat) /\ Len(Kept(t)) <= SSE_BOUND
      /\ Len(Kept(t)) <= Len(s) + 1 /\ Kept(t) \in {t, Tail(t)}
  <2>1. CASE Len(t) > SSE_BOUND
    BY <1>1, <1>2, <1>3, <2>1
  <2>2. CASE ~(Len(t) > SSE_BOUND)
    BY <1>1, <1>3, <2>2
  <2>. QED BY <2>1, <2>2
<1>. QED BY <1>1, <1>4 DEF t

\* An event more in one lane.
Stored(lanes, b, n) == [lanes EXCEPT ![b].replay = Kept(Append(@, n))]
LEMMA StoredBound ==
  ASSUME BusAssumption, NEW lanes \in [Lanes -> LaneState], NEW b \in Lanes, NEW n \in Nat,
         \A l \in Lanes : Len(lanes[l].replay) <= SSE_BOUND,
         NEW stored, stored = Stored(lanes, b, n)
  PROVE  /\ stored \in [Lanes -> LaneState] /\ ReplaySize(stored) <= ReplaySize(lanes) + 1
         /\ \A l \in Lanes : /\ Len(stored[l].replay) <= SSE_BOUND
                             /\ stored[l].replay = IF l = b THEN Kept(Append(lanes[b].replay, n))
                                                   ELSE lanes[l].replay
<1>. DEFINE s == lanes[b].replay
            t == Kept(Append(s, n))
            last == <<b, Len(t)>>
<1>1. s \in Seq(Nat) /\ Len(s) <= SSE_BOUND /\ lanes[b] = [replay |-> s, floor |-> lanes[b].floor]
      /\ lanes[b].floor \in Nat
  BY DEF LaneState
<1>2. t \in Seq(Nat) /\ Len(t) <= SSE_BOUND /\ Len(t) <= Len(s) + 1 /\ Len(t) \in Nat /\ Len(s) \in Nat
  BY <1>1, KeptIs, LenProperties
<1>. HIDE DEF s, t
<1>3. \A l \in Lanes : stored[l] = IF l = b THEN [replay |-> t, floor |-> lanes[b].floor] ELSE lanes[l]
  BY <1>1 DEF s, t, Stored
<1>4. stored \in [Lanes -> LaneState]
  <2>1. [replay |-> t, floor |-> lanes[b].floor] \in LaneState
    BY <1>1, <1>2 DEF LaneState
  <2>2. \A l \in Lanes : stored[l] \in LaneState
    BY <1>3, <2>1
  <2>3. stored = [l \in Lanes |-> stored[l]]
    BY DEF Stored
  <2>. QED BY <2>2, <2>3
<1>5. Cells(stored) \subseteq Cells(lanes) \cup {last}
  <2>1. ASSUME NEW at \in Cells(stored), at # last PROVE at \in Cells(lanes)
    <3>1. /\ at \in Lanes \X (1..SSE_BOUND) /\ at[2] <= Len(stored[at[1]].replay)
          /\ at[1] \in Lanes /\ at[2] \in 1..SSE_BOUND /\ at = <<at[1], at[2]>>
      BY <2>1 DEF Cells
    <3>2. CASE at[1] = b
      <4>1. at[2] \in Nat
        BY <3>1 DEF BusAssumption
      <4>2. at[2] <= Len(t) /\ at[2] # Len(t)
        BY <1>3, <2>1, <3>1, <3>2
      <4>3. \A k, i, j \in Nat : k <= i /\ k # i /\ i <= j + 1 => k <= j
        OBVIOUS
      <4>4. at[2] <= Len(s)
        BY <1>2, <4>1, <4>2, <4>3
      <4>. QED BY <3>1, <3>2, <4>4 DEF Cells, s
    <3>3. CASE at[1] # b
      BY <1>3, <3>1, <3>3 DEF Cells
    <3>. QED BY <3>2, <3>3
  <2>. QED BY <2>1
<1>6. ReplaySize(stored) <= ReplaySize(lanes) + 1
  BY <1>5, CellsFinite, AtMostOneMore
<1>7. \A l \in Lanes : stored[l].replay = IF l = b THEN t ELSE lanes[l].replay
  BY <1>3
<1>8. \A l \in Lanes : Len(stored[l].replay) <= SSE_BOUND
  BY <1>2, <1>7
<1>. QED BY <1>4, <1>6, <1>7, <1>8 DEF s, t

Listening(streams) == {c \in Clients : streams[c].subscribed}
Reading(pages) == {l \in Legacies : pages[l].on}

\* The subscribers are counted over finite sets.
LEMMA CountIs ==
  ASSUME BusAssumption
  PROVE  /\ IsFiniteSet(Listening(client)) /\ IsFiniteSet(Listening(client'))
         /\ IsFiniteSet(Reading(legacy)) /\ IsFiniteSet(Reading(legacy'))
         /\ SubscriberCount = Cardinality(Listening(client)) + Cardinality(Reading(legacy))
         /\ SubscriberCount' = Cardinality(Listening(client')) + Cardinality(Reading(legacy'))
         /\ Cardinality(Listening(client)) \in Nat /\ Cardinality(Reading(legacy)) \in Nat
         /\ Cardinality(Listening(client')) \in Nat /\ Cardinality(Reading(legacy')) \in Nat
<1>1. IsFiniteSet(Clients) /\ IsFiniteSet(Legacies)
  BY DEF BusAssumption
<1>2. /\ Listening(client) \in SUBSET Clients /\ Listening(client') \in SUBSET Clients
      /\ Reading(legacy) \in SUBSET Legacies /\ Reading(legacy') \in SUBSET Legacies
  BY DEF Listening, Reading
<1>3. /\ IsFiniteSet(Listening(client)) /\ IsFiniteSet(Listening(client'))
      /\ IsFiniteSet(Reading(legacy)) /\ IsFiniteSet(Reading(legacy'))
  BY <1>1, <1>2, FS_Subset
<1>. QED BY <1>3, FS_CardinalityType DEF SubscriberCount, Listening, Reading

\* Without a new subscriber the bound still holds.
LEMMA CountKept ==
  ASSUME BusAssumption, SubscriberCount <= SSE_BOUND,
         \A c \in Clients : client'[c].subscribed => client[c].subscribed,
         \A l \in Legacies : legacy'[l].on => legacy[l].on
  PROVE  SubscriberCount' <= SSE_BOUND
<1>1. Listening(client') \in SUBSET Listening(client) /\ Reading(legacy') \in SUBSET Reading(legacy)
  BY DEF Listening, Reading
<1>2. /\ Cardinality(Listening(client')) <= Cardinality(Listening(client))
      /\ Cardinality(Reading(legacy')) <= Cardinality(Reading(legacy))
  BY <1>1, CountIs, FS_Subset
<1>3. SSE_BOUND \in Nat
  BY DEF BusAssumption
<1>. QED BY <1>2, <1>3, CountIs

\* Below the bound there is room for one more.
LEMMA CountOneMore ==
  ASSUME BusAssumption, SubscriberCount < SSE_BOUND, NEW x,
         \/ /\ \A c \in Clients \ {x} : client'[c].subscribed => client[c].subscribed
            /\ \A l \in Legacies : legacy'[l].on => legacy[l].on
         \/ /\ \A c \in Clients : client'[c].subscribed => client[c].subscribed
            /\ \A l \in Legacies \ {x} : legacy'[l].on => legacy[l].on
  PROVE  SubscriberCount' <= SSE_BOUND
<1>1. SSE_BOUND \in Nat
  BY DEF BusAssumption
<1>2. CASE /\ \A c \in Clients \ {x} : client'[c].subscribed => client[c].subscribed
           /\ \A l \in Legacies : legacy'[l].on => legacy[l].on
  <2>1. /\ Listening(client') \in SUBSET (Listening(client) \cup {x})
        /\ Reading(legacy') \in SUBSET Reading(legacy)
    BY <1>2 DEF Listening, Reading
  <2>2. /\ Cardinality(Listening(client')) <= Cardinality(Listening(client)) + 1
        /\ Cardinality(Reading(legacy')) <= Cardinality(Reading(legacy))
    BY <2>1, CountIs, FS_Subset, AtMostOneMore
  <2>. QED BY <1>1, <2>2, CountIs
<1>3. CASE /\ \A c \in Clients : client'[c].subscribed => client[c].subscribed
           /\ \A l \in Legacies \ {x} : legacy'[l].on => legacy[l].on
  <2>1. /\ Listening(client') \in SUBSET Listening(client)
        /\ Reading(legacy') \in SUBSET (Reading(legacy) \cup {x})
    BY <1>3 DEF Listening, Reading
  <2>2. /\ Cardinality(Listening(client')) <= Cardinality(Listening(client))
        /\ Cardinality(Reading(legacy')) <= Cardinality(Reading(legacy)) + 1
    BY <2>1, CountIs, FS_Subset, AtMostOneMore
  <2>. QED BY <1>1, <2>2, CountIs
<1>. QED BY <1>2, <1>3

-----------------------------------------------------------------------------
(* The lanes.                                                               *)

\* The log grows at its end.
LEMMA LogGrows ==
  ASSUME NEW l \in Seq(Event), NEW e \in Event
  PROVE  /\ Append(l, e) \in Seq(Event) /\ Len(l) \in Nat /\ Len(Append(l, e)) = Len(l) + 1
         /\ Append(l, e)[Len(l) + 1] = e /\ \A m \in 1..Len(l) : Append(l, e)[m] = l[m]
         /\ \A m \in 1..(Len(l) + 1) : m \in 1..Len(l) \/ m = Len(l) + 1
         /\ \A m \in 1..Len(l) : m \in 1..(Len(l) + 1) /\ m < Len(l) + 1 /\ m \in Nat
BY AppendProperties, LenProperties

\* An empty lane has forgotten everything.
LEMMA LatestEmpty == ASSUME NEW b, NEW l PROVE Latest(b, <<>>, l)
<1>1. Elements(<<>>) = {} /\ Len(<<>>) = 0
  BY ElementsIn DEF Elements
<1>. QED BY <1>1 DEF Latest, InOrder

\* Without its oldest event a lane still keeps the latest ones.
LEMMA LatestTail ==
  ASSUME NEW b, NEW l, NEW s \in Seq(Nat), s # <<>>, Latest(b, s, l)
  PROVE  Tail(s) \in Seq(Nat) /\ Latest(b, Tail(s), l)
<1>1. Tail(s) \in Seq(Nat) /\ Elements(s) = {Head(s)} \cup Elements(Tail(s))
      /\ Elements(s) \in SUBSET Nat
  BY HeadTailProperties, ElementsTail, ElementsIn
<1>2. InOrder(Tail(s)) /\ \A m \in Elements(Tail(s)) : Head(s) < m
  BY InOrderTail DEF Latest
<1>3. ASSUME NEW n \in Elements(Tail(s)), NEW m \in 1..Len(l), m > n, l[m].lane = b
      PROVE  m \in Elements(Tail(s))
  <2>1. m \in Elements(s)
    BY <1>1, <1>3 DEF Latest
  <2>2. m # Head(s)
    BY <1>1, <1>2, <1>3
  <2>. QED BY <1>1, <2>1, <2>2
<1>. QED BY <1>1, <1>2, <1>3 DEF Latest

\* An event of another lane changes nothing.
LEMMA LatestElsewhere ==
  ASSUME NEW b, NEW l \in Seq(Event), NEW e \in Event, e.lane # b,
         NEW s, Latest(b, s, l)
  PROVE  Latest(b, s, Append(l, e))
<1>1. ASSUME NEW n \in Elements(s) PROVE n \in 1..Len(Append(l, e)) /\ Append(l, e)[n].lane = b
  BY LogGrows DEF Latest
<1>2. ASSUME NEW n \in Elements(s), NEW m \in 1..Len(Append(l, e)), m > n, Append(l, e)[m].lane = b
      PROVE  m \in Elements(s)
  <2>1. m \in 1..Len(l) /\ l[m].lane = b
    BY <1>2, LogGrows
  <2>. QED BY <1>2, <2>1 DEF Latest
<1>. QED BY <1>1, <1>2 DEF Latest

\* An event of the lane goes behind the others.
LEMMA LatestAppend ==
  ASSUME NEW b, NEW l \in Seq(Event), NEW e \in Event, e.lane = b,
         NEW s \in Seq(Nat), Latest(b, s, l)
  PROVE  Latest(b, Append(s, Len(l) + 1), Append(l, e))
<1>. DEFINE n == Len(l) + 1
<1>1. n \in Nat /\ Elements(Append(s, n)) = Elements(s) \cup {n}
  BY LogGrows, ElementsAppend
<1>2. \A m \in Elements(s) : m \in 1..Len(l) /\ l[m].lane = b
  BY DEF Latest
<1>3. InOrder(Append(s, n))
  <2>1. InOrder(s) /\ \A m \in Elements(s) : m < n
    BY <1>2, LogGrows DEF Latest
  <2>. QED BY <1>1, <2>1, InOrderAppend
<1>4. ASSUME NEW k \in Elements(Append(s, n))
      PROVE  k \in 1..Len(Append(l, e)) /\ Append(l, e)[k].lane = b
  <2>1. k \in Elements(s) \/ k = n
    BY <1>1
  <2>2. CASE k \in Elements(s)
    BY <1>2, <2>2, LogGrows
  <2>3. CASE k = n
    BY <2>3, LogGrows
  <2>. QED BY <2>1, <2>2, <2>3
<1>5. ASSUME NEW k \in Elements(Append(s, n)), NEW m \in 1..Len(Append(l, e)), m > k,
             Append(l, e)[m].lane = b
      PROVE  m \in Elements(Append(s, n))
  <2>1. m \in 1..Len(l) \/ m = n
    BY LogGrows
  <2>2. CASE m \in 1..Len(l)
    <3>1. k # n
      BY <1>5, <2>2, LogGrows
    <3>2. k \in Elements(s) /\ l[m].lane = b
      BY <1>1, <1>5, <2>2, <3>1, LogGrows
    <3>. QED BY <1>1, <1>5, <2>2, <3>2 DEF Latest
  <2>3. CASE m = n
    BY <1>1, <2>3
  <2>. QED BY <2>1, <2>2, <2>3
<1>. QED BY <1>3, <1>4, <1>5 DEF Latest

\* The lanes after _lane(b): the bound holds, and a lane with subscribers stays.
LEMMA TouchedIs ==
  ASSUME BusAssumption, order \in Seq(Lanes), Len(order) <= SSE_BOUND, NEW b \in Lanes, HasRoom(b)
  PROVE  /\ Touched(b) \in Seq(Lanes) /\ Len(Touched(b)) <= SSE_BOUND
         /\ Elements(Touched(b)) = (Elements(order) \ Victim(b)) \cup {b}
         /\ Victim(b) \subseteq Lanes /\ \A v \in Victim(b) : Subscribers(v) = {}
<1>. DEFINE W == Lanes \ (Victim(b) \cup {b})
            kept == Only(order, W)
<1>1. /\ kept \in Seq(Lanes) /\ Elements(kept) = Elements(order) \cap W /\ Len(kept) <= Len(order)
      /\ (\E x \in Elements(order) : x \notin W) => Len(kept) < Len(order)
  BY OnlyKeeps
<1>2. Len(order) \in Nat /\ Len(kept) \in Nat /\ SSE_BOUND \in Nat /\ Elements(order) \subseteq Lanes
      /\ \A i \in 1..Len(order) : order[i] \in Elements(order)
  BY <1>1, LenProperties, ElementsIn DEF BusAssumption
<1>3. Victim(b) \subseteq Elements(order) /\ \A v \in Victim(b) : Subscribers(v) = {}
  BY DEF Victim, Evictable, EvictableInactive, InactiveAt, Elements
<1>. HIDE DEF kept
<1>4. Touched(b) \in Seq(Lanes) /\ Len(Touched(b)) = Len(kept) + 1
      /\ Elements(Touched(b)) = Elements(kept) \cup {b}
  <2>1. Touched(b) = Append(kept, b)
    BY DEF Touched, kept
  <2>2. kept \in Seq(Lanes)
    BY <1>1
  <2>. QED BY <2>1, <2>2, AppendProperties, ElementsAppend
<1>5. Len(kept) < SSE_BOUND
  <2>1. CASE Known(b)
    <3>1. b \in Elements(order) /\ b \notin W
      BY <2>1 DEF Known
    <3>. QED BY <1>1, <1>2, <3>1
  <2>2. CASE ~Known(b) /\ Len(order) < SSE_BOUND
    BY <1>1, <1>2, <2>2
  <2>3. CASE Crowded(b)
    <3>1. PICK i \in Evictable : TRUE
      BY <2>3 DEF HasRoom
    <3>2. i \in 1..Len(order) /\ order[i] \in Victim(b)
      BY <2>3, <3>1 DEF Victim, Evictable, EvictableInactive, InactiveAt
    <3>. QED BY <1>1, <1>2, <3>2
  <2>. QED BY <1>2, <2>1, <2>2, <2>3 DEF Crowded
<1>. QED BY <1>1, <1>2, <1>3, <1>4, <1>5

\* An evicted lane is empty, the others are as they were.
LEMMA ClearedIs ==
  ASSUME BusAssumption, lane \in [Lanes -> LaneState], NEW b,
         \A l \in Lanes : Window(l, lane[l].replay, log)
  PROVE  /\ Cleared(b) \in [Lanes -> LaneState]
         /\ \A l \in Lanes : /\ Cleared(b)[l] = lane[l] \/ Cleared(b)[l].replay = <<>>
                             /\ Window(l, Cleared(b)[l].replay, log)
<1>1. EmptyLane \in LaneState /\ EmptyLane.replay = <<>>
  BY EmptySeq DEF EmptyLane, LaneState
<1>2. \A l \in Lanes : Cleared(b)[l] = lane[l] \/ Cleared(b)[l] = EmptyLane
  BY DEF Cleared
<1>3. Cleared(b) \in [Lanes -> LaneState]
  BY <1>1 DEF Cleared
<1>4. \A l \in Lanes : Window(l, <<>>, log)
  <2>1. Len(<<>>) = 0 /\ SSE_BOUND \in Nat
    BY DEF BusAssumption
  <2>. QED BY <2>1, LatestEmpty DEF Window
<1>. QED BY <1>1, <1>2, <1>3, <1>4

-----------------------------------------------------------------------------
(* The streams.                                                             *)

\* A sequence of one item, and an item behind two sequences.
LEMMA OneItem ==
  ASSUME NEW S, NEW e \in S
  PROVE  <<e>> \in Seq(S) /\ Elements(<<e>>) = {e} /\ Len(<<e>>) = 1
<1>1. <<e>> \in Seq(S) /\ Len(<<e>>) = 1 /\ <<e>>[1] = e
  OBVIOUS
<1>2. 1..1 = {1}
  OBVIOUS
<1>. QED BY <1>1, <1>2 DEF Elements
LEMMA AppendBehind ==
  ASSUME NEW s \in Seq(Nat), NEW t \in Seq(Nat), NEW e \in Nat
  PROVE  s \o Append(t, e) = Append(s \o t, e)
<1>1. Append(t, e) = t \o <<e>> /\ Append(s \o t, e) = (s \o t) \o <<e>>
  BY AppendIsConcat, ConcatProperties
<1>. QED BY <1>1, OneItem, ConcatAssociative

\* What the generator will yield are numbers, those of the replay and of the queue.
LEMMA ToYieldIs ==
  ASSUME NEW x \in StreamState
  PROVE  /\ x.replay \in Seq(Nat) /\ x.queue \in Seq(Nat) /\ ToYield(x) \in Seq(Nat)
         /\ Elements(ToYield(x)) = Elements(x.replay) \cup Elements(x.queue)
         /\ x.position \in Nat /\ x.lane \in Lanes /\ x.topics \in SUBSET Topics
<1>1. x.replay \in Seq(Nat) /\ x.queue \in Seq(Nat)
  BY DEF StreamState
<1>2. ToYield(x) \in Seq(Nat) /\ Elements(ToYield(x)) = Elements(x.replay) \cup Elements(x.queue)
  BY <1>1, ConcatProperties, ElementsConcat DEF ToYield
<1>. QED BY <1>1, <1>2 DEF StreamState

\* A browser that is away has nothing to come.
LEMMA AwayOK ==
  ASSUME BusAssumption, NEW k \in Cursor, NEW l, Len(l) \in Nat,
         NEW x, x = [Away EXCEPT !.cursor = k]
  PROVE  StreamOK(x, l) /\ ~x.subscribed
<1>1. /\ <<>> \in Seq(Nat) /\ Elements(<<>>) = {} /\ Len(<<>>) = 0
      /\ PublicLane \in Lanes /\ SSE_BOUND \in Nat
  BY EmptySeq, ElementsIn DEF BusAssumption
<1>2. x = [pc |-> "away", lane |-> PublicLane, topics |-> {}, replay |-> <<>>,
           queue |-> <<>>, subscribed |-> FALSE, authority |-> FALSE,
           via |-> "none", position |-> 0, cursor |-> k]
  BY DEF Away
<1>3. x \in StreamState
  <2>1. /\ "away" \in {"away", "replaying", "live"} /\ {} \in SUBSET Topics /\ FALSE \in BOOLEAN
        /\ "none" \in {"none", "start", "window", "floor"} /\ 0 \in Nat
    OBVIOUS
  <2>2. /\ x.pc = "away" /\ x.lane = PublicLane /\ x.topics = {} /\ x.replay = <<>>
        /\ x.queue = <<>> /\ x.subscribed = FALSE /\ x.authority = FALSE
        /\ x.via = "none" /\ x.position = 0 /\ x.cursor = k
    BY <1>2
  <2>3. x = [pc |-> x.pc, lane |-> x.lane, topics |-> x.topics, replay |-> x.replay,
             queue |-> x.queue, subscribed |-> x.subscribed, authority |-> x.authority,
             via |-> x.via, position |-> x.position, cursor |-> x.cursor]
    BY <1>2
  <2>. QED BY <1>1, <2>1, <2>2, <2>3 DEF StreamState
<1>4. x = [Away EXCEPT !.cursor = x.cursor]
  BY <1>2 DEF Away
<1>. QED BY <1>1, <1>2, <1>3, <1>4 DEF StreamOK

\* A subscribed stream is not away.
LEMMA SubscribedIsOpen ==
  ASSUME NEW x, NEW l, StreamOK(x, l), x.subscribed
  PROVE  x.pc # "away"
BY DEF StreamOK, Away

\* An event that is not for a stream, or that finds it unsubscribed.
LEMMA StreamPassed ==
  ASSUME NEW l \in Seq(Event), NEW e \in Event, NEW x, StreamOK(x, l),
         Accepts(x, e) => ~x.subscribed
  PROVE  StreamOK(x, Append(l, e))
<1>. DEFINE longer == Append(l, e)
<1>1. /\ Len(l) \in Nat /\ Len(longer) = Len(l) + 1 /\ \A m \in 0..Len(l) : m \in 0..Len(longer)
      /\ x \in StreamState /\ x.position <= Len(l) /\ x.position \in Nat
  BY LogGrows, ToYieldIs DEF StreamOK
<1>2. CASE Accepts(x, e)
  <2>1. x.pc # "away" => Reset \in Elements(ToYield(x))
    BY <1>2 DEF StreamOK
  <2>2. x.pc = "away" => x.via = "none"
    BY DEF StreamOK, Away
  <2>. QED BY <1>1, <2>1, <2>2 DEF StreamOK
<1>3. CASE ~Accepts(x, e)
  <2>1. Unseen(x, longer) = Unseen(x, l)
    <3>1. ASSUME NEW n \in 1..Len(longer) PROVE n \in Unseen(x, longer) <=> n \in Unseen(x, l)
      <4>1. CASE n \in 1..Len(l)
        BY <1>1, <4>1, LogGrows DEF Unseen
      <4>2. CASE n = Len(l) + 1
        BY <1>1, <1>3, <4>2, LogGrows DEF Unseen
      <4>. QED BY <4>1, <4>2, LogGrows
    <3>2. Unseen(x, l) \subseteq 1..Len(longer) /\ Unseen(x, longer) \subseteq 1..Len(longer)
      BY LogGrows DEF Unseen
    <3>. QED BY <3>1, <3>2
  <2>. QED BY <1>1, <2>1 DEF StreamOK
<1>. QED BY <1>2, <1>3

\* A queue that is replaced by its reset.
LEMMA StreamReset ==
  ASSUME BusAssumption, NEW l, Len(l) \in Nat, NEW x, StreamOK(x, l), x.pc # "away",
         NEW y, y = [x EXCEPT !.queue = <<Reset>>, !.subscribed = FALSE]
  PROVE  StreamOK(y, l) /\ ~y.subscribed
<1>1. x \in StreamState
  BY DEF StreamOK
<1>2. <<Reset>> \in Seq(Nat) /\ Elements(<<Reset>>) = {Reset} /\ Len(<<Reset>>) = 1 /\ Reset = 0
  BY OneItem DEF Reset
<1>3. y \in StreamState
  BY <1>1, <1>2 DEF StreamState
<1>4. /\ y.pc = x.pc /\ y.replay = x.replay /\ y.queue = <<Reset>> /\ y.subscribed = FALSE
      /\ y.position = x.position
  BY <1>1 DEF StreamState
<1>5. Reset \in Elements(ToYield(y))
  BY <1>2, <1>3, <1>4, ToYieldIs
<1>6. 0 \in 0..Len(l) /\ 1 <= SSE_BOUND
  BY DEF BusAssumption
<1>. QED BY <1>2, <1>3, <1>4, <1>5, <1>6 DEF StreamOK

\* An event for a stream is queued, or a full queue is replaced by its reset.
LEMMA StreamOffered ==
  ASSUME BusAssumption, NEW l \in Seq(Event), NEW e \in Event, NEW x, StreamOK(x, l),
         x.subscribed, Accepts(x, e)
  PROVE  /\ StreamOK(Offered(x, Len(l) + 1), Append(l, e))
         /\ Offered(x, Len(l) + 1).lane = x.lane
<1>. DEFINE n == Len(l) + 1
            longer == Append(l, e)
            y == Offered(x, n)
<1>1. /\ Len(l) \in Nat /\ n \in Nat /\ Len(longer) = n /\ x \in StreamState /\ x.pc # "away"
      /\ \A m \in 0..Len(l) : m \in 0..n /\ m < n
  <2>1. x \in StreamState /\ x.pc # "away"
    BY SubscribedIsOpen DEF StreamOK
  <2>2. Len(l) \in Nat /\ Len(longer) = n
    BY LogGrows
  <2>. QED BY <2>1, <2>2
<1>2. CASE Len(x.queue) >= SSE_BOUND
  <2>. DEFINE z == [x EXCEPT !.queue = <<Reset>>, !.subscribed = FALSE]
  <2>1. y = z
    BY <1>2 DEF Offered
  <2>2. StreamOK(z, l) /\ ~z.subscribed /\ z.lane = x.lane
    <3>1. z.lane = x.lane
      BY <1>1 DEF StreamState
    <3>. QED BY <1>1, <3>1, StreamReset
  <2>3. StreamOK(z, longer)
    BY <2>2, StreamPassed
  <2>. QED BY <2>1, <2>2, <2>3
<1>3. CASE ~(Len(x.queue) >= SSE_BOUND)
  <2>. DEFINE z == [x EXCEPT !.queue = Append(@, n)]
  <2>1. y = z
    BY <1>3 DEF Offered
  <2>2. /\ x.queue \in Seq(Nat) /\ x.replay \in Seq(Nat) /\ x.position \in Nat
        /\ Append(x.queue, n) \in Seq(Nat) /\ Len(Append(x.queue, n)) = Len(x.queue) + 1
        /\ Elements(Append(x.queue, n)) = Elements(x.queue) \cup {n} /\ Len(x.queue) \in Nat
    <3>1. x.queue \in Seq(Nat) /\ x.replay \in Seq(Nat) /\ x.position \in Nat /\ n \in Nat
      BY <1>1, ToYieldIs
    <3>. HIDE DEF n, longer, y, z
    <3>2. Append(x.queue, n) \in Seq(Nat) /\ Len(Append(x.queue, n)) = Len(x.queue) + 1
      BY <3>1, AppendProperties
    <3>3. PICK q \in Seq(Nat) : q = x.queue
      BY <3>1
    <3>4. Elements(Append(q, n)) = Elements(q) \cup {n}
      BY <3>1, ElementsAppend
    <3>5. Elements(Append(x.queue, n)) = Elements(x.queue) \cup {n}
      BY <3>3, <3>4
    <3>. QED BY <3>1, <3>2, <3>5, LenProperties
  <2>3. z \in StreamState
    BY <1>1, <2>2 DEF StreamState
  <2>4. /\ z.pc = x.pc /\ z.replay = x.replay /\ z.queue = Append(x.queue, n) /\ z.lane = x.lane
        /\ z.topics = x.topics /\ z.subscribed = x.subscribed /\ z.via = x.via
        /\ z.position = x.position
    BY <1>1 DEF StreamState
  <2>5. ToYield(z) = Append(ToYield(x), n)
    <3>1. x.replay \in Seq(Nat) /\ x.queue \in Seq(Nat) /\ n \in Nat
      BY <1>1, <2>2
    <3>2. ToYield(z) = x.replay \o Append(x.queue, n)
      BY <2>4 DEF ToYield
    <3>. HIDE DEF n, z
    <3>3. x.replay \o Append(x.queue, n) = Append(x.replay \o x.queue, n)
      BY <3>1, AppendBehind
    <3>. QED BY <3>2, <3>3 DEF ToYield
  <2>6. Elements(ToYield(z)) = Elements(ToYield(x)) \cup {n}
    <3>1. ToYield(x) \in Seq(Nat) /\ n \in Nat
      BY <1>1, ToYieldIs
    <3>. HIDE DEF n, z
    <3>. QED BY <2>5, <3>1, ElementsAppend
  <2>7. Unseen(z, longer) = Unseen(x, l) \cup {n}
    <3>1. ASSUME NEW m \in 1..n PROVE m \in Unseen(z, longer) <=> m \in Unseen(x, l) \cup {n}
      <4>1. CASE m \in 1..Len(l)
        <5>1. m # n /\ longer[m] = l[m] /\ m \in 1..Len(longer)
          BY <1>1, <4>1, LogGrows
        <5>. QED BY <2>4, <4>1, <5>1 DEF Unseen, Accepts
      <4>2. CASE m = n
        <5>1. longer[n] = e /\ n \in 1..Len(longer) /\ n > x.position
          BY <1>1, <2>2, LogGrows DEF StreamOK
        <5>. QED BY <2>4, <4>2, <5>1 DEF Unseen, Accepts
      <4>. QED BY <4>1, <4>2, LogGrows
    <3>2. Unseen(z, longer) \subseteq 1..n /\ Unseen(x, l) \cup {n} \subseteq 1..n
      BY <1>1 DEF Unseen
    <3>. QED BY <3>1, <3>2
  <2>8. InOrder(ToYield(x)) => InOrder(ToYield(z))
    <3>1. \A m \in Elements(ToYield(x)) : m < n
      BY <1>1, ToYieldIs DEF StreamOK
    <3>. QED BY <1>1, <2>5, <3>1, ToYieldIs, InOrderAppend
  <2>9. /\ Elements(z.replay) \subseteq 0..Len(longer) /\ Elements(z.queue) \subseteq 0..Len(longer)
        /\ Len(z.queue) <= SSE_BOUND /\ z.position <= Len(longer)
    <3>1. SSE_BOUND \in Nat /\ n \in 0..n
      BY <1>1 DEF BusAssumption
    <3>2. Elements(x.replay) \subseteq 0..Len(l) /\ Elements(x.queue) \subseteq 0..Len(l)
          /\ x.position <= Len(l)
      BY DEF StreamOK
    <3>. QED BY <1>1, <1>3, <2>2, <2>4, <3>1, <3>2
  <2>10. StreamOK(z, longer)
    BY <1>1, <2>3, <2>4, <2>6, <2>7, <2>8, <2>9 DEF StreamOK
  <2>. QED BY <2>1, <2>4, <2>10
<1>. QED BY <1>2, <1>3

\* The generator yields the first event it has: the rest is what is still unseen.
LEMMA StreamYields ==
  ASSUME NEW l, Len(l) \in Nat, NEW x, StreamOK(x, l), x.pc # "away",
         ToYield(x) # <<>>, Head(ToYield(x)) # Reset,
         NEW y \in StreamState, y.pc = x.pc, y.lane = x.lane, y.topics = x.topics,
         y.subscribed = x.subscribed, y.via = x.via, y.position = Head(ToYield(x)),
         ToYield(y) = Tail(ToYield(x)), y.replay = Tail(x.replay) \/ y.replay = x.replay,
         x.pc = "live" => y.replay = x.replay, Len(y.queue) <= SSE_BOUND
  PROVE  StreamOK(y, l)
<1>. DEFINE s == ToYield(x)
            n == Head(s)
<1>1. x \in StreamState /\ s \in Seq(Nat) /\ s # <<>>
  BY ToYieldIs DEF StreamOK
<1>2. /\ Elements(s) = Elements(x.replay) \cup Elements(x.queue)
      /\ Elements(ToYield(y)) = Elements(y.replay) \cup Elements(y.queue)
  BY <1>1, ToYieldIs
<1>3. /\ n \in Nat /\ n \in Elements(s) /\ Elements(s) = {n} \cup Elements(Tail(s))
  BY <1>1, HeadTailProperties, ElementsIn, ElementsTail
<1>4. Elements(s) \subseteq 0..Len(l)
  BY <1>2 DEF StreamOK
<1>5. /\ Elements(y.replay) \subseteq 0..Len(l) /\ Elements(y.queue) \subseteq 0..Len(l)
      /\ y.position <= Len(l)
  BY <1>2, <1>3, <1>4
<1>6. y.pc # "away" /\ ~y.subscribed => Reset \in Elements(ToYield(y))
  BY <1>3 DEF StreamOK
<1>7. CASE Reset \in Elements(s)
  <2>1. Reset \in Elements(ToYield(y))
    BY <1>3, <1>7
  <2>. QED BY <1>5, <2>1 DEF StreamOK
<1>8. CASE Reset \notin Elements(s)
  <2>1. ASSUME x.via \in {"start", "window"}
        PROVE  InOrder(ToYield(y)) /\ Elements(ToYield(y)) = Unseen(y, l)
    <3>1. InOrder(s) /\ Elements(s) = Unseen(x, l)
      BY <1>8, <2>1 DEF StreamOK
    <3>2. InOrder(Tail(s)) /\ \A m \in Elements(Tail(s)) : n < m
      BY <1>1, <3>1, InOrderTail
    <3>3. ASSUME NEW m \in 1..Len(l)
          PROVE  m \in Elements(Tail(s)) <=> m \in Unseen(y, l)
      <4>1. x.position \in Nat /\ y.position = n /\ m \in Nat
        BY <1>1, ToYieldIs
      <4>2. n > x.position
        BY <1>3, <3>1 DEF Unseen
      <4>3. m \in Unseen(y, l) <=> m \in Unseen(x, l) /\ m > n
        BY <1>3, <4>1, <4>2 DEF Unseen, Accepts
      <4>. QED BY <1>3, <3>1, <3>2, <4>1, <4>3
    <3>4. Elements(Tail(s)) \subseteq 1..Len(l) /\ Unseen(y, l) \subseteq 1..Len(l)
      BY <1>3, <3>1 DEF Unseen
    <3>. QED BY <3>2, <3>3, <3>4
  <2>. QED BY <1>5, <1>6, <2>1 DEF StreamOK
<1>. QED BY <1>7, <1>8

\* The first item of two sequences, one behind the other.
LEMMA TailOfConcat ==
  ASSUME NEW s \in Seq(Nat), NEW t \in Seq(Nat), s # <<>>
  PROVE  s \o t # <<>> /\ Head(s \o t) = Head(s) /\ Tail(s \o t) = Tail(s) \o t
<1>1. /\ s \o t \in Seq(Nat) /\ Len(s \o t) = Len(s) + Len(t) /\ Len(s) \in Nat /\ Len(t) \in Nat
      /\ \A i \in 1..(Len(s) + Len(t)) : (s \o t)[i] = IF i <= Len(s) THEN s[i] ELSE t[i - Len(s)]
  BY ConcatProperties, LenProperties
<1>2. Len(s) >= 1 /\ s \o t # <<>>
  BY <1>1, LenProperties, EmptySeq
<1>3. Head(s \o t) = Head(s)
  <2>1. Head(s \o t) = (s \o t)[1] /\ Head(s) = s[1]
    BY <1>1, <1>2, ElementsIn
  <2>. QED BY <1>1, <1>2, <2>1
<1>4. /\ Tail(s) \in Seq(Nat) /\ Len(Tail(s)) = Len(s) - 1
      /\ \A i \in 1..(Len(s) - 1) : Tail(s)[i] = s[i + 1]
  BY HeadTailProperties
<1>5. /\ Tail(s \o t) \in Seq(Nat) /\ Len(Tail(s \o t)) = Len(s) + Len(t) - 1
      /\ \A i \in 1..(Len(s) + Len(t) - 1) : Tail(s \o t)[i] = (s \o t)[i + 1]
  BY <1>1, <1>2, HeadTailProperties
<1>6. /\ Tail(s) \o t \in Seq(Nat) /\ Len(Tail(s) \o t) = Len(s) + Len(t) - 1
      /\ \A i \in 1..(Len(s) - 1 + Len(t)) :
           (Tail(s) \o t)[i] = IF i <= Len(s) - 1 THEN Tail(s)[i] ELSE t[i - (Len(s) - 1)]
  BY <1>1, <1>4, ConcatProperties
<1>7. ASSUME NEW i \in 1..(Len(s) + Len(t) - 1) PROVE Tail(s \o t)[i] = (Tail(s) \o t)[i]
  <2>1. i + 1 \in 1..(Len(s) + Len(t)) /\ i \in 1..(Len(s) - 1 + Len(t)) /\ i \in Nat
    BY <1>1, <1>2
  <2>2. CASE i <= Len(s) - 1
    <3>1. i + 1 <= Len(s) /\ i \in 1..(Len(s) - 1)
      BY <1>1, <2>1, <2>2
    <3>. QED BY <1>1, <1>4, <1>5, <1>6, <2>1, <2>2, <3>1
  <2>3. CASE ~(i <= Len(s) - 1)
    <3>1. ~(i + 1 <= Len(s)) /\ (i + 1) - Len(s) = i - (Len(s) - 1)
      BY <1>1, <2>1, <2>3
    <3>. QED BY <1>1, <1>5, <1>6, <2>1, <2>3, <3>1
  <2>. QED BY <2>2, <2>3
<1>. QED BY <1>2, <1>3, <1>5, <1>6, <1>7, SeqEqual

\* The pages of a stream's state that no delivery depends on.
LEMMA StreamSame ==
  ASSUME NEW l, NEW x, StreamOK(x, l), x.pc # "away",
         NEW y \in StreamState, y.pc # "away", y.pc = "live" => x.replay = <<>>,
         y.lane = x.lane, y.topics = x.topics, y.replay = x.replay, y.queue = x.queue,
         y.subscribed = x.subscribed, y.via = x.via, y.position = x.position
  PROVE  StreamOK(y, l)
<1>1. ToYield(y) = ToYield(x) /\ Unseen(y, l) = Unseen(x, l)
  BY DEF ToYield, Unseen, Accepts
<1>. QED BY <1>1 DEF StreamOK

\* A stream that was just opened has an empty queue.
JustOpened(y) == y \in StreamState /\ y.pc = "replaying" /\ y.queue = <<>>
LEMMA JustOpenedIs ==
  ASSUME BusAssumption, NEW y, JustOpened(y)
  PROVE  /\ y \in StreamState /\ y.pc = "replaying" /\ y.replay \in Seq(Nat)
         /\ ToYield(y) = y.replay /\ Elements(y.queue) = {} /\ Len(y.queue) <= SSE_BOUND
<1>1. <<>> \in Seq(Nat) /\ Len(<<>>) = 0 /\ Elements(<<>>) = {} /\ SSE_BOUND \in Nat
  BY EmptySeq, ElementsIn DEF BusAssumption
<1>2. y.replay \in Seq(Nat)
  BY DEF JustOpened, StreamState
<1>3. ToYield(y) = y.replay
  BY <1>2, ConcatEmptySeq DEF ToYield, JustOpened
<1>. QED BY <1>1, <1>2, <1>3 DEF JustOpened

\* Without a cursor nothing is unseen yet.
LEMMA OpenedAtEnd ==
  ASSUME BusAssumption, NEW l, Len(l) \in Nat, NEW y, JustOpened(y),
         y.replay = <<>>, y.subscribed, y.position = Len(l)
  PROVE  StreamOK(y, l)
<1>1. Elements(<<>>) = {} /\ InOrder(<<>>)
  <2>1. Elements(<<>>) = {} /\ Len(<<>>) = 0
    BY ElementsIn, EmptySeq
  <2>2. 1..0 = {}
    OBVIOUS
  <2>. QED BY <2>1, <2>2 DEF InOrder
<1>2. Unseen(y, l) = {}
  BY DEF Unseen
<1>3. /\ y \in StreamState /\ y.pc = "replaying" /\ ToYield(y) = y.replay
      /\ Elements(y.queue) = {} /\ Len(y.queue) <= SSE_BOUND
  BY JustOpenedIs
<1>. QED BY <1>1, <1>2, <1>3 DEF StreamOK

\* With a cursor that its lane does not know, the reset is to come.
LEMMA OpenedReset ==
  ASSUME BusAssumption, NEW l, Len(l) \in Nat, NEW y, JustOpened(y),
         y.replay = <<Reset>>, y.position = 0
  PROVE  StreamOK(y, l)
<1>0. /\ y \in StreamState /\ y.pc = "replaying" /\ ToYield(y) = y.replay
      /\ Elements(y.queue) = {} /\ Len(y.queue) <= SSE_BOUND
  BY JustOpenedIs
<1>1. <<Reset>> \in Seq(Nat) /\ Elements(<<Reset>>) = {Reset} /\ Reset \in 0..Len(l)
  <2>1. \A n \in Nat : <<n>> \in Seq(Nat) /\ Elements(<<n>>) = {n}
    BY OneItem
  <2>2. Reset \in Nat /\ Reset \in 0..Len(l)
    BY DEF Reset
  <2>. QED BY <2>1, <2>2
<1>. QED BY <1>0, <1>1 DEF StreamOK

\* With a cursor in the replay of its lane, what is still unseen is replayed; with the
\* resume floor nothing is claimed but the range of the numbers.
LEMMA OpenedAtCursor ==
  ASSUME BusAssumption, log \in Seq(Event), sequence = Len(log),
         NEW k \in Nat, k <= sequence, NEW y, JustOpened(y),
         NEW replay \in Seq(Nat), Window(y.lane, replay, log),
         y.replay = After(replay, k, y.topics), y.subscribed, y.position <= k,
         y.via \in {"window", "floor"},
         y.via = "window" => k \in Elements(replay) /\ y.position = k
  PROVE  StreamOK(y, log)
<1>1. Len(log) \in Nat /\ InOrder(replay)
  BY LenProperties DEF Window, Latest
<1>2. Elements(y.replay) =
        Elements(replay) \cap {n \in 1..sequence : n > k /\ Wants(y.topics, n)}
  BY OnlyKeeps DEF After
<1>3. InOrder(y.replay)
  BY <1>1, OnlyInOrder DEF After
<1>4. y.position \in Nat
  BY JustOpenedIs, ToYieldIs
<1>5. Elements(y.replay) \subseteq 0..Len(log) /\ y.position <= Len(log)
  BY <1>1, <1>2, <1>4
<1>6. ASSUME y.via = "window" PROVE Elements(y.replay) = Unseen(y, log)
  <2>1. ASSUME NEW n \in 1..Len(log) PROVE n \in Elements(y.replay) <=> n \in Unseen(y, log)
    <3>1. n \in Elements(y.replay) <=> n \in Elements(replay) /\ n > k /\ Wants(y.topics, n)
      BY <1>2
    <3>2. n > k => (n \in Elements(replay) <=> log[n].lane = y.lane)
      BY <1>6 DEF Window, Latest
    <3>3. n \in Unseen(y, log) <=> n > k /\ log[n].lane = y.lane /\ Wants(y.topics, n)
      BY <1>6 DEF Unseen, Accepts, Wants
    <3>. QED BY <3>1, <3>2, <3>3
  <2>2. Elements(y.replay) \subseteq 1..Len(log) /\ Unseen(y, log) \subseteq 1..Len(log)
    BY <1>2 DEF Unseen
  <2>. QED BY <2>1, <2>2
<1>. QED BY <1>3, <1>5, <1>6, JustOpenedIs DEF StreamOK

-----------------------------------------------------------------------------
(* The legacy pages.                                                        *)

LEMMA SilentOK ==
  ASSUME BusAssumption, NEW l, Len(l) \in Nat
  PROVE  PageOK(Silent, l)
<1>1. <<>> \in Seq(Nat) /\ Len(<<>>) = 0 /\ SSE_BOUND \in Nat
  BY EmptySeq DEF BusAssumption
<1>. QED BY <1>1 DEF PageOK, PageState, Silent

\* A page that subscribes now has no public event to hear of.
LEMMA PageSubscribes ==
  ASSUME BusAssumption, NEW l, Len(l) \in Nat,
         NEW y, y = [Silent EXCEPT !.on = TRUE, !.since = Len(l)]
  PROVE  PageOK(y, l)
<1>1. <<>> \in Seq(Nat) /\ Len(<<>>) = 0 /\ SSE_BOUND \in Nat
  BY EmptySeq DEF BusAssumption
<1>2. y \in PageState /\ y.queue = <<>> /\ y.since = Len(l) /\ y.on
  BY <1>1 DEF Silent, PageState
<1>3. Public(y.since, l) = {}
  BY <1>2 DEF Public
<1>. QED BY <1>1, <1>2, <1>3 DEF PageOK, HearsLatest

\* An event that is not public, or for a page that is not there.
LEMMA PagePassed ==
  ASSUME NEW l \in Seq(Event), NEW e \in Event, NEW x, PageOK(x, l),
         e.lane = PublicLane => ~x.on
  PROVE  PageOK(x, Append(l, e))
<1>. DEFINE longer == Append(l, e)
<1>1. Len(l) \in Nat /\ Len(longer) = Len(l) + 1 /\ x \in PageState /\ x.since <= Len(l)
      /\ x.since \in Nat
  BY LogGrows DEF PageOK, PageState
<1>2. CASE x.on
  <2>1. Public(x.since, longer) = Public(x.since, l)
    <3>1. ASSUME NEW n \in 1..Len(longer)
          PROVE  n \in Public(x.since, longer) <=> n \in Public(x.since, l)
      <4>1. CASE n \in 1..Len(l)
        BY <1>1, <4>1, LogGrows DEF Public
      <4>2. CASE n = Len(l) + 1
        BY <1>1, <1>2, <4>2, LogGrows DEF Public
      <4>. QED BY <4>1, <4>2, LogGrows
    <3>2. Public(x.since, l) \subseteq 1..Len(longer) /\ Public(x.since, longer) \subseteq 1..Len(longer)
      BY LogGrows DEF Public
    <3>. QED BY <3>1, <3>2
  <2>. QED BY <1>1, <1>2, <2>1 DEF PageOK
<1>3. CASE ~x.on
  BY <1>1, <1>3 DEF PageOK
<1>. QED BY <1>2, <1>3

\* A public event goes behind the queue, whose oldest message makes room.
LEMMA PagePushed ==
  ASSUME BusAssumption, NEW l \in Seq(Event), NEW e \in Event, NEW x, PageOK(x, l), x.on,
         e.lane = PublicLane, NEW y, y = [x EXCEPT !.queue = Pushed(@, Len(l) + 1)]
  PROVE  PageOK(y, Append(l, e)) /\ y.on
<1>. DEFINE n == Len(l) + 1
            longer == Append(l, e)
            q == x.queue
            p == Pushed(q, n)
<1>1. /\ Len(l) \in Nat /\ n \in Nat /\ Len(longer) = n /\ x \in PageState /\ x.since <= Len(l)
      /\ x.since \in Nat /\ q \in Seq(Nat) /\ Len(q) <= SSE_BOUND /\ Len(q) \in Nat
      /\ SSE_BOUND \in Nat /\ SSE_BOUND > 0
  BY LogGrows, LenProperties DEF PageOK, PageState, BusAssumption
<1>2. p \in Seq(Nat) /\ Len(p) <= SSE_BOUND /\ p # <<>> /\ p[Len(p)] = n
  <2>. DEFINE r == IF Len(q) >= SSE_BOUND THEN Tail(q) ELSE q
  <2>1. r \in Seq(Nat) /\ Len(r) < SSE_BOUND /\ Len(r) \in Nat
    <3>1. CASE Len(q) >= SSE_BOUND
      <4>1. q # <<>>
        BY <1>1, <3>1
      <4>2. Tail(q) \in Seq(Nat) /\ Len(Tail(q)) = Len(q) - 1
        BY <1>1, <4>1, HeadTailProperties
      <4>. QED BY <1>1, <3>1, <4>2
    <3>2. CASE ~(Len(q) >= SSE_BOUND)
      BY <1>1, <3>2
    <3>. QED BY <3>1, <3>2
  <2>2. p = Append(r, n)
    BY DEF Pushed
  <2>. HIDE DEF r, p, n
  <2>3. Append(r, n) \in Seq(Nat) /\ Len(Append(r, n)) = Len(r) + 1
        /\ Append(r, n)[Len(r) + 1] = n /\ Append(r, n) # <<>>
    <3>1. r \in Seq(Nat) /\ n \in Nat
      BY <1>1, <2>1
    <3>. QED BY <3>1, AppendProperties
  <2>. QED BY <1>1, <2>1, <2>2, <2>3
<1>3. /\ y \in PageState /\ y.on /\ y.queue = p /\ y.since = x.since
  BY <1>1, <1>2 DEF PageState
<1>4. n \in Public(y.since, longer) /\ \A m \in Public(y.since, longer) : m <= n
  BY <1>1, <1>3, LogGrows DEF Public
<1>5. y.queue # <<>> /\ y.queue[Len(y.queue)] = n /\ Len(y.queue) <= SSE_BOUND
  BY <1>2, <1>3
<1>6. y.since <= Len(longer)
  BY <1>1, <1>3
<1>. QED BY <1>3, <1>4, <1>5, <1>6 DEF PageOK, HearsLatest

\* A page hears the first message; the last one is heard or still queued.
LEMMA PageReceives ==
  ASSUME NEW l, NEW x, PageOK(x, l), x.on, x.queue # <<>>, SSE_BOUND \in Nat,
         NEW y, y = [x EXCEPT !.heard = Head(x.queue), !.queue = Tail(@)]
  PROVE  PageOK(y, l)
<1>. DEFINE q == x.queue
<1>1. x \in PageState /\ q \in Seq(Nat) /\ Len(q) <= SSE_BOUND /\ x.since <= Len(l)
  BY DEF PageOK, PageState
<1>2. /\ Head(q) \in Nat /\ Tail(q) \in Seq(Nat) /\ Len(Tail(q)) = Len(q) - 1 /\ Head(q) = q[1]
      /\ \A i \in 1..Len(Tail(q)) : Tail(q)[i] = q[i + 1]
      /\ Len(q) \in Nat /\ Len(q) >= 1
  BY <1>1, HeadTailProperties, ElementsIn, LenProperties
<1>3. /\ y \in PageState /\ y.on /\ y.queue = Tail(q) /\ y.heard = Head(q) /\ y.since = x.since
  BY <1>1, <1>2 DEF PageState
<1>4. IF Tail(q) = <<>> THEN Head(q) = q[Len(q)] ELSE Tail(q)[Len(Tail(q))] = q[Len(q)]
  <2>1. CASE Tail(q) = <<>>
    <3>1. Len(Tail(q)) = 0
      <4>1. Len(Tail(q)) = Len(<<>>)
        BY <2>1, Zenon
      <4>. QED BY <4>1
    <3>2. Len(q) = 1
      BY <1>2, <3>1
    <3>. QED BY <1>2, <2>1, <3>2
  <2>2. CASE Tail(q) # <<>>
    <3>1. Len(q) - 1 \in 1..Len(Tail(q)) /\ (Len(q) - 1) + 1 = Len(q)
      BY <1>2, <2>2, LenProperties, EmptySeq
    <3>. QED BY <1>2, <2>2, <3>1
  <2>. QED BY <2>1, <2>2
<1>5. ASSUME Public(x.since, l) # {}
      PROVE  \E n \in Public(x.since, l) :
               /\ \A m \in Public(x.since, l) : m <= n
               /\ IF Tail(q) = <<>> THEN Head(q) = n ELSE Tail(q)[Len(Tail(q))] = n
  <2>1. PICK n \in Public(x.since, l) :
          (\A m \in Public(x.since, l) : m <= n) /\ q[Len(q)] = n
    BY <1>5 DEF PageOK, HearsLatest
  <2>. QED BY <1>4, <2>1
<1>6. Len(Tail(q)) <= SSE_BOUND
  BY <1>1, <1>2
<1>. QED BY <1>1, <1>3, <1>5, <1>6 DEF PageOK, HearsLatest

-----------------------------------------------------------------------------
(* The steps of one stream.                                                 *)

\* The invariant of one stream is enough for a step that changes only it.
LEMMA ClientStep ==
  ASSUME BusAssumption, BusInv, NEW c \in Clients, NEW y, OnlyClient(c, y),
         StreamOK(y, log), y.subscribed => client[c].subscribed /\ y.lane = client[c].lane
  PROVE  BusInv'
<1>1. /\ client' = [client EXCEPT ![c] = y] /\ client \in [Clients -> StreamState]
      /\ UNCHANGED <<epoch, sequence, order, lane, legacy, log>> /\ y \in StreamState
  BY DEF OnlyClient, BusInv, BusTypes, StreamOK
<1>2. \A d \in Clients : client'[d] = IF d = c THEN y ELSE client[d]
  BY <1>1
<1>3. client' \in [Clients -> StreamState]
  BY <1>1
<1>4. SubscriberCount' <= SSE_BOUND
  BY <1>1, <1>2, CountKept DEF BusInv, BusTypes
<1>5. \A d \in Clients : StreamOK(client'[d], log)
  BY <1>2 DEF BusInv
<1>6. \A d \in Clients : client'[d].subscribed => client'[d].lane \in Elements(order)
  BY <1>2 DEF BusInv, Known
<1>7. BusTypes'
  BY <1>1, <1>3, <1>4 DEF BusInv, BusTypes, ReplaySize
<1>8. (\A d \in Clients : client[d].subscribed => Known(client[d].lane))'
  BY <1>1, <1>6 DEF Known
<1>. QED BY <1>1, <1>5, <1>7, <1>8 DEF BusInv

\* A browser with a cursor, and one without.
LEMMA EndedOK ==
  ASSUME BusAssumption, BusInv, NEW c \in Clients
  PROVE  /\ StreamOK(Ended(c), log) /\ ~Ended(c).subscribed
         /\ StreamOK(Away, log) /\ ~Away.subscribed
<1>1. client[c].cursor \in Cursor /\ Len(log) \in Nat
  BY LenProperties DEF BusInv, BusTypes, StreamState
<1>2. NoCursor \in Cursor
  BY DEF NoCursor, Cursor, BusAssumption
<1>3. Away = [Away EXCEPT !.cursor = NoCursor]
  <2>1. PICK x : x = [Away EXCEPT !.cursor = NoCursor]
    OBVIOUS
  <2>2. x = [pc |-> "away", lane |-> PublicLane, topics |-> {}, replay |-> <<>>,
             queue |-> <<>>, subscribed |-> FALSE, authority |-> FALSE,
             via |-> "none", position |-> 0, cursor |-> NoCursor]
    BY <2>1 DEF Away
  <2>. QED BY <2>1, <2>2 DEF Away
<1>4. StreamOK(Ended(c), log) /\ ~Ended(c).subscribed
  BY <1>1, AwayOK DEF Ended
<1>. QED BY <1>1, <1>2, <1>3, <1>4, AwayOK

\* The facts about an open stream that its steps use.
LEMMA OpenStream ==
  ASSUME BusAssumption, BusInv, NEW c \in Clients
  PROVE  /\ StreamOK(client[c], log) /\ client[c] \in StreamState /\ Len(log) \in Nat
         /\ epoch \in Nat /\ SSE_BOUND \in Nat
         /\ client[c].replay \in Seq(Nat) /\ client[c].queue \in Seq(Nat)
         /\ ToYield(client[c]) \in Seq(Nat)
<1>1. client[c] \in StreamState
  BY DEF BusInv, BusTypes
<1>. QED BY <1>1, ToYieldIs, LenProperties DEF BusInv, BusTypes, BusAssumption

LEMMA ReplayFrameStep ==
  ASSUME BusAssumption, BusInv, NEW c \in Clients, ReplayFrame(c)
  PROVE  BusInv'
<1>. DEFINE x == client[c]
            n == Head(x.replay)
            y == [Framed(c, n) EXCEPT !.replay = Tail(@)]
<1>1. CASE n = Reset
  <2>1. OnlyClient(c, Away)
    BY <1>1 DEF ReplayFrame, Told
  <2>. QED BY <2>1, EndedOK, ClientStep
<1>2. CASE n # Reset
  <2>1. OnlyClient(c, y) /\ x.pc = "replaying" /\ x.replay # <<>>
    BY <1>2 DEF ReplayFrame
  <2>2. /\ StreamOK(x, log) /\ x \in StreamState /\ Len(log) \in Nat /\ epoch \in Nat
        /\ x.replay \in Seq(Nat) /\ x.queue \in Seq(Nat)
    BY OpenStream
  <2>3. n \in Nat /\ Tail(x.replay) \in Seq(Nat)
    BY <2>1, <2>2, HeadTailProperties
  <2>4. [epoch |-> epoch, lane |-> x.lane, seq |-> n] \in Cursor
    BY <2>2, <2>3 DEF Cursor, StreamState
  <2>. HIDE DEF n
  <2>5. /\ y \in StreamState /\ y.pc = x.pc /\ y.lane = x.lane /\ y.topics = x.topics
        /\ y.subscribed = x.subscribed /\ y.via = x.via /\ y.position = n
        /\ y.replay = Tail(x.replay) /\ y.queue = x.queue
    BY <2>2, <2>3, <2>4 DEF Framed, StreamState
  <2>6. /\ ToYield(x) # <<>> /\ Head(ToYield(x)) = n /\ ToYield(y) = Tail(ToYield(x))
    BY <2>1, <2>2, <2>5, TailOfConcat DEF ToYield, n
  <2>7. Len(y.queue) <= SSE_BOUND
    BY <2>2, <2>5 DEF StreamOK
  <2>. HIDE DEF x, y
  <2>8. StreamOK(y, log)
    BY <1>2, <2>1, <2>2, <2>5, <2>6, <2>7, StreamYields
  <2>9. y.subscribed => client[c].subscribed /\ y.lane = client[c].lane
    BY <2>5 DEF x
  <2>. QED BY <2>1, <2>8, <2>9, ClientStep
<1>. QED BY <1>1, <1>2

LEMMA LiveFrameStep ==
  ASSUME BusAssumption, BusInv, NEW c \in Clients, LiveFrame(c)
  PROVE  BusInv'
<1>. DEFINE x == client[c]
            n == Head(x.queue)
            y == [Framed(c, n) EXCEPT !.queue = Tail(@)]
<1>1. CASE n = Reset
  <2>1. OnlyClient(c, Away)
    BY <1>1 DEF LiveFrame, Told
  <2>. QED BY <2>1, EndedOK, ClientStep
<1>2. CASE n # Reset
  <2>1. OnlyClient(c, y) /\ x.pc = "live" /\ x.queue # <<>>
    BY <1>2 DEF LiveFrame
  <2>2. /\ StreamOK(x, log) /\ x \in StreamState /\ Len(log) \in Nat /\ epoch \in Nat
        /\ x.replay \in Seq(Nat) /\ x.queue \in Seq(Nat) /\ SSE_BOUND \in Nat
    BY OpenStream
  <2>3. /\ n \in Nat /\ Tail(x.queue) \in Seq(Nat) /\ Len(Tail(x.queue)) = Len(x.queue) - 1
        /\ Len(x.queue) \in Nat
    BY <2>1, <2>2, HeadTailProperties, LenProperties
  <2>4. [epoch |-> epoch, lane |-> x.lane, seq |-> n] \in Cursor
    BY <2>2, <2>3 DEF Cursor, StreamState
  <2>. HIDE DEF n
  <2>5. /\ y \in StreamState /\ y.pc = x.pc /\ y.lane = x.lane /\ y.topics = x.topics
        /\ y.subscribed = x.subscribed /\ y.via = x.via /\ y.position = n
        /\ y.replay = x.replay /\ y.queue = Tail(x.queue)
    BY <2>2, <2>3, <2>4 DEF Framed, StreamState
  <2>6. x.replay = <<>>
    BY <2>1, <2>2 DEF StreamOK
  <2>7. ToYield(x) = x.queue /\ ToYield(y) = Tail(x.queue)
    BY <2>2, <2>3, <2>5, <2>6, ConcatEmptySeq DEF ToYield
  <2>8. Len(y.queue) <= SSE_BOUND
    <3>1. Len(x.queue) <= SSE_BOUND
      BY <2>2 DEF StreamOK
    <3>2. Len(Tail(x.queue)) <= SSE_BOUND
      BY <2>2, <2>3, <3>1
    <3>. QED BY <2>5, <3>2, Zenon
  <2>9. ToYield(x) # <<>> /\ Head(ToYield(x)) = n /\ ToYield(y) = Tail(ToYield(x))
    BY <2>1, <2>7 DEF n
  <2>. HIDE DEF x, y
  <2>10. StreamOK(y, log)
    BY <1>2, <2>1, <2>2, <2>5, <2>8, <2>9, StreamYields
  <2>11. y.subscribed => client[c].subscribed /\ y.lane = client[c].lane
    BY <2>5 DEF x
  <2>. QED BY <2>1, <2>10, <2>11, ClientStep
<1>. QED BY <1>1, <1>2

\* The other steps of a stream: it goes live, its authority is lost, it ends.
LEMMA QuietSteps ==
  ASSUME BusAssumption, BusInv, NEW c \in Clients,
         GoLive(c) \/ AuthorityReset(c) \/ Disconnect(c) \/ LoseAuthority(c) \/ Forget(c)
  PROVE  BusInv'
<1>1. ASSUME GoLive(c) PROVE BusInv'
  <2>. DEFINE y == [client[c] EXCEPT !.pc = "live"]
  <2>1. OnlyClient(c, y) /\ client[c].pc = "replaying" /\ client[c].replay = <<>>
    BY <1>1 DEF GoLive
  <2>2. /\ y \in StreamState /\ y.pc = "live" /\ y.lane = client[c].lane
        /\ y.topics = client[c].topics /\ y.replay = client[c].replay
        /\ y.queue = client[c].queue /\ y.subscribed = client[c].subscribed
        /\ y.via = client[c].via /\ y.position = client[c].position
    BY OpenStream DEF StreamState
  <2>. HIDE DEF y
  <2>3. StreamOK(y, log)
    BY <2>1, <2>2, OpenStream, StreamSame
  <2>. QED BY <2>1, <2>2, <2>3, ClientStep
<1>2. ASSUME LoseAuthority(c) PROVE BusInv'
  <2>. DEFINE y == [client[c] EXCEPT !.authority = FALSE]
  <2>1. OnlyClient(c, y) /\ client[c].pc # "away"
    <3>1. client[c].pc = "away" => ~client[c].authority
      BY OpenStream DEF StreamOK, Away
    <3>. QED BY <1>2, <3>1 DEF LoseAuthority
  <2>2. /\ y \in StreamState /\ y.pc = client[c].pc /\ y.lane = client[c].lane
        /\ y.topics = client[c].topics /\ y.replay = client[c].replay
        /\ y.queue = client[c].queue /\ y.subscribed = client[c].subscribed
        /\ y.via = client[c].via /\ y.position = client[c].position
    BY OpenStream DEF StreamState
  <2>3. client[c].pc = "live" => client[c].replay = <<>>
    BY OpenStream DEF StreamOK
  <2>. HIDE DEF y
  <2>4. StreamOK(y, log)
    BY <2>1, <2>2, <2>3, OpenStream, StreamSame
  <2>. QED BY <2>1, <2>2, <2>4, ClientStep
<1>3. ASSUME AuthorityReset(c) \/ Forget(c) PROVE BusInv'
  <2>1. OnlyClient(c, Away)
    BY <1>3 DEF AuthorityReset, Forget, Told
  <2>. QED BY <2>1, EndedOK, ClientStep
<1>4. ASSUME Disconnect(c) PROVE BusInv'
  <2>1. OnlyClient(c, Ended(c))
    BY <1>4 DEF Disconnect
  <2>. QED BY <2>1, EndedOK, ClientStep
<1>. QED BY <1>1, <1>2, <1>3, <1>4

-----------------------------------------------------------------------------
(* Opening a stream.                                                        *)

\* The record of a subscription, before it is given where its stream begins.
Fresh(s, b, topics) ==
  /\ s \in StreamState /\ s.pc = "replaying" /\ s.lane = b /\ s.topics = topics
  /\ s.replay = <<>> /\ s.queue = <<>> /\ s.position = 0 /\ s.subscribed
LEMMA SubscriptionIs ==
  ASSUME BusAssumption, BusInv, NEW c \in Clients, NEW b \in Lanes, NEW topics \in Filters
  PROVE  Fresh(Subscription(c, b, topics), b, topics)
<1>1. /\ client[c].cursor \in Cursor /\ topics \in SUBSET Topics /\ <<>> \in Seq(Nat)
  BY EmptySeq DEF BusInv, BusTypes, StreamState, BusAssumption
<1>2. PICK s : s = Subscription(c, b, topics)
  OBVIOUS
<1>3. s = [pc |-> "replaying", lane |-> b, topics |-> topics, replay |-> <<>>,
           queue |-> <<>>, subscribed |-> TRUE, authority |-> TRUE,
           via |-> "none", position |-> 0, cursor |-> client[c].cursor]
  BY <1>2 DEF Subscription, Away
<1>4. /\ s.pc = "replaying" /\ s.lane = b /\ s.topics = topics /\ s.replay = <<>>
      /\ s.queue = <<>> /\ s.subscribed = TRUE /\ s.authority = TRUE
      /\ s.via = "none" /\ s.position = 0 /\ s.cursor = client[c].cursor
  BY <1>3
<1>5. s = [pc |-> s.pc, lane |-> s.lane, topics |-> s.topics, replay |-> s.replay,
           queue |-> s.queue, subscribed |-> s.subscribed, authority |-> s.authority,
           via |-> s.via, position |-> s.position, cursor |-> s.cursor]
  BY <1>3
<1>6. s \in StreamState
  <2>1. /\ "replaying" \in {"away", "replaying", "live"} /\ TRUE \in BOOLEAN
        /\ "none" \in {"none", "start", "window", "floor"} /\ 0 \in Nat
    OBVIOUS
  <2>. QED BY <1>1, <1>4, <1>5, <2>1 DEF StreamState
<1>. QED BY <1>2, <1>4, <1>6 DEF Fresh

\* A stream that begins now.
AtEnd(s, end) == [s EXCEPT !.via = "start", !.position = end]
LEMMA StartsAtEnd ==
  ASSUME BusAssumption, NEW l, Len(l) \in Nat, NEW b, NEW topics, NEW s, Fresh(s, b, topics),
         NEW y, y = AtEnd(s, Len(l))
  PROVE  StreamOK(y, l) /\ y.lane = b
<1>1. /\ y \in StreamState /\ y.pc = "replaying" /\ y.queue = <<>> /\ y.replay = <<>>
      /\ y.position = Len(l) /\ y.subscribed = s.subscribed /\ y.lane = b
  BY DEF Fresh, StreamState, AtEnd
<1>2. JustOpened(y) /\ y.subscribed
  BY <1>1 DEF Fresh, JustOpened
<1>. QED BY <1>1, <1>2, OpenedAtEnd

\* A stream whose cursor its lane does not know.
LEMMA StartsWithReset ==
  ASSUME BusAssumption, NEW l, Len(l) \in Nat, NEW b, NEW topics, NEW s, Fresh(s, b, topics),
         NEW y, y = [s EXCEPT !.replay = <<Reset>>, !.subscribed = FALSE]
  PROVE  StreamOK(y, l) /\ ~y.subscribed
<1>1. <<Reset>> \in Seq(Nat)
  <2>1. \A n \in Nat : <<n>> \in Seq(Nat)
    BY OneItem
  <2>. QED BY <2>1 DEF Reset
<1>2. /\ y \in StreamState /\ y.pc = "replaying" /\ y.queue = <<>> /\ y.replay = <<Reset>>
      /\ y.position = 0 /\ y.subscribed = FALSE
  BY <1>1 DEF Fresh, StreamState
<1>3. JustOpened(y)
  BY <1>2 DEF JustOpened
<1>. QED BY <1>2, <1>3, OpenedReset

\* A stream that resumes where its lane knows it was.
AtCursor(s, replay, via, k) == [s EXCEPT !.replay = replay, !.via = via, !.position = k]
LEMMA StartsAtCursor ==
  ASSUME BusAssumption, log \in Seq(Event), sequence = Len(log),
         NEW b, NEW topics, NEW s, Fresh(s, b, topics),
         NEW replay \in Seq(Nat), Window(b, replay, log), NEW k \in Nat, k <= sequence,
         NEW via \in {"window", "floor"}, via = "window" => k \in Elements(replay),
         NEW y, y = AtCursor(s, After(replay, k, topics), via, k)
  PROVE  StreamOK(y, log) /\ y.lane = b
<1>1. After(replay, k, topics) \in Seq(Nat)
  BY OnlyKeeps DEF After
<1>2. /\ y \in StreamState /\ y.pc = "replaying" /\ y.queue = <<>>
      /\ y.replay = After(replay, k, topics) /\ y.position = k /\ y.via = via
      /\ y.subscribed = s.subscribed /\ y.lane = b /\ y.topics = topics
  BY <1>1 DEF Fresh, StreamState, AtCursor
<1>3. JustOpened(y) /\ y.subscribed
  BY <1>2 DEF Fresh, JustOpened
<1>4. y.position <= k
  BY <1>2
<1>. QED BY <1>2, <1>3, <1>4, OpenedAtCursor

\* What open_stream leaves: a stream that is in order, subscribed only below the bound.
LEMMA OpenIs ==
  ASSUME BusAssumption, BusInv, NEW c \in Clients, NEW b \in Lanes, NEW topics \in Filters,
         Open(c, b, topics)
  PROVE  \E y : /\ client' = [client EXCEPT ![c] = y] /\ StreamOK(y, log)
                /\ y.subscribed => y.lane = b /\ SubscriberCount < SSE_BOUND
<1>. DEFINE lanes == Cleared(b)
            cursor == client[c].cursor
<1>1. /\ log \in Seq(Event) /\ Len(log) \in Nat /\ sequence = Len(log)
      /\ lane \in [Lanes -> LaneState] /\ client \in [Clients -> StreamState]
      /\ SubscriberCount \in Nat /\ SSE_BOUND \in Nat
  BY LenProperties, CountIs DEF BusInv, BusTypes, BusAssumption
<1>2. PICK s : s = Subscription(c, b, topics)
  OBVIOUS
<1>3. Fresh(s, b, topics)
  BY <1>2, SubscriptionIs
<1>4. StreamOK(client[c], log)
  BY DEF BusInv
<1>5. ASSUME SubscriberCount < SSE_BOUND, OpenAtEnd(c, b, topics)
      PROVE  \E y : /\ client' = [client EXCEPT ![c] = y] /\ StreamOK(y, log)
                    /\ y.subscribed => y.lane = b /\ SubscriberCount < SSE_BOUND
  <2>1. PICK y : y = AtEnd(s, Len(log))
    OBVIOUS
  <2>2. client' = [client EXCEPT ![c] = y]
    BY <1>1, <1>2, <1>5, <2>1 DEF OpenAtEnd, AtEnd
  <2>3. StreamOK(y, log) /\ y.lane = b
    BY <1>1, <1>3, <2>1, StartsAtEnd
  <2>. QED BY <1>5, <2>2, <2>3
<1>6. ASSUME OpenReset(c, b, topics)
      PROVE  \E y : /\ client' = [client EXCEPT ![c] = y] /\ StreamOK(y, log)
                    /\ y.subscribed => y.lane = b /\ SubscriberCount < SSE_BOUND
  <2>1. PICK y : y = [s EXCEPT !.replay = <<Reset>>, !.subscribed = FALSE]
    OBVIOUS
  <2>2. client' = [client EXCEPT ![c] = y]
    BY <1>2, <1>6, <2>1 DEF OpenReset
  <2>3. StreamOK(y, log) /\ ~y.subscribed
    BY <1>1, <1>3, <2>1, StartsWithReset
  <2>. QED BY <2>2, <2>3
<1>7. ASSUME SubscriberCount < SSE_BOUND, CursorKnown(cursor, b, lanes),
             OpenAtCursor(c, b, topics, cursor, lanes)
      PROVE  \E y : /\ client' = [client EXCEPT ![c] = y] /\ StreamOK(y, log)
                    /\ y.subscribed => y.lane = b /\ SubscriberCount < SSE_BOUND
  <2>1. lanes \in [Lanes -> LaneState] /\ Window(b, lanes[b].replay, log)
    BY <1>1, ClearedIs DEF BusInv
  <2>. HIDE DEF lanes
  <2>2. PICK replay \in Seq(Nat) : replay = lanes[b].replay
    BY <2>1 DEF LaneState
  <2>3. PICK k \in Nat : k = cursor.seq
    BY <1>1 DEF StreamState, Cursor
  <2>4. k <= sequence /\ SeenUpTo(cursor, b) = k
    BY <1>7, <2>3 DEF CursorKnown, SeenUpTo
  <2>5. PICK via \in {"window", "floor"} :
          via = (IF k \in Elements(replay) THEN "window" ELSE "floor")
    OBVIOUS
  <2>6. via = "window" => k \in Elements(replay)
    BY <2>5
  <2>7. PICK y : y = AtCursor(s, After(replay, k, topics), via, k)
    OBVIOUS
  <2>8. client' = [client EXCEPT ![c] = y]
    <3>1. client' = [client EXCEPT ![c] =
                       [s EXCEPT !.replay = After(replay, k, topics), !.via = via,
                                 !.position = k]]
      BY <1>2, <1>7, <2>2, <2>3, <2>4, <2>5 DEF OpenAtCursor
    <3>. QED BY <2>7, <3>1 DEF AtCursor
  <2>9. StreamOK(y, log) /\ y.lane = b
    BY <1>1, <1>3, <2>1, <2>2, <2>4, <2>6, <2>7, StartsAtCursor
  <2>. QED BY <1>7, <2>8, <2>9
<1>8. ASSUME client[c].pc = "away", UNCHANGED client
      PROVE  \E y : /\ client' = [client EXCEPT ![c] = y] /\ StreamOK(y, log)
                    /\ y.subscribed => y.lane = b /\ SubscriberCount < SSE_BOUND
  <2>1. client' = [client EXCEPT ![c] = client[c]]
    BY <1>1, <1>8
  <2>2. ~client[c].subscribed
    BY <1>4, <1>8, SubscribedIsOpen
  <2>. QED BY <1>4, <2>1, <2>2
<1>. HIDE DEF lanes, cursor
<1>9. /\ client[c].pc = "away"
      /\ \/ ~(SubscriberCount >= SSE_BOUND) /\ OpenAtEnd(c, b, topics)
         \/ OpenReset(c, b, topics)
         \/ /\ CursorKnown(cursor, b, lanes) /\ ~(SubscriberCount >= SSE_BOUND)
            /\ OpenAtCursor(c, b, topics, cursor, lanes)
         \/ UNCHANGED client
  BY DEF Open, lanes, cursor
<1>10. ~(SubscriberCount >= SSE_BOUND) => SubscriberCount < SSE_BOUND
  BY <1>1
<1>. QED BY <1>5, <1>6, <1>7, <1>8, <1>9, <1>10

LEMMA OpenStep ==
  ASSUME BusAssumption, BusInv, NEW c \in Clients, NEW b \in Lanes, NEW topics \in Filters,
         Open(c, b, topics)
  PROVE  BusInv'
<1>1. PICK y : /\ client' = [client EXCEPT ![c] = y] /\ StreamOK(y, log)
               /\ y.subscribed => y.lane = b /\ SubscriberCount < SSE_BOUND
  BY OpenIs
<1>2. /\ HasRoom(b) /\ lane' = Cleared(b) /\ order' = Touched(b) /\ log' = log
      /\ sequence' = sequence /\ epoch' = epoch /\ legacy' = legacy
  BY DEF Open
<1>3. /\ client \in [Clients -> StreamState] /\ lane \in [Lanes -> LaneState]
      /\ order \in Seq(Lanes) /\ Len(order) <= SSE_BOUND
      /\ SubscriberCount <= SSE_BOUND /\ ReplaySize(lane) <= SSE_BOUND /\ SSE_BOUND \in Nat
      /\ \A l \in Lanes : Window(l, lane[l].replay, log)
  BY DEF BusInv, BusTypes, BusAssumption
<1>4. \A d \in Clients : client'[d] = IF d = c THEN y ELSE client[d]
  BY <1>1, <1>3
<1>5. y \in StreamState
  BY <1>1 DEF StreamOK
<1>6. client' \in [Clients -> StreamState]
  BY <1>1, <1>3, <1>5
<1>7. /\ Touched(b) \in Seq(Lanes) /\ Len(Touched(b)) <= SSE_BOUND
      /\ Elements(Touched(b)) = (Elements(order) \ Victim(b)) \cup {b}
      /\ \A v \in Victim(b) : Subscribers(v) = {}
  BY <1>2, <1>3, TouchedIs
<1>8. /\ Cleared(b) \in [Lanes -> LaneState]
      /\ \A l \in Lanes : /\ Cleared(b)[l] = lane[l] \/ Cleared(b)[l].replay = <<>>
                          /\ Window(l, Cleared(b)[l].replay, log)
  BY <1>3, ClearedIs
<1>9. ReplaySize(lane') <= SSE_BOUND
  <2>1. ReplaySize(Cleared(b)) <= ReplaySize(lane)
    BY <1>8, FewerCells
  <2>2. ReplaySize(Cleared(b)) \in Nat /\ ReplaySize(lane) \in Nat
    BY CellsFinite
  <2>. QED BY <1>2, <1>3, <2>1, <2>2
<1>10. SubscriberCount' <= SSE_BOUND
  <2>1. CASE SubscriberCount < SSE_BOUND
    <3>1. \A d \in Clients \ {c} : client'[d].subscribed => client[d].subscribed
      BY <1>4
    <3>2. \A l \in Legacies : legacy'[l].on => legacy[l].on
      BY <1>2
    <3>. QED BY <2>1, <3>1, <3>2, CountOneMore
  <2>2. CASE ~(SubscriberCount < SSE_BOUND)
    <3>1. \A d \in Clients : client'[d].subscribed => client[d].subscribed
      BY <1>1, <1>4, <2>2
    <3>2. \A l \in Legacies : legacy'[l].on => legacy[l].on
      BY <1>2
    <3>. QED BY <1>3, <3>1, <3>2, CountKept
  <2>. QED BY <2>1, <2>2
<1>11. BusTypes'
  BY <1>2, <1>6, <1>7, <1>8, <1>9, <1>10 DEF BusInv, BusTypes, ReplaySize
<1>12. \A l \in Lanes : Window(l, lane'[l].replay, log')
  BY <1>2, <1>8
<1>13. \A d \in Clients : StreamOK(client'[d], log')
  BY <1>1, <1>2, <1>4 DEF BusInv
<1>14. \A d \in Clients : client'[d].subscribed => client'[d].lane \in Elements(order')
  <2>1. ASSUME NEW d \in Clients, client'[d].subscribed
        PROVE  client'[d].lane \in Elements(order')
    <3>1. CASE d = c
      BY <1>1, <1>2, <1>4, <1>7, <2>1, <3>1
    <3>2. CASE d # c
      <4>1. client[d].subscribed /\ client'[d].lane = client[d].lane
        BY <1>4, <2>1, <3>2
      <4>2. client[d].lane \in Elements(order) /\ d \in Subscribers(client[d].lane)
        BY <4>1 DEF BusInv, Known, Subscribers
      <4>3. client[d].lane \notin Victim(b)
        BY <1>7, <4>2
      <4>. QED BY <1>2, <1>7, <4>1, <4>2, <4>3
    <3>. QED BY <3>1, <3>2
  <2>. QED BY <2>1
<1>15. \A l \in Legacies : PageOK(legacy'[l], log')
  BY <1>2 DEF BusInv
<1>. QED BY <1>11, <1>12, <1>13, <1>14, <1>15 DEF BusInv, Known

-----------------------------------------------------------------------------
(* Publishing.                                                              *)

\* The lanes after an event: each still keeps its latest ones, within the bound.
LEMMA PublishedLanes ==
  ASSUME BusAssumption, BusInv, NEW b \in Lanes, NEW e \in Event, e.lane = b,
         NEW stored, stored = Stored(Cleared(b), b, Len(log) + 1)
  PROVE  /\ Trimmed(stored) \in [Lanes -> LaneState] /\ ReplaySize(Trimmed(stored)) <= SSE_BOUND
         /\ \A l \in Lanes : Window(l, Trimmed(stored)[l].replay, Append(log, e))
<1>. DEFINE n == Len(log) + 1
            longer == Append(log, e)
<1>1. /\ log \in Seq(Event) /\ Len(log) \in Nat /\ lane \in [Lanes -> LaneState]
      /\ ReplaySize(lane) <= SSE_BOUND /\ SSE_BOUND \in Nat
      /\ \A l \in Lanes : Window(l, lane[l].replay, log)
  BY LenProperties DEF BusInv, BusTypes, BusAssumption
<1>2. PICK cleared \in [Lanes -> LaneState] :
        /\ cleared = Cleared(b)
        /\ \A l \in Lanes : /\ cleared[l] = lane[l] \/ cleared[l].replay = <<>>
                            /\ Window(l, cleared[l].replay, log)
  BY <1>1, ClearedIs
<1>3. n \in Nat /\ \A l \in Lanes : cleared[l].replay \in Seq(Nat) /\ Len(cleared[l].replay) <= SSE_BOUND
  BY <1>1, <1>2 DEF LaneState, Window
<1>4. ReplaySize(cleared) <= SSE_BOUND
  <2>1. ReplaySize(cleared) <= ReplaySize(lane)
    BY <1>2, FewerCells
  <2>2. ReplaySize(cleared) \in Nat /\ ReplaySize(lane) \in Nat
    BY CellsFinite
  <2>. QED BY <1>1, <2>1, <2>2
<1>5. stored = Stored(cleared, b, n)
  BY <1>2
<1>. HIDE DEF n
<1>6. /\ stored \in [Lanes -> LaneState] /\ ReplaySize(stored) <= ReplaySize(cleared) + 1
      /\ \A l \in Lanes : /\ Len(stored[l].replay) <= SSE_BOUND
                          /\ stored[l].replay = IF l = b THEN Kept(Append(cleared[b].replay, n))
                                                ELSE cleared[l].replay
  BY <1>3, <1>5, StoredBound
<1>7. ASSUME NEW l \in Lanes PROVE Latest(l, stored[l].replay, longer)
  <2>1. CASE l = b
    <3>. DEFINE s == cleared[b].replay
                t == Append(s, n)
    <3>1. s \in Seq(Nat) /\ Latest(b, s, log) /\ Len(s) <= SSE_BOUND
      BY <1>2, <1>3 DEF Window
    <3>2. Latest(b, t, longer)
      BY <1>1, <3>1, LatestAppend DEF n
    <3>3. t \in Seq(Nat) /\ t # <<>> /\ Kept(t) \in {t, Tail(t)}
      <4>. HIDE DEF s
      <4>. QED BY <1>3, <3>1, KeptIs
    <3>4. Latest(b, Tail(t), longer)
      BY <3>2, <3>3, LatestTail
    <3>. QED BY <1>6, <2>1, <3>2, <3>3, <3>4
  <2>2. CASE l # b
    <3>1. Latest(l, cleared[l].replay, log)
      BY <1>2 DEF Window
    <3>2. Latest(l, cleared[l].replay, longer)
      BY <1>1, <2>2, <3>1, LatestElsewhere
    <3>. QED BY <1>6, <2>2, <3>2
  <2>. QED BY <2>1, <2>2
<1>8. ReplaySize(stored) <= SSE_BOUND + 1
  <2>1. ReplaySize(stored) \in Nat /\ ReplaySize(cleared) \in Nat
    BY CellsFinite
  <2>. QED BY <1>1, <1>4, <1>6, <2>1
<1>9. /\ Trimmed(stored) \in [Lanes -> LaneState] /\ ReplaySize(Trimmed(stored)) <= SSE_BOUND
      /\ \A l \in Lanes : \/ Trimmed(stored)[l].replay = stored[l].replay
                          \/ /\ stored[l].replay # <<>>
                             /\ Trimmed(stored)[l].replay = Tail(stored[l].replay)
  BY <1>6, <1>8, TrimmedBound
<1>10. ASSUME NEW l \in Lanes PROVE Window(l, Trimmed(stored)[l].replay, longer)
  <2>1. stored[l].replay \in Seq(Nat) /\ Len(stored[l].replay) <= SSE_BOUND
    BY <1>6 DEF LaneState
  <2>2. CASE Trimmed(stored)[l].replay = stored[l].replay
    BY <1>7, <2>1, <2>2 DEF Window
  <2>3. CASE stored[l].replay # <<>> /\ Trimmed(stored)[l].replay = Tail(stored[l].replay)
    <3>1. Latest(l, Tail(stored[l].replay), longer)
      BY <1>7, <2>1, <2>3, LatestTail
    <3>2. Len(Tail(stored[l].replay)) = Len(stored[l].replay) - 1 /\ Len(stored[l].replay) \in Nat
      BY <2>1, <2>3, HeadTailProperties, LenProperties
    <3>3. Len(Tail(stored[l].replay)) <= SSE_BOUND
      BY <1>1, <2>1, <3>2
    <3>. QED BY <2>3, <3>1, <3>3 DEF Window
  <2>. QED BY <1>9, <2>2, <2>3
<1>. QED BY <1>9, <1>10

LEMMA PublishStep ==
  ASSUME BusAssumption, BusInv, NEW b \in Lanes, NEW t \in Topics, Publish(b, t)
  PROVE  BusInv'
<1>. DEFINE n == Len(log) + 1
<1>1. PICK e \in Event : e = [lane |-> b, topic |-> t]
  BY DEF Event
<1>2. e.lane = b /\ e.topic = t
  BY <1>1
<1>3. /\ log \in Seq(Event) /\ Len(log) \in Nat /\ sequence = Len(log) /\ MaxEvents \in Nat
      /\ client \in [Clients -> StreamState] /\ legacy \in [Legacies -> PageState]
      /\ order \in Seq(Lanes) /\ Len(order) <= SSE_BOUND /\ SubscriberCount <= SSE_BOUND
      /\ epoch \in 1..(MaxRestarts + 1)
  BY LenProperties DEF BusInv, BusTypes, BusAssumption
<1>4. PICK stored : stored = Stored(Cleared(b), b, n)
  OBVIOUS
<1>5. /\ sequence < MaxEvents /\ HasRoom(b) /\ sequence' = n /\ log' = Append(log, e)
      /\ order' = Touched(b) /\ lane' = Trimmed(stored) /\ epoch' = epoch
  BY <1>1, <1>3, <1>4 DEF Publish, Stored
<1>6. \A c \in Clients :
        client'[c] = IF client[c].subscribed /\ Accepts(client[c], e)
                     THEN Offered(client[c], n) ELSE client[c]
  BY <1>2, <1>3 DEF Publish, Subscribers, Accepts
<1>7. \A l \in Legacies :
        legacy'[l] = IF b = PublicLane /\ legacy[l].on
                     THEN [legacy[l] EXCEPT !.queue = Pushed(@, n)] ELSE legacy[l]
  BY <1>3 DEF Publish
<1>8. client' = [c \in Clients |-> client'[c]] /\ legacy' = [l \in Legacies |-> legacy'[l]]
  BY DEF Publish
<1>9. /\ lane' \in [Lanes -> LaneState] /\ ReplaySize(lane') <= SSE_BOUND
      /\ \A l \in Lanes : Window(l, lane'[l].replay, log')
  <2>. HIDE DEF n
  <2>1. stored = Stored(Cleared(b), b, Len(log) + 1)
    BY <1>4 DEF n
  <2>2. /\ Trimmed(stored) \in [Lanes -> LaneState] /\ ReplaySize(Trimmed(stored)) <= SSE_BOUND
        /\ \A l \in Lanes : Window(l, Trimmed(stored)[l].replay, Append(log, e))
    BY <1>2, <2>1, PublishedLanes
  <2>. QED BY <1>5, <2>2
<1>10. ASSUME NEW c \in Clients
       PROVE  /\ StreamOK(client'[c], log') /\ client'[c].lane = client[c].lane
              /\ client'[c].subscribed => client[c].subscribed
  <2>1. StreamOK(client[c], log)
    BY DEF BusInv
  <2>2. CASE client[c].subscribed /\ Accepts(client[c], e)
    <3>1. StreamOK(Offered(client[c], n), Append(log, e)) /\ Offered(client[c], n).lane = client[c].lane
      BY <1>3, <2>1, <2>2, StreamOffered
    <3>. QED BY <1>5, <1>6, <2>2, <3>1
  <2>3. CASE ~(client[c].subscribed /\ Accepts(client[c], e))
    <3>1. StreamOK(client[c], Append(log, e))
      BY <1>3, <2>1, <2>3, StreamPassed
    <3>. QED BY <1>5, <1>6, <2>3, <3>1
  <2>. QED BY <2>2, <2>3
<1>11. ASSUME NEW l \in Legacies
       PROVE  PageOK(legacy'[l], log') /\ (legacy'[l].on => legacy[l].on)
  <2>1. PageOK(legacy[l], log)
    BY DEF BusInv
  <2>2. CASE b = PublicLane /\ legacy[l].on
    <3>1. PICK y : y = [legacy[l] EXCEPT !.queue = Pushed(@, n)]
      OBVIOUS
    <3>2. PageOK(y, Append(log, e))
      BY <1>2, <1>3, <2>1, <2>2, <3>1, PagePushed
    <3>. QED BY <1>5, <1>7, <2>2, <3>1, <3>2
  <2>3. CASE ~(b = PublicLane /\ legacy[l].on)
    <3>1. PageOK(legacy[l], Append(log, e))
      BY <1>2, <1>3, <2>1, <2>3, PagePassed
    <3>. QED BY <1>5, <1>7, <2>3, <3>1
  <2>. QED BY <2>2, <2>3
<1>12. client' \in [Clients -> StreamState] /\ legacy' \in [Legacies -> PageState]
  <2>1. \A c \in Clients : client'[c] \in StreamState
    BY <1>10 DEF StreamOK
  <2>2. \A l \in Legacies : legacy'[l] \in PageState
    BY <1>11 DEF PageOK
  <2>. QED BY <1>8, <2>1, <2>2
<1>13. /\ Touched(b) \in Seq(Lanes) /\ Len(Touched(b)) <= SSE_BOUND
       /\ Elements(Touched(b)) = (Elements(order) \ Victim(b)) \cup {b}
       /\ \A v \in Victim(b) : Subscribers(v) = {}
  BY <1>3, <1>5, TouchedIs
<1>14. SubscriberCount' <= SSE_BOUND
  BY <1>3, <1>10, <1>11, CountKept
<1>15. log' \in Seq(Event) /\ Len(log') = sequence' /\ sequence' \in 0..MaxEvents
  <2>1. Append(log, e) \in Seq(Event) /\ Len(Append(log, e)) = n
    BY <1>3, LogGrows
  <2>2. n \in 0..MaxEvents
    BY <1>3, <1>5
  <2>. QED BY <1>5, <2>1, <2>2
<1>16. BusTypes'
  BY <1>3, <1>5, <1>9, <1>12, <1>13, <1>14, <1>15 DEF BusTypes, ReplaySize
<1>17. \A c \in Clients : client'[c].subscribed => client'[c].lane \in Elements(order')
  <2>1. ASSUME NEW c \in Clients, client'[c].subscribed
        PROVE  client'[c].lane \in Elements(order')
    <3>1. client[c].subscribed /\ client'[c].lane = client[c].lane
      BY <1>10, <2>1
    <3>2. client[c].lane \in Elements(order) /\ c \in Subscribers(client[c].lane)
      BY <3>1 DEF BusInv, Known, Subscribers
    <3>3. client[c].lane \notin Victim(b)
      BY <1>13, <3>2
    <3>. QED BY <1>5, <1>13, <3>1, <3>2, <3>3
  <2>. QED BY <2>1
<1>. QED BY <1>9, <1>10, <1>11, <1>16, <1>17 DEF BusInv, Known

LEMMA PublishWithoutRoomStep ==
  ASSUME BusAssumption, BusInv, NEW b \in Lanes, PublishWithoutRoom(b)
  PROVE  BusInv'
<1>1. PICK e \in Event : e = [lane |-> "none", topic |-> "none"]
  BY DEF Event
<1>2. e.lane = "none" /\ "none" \notin Lanes /\ PublicLane \in Lanes
  BY <1>1 DEF BusAssumption
<1>3. /\ log \in Seq(Event) /\ Len(log) \in Nat /\ sequence = Len(log) /\ MaxEvents \in Nat
  BY LenProperties DEF BusInv, BusTypes, BusAssumption
<1>4. /\ sequence < MaxEvents /\ sequence' = sequence + 1 /\ log' = Append(log, e)
      /\ UNCHANGED <<epoch, order, lane, client, legacy>>
  BY <1>1 DEF PublishWithoutRoom
<1>5. log' \in Seq(Event) /\ Len(log') = sequence' /\ sequence' \in 0..MaxEvents
  <2>1. Append(log, e) \in Seq(Event) /\ Len(Append(log, e)) = Len(log) + 1
    BY <1>3, LogGrows
  <2>. QED BY <1>3, <1>4, <2>1
<1>6. BusTypes'
  BY <1>4, <1>5 DEF BusInv, BusTypes, ReplaySize, SubscriberCount
<1>7. ASSUME NEW l \in Lanes PROVE Window(l, lane'[l].replay, log')
  <2>1. Window(l, lane[l].replay, log) /\ e.lane # l
    BY <1>2 DEF BusInv
  <2>2. Latest(l, lane[l].replay, Append(log, e))
    BY <1>3, <2>1, LatestElsewhere DEF Window
  <2>. QED BY <1>4, <2>1, <2>2 DEF Window
<1>8. ASSUME NEW c \in Clients PROVE StreamOK(client'[c], log')
  <2>1. StreamOK(client[c], log) /\ client[c].lane \in Lanes
    BY DEF BusInv, BusTypes, StreamState
  <2>2. ~Accepts(client[c], e)
    BY <1>2, <2>1 DEF Accepts
  <2>3. StreamOK(client[c], Append(log, e))
    BY <1>3, <2>1, <2>2, StreamPassed
  <2>. QED BY <1>4, <2>3
<1>9. ASSUME NEW l \in Legacies PROVE PageOK(legacy'[l], log')
  <2>1. PageOK(legacy[l], log) /\ e.lane # PublicLane
    BY <1>2 DEF BusInv
  <2>2. PageOK(legacy[l], Append(log, e))
    BY <1>3, <2>1, PagePassed
  <2>. QED BY <1>4, <2>2
<1>10. \A c \in Clients : client'[c].subscribed => client'[c].lane \in Elements(order')
  BY <1>4 DEF BusInv, Known
<1>. QED BY <1>6, <1>7, <1>8, <1>9, <1>10 DEF BusInv, Known

LEMMA ProducerFailureStep ==
  ASSUME BusAssumption, BusInv, NEW b \in Lanes, ProducerFailure(b)
  PROVE  BusInv'
<1>1. /\ log \in Seq(Event) /\ Len(log) \in Nat /\ client \in [Clients -> StreamState]
      /\ SubscriberCount <= SSE_BOUND
      /\ UNCHANGED <<epoch, sequence, order, lane, legacy, log>>
  BY LenProperties DEF BusInv, BusTypes, ProducerFailure
<1>2. ASSUME NEW c \in Clients
      PROVE  /\ StreamOK(client'[c], log)
             /\ client'[c].subscribed => client[c].subscribed /\ client'[c].lane = client[c].lane
  <2>1. StreamOK(client[c], log)
    BY DEF BusInv
  <2>2. CASE c \in Subscribers(b)
    <3>1. client[c].pc # "away"
      BY <2>1, <2>2, SubscribedIsOpen DEF Subscribers
    <3>2. PICK y : y = [client[c] EXCEPT !.queue = <<Reset>>, !.subscribed = FALSE]
      OBVIOUS
    <3>3. StreamOK(y, log) /\ ~y.subscribed
      BY <1>1, <2>1, <3>1, <3>2, StreamReset
    <3>4. client'[c] = y
      BY <2>2, <3>2 DEF ProducerFailure
    <3>. QED BY <3>3, <3>4
  <2>3. CASE c \notin Subscribers(b)
    <3>1. client'[c] = client[c]
      BY <2>3 DEF ProducerFailure
    <3>. QED BY <2>1, <3>1
  <2>. QED BY <2>2, <2>3
<1>3. client' \in [Clients -> StreamState]
  <2>1. \A c \in Clients : client'[c] \in StreamState
    BY <1>2 DEF StreamOK
  <2>2. client' = [c \in Clients |-> client'[c]]
    BY DEF ProducerFailure
  <2>. QED BY <2>1, <2>2
<1>4. SubscriberCount' <= SSE_BOUND
  <2>1. \A l \in Legacies : legacy'[l].on => legacy[l].on
    BY <1>1
  <2>. QED BY <1>1, <1>2, <2>1, CountKept
<1>5. BusTypes'
  BY <1>1, <1>3, <1>4 DEF BusInv, BusTypes, ReplaySize
<1>6. \A c \in Clients : client'[c].subscribed => client'[c].lane \in Elements(order')
  BY <1>1, <1>2 DEF BusInv, Known
<1>7. \A l \in Lanes : Window(l, lane'[l].replay, log')
  BY <1>1 DEF BusInv
<1>8. \A l \in Legacies : PageOK(legacy'[l], log')
  BY <1>1 DEF BusInv
<1>. QED BY <1>1, <1>2, <1>5, <1>6, <1>7, <1>8 DEF BusInv, Known

-----------------------------------------------------------------------------
(* The legacy stream and the restart.                                       *)

LEMMA LegacyStep ==
  ASSUME BusAssumption, BusInv, NEW l \in Legacies,
         LegacySubscribe(l) \/ LegacyReceive(l) \/ LegacyUnsubscribe(l)
  PROVE  BusInv'
<1>1. /\ log \in Seq(Event) /\ Len(log) \in Nat /\ sequence = Len(log) /\ SSE_BOUND \in Nat
      /\ legacy \in [Legacies -> PageState] /\ SubscriberCount <= SSE_BOUND
      /\ PageOK(legacy[l], log) /\ UNCHANGED <<epoch, sequence, order, lane, client, log>>
  BY LenProperties
     DEF BusInv, BusTypes, BusAssumption, LegacySubscribe, LegacyReceive, LegacyUnsubscribe
<1>2. \E y : /\ legacy' = [legacy EXCEPT ![l] = y] /\ PageOK(y, log)
             /\ y.on => legacy[l].on \/ SubscriberCount < SSE_BOUND
  <2>1. CASE LegacySubscribe(l)
    <3>1. PICK y : y = [Silent EXCEPT !.on = TRUE, !.since = Len(log)]
      OBVIOUS
    <3>2. legacy' = [legacy EXCEPT ![l] = y] /\ SubscriberCount < SSE_BOUND
      BY <1>1, <2>1, <3>1 DEF LegacySubscribe
    <3>3. PageOK(y, log)
      BY <1>1, <3>1, PageSubscribes
    <3>. QED BY <3>2, <3>3
  <2>2. CASE LegacyReceive(l)
    <3>1. PICK y : y = [legacy[l] EXCEPT !.heard = Head(legacy[l].queue), !.queue = Tail(@)]
      OBVIOUS
    <3>2. legacy[l].on /\ legacy[l].queue # <<>> /\ legacy' = [legacy EXCEPT ![l] = y]
      BY <1>1, <2>2, <3>1 DEF LegacyReceive, PageState
    <3>3. PageOK(y, log)
      BY <1>1, <3>1, <3>2, PageReceives
    <3>. QED BY <3>2, <3>3
  <2>3. CASE LegacyUnsubscribe(l)
    <3>1. legacy' = [legacy EXCEPT ![l] = Silent] /\ legacy[l].on
      BY <2>3 DEF LegacyUnsubscribe
    <3>2. PageOK(Silent, log)
      BY <1>1, SilentOK
    <3>. QED BY <3>1, <3>2
  <2>. QED BY <2>1, <2>2, <2>3
<1>3. PICK y : /\ legacy' = [legacy EXCEPT ![l] = y] /\ PageOK(y, log)
               /\ y.on => legacy[l].on \/ SubscriberCount < SSE_BOUND
  BY <1>2
<1>4. \A m \in Legacies : legacy'[m] = IF m = l THEN y ELSE legacy[m]
  BY <1>1, <1>3
<1>5. legacy' \in [Legacies -> PageState]
  BY <1>1, <1>3 DEF PageOK
<1>6. SubscriberCount' <= SSE_BOUND
  <2>0. \A c \in Clients : client'[c].subscribed => client[c].subscribed
    BY <1>1
  <2>1. CASE SubscriberCount < SSE_BOUND
    <3>1. \A m \in Legacies \ {l} : legacy'[m].on => legacy[m].on
      BY <1>4
    <3>. QED BY <2>0, <2>1, <3>1, CountOneMore
  <2>2. CASE ~(SubscriberCount < SSE_BOUND)
    <3>1. \A m \in Legacies : legacy'[m].on => legacy[m].on
      BY <1>3, <1>4, <2>2
    <3>. QED BY <1>1, <2>0, <3>1, CountKept
  <2>. QED BY <2>1, <2>2
<1>7. BusTypes'
  BY <1>1, <1>5, <1>6 DEF BusInv, BusTypes, ReplaySize
<1>8. \A m \in Legacies : PageOK(legacy'[m], log')
  BY <1>1, <1>3, <1>4 DEF BusInv
<1>9. /\ \A b \in Lanes : Window(b, lane'[b].replay, log')
      /\ \A c \in Clients : StreamOK(client'[c], log')
      /\ \A c \in Clients : client'[c].subscribed => client'[c].lane \in Elements(order')
  BY <1>1 DEF BusInv, Known
<1>. QED BY <1>7, <1>8, <1>9 DEF BusInv, Known

\* Nothing published, nobody subscribed: the beginning of a process.
NothingYet ==
  /\ epoch \in 1..(MaxRestarts + 1) /\ sequence = 0 /\ order = <<>> /\ log = <<>>
  /\ lane = [b \in Lanes |-> EmptyLane]
  /\ client \in [Clients -> StreamState] /\ legacy = [l \in Legacies |-> Silent]
  /\ \A c \in Clients : StreamOK(client[c], <<>>) /\ ~client[c].subscribed
LEMMA NothingYetOK == BusAssumption /\ NothingYet => BusInv
<1>. SUFFICES ASSUME BusAssumption, NothingYet PROVE BusInv
  OBVIOUS
<1>1. /\ <<>> \in Seq(Nat) /\ <<>> \in Seq(Event) /\ <<>> \in Seq(Lanes) /\ Len(<<>>) = 0
      /\ SSE_BOUND \in Nat /\ MaxEvents \in Nat
  BY EmptySeq DEF BusAssumption
<1>2. lane \in [Lanes -> LaneState] /\ \A b \in Lanes : lane[b].replay = <<>>
  BY <1>1 DEF EmptyLane, LaneState, NothingYet
<1>3. Silent \in PageState /\ PageOK(Silent, <<>>) /\ ~Silent.on
  <2>1. PageOK(Silent, <<>>)
    BY <1>1, SilentOK
  <2>. QED BY <2>1 DEF PageOK, Silent
<1>4. SubscriberCount = 0
  <2>1. Listening(client) = {} /\ Reading(legacy) = {}
    BY <1>3 DEF Listening, Reading, NothingYet
  <2>. QED BY <2>1, CountIs, FS_EmptySet
<1>5. ReplaySize(lane) = 0
  <2>1. Cells(lane) = {}
    <3>1. ASSUME NEW at \in Cells(lane) PROVE FALSE
      <4>1. at[1] \in Lanes /\ at[2] \in 1..SSE_BOUND /\ at[2] <= Len(lane[at[1]].replay)
        BY <3>1 DEF Cells
      <4>2. at[2] \in Nat /\ ~(at[2] <= 0)
        BY <1>1, <4>1
      <4>. QED BY <1>1, <1>2, <4>1, <4>2
    <3>. QED BY <3>1
  <2>. QED BY <2>1, CellsFinite, FS_EmptySet
<1>6. BusTypes
  <2>1. legacy \in [Legacies -> PageState]
    BY <1>3 DEF NothingYet
  <2>. QED BY <1>1, <1>2, <1>4, <1>5, <2>1 DEF BusTypes, NothingYet
<1>7. \A b \in Lanes : Window(b, lane[b].replay, log)
  BY <1>1, <1>2, LatestEmpty DEF Window, NothingYet
<1>8. \A l \in Legacies : PageOK(legacy[l], log)
  BY <1>3 DEF NothingYet
<1>. QED BY <1>6, <1>7, <1>8 DEF BusInv, NothingYet

LEMMA RestartStep ==
  ASSUME BusAssumption, BusInv, Restart
  PROVE  NothingYet'
<1>1. ASSUME NEW c \in Clients
      PROVE  StreamOK(Ended(c), <<>>) /\ ~Ended(c).subscribed
  <2>1. client[c].cursor \in Cursor /\ Len(<<>>) \in Nat
    BY DEF BusInv, BusTypes, StreamState
  <2>. QED BY <2>1, AwayOK DEF Ended
<1>2. /\ epoch' \in 1..(MaxRestarts + 1) /\ sequence' = 0 /\ order' = <<>> /\ log' = <<>>
      /\ lane' = [b \in Lanes |-> EmptyLane] /\ client' = [c \in Clients |-> Ended(c)]
      /\ legacy' = [l \in Legacies |-> Silent]
  BY DEF Restart, BusInv, BusTypes, BusAssumption
<1>3. client' \in [Clients -> StreamState]
  BY <1>1, <1>2 DEF StreamOK
<1>4. \A c \in Clients : StreamOK(client'[c], <<>>) /\ ~client'[c].subscribed
  BY <1>1, <1>2
<1>. QED BY <1>2, <1>3, <1>4 DEF NothingYet

-----------------------------------------------------------------------------
(* The invariant of the bus.                                                *)

LEMMA BusInit == BusAssumption /\ Init => BusInv
<1>. SUFFICES ASSUME BusAssumption, Init PROVE NothingYet
  BY NothingYetOK
<1>1. NoCursor \in Cursor /\ Len(<<>>) \in Nat
  BY DEF NoCursor, Cursor, BusAssumption
<1>2. Away = [Away EXCEPT !.cursor = NoCursor]
  <2>1. PICK x : x = [Away EXCEPT !.cursor = NoCursor]
    OBVIOUS
  <2>2. x = [pc |-> "away", lane |-> PublicLane, topics |-> {}, replay |-> <<>>,
             queue |-> <<>>, subscribed |-> FALSE, authority |-> FALSE,
             via |-> "none", position |-> 0, cursor |-> NoCursor]
    BY <2>1 DEF Away
  <2>. QED BY <2>1, <2>2 DEF Away
<1>3. StreamOK(Away, <<>>) /\ ~Away.subscribed
  BY <1>1, <1>2, AwayOK
<1>4. Away \in StreamState
  BY <1>3 DEF StreamOK
<1>5. 1 \in 1..(MaxRestarts + 1)
  BY DEF BusAssumption
<1>. QED BY <1>3, <1>4, <1>5 DEF Init, NothingYet

LEMMA BusNext == BusAssumption /\ BusInv /\ [Next]_vars => BusInv'
<1>. SUFFICES ASSUME BusAssumption, BusInv, [Next]_vars PROVE BusInv'
  OBVIOUS
<1>1. ASSUME NEW b \in Lanes, PublishWithoutRoom(b) PROVE BusInv'
  BY <1>1, PublishWithoutRoomStep
<1>2. ASSUME NEW b \in Lanes, ProducerFailure(b) PROVE BusInv'
  BY <1>2, ProducerFailureStep
<1>3. ASSUME NEW b \in Lanes, NEW t \in Topics, Publish(b, t) PROVE BusInv'
  BY <1>3, PublishStep
<1>4. ASSUME NEW c \in Clients, Stream(c) PROVE BusInv'
  BY <1>4, ReplayFrameStep, LiveFrameStep, QuietSteps DEF Stream
<1>5. ASSUME NEW c \in Clients, Disconnect(c) \/ LoseAuthority(c) \/ Forget(c) PROVE BusInv'
  BY <1>5, QuietSteps
<1>6. ASSUME NEW c \in Clients, NEW b \in Lanes, NEW topics \in Filters, Open(c, b, topics)
      PROVE  BusInv'
  BY <1>6, OpenStep
<1>7. ASSUME NEW l \in Legacies,
             LegacySubscribe(l) \/ LegacyReceive(l) \/ LegacyUnsubscribe(l)
      PROVE  BusInv'
  BY <1>7, LegacyStep
<1>8. ASSUME Restart PROVE BusInv'
  <2>1. NothingYet'
    BY <1>8, RestartStep
  <2>2. BusAssumption'
    BY DEF BusAssumption
  <2>. QED BY <2>1, <2>2, NothingYetOK, PTL
<1>9. ASSUME UNCHANGED vars PROVE BusInv'
  BY <1>9 DEF vars, BusInv, BusTypes, ReplaySize, SubscriberCount, Known
<1>. QED BY <1>1, <1>2, <1>3, <1>4, <1>5, <1>6, <1>7, <1>8, <1>9 DEF Next

\* What the invariant says of the bus: its bounds, the exactness of its streams and
\* what its legacy pages hear.
LEMMA BusTells == BusAssumption /\ BusInv => TypeOK /\ StreamIsExact /\ LegacyHearsLatest
<1>. SUFFICES ASSUME BusAssumption, BusInv PROVE TypeOK /\ StreamIsExact /\ LegacyHearsLatest
  OBVIOUS
<1>1. /\ log \in Seq(Event) /\ Len(log) = sequence /\ sequence \in Nat
      /\ client \in [Clients -> StreamState] /\ order \in Seq(Lanes)
  BY DEF BusInv, BusTypes, BusAssumption
<1>2. TypeOK
  <2>1. Elements(order) \subseteq Lanes
    BY <1>1, ElementsIn
  <2>2. \A b \in Lanes : Elements(lane[b].replay) \subseteq 1..sequence
    BY <1>1 DEF BusInv, Window, Latest
  <2>3. \A c \in Clients :
          /\ client[c].pc \in {"away", "replaying", "live"}
          /\ Len(client[c].queue) <= SSE_BOUND
          /\ Elements(client[c].queue) \subseteq 0..sequence
    BY <1>1 DEF BusInv, StreamOK, StreamState
  <2>4. \A l \in Legacies : Len(legacy[l].queue) <= SSE_BOUND
    BY DEF BusInv, PageOK
  <2>. QED BY <2>1, <2>2, <2>3, <2>4 DEF TypeOK, BusInv, BusTypes
<1>3. StreamIsExact
  <2>1. ASSUME NEW c \in Clients
        PROVE  /\ client[c].via \in {"start", "window"} => Exact(c)
               /\ client[c].pc # "away" /\ ~client[c].subscribed => Reset \in Elements(Pending(c))
    <3>1. StreamOK(client[c], log)
      BY DEF BusInv
    <3>2. Pending(c) = ToYield(client[c])
      BY DEF Pending, ToYield
    <3>3. Missing(c) = Unseen(client[c], log)
      BY <1>1 DEF Missing, Unseen, Accepts, Wants
    <3>. QED BY <3>1, <3>2, <3>3 DEF StreamOK, Exact
  <2>. QED BY <2>1 DEF StreamIsExact
<1>4. LegacyHearsLatest
  <2>1. ASSUME NEW l \in Legacies, legacy[l].on, Public(legacy[l].since, log) # {}
        PROVE  \E n \in Public(legacy[l].since, log) :
                 /\ \A m \in Public(legacy[l].since, log) : m <= n
                 /\ legacy[l].heard = n
                    \/ (legacy[l].queue # <<>> /\ legacy[l].queue[Len(legacy[l].queue)] = n)
    <3>1. HearsLatest(legacy[l], Public(legacy[l].since, log))
      BY <2>1 DEF BusInv, PageOK
    <3>. QED BY <2>1, <3>1 DEF HearsLatest
  <2>2. \A l \in Legacies :
          Public(legacy[l].since, log) =
            {n \in 1..sequence : n > legacy[l].since /\ log[n].lane = PublicLane}
    BY <1>1 DEF Public
  <2>. QED BY <2>1, <2>2 DEF LegacyHearsLatest
<1>. QED BY <1>2, <1>3, <1>4

\* The inductive invariant holds of every reachable state of the bus.
THEOREM BusInvariant == BusAssumption => (Spec => []BusInv)
<1>. SUFFICES ASSUME BusAssumption PROVE Spec => []BusInv
  OBVIOUS
<1>1. Init => BusInv
  BY BusInit
<1>2. BusInv /\ [Next]_vars => BusInv'
  BY BusNext
<1>. QED BY <1>1, <1>2, PTL DEF Spec

\* Whatever the lanes, the browsers and the bounds: the bus keeps its bounds, a
\* stream has exactly what it has not seen, or a reset, still to come, and a legacy
\* page hears of the latest public event.
THEOREM StreamsAreExact ==
  BusAssumption => (Spec => [](TypeOK /\ StreamIsExact /\ LegacyHearsLatest))
<1>. SUFFICES ASSUME BusAssumption
              PROVE  Spec => [](TypeOK /\ StreamIsExact /\ LegacyHearsLatest)
  OBVIOUS
<1>1. BusInv => TypeOK /\ StreamIsExact /\ LegacyHearsLatest
  BY BusTells
<1>2. Spec => []BusInv
  BY BusInvariant
<1>. QED BY <1>1, <1>2, PTL
=============================================================================
