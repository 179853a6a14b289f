------------------------------ MODULE EventBus ------------------------------
(***************************************************************************)
(* The in-process event bus behind the server-sent event streams            *)
(* (src/src/skdashboard/dashboard_kanban.py): one lane per policy boundary,  *)
(* a bounded replay buffer shared by all the lanes, opaque resume cursors,   *)
(* bounded queues with an explicit reset for slow consumers, and the         *)
(* generator that serialises a subscription while its authority lasts.      *)
(*                                                                         *)
(* publish, open_stream and close_stream run without an await and are one   *)
(* action each; stream_sse yields between frames, so publishers, other      *)
(* clients, disconnections and the loss of authority interleave with it.    *)
(***************************************************************************)
EXTENDS Naturals, Sequences, FiniteSets

CONSTANTS
  Lanes,          \* policy boundaries
  PublicLane,     \* PUBLIC_STREAM_LANE
  Clients,        \* browsers on /api/v1/events, one stream each
  Legacies,       \* browsers on the legacy refresh stream
  Topics,
  Filters,        \* the topic filters streams ask for; the empty one is all
  SSE_BOUND,      \* positive: bound of the lanes, the replay, the queues, the subscribers
  MaxEvents,      \* bound on the sequence of one process
  MaxRestarts

VARIABLES
  epoch,     \* _stream_id: which process is serving
  sequence,  \* _sequence
  order,     \* the keys of _lanes, least recently used first
  lane,      \* replay and resume_floor of each lane; empty when not in order
  client,    \* each stream: its subscription, its generator, its browser
  legacy,    \* each legacy subscriber
  log        \* history: what each sequence number was published as

vars == <<epoch, sequence, order, lane, client, legacy, log>>

Reset == 0    \* a StreamReset; events are their sequence numbers, from 1

EmptyLane == [replay |-> <<>>, floor |-> 0]
NoCursor == [epoch |-> 0, lane |-> PublicLane, seq |-> 0]
Away == [pc |-> "away", lane |-> PublicLane, topics |-> {}, replay |-> <<>>,
         queue |-> <<>>, subscribed |-> FALSE, authority |-> FALSE,
         via |-> "none", position |-> 0, cursor |-> NoCursor]
Silent == [on |-> FALSE, queue |-> <<>>, since |-> 0, heard |-> 0]

Init ==
  /\ epoch = 1 /\ sequence = 0 /\ order = <<>> /\ log = <<>>
  /\ lane = [b \in Lanes |-> EmptyLane]
  /\ client = [c \in Clients |-> Away]
  /\ legacy = [l \in Legacies |-> Silent]

Elements(s) == {s[i] : i \in 1..Len(s)}
InOrder(s) == \A i, j \in 1..Len(s) : i < j => s[i] < s[j]
\* The items of s that are in W, in their order.
Only(s, W) ==
  LET upTo[i \in 0..Len(s)] ==
        IF i = 0 THEN <<>>
        ELSE IF s[i] \in W THEN Append(upTo[i - 1], s[i]) ELSE upTo[i - 1]
  IN  upTo[Len(s)]
Subscribers(b) == {c \in Clients : client[c].subscribed /\ client[c].lane = b}
SubscriberCount ==
  Cardinality({c \in Clients : client[c].subscribed})
    + Cardinality({l \in Legacies : legacy[l].on})
Wants(topics, n) == topics = {} \/ log[n].topic \in topics

-----------------------------------------------------------------------------
(* Lanes.                                                                   *)

Known(b) == b \in Elements(order)
InactiveAt == {i \in 1..Len(order) : Subscribers(order[i]) = {}}
EvictableFirst == {i \in 1..Len(order) : i = 1}
EvictableInactive == {i \in InactiveAt : \A j \in InactiveAt : i <= j}
Evictable == EvictableInactive
Crowded(b) == ~Known(b) /\ Len(order) >= SSE_BOUND

\* _lane(b): it fails when every lane has a subscriber; otherwise b becomes
\* the most recently used lane, in place of the first inactive one.
HasRoom(b) == Crowded(b) => Evictable # {}
Victim(b) == {order[i] : i \in IF Crowded(b) THEN Evictable ELSE {}}
Touched(b) == Append(Only(order, Lanes \ (Victim(b) \cup {b})), b)
Cleared(b) == [l \in Lanes |-> IF l \in Victim(b) THEN EmptyLane ELSE lane[l]]

-----------------------------------------------------------------------------
(* publish.                                                                 *)

\* deque(maxlen=SSE_BOUND): a full lane drops its head by itself.
Kept(replay) == IF Len(replay) > SSE_BOUND THEN Tail(replay) ELSE replay

ReplaySize(lanes) ==
  Cardinality({at \in Lanes \X (1..SSE_BOUND) : at[2] <= Len(lanes[at[1]].replay)})

\* _trim_replay: the oldest event of all leaves its lane and becomes the
\* lane's resume floor.  One event was added, so one at most must leave.
OldestLane(lanes) ==
  CHOOSE b \in Lanes :
    /\ lanes[b].replay # <<>>
    /\ \A o \in Lanes : lanes[o].replay # <<>> =>
         Head(lanes[b].replay) <= Head(lanes[o].replay)
NotTrimmed(lanes) == lanes
Trimmed(lanes) ==
  IF ReplaySize(lanes) <= SSE_BOUND THEN lanes
  ELSE [lanes EXCEPT ![OldestLane(lanes)] =
          [replay |-> Tail(@.replay), floor |-> Head(@.replay)]]

\* The queue of a subscriber the event is for; a full one is replaced by a
\* reset and the subscriber leaves the lane.
OfferedOrDropped(c, n) ==
  IF Len(c.queue) >= SSE_BOUND
  THEN [c EXCEPT !.subscribed = FALSE]
  ELSE [c EXCEPT !.queue = Append(@, n)]
Offered(c, n) ==
  IF Len(c.queue) >= SSE_BOUND
  THEN [c EXCEPT !.queue = <<Reset>>, !.subscribed = FALSE]
  ELSE [c EXCEPT !.queue = Append(@, n)]

\* The legacy queue drops its oldest message instead.
PushedIfRoom(queue, n) == IF Len(queue) >= SSE_BOUND THEN queue ELSE Append(queue, n)
Pushed(queue, n) == Append(IF Len(queue) >= SSE_BOUND THEN Tail(queue) ELSE queue, n)

Publish(b, t) ==
  LET n == sequence + 1
      cleared == Cleared(b)
      stored == [cleared EXCEPT ![b].replay = Kept(Append(@, n))]
  IN
  /\ sequence < MaxEvents /\ HasRoom(b)
  /\ sequence' = n
  /\ log' = Append(log, [lane |-> b, topic |-> t])
  /\ order' = Touched(b)
  /\ lane' = Trimmed(stored)
  /\ client' = [c \in Clients |->
                  IF c \in Subscribers(b) /\ (client[c].topics = {} \/ t \in client[c].topics)
                  THEN Offered(client[c], n) ELSE client[c]]
  /\ legacy' = [l \in Legacies |->
                  IF b = PublicLane /\ legacy[l].on
                  THEN [legacy[l] EXCEPT !.queue = Pushed(@, n)] ELSE legacy[l]]
  /\ UNCHANGED epoch

\* The sequence number is spent before _lane raises.
PublishWithoutRoom(b) ==
  /\ sequence < MaxEvents /\ ~HasRoom(b)
  /\ sequence' = sequence + 1
  /\ log' = Append(log, [lane |-> "none", topic |-> "none"])
  /\ UNCHANGED <<epoch, order, lane, client, legacy>>

\* An event that cannot be serialised within its bounds resets the lane.
ProducerFailure(b) ==
  /\ Subscribers(b) # {}
  /\ client' = [c \in Clients |->
                  IF c \in Subscribers(b)
                  THEN [client[c] EXCEPT !.queue = <<Reset>>, !.subscribed = FALSE]
                  ELSE client[c]]
  /\ UNCHANGED <<epoch, sequence, order, lane, legacy, log>>

-----------------------------------------------------------------------------
(* open_stream and the legacy subscription.                                 *)

After(replay, seq, topics) ==
  Only(replay, {n \in 1..sequence : n > seq /\ Wants(topics, n)})

\* Where the lane knows a cursor: in its replay, or at its resume floor.
CursorInAnyEpoch(cursor, b, lanes) ==
  /\ cursor.lane = b /\ cursor.seq <= sequence
  /\ cursor.seq \in Elements(lanes[b].replay) \/ lanes[b].floor = cursor.seq
CursorKnown(cursor, b, lanes) ==
  /\ cursor.epoch = epoch /\ cursor.lane = b /\ cursor.seq <= sequence
  /\ cursor.seq \in Elements(lanes[b].replay) \/ lanes[b].floor = cursor.seq

Subscription(c, b, topics) ==
  [Away EXCEPT !.pc = "replaying", !.lane = b, !.topics = topics, !.authority = TRUE,
               !.subscribed = TRUE, !.cursor = client[c].cursor]

\* With no cursor the stream starts with the next event.
OpenAtEnd(c, b, topics) ==
  client' = [client EXCEPT ![c] =
               [Subscription(c, b, topics) EXCEPT !.via = "start", !.position = sequence]]

\* History: how far the browser has seen what this process published in b.
SeenUpTo(cursor, b) ==
  IF cursor.epoch = epoch /\ cursor.lane = b THEN cursor.seq ELSE 0

OpenAtCursor(c, b, topics, cursor, lanes) ==
  client' = [client EXCEPT ![c] =
               [Subscription(c, b, topics) EXCEPT
                  !.replay = After(lanes[b].replay, cursor.seq, topics),
                  !.via = IF cursor.seq \in Elements(lanes[b].replay) THEN "window"
                          ELSE "floor",
                  !.position = SeenUpTo(cursor, b)]]

\* A subscription without a queue, for a cursor the lane does not know.
OpenReset(c, b, topics) ==
  client' = [client EXCEPT ![c] =
               [Subscription(c, b, topics) EXCEPT !.replay = <<Reset>>,
                                                  !.subscribed = FALSE]]

\* Above the bound the request is refused, once the lane has been touched.
Open(c, b, topics) ==
  LET lanes == Cleared(b)
      Full == SubscriberCount >= SSE_BOUND
      cursor == client[c].cursor
  IN
  /\ client[c].pc = "away" /\ HasRoom(b)
  /\ \/ ~Full /\ OpenAtEnd(c, b, topics)
     \/ /\ cursor # NoCursor /\ ~CursorKnown(cursor, b, lanes)
        /\ OpenReset(c, b, topics)
     \/ /\ cursor # NoCursor /\ CursorKnown(cursor, b, lanes) /\ ~Full
        /\ OpenAtCursor(c, b, topics, cursor, lanes)
     \/ /\ Full /\ (cursor = NoCursor \/ CursorKnown(cursor, b, lanes))
        /\ UNCHANGED client
  /\ lane' = lanes /\ order' = Touched(b)
  /\ UNCHANGED <<epoch, sequence, legacy, log>>

LegacySubscribe(l) ==
  /\ ~legacy[l].on /\ SubscriberCount < SSE_BOUND
  /\ legacy' = [legacy EXCEPT ![l] = [Silent EXCEPT !.on = TRUE, !.since = sequence]]
  /\ UNCHANGED <<epoch, sequence, order, lane, client, log>>
LegacyReceive(l) ==
  /\ legacy[l].on /\ legacy[l].queue # <<>>
  /\ legacy' = [legacy EXCEPT ![l].heard = Head(legacy[l].queue),
                              ![l].queue = Tail(@)]
  /\ UNCHANGED <<epoch, sequence, order, lane, client, log>>
LegacyUnsubscribe(l) ==
  /\ legacy[l].on
  /\ legacy' = [legacy EXCEPT ![l] = Silent]
  /\ UNCHANGED <<epoch, sequence, order, lane, client, log>>

-----------------------------------------------------------------------------
(* stream_sse: each step ends at a yield or at the wait on the queue.       *)

OnlyClient(c, next) ==
  /\ client' = [client EXCEPT ![c] = next]
  /\ UNCHANGED <<epoch, sequence, order, lane, legacy, log>>

\* The generator ends and closes its subscription; the browser keeps its last
\* event id.
Ended(c) == [Away EXCEPT !.cursor = client[c].cursor]
\* After a reset the browser starts afresh.
Told(c) == Away

Framed(c, n) ==
  [client[c] EXCEPT !.position = n,
                    !.cursor = [epoch |-> epoch, lane |-> client[c].lane, seq |-> n]]

ReplayFrame(c) ==
  /\ client[c].pc = "replaying" /\ client[c].replay # <<>> /\ client[c].authority
  /\ OnlyClient(c, IF Head(client[c].replay) = Reset THEN Told(c)
                   ELSE [Framed(c, Head(client[c].replay)) EXCEPT !.replay = Tail(@)])

\* The heartbeat after the replay.
GoLive(c) ==
  /\ client[c].pc = "replaying" /\ client[c].replay = <<>> /\ client[c].authority
  /\ OnlyClient(c, [client[c] EXCEPT !.pc = "live"])

\* The authority is checked after the wait, when the item is in hand.
LiveFrameUnchecked(c) ==
  /\ client[c].pc = "live" /\ client[c].queue # <<>>
  /\ OnlyClient(c, IF Head(client[c].queue) = Reset THEN Told(c)
                   ELSE [Framed(c, Head(client[c].queue)) EXCEPT !.queue = Tail(@)])
LiveFrame(c) ==
  /\ client[c].pc = "live" /\ client[c].queue # <<>> /\ client[c].authority
  /\ OnlyClient(c, IF Head(client[c].queue) = Reset THEN Told(c)
                   ELSE [Framed(c, Head(client[c].queue)) EXCEPT !.queue = Tail(@)])

\* Before a frame, after an item, or at the timeout of the wait: the stream
\* says that its authority is unavailable and ends.
AuthorityReset(c) ==
  /\ client[c].pc # "away" /\ ~client[c].authority
  /\ OnlyClient(c, Told(c))

Disconnect(c) == client[c].pc # "away" /\ OnlyClient(c, Ended(c))

LoseAuthority(c) ==
  /\ client[c].authority
  /\ OnlyClient(c, [client[c] EXCEPT !.authority = FALSE])

\* The browser forgets its last event id (a new tab).
Forget(c) ==
  /\ client[c].pc = "away" /\ client[c].cursor # NoCursor
  /\ OnlyClient(c, Away)

\* The process restarts: nothing of the bus survives, the browsers keep their
\* cursors.
Restart ==
  /\ epoch <= MaxRestarts
  /\ epoch' = epoch + 1
  /\ sequence' = 0 /\ order' = <<>> /\ log' = <<>>
  /\ lane' = [b \in Lanes |-> EmptyLane]
  /\ client' = [c \in Clients |-> Ended(c)]
  /\ legacy' = [l \in Legacies |-> Silent]

Stream(c) == ReplayFrame(c) \/ GoLive(c) \/ LiveFrame(c) \/ AuthorityReset(c)

Next ==
  \/ \E b \in Lanes : PublishWithoutRoom(b) \/ ProducerFailure(b)
                      \/ \E t \in Topics : Publish(b, t)
  \/ \E c \in Clients :
       \/ Stream(c) \/ Disconnect(c) \/ LoseAuthority(c) \/ Forget(c)
       \/ \E b \in Lanes, topics \in Filters : Open(c, b, topics)
  \/ \E l \in Legacies : LegacySubscribe(l) \/ LegacyReceive(l) \/ LegacyUnsubscribe(l)
  \/ Restart

Spec == Init /\ [][Next]_vars

-----------------------------------------------------------------------------
(* Properties.                                                              *)

\* Types, and every bound of the bus: lanes, replay over all the lanes, queues
\* and subscribers keep to SSE_BOUND.  A lane is not evicted under its
\* subscribers, so that a publisher finds them and close_stream finds their queue.
TypeOK ==
  /\ sequence \in 0..MaxEvents /\ Len(log) = sequence /\ epoch \in 1..(MaxRestarts + 1)
  /\ Len(order) <= SSE_BOUND /\ Elements(order) \subseteq Lanes
  /\ \A b \in Lanes : Elements(lane[b].replay) \subseteq 1..sequence
  /\ ReplaySize(lane) <= SSE_BOUND /\ SubscriberCount <= SSE_BOUND
  /\ \A c \in Clients :
       /\ client[c].pc \in {"away", "replaying", "live"}
       /\ Len(client[c].queue) <= SSE_BOUND
       /\ Elements(client[c].queue) \subseteq 0..sequence
  /\ \A l \in Legacies : Len(legacy[l].queue) <= SSE_BOUND
  /\ \A c \in Clients : client[c].subscribed => Known(client[c].lane)

Pending(c) == client[c].replay \o client[c].queue
Missing(c) ==
  {n \in 1..sequence : /\ n > client[c].position /\ log[n].lane = client[c].lane
                       /\ Wants(client[c].topics, n)}
Exact(c) ==
  \/ Reset \in Elements(Pending(c))
  \/ InOrder(Pending(c)) /\ Elements(Pending(c)) = Missing(c)

\* A stream that started afresh or resumed from an event still in the replay
\* buffer gets every event of its lane and topics after its position, once and
\* in order, or an explicit reset; and a stream that no longer gets events has
\* its reset waiting: no browser is left on heartbeats believing it is up to date.
StreamIsExact ==
  \A c \in Clients :
     /\ client[c].via \in {"start", "window"} => Exact(c)
     /\ client[c].pc # "away" /\ ~client[c].subscribed => Reset \in Elements(Pending(c))

\* The same of every stream, including those that resumed at the floor.
NothingMissed == \A c \in Clients : client[c].pc # "away" => Exact(c)

\* No frame leaves after the authority of the stream was lost, even for an item
\* that was queued before.
FrameHasAuthority ==
  \A c \in Clients :
     client'[c].pc # "away" /\ client'[c].pc = client[c].pc
       /\ client'[c].position # client[c].position => client[c].authority
NoFrameWithoutAuthority == [][FrameHasAuthority]_vars

\* However slow, a legacy page still has the latest public event to hear of,
\* so its last refresh is never older than the board.
LegacyHearsLatest ==
  \A l \in Legacies :
     LET public == {n \in 1..sequence : n > legacy[l].since /\ log[n].lane = PublicLane}
     IN  legacy[l].on /\ public # {} =>
           \E n \in public :
              /\ \A m \in public : m <= n
              /\ legacy[l].heard = n
                 \/ (legacy[l].queue # <<>> /\ legacy[l].queue[Len(legacy[l].queue)] = n)
=============================================================================
