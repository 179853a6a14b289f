------------------------------ MODULE BoardPoll -----------------------------
(***************************************************************************)
(* poll_event_store of dashboard_kanban.py: once a second the dashboard sums     *)
(* the modification times of all card logs, in whole seconds, and publishes       *)
(* board_changed when the sum is another.  Writers on this host and logs that     *)
(* Syncthing brings from others change the files at any time.                  *)
(***************************************************************************)
EXTENDS Integers, Functions

CONSTANTS
  Logs,
  MaxClock,   \* bound of the clock, in seconds
  MaxAppends, \* bound: appends within one second
  MaxMissed   \* bound: looks in which the stat of some log fails

VARIABLES
  clock,
  mtime,    \* whole-second modification time of each log
  appends,  \* appends in this second
  last,     \* the fingerprint the task compares with
  untold,   \* growths that no board_changed has told
  dropped,  \* those of them the task will not find again: their publication raised
  missed,   \* looks that passed over a log
  poll      \* what the task has read, and what grew since

vars == <<clock, mtime, appends, last, untold, dropped, missed, poll>>

\* A log grew, and its time is now later than it was, the same or older.
Growth == [log : Logs, second : {"later", "same", "older"}]
Later(l) == [log |-> l, second |-> "later"]
Older(l) == [log |-> l, second |-> "older"]

Times(logs) == SumFunctionOnSet(mtime, logs)

Asleep == [pc |-> "asleep"]

Init ==
  /\ clock = 0
  /\ mtime = [l \in Logs |-> 0]
  /\ appends = 0
  /\ last = Times(Logs)
  /\ untold = {}
  /\ dropped = {}
  /\ missed = 0
  /\ poll = Asleep

Step(old, new) == IF new > old THEN "later" ELSE IF new = old THEN "same" ELSE "older"

Grow(l, second) ==
  LET growth == [log |-> l, second |-> Step(mtime[l], second)] IN
  /\ appends < MaxAppends
  /\ appends' = appends + 1
  /\ mtime' = [mtime EXCEPT ![l] = second]
  /\ untold' = untold \cup {growth}
  /\ dropped' = dropped \ {growth}
  /\ poll' = IF poll = Asleep THEN poll ELSE [poll EXCEPT !.since = @ \cup {growth}]
  /\ UNCHANGED <<clock, last, missed>>

\* External: a writer of this host appends.
AppendEvent(l) == Grow(l, clock)

\* External: Syncthing brings a log with the time of the host that wrote it, which may
\* be older than the time the log has here, or ahead of this host's clock.
Synchronise(l) == \E second \in 0..MaxClock : Grow(l, second)

\* _cards_fingerprint: the task wakes and sums the times; a log whose stat fails is
\* passed over.
Look(readable) ==
  /\ poll = Asleep
  /\ IF readable = Logs THEN UNCHANGED missed
                        ELSE missed < MaxMissed /\ missed' = missed + 1
  /\ poll' = [pc |-> "read", sum |-> Times(readable), since |-> {}]
  /\ UNCHANGED <<clock, mtime, appends, last, untold, dropped>>

\* Mutant: what is remembered is read again when it is published.
PublishAndLookAgain ==
  /\ poll # Asleep
  /\ IF poll.sum # last
       THEN last' = Times(Logs) /\ untold' = poll.since /\ dropped' = {}
       ELSE UNCHANGED <<last, untold, dropped>>
  /\ poll' = Asleep
  /\ UNCHANGED <<clock, mtime, appends, missed>>
Publish ==
  /\ poll # Asleep
  /\ IF poll.sum # last
       THEN last' = poll.sum /\ untold' = poll.since /\ dropped' = {}
       ELSE UNCHANGED <<last, untold, dropped>>
  /\ poll' = Asleep
  /\ UNCHANGED <<clock, mtime, appends, missed>>

\* BUS.publish raises: the sum is already remembered, so what grew is not looked at again.
PublishRaises ==
  /\ poll # Asleep
  /\ poll.sum # last
  /\ last' = poll.sum
  /\ dropped' = dropped \cup (untold \ poll.since)
  /\ poll' = Asleep
  /\ UNCHANGED <<clock, mtime, appends, untold, missed>>

Tick ==
  /\ clock < MaxClock
  /\ clock' = clock + 1
  /\ appends' = 0
  /\ UNCHANGED <<mtime, last, untold, dropped, missed, poll>>

Next ==
  \/ \E l \in Logs : AppendEvent(l) \/ Synchronise(l)
  \/ \E readable \in SUBSET Logs : Look(readable)
  \/ Publish \/ PublishRaises \/ Tick

\* The task sleeps a second and looks again, as long as the process lives.
Fairness ==
  /\ WF_vars(\E readable \in SUBSET Logs : Look(readable))
  /\ WF_vars(Publish \/ PublishRaises)

FairSpec == Init /\ [][Next]_vars /\ Fairness

-----------------------------------------------------------------------------
(* A growth that gives its log a later second than it had is published, unless  *)
(* some log went back to an older second that is not told either (the two may   *)
(* leave the sum as it was), or the publication that was to tell it raised.     *)
LaterSecondIsTold ==
  \A l \in Logs :
    Later(l) \in untold ~>
      \/ Later(l) \notin untold
      \/ \E other \in Logs : Older(other) \in untold
      \/ Later(l) \in dropped

=============================================================================
