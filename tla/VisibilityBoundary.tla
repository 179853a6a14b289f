------------------------- MODULE VisibilityBoundary -------------------------
(***************************************************************************)
(* Bounded execution of the visibility providers                            *)
(* (src/src/skdashboard/visibility_execution.py): a bounded semaphore admits *)
(* calls, a thread pool runs the provider, each attempt has a timeout, an    *)
(* exception is retried, and the slot of a call that timed out stays taken   *)
(* until its provider really returns.                                        *)
(*                                                                         *)
(* Callers and pool threads are real threads: every step between two         *)
(* operations on the semaphore, the pool or a future is an action.  A future *)
(* is the pair of a call and the number of its attempt.                      *)
(***************************************************************************)
EXTENDS Naturals, Sequences, FiniteSets

CONSTANTS
  Calls,           \* invocations of the boundary, one per request
  MaxConcurrency,  \* threads of the pool
  MaxQueue,        \* calls admitted beyond them
  Retries          \* attempts after the first

ASSUME CallsAssumption == IsFiniteSet(Calls)
ASSUME BoundsAssumption ==
  MaxConcurrency \in Nat \ {0} /\ MaxQueue \in Nat /\ Retries \in Nat

Capacity == MaxConcurrency + MaxQueue

VARIABLES
  slots,      \* free permits of _slots
  call,       \* the local variables of each invoke
  future,     \* the state of the provider call each attempt submitted
  released    \* the calls whose future releases the slot when it is done

vars == <<slots, call, future, released>>

Attempts == 1..(Retries + 1)
Outcome == {"current", "stale", "malformed", "raised", "raised_timeout"}
FutureState == {"none", "queued", "running"} \cup Outcome
CallState == {"idle", "submitting", "waiting", "abandoning", "ended"}
Result == {"none", "current", "overloaded", "timeout", "failed", "malformed", "stale"}

Init ==
  /\ slots = Capacity
  /\ call = [c \in Calls |-> [pc |-> "idle", attempt |-> 0, result |-> "none"]]
  /\ future = [c \in Calls |-> [n \in Attempts |-> "none"]]
  /\ released = {}

Active(c) == \E n \in Attempts : future[c][n] \in {"queued", "running"}
Running == {run \in Calls \X Attempts : future[run[1]][run[2]] = "running"}
Current(c) == future[c][call[c].attempt]

\* success and _failure; the evidence log is no state of the boundary, and a
\* failure is the same whether or not its evidence could be written.
Ended(c, result) ==
  call' = [call EXCEPT ![c] = [pc |-> "ended", attempt |-> call[c].attempt,
                               result |-> result]]

-----------------------------------------------------------------------------
(* invoke.                                                                  *)

Admit(c) ==
  /\ call[c].pc = "idle" /\ slots > 0
  /\ slots' = slots - 1
  /\ call' = [call EXCEPT ![c] = [pc |-> "submitting", attempt |-> 1, result |-> "none"]]
  /\ UNCHANGED <<future, released>>

Overload(c) ==
  /\ call[c].pc = "idle" /\ slots = 0
  /\ Ended(c, "overloaded")
  /\ UNCHANGED <<slots, future, released>>

Submit(c) ==
  /\ call[c].pc = "submitting"
  /\ future' = [future EXCEPT ![c][call[c].attempt] = "queued"]
  /\ call' = [call EXCEPT ![c].pc = "waiting"]
  /\ UNCHANGED <<slots, released>>

\* The provider's answer was judged: success, or a terminal failure.  The
\* finally clause gives the slot back.
Judge(c) ==
  /\ call[c].pc = "waiting"
  /\ slots' = slots + 1
  /\ \/ Current(c) = "current" /\ Ended(c, "current")
     \/ Current(c) = "stale" /\ Ended(c, "stale")
     \/ Current(c) = "malformed" /\ Ended(c, "malformed")
     \/ /\ Current(c) = "raised" /\ call[c].attempt > Retries
        /\ Ended(c, "failed")
  /\ UNCHANGED <<future, released>>

\* An exception is retried with the slot still held.
Retry(c) ==
  /\ call[c].pc = "waiting" /\ Current(c) = "raised" /\ call[c].attempt <= Retries
  /\ call' = [call EXCEPT ![c] = [pc |-> "submitting", attempt |-> call[c].attempt + 1,
                                  result |-> "none"]]
  /\ UNCHANGED <<slots, future, released>>

\* Mutant: a timeout is retried like any exception.
RetryAfterTimeout(c) ==
  /\ call[c].pc = "waiting" /\ Current(c) \notin {"current", "stale", "malformed"}
  /\ call' = IF call[c].attempt <= Retries
             THEN [call EXCEPT ![c].pc = "submitting", ![c].attempt = @ + 1]
             ELSE [call EXCEPT ![c].pc = "abandoning"]
  /\ UNCHANGED <<slots, future, released>>

\* Mutant: only a call that a thread has taken times out.
TimeOutWhenRunning(c) ==
  /\ call[c].pc = "waiting"
  /\ Current(c) \in {"running", "raised_timeout"}
  /\ call' = [call EXCEPT ![c].pc = "abandoning"]
  /\ UNCHANGED <<slots, future, released>>

\* The wait timed out, or the provider itself raised a TimeoutError, which is
\* the same class since Python 3.11.
TimeOut(c) ==
  /\ call[c].pc = "waiting"
  /\ Current(c) \in {"queued", "running", "raised_timeout"}
  /\ call' = [call EXCEPT ![c].pc = "abandoning"]
  /\ UNCHANGED <<slots, future, released>>

\* Mutant: a future that finished before its callback was added is forgotten.
AbandonUnlessDone(c) ==
  /\ call[c].pc = "abandoning"
  /\ released' = IF Active(c) THEN released \cup {c} ELSE released
  /\ Ended(c, "timeout")
  /\ UNCHANGED <<slots, future>>

\* add_done_callback: a future that is already done runs it at once.
Abandon(c) ==
  /\ call[c].pc = "abandoning"
  /\ IF Active(c)
     THEN released' = released \cup {c} /\ UNCHANGED slots
     ELSE slots' = slots + 1 /\ UNCHANGED released
  /\ Ended(c, "timeout")
  /\ UNCHANGED future

-----------------------------------------------------------------------------
(* The thread pool.                                                         *)

\* A free thread takes a submitted call.
Start(c, n) ==
  /\ future[c][n] = "queued" /\ Cardinality(Running) < MaxConcurrency
  /\ future' = [future EXCEPT ![c][n] = "running"]
  /\ UNCHANGED <<slots, call, released>>

\* The provider returns or raises; the callback of an abandoned call runs.
Return(c, n) ==
  /\ future[c][n] = "running"
  /\ \E outcome \in Outcome : future' = [future EXCEPT ![c][n] = outcome]
  /\ IF c \in released
     THEN slots' = slots + 1 /\ released' = released \ {c}
     ELSE UNCHANGED <<slots, released>>
  /\ UNCHANGED call

Invoke(c) == \/ Submit(c) \/ Judge(c) \/ Retry(c) \/ TimeOut(c) \/ Abandon(c)

Next ==
  \/ \E c \in Calls : Admit(c) \/ Overload(c) \/ Invoke(c)
  \/ \E c \in Calls, n \in Attempts : Start(c, n) \/ Return(c, n)

Spec == Init /\ [][Next]_vars

\* A caller that was admitted goes on, at the latest by its timeout.
CallerFairness == \A c \in Calls : WF_vars(Invoke(c))
FairSpec == Spec /\ CallerFairness

-----------------------------------------------------------------------------
(* Properties.                                                              *)

\* Types; slots within the bound of the semaphore means that no release is
\* one too many, which a BoundedSemaphore answers with ValueError.
TypeOK ==
  /\ slots \in 0..Capacity
  /\ call \in [Calls -> [pc : CallState, attempt : 0..(Retries + 1), result : Result]]
  /\ future \in [Calls -> [Attempts -> FutureState]]
  /\ released \in SUBSET Calls

\* The calls that hold a slot: those under way, and those abandoned whose
\* provider has not returned.
Holders == {c \in Calls : call[c].pc \in {"submitting", "waiting", "abandoning"}}
             \cup released

\* Every slot is free or has exactly one holder: none leaks and none is given
\* back twice, whichever of the timeout, the provider's return and the
\* registration of the callback comes first.
SlotsAccounted == slots + Cardinality(Holders) = Capacity

\* All the provider work that is queued or running belongs to a call that holds
\* a slot, one attempt at a time: hung providers cannot pile up.
WorkIsHeld ==
  \A c \in Calls : \A n \in Attempts :
     future[c][n] \in {"queued", "running"} =>
       c \in Holders /\ \A m \in Attempts : m # n =>
                           future[c][m] \notin {"queued", "running"}

\* What holds of each call: only its last attempt can be under way, and only
\* while the caller waits for it or the slot waits for its provider.
CallInv(c) ==
  LET n == call[c].attempt IN
    /\ call[c].pc = "idle" => n = 0
    /\ call[c].pc \in {"submitting", "waiting", "abandoning"} => n \in Attempts
    /\ call[c].pc = "submitting" => future[c][n] = "none"
    /\ \A m \in Attempts : m < n => future[c][m] = "raised"
    /\ \A m \in Attempts : m > n => future[c][m] = "none"
    /\ \A m \in Attempts : future[c][m] \in {"queued", "running"} =>
         m = n /\ (call[c].pc \in {"waiting", "abandoning"} \/ c \in released)
    /\ c \in released => call[c].pc = "ended" /\ n \in Attempts
                           /\ future[c][n] \in {"queued", "running"}

\* The inductive invariant.
IInv == TypeOK /\ SlotsAccounted /\ \A c \in Calls : CallInv(c)

\* A timeout is not retried, since the first call may still be running.
TimeoutIsFinal ==
  [][\A c \in Calls : \A n \in Attempts :
       future[c][n] = "none" /\ future'[c][n] # "none" =>
         \A m \in Attempts : m < n => future[c][m] = "raised"]_vars

\* Every admitted call is answered, even if its provider never returns.
AdmittedIsAnswered ==
  \A c \in Calls : call[c].pc = "submitting" ~> call[c].pc = "ended"

=============================================================================
