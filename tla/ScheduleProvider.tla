-------------------------- MODULE ScheduleProvider --------------------------
(***************************************************************************)
(* The schedule provider (src/src/skdashboard/dashboard_schedule.py): a       *)
(* request runs on one bounded executor and reads its owner on a second one,  *)
(* each with its own timeout.  Nobody cancels a job: one whose caller timed    *)
(* out is still run, and an owner read that hangs keeps its thread.          *)
(*                                                                         *)
(* Callers and executor threads are real threads.  A call makes at most one   *)
(* job of each executor, so its identifier names both.                       *)
(***************************************************************************)
EXTENDS Naturals, Sequences, FiniteSets

CONSTANTS
  Requests,  \* calls of read
  Workers    \* threads of each executor, and places in its queue, one at least

VARIABLES
  caller,   \* what the caller of each request knows: waiting, or its answer
  jobs,     \* the queue of each executor
  job,      \* step of the request job on its thread
  owner,    \* state of the owner read of each request
  current   \* what the currentness verifier would answer for each request

vars == <<caller, jobs, job, owner, current>>

Executor == {"request", "owner"}
Caller == {"idle", "waiting", "projection", "unavailable"}
JobStep == {"none", "queued", "start", "reading", "checking", "released", "failed"}

\* An owner read is not submitted, under way, or over: it raised, or returned a
\* snapshot that _project takes, or one that it refuses; whatever it finds wrong, a
\* ValueError or a PermissionError, makes the projection unavailable.
OwnerState == {"none", "queued", "running", "raised", "whole", "faulty"}
Done == {"raised", "whole", "faulty"}

Init ==
  /\ caller = [r \in Requests |-> "idle"]
  /\ jobs = [e \in Executor |-> <<>>]
  /\ job = [r \in Requests |-> "none"]
  /\ owner = [r \in Requests |-> "none"]
  /\ current \in [Requests -> BOOLEAN]

RequestThreads == {r \in Requests : job[r] \in {"start", "reading", "checking"}}
OwnerThreads == {r \in Requests : owner[r] = "running"}
HasPlace(e) == Len(jobs[e]) < Workers
Put(e, r) == jobs' = [jobs EXCEPT ![e] = Append(@, r)]
Take(e, r) == jobs[e] # <<>> /\ Head(jobs[e]) = r /\ jobs' = [jobs EXCEPT ![e] = Tail(@)]
Step(r, to) == job' = [job EXCEPT ![r] = to]

-----------------------------------------------------------------------------
(* The caller.                                                             *)

\* put_nowait: a full queue is a timeout at once.
Read(r) ==
  /\ caller[r] = "idle"
  /\ \/ /\ HasPlace("request")
        /\ caller' = [caller EXCEPT ![r] = "waiting"]
        /\ Put("request", r) /\ Step(r, "queued")
     \/ /\ ~HasPlace("request")
        /\ caller' = [caller EXCEPT ![r] = "unavailable"]
        /\ UNCHANGED <<jobs, job>>
  /\ UNCHANGED <<owner, current>>

\* The result of the job, or the end of the wait, whichever comes first.
Receive(r) ==
  /\ caller[r] = "waiting" /\ job[r] \in {"released", "failed"}
  /\ caller' = [caller EXCEPT ![r] =
                  IF job[r] = "released" THEN "projection" ELSE "unavailable"]
  /\ UNCHANGED <<jobs, job, owner, current>>

TimeOut(r) ==
  /\ caller[r] = "waiting" /\ job[r] \notin {"released", "failed"}
  /\ caller' = [caller EXCEPT ![r] = "unavailable"]
  /\ UNCHANGED <<jobs, job, owner, current>>

-----------------------------------------------------------------------------
(* The job of a request: _read.                                             *)

Start(r) ==
  /\ Cardinality(RequestThreads) < Workers
  /\ Take("request", r) /\ Step(r, "start")
  /\ UNCHANGED <<caller, owner, current>>

\* Mutant: the read waits for a place instead of failing.
BeginWaiting(r) ==
  /\ job[r] = "start"
  /\ \/ /\ current[r] /\ HasPlace("owner")
        /\ Put("owner", r) /\ Step(r, "reading")
        /\ owner' = [owner EXCEPT ![r] = "queued"]
     \/ Step(r, "failed") /\ ~current[r] /\ UNCHANGED <<jobs, owner>>
  /\ UNCHANGED <<caller, current>>

\* _request, the check before the owner read, and the submission of the read.
Begin(r) ==
  /\ job[r] = "start"
  /\ \/ /\ current[r] /\ HasPlace("owner")
        /\ Put("owner", r) /\ Step(r, "reading")
        /\ owner' = [owner EXCEPT ![r] = "queued"]
     \/ Step(r, "failed") /\ UNCHANGED <<jobs, owner>>
  /\ UNCHANGED <<caller, current>>

\* The wait for the owner ends first; its job goes on.
OwnerTimeOut(r) ==
  /\ job[r] = "reading" /\ owner[r] \in {"queued", "running"}
  /\ Step(r, "failed")
  /\ UNCHANGED <<caller, jobs, owner, current>>

\* _project.
Project(r) ==
  /\ job[r] = "reading" /\ owner[r] \in Done
  /\ Step(r, IF owner[r] = "whole" THEN "checking" ELSE "failed")
  /\ UNCHANGED <<caller, jobs, owner, current>>

\* Mutant: the check before the owner read is enough.
ReleaseUnchecked(r) ==
  /\ job[r] = "checking" /\ Step(r, "released")
  /\ UNCHANGED <<caller, jobs, owner, current>>

\* The check after the projection, immediately before release.
Release(r) ==
  /\ job[r] = "checking"
  /\ Step(r, IF current[r] THEN "released" ELSE "failed")
  /\ UNCHANGED <<caller, jobs, owner, current>>

-----------------------------------------------------------------------------
(* The owner's threads, and authority.                                       *)

OwnerStart(r) ==
  /\ Cardinality(OwnerThreads) < Workers
  /\ Take("owner", r) /\ owner' = [owner EXCEPT ![r] = "running"]
  /\ UNCHANGED <<caller, job, current>>

OwnerReturn(r) ==
  /\ owner[r] = "running"
  /\ \E end \in Done : owner' = [owner EXCEPT ![r] = end]
  /\ UNCHANGED <<caller, jobs, job, current>>

Revoke(r) ==
  /\ current[r] /\ current' = [current EXCEPT ![r] = FALSE]
  /\ UNCHANGED <<caller, jobs, job, owner>>

Serve(r) == Start(r) \/ Begin(r) \/ OwnerTimeOut(r) \/ Project(r) \/ Release(r)
Wait(r) == Receive(r) \/ TimeOut(r)

Next == \E r \in Requests :
  \/ Read(r) \/ Wait(r) \/ Serve(r)
  \/ OwnerStart(r) \/ OwnerReturn(r) \/ Revoke(r)

Spec == Init /\ [][Next]_vars

\* Both waits are bounded and free threads take jobs; nothing is assumed of the
\* owner, whose reads may hang.
Fairness == \A r \in Requests : WF_vars(Wait(r)) /\ WF_vars(Serve(r))
FairSpec == Spec /\ Fairness

-----------------------------------------------------------------------------
(* Properties.                                                              *)

\* A projection reaches its caller only if the owner was read for it while the
\* verifier allowed and the verifier allowed again after the read.
ReleasedUnderAuthority ==
  [][\A r \in Requests :
       /\ job'[r] = "released" /\ job[r] # "released" => current[r] /\ owner[r] = "whole"
       /\ caller'[r] = "projection" => job[r] = "released"]_vars

\* However many owner reads hang, a thread that took a request gives it up, so
\* requests are answered on their merits or refused, never served by nobody.
RequestThreadsReturn ==
  \A r \in Requests : job[r] = "queued" ~> job[r] \in {"released", "failed"}
=============================================================================
