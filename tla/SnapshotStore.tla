--------------------------- MODULE SnapshotStore ---------------------------
(***************************************************************************)
(* The store of immutable report snapshots                                  *)
(* (src/src/skdashboard/dashboard_reports.py): put creates a file that must  *)
(* not exist and writes it in place, get reads and validates one file, list  *)
(* reads them all.                                                          *)
(*                                                                         *)
(* Writers are separate processes (the command line generator) and readers   *)
(* are requests of the dashboard; a writer may die or fail between any two   *)
(* system calls.  A snapshot's identifier is the hash of its content, so it  *)
(* determines the content and the snapshot it supersedes; a file shorter     *)
(* than its content parses as no snapshot.                                  *)
(***************************************************************************)
EXTENDS Naturals, FiniteSets

CONSTANTS
  Snapshots,     \* identifiers of valid snapshots
  Prior,         \* the snapshot each one supersedes, or NoSnapshot
  NoSnapshot,
  Processes,     \* callers of the store
  MaxSnapshots   \* files list reads at most

ASSUME SnapshotsAssumption == IsFiniteSet(Snapshots)
ASSUME PriorAssumption ==
  /\ NoSnapshot \notin Snapshots
  /\ Prior \in [Snapshots -> Snapshots \cup {NoSnapshot}]
ASSUME MaxAssumption == MaxSnapshots \in Nat \ {0}

VARIABLES
  files,       \* state of <snapshot>.json
  proc,        \* the local variables of each process
  written      \* snapshots whose put returned them

vars == <<files, proc, written>>

FileState == {"absent", "partial", "whole"}
Idle == [pc |-> "idle", snapshot |-> NoSnapshot, todo |-> {}, found |-> {}, owed |-> {}]
Answer == {"stored", "missing", "malformed", "interrupted", "listed", "too_many"}

Init ==
  /\ files = [s \in Snapshots |-> "absent"]
  /\ proc = [p \in Processes |-> Idle]
  /\ written = {}

Present == {s \in Snapshots : files[s] # "absent"}
Whole == {s \in Snapshots : files[s] = "whole"}

Goto(p, pc) == proc' = [proc EXCEPT ![p].pc = pc]

-----------------------------------------------------------------------------
(* put.                                                                     *)

Put(p) ==
  /\ proc[p].pc = "idle"
  /\ \E s \in Snapshots :
       proc' = [proc EXCEPT ![p] = [Idle EXCEPT
                  !.pc = IF Prior[s] = NoSnapshot THEN "create" ELSE "prior",
                  !.snapshot = s]]
  /\ UNCHANGED <<files, written>>

\* Mutant: the superseded snapshot is only looked for, not read.
PriorExists(p) ==
  /\ proc[p].pc = "prior"
  /\ Goto(p, IF files[Prior[proc[p].snapshot]] = "absent" THEN "missing" ELSE "create")
  /\ UNCHANGED <<files, written>>

\* get of the superseded snapshot.
ReadPrior(p) ==
  /\ proc[p].pc = "prior"
  /\ LET file == files[Prior[proc[p].snapshot]] IN
       \/ file = "absent" /\ Goto(p, "missing")
       \/ file = "partial" /\ Goto(p, "malformed")
       \/ file = "whole" /\ Goto(p, "create")
  /\ UNCHANGED <<files, written>>

\* Mutant: the file is opened for writing whether it exists or not.
Truncate(p) ==
  /\ proc[p].pc = "create"
  /\ files' = [files EXCEPT ![proc[p].snapshot] = "partial"] /\ Goto(p, "write")
  /\ UNCHANGED written

\* open with O_CREAT | O_EXCL: the file is new, or the existing one is read.
Create(p) ==
  /\ proc[p].pc = "create"
  /\ \/ /\ files[proc[p].snapshot] = "absent"
        /\ files' = [files EXCEPT ![proc[p].snapshot] = "partial"]
        /\ Goto(p, "write")
     \/ /\ files[proc[p].snapshot] # "absent"
        /\ Goto(p, "existing") /\ UNCHANGED files
  /\ UNCHANGED written

ReadExisting(p) ==
  /\ proc[p].pc = "existing"
  /\ \/ /\ files[proc[p].snapshot] = "whole"
        /\ Goto(p, "stored") /\ written' = written \cup {proc[p].snapshot}
     \/ /\ files[proc[p].snapshot] = "partial"
        /\ Goto(p, "malformed") /\ UNCHANGED written
  /\ UNCHANGED files

\* The writes end, after all of the content or before.
FileWritten(p) == files' = [files EXCEPT ![proc[p].snapshot] = "whole"]

Write(p) ==
  /\ proc[p].pc = "write"
  /\ FileWritten(p) /\ Goto(p, "stored") /\ written' = written \cup {proc[p].snapshot}

\* A write, the fsync or the close fails.
WriteFails(p) ==
  /\ proc[p].pc = "write"
  /\ FileWritten(p) \/ UNCHANGED files
  /\ Goto(p, "interrupted")
  /\ UNCHANGED written

\* The process dies; what it wrote remains.
Crash(p) ==
  /\ proc[p].pc \in {"prior", "create", "existing", "write", "list"}
  /\ UNCHANGED files \/ (proc[p].pc = "write" /\ FileWritten(p))
  /\ proc' = [proc EXCEPT ![p] = Idle]
  /\ UNCHANGED written

-----------------------------------------------------------------------------
(* list.                                                                    *)

\* The directory is read once; the files are read one by one afterwards.
List(p) ==
  /\ proc[p].pc = "idle"
  /\ proc' = [proc EXCEPT ![p] =
                IF Cardinality(Present) > MaxSnapshots
                THEN [Idle EXCEPT !.pc = "too_many"]
                ELSE [Idle EXCEPT !.pc = "list", !.todo = Present, !.owed = written]]
  /\ UNCHANGED <<files, written>>

\* Mutant: a file that does not parse is returned as it is.
ListUnread(p) ==
  /\ proc[p].pc = "list"
  /\ proc' = [proc EXCEPT ![p].pc = "listed", ![p].found = proc[p].todo]
  /\ UNCHANGED <<files, written>>

WithFile(p, s) ==
  [pc |-> "list", snapshot |-> NoSnapshot, todo |-> proc[p].todo \ {s},
   found |-> proc[p].found \cup {s}, owed |-> proc[p].owed]

\* One file that is not a snapshot fails the whole list.
ListNext(p) ==
  /\ proc[p].pc = "list"
  /\ \/ proc[p].todo = {} /\ Goto(p, "listed")
     \/ \E s \in proc[p].todo :
          proc' = IF files[s] = "whole"
                  THEN [proc EXCEPT ![p] = WithFile(p, s)]
                  ELSE [proc EXCEPT ![p].pc = "malformed"]
  /\ UNCHANGED <<files, written>>

\* The caller has its answer.
Finish(p) ==
  /\ proc[p].pc \in Answer
  /\ proc' = [proc EXCEPT ![p] = Idle]
  /\ UNCHANGED <<files, written>>

Step(p) ==
  \/ Put(p) \/ ReadPrior(p) \/ Create(p) \/ ReadExisting(p) \/ Write(p) \/ WriteFails(p)
  \/ Crash(p) \/ List(p) \/ ListNext(p) \/ Finish(p)

Next == \E p \in Processes : Step(p)

Spec == Init /\ [][Next]_vars

-----------------------------------------------------------------------------
(* Properties.                                                              *)

\* Types; list never has more than MaxSnapshots files before it.
Pc == {"idle", "prior", "create", "existing", "write", "list"} \cup Answer
Budgeted == {t \in SUBSET Snapshots : Cardinality(t) <= MaxSnapshots}
Process == [pc : Pc, snapshot : Snapshots \cup {NoSnapshot}, todo : Budgeted,
            found : SUBSET Snapshots, owed : SUBSET Snapshots]

TypeOK ==
  /\ files \in [Snapshots -> FileState]
  /\ proc \in [Processes -> Process]
  /\ written \in SUBSET Snapshots

\* A file under construction has one writer at most, whatever other processes
\* put: no two processes interleave their writes.
OneWriter ==
  \A p, q \in Processes :
    proc[p].pc = "write" /\ proc[q].pc = "write" /\ p # q =>
      proc[p].snapshot # proc[q].snapshot

\* Both sides of a supersession stay readable: a correction exists only when
\* the snapshot it corrects can be read.
PriorIsReadable ==
  \A s \in Present : Prior[s] # NoSnapshot => files[Prior[s]] = "whole"

\* A put that returned has stored the snapshot, also when it found the file of
\* another process.
StoredIsReadable == written \subseteq Whole

\* A list that succeeds has every snapshot whose put had returned when it
\* started, and nothing but whole snapshots.
ListIsComplete ==
  \A p \in Processes : proc[p].pc = "listed" =>
    proc[p].owed \subseteq proc[p].found /\ proc[p].found \subseteq Whole

\* What each process knows of the files at each of its steps.
ProcInv(p) ==
  LET s == proc[p].snapshot IN
    /\ proc[p].pc \in {"prior", "create", "existing", "write"} => s \in Snapshots
    /\ proc[p].pc = "prior" => Prior[s] # NoSnapshot
    /\ proc[p].pc \in {"create", "existing", "write"} /\ Prior[s] # NoSnapshot =>
         files[Prior[s]] = "whole"
    /\ proc[p].pc = "existing" => files[s] # "absent"
    /\ proc[p].pc = "write" => files[s] = "partial"
    /\ proc[p].pc = "list" => proc[p].owed \subseteq proc[p].found \cup proc[p].todo
    /\ proc[p].pc = "listed" => proc[p].owed \subseteq proc[p].found
    /\ proc[p].found \subseteq Whole

\* The inductive invariant.
IInv ==
  /\ TypeOK /\ OneWriter /\ PriorIsReadable /\ StoredIsReadable
  /\ \A p \in Processes : ProcInv(p)

\* A stored snapshot is never rewritten.
WholeStaysWhole == [][Whole \subseteq Whole']_vars
=============================================================================
