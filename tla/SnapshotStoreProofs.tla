------------------------ MODULE SnapshotStoreProofs ------------------------
(***************************************************************************)
(* Proofs about SnapshotStore, for every set of snapshots, every relation of *)
(* supersession, every number of processes and every budget.                *)
(***************************************************************************)
EXTENDS SnapshotStore, FiniteSetTheorems, TLAPS

\* Taking a file off the list of those to read keeps the list within budget.
LEMMA BudgetedSubset ==
  ASSUME NEW t \in Budgeted, NEW u \in SUBSET t
  PROVE  u \in Budgeted
<1>1. IsFiniteSet(t)
  BY SnapshotsAssumption, FS_Subset DEF Budgeted
<1>2. Cardinality(u) \in Nat /\ Cardinality(t) \in Nat /\ Cardinality(u) <= Cardinality(t)
  BY <1>1, FS_Subset, FS_CardinalityType
<1>. QED BY <1>2, MaxAssumption DEF Budgeted

\* An idle process has its type.
LEMMA IdleType == Idle \in Process
<1>1. {} \in Budgeted
  BY FS_EmptySet, MaxAssumption DEF Budgeted
<1>. QED BY <1>1 DEF Idle, Process, Pc

\* Reading one more file of a list.
LEMMA WithFileType ==
  ASSUME TypeOK, NEW p \in Processes, NEW s \in proc[p].todo
  PROVE  WithFile(p, s) \in Process
<1>1. s \in Snapshots /\ proc[p].todo \ {s} \in Budgeted
  BY BudgetedSubset DEF TypeOK, Process, Budgeted
<1>. QED BY <1>1 DEF TypeOK, Process, WithFile, Pc

\* The store starts empty.
LEMMA InitIInv == Init => IInv
<1>. SUFFICES ASSUME Init PROVE IInv
  OBVIOUS
<1>1. TypeOK
  BY IdleType DEF Init, TypeOK, FileState
<1>2. OneWriter /\ PriorIsReadable /\ StoredIsReadable
  BY DEF Init, OneWriter, PriorIsReadable, StoredIsReadable, Present, Whole, Idle
<1>3. ASSUME NEW p \in Processes PROVE ProcInv(p)
  BY DEF Init, ProcInv, Idle, Whole
<1>. QED BY <1>1, <1>2, <1>3 DEF IInv

\* The type of every action: the files and the stored snapshots by inspection,
\* the local variables of a process by the budget of list.
LEMMA TypeStep == ASSUME IInv, [Next]_vars PROVE TypeOK'
<1>. TypeOK
  BY DEF IInv
<1>. USE DEF TypeOK
<1>1. CASE UNCHANGED vars
  BY <1>1 DEF vars
<1>2. ASSUME NEW p \in Processes,
             \/ ReadPrior(p) \/ Create(p) \/ ReadExisting(p) \/ Write(p) \/ WriteFails(p)
      PROVE  TypeOK'
  <2>1. proc[p].pc \in {"create", "existing", "write"} => proc[p].snapshot \in Snapshots
    BY DEF IInv, ProcInv
  <2>2. files' \in [Snapshots -> FileState] /\ written' \in SUBSET Snapshots
    BY <1>2, <2>1
    DEF ReadPrior, Create, ReadExisting, Write, WriteFails, FileWritten, FileState
  <2>3. \E pc \in Pc : proc' = [proc EXCEPT ![p].pc = pc]
    BY <1>2
    DEF ReadPrior, Create, ReadExisting, Write, WriteFails, Goto, Pc, Answer
  <2>4. ASSUME NEW pc \in Pc, proc' = [proc EXCEPT ![p].pc = pc]
        PROVE  proc' \in [Processes -> Process]
    BY <2>4 DEF Process
  <2>. QED BY <2>2, <2>3, <2>4
<1>3. ASSUME NEW p \in Processes, Put(p) \/ Crash(p) \/ Finish(p) PROVE TypeOK'
  <2>1. CASE Put(p)
    <3>. PICK s \in Snapshots :
           proc' = [proc EXCEPT ![p] = [Idle EXCEPT
                      !.pc = IF Prior[s] = NoSnapshot THEN "create" ELSE "prior",
                      !.snapshot = s]]
      BY <2>1 DEF Put
    <3>1. [Idle EXCEPT !.pc = IF Prior[s] = NoSnapshot THEN "create" ELSE "prior",
                       !.snapshot = s] \in Process
      BY IdleType DEF Idle, Process, Pc
    <3>. QED BY <2>1, <3>1 DEF Put
  <2>2. CASE Crash(p) \/ Finish(p)
    BY <2>2, IdleType DEF Crash, Finish, FileWritten, FileState
  <2>. QED BY <1>3, <2>1, <2>2
<1>4. ASSUME NEW p \in Processes, List(p) PROVE TypeOK'
  <2>1. Cardinality(Present) \in Nat
    BY SnapshotsAssumption, FS_Subset, FS_CardinalityType DEF Present
  <2>2. CASE Cardinality(Present) > MaxSnapshots
    <3>1. [Idle EXCEPT !.pc = "too_many"] \in Process
      BY IdleType DEF Idle, Process, Pc, Answer
    <3>. QED BY <1>4, <2>2, <3>1 DEF List
  <2>3. CASE ~(Cardinality(Present) > MaxSnapshots)
    <3>1. Present \in Budgeted
      BY <2>1, <2>3, MaxAssumption DEF Budgeted, Present
    <3>2. [Idle EXCEPT !.pc = "list", !.todo = Present, !.owed = written] \in Process
      BY <3>1, IdleType DEF Idle, Process, Pc
    <3>. QED BY <1>4, <2>3, <3>2 DEF List
  <2>. QED BY <2>2, <2>3
<1>5. ASSUME NEW p \in Processes, ListNext(p) PROVE TypeOK'
  <2>1. UNCHANGED <<files, written>>
    BY <1>5 DEF ListNext
  <2>2. ASSUME NEW pc \in {"listed", "malformed"}, Goto(p, pc)
        PROVE  TypeOK'
    BY <2>1, <2>2 DEF Goto, Process, Pc, Answer
  <2>3. ASSUME NEW s \in proc[p].todo, proc' = [proc EXCEPT ![p] = WithFile(p, s)]
        PROVE  TypeOK'
    <3>1. WithFile(p, s) \in Process
      BY WithFileType
    <3>. QED BY <2>1, <2>3, <3>1
  <2>4. \/ \E pc \in {"listed", "malformed"} : Goto(p, pc)
        \/ \E s \in proc[p].todo : proc' = [proc EXCEPT ![p] = WithFile(p, s)]
    BY <1>5 DEF ListNext, Goto
  <2>. QED BY <2>2, <2>3, <2>4
<1>. QED BY <1>1, <1>2, <1>3, <1>4, <1>5 DEF Next, Step

\* A step of one process leaves the local variables of the others alone.
LEMMA OthersStay ==
  ASSUME TypeOK, NEW p \in Processes, Step(p), NEW q \in Processes, q # p
  PROVE  proc'[q] = proc[q]
<1>1. CASE Put(p) \/ Crash(p) \/ List(p) \/ Finish(p)
  BY <1>1 DEF TypeOK, Put, Crash, List, Finish
<1>2. CASE ReadPrior(p) \/ Create(p) \/ ReadExisting(p) \/ Write(p) \/ WriteFails(p)
  BY <1>2 DEF TypeOK, ReadPrior, Create, ReadExisting, Write, WriteFails, Goto
<1>3. CASE ListNext(p)
  BY <1>3 DEF TypeOK, ListNext, Goto
<1>. QED BY <1>1, <1>2, <1>3 DEF Step

\* Files only become whole, and only their one writer makes them so.
LEMMA FilesStep ==
  ASSUME IInv, NEW p \in Processes, Step(p)
  PROVE  /\ Whole \subseteq Whole'
         /\ Present \subseteq Present'
         /\ \A q \in Processes : q # p => proc'[q] = proc[q]
         /\ \A s \in Snapshots : files'[s] # files[s] =>
              /\ proc[p].snapshot = s
              /\ \/ proc[p].pc = "write" /\ files'[s] = "whole"
                 \/ Create(p) /\ files[s] = "absent"
<1>1. proc[p].pc = "write" => files[proc[p].snapshot] = "partial"
  BY DEF IInv, ProcInv
<1>. \A q \in Processes : q # p => proc'[q] = proc[q]
  BY OthersStay DEF IInv
<1>2. CASE UNCHANGED files
  BY <1>2 DEF Whole, Present
<1>3. CASE Create(p)
  BY <1>3 DEF Create, Whole, Present, IInv, TypeOK
<1>4. CASE FileWritten(p) /\ proc[p].pc = "write"
  BY <1>1, <1>4 DEF FileWritten, Whole, Present, IInv, TypeOK
<1>. QED BY <1>2, <1>3, <1>4
         DEF Step, Put, ReadPrior, ReadExisting, Write, WriteFails, Crash, List, ListNext,
             Finish

\* A process comes to write by creating the file.
LEMMA CreatesToWrite ==
  ASSUME IInv, NEW p \in Processes, Step(p), proc'[p].pc = "write"
  PROVE  Create(p) /\ files[proc[p].snapshot] = "absent"
         /\ proc'[p].snapshot = proc[p].snapshot
<1>. proc \in [Processes -> Process]
  BY DEF IInv, TypeOK
<1>1. ~(Crash(p) \/ Finish(p))
  BY DEF Crash, Finish, Idle
<1>2. ~Put(p)
  BY DEF Put, Idle
<1>3. ~List(p)
  BY DEF List, Idle
<1>4. ~(ReadPrior(p) \/ ReadExisting(p) \/ Write(p) \/ WriteFails(p))
  BY DEF ReadPrior, ReadExisting, Write, WriteFails, Goto, Process
<1>5. ~ListNext(p)
  BY DEF ListNext, WithFile, Goto, Process
<1>. QED BY <1>1, <1>2, <1>3, <1>4, <1>5 DEF Step, Create, Goto, Process

\* The shared half of the invariant.
LEMMA StoreStep ==
  ASSUME IInv, [Next]_vars
  PROVE  OneWriter' /\ PriorIsReadable' /\ StoredIsReadable'
<1>1. CASE UNCHANGED vars
  BY <1>1 DEF vars, IInv, OneWriter, PriorIsReadable, StoredIsReadable, Present, Whole
<1>2. ASSUME NEW p \in Processes, Step(p)
      PROVE  OneWriter' /\ PriorIsReadable' /\ StoredIsReadable'
  <2>. USE <1>2
  <2>1. OneWriter'
    <3>1. ASSUME NEW q \in Processes, q # p,
                 proc'[p].pc = "write", proc'[q].pc = "write",
                 proc'[p].snapshot = proc'[q].snapshot
          PROVE  FALSE
      <4>1. proc'[q] = proc[q] /\ files[proc[q].snapshot] = "partial"
        BY <3>1, FilesStep DEF IInv, ProcInv
      <4>2. Create(p) /\ files[proc[p].snapshot] = "absent"
            /\ proc'[p].snapshot = proc[p].snapshot
        BY <3>1, CreatesToWrite
      <4>. QED BY <3>1, <4>1, <4>2
    <3>2. ASSUME NEW q \in Processes, NEW r \in Processes, q # p, r # p
          PROVE  proc'[q] = proc[q] /\ proc'[r] = proc[r]
      BY <3>2, FilesStep
    <3>. QED BY <3>1, <3>2 DEF OneWriter, IInv
  <2>2. PriorIsReadable'
    <3>. SUFFICES ASSUME NEW s \in Present', Prior[s] # NoSnapshot
                  PROVE  files'[Prior[s]] = "whole"
      BY DEF PriorIsReadable
    <3>0. s \in Snapshots /\ Prior[s] \in Snapshots
      BY PriorAssumption DEF Present
    <3>1. CASE s \in Present
      BY <3>0, <3>1, FilesStep DEF IInv, PriorIsReadable, Whole
    <3>2. CASE s \notin Present
      <4>1. Create(p) /\ proc[p].snapshot = s
        BY <3>0, <3>2, FilesStep DEF Present, IInv, ProcInv
      <4>2. Prior[s] \in Whole
        BY <3>0, <4>1 DEF Create, IInv, ProcInv, Whole
      <4>. QED BY <4>2, FilesStep DEF Whole
    <3>. QED BY <3>1, <3>2
  <2>3. StoredIsReadable'
    <3>1. written' = written \/ (written' = written \cup {proc[p].snapshot}
                                 /\ proc[p].snapshot \in Whole')
      <4>1. CASE Write(p) \/ ReadExisting(p)
        BY <4>1 DEF Write, ReadExisting, FileWritten, IInv, TypeOK, ProcInv, Whole
      <4>. QED BY <4>1
               DEF Step, Put, ReadPrior, Create, WriteFails, Crash, List, ListNext, Finish
    <3>. QED BY <3>1, FilesStep DEF IInv, StoredIsReadable
  <2>. QED BY <2>1, <2>2, <2>3
<1>. QED BY <1>1, <1>2 DEF Next

\* What another process knows of the files stays true: files never vanish, a
\* whole one stays whole, and the file it writes has no other writer.
LEMMA OthersKnow ==
  ASSUME IInv, NEW p \in Processes, Step(p), NEW q \in Processes, q # p
  PROVE  ProcInv(q)'
<1>. DEFINE s == proc[q].snapshot
<1>1. proc'[q] = proc[q] /\ ProcInv(q)
  BY FilesStep DEF IInv
<1>2. proc[q].pc \in {"prior", "create", "existing", "write"} => s \in Snapshots
  BY <1>1 DEF ProcInv
<1>3. proc[q].pc \in {"create", "existing", "write"} /\ Prior[s] # NoSnapshot =>
        files'[Prior[s]] = "whole"
  <2>1. Prior[s] # NoSnapshot /\ s \in Snapshots => Prior[s] \in Snapshots
    BY PriorAssumption
  <2>. QED BY <1>1, <1>2, <2>1, FilesStep DEF ProcInv, Whole
<1>4. proc[q].pc = "existing" => files'[s] # "absent"
  BY <1>1, <1>2, FilesStep DEF ProcInv, Present
<1>5. proc[q].pc = "write" => files'[s] = "partial"
  BY <1>1, <1>2, FilesStep DEF ProcInv, Create, IInv, OneWriter
<1>6. proc[q].found \subseteq Whole'
  BY <1>1, FilesStep DEF ProcInv
<1>. QED BY <1>1, <1>2, <1>3, <1>4, <1>5, <1>6 DEF ProcInv

\* A process that only moves on within put.
LEMMA GotoKnows ==
  ASSUME IInv, NEW p \in Processes, NEW pc \in Pc, Goto(p, pc), Step(p),
         LET s == proc[p].snapshot IN
           /\ pc \in {"create", "existing", "write"} =>
                s \in Snapshots /\ (Prior[s] # NoSnapshot => files[Prior[s]] = "whole")
           /\ pc = "existing" => files'[s] # "absent"
           /\ pc = "write" => files'[s] = "partial"
           /\ pc = "listed" => proc[p].owed \subseteq proc[p].found,
         pc \notin {"prior", "list"}
  PROVE  ProcInv(p)'
<1>. DEFINE s == proc[p].snapshot
<1>1. /\ proc'[p].pc = pc /\ proc'[p].snapshot = s
      /\ proc'[p].found = proc[p].found /\ proc'[p].owed = proc[p].owed
  BY DEF Goto, IInv, TypeOK, Process
<1>2. pc \in {"create", "existing", "write"} /\ Prior[s] # NoSnapshot =>
        files'[Prior[s]] = "whole"
  <2>1. Prior[s] # NoSnapshot /\ s \in Snapshots => Prior[s] \in Snapshots
    BY PriorAssumption
  <2>. QED BY <2>1, FilesStep DEF Whole
<1>3. proc[p].found \subseteq Whole'
  BY FilesStep DEF IInv, ProcInv
<1>. QED BY <1>1, <1>2, <1>3 DEF ProcInv

\* A process that starts or ends knows nothing.
LEMMA IdleKnows ==
  ASSUME IInv, NEW p \in Processes, proc'[p] = Idle
  PROVE  ProcInv(p)'
BY DEF ProcInv, Idle

\* A step of a process keeps what the process itself knows.
LEMMA SelfKnows ==
  ASSUME IInv, NEW p \in Processes, Step(p)
  PROVE  ProcInv(p)'
<1>. /\ proc \in [Processes -> Process] /\ files \in [Snapshots -> FileState]
     /\ ProcInv(p)
  BY DEF IInv, TypeOK
<1>1. CASE Put(p)
  <2>. PICK s \in Snapshots :
         proc'[p] = [Idle EXCEPT
                      !.pc = IF Prior[s] = NoSnapshot THEN "create" ELSE "prior",
                      !.snapshot = s]
    BY <1>1 DEF Put
  <2>1. /\ proc'[p].pc = IF Prior[s] = NoSnapshot THEN "create" ELSE "prior"
        /\ proc'[p].snapshot = s /\ proc'[p].found = {}
    BY DEF Idle
  <2>. QED BY <2>1 DEF ProcInv
<1>2. CASE Crash(p) \/ Finish(p)
  <2>1. proc'[p] = Idle
    BY <1>2 DEF Crash, Finish
  <2>. QED BY <2>1, IdleKnows
<1>3. CASE List(p)
  <2>1. CASE proc'[p] = [Idle EXCEPT !.pc = "too_many"]
    BY <2>1 DEF ProcInv, Idle
  <2>2. CASE proc'[p] = [Idle EXCEPT !.pc = "list", !.todo = Present, !.owed = written]
    <3>1. /\ proc'[p].pc = "list" /\ proc'[p].todo = Present
          /\ proc'[p].owed = written /\ proc'[p].found = {}
      BY <2>2 DEF Idle
    <3>2. written \subseteq Present
      BY DEF IInv, StoredIsReadable, Whole, Present
    <3>. QED BY <3>1, <3>2 DEF ProcInv
  <2>. QED BY <1>3, <2>1, <2>2 DEF List
<1>4. CASE ListNext(p)
  <2>. files' = files
    BY <1>4 DEF ListNext
  <2>1. CASE proc[p].todo = {} /\ Goto(p, "listed")
    BY <1>4, <2>1, GotoKnows DEF ListNext, ProcInv, Pc, Answer
  <2>2. CASE Goto(p, "malformed")
    BY <2>2, GotoKnows DEF Pc, Answer
  <2>3. ASSUME NEW s \in proc[p].todo, files[s] = "whole", proc'[p] = WithFile(p, s)
        PROVE  ProcInv(p)'
    <3>1. s \in Snapshots
      BY DEF Process, Budgeted
    <3>. QED BY <1>4, <2>3, <3>1 DEF ListNext, WithFile, ProcInv, Whole
  <2>. QED BY <1>4, <2>1, <2>2, <2>3 DEF ListNext, Goto
<1>5. CASE ReadPrior(p)
  <2>1. \/ \E pc \in {"missing", "malformed"} : Goto(p, pc)
        \/ Goto(p, "create") /\ files[Prior[proc[p].snapshot]] = "whole"
    BY <1>5 DEF ReadPrior
  <2>2. proc[p].snapshot \in Snapshots
    BY <1>5 DEF ReadPrior, ProcInv
  <2>. QED BY <2>1, <2>2, GotoKnows DEF Pc, Answer
<1>6. CASE Create(p)
  <2>1. /\ proc[p].snapshot \in Snapshots
        /\ Prior[proc[p].snapshot] # NoSnapshot => files[Prior[proc[p].snapshot]] = "whole"
    BY <1>6 DEF Create, ProcInv
  <2>2. \/ Goto(p, "write") /\ files'[proc[p].snapshot] = "partial"
        \/ Goto(p, "existing") /\ files'[proc[p].snapshot] # "absent"
    BY <1>6, <2>1 DEF Create
  <2>. QED BY <2>1, <2>2, GotoKnows DEF Pc
<1>7. CASE ReadExisting(p) \/ Write(p) \/ WriteFails(p)
  <2>1. \E pc \in {"stored", "malformed", "interrupted"} : Goto(p, pc)
    BY <1>7 DEF ReadExisting, Write, WriteFails
  <2>. QED BY <2>1, GotoKnows DEF Pc, Answer
<1>. QED BY <1>1, <1>2, <1>3, <1>4, <1>5, <1>6, <1>7 DEF Step

-----------------------------------------------------------------------------

\* The strengthened invariant: it says what each process knows of the files at
\* each of its steps, which is what makes it inductive.
THEOREM Invariance == Spec => []IInv
<1>1. Init => IInv
  BY InitIInv
<1>2. IInv /\ [Next]_vars => IInv'
  <2>. SUFFICES ASSUME IInv, [Next]_vars PROVE IInv'
    OBVIOUS
  <2>1. CASE UNCHANGED vars
    <3>1. ASSUME NEW q \in Processes PROVE ProcInv(q)'
      BY <2>1 DEF IInv, ProcInv, vars, Whole
    <3>. QED BY <3>1, TypeStep, StoreStep DEF IInv
  <2>2. ASSUME NEW p \in Processes, Step(p) PROVE IInv'
    <3>1. ASSUME NEW q \in Processes PROVE ProcInv(q)'
      BY <2>2, SelfKnows, OthersKnow
    <3>. QED BY <3>1, TypeStep, StoreStep DEF IInv
  <2>. QED BY <2>1, <2>2 DEF Next
<1>. QED BY <1>1, <1>2, PTL DEF Spec

\* Type correctness; a list never has more files before it than the budget.
THEOREM TypeCorrect == Spec => []TypeOK
BY Invariance, PTL DEF IInv

\* No two processes write into one file.
THEOREM SingleWriter == Spec => []OneWriter
BY Invariance, PTL DEF IInv

\* Both sides of a supersession are readable.
THEOREM SupersededReadable == Spec => []PriorIsReadable
BY Invariance, PTL DEF IInv

\* What a put returned is in the store.
THEOREM StoredReadable == Spec => []StoredIsReadable
BY Invariance, PTL DEF IInv

\* A list that succeeds is complete and sound.
THEOREM ListComplete == Spec => []ListIsComplete
<1>1. IInv => ListIsComplete
  BY DEF IInv, ProcInv, ListIsComplete
<1>. QED BY <1>1, Invariance, PTL

\* Snapshots are immutable.
THEOREM Immutable == Spec => WholeStaysWhole
<1>1. IInv /\ [Next]_vars => [Whole \subseteq Whole']_vars
  BY FilesStep DEF Next
<1>. QED BY <1>1, Invariance, PTL DEF Spec, WholeStaysWhole
=============================================================================
