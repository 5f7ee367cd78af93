------------------------- MODULE WorkerRing_proofs -------------------------
(***************************************************************************)
(* Proofs about the coordinator's tables (CoordinatorTables) and about the *)
(* ring of workers composed with them (WorkerRing), for every number of    *)
(* workers, tasks, steps and dispatchers, for every pair of timeouts and   *)
(* for every bound on crashes and rejoins.                                 *)
(***************************************************************************)
EXTENDS WorkerRing, FiniteSetTheorems, SequenceTheorems, TLAPS

USE TablesAssumption

-----------------------------------------------------------------------------
(* The coordinator's tables.                                               *)

THEOREM InitType == TablesInit => TypeOK
<1> SUFFICES ASSUME TablesInit PROVE TypeOK
  OBVIOUS
<1>1. pending \in Seq(Task)
  <2>1. pending = [k \in 1..TaskCount |-> k] /\ TaskCount \in Nat
    BY DEF TablesInit, Task
  <2> QED
    BY <2>1 DEF Task
<1>2. cursor \in Task /\ notices \in Seq(Notice) /\ sources \subseteq Worker
  BY DEF TablesInit, Task
<1>3. callOf \in [Worker -> Call \union {NoCall}]
  BY DEF TablesInit
<1>4. /\ wstate \in [Worker -> {"ALIVE", "SUSPECT", "DEAD"}]
      /\ gap \in [Worker -> 0..DeadAfter] /\ rejoins \in [Worker -> Nat]
  BY DEF TablesInit
<1>5. /\ tstate \in [Task -> {"PENDING", "ASSIGNED", "DONE"}]
      /\ owner \in [Task -> Worker \union {None}] /\ epoch \in [Task -> Nat]
      /\ result \in [Task -> Value \union {None}]
      /\ commitCount \in [Task -> Nat] /\ doneCount \in Nat
  BY DEF TablesInit
<1> QED
  BY <1>1, <1>2, <1>3, <1>4, <1>5 DEF TablesInit, TypeOK

LEMMA WorkerStepType ==
  ASSUME TypeOK, NEW w \in Worker, WorkerStep(w)
  PROVE  TypeOK'
<1> USE DEF TypeOK, startVars, mainVars, workerVars, taskVars, scanVars
<1>1. CASE Hello(w)
  BY <1>1 DEF Hello
<1>2. CASE RingOk(w)
  BY <1>2 DEF RingOk
<1>3. CASE Silence(w)
  BY <1>3 DEF Silence
<1>4. CASE Heartbeat(w)
  BY <1>4 DEF Heartbeat
<1>5. CASE Assign(w)
  BY <1>5, SMTT(40) DEF Assign, AfterPop
<1>6. CASE Refuse(w)
  BY <1>6 DEF Refuse, tablesVars
<1>7. CASE Rejoin(w)
  BY <1>7 DEF Rejoin
<1>8. CASE RejoinLater(w)
  BY <1>8 DEF RejoinLater, tablesVars
<1>9. ASSUME NEW k \in Task, NEW v \in Value, NEW e \in 1..epoch[k], ResultRead(w, k, e, v)
      PROVE  TypeOK'
  <2>1. [task |-> k, epoch |-> e, value |-> v, dead |-> wstate[w] = "DEAD"] \in Call
    BY DEF Call
  <2>2. callOf' \in [Worker -> Call \union {NoCall}]
    BY <1>9, <2>1 DEF ResultRead
  <2> QED
    BY <1>9, <2>2 DEF ResultRead
<1>10. CASE ResultCommit(w)
  BY <1>10 DEF ResultCommit, Call, NoCall
<1>11. CASE ResultReject(w)
  BY <1>11 DEF ResultReject
<1> QED
  BY <1>1, <1>2, <1>3, <1>4, <1>5, <1>6, <1>7, <1>8, <1>9, <1>10, <1>11 DEF WorkerStep

LEMMA DetectorStepType ==
  ASSUME TypeOK, DetectorStep
  PROVE  TypeOK'
<1> USE DEF TypeOK, startVars, mainVars, workerVars, taskVars, scanVars
<1>1. CASE Detect
  BY <1>1 DEF Detect, Judged, Overdue
<1>2. ASSUME NEW s \in Worker, NEW t \in Worker, ScanTask(s, t)
      PROVE  TypeOK'
  <2>1. /\ epoch' \in [Task -> Nat] /\ owner' \in [Task -> Worker \union {None}]
        /\ notices' \in Seq(Notice)
    <3>1. CASE Owns(s, cursor)
      <4>1. [to |-> t, task |-> cursor, epoch |-> NextEpoch(cursor), from |-> s] \in Notice
        BY DEF NextEpoch, Notice
      <4>2. TakeOver(s, cursor, t)
        BY <1>2, <3>1 DEF ScanTask
      <4> QED
        BY <4>1, <4>2 DEF TakeOver, NextEpoch
    <3>2. CASE ~Owns(s, cursor)
      BY <1>2, <3>2 DEF ScanTask
    <3> QED
      BY <3>1, <3>2
  <2>2. cursor' \in Task /\ sources' \subseteq Worker
    <3>1. CASE LastOfScan
      BY <1>2, <3>1 DEF ScanTask, Task
    <3>2. CASE ~LastOfScan
      BY <1>2, <3>2 DEF ScanTask, LastOfScan, Task
    <3> QED
      BY <3>1, <3>2
  <2> QED
    BY <1>2, <2>1, <2>2 DEF ScanTask
<1>3. CASE SendNotice
  BY <1>3 DEF SendNotice
<1> QED
  BY <1>1, <1>2, <1>3 DEF DetectorStep

LEMMA MainStepType ==
  ASSUME TypeOK, MainStep \/ Fail
  PROVE  TypeOK'
<1> USE DEF TypeOK, startVars, mainVars, workerVars, taskVars, scanVars
<1>1. CASE MainRing
  BY <1>1 DEF MainRing
<1>2. CASE Begin
  BY <1>2 DEF Begin
<1>3. CASE EnableDetector
  BY <1>3 DEF EnableDetector
<1>4. CASE MainFinish
  BY <1>4 DEF MainFinish
<1>5. CASE MainDisarm
  BY <1>5 DEF MainDisarm
<1>6. CASE MainVerify
  BY <1>6 DEF MainVerify
<1>7. CASE Fail
  BY <1>7 DEF Fail
<1> QED
  BY <1>1, <1>2, <1>3, <1>4, <1>5, <1>6, <1>7 DEF MainStep

LEMMA StepType == TypeOK /\ [TablesNext]_tablesVars => TypeOK'
<1> SUFFICES ASSUME TypeOK, [TablesNext]_tablesVars PROVE TypeOK'
  OBVIOUS
<1>1. CASE UNCHANGED tablesVars
  BY <1>1 DEF TypeOK, tablesVars
<1> QED
  BY <1>1, WorkerStepType, DetectorStepType, MainStepType DEF TablesNext

(* The types of the tables object are preserved by every thread.           *)
THEOREM Typing == TablesSpec => []TypeOK
<1>1. TablesInit => TypeOK
  BY InitType
<1> QED
  BY <1>1, StepType, PTL DEF TablesSpec

-----------------------------------------------------------------------------
(* The inductive invariant *)

(* A task is pending exactly until its first grant, and done exactly when   *)
(* it has a result.                                                         *)
TasksConsistent ==
  \A k \in Task :
    /\ tstate[k] = "PENDING" <=> epoch[k] = 0
    /\ tstate[k] = "PENDING" <=> owner[k] = None
    /\ tstate[k] = "DONE" <=> result[k] # None

(* The detector holds tables.lock only for workers it has marked dead, while*)
(* some worker is not dead.  When all are, next_alive has raised.           *)
ScanConsistent ==
  /\ \A s \in sources : wstate[s] = "DEAD"
  /\ sources = {} => cursor = 1
  /\ sources # {} => \E w \in Worker : wstate[w] # "DEAD"
  /\ (\A w \in Worker : wstate[w] = "DEAD") => finishing

(* A task in work whose owner is dead is still ahead of the scan.           *)
OwnerWatched ==
  (\E w \in Worker : wstate[w] # "DEAD") =>
    \A k \in Task : tstate[k] = "ASSIGNED" /\ wstate[owner[k]] = "DEAD" =>
      /\ owner[k] \in sources
      /\ (\A u \in sources : owner[k] <= u) => cursor <= k

(* Main stops waiting without an error only when every task is done.        *)
DoneWhenFinished == finishing /\ ~error => \A k \in Task : tstate[k] = "DONE"

TablesInv ==
  /\ TypeOK /\ TasksConsistent /\ PendingExact /\ ScanConsistent /\ OwnerWatched
  /\ NoticeCurrent /\ DeadReadStable /\ CommitsExact /\ DoneWhenFinished /\ VerifyPasses

-----------------------------------------------------------------------------
(* What a step can disturb *)

(* The task table, the scan and the verdicts on workers are left alone; a   *)
(* notice may leave, a handler may start or end.                            *)
Quiet ==
  /\ UNCHANGED <<wstate, pending, tstate, owner, epoch, result, commitCount, doneCount,
                 sources, cursor>>
  /\ notices' = notices \/ (notices # <<>> /\ notices' = Tail(notices))
  /\ \A w \in Worker :
       \/ callOf'[w] = callOf[w]
       \/ callOf'[w] = NoCall
       \/ callOf'[w].dead => wstate[w] = "DEAD"
  /\ finishing => finishing'
  /\ finishing' /\ ~error' => (finishing /\ ~error) \/ doneCount = TaskCount

LEMMA WorkerKinds ==
  ASSUME TypeOK, NEW w \in Worker, WorkerStep(w)
  PROVE  Assign(w) \/ ResultCommit(w) \/ Heartbeat(w) \/ Rejoin(w) \/ (Quiet /\ UNCHANGED verdict)
<1> USE DEF Quiet, startVars, mainVars, workerVars, taskVars, scanVars
<1>1. CASE Hello(w)
  BY <1>1 DEF Hello
<1>2. CASE RingOk(w)
  BY <1>2 DEF RingOk
<1>3. CASE Silence(w)
  BY <1>3 DEF Silence
<1>4. CASE Refuse(w) \/ RejoinLater(w)
  BY <1>4 DEF Refuse, RejoinLater, tablesVars
<1>5. ASSUME NEW k \in Task, NEW v \in Value, NEW e \in 1..epoch[k], ResultRead(w, k, e, v)
      PROVE  Quiet /\ UNCHANGED verdict
  <2>1. \A x \in Worker :
          callOf'[x] = callOf[x] \/ (callOf'[x].dead => wstate[x] = "DEAD")
    BY <1>5 DEF ResultRead, TypeOK
  <2> QED
    BY <1>5, <2>1 DEF ResultRead
<1>6. CASE ResultReject(w)
  BY <1>6 DEF ResultReject, TypeOK
<1> QED
  BY <1>1, <1>2, <1>3, <1>4, <1>5, <1>6 DEF WorkerStep

LEMMA OtherKinds ==
  ASSUME TypeOK, SendNotice \/ MainStep \/ Fail
  PROVE  Quiet /\ (UNCHANGED verdict \/ MainVerify)
<1> USE DEF Quiet, startVars, mainVars, workerVars, taskVars, scanVars
<1>1. CASE SendNotice
  BY <1>1 DEF SendNotice
<1>2. CASE MainRing
  BY <1>2 DEF MainRing
<1>3. CASE Begin
  BY <1>3 DEF Begin
<1>4. CASE EnableDetector
  BY <1>4 DEF EnableDetector
<1>5. CASE MainFinish
  BY <1>5 DEF MainFinish, AllDone
<1>6. CASE MainDisarm
  BY <1>6 DEF MainDisarm
<1>7. CASE MainVerify
  BY <1>7 DEF MainVerify
<1>8. CASE Fail
  BY <1>8 DEF Fail
<1> QED
  BY <1>1, <1>2, <1>3, <1>4, <1>5, <1>6, <1>7, <1>8 DEF MainStep

(* Six actions matter to the invariant; every other one is quiet.           *)
LEMMA StepKinds ==
  ASSUME TypeOK, [TablesNext]_tablesVars
  PROVE  \/ \E w \in Worker : Assign(w) \/ ResultCommit(w) \/ Heartbeat(w) \/ Rejoin(w)
         \/ Detect
         \/ \E s, t \in Worker : ScanTask(s, t)
         \/ Quiet /\ (UNCHANGED verdict \/ MainVerify)
<1>1. CASE UNCHANGED tablesVars
  BY <1>1 DEF tablesVars, Quiet
<1> QED
  BY <1>1, WorkerKinds, OtherKinds DEF TablesNext, DetectorStep

-----------------------------------------------------------------------------
(* Each part of the invariant is preserved *)

(* The task at the head of the deque is pending.                            *)
LEMMA HeadIsPending ==
  ASSUME TypeOK, PendingExact, pending # <<>>
  PROVE  /\ Head(pending) \in Task
         /\ Head(pending) = TaskCount - Len(pending) + 1
         /\ tstate[Head(pending)] = "PENDING"
<1>1. Len(pending) \in Nat /\ 1 <= Len(pending) /\ Head(pending) = pending[1]
  BY DEF TypeOK
<1>2. Head(pending) \in Task /\ Head(pending) = TaskCount - Len(pending) + 1
  BY <1>1 DEF TypeOK, PendingExact
<1>3. Head(pending) > TaskCount - Len(pending)
  BY <1>1, <1>2
<1> QED
  BY <1>2, <1>3 DEF PendingExact

LEMMA TasksConsistentStep ==
  ASSUME TablesInv, [TablesNext]_tablesVars
  PROVE  TasksConsistent'
<1> USE DEF TablesInv, TypeOK, TasksConsistent
<1>1. ASSUME NEW w \in Worker, Assign(w)
      PROVE  TasksConsistent'
  <2>1. /\ Head(pending) \in Task /\ tstate[Head(pending)] = "PENDING"
        /\ result[Head(pending)] = None
    BY <1>1, HeadIsPending DEF Assign
  <2>2. w # None
    BY DEF Worker
  <2> QED
    BY <1>1, <2>1, <2>2, SMTT(40) DEF Assign
<1>2. ASSUME NEW w \in Worker, ResultCommit(w)
      PROVE  TasksConsistent'
  <2>1. callOf[w] \in Call /\ callOf[w].value # None
    BY <1>2 DEF ResultCommit, Call
  <2>2. /\ callOf[w].task \in Task /\ owner[callOf[w].task] = w /\ w # None
        /\ tstate[callOf[w].task] # "DONE"
    BY <1>2, <2>1 DEF ResultCommit, Stale, Call, Worker
  <2> QED
    BY <1>2, <2>1, <2>2 DEF ResultCommit, taskVars
<1>3. ASSUME NEW s \in Worker, NEW t \in Worker, ScanTask(s, t)
      PROVE  TasksConsistent'
  <2>1. CASE Owns(s, cursor)
    <3>1. TakeOver(s, cursor, t) /\ UNCHANGED <<tstate, result>>
      BY <1>3, <2>1 DEF ScanTask
    <3>2. tstate[cursor] = "ASSIGNED" /\ t # None /\ s # None
      BY <2>1 DEF Owns, Worker
    <3> QED
      BY <3>1, <3>2 DEF TakeOver, NextEpoch
  <2>2. CASE ~Owns(s, cursor)
    BY <1>3, <2>2 DEF ScanTask
  <2> QED
    BY <2>1, <2>2
<1>4. CASE UNCHANGED <<tstate, owner, epoch, result>>
  BY <1>4
<1> QED
  BY <1>1, <1>2, <1>3, <1>4, StepKinds
  DEF Heartbeat, Rejoin, Detect, Quiet, taskVars

LEMMA NextBound ==
  ASSUME NEW k \in Int, NEW m \in Int, NEW n \in Int, k # m - n + 1
  PROVE  k > m - n <=> k > m - (n - 1)
OBVIOUS

LEMMA PendingExactStep ==
  ASSUME TablesInv, [TablesNext]_tablesVars
  PROVE  PendingExact'
<1> USE DEF TablesInv, TypeOK
<1>1. ASSUME NEW w \in Worker, Assign(w)
      PROVE  PendingExact'
  <2> DEFINE n == Len(pending)
  <2>1. n \in Nat /\ n >= 1 /\ pending' = Tail(pending) /\ Len(pending') = n - 1
    BY <1>1 DEF Assign, AfterPop
  <2>2. \A i \in 1..(n - 1) : pending'[i] = pending[i + 1]
    BY <2>1
  <2>3. /\ Head(pending) = TaskCount - n + 1 /\ Head(pending) \in Task
        /\ tstate' = [tstate EXCEPT ![Head(pending)] = "ASSIGNED"]
    BY <1>1, HeadIsPending DEF Assign
  <2>4. \A i \in 1..Len(pending') : pending'[i] = TaskCount - Len(pending') + i
    <3>1. ASSUME NEW i \in 1..(n - 1)
          PROVE  pending'[i] = TaskCount - (n - 1) + i
      <4>1. i + 1 \in 1..n
        BY <2>1
      <4>2. pending[i + 1] = TaskCount - n + (i + 1)
        BY <4>1 DEF PendingExact
      <4> QED
        BY <2>1, <2>2, <4>2
    <3> QED
      BY <2>1, <3>1
  <2>5. \A k \in Task : tstate'[k] = "PENDING" <=> k > TaskCount - Len(pending')
    <3>1. SUFFICES ASSUME NEW k \in Task
                   PROVE  tstate'[k] = "PENDING" <=> k > TaskCount - (n - 1)
      BY <2>1
    <3>2. tstate[k] = "PENDING" <=> k > TaskCount - n
      BY DEF PendingExact
    <3>3. k \in Int /\ TaskCount \in Int /\ n \in Int
      BY <2>1 DEF Task
    <3>4. CASE k = Head(pending)
      BY <2>1, <2>3, <3>4 DEF Task
    <3>5. CASE k # Head(pending)
      <4>1. k # TaskCount - n + 1
        BY <2>3, <3>5
      <4>2. k > TaskCount - n <=> k > TaskCount - (n - 1)
        BY <3>3, <4>1, NextBound
      <4> QED
        BY <2>3, <3>2, <3>5, <4>2
    <3> QED
      BY <3>4, <3>5
  <2> QED
    BY <2>4, <2>5 DEF PendingExact
<1>2. ASSUME NEW w \in Worker, ResultCommit(w)
      PROVE  PendingExact'
  <2>1. callOf[w].task \in Task
    BY <1>2 DEF ResultCommit, Call
  <2>2. tstate[callOf[w].task] # "PENDING"
    <3>1. owner[callOf[w].task] = w /\ w # None
      BY <1>2 DEF ResultCommit, Stale, Worker
    <3> QED
      BY <2>1, <3>1 DEF TasksConsistent
  <2> QED
    BY <1>2, <2>1, <2>2 DEF ResultCommit, PendingExact
<1>3. CASE UNCHANGED <<tstate, pending>>
  BY <1>3 DEF PendingExact
<1> QED
  BY <1>1, <1>2, <1>3, StepKinds
  DEF Heartbeat, Rejoin, Detect, ScanTask, Quiet, taskVars

(* next_alive() never names its argument or a dead worker.                  *)
LEMMA NextAliveIsAlive ==
  ASSUME TypeOK, NEW s \in Worker, NEW t \in Worker, IsNextAlive(s, t)
  PROVE  t # s /\ wstate[t] # "DEAD"
BY DEF IsNextAlive, InState, TypeOK

(* A round marks exactly the overdue workers dead, and the scan starts for  *)
(* them at the first task unless the round fails the run.                   *)
LEMMA RoundMarks ==
  ASSUME TablesInv, Detect
  PROVE  /\ sources = {} /\ notices = <<>> /\ cursor' = 1
         /\ \E w \in Worker : wstate[w] # "DEAD"
         /\ \A w \in Worker : wstate'[w] = "DEAD" <=> (wstate[w] = "DEAD" \/ w \in Overdue)
         /\ \/ /\ sources' = Overdue
               /\ sources' # {} => \E w \in Worker : wstate'[w] # "DEAD"
            \/ (\A w \in Worker : wstate'[w] = "DEAD") /\ sources' = {} /\ finishing' /\ error'
<1> USE DEF TablesInv
<1>1. sources = {} /\ notices = <<>> /\ cursor = 1
  BY DEF Detect, RoundMayStart, TablesLockFree, ScanConsistent
<1>2. \E w \in Worker : wstate[w] # "DEAD"
  BY DEF Detect, Overdue, Late
<1>3. \A w \in Worker : wstate'[w] = "DEAD" <=> (wstate[w] = "DEAD" \/ w \in Overdue)
  BY DEF Detect, Judged, Late
<1>4. CASE Overdue # {} /\ \A w \in Worker : Judged[w] = "DEAD"
  BY <1>1, <1>2, <1>3, <1>4 DEF Detect
<1>5. CASE ~(Overdue # {} /\ \A w \in Worker : Judged[w] = "DEAD")
  BY <1>1, <1>2, <1>3, <1>5 DEF Detect
<1> QED
  BY <1>4, <1>5

LEMMA ScanConsistentStep ==
  ASSUME TablesInv, [TablesNext]_tablesVars
  PROVE  ScanConsistent'
<1> USE DEF TablesInv, TypeOK, ScanConsistent
<1>1. ASSUME NEW w \in Worker, Heartbeat(w) \/ Rejoin(w)
      PROVE  ScanConsistent'
  <2>1. sources' = {} /\ cursor' = 1 /\ wstate'[w] # "DEAD"
    BY <1>1 DEF Heartbeat, Rejoin, CanHandle, TablesLockFree, scanVars
  <2> QED
    BY <2>1
<1>2. CASE Detect
  <2>1. /\ cursor' = 1
        /\ \A w \in Worker : wstate'[w] = "DEAD" <=> (wstate[w] = "DEAD" \/ w \in Overdue)
        /\ Overdue \subseteq Worker
    BY <1>2, RoundMarks DEF Overdue
  <2>2. CASE /\ sources' = Overdue
             /\ sources' # {} => \E w \in Worker : wstate'[w] # "DEAD"
    <3>1. (\A w \in Worker : wstate'[w] = "DEAD") => FALSE
      <4>1. CASE Overdue = {}
        BY <1>2, <2>1, <4>1, RoundMarks
      <4>2. CASE Overdue # {}
        BY <2>2, <4>2
      <4> QED
        BY <4>1, <4>2
    <3> QED
      BY <2>1, <2>2, <3>1
  <2>3. CASE (\A w \in Worker : wstate'[w] = "DEAD") /\ sources' = {} /\ finishing'
    BY <2>1, <2>3
  <2> QED
    BY <1>2, <2>2, <2>3, RoundMarks
<1>3. ASSUME NEW s \in Worker, NEW t \in Worker, ScanTask(s, t)
      PROVE  ScanConsistent'
  <2>1. /\ UNCHANGED <<wstate, finishing>> /\ sources # {}
        /\ (sources' = sources \/ (sources' = sources \ {s} /\ cursor' = 1))
    BY <1>3 DEF ScanTask, workerVars, mainVars
  <2> QED
    BY <2>1
<1>4. CASE UNCHANGED <<wstate, sources, cursor>> /\ (finishing => finishing')
  BY <1>4
<1> QED
  BY <1>1, <1>2, <1>3, <1>4, StepKinds
  DEF Assign, ResultCommit, Quiet, workerVars, mainVars, scanVars

LEMMA OwnerWatchedStep ==
  ASSUME TablesInv, [TablesNext]_tablesVars
  PROVE  OwnerWatched'
<1> USE DEF TablesInv, TypeOK
<1> SUFFICES ASSUME NEW v \in Worker, wstate'[v] # "DEAD",
                    NEW k \in Task, tstate'[k] = "ASSIGNED", wstate'[owner'[k]] = "DEAD"
             PROVE  /\ owner'[k] \in sources'
                    /\ (\A u \in sources' : owner'[k] <= u) => cursor' <= k
  BY DEF OwnerWatched
<1>1. ASSUME NEW w \in Worker, Assign(w)
      PROVE  FALSE
  <2>1. /\ Head(pending) \in Task /\ wstate' = wstate /\ sources = {} /\ wstate[w] # "DEAD"
    BY <1>1, HeadIsPending
    DEF Assign, CanHandle, TablesLockFree, Assignable, workerVars, scanVars
  <2>2. CASE k = Head(pending)
    BY <1>1, <2>1, <2>2 DEF Assign
  <2>3. CASE k # Head(pending)
    <3>1. tstate[k] = "ASSIGNED" /\ owner'[k] = owner[k]
      BY <1>1, <2>1, <2>3 DEF Assign
    <3> QED
      BY <2>1, <3>1 DEF OwnerWatched
  <2> QED
    BY <2>2, <2>3
<1>2. ASSUME NEW w \in Worker, ResultCommit(w)
      PROVE  /\ owner'[k] \in sources'
             /\ (\A u \in sources' : owner'[k] <= u) => cursor' <= k
  <2>1. callOf[w].task \in Task
    BY <1>2 DEF ResultCommit, Call
  <2>2. tstate[k] = "ASSIGNED" /\ UNCHANGED <<wstate, owner, sources, cursor>>
    BY <1>2, <2>1 DEF ResultCommit, workerVars, scanVars
  <2> QED
    BY <2>2 DEF OwnerWatched
<1>3. ASSUME NEW w \in Worker, Heartbeat(w) \/ Rejoin(w)
      PROVE  FALSE
  <2>1. UNCHANGED <<tstate, owner>> /\ sources = {}
    BY <1>3 DEF Heartbeat, Rejoin, CanHandle, TablesLockFree, taskVars
  <2>2. tstate[k] = "ASSIGNED" /\ owner[k] \in Worker /\ wstate[owner[k]] = "DEAD"
    <3>1. tstate[k] = "ASSIGNED" /\ owner[k] \in Worker
      BY <2>1 DEF TasksConsistent
    <3> QED
      BY <1>3, <2>1, <3>1 DEF Heartbeat, Rejoin
  <2>3. \E x \in Worker : wstate[x] # "DEAD"
    <3>1. CASE Heartbeat(w)
      BY <3>1 DEF Heartbeat
    <3>2. CASE Rejoin(w)
      BY <3>2 DEF Rejoin, CanHandle, ScanConsistent
    <3> QED
      BY <1>3, <3>1, <3>2
  <2> QED
    BY <2>1, <2>2, <2>3 DEF OwnerWatched
<1>4. CASE Detect
  <2>1. UNCHANGED <<tstate, owner>> /\ cursor' = 1 /\ sources = {}
    BY <1>4, RoundMarks DEF Detect, taskVars
  <2>2. owner[k] \in Worker /\ wstate[owner[k]] # "DEAD"
    <3>1. owner[k] \in Worker
      BY <2>1 DEF TasksConsistent
    <3> QED
      BY <1>4, <2>1, <3>1, RoundMarks DEF OwnerWatched
  <2>3. owner[k] \in Overdue /\ sources' = Overdue
    BY <1>4, <2>1, <2>2, RoundMarks
  <2> QED
    BY <2>1, <2>3 DEF Task
<1>5. ASSUME NEW s \in Worker, NEW t \in Worker, ScanTask(s, t)
      PROVE  /\ owner'[k] \in sources'
             /\ (\A u \in sources' : owner'[k] <= u) => cursor' <= k
  <2>1. /\ s \in sources /\ (\A u \in sources : s <= u)
        /\ UNCHANGED <<wstate, tstate>> /\ wstate[t] # "DEAD"
    BY <1>5, NextAliveIsAlive DEF ScanTask, workerVars
  <2>2. owner'[k] = owner[k] /\ ~(k = cursor /\ owner[k] = s)
    <3>1. CASE Owns(s, cursor)
      <4>1. owner' = [owner EXCEPT ![cursor] = t]
        BY <1>5, <3>1 DEF ScanTask, TakeOver
      <4>2. k # cursor
        BY <2>1, <4>1
      <4> QED
        BY <4>1, <4>2
    <3>2. CASE ~Owns(s, cursor)
      BY <1>5, <2>1, <3>2 DEF ScanTask, Owns
    <3> QED
      BY <3>1, <3>2
  <2>3. /\ owner[k] \in sources /\ owner[k] \in Worker
        /\ (\A u \in sources : owner[k] <= u) => cursor <= k
    BY <2>1, <2>2 DEF OwnerWatched
  <2>4. owner[k] = s => cursor < k
    BY <2>1, <2>2, <2>3 DEF Task
  <2>5. CASE LastOfScan
    <3>1. cursor' = 1 /\ sources' = sources \ {s}
      BY <1>5, <2>5 DEF ScanTask
    <3>2. owner[k] # s
      BY <2>4, <2>5 DEF LastOfScan, Task
    <3> QED
      BY <2>2, <2>3, <3>1, <3>2 DEF Task
  <2>6. CASE ~LastOfScan
    <3>1. cursor' = cursor + 1 /\ sources' = sources
      BY <1>5, <2>6 DEF ScanTask
    <3>2. (\A u \in sources : owner[k] <= u) => owner[k] = s
      <4>1. SUFFICES ASSUME \A u \in sources : owner[k] <= u PROVE owner[k] = s
        OBVIOUS
      <4>2. owner[k] <= s
        BY <2>1, <4>1, Zenon
      <4>3. s <= owner[k]
        BY <2>1, <2>3, Zenon
      <4>4. owner[k] \in Int /\ s \in Int
        BY <1>5, <2>3 DEF Worker
      <4> QED
        BY <4>2, <4>3, <4>4
    <3> QED
      BY <2>2, <2>3, <2>4, <3>1, <3>2 DEF Task
  <2> QED
    BY <2>5, <2>6
<1>6. CASE UNCHANGED <<wstate, tstate, owner, sources, cursor>>
  BY <1>6 DEF OwnerWatched
<1> QED
  BY <1>1, <1>2, <1>3, <1>4, <1>5, <1>6, StepKinds DEF Quiet

LEMMA NoticeFields ==
  ASSUME TypeOK, NEW i \in 1..Len(notices)
  PROVE  notices[i] \in Notice /\ notices[i].to \in Worker /\ notices[i].task \in Task
<1>1. notices[i] \in Notice
  BY DEF TypeOK
<1> QED
  BY <1>1 DEF Notice

LEMMA NoticeCurrentStep ==
  ASSUME TablesInv, [TablesNext]_tablesVars
  PROVE  NoticeCurrent'
<1> USE DEF TablesInv, TypeOK, NoticeCurrent
<1>1. ASSUME NEW w \in Worker, Assign(w)
      PROVE  NoticeCurrent'
  <2>1. /\ Head(pending) \in Task /\ owner[Head(pending)] = None
        /\ UNCHANGED <<wstate, notices>>
    BY <1>1, HeadIsPending DEF Assign, TasksConsistent, workerVars, scanVars
  <2>2. \A i \in 1..Len(notices) : notices[i].task \in Task /\ notices[i].task # Head(pending)
    BY <2>1, NoticeFields, ZenonT(40) DEF Worker
  <2> QED
    BY <1>1, <2>1, <2>2 DEF Assign
<1>2. ASSUME NEW w \in Worker, ResultCommit(w)
      PROVE  NoticeCurrent'
  BY <1>2 DEF ResultCommit, workerVars, scanVars
<1>3. ASSUME NEW w \in Worker, Heartbeat(w) \/ Rejoin(w)
      PROVE  NoticeCurrent'
  <2>1. UNCHANGED <<notices, owner, epoch>> /\ wstate' = [wstate EXCEPT ![w] = "ALIVE"]
    BY <1>3 DEF Heartbeat, Rejoin, taskVars, scanVars
  <2>2. \A x \in Worker : wstate[x] # "DEAD" => wstate'[x] # "DEAD"
    BY <2>1
  <2>3. \A i \in 1..Len(notices) : notices[i].to \in Worker
    BY NoticeFields
  <2> QED
    BY <2>1, <2>2, <2>3
<1>4. CASE Detect
  <2>1. notices' = <<>>
    BY <1>4 DEF Detect, RoundMayStart
  <2> QED
    BY <2>1
<1>5. ASSUME NEW s \in Worker, NEW t \in Worker, ScanTask(s, t)
      PROVE  NoticeCurrent'
  <2>1. UNCHANGED wstate /\ wstate[t] # "DEAD" /\ wstate[s] = "DEAD"
    BY <1>5, NextAliveIsAlive DEF ScanTask, workerVars, ScanConsistent
  <2>2. CASE Owns(s, cursor)
    <3> DEFINE n == [to |-> t, task |-> cursor, epoch |-> NextEpoch(cursor), from |-> s]
    <3>1. /\ epoch' = [epoch EXCEPT ![cursor] = NextEpoch(cursor)]
          /\ owner' = [owner EXCEPT ![cursor] = t]
          /\ notices' = Append(notices, n)
      BY <1>5, <2>2 DEF ScanTask, TakeOver
    <3>2. \A i \in 1..Len(notices) :
            notices[i].to \in Worker /\ notices[i].task \in Task /\ notices[i].task # cursor
      BY <2>1, <2>2, NoticeFields, ZenonT(40) DEF Owns
    <3>3. n \in Notice
      BY DEF Notice, NextEpoch
    <3>4. ASSUME NEW i \in 1..Len(notices')
          PROVE  /\ wstate'[notices'[i].to] # "DEAD"
                 /\ owner'[notices'[i].task] = notices'[i].to
                 /\ epoch'[notices'[i].task] = notices'[i].epoch
      <4>1. CASE i \in 1..Len(notices)
        <5>1. notices'[i] = notices[i]
          BY <3>1, <3>3, <4>1
        <5> QED
          BY <2>1, <3>1, <3>2, <4>1, <5>1
      <4>2. CASE i = Len(notices) + 1
        <5>1. notices'[i] = n
          BY <3>1, <3>3, <4>2
        <5> QED
          BY <2>1, <3>1, <5>1
      <4> QED
        BY <3>1, <3>3, <4>1, <4>2
    <3> QED
      BY <3>4
  <2>3. CASE ~Owns(s, cursor)
    BY <1>5, <2>1, <2>3 DEF ScanTask
  <2> QED
    BY <2>2, <2>3
<1>6. CASE UNCHANGED <<wstate, owner, epoch>> /\ notices # <<>> /\ notices' = Tail(notices)
  <2>1. Len(notices') = Len(notices) - 1 /\ Len(notices) \in Nat
    BY <1>6
  <2>2. \A i \in 1..Len(notices') : notices'[i] = notices[i + 1] /\ i + 1 \in 1..Len(notices)
    BY <1>6, <2>1
  <2>3. ASSUME NEW i \in 1..Len(notices')
        PROVE  /\ wstate'[notices'[i].to] # "DEAD"
               /\ owner'[notices'[i].task] = notices'[i].to
               /\ epoch'[notices'[i].task] = notices'[i].epoch
    <3>1. i + 1 \in 1..Len(notices) /\ notices'[i] = notices[i + 1]
      BY <2>2
    <3>2. /\ wstate[notices[i + 1].to] # "DEAD"
          /\ owner[notices[i + 1].task] = notices[i + 1].to
          /\ epoch[notices[i + 1].task] = notices[i + 1].epoch
      BY <3>1
    <3> QED
      BY <1>6, <3>1, <3>2
  <2> QED
    BY <2>3
<1>7. CASE UNCHANGED <<wstate, owner, epoch, notices>>
  BY <1>7
<1> QED
  BY <1>1, <1>2, <1>3, <1>4, <1>5, <1>6, <1>7, StepKinds DEF Quiet

LEMMA DeadReadStableStep ==
  ASSUME TablesInv, [TablesNext]_tablesVars
  PROVE  DeadReadStable'
<1> USE DEF TablesInv, TypeOK, DeadReadStable
<1>1. ASSUME NEW w \in Worker, Assign(w)
      PROVE  DeadReadStable'
  BY <1>1 DEF Assign, workerVars
<1>2. ASSUME NEW w \in Worker, ResultCommit(w)
      PROVE  DeadReadStable'
  BY <1>2 DEF ResultCommit, workerVars
<1>3. ASSUME NEW w \in Worker, Heartbeat(w)
      PROVE  DeadReadStable'
  BY <1>3 DEF Heartbeat
<1>4. ASSUME NEW w \in Worker, Rejoin(w)
      PROVE  DeadReadStable'
  BY <1>4 DEF Rejoin, CanHandle, SendLockFree
<1>5. CASE Detect
  <2>1. UNCHANGED callOf
    BY <1>5 DEF Detect
  <2> QED
    BY <1>5, <2>1, RoundMarks
<1>6. CASE UNCHANGED <<wstate, callOf>>
  BY <1>6
<1>7. CASE Quiet
  BY <1>7 DEF Quiet
<1> QED
  BY <1>1, <1>2, <1>3, <1>4, <1>5, <1>6, <1>7, StepKinds DEF ScanTask, workerVars

LEMMA CommitsExactStep ==
  ASSUME TablesInv, [TablesNext]_tablesVars
  PROVE  CommitsExact'
<1> USE DEF TablesInv, TypeOK, CommitsExact
<1> DEFINE Done == {k \in Task : tstate[k] = "DONE"}
<1>1. ASSUME NEW w \in Worker, Assign(w)
      PROVE  CommitsExact'
  <2>1. Head(pending) \in Task /\ tstate[Head(pending)] = "PENDING"
    BY <1>1, HeadIsPending DEF Assign
  <2>2. \A k \in Task : tstate'[k] = "DONE" <=> tstate[k] = "DONE"
    BY <1>1, <2>1 DEF Assign
  <2>3. Done' = Done
    BY <2>2
  <2> QED
    BY <1>1, <2>2, <2>3 DEF Assign
<1>2. ASSUME NEW w \in Worker, ResultCommit(w)
      PROVE  CommitsExact'
  <2> DEFINE k == callOf[w].task
  <2>1. k \in Task /\ tstate[k] # "DONE"
    BY <1>2 DEF ResultCommit, Stale, Call
  <2>2. /\ tstate' = [tstate EXCEPT ![k] = "DONE"]
        /\ commitCount' = [commitCount EXCEPT ![k] = @ + 1]
        /\ doneCount' = doneCount + 1
    BY <1>2 DEF ResultCommit
  <2>3. Done' = Done \union {k} /\ k \notin Done
    BY <2>1, <2>2
  <2>4. IsFiniteSet(Done)
    <3>1. IsFiniteSet(Task) /\ Done \subseteq Task
      BY FS_Interval DEF Task
    <3> QED
      BY <3>1, FS_Subset
  <2>5. Cardinality(Done') = Cardinality(Done) + 1
    BY <2>3, <2>4, FS_AddElement, ZenonT(40)
  <2> QED
    BY <2>1, <2>2, <2>5, SMTT(40)
<1>3. CASE UNCHANGED <<tstate, commitCount, doneCount>>
  BY <1>3
<1> QED
  BY <1>1, <1>2, <1>3, StepKinds DEF Heartbeat, Rejoin, Detect, ScanTask, Quiet, taskVars

(* The counter reaches TaskCount only when every task is done.              *)
LEMMA AllCounted ==
  ASSUME TypeOK, CommitsExact, doneCount = TaskCount
  PROVE  \A k \in Task : tstate[k] = "DONE"
<1> DEFINE Done == {k \in Task : tstate[k] = "DONE"}
<1>1. IsFiniteSet(Task) /\ Cardinality(Task) = TaskCount
  BY FS_Interval DEF Task
<1>2. Done \subseteq Task /\ Cardinality(Done) = Cardinality(Task)
  BY <1>1 DEF CommitsExact
<1>3. Done = Task
  BY <1>1, <1>2, FS_Subset
<1> QED
  BY <1>3

LEMMA VerdictStep ==
  ASSUME TablesInv, [TablesNext]_tablesVars
  PROVE  DoneWhenFinished' /\ VerifyPasses'
<1> USE DEF TablesInv, TypeOK, DoneWhenFinished, VerifyPasses
<1>1. ASSUME NEW w \in Worker, Assign(w)
      PROVE  DoneWhenFinished' /\ VerifyPasses'
  BY <1>1 DEF Assign, CanHandle, mainVars
<1>2. ASSUME NEW w \in Worker, ResultCommit(w)
      PROVE  DoneWhenFinished' /\ VerifyPasses'
  <2>1. callOf[w].task \in Task
    BY <1>2 DEF ResultCommit, Call
  <2> QED
    BY <1>2, <2>1 DEF ResultCommit, mainVars
<1>3. CASE Detect
  BY <1>3 DEF Detect, taskVars
<1>4. CASE Quiet /\ (UNCHANGED verdict \/ MainVerify)
  <2>1. DoneWhenFinished'
    BY <1>4, AllCounted DEF Quiet
  <2>2. CASE MainVerify
    <3>1. \A k \in Task : tstate[k] = "DONE" /\ commitCount[k] = 1
      BY <2>2 DEF MainVerify, CommitsExact
    <3>2. verdict' = "PASS"
      BY <2>2, <3>1 DEF MainVerify
    <3> QED
      BY <2>1, <3>2
  <2> QED
    BY <1>4, <2>1, <2>2
<1>5. CASE UNCHANGED <<finishing, error, verdict, tstate>>
  BY <1>5
<1> QED
  BY <1>1, <1>2, <1>3, <1>4, <1>5, StepKinds
  DEF Heartbeat, Rejoin, ScanTask, taskVars, mainVars

LEMMA InitInv == TablesInit => TablesInv
<1> SUFFICES ASSUME TablesInit PROVE TablesInv
  OBVIOUS
<1>1. TypeOK
  BY InitType
<1>2. TasksConsistent /\ VerifyPasses /\ DoneWhenFinished
  BY DEF TablesInit, TasksConsistent, VerifyPasses, DoneWhenFinished
<1>3. NoticeCurrent /\ DeadReadStable
  BY DEF TablesInit, NoticeCurrent, DeadReadStable
<1>4. PendingExact
  <2>1. Len(pending) = TaskCount /\ \A i \in 1..TaskCount : pending[i] = i
    BY DEF TablesInit, Task
  <2> QED
    BY <2>1 DEF TablesInit, PendingExact, Task
<1>5. ScanConsistent /\ OwnerWatched
  <2>1. 1 \in Worker
    BY DEF Worker
  <2> QED
    BY <2>1 DEF TablesInit, ScanConsistent, OwnerWatched
<1>6. CommitsExact
  <2>1. {k \in Task : tstate[k] = "DONE"} = {}
    BY DEF TablesInit
  <2> QED
    BY <2>1, FS_EmptySet DEF TablesInit, CommitsExact
<1> QED
  BY <1>1, <1>2, <1>3, <1>4, <1>5, <1>6 DEF TablesInv

LEMMA StepInv == TablesInv /\ [TablesNext]_tablesVars => TablesInv'
<1> SUFFICES ASSUME TablesInv, [TablesNext]_tablesVars PROVE TablesInv'
  OBVIOUS
<1>1. TypeOK'
  BY StepType DEF TablesInv
<1> QED
  BY <1>1, TasksConsistentStep, PendingExactStep, ScanConsistentStep, OwnerWatchedStep,
     NoticeCurrentStep, DeadReadStableStep, CommitsExactStep, VerdictStep DEF TablesInv

THEOREM Invariance == TablesSpec => []TablesInv
BY InitInv, StepInv, PTL DEF TablesSpec

-----------------------------------------------------------------------------
(* The theorems *)

(* A task in work never has a dead owner when tables.lock is free           *)
(* (tables.detect, tables.request, tables.rejoin).                          *)
THEOREM NoForgottenTakeover == TablesSpec => []DeadOwnsNothing
<1>1. TablesInv => DeadOwnsNothing
  BY DEF TablesInv, OwnerWatched, DeadOwnsNothing, TablesLockFree
<1> QED
  BY <1>1, Invariance, PTL

(* Every done task was committed once and counted once (tables.result).     *)
THEOREM ExactCommits == TablesSpec => []CommitsExact
BY Invariance, PTL DEF TablesInv

(* The deque holds the tasks never assigned, each once (tables.request).    *)
THEOREM ExactPending == TablesSpec => []PendingExact
BY Invariance, PTL DEF TablesInv

(* A takeover notice is current until it is sent (detector_loop).           *)
THEOREM CurrentNotices == TablesSpec => []NoticeCurrent
BY Invariance, PTL DEF TablesInv

(* The dead flag of a RESULT handler is never stale (dispatcher_loop).      *)
THEOREM StableDeadRead == TablesSpec => []DeadReadStable
BY Invariance, PTL DEF TablesInv

(* A run that ends without error verifies (Coordinator.run, tables.verify). *)
THEOREM RunsVerify == TablesSpec => []VerifyPasses
BY Invariance, PTL DEF TablesInv

(* A RESULT under way when its sender is declared dead is committed only     *)
(* while the scan has still to reach its task (tables.result, tables.detect).*)
THEOREM LateCommits == TablesSpec => NoCommitAfterScan
<1>1. TablesInv /\ [TablesNext]_tablesVars => CommitBeforeScan
  <2> SUFFICES ASSUME TablesInv, [TablesNext]_tablesVars,
                      NEW v \in Worker, wstate[v] # "DEAD",
                      NEW w \in Worker, NEW k \in Task, Commits(w, k), wstate[w] = "DEAD"
               PROVE  ScanAhead(w, k)
    BY DEF CommitBeforeScan
  <2>1. /\ callOf[w] # NoCall /\ callOf[w].task = k /\ callOf'[w] = NoCall
        /\ tstate[k] # "DONE" /\ tstate'[k] = "DONE"
    BY DEF Commits
  <2>2. \E u \in Worker : ResultCommit(u)
    <3>1. ASSUME NEW u \in Worker, Assign(u)
          PROVE  FALSE
      <4>1. Head(pending) \in Task /\ tstate' = [tstate EXCEPT ![Head(pending)] = "ASSIGNED"]
        BY <3>1, HeadIsPending DEF Assign, TablesInv
      <4>2. tstate \in [Task -> {"PENDING", "ASSIGNED", "DONE"}]
        BY DEF TablesInv, TypeOK
      <4> QED
        BY <2>1, <4>1, <4>2
    <3>2. tstate' # tstate
      BY <2>1
    <3> QED
      BY <3>1, <3>2, StepKinds DEF Heartbeat, Rejoin, Detect, ScanTask, Quiet, taskVars, TablesInv
  <2>3. PICK u \in Worker : ResultCommit(u)
    BY <2>2
  <2>4. u = w
    <3>1. callOf' = [callOf EXCEPT ![u] = NoCall]
      BY <2>3 DEF ResultCommit
    <3>2. callOf \in [Worker -> Call \union {NoCall}]
      BY DEF TablesInv, TypeOK
    <3> QED
      BY <2>1, <3>1, <3>2
  <2>5. owner[k] = w
    BY <2>1, <2>3, <2>4 DEF ResultCommit, Stale
  <2>6. tstate[k] = "ASSIGNED"
    <3>1. tstate[k] # "PENDING"
      BY <2>5 DEF TablesInv, TasksConsistent, Worker
    <3> QED
      BY <2>1, <3>1 DEF TablesInv, TypeOK
  <2> QED
    BY <2>5, <2>6 DEF TablesInv, OwnerWatched, ScanAhead
<1> QED
  BY <1>1, Invariance, PTL DEF TablesSpec, NoCommitAfterScan

(* The tables object implements the task ledger.                            *)
THEOREM Implementation == TablesSpec => ImplementsLedger
<1>1. TablesInit => Ledger!LedgerInit
  BY DEF TablesInit, Ledger!LedgerInit
<1>2. TablesInv /\ [TablesNext]_tablesVars
        => [Ledger!LedgerNext]_(Ledger!ledgerVars)
  <2> SUFFICES ASSUME TablesInv, [TablesNext]_tablesVars
               PROVE  Ledger!LedgerNext \/ UNCHANGED <<owner, epoch, result>>
    BY DEF Ledger!ledgerVars
  <2> USE DEF TablesInv, TypeOK
  <2>1. ASSUME NEW w \in Worker, Assign(w)
        PROVE  Ledger!LedgerNext
    <3>1. Head(pending) \in Task /\ epoch[Head(pending)] = 0
      BY <2>1, HeadIsPending DEF Assign, TasksConsistent
    <3>2. Ledger!Grant(Head(pending), w)
      BY <2>1, <3>1 DEF Assign, Ledger!Grant
    <3> QED
      BY <3>1, <3>2 DEF Ledger!LedgerNext
  <2>2. ASSUME NEW w \in Worker, ResultCommit(w)
        PROVE  Ledger!LedgerNext
    <3> DEFINE c == callOf[w]
    <3>1. /\ c.task \in Task /\ c.value \in Value /\ owner[c.task] = w /\ w # None
          /\ tstate[c.task] # "DONE"
      BY <2>2 DEF ResultCommit, Stale, Call, Worker
    <3>2. epoch[c.task] > 0 /\ result[c.task] = None
      BY <3>1 DEF TasksConsistent
    <3>3. Ledger!Close(c.task, c.value)
      BY <2>2, <3>2 DEF ResultCommit, Ledger!Close
    <3> QED
      BY <3>1, <3>3 DEF Ledger!LedgerNext
  <2>3. ASSUME NEW s \in Worker, NEW t \in Worker, ScanTask(s, t)
        PROVE  Ledger!LedgerNext \/ UNCHANGED <<owner, epoch, result>>
    <3>1. CASE Owns(s, cursor)
      <4>1. /\ TakeOver(s, cursor, t) /\ UNCHANGED result /\ owner[cursor] = s /\ t # s
            /\ epoch[cursor] > 0 /\ result[cursor] = None
        BY <2>3, <3>1, NextAliveIsAlive, SMTT(40) DEF ScanTask, Owns, TasksConsistent
      <4>2. Ledger!Regrant(cursor, t)
        BY <4>1 DEF TakeOver, NextEpoch, Ledger!Regrant
      <4> QED
        BY <4>2 DEF Ledger!LedgerNext
    <3>2. CASE ~Owns(s, cursor)
      BY <2>3, <3>2 DEF ScanTask
    <3> QED
      BY <3>1, <3>2
  <2> QED
    BY <2>1, <2>2, <2>3, StepKinds DEF Heartbeat, Rejoin, Detect, Quiet, taskVars
<1> QED
  BY <1>1, <1>2, Invariance, PTL DEF TablesSpec, ImplementsLedger, Ledger!LedgerSpec

-----------------------------------------------------------------------------
(* The ring of workers, composed with the tables.                          *)

USE RingAssumption

(* What travels and what is kept.  Every epoch named was issued, and every  *)
(* count stands for the steps before the next one.                          *)
Issued(k) == 1..epoch[k]

Grants == {a \in [task : Task, epoch : Nat, from : Worker \union {None}] :
             a.epoch \in Issued(a.task)}
Orders == {m \in [kind : {"ASSIGN", "TAKEOVER"}, task : Task, epoch : Nat,
                  from : Worker \union {None}] :
             m.epoch \in Issued(m.task) /\ (m.kind = "ASSIGN" <=> m.from = None)}
Answers == {Msg("NO_TASK"), Msg("WELCOME"), Msg("RETRY_LATER")}
Works == {x \in [task : Task, epoch : Nat, gen : Nat, step : 1..Steps, partial : Seq(Nat)] :
            x.epoch \in Issued(x.task) /\ x.partial = FirstSteps(x.step - 1)}
Kept == {c \in [epoch : Nat, step : 1..(Steps - 1), partial : Seq(Nat)] :
           c.partial = FirstSteps(c.step)}
Sent == {m \in [task : Task, epoch : Nat, step : 1..(Steps - 1), partial : Seq(Nat)] :
           m.partial = FirstSteps(m.step)}
Reports == {r \in [task : Task, epoch : Nat, value : {FirstSteps(Steps)}] :
              r.epoch \in Issued(r.task)}

FlagsOK ==
  /\ mode \in [Worker -> {"RUNNING", "CRASHED", "REJOINING"}]
  /\ crashGen \in [Worker -> Nat]
  /\ rejoinDue \in [Worker -> BOOLEAN] /\ rejoinSent \in [Worker -> BOOLEAN]
LatestOK == latest \in [Worker -> [Task -> Nat]]
QueueOK == queue \in [Worker -> Seq(Grants)]
Once(q) == \A i, j \in 1..Len(q) : q[i].task = q[j].task => i = j
QueueOnce == \A w \in Worker : Once(queue[w])
StoreOK == store \in [Worker -> [Task -> Kept \union {NoCkpt}]]
WorkOK == work \in [Worker -> Works \union {Idle}]
ReportsOK == reports \in [Worker -> SUBSET Reports]
ToWorkerOK == toWorker \in [Worker -> Seq(Orders \union Answers)]
ToBuddyOK == toBuddy \in [Worker -> Seq(Sent)]

(* The counts the coordinator has taken are complete. *)
TakenOK ==
  /\ \A w \in Worker : callOf[w] # NoCall => callOf[w].value = FirstSteps(Steps)
  /\ \A k \in Task : tstate[k] = "DONE" => result[k] = FirstSteps(Steps)

RingInv ==
  /\ TablesInv
  /\ FlagsOK /\ LatestOK /\ QueueOK /\ QueueOnce /\ StoreOK /\ WorkOK
  /\ ReportsOK /\ ToWorkerOK /\ ToBuddyOK /\ TakenOK

-----------------------------------------------------------------------------
(* Every step of the ring is a step of the tables *)

(* The workers' own steps leave the tables alone, and every message that a  *)
(* dispatcher handles is one the tables expect.                             *)
LEMMA RingIsTables ==
  ASSUME RingInv, [RingNext]_vars
  PROVE  [TablesNext]_tablesVars
<1>1. CASE UNCHANGED vars
  BY <1>1 DEF vars
<1>2. ASSUME NEW w \in Worker,
             \/ TakeWork(w) \/ CheckpointStep(w) \/ ResultStep(w) \/ Abandon(w)
             \/ RequestIfIdle(w) \/ SendRejoin(w)
             \/ Crash(w) \/ Restart(w) \/ SaveCheckpoint(w) \/ Discard(w)
             \/ Enqueue(w) \/ MarkNoTask(w) \/ Welcome(w) \/ RetryLater(w)
      PROVE  UNCHANGED tablesVars
  BY <1>2 DEF TakeWork, CheckpointStep, ResultStep, Abandon, RequestIfIdle, SendRejoin,
              Crash, Restart, SaveCheckpoint, Discard, Enqueue, MarkNoTask, Welcome, RetryLater
<1>3. ASSUME NEW w \in Worker, DispatchResult(w)
      PROVE  TablesNext
  <2>1. PICK r \in reports[w] : ResultRead(w, r.task, r.epoch, r.value)
    BY <1>3 DEF DispatchResult
  <2>2. r \in Reports
    BY <2>1 DEF RingInv, ReportsOK
  <2>3. r.task \in Task /\ r.epoch \in 1..epoch[r.task] /\ r.value \in Value
    BY <2>2 DEF Reports, Issued
  <2> QED
    BY <2>1, <2>3 DEF TablesNext, WorkerStep
<1>4. ASSUME NEW w \in Worker,
             SendHeartbeat(w) \/ DispatchReq(w) \/ CompleteResult(w) \/ DispatchRejoin(w)
             \/ PeriodPasses(w)
      PROVE  TablesNext
  BY <1>4 DEF SendHeartbeat, DispatchReq, ReplyToReq, CompleteResult, DispatchRejoin,
              PeriodPasses, TablesNext, WorkerStep
<1>5. CASE DetectorRound \/ DetectorScan \/ DetectorNotice \/ Finished
  BY <1>5 DEF DetectorRound, DetectorScan, DetectorNotice, Finished, TablesNext,
              DetectorStep, MainStep
<1> QED
  BY <1>1, <1>2, <1>3, <1>4, <1>5 DEF RingNext

-----------------------------------------------------------------------------
(* What a step leaves alone stays well formed *)

(* Epochs only grow.                                                        *)
LEMMA EpochsGrow ==
  ASSUME TablesInv, [TablesNext]_tablesVars
  PROVE  \A k \in Task : Issued(k) \subseteq Issued(k)'
<1> USE DEF TablesInv, TypeOK, Issued
<1>1. epoch' \in [Task -> Nat]
  BY StepInv
<1>2. ASSUME NEW w \in Worker, Assign(w)
      PROVE  \A k \in Task : epoch[k] <= epoch'[k]
  <2>1. Head(pending) \in Task /\ epoch[Head(pending)] = 0
    BY <1>2, HeadIsPending DEF Assign, TasksConsistent
  <2> QED
    BY <1>2, <2>1, SMTT(40) DEF Assign
<1>3. ASSUME NEW s \in Worker, NEW t \in Worker, ScanTask(s, t)
      PROVE  \A k \in Task : epoch[k] <= epoch'[k]
  <2>1. epoch' = epoch \/ epoch' = [epoch EXCEPT ![cursor] = epoch[cursor] + 1]
    BY <1>3 DEF ScanTask, TakeOver, NextEpoch
  <2>2. cursor \in Task /\ epoch \in [Task -> Nat]
    OBVIOUS
  <2> HIDE DEF TablesInv, TypeOK
  <2> QED
    BY <2>1, <2>2
<1>4. \A k \in Task : epoch[k] <= epoch'[k]
  <2>1. epoch' = epoch => \A k \in Task : epoch[k] <= epoch'[k]
    OBVIOUS
  <2>2. \/ \E w \in Worker : Assign(w)
        \/ \E s, t \in Worker : ScanTask(s, t)
        \/ epoch' = epoch
    BY StepKinds DEF ResultCommit, Heartbeat, Rejoin, Detect, Quiet, taskVars
  <2> QED
    BY <1>2, <1>3, <2>1, <2>2
<1> QED
  BY <1>1, <1>4

LEMMA SetsGrow ==
  ASSUME RingInv, [RingNext]_vars
  PROVE  /\ TablesInv'
         /\ Grants \subseteq Grants' /\ Orders \subseteq Orders'
         /\ Works \subseteq Works' /\ Reports \subseteq Reports'
<1>1. TablesInv /\ [TablesNext]_tablesVars
  BY RingIsTables DEF RingInv
<1>2. \A k \in Task : Issued(k) \subseteq Issued(k)'
  BY <1>1, EpochsGrow
<1>3. Grants \subseteq Grants' /\ Orders \subseteq Orders'
  BY <1>2 DEF Grants, Orders
<1>4. Works \subseteq Works' /\ Reports \subseteq Reports'
  BY <1>2 DEF Works, Reports
<1> QED
  BY <1>1, <1>3, <1>4, StepInv

LEMMA Carried ==
  ASSUME RingInv, [RingNext]_vars
  PROVE  /\ UNCHANGED queue => QueueOK' /\ QueueOnce'
         /\ UNCHANGED work => WorkOK'
         /\ UNCHANGED reports => ReportsOK'
         /\ UNCHANGED toWorker => ToWorkerOK'
         /\ UNCHANGED store => StoreOK'
         /\ UNCHANGED toBuddy => ToBuddyOK'
         /\ UNCHANGED latest => LatestOK'
         /\ UNCHANGED <<mode, crashGen, rejoinDue, rejoinSent>> => FlagsOK'
         /\ UNCHANGED tablesVars => TakenOK'
<1> USE SetsGrow DEF RingInv
<1>1. UNCHANGED queue => QueueOK' /\ QueueOnce'
  BY SeqMonotonic DEF QueueOK, QueueOnce
<1>2. UNCHANGED work => WorkOK'
  BY DEF WorkOK
<1>3. UNCHANGED reports => ReportsOK'
  BY DEF ReportsOK
<1>4. UNCHANGED toWorker => ToWorkerOK'
  BY SeqMonotonic DEF ToWorkerOK, Answers, Msg
<1>5. UNCHANGED store => StoreOK'
  BY DEF StoreOK, Kept
<1>6. UNCHANGED toBuddy => ToBuddyOK'
  BY DEF ToBuddyOK, Sent
<1>7. /\ UNCHANGED latest => LatestOK'
      /\ UNCHANGED <<mode, crashGen, rejoinDue, rejoinSent>> => FlagsOK'
  BY DEF LatestOK, FlagsOK
<1>8. UNCHANGED tablesVars => TakenOK'
  BY DEF TakenOK, tablesVars
<1> QED
  BY <1>1, <1>2, <1>3, <1>4, <1>5, <1>6, <1>7, <1>8

-----------------------------------------------------------------------------
(* Sequences *)

(* One more step counted.                                                   *)
LEMMA NextCounted ==
  ASSUME NEW n \in 1..Steps
  PROVE  /\ Append(FirstSteps(n - 1), n) = FirstSteps(n)
         /\ FirstSteps(n) \in Seq(Nat)
<1>1. /\ FirstSteps(n - 1) \in Seq(Nat) /\ Len(FirstSteps(n - 1)) = n - 1
      /\ FirstSteps(n) \in Seq(Nat) /\ Len(FirstSteps(n)) = n
  <2>1. ASSUME NEW m \in Nat
        PROVE  FirstSteps(m) \in Seq(Nat) /\ Len(FirstSteps(m)) = m
    BY DEF FirstSteps
  <2> QED
    BY <2>1
<1>2. /\ Append(FirstSteps(n - 1), n) \in Seq(Nat)
      /\ Len(Append(FirstSteps(n - 1), n)) = n
      /\ \A i \in 1..n : Append(FirstSteps(n - 1), n)[i] = FirstSteps(n)[i]
  BY <1>1, AppendProperties DEF FirstSteps
<1> QED
  BY <1>1, <1>2, SeqEqual

(* Others() loses the one entry of the task, keeps the others and adds none.*)
LEMMA OthersKept ==
  ASSUME NEW S, NEW q \in Seq(S), Once(q), NEW k
  PROVE  /\ Others(q, k) \in Seq(S)
         /\ \A j \in 1..Len(Others(q, k)) : Others(q, k)[j].task # k
         /\ Once(Others(q, k))
         /\ \A h \in 1..Len(q) : q[h].task # k =>
              \E j \in 1..Len(Others(q, k)) : Others(q, k)[j] = q[h]
<1> DEFINE at == {i \in 1..Len(q) : q[i].task = k}
<1>1. CASE at = {}
  <2>1. Others(q, k) = q /\ \A j \in 1..Len(q) : q[j].task # k
    BY <1>1 DEF Others
  <2> QED
    BY <2>1
<1>2. CASE at # {}
  <2> DEFINE i == CHOOSE i \in at : TRUE
             front == SubSeq(q, 1, i - 1)
             back == SubSeq(q, i + 1, Len(q))
  <2>1. i \in 1..Len(q) /\ q[i].task = k /\ Len(q) \in Nat /\ Others(q, k) = front \o back
    <3>1. i \in at
      BY <1>2
    <3>2. Others(q, k) = IF at = {} THEN q ELSE front \o back
      BY Zenon DEF Others
    <3>3. Others(q, k) = front \o back
      BY <1>2, <3>2, Zenon
    <3>4. i \in 1..Len(q) /\ q[i].task = k
      BY <3>1, Zenon
    <3>5. Len(q) \in Nat
      BY LenProperties
    <3> QED
      BY <3>3, <3>4, <3>5, Zenon
  <2> HIDE DEF i
  <2>2. /\ front \in Seq(S) /\ Len(front) = i - 1
        /\ \A j \in 1..(i - 1) : front[j] = q[j]
    BY <2>1, SubSeqProperties
  <2>3. /\ back \in Seq(S) /\ Len(back) = Len(q) - i
        /\ \A j \in 1..(Len(q) - i) : back[j] = q[i + j]
    BY <2>1, SubSeqProperties
  <2> HIDE DEF front, back
  <2>4. /\ front \o back \in Seq(S) /\ Len(front \o back) = Len(q) - 1
        /\ \A j \in 1..(Len(q) - 1) : (front \o back)[j] = IF j < i THEN q[j] ELSE q[j + 1]
    <3>1. /\ front \o back \in Seq(S) /\ Len(front \o back) = Len(q) - 1
          /\ \A j \in 1..(Len(q) - 1) :
               (front \o back)[j] = IF j <= i - 1 THEN front[j] ELSE back[j - (i - 1)]
      <4> DEFINE r == front \o back
      <4>1. /\ r \in Seq(S) /\ Len(r) = Len(front) + Len(back)
            /\ \A j \in 1..Len(front) + Len(back) :
                 r[j] = IF j <= Len(front) THEN front[j] ELSE back[j - Len(front)]
        BY <2>2, <2>3, ConcatProperties, ZenonT(40)
      <4> HIDE DEF r
      <4>2. Len(front) + Len(back) = Len(q) - 1 /\ Len(front) = i - 1
        BY <2>1, <2>2, <2>3
      <4>3. /\ r \in Seq(S) /\ Len(r) = Len(q) - 1
            /\ \A j \in 1..(Len(q) - 1) : r[j] = IF j <= i - 1 THEN front[j] ELSE back[j - (i - 1)]
        BY <4>1, <4>2
      <4> QED
        BY <4>3 DEF r
    <3>2. ASSUME NEW j \in 1..(Len(q) - 1)
          PROVE  (front \o back)[j] = IF j < i THEN q[j] ELSE q[j + 1]
      <4>1. CASE j < i
        BY <2>1, <2>2, <3>1, <4>1
      <4>2. CASE ~(j < i)
        <5>1. j - (i - 1) \in 1..(Len(q) - i) /\ i + (j - (i - 1)) = j + 1
          BY <2>1, <4>2, SMTT(40)
        <5> QED
          BY <2>1, <2>3, <3>1, <4>2, <5>1
      <4> QED
        BY <4>1, <4>2
    <3> QED
      BY <3>1, <3>2
  <2> DEFINE p == front \o back
  <2>5. \A j \in 1..(Len(q) - 1) : \E h \in 1..Len(q) \ {i} :
          p[j] = q[h] /\ (h = j \/ h = j + 1) /\ (j < i <=> h = j)
    <3> SUFFICES ASSUME NEW j \in 1..(Len(q) - 1)
                 PROVE  \E h \in 1..Len(q) \ {i} :
                          p[j] = q[h] /\ (h = j \/ h = j + 1) /\ (j < i <=> h = j)
      OBVIOUS
    <3> DEFINE h == IF j < i THEN j ELSE j + 1
    <3>1. h \in 1..Len(q) \ {i} /\ (h = j \/ h = j + 1) /\ (j < i <=> h = j)
      BY <2>1
    <3>2. p[j] = q[h]
      BY <2>4
    <3> QED
      BY <3>1, <3>2
  <2> HIDE DEF p
  <2>6. \A j \in 1..(Len(q) - 1) : p[j].task # k
    BY <2>1, <2>5 DEF Once
  <2>7. Len(p) = Len(q) - 1
    BY <2>4 DEF p
  <2>8. Once(p)
    <3> SUFFICES ASSUME NEW a \in 1..(Len(q) - 1), NEW b \in 1..(Len(q) - 1),
                        p[a].task = p[b].task
                 PROVE  a = b
      BY <2>7 DEF Once
    <3>1. PICK g \in 1..Len(q) \ {i} : p[a] = q[g] /\ (g = a \/ g = a + 1) /\ (a < i <=> g = a)
      BY <2>5
    <3>2. PICK h \in 1..Len(q) \ {i} : p[b] = q[h] /\ (h = b \/ h = b + 1) /\ (b < i <=> h = b)
      BY <2>5
    <3>3. g = h
      BY <3>1, <3>2 DEF Once
    <3> QED
      BY <2>1, <3>1, <3>2, <3>3
  <2>9. ASSUME NEW h \in 1..Len(q), q[h].task # k
        PROVE  \E j \in 1..Len(p) : p[j] = q[h]
    <3> DEFINE j == IF h < i THEN h ELSE h - 1
    <3>1. h # i
      BY <2>1, <2>9
    <3>2. j \in 1..(Len(q) - 1) /\ (IF j < i THEN j ELSE j + 1) = h
      BY <2>1, <3>1
    <3>3. p[j] = q[h]
      BY <2>4, <3>2 DEF p
    <3> QED
      BY <2>7, <3>2, <3>3
  <2> QED
    BY <2>1, <2>4, <2>6, <2>7, <2>8, <2>9 DEF p
<1> QED
  BY <1>1, <1>2

LEMMA AppendOnce ==
  ASSUME NEW S, NEW q \in Seq(S), Once(q), NEW a \in S, \A j \in 1..Len(q) : q[j].task # a.task
  PROVE  Append(q, a) \in Seq(S) /\ Once(Append(q, a))
BY AppendProperties DEF Once

LEMMA TailOnce ==
  ASSUME NEW S, NEW q \in Seq(S), Once(q), q # <<>>
  PROVE  Head(q) \in S /\ Tail(q) \in Seq(S) /\ Once(Tail(q))
<1>1. /\ Head(q) \in S /\ Tail(q) \in Seq(S) /\ Len(Tail(q)) = Len(q) - 1
      /\ \A j \in 1..Len(Tail(q)) : Tail(q)[j] = q[j + 1]
  BY HeadTailProperties
<1> QED
  BY <1>1 DEF Once

-----------------------------------------------------------------------------
(* The steps of a worker *)

LEMMA ComputeStep ==
  ASSUME RingInv, [RingNext]_vars, NEW w \in Worker, ComputeThread(w)
  PROVE  RingInv'
<1> USE DEF stateVars, threadVars, sentVars
<1>1. TablesInv'
  BY SetsGrow
<1>2. CASE TakeWork(w)
  <2> DEFINE a == Head(queue[w])
             c == store[w][a.task]
  <2>1. /\ a \in Grants /\ QueueOK' /\ QueueOnce'
    <3>1. queue[w] \in Seq(Grants) /\ Once(queue[w]) /\ queue[w] # <<>>
      BY <1>2 DEF TakeWork, RingInv, QueueOK, QueueOnce
    <3>2. a \in Grants /\ Tail(queue[w]) \in Seq(Grants) /\ Once(Tail(queue[w]))
      BY <3>1, TailOnce
    <3>3. Tail(queue[w]) \in Seq(Grants')
      BY <3>2, SetsGrow, SeqMonotonic
    <3>4. \A v \in Worker : queue[v] \in Seq(Grants')
      BY SetsGrow, SeqMonotonic DEF RingInv, QueueOK
    <3> QED
      BY <1>2, <3>2, <3>3, <3>4 DEF TakeWork, RingInv, QueueOK, QueueOnce
  <2>2. a.task \in Task /\ a.epoch \in Nat /\ a.epoch \in Issued(a.task)
    BY <2>1 DEF Grants
  <2>3. c \in Kept \union {NoCkpt} /\ crashGen[w] \in Nat
    BY <2>2 DEF RingInv, StoreOK, FlagsOK
  <2>4. work'[w] \in Works
    <3>1. CASE Resumes(a, c)
      <4>1. c \in Kept
        BY <2>3, <3>1 DEF Resumes
      <4>2. c.step \in 1..(Steps - 1) /\ c.partial \in Seq(Nat) /\ c.partial = FirstSteps(c.step)
        BY <4>1 DEF Kept
      <4> DEFINE x == [task |-> a.task, epoch |-> a.epoch, gen |-> crashGen[w],
                       step |-> c.step + 1, partial |-> c.partial]
      <4>3. work'[w] = x
        BY <1>2, <3>1 DEF TakeWork, StepAfterCkpt, RingInv, WorkOK
      <4>4. c.step + 1 \in 1..Steps /\ (c.step + 1) - 1 = c.step
        BY <4>2, SMTT(40)
      <4>5. x \in Works
        BY <2>2, <2>3, <4>2, <4>4 DEF Works
      <4> QED
        BY <4>3, <4>5
    <3>2. CASE ~Resumes(a, c)
      <4> DEFINE x == [task |-> a.task, epoch |-> a.epoch, gen |-> crashGen[w],
                       step |-> 1, partial |-> <<>>]
      <4>1. work'[w] = x
        BY <1>2, <3>2 DEF TakeWork, RingInv, WorkOK
      <4>2. FirstSteps(1 - 1) = <<>>
        BY DEF FirstSteps
      <4>3. x \in Works
        BY <2>2, <2>3, <4>2 DEF Works
      <4> QED
        BY <4>1, <4>3
    <3> QED
      BY <3>1, <3>2
  <2>5. WorkOK'
    BY <1>2, <2>4, SetsGrow DEF TakeWork, RingInv, WorkOK
  <2> QED
    BY <1>1, <1>2, <2>1, <2>5, Carried DEF TakeWork, RingInv
<1>3. ASSUME Finish(w)
      PROVE  WorkOK'
  BY <1>3, SetsGrow DEF Finish, RingInv, WorkOK
<1>4. ASSUME work[w] # Idle
      PROVE  /\ work[w] \in Works
             /\ Append(work[w].partial, work[w].step) = FirstSteps(work[w].step)
             /\ FirstSteps(work[w].step) \in Seq(Nat)
  <2>1. work[w] \in Works
    BY <1>4 DEF RingInv, WorkOK
  <2>2. work[w].step \in 1..Steps /\ work[w].partial = FirstSteps(work[w].step - 1)
    BY <2>1 DEF Works
  <2> QED
    BY <2>1, <2>2, NextCounted
<1>5. CASE CheckpointStep(w)
  <2> DEFINE x == work[w]
             counted == Append(x.partial, x.step)
             m == [task |-> x.task, epoch |-> x.epoch, step |-> x.step, partial |-> counted]
  <2>1. /\ x \in Works /\ counted = FirstSteps(x.step) /\ counted \in Seq(Nat)
        /\ x.step \in 1..(Steps - 1)
    <3>1. x \in Works /\ counted = FirstSteps(x.step) /\ counted \in Seq(Nat) /\ x.step < Steps
      BY <1>4, <1>5 DEF CheckpointStep, MoreSteps
    <3>2. x.step \in 1..Steps
      BY <3>1 DEF Works
    <3> HIDE DEF x, counted
    <3> QED
      BY <3>1, <3>2
  <2>2. work'[w] \in Works
    <3>1. work'[w] = [x EXCEPT !.step = x.step + 1, !.partial = counted]
      BY <1>5 DEF CheckpointStep, RingInv, WorkOK
    <3>2. x.step + 1 \in 1..Steps /\ (x.step + 1) - 1 = x.step
      BY <2>1
    <3> QED
      BY <2>1, <3>1, <3>2 DEF Works
  <2>3. WorkOK'
    <3>1. work' = [work EXCEPT ![w] = work'[w]]
      BY <1>5 DEF CheckpointStep, RingInv, WorkOK
    <3> QED
      BY <2>2, <3>1, SetsGrow DEF RingInv, WorkOK
  <2>4. ToBuddyOK'
    <3>1. m \in Sent
      BY <2>1 DEF Sent, Works
    <3>2. toBuddy' = [toBuddy EXCEPT ![w] = Append(@, m)] => ToBuddyOK'
      BY <3>1, AppendProperties DEF RingInv, ToBuddyOK, Sent
    <3> QED
      BY <1>5, <3>2, Carried DEF CheckpointStep
  <2> QED
    BY <1>1, <1>5, <2>3, <2>4, Carried DEF CheckpointStep, RingInv
<1>6. CASE ResultStep(w)
  <2> DEFINE x == work[w]
             r == [task |-> x.task, epoch |-> x.epoch, value |-> Append(x.partial, x.step)]
  <2>1. r \in Reports
    BY <1>4, <1>6 DEF ResultStep, Works, Reports
  <2>2. ReportsOK'
    BY <1>6, <2>1, SetsGrow DEF ResultStep, RingInv, ReportsOK
  <2> QED
    BY <1>1, <1>3, <1>6, <2>2, Carried DEF ResultStep, RingInv
<1>7. CASE Abandon(w)
  BY <1>1, <1>3, <1>7, Carried DEF Abandon, RingInv
<1> QED
  BY <1>2, <1>5, <1>6, <1>7 DEF ComputeThread

LEMMA HeartbeatStep ==
  ASSUME RingInv, [RingNext]_vars, NEW w \in Worker,
         RequestIfIdle(w) \/ SendHeartbeat(w) \/ SendRejoin(w)
  PROVE  RingInv'
<1> USE DEF stateVars, threadVars, sentVars
<1>1. TablesInv'
  BY SetsGrow
<1>2. CASE RequestIfIdle(w)
  BY <1>1, <1>2, Carried DEF RequestIfIdle, RingInv
<1>3. CASE SendHeartbeat(w)
  <2>1. TakenOK'
    BY <1>3 DEF SendHeartbeat, Heartbeat, taskVars, RingInv, TakenOK
  <2> QED
    BY <1>1, <1>3, <2>1, Carried DEF SendHeartbeat, ringVars, RingInv
<1>4. CASE SendRejoin(w)
  <2>1. FlagsOK'
    BY <1>4 DEF SendRejoin, RingInv, FlagsOK
  <2> QED
    BY <1>1, <1>4, <2>1, Carried DEF SendRejoin, RingInv
<1> QED
  BY <1>2, <1>3, <1>4

LEMMA PeerStep ==
  ASSUME RingInv, [RingNext]_vars, NEW w \in Worker,
         Crash(w) \/ Restart(w) \/ SaveCheckpoint(w)
  PROVE  RingInv'
<1> USE DEF stateVars, threadVars, sentVars
<1>1. TablesInv'
  BY SetsGrow
<1>2. CASE Crash(w)
  <2>1. FlagsOK' /\ LatestOK' /\ StoreOK'
    BY <1>2 DEF Crash, RingInv, FlagsOK, LatestOK, StoreOK, Kept
  <2>2. QueueOK' /\ QueueOnce'
    <3>1. \A v \in Worker : queue'[v] = <<>> \/ queue'[v] = queue[v]
      BY <1>2 DEF Crash, RingInv, QueueOK
    <3>2. \A v \in Worker : queue[v] \in Seq(Grants')
      BY SetsGrow, SeqMonotonic DEF RingInv, QueueOK
    <3>3. /\ <<>> \in Seq(Grants') /\ Once(<<>>)
         /\ \A v \in Worker : Once(queue[v])
      BY EmptySeq DEF RingInv, QueueOnce, Once
    <3>4. \A v \in Worker : queue'[v] \in Seq(Grants') /\ Once(queue'[v])
      BY <3>1, <3>2, <3>3
    <3> QED
      BY <1>2, <3>4 DEF Crash, RingInv, QueueOK, QueueOnce
  <2> QED
    BY <1>1, <1>2, <2>1, <2>2, Carried DEF Crash, RingInv
<1>3. CASE Restart(w)
  <2>1. FlagsOK'
    BY <1>3 DEF Restart, RingInv, FlagsOK
  <2> QED
    BY <1>1, <1>3, <2>1, Carried DEF Restart, RingInv
<1>4. CASE SaveCheckpoint(w)
  <2> DEFINE b == Buddy(w)
             m == Head(toBuddy[w])
             c == [epoch |-> m.epoch, step |-> m.step, partial |-> m.partial]
  <2>1. m \in Sent /\ Tail(toBuddy[w]) \in Seq(Sent)
    BY <1>4, HeadTailProperties DEF SaveCheckpoint, RingInv, ToBuddyOK
  <2>2. ToBuddyOK'
    BY <1>4, <2>1 DEF SaveCheckpoint, RingInv, ToBuddyOK, Sent
  <2>3. c \in Kept /\ m.task \in Task
    BY <2>1 DEF Sent, Kept
  <2>4. StoreOK'
    <3>1. store' = store \/ store' = [store EXCEPT ![b][m.task] = c]
      BY <1>4 DEF SaveCheckpoint
    <3>2. [store[b] EXCEPT ![m.task] = c] \in [Task -> Kept \union {NoCkpt}] \/ b \notin Worker
      BY <2>3 DEF RingInv, StoreOK
    <3> HIDE DEF b, m, c
    <3>3. store' \in [Worker -> [Task -> Kept \union {NoCkpt}]]
      BY <3>1, <3>2 DEF RingInv, StoreOK
    <3> QED
      BY <3>3 DEF StoreOK, Kept
  <2> QED
    BY <1>1, <1>4, <2>2, <2>4, Carried DEF SaveCheckpoint, RingInv
<1> QED
  BY <1>2, <1>3, <1>4

(* Taking a message leaves a well-formed channel.                           *)
LEMMA Taken ==
  ASSUME RingInv, [RingNext]_vars, NEW w \in Worker, NEW kinds, Taking(w, kinds)
  PROVE  /\ ToWorkerOK'
         /\ Head(toWorker[w]) \in Orders \union Answers
         /\ Head(toWorker[w]).kind \in kinds
<1>1. /\ toWorker[w] \in Seq(Orders \union Answers) /\ toWorker[w] # <<>>
      /\ toWorker' = [toWorker EXCEPT ![w] = Tail(toWorker[w])]
      /\ Head(toWorker[w]).kind \in kinds
  BY DEF Taking, RingInv, ToWorkerOK
<1>2. Head(toWorker[w]) \in Orders \union Answers /\ Tail(toWorker[w]) \in Seq(Orders \union Answers)
  BY <1>1, HeadTailProperties
<1>3. Answers' = Answers
  BY DEF Answers, Msg
<1>4. Orders \union Answers \subseteq (Orders \union Answers)'
  BY <1>3, SetsGrow
<1>5. \A v \in Worker : toWorker'[v] \in Seq((Orders \union Answers)')
  <2>1. \A v \in Worker : toWorker'[v] \in Seq(Orders \union Answers)
    BY <1>1, <1>2 DEF RingInv, ToWorkerOK
  <2> QED
    BY <1>4, <2>1, SeqMonotonic
<1> QED
  BY <1>1, <1>2, <1>5 DEF RingInv, ToWorkerOK

LEMMA ControlStep ==
  ASSUME RingInv, [RingNext]_vars, NEW w \in Worker, ControlThread(w)
  PROVE  RingInv'
<1> USE DEF stateVars, threadVars, sentVars
<1>1. TablesInv'
  BY SetsGrow
<1>2. CASE Discard(w)
  BY <1>1, <1>2, Taken, Carried DEF Discard, RingInv
<1>3. CASE MarkNoTask(w)
  BY <1>1, <1>3, Taken, Carried DEF MarkNoTask, RingInv
<1>4. CASE Welcome(w)
  <2>1. FlagsOK'
    BY <1>4 DEF Welcome, RingInv, FlagsOK
  <2> QED
    BY <1>1, <1>4, <2>1, Taken, Carried DEF Welcome, RingInv
<1>5. CASE RetryLater(w)
  <2>1. FlagsOK'
    BY <1>5 DEF RetryLater, RingInv, FlagsOK
  <2> QED
    BY <1>1, <1>5, <2>1, Taken, Carried DEF RetryLater, RingInv
<1>6. CASE Enqueue(w)
  <2> DEFINE m == Head(toWorker[w])
             k == m.task
             a == [task |-> k, epoch |-> m.epoch, from |-> m.from]
             rest == Others(queue[w], k)
  <2>1. m \in Orders /\ ToWorkerOK'
    <3>1. m \in Orders \union Answers /\ m.kind \in {"ASSIGN", "TAKEOVER"} /\ ToWorkerOK'
      BY <1>6, Taken DEF Enqueue
    <3> QED
      BY <3>1 DEF Answers, Msg
  <2>2. k \in Task /\ m.epoch \in Nat /\ a \in Grants
    BY <2>1 DEF Orders, Grants
  <2>3. \/ UNCHANGED <<latest, queue>>
        \/ /\ latest' = [latest EXCEPT ![w][k] = m.epoch]
           /\ queue' = [queue EXCEPT ![w] = Append(rest, a)]
    BY <1>6 DEF Enqueue, RingInv, QueueOK
  <2>4. Append(rest, a) \in Seq(Grants) /\ Once(Append(rest, a))
    <3>1. queue[w] \in Seq(Grants) /\ Once(queue[w])
      BY DEF RingInv, QueueOK, QueueOnce
    <3>2. rest \in Seq(Grants) /\ Once(rest) /\ \A j \in 1..Len(rest) : rest[j].task # a.task
      BY <3>1, OthersKept
    <3> QED
      BY <2>2, <3>2, AppendOnce
  <2>5. CASE UNCHANGED <<latest, queue>>
    BY <1>1, <1>6, <2>1, <2>5, Carried DEF Enqueue, RingInv
  <2>6. CASE /\ latest' = [latest EXCEPT ![w][k] = m.epoch]
             /\ queue' = [queue EXCEPT ![w] = Append(rest, a)]
    <3>1. LatestOK'
      <4> HIDE DEF m, k, rest, a
      <4> QED
        BY <2>2, <2>6 DEF RingInv, LatestOK
    <3>2. QueueOK' /\ QueueOnce'
      <4> HIDE DEF rest, a
      <4>1. \A v \in Worker : queue'[v] \in Seq(Grants) /\ Once(queue'[v])
        BY <2>4, <2>6 DEF RingInv, QueueOK, QueueOnce
      <4>2. \A v \in Worker : queue'[v] \in Seq(Grants')
        BY <4>1, SetsGrow, SeqMonotonic
      <4> QED
        BY <2>6, <4>1, <4>2 DEF RingInv, QueueOK, QueueOnce
    <3> QED
      BY <1>1, <1>6, <2>1, <3>1, <3>2, Carried DEF Enqueue, RingInv
  <2> QED
    BY <2>3, <2>5, <2>6
<1> QED
  BY <1>2, <1>3, <1>4, <1>5, <1>6 DEF ControlThread

-----------------------------------------------------------------------------
(* The steps of the coordinator *)

LEMMA Told ==
  ASSUME RingInv, [RingNext]_vars, NEW w \in Worker, NEW m, Tell(w, m),
         m \in Orders' \union Answers
  PROVE  ToWorkerOK'
<1>1. Answers' = Answers /\ Orders \subseteq Orders'
  BY SetsGrow DEF Answers, Msg
<1>2. \A v \in Worker : toWorker[v] \in Seq(Orders' \union Answers)
  BY <1>1, SeqMonotonic DEF RingInv, ToWorkerOK
<1>3. Append(toWorker[w], m) \in Seq(Orders' \union Answers)
  BY <1>2, AppendProperties
<1>4. toWorker' = [toWorker EXCEPT ![w] = Append(toWorker[w], m)]
  BY DEF Tell, RingInv, ToWorkerOK
<1> QED
  BY <1>1, <1>2, <1>3, <1>4 DEF RingInv, ToWorkerOK

(* Only a RESULT changes what has been taken; a new grant is not DONE.      *)
LEMMA TakenUntouched ==
  ASSUME RingInv, UNCHANGED <<callOf, result>>,
         \/ UNCHANGED tstate
         \/ \E k \in Task : tstate' = [tstate EXCEPT ![k] = "ASSIGNED"]
  PROVE  TakenOK'
BY DEF RingInv, TablesInv, TypeOK, TakenOK

LEMMA RequestStep ==
  ASSUME RingInv, [RingNext]_vars, NEW w \in Worker, DispatchReq(w)
  PROVE  RingInv'
<1> USE DEF stateVars, threadVars, sentVars
<1>1. TablesInv'
  BY SetsGrow
<1>2. CASE Assign(w) /\ Tell(w, Grant("ASSIGN", Head(pending), 1, None))
  <2>1. Head(pending) \in Task /\ epoch'[Head(pending)] = 1
    BY <1>2, HeadIsPending DEF Assign, RingInv, TablesInv, TypeOK
  <2>2. Grant("ASSIGN", Head(pending), 1, None) \in Orders'
    BY <2>1 DEF Grant, Orders, Issued
  <2>3. ToWorkerOK'
    BY <1>2, <2>2, Told
  <2>4. TakenOK'
    BY <1>2, <2>1, TakenUntouched DEF Assign
  <2> QED
    BY <1>1, <2>3, <2>4, Carried DEF DispatchReq, RingInv
<1>3. CASE Refuse(w) /\ (Tell(w, Msg("NO_TASK")) \/ UNCHANGED toWorker)
  <2>1. TakenOK' /\ ToWorkerOK'
    BY <1>3, Told, Carried DEF Refuse, Answers
  <2> QED
    BY <1>1, <2>1, Carried DEF DispatchReq, RingInv
<1> QED
  BY <1>2, <1>3 DEF DispatchReq, ReplyToReq

LEMMA ResultHandled ==
  ASSUME RingInv, [RingNext]_vars, NEW w \in Worker, DispatchResult(w) \/ CompleteResult(w)
  PROVE  RingInv'
<1> USE DEF stateVars, threadVars, sentVars
<1>1. TablesInv'
  BY SetsGrow
<1>2. CASE DispatchResult(w)
  <2>1. PICK r \in reports[w] : /\ ResultRead(w, r.task, r.epoch, r.value)
                                /\ reports' = [reports EXCEPT ![w] = @ \ {r}]
    BY <1>2 DEF DispatchResult
  <2>2. r.value = FirstSteps(Steps)
    BY <2>1 DEF RingInv, ReportsOK, Reports
  <2>3. TakenOK'
    BY <2>1, <2>2 DEF ResultRead, taskVars, RingInv, TablesInv, TypeOK, TakenOK
  <2>4. ReportsOK'
    BY <2>1, SetsGrow DEF RingInv, ReportsOK
  <2> QED
    BY <1>1, <1>2, <2>3, <2>4, Carried DEF DispatchResult, RingInv
<1>3. CASE CompleteResult(w)
  <2>1. TakenOK'
    <3>1. CASE ResultCommit(w)
      <4>1. callOf[w] \in Call /\ callOf[w].task \in Task /\ callOf[w].value = FirstSteps(Steps)
        BY <3>1 DEF ResultCommit, RingInv, TablesInv, TypeOK, TakenOK, Call
      <4> QED
        BY <3>1, <4>1 DEF ResultCommit, RingInv, TablesInv, TypeOK, TakenOK
    <3>2. CASE ResultReject(w)
      BY <3>2 DEF ResultReject, taskVars, RingInv, TablesInv, TypeOK, TakenOK
    <3> QED
      BY <1>3, <3>1, <3>2 DEF CompleteResult
  <2> QED
    BY <1>1, <1>3, <2>1, Carried DEF CompleteResult, ringVars, RingInv
<1> QED
  BY <1>2, <1>3

LEMMA RejoinStep ==
  ASSUME RingInv, [RingNext]_vars, NEW w \in Worker, DispatchRejoin(w)
  PROVE  RingInv'
<1> USE DEF stateVars, threadVars, sentVars
<1>1. TablesInv'
  BY SetsGrow
<1>2. TakenOK'
  BY TakenUntouched DEF DispatchRejoin, Rejoin, RejoinLater, taskVars, tablesVars
<1>3. ToWorkerOK'
  BY Told DEF DispatchRejoin, Answers
<1>4. FlagsOK'
  BY DEF DispatchRejoin, RingInv, FlagsOK
<1> QED
  BY <1>1, <1>2, <1>3, <1>4, Carried DEF DispatchRejoin, RingInv

(* The notice the detector sends announces a grant that still holds.        *)
LEMMA NoticeIsOrder ==
  ASSUME RingInv, [RingNext]_vars, notices # <<>>
  PROVE  LET n == Head(notices) IN
         /\ n.task \in Task /\ n.to \in Worker
         /\ owner[n.task] = n.to /\ epoch[n.task] = n.epoch
         /\ Grant("TAKEOVER", n.task, n.epoch, n.from) \in Orders'
<1> DEFINE n == Head(notices)
<1>1. n \in Notice /\ n = notices[1] /\ 1 \in 1..Len(notices)
  BY HeadTailProperties DEF RingInv, TablesInv, TypeOK
<1>2. owner[n.task] = n.to /\ epoch[n.task] = n.epoch
  BY <1>1 DEF RingInv, TablesInv, NoticeCurrent
<1>3. /\ n.task \in Task /\ n.to \in Worker /\ n.from \in Worker /\ n.epoch \in Nat
      /\ n.to # None /\ n.from # None
  BY <1>1 DEF Notice, Worker
<1>4. n.epoch \in Issued(n.task)
  BY <1>2, <1>3 DEF Issued, RingInv, TablesInv, TasksConsistent
<1>5. Grant("TAKEOVER", n.task, n.epoch, n.from) \in Orders'
  BY <1>3, <1>4, SetsGrow DEF Grant, Orders
<1> QED
  BY <1>2, <1>3, <1>5

LEMMA OtherStep ==
  ASSUME RingInv, [RingNext]_vars,
         \/ \E w \in Worker : PeriodPasses(w)
         \/ DetectorRound \/ DetectorScan \/ DetectorNotice \/ Finished
  PROVE  RingInv'
<1> USE DEF stateVars, threadVars, sentVars
<1>1. TablesInv'
  BY SetsGrow
<1>2. UNCHANGED <<callOf, result, tstate>>
  BY DEF PeriodPasses, Silence, DetectorRound, Detect, DetectorScan, ScanTask, DetectorNotice,
         SendNotice, Finished, MainFinish, taskVars
<1>3. TakenOK'
  BY <1>2, TakenUntouched
<1>4. CASE DetectorNotice
  <2>1. ToWorkerOK'
    BY <1>4, NoticeIsOrder, Told DEF DetectorNotice, SendNotice
  <2> QED
    BY <1>1, <1>3, <1>4, <2>1, Carried DEF DetectorNotice, RingInv
<1>5. CASE UNCHANGED ringVars
  BY <1>1, <1>3, <1>5, Carried DEF ringVars, RingInv
<1> QED
  BY <1>4, <1>5 DEF PeriodPasses, DetectorRound, DetectorScan, Finished

LEMMA RingStep == RingInv /\ [RingNext]_vars => RingInv'
<1> SUFFICES ASSUME RingInv, [RingNext]_vars PROVE RingInv'
  OBVIOUS
<1>1. CASE UNCHANGED vars
  <2>1. UNCHANGED tablesVars /\ UNCHANGED ringVars
    BY <1>1 DEF vars
  <2> QED
    BY <2>1, SetsGrow, Carried DEF ringVars, stateVars, threadVars, sentVars, RingInv
<1> QED
  BY <1>1, ComputeStep, HeartbeatStep, PeerStep, ControlStep, RequestStep, ResultHandled,
     RejoinStep, OtherStep DEF RingNext, ComputeThread, ControlThread

-----------------------------------------------------------------------------
(* The theorems *)

(* The tables just after START differ from the initial ones only in what    *)
(* the start-up exchange has set.                                           *)
LEMMA RingInitTables == RingInit => TablesInv
<1> SUFFICES ASSUME RingInit PROVE TablesInv
  OBVIOUS
<1> USE DEF RingInit
<1>1. TypeOK
  <2>1. pending \in Seq(Task)
    <3>1. pending = [k \in 1..TaskCount |-> k] /\ TaskCount \in Nat
      BY DEF Task
    <3> QED
      BY <3>1 DEF Task
  <2>2. cursor \in Task /\ notices \in Seq(Notice) /\ sources \subseteq Worker
    BY DEF Task
  <2>3. /\ wstate \in [Worker -> {"ALIVE", "SUSPECT", "DEAD"}]
        /\ gap \in [Worker -> 0..DeadAfter] /\ rejoins \in [Worker -> Nat]
        /\ callOf \in [Worker -> Call \union {NoCall}]
    OBVIOUS
  <2>4. /\ tstate \in [Task -> {"PENDING", "ASSIGNED", "DONE"}]
        /\ owner \in [Task -> Worker \union {None}] /\ epoch \in [Task -> Nat]
        /\ result \in [Task -> Value \union {None}]
        /\ commitCount \in [Task -> Nat] /\ doneCount \in Nat
    OBVIOUS
  <2> QED
    BY <2>1, <2>2, <2>3, <2>4 DEF TypeOK
<1>2. TasksConsistent /\ VerifyPasses /\ DoneWhenFinished
  BY DEF TasksConsistent, VerifyPasses, DoneWhenFinished, Worker
<1>3. PendingExact
  <2>1. pending = [k \in 1..TaskCount |-> k] /\ Len(pending) = TaskCount /\ TaskCount \in Nat
    BY DEF Task
  <2> QED
    BY <2>1 DEF PendingExact, Task
<1>4. ScanConsistent /\ OwnerWatched
  <2>1. 1 \in Worker /\ wstate[1] = "ALIVE" /\ sources = {} /\ cursor = 1
        /\ \A w \in Worker : wstate[w] = "ALIVE"
    BY DEF Worker
  <2>2. \A k \in Task : tstate[k] = "PENDING"
    OBVIOUS
  <2> QED
    BY <2>1, <2>2 DEF ScanConsistent, OwnerWatched
<1>5. NoticeCurrent /\ DeadReadStable
  BY DEF NoticeCurrent, DeadReadStable
<1>6. CommitsExact
  BY FS_EmptySet DEF CommitsExact
<1> QED
  BY <1>1, <1>2, <1>3, <1>4, <1>5, <1>6 DEF TablesInv

LEMMA RingInitInv == RingInit => RingInv
<1> SUFFICES ASSUME RingInit PROVE RingInv
  OBVIOUS
<1>1. TablesInv
  BY RingInitTables
<1>2. FlagsOK /\ LatestOK /\ StoreOK /\ WorkOK /\ ReportsOK /\ TakenOK
  BY DEF RingInit, FlagsOK, LatestOK, StoreOK, WorkOK, ReportsOK, TakenOK
<1>3. QueueOK /\ QueueOnce /\ ToWorkerOK /\ ToBuddyOK
  BY EmptySeq DEF RingInit, QueueOK, QueueOnce, Once, ToWorkerOK, ToBuddyOK
<1> QED
  BY <1>1, <1>2, <1>3 DEF RingInv

(* The inductive invariant of the ring: what travels names an epoch that    *)
(* was issued, what is counted is the steps before the next one, and a task *)
(* waits at most once in a queue (state.py, network.py, compute.py).        *)
THEOREM RingInvariance == RingSpec => []RingInv
BY RingInitInv, RingStep, PTL DEF RingSpec

(* The messages of the workers keep the coordinator within the specification*)
(* of its tables: no thread of the ring gives it a call TablesNext does not *)
(* allow, so what is proved of the tables holds in the running system.      *)
THEOREM RingKeepsTables == RingSpec => [][TablesNext]_tablesVars
BY RingInvariance, RingIsTables, PTL DEF RingSpec

(* Each step of a task is counted exactly once, through crashes, resumed    *)
(* checkpoints and results overtaken by a takeover (compute.py, state.py).  *)
THEOREM ExactCounts == RingSpec => []CountsExact
<1>1. RingInv => CountsExact
  <2> SUFFICES ASSUME RingInv PROVE CountsExact
    OBVIOUS
  <2>1. \A w \in Worker : work[w] # Idle => work[w].partial = FirstSteps(work[w].step - 1)
    BY DEF RingInv, WorkOK, Works
  <2>2. \A w \in Worker, k \in Task :
          store[w][k] # NoCkpt => store[w][k].partial = FirstSteps(store[w][k].step)
    BY DEF RingInv, StoreOK, Kept
  <2>3. \A w \in Worker : \A r \in reports[w] : r.value = FirstSteps(Steps)
    BY DEF RingInv, ReportsOK, Reports
  <2> QED
    BY <2>1, <2>2, <2>3 DEF CountsExact, RingInv, TakenOK
<1> QED
  BY <1>1, RingInvariance, PTL

(* In the running system, too, no takeover is forgotten and the counter Main*)
(* waits for is exact (detector.py, tables.py).                             *)
THEOREM RingLosesNoTakeover == RingSpec => [](DeadOwnsNothing /\ CommitsExact)
<1>1. RingInv => DeadOwnsNothing /\ CommitsExact
  BY DEF RingInv, TablesInv, OwnerWatched, DeadOwnsNothing, TablesLockFree
<1> QED
  BY <1>1, RingInvariance, PTL

-----------------------------------------------------------------------------
(* Channels *)

LEMMA ChannelType ==
  ASSUME RingInv, NEW w \in Worker
  PROVE  toWorker[w] \in Seq(Orders \union Answers) /\ Len(toWorker[w]) \in Nat
<1>1. toWorker[w] \in Seq(Orders \union Answers)
  BY DEF RingInv, ToWorkerOK
<1> QED
  BY <1>1, LenProperties

LEMMA TakingShape ==
  ASSUME RingInv, NEW w \in Worker, NEW kinds, Taking(w, kinds)
  PROVE  /\ Len(toWorker[w]) \in Nat /\ 1 <= Len(toWorker[w])
         /\ Head(toWorker[w]) = toWorker[w][1] /\ toWorker[w][1].kind \in kinds
         /\ Len(toWorker'[w]) = Len(toWorker[w]) - 1
         /\ \A i \in 1..(Len(toWorker[w]) - 1) : toWorker'[w][i] = toWorker[w][i + 1]
         /\ \A v \in Worker : v # w => toWorker'[v] = toWorker[v]
<1>1. /\ toWorker[w] \in Seq(Orders \union Answers) /\ toWorker[w] # <<>>
      /\ toWorker'[w] = Tail(toWorker[w]) /\ Head(toWorker[w]).kind \in kinds
      /\ \A v \in Worker : v # w => toWorker'[v] = toWorker[v]
  BY DEF Taking, RingInv, ToWorkerOK
<1>2. /\ Len(toWorker[w]) \in Nat /\ 1 <= Len(toWorker[w])
      /\ Head(toWorker[w]) = toWorker[w][1]
  BY <1>1, EmptySeq
<1>3. /\ Len(Tail(toWorker[w])) = Len(toWorker[w]) - 1
      /\ \A i \in 1..(Len(toWorker[w]) - 1) : Tail(toWorker[w])[i] = toWorker[w][i + 1]
  BY <1>1, HeadTailProperties
<1> QED
  BY <1>1, <1>2, <1>3

LEMMA TellShape ==
  ASSUME RingInv, NEW w \in Worker, NEW m, Tell(w, m)
  PROVE  /\ Len(toWorker[w]) \in Nat
         /\ Len(toWorker'[w]) = Len(toWorker[w]) + 1
         /\ \A i \in 1..Len(toWorker[w]) : toWorker'[w][i] = toWorker[w][i]
         /\ toWorker'[w][Len(toWorker[w]) + 1] = m
         /\ \A v \in Worker : v # w => toWorker'[v] = toWorker[v]
<1>1. /\ toWorker[w] \in Seq(Orders \union Answers \union {m})
      /\ toWorker'[w] = Append(toWorker[w], m)
      /\ \A v \in Worker : v # w => toWorker'[v] = toWorker[v]
  BY SeqMonotonic DEF Tell, RingInv, ToWorkerOK
<1>2. Len(toWorker[w]) \in Nat
  BY <1>1, LenProperties
<1> QED
  BY <1>1, <1>2, AppendProperties

-----------------------------------------------------------------------------
(* The rejoin of a worker *)

IsAnswer(m) == m.kind \in {"WELCOME", "RETRY_LATER"}
AnswerIn(q) == \E i \in 1..Len(q) : IsAnswer(q[i])
OneAnswer(q) == \A i, j \in 1..Len(q) : IsAnswer(q[i]) /\ IsAnswer(q[j]) => i = j

(* A rejoining worker has one REJOIN due, under way or answered, and no     *)
(* other worker has any.                                                    *)
Talk(w) ==
  /\ OneAnswer(toWorker[w])
  /\ AnswerIn(toWorker[w]) => mode[w] = "REJOINING" /\ ~rejoinDue[w] /\ ~rejoinSent[w]
  /\ rejoinDue[w] => mode[w] = "REJOINING" /\ ~rejoinSent[w]
  /\ rejoinSent[w] => mode[w] = "REJOINING"
  /\ mode[w] = "REJOINING" => rejoinDue[w] \/ rejoinSent[w] \/ AnswerIn(toWorker[w])

LEMMA TalkKept ==
  ASSUME NEW w \in Worker, Talk(w), toWorker'[w] = toWorker[w], mode'[w] = mode[w],
         rejoinDue'[w] = rejoinDue[w], rejoinSent'[w] = rejoinSent[w]
  PROVE  Talk(w)'
BY DEF Talk, AnswerIn, OneAnswer

(* A message taken that is no answer, and one sent that is none.            *)
LEMMA TalkTaken ==
  ASSUME RingInv, NEW w \in Worker, NEW kinds, Taking(w, kinds), Talk(w),
         ~IsAnswer(toWorker[w][1])
  PROVE  OneAnswer(toWorker'[w]) /\ (AnswerIn(toWorker'[w]) <=> AnswerIn(toWorker[w]))
<1> DEFINE q == toWorker[w]
           p == toWorker'[w]
<1>1. /\ Len(q) \in Nat /\ 1 <= Len(q) /\ Len(p) = Len(q) - 1
      /\ \A i \in 1..(Len(q) - 1) : p[i] = q[i + 1]
  BY TakingShape
<1>2. OneAnswer(q) /\ ~IsAnswer(q[1])
  BY DEF Talk
<1> HIDE DEF p, q
<1>3. OneAnswer(p)
  BY <1>1, <1>2, SMTT(40) DEF OneAnswer
<1>4. ASSUME NEW i \in 1..Len(q), IsAnswer(q[i])
      PROVE  i - 1 \in 1..Len(p) /\ IsAnswer(p[i - 1])
  BY <1>1, <1>2, <1>4
<1>5. ASSUME NEW i \in 1..Len(p), IsAnswer(p[i])
      PROVE  i + 1 \in 1..Len(q) /\ IsAnswer(q[i + 1])
  BY <1>1, <1>5
<1>6. AnswerIn(p) <=> AnswerIn(q)
  BY <1>4, <1>5 DEF AnswerIn
<1> QED
  BY <1>3, <1>6 DEF p, q

LEMMA TalkTold ==
  ASSUME RingInv, NEW w \in Worker, NEW m, Tell(w, m), Talk(w)
  PROVE  /\ OneAnswer(toWorker'[w]) \/ (IsAnswer(m) /\ AnswerIn(toWorker[w]))
         /\ AnswerIn(toWorker'[w]) <=> AnswerIn(toWorker[w]) \/ IsAnswer(m)
<1> DEFINE q == toWorker[w]
           p == toWorker'[w]
<1>1. /\ Len(q) \in Nat /\ Len(p) = Len(q) + 1
      /\ \A i \in 1..Len(q) : p[i] = q[i]
  BY TellShape
<1>2. p[Len(p)] = m /\ Len(p) \in 1..Len(p)
  BY TellShape
<1>3. OneAnswer(q)
  BY DEF Talk
<1> HIDE DEF p, q
<1>4. AnswerIn(p) <=> AnswerIn(q) \/ IsAnswer(m)
  BY <1>1, <1>2 DEF AnswerIn
<1>5. OneAnswer(p) \/ (IsAnswer(m) /\ AnswerIn(q))
  <2> SUFFICES ASSUME NEW i \in 1..Len(p), NEW j \in 1..Len(p), IsAnswer(p[i]), IsAnswer(p[j]),
                      ~(IsAnswer(m) /\ AnswerIn(q))
               PROVE  i = j
    BY DEF OneAnswer
  <2> QED
    BY <1>1, <1>2, <1>3 DEF OneAnswer, AnswerIn
<1> QED
  BY <1>4, <1>5 DEF p, q

(* Only the rejoin's own steps change whether an answer is under way.       *)
LEMMA NoAnswerMoves ==
  ASSUME RingInv, NEW v \in Worker, Talk(v), [RingNext]_vars,
         \/ UNCHANGED toWorker
         \/ \E w \in Worker, m \in Orders' \union {Msg("NO_TASK")} : Tell(w, m)
         \/ \E w \in Worker : Taking(w, {"ASSIGN", "TAKEOVER", "NO_TASK"})
  PROVE  OneAnswer(toWorker'[v]) /\ (AnswerIn(toWorker'[v]) <=> AnswerIn(toWorker[v]))
<1>1. ASSUME toWorker'[v] = toWorker[v]
      PROVE  OneAnswer(toWorker'[v]) /\ (AnswerIn(toWorker'[v]) <=> AnswerIn(toWorker[v]))
  BY <1>1 DEF Talk, OneAnswer, AnswerIn
<1>2. ASSUME NEW m \in Orders' \union {Msg("NO_TASK")}, Tell(v, m)
      PROVE  OneAnswer(toWorker'[v]) /\ (AnswerIn(toWorker'[v]) <=> AnswerIn(toWorker[v]))
  <2>1. ~IsAnswer(m)
    BY DEF Orders, Msg, IsAnswer
  <2> QED
    BY <1>2, <2>1, TalkTold
<1>3. ASSUME Taking(v, {"ASSIGN", "TAKEOVER", "NO_TASK"})
      PROVE  OneAnswer(toWorker'[v]) /\ (AnswerIn(toWorker'[v]) <=> AnswerIn(toWorker[v]))
  <2>1. ~IsAnswer(toWorker[v][1])
    BY <1>3, TakingShape DEF IsAnswer
  <2> QED
    BY <1>3, <2>1, TalkTaken
<1>4. ASSUME NEW w \in Worker, NEW m, Tell(w, m), w # v
      PROVE  toWorker'[v] = toWorker[v]
  BY <1>4, TellShape
<1>5. ASSUME NEW w \in Worker, Taking(w, {"ASSIGN", "TAKEOVER", "NO_TASK"}), w # v
      PROVE  toWorker'[v] = toWorker[v]
  BY <1>5, TakingShape
<1> QED
  BY <1>1, <1>2, <1>3, <1>4, <1>5

(* Every step but those of the rejoin itself.                               *)
LEMMA PlainStep ==
  ASSUME RingInv, [RingNext]_vars
  PROVE  \/ \E w \in Worker : \/ SendRejoin(w) \/ Crash(w) \/ Restart(w) \/ Discard(w)
                              \/ Welcome(w) \/ RetryLater(w) \/ DispatchRejoin(w)
         \/ /\ UNCHANGED <<mode, rejoinDue, rejoinSent>>
            /\ \/ UNCHANGED toWorker
               \/ \E w \in Worker, m \in Orders' \union {Msg("NO_TASK")} : Tell(w, m)
               \/ \E w \in Worker : Taking(w, {"ASSIGN", "TAKEOVER", "NO_TASK"})
<1> USE DEF stateVars, threadVars, sentVars
<1> DEFINE Flags == UNCHANGED <<mode, rejoinDue, rejoinSent>>
<1>1. CASE UNCHANGED vars
  BY <1>1 DEF vars, ringVars
<1>2. ASSUME NEW w \in Worker, ComputeThread(w)
      PROVE  Flags /\ UNCHANGED toWorker
  BY <1>2 DEF ComputeThread, TakeWork, CheckpointStep, ResultStep, Abandon
<1>3. ASSUME NEW w \in Worker,
             RequestIfIdle(w) \/ SendHeartbeat(w) \/ SaveCheckpoint(w)
             \/ DispatchResult(w) \/ CompleteResult(w) \/ PeriodPasses(w)
      PROVE  Flags /\ UNCHANGED toWorker
  BY <1>3 DEF RequestIfIdle, SendHeartbeat, SaveCheckpoint, DispatchResult, CompleteResult,
              PeriodPasses, ringVars
<1>4. ASSUME NEW w \in Worker, Enqueue(w) \/ MarkNoTask(w)
      PROVE  Flags /\ Taking(w, {"ASSIGN", "TAKEOVER", "NO_TASK"})
  BY <1>4 DEF Enqueue, MarkNoTask, Taking
<1>5. ASSUME NEW w \in Worker, DispatchReq(w)
      PROVE  /\ Flags
             /\ \/ UNCHANGED toWorker
                \/ \E m \in Orders' \union {Msg("NO_TASK")} : Tell(w, m)
  <2>1. Flags
    BY <1>5 DEF DispatchReq
  <2>2. CASE Assign(w) /\ Tell(w, Grant("ASSIGN", Head(pending), 1, None))
    <3>1. Head(pending) \in Task /\ epoch'[Head(pending)] = 1
      BY <2>2, HeadIsPending DEF Assign, RingInv, TablesInv, TypeOK
    <3>2. Grant("ASSIGN", Head(pending), 1, None) \in Orders'
      BY <3>1 DEF Grant, Orders, Issued
    <3> QED
      BY <2>1, <2>2, <3>2
  <2> QED
    BY <1>5, <2>1, <2>2 DEF DispatchReq, ReplyToReq
<1>6. CASE DetectorNotice
  <2> DEFINE n == Head(notices)
  <2>1. /\ n.to \in Worker /\ Flags
        /\ Tell(n.to, Grant("TAKEOVER", n.task, n.epoch, n.from))
        /\ Grant("TAKEOVER", n.task, n.epoch, n.from) \in Orders'
    BY <1>6, NoticeIsOrder DEF DetectorNotice, SendNotice
  <2> QED
    BY <2>1
<1>7. CASE DetectorRound \/ DetectorScan \/ Finished
  BY <1>7 DEF DetectorRound, DetectorScan, Finished, ringVars
<1> QED
  BY <1>1, <1>2, <1>3, <1>4, <1>5, <1>6, <1>7 DEF RingNext, ComputeThread

(* The other workers see nothing of a rejoin.                               *)
LEMMA RejoinsApart ==
  ASSUME RingInv, NEW w \in Worker, NEW v \in Worker, v # w,
         \/ SendRejoin(w) \/ Crash(w) \/ Restart(w) \/ Discard(w)
         \/ Welcome(w) \/ RetryLater(w) \/ DispatchRejoin(w)
  PROVE  /\ toWorker'[v] = toWorker[v] /\ mode'[v] = mode[v]
         /\ rejoinDue'[v] = rejoinDue[v] /\ rejoinSent'[v] = rejoinSent[v]
<1> USE DEF stateVars, threadVars, sentVars, RingInv, FlagsOK
<1>1. CASE SendRejoin(w) \/ Crash(w) \/ Restart(w)
  BY <1>1 DEF SendRejoin, Crash, Restart
<1>2. CASE Discard(w) \/ Welcome(w) \/ RetryLater(w)
  BY <1>2, TakingShape DEF Discard, Welcome, RetryLater
<1>3. CASE DispatchRejoin(w)
  BY <1>3, TellShape DEF DispatchRejoin
<1> QED
  BY <1>1, <1>2, <1>3

LEMMA TalkStep ==
  ASSUME RingInv, [RingNext]_vars, \A v \in Worker : Talk(v)
  PROVE  \A v \in Worker : Talk(v)'
<1> USE DEF stateVars, threadVars, sentVars
<1>0. RingInv'
  BY RingStep
<1>1. ASSUME UNCHANGED <<mode, rejoinDue, rejoinSent>>,
             \/ UNCHANGED toWorker
             \/ \E w \in Worker, m \in Orders' \union {Msg("NO_TASK")} : Tell(w, m)
             \/ \E w \in Worker : Taking(w, {"ASSIGN", "TAKEOVER", "NO_TASK"})
      PROVE  \A v \in Worker : Talk(v)'
  <2> SUFFICES ASSUME NEW v \in Worker PROVE Talk(v)'
    OBVIOUS
  <2>1. OneAnswer(toWorker'[v]) /\ (AnswerIn(toWorker'[v]) <=> AnswerIn(toWorker[v]))
    BY <1>1, NoAnswerMoves
  <2> QED
    BY <1>1, <2>1 DEF Talk
<1>2. ASSUME NEW w \in Worker, Talk(w)',
             \/ SendRejoin(w) \/ Crash(w) \/ Restart(w) \/ Discard(w)
             \/ Welcome(w) \/ RetryLater(w) \/ DispatchRejoin(w)
      PROVE  \A v \in Worker : Talk(v)'
  BY <1>2, RejoinsApart, TalkKept
<1>3. ASSUME NEW w \in Worker, SendRejoin(w)
      PROVE  Talk(w)'
  <2>1. /\ rejoinDue[w] /\ ~rejoinDue'[w] /\ rejoinSent'[w]
        /\ mode'[w] = mode[w] /\ toWorker'[w] = toWorker[w]
    BY <1>3 DEF SendRejoin, RingInv, FlagsOK
  <2> QED
    BY <2>1 DEF Talk
<1>4. ASSUME NEW w \in Worker, Crash(w)
      PROVE  Talk(w)'
  <2>1. /\ mode[w] = "RUNNING" /\ mode'[w] = "CRASHED" /\ ~rejoinDue'[w]
        /\ rejoinSent'[w] = rejoinSent[w] /\ toWorker'[w] = toWorker[w]
    BY <1>4 DEF Crash, RingInv, FlagsOK
  <2> QED
    BY <2>1 DEF Talk
<1>5. ASSUME NEW w \in Worker, Restart(w)
      PROVE  Talk(w)'
  <2>1. /\ mode[w] = "CRASHED" /\ mode'[w] = "REJOINING" /\ rejoinDue'[w]
        /\ rejoinSent'[w] = rejoinSent[w] /\ toWorker'[w] = toWorker[w]
    BY <1>5 DEF Restart, RingInv, FlagsOK
  <2> QED
    BY <2>1 DEF Talk
<1>6. ASSUME NEW w \in Worker, Discard(w)
      PROVE  Talk(w)'
  <2>1. mode[w] = "CRASHED" /\ UNCHANGED <<mode, rejoinDue, rejoinSent>>
    BY <1>6 DEF Discard
  <2>2. ~AnswerIn(toWorker[w])
    BY <2>1 DEF Talk
  <2>3. ~IsAnswer(toWorker[w][1])
    BY <1>6, <2>2, TakingShape DEF Discard, AnswerIn
  <2>4. OneAnswer(toWorker'[w]) /\ ~AnswerIn(toWorker'[w])
    BY <1>6, <2>2, <2>3, TalkTaken DEF Discard
  <2> QED
    BY <2>1, <2>2, <2>4 DEF Talk
<1>7. ASSUME NEW w \in Worker, Taking(w, {"WELCOME", "RETRY_LATER"})
      PROVE  /\ mode[w] = "REJOINING" /\ ~rejoinDue[w] /\ ~rejoinSent[w]
             /\ OneAnswer(toWorker'[w]) /\ ~AnswerIn(toWorker'[w])
  <2> DEFINE q == toWorker[w]
             p == toWorker'[w]
  <2>1. /\ Len(q) \in Nat /\ 1 <= Len(q) /\ Len(p) = Len(q) - 1 /\ IsAnswer(q[1])
        /\ \A i \in 1..(Len(q) - 1) : p[i] = q[i + 1]
    BY <1>7, TakingShape DEF IsAnswer
  <2>2. OneAnswer(q)
    BY DEF Talk
  <2>3. AnswerIn(q)
    BY <2>1 DEF AnswerIn
  <2> HIDE DEF p, q
  <2>4. \A i \in 1..Len(p) : ~IsAnswer(p[i])
    BY <2>1, <2>2 DEF OneAnswer
  <2>5. OneAnswer(p) /\ ~AnswerIn(p)
    BY <2>4 DEF OneAnswer, AnswerIn
  <2> QED
    BY <2>3, <2>5 DEF p, q, Talk
<1>8. ASSUME NEW w \in Worker, Welcome(w)
      PROVE  Talk(w)'
  <2>1. Taking(w, {"WELCOME", "RETRY_LATER"})
    BY <1>8 DEF Welcome, Taking
  <2>2. mode'[w] = "RUNNING" /\ ~rejoinDue'[w] /\ ~rejoinSent'[w]
    BY <1>7, <1>8, <2>1 DEF Welcome, RingInv, FlagsOK
  <2> QED
    BY <1>7, <2>1, <2>2 DEF Talk
<1>9. ASSUME NEW w \in Worker, RetryLater(w)
      PROVE  Talk(w)'
  <2>1. Taking(w, {"WELCOME", "RETRY_LATER"})
    BY <1>9 DEF RetryLater, Taking
  <2>2. mode'[w] = "REJOINING" /\ rejoinDue'[w] /\ ~rejoinSent'[w]
    BY <1>7, <1>9, <2>1 DEF RetryLater, RingInv, FlagsOK
  <2> QED
    BY <1>7, <2>1, <2>2 DEF Talk
<1>10. ASSUME NEW w \in Worker, DispatchRejoin(w)
       PROVE  Talk(w)'
  <2>1. PICK m \in {Msg("WELCOME"), Msg("RETRY_LATER")} : Tell(w, m)
    BY <1>10 DEF DispatchRejoin
  <2>2. IsAnswer(m)
    BY DEF IsAnswer, Msg
  <2>3. /\ rejoinSent[w] /\ ~rejoinSent'[w] /\ mode'[w] = mode[w] /\ rejoinDue'[w] = rejoinDue[w]
    BY <1>10 DEF DispatchRejoin, RingInv, FlagsOK
  <2>4. ~AnswerIn(toWorker[w]) /\ mode[w] = "REJOINING" /\ ~rejoinDue[w]
    BY <2>3 DEF Talk
  <2>5. OneAnswer(toWorker'[w]) /\ AnswerIn(toWorker'[w])
    BY <2>1, <2>2, <2>4, TalkTold
  <2> QED
    BY <2>3, <2>4, <2>5 DEF Talk
<1> QED
  BY <1>1, <1>2, <1>3, <1>4, <1>5, <1>6, <1>8, <1>9, <1>10, PlainStep

-----------------------------------------------------------------------------
(* The coordinator's verdict on a worker *)

(* With accurate heartbeats a worker that is not mute counts as alive.      *)
Heard(w) == AccurateFD /\ ~Mute(w) => wstate[w] = "ALIVE" /\ gap[w] = 0

LEMMA NoNewWelcome ==
  ASSUME RingInv, NEW v \in Worker,
         \/ toWorker'[v] = toWorker[v]
         \/ \E kinds : Taking(v, kinds)
         \/ \E m : Tell(v, m) /\ m.kind # "WELCOME"
  PROVE  WelcomeComing(v)' => WelcomeComing(v)
<1>1. CASE toWorker'[v] = toWorker[v]
  BY <1>1 DEF WelcomeComing
<1>2. ASSUME NEW kinds, Taking(v, kinds)
      PROVE  WelcomeComing(v)' => WelcomeComing(v)
  <2>1. /\ Len(toWorker[v]) \in Nat /\ Len(toWorker'[v]) = Len(toWorker[v]) - 1
        /\ \A i \in 1..(Len(toWorker[v]) - 1) : toWorker'[v][i] = toWorker[v][i + 1]
    BY <1>2, TakingShape
  <2>2. ASSUME NEW i \in 1..Len(toWorker'[v]), toWorker'[v][i].kind = "WELCOME"
        PROVE  i + 1 \in 1..Len(toWorker[v]) /\ toWorker[v][i + 1].kind = "WELCOME"
    BY <2>1, <2>2
  <2> QED
    BY <2>2 DEF WelcomeComing
<1>3. ASSUME NEW m, Tell(v, m), m.kind # "WELCOME"
      PROVE  WelcomeComing(v)' => WelcomeComing(v)
  <2>1. /\ Len(toWorker[v]) \in Nat /\ Len(toWorker'[v]) = Len(toWorker[v]) + 1
        /\ \A i \in 1..Len(toWorker[v]) : toWorker'[v][i] = toWorker[v][i]
        /\ toWorker'[v][Len(toWorker[v]) + 1] = m
    BY <1>3, TellShape
  <2>2. ASSUME NEW i \in 1..Len(toWorker'[v]), toWorker'[v][i].kind = "WELCOME"
        PROVE  i \in 1..Len(toWorker[v]) /\ toWorker[v][i].kind = "WELCOME"
    BY <1>3, <2>1, <2>2
  <2> QED
    BY <2>2 DEF WelcomeComing
<1> QED
  BY <1>1, <1>2, <1>3

LEMMA WelcomeIsAnswer ==
  ASSUME NEW v \in Worker, WelcomeComing(v)
  PROVE  AnswerIn(toWorker[v])
BY DEF WelcomeComing, AnswerIn, IsAnswer

(* A mute worker is heard again only when the coordinator welcomes it.      *)
LEMMA MuteStays ==
  ASSUME RingInv, [RingNext]_vars, NEW v \in Worker, Mute(v),
         ~(DispatchRejoin(v) /\ Rejoin(v))
  PROVE  Mute(v)'
<1> USE DEF stateVars, threadVars, sentVars
<1>1. IsDown(v) /\ ~WelcomeComing(v)
  BY DEF Mute
<1>2. CASE /\ UNCHANGED <<mode, rejoinDue, rejoinSent>>
           /\ \/ UNCHANGED toWorker
              \/ \E w \in Worker, m \in Orders' \union {Msg("NO_TASK")} : Tell(w, m)
              \/ \E w \in Worker : Taking(w, {"ASSIGN", "TAKEOVER", "NO_TASK"})
  <2>1. ASSUME NEW w \in Worker, NEW m \in Orders' \union {Msg("NO_TASK")}, Tell(w, m)
        PROVE  ~WelcomeComing(v)'
    <3>1. m.kind # "WELCOME"
      BY DEF Orders, Msg
    <3>2. w # v => toWorker'[v] = toWorker[v]
      BY <2>1, TellShape
    <3> QED
      BY <1>1, <2>1, <3>1, <3>2, NoNewWelcome
  <2>2. ASSUME NEW w \in Worker, Taking(w, {"ASSIGN", "TAKEOVER", "NO_TASK"})
        PROVE  ~WelcomeComing(v)'
    <3>1. w # v => toWorker'[v] = toWorker[v]
      BY <2>2, TakingShape
    <3> QED
      BY <1>1, <2>2, <3>1, NoNewWelcome
  <2>3. UNCHANGED toWorker => ~WelcomeComing(v)'
    BY <1>1 DEF WelcomeComing
  <2> QED
    BY <1>1, <1>2, <2>1, <2>2, <2>3 DEF Mute, IsDown
<1>3. ASSUME NEW w \in Worker, w # v,
             \/ SendRejoin(w) \/ Crash(w) \/ Restart(w) \/ Discard(w)
             \/ Welcome(w) \/ RetryLater(w) \/ DispatchRejoin(w)
      PROVE  Mute(v)'
  BY <1>1, <1>3, RejoinsApart DEF Mute, IsDown, WelcomeComing
<1>4. CASE SendRejoin(v) \/ Crash(v) \/ Restart(v)
  BY <1>1, <1>4 DEF SendRejoin, Crash, Restart, Mute, IsDown, WelcomeComing, RingInv, FlagsOK
<1>5. CASE Discard(v) \/ RetryLater(v)
  <2>1. mode' = mode /\ \E kinds : Taking(v, kinds)
    BY <1>5 DEF Discard, RetryLater
  <2> QED
    BY <1>1, <2>1, NoNewWelcome DEF Mute, IsDown
<1>6. ~Welcome(v)
  <2> SUFFICES ASSUME Welcome(v) PROVE FALSE
    OBVIOUS
  <2>1. 1 \in 1..Len(toWorker[v]) /\ toWorker[v][1].kind = "WELCOME"
    BY TakingShape DEF Welcome
  <2> QED
    BY <1>1, <2>1 DEF WelcomeComing
<1>7. CASE DispatchRejoin(v)
  <2>1. Tell(v, Msg("RETRY_LATER")) /\ mode' = mode
    BY <1>7 DEF DispatchRejoin
  <2> QED
    BY <1>1, <2>1, NoNewWelcome DEF Mute, IsDown, Msg
<1> QED
  BY <1>2, <1>3, <1>4, <1>5, <1>6, <1>7, PlainStep

LEMMA VerdictKinds ==
  ASSUME [RingNext]_vars
  PROVE  \/ UNCHANGED <<wstate, gap>>
         \/ \E w \in Worker : \/ SendHeartbeat(w) \/ (DispatchRejoin(w) /\ Rejoin(w))
                              \/ PeriodPasses(w)
         \/ DetectorRound
<1>1. CASE UNCHANGED vars
  BY <1>1 DEF vars, tablesVars
<1>2. ASSUME NEW w \in Worker,
             \/ TakeWork(w) \/ CheckpointStep(w) \/ ResultStep(w) \/ Abandon(w)
             \/ RequestIfIdle(w) \/ SendRejoin(w)
             \/ Crash(w) \/ Restart(w) \/ SaveCheckpoint(w) \/ Discard(w)
             \/ Enqueue(w) \/ MarkNoTask(w) \/ Welcome(w) \/ RetryLater(w)
      PROVE  UNCHANGED <<wstate, gap>>
  <2>1. UNCHANGED tablesVars
    BY <1>2 DEF TakeWork, CheckpointStep, ResultStep, Abandon, RequestIfIdle, SendRejoin,
                Crash, Restart, SaveCheckpoint, Discard, Enqueue, MarkNoTask, Welcome, RetryLater
  <2> QED
    BY <2>1 DEF tablesVars
<1>3. ASSUME NEW w \in Worker, DispatchReq(w)
      PROVE  UNCHANGED <<wstate, gap>>
  BY <1>3 DEF DispatchReq, ReplyToReq, Assign, Refuse, workerVars, tablesVars
<1>4. ASSUME NEW w \in Worker, DispatchResult(w) \/ CompleteResult(w)
      PROVE  UNCHANGED <<wstate, gap>>
  BY <1>4 DEF DispatchResult, ResultRead, CompleteResult, ResultCommit, ResultReject, workerVars
<1>5. ASSUME NEW w \in Worker, DispatchRejoin(w), ~Rejoin(w)
      PROVE  UNCHANGED <<wstate, gap>>
  BY <1>5 DEF DispatchRejoin, RejoinLater, tablesVars
<1>6. CASE DetectorScan \/ DetectorNotice \/ Finished
  BY <1>6 DEF DetectorScan, ScanTask, DetectorNotice, SendNotice, Finished, MainFinish, workerVars
<1> QED
  BY <1>1, <1>2, <1>3, <1>4, <1>5, <1>6 DEF RingNext

LEMMA HeardStep ==
  ASSUME RingInv, [RingNext]_vars, \A v \in Worker : Heard(v)
  PROVE  \A v \in Worker : Heard(v)'
<1> SUFFICES ASSUME NEW v \in Worker, AccurateFD, ~Mute(v)'
             PROVE  wstate'[v] = "ALIVE" /\ gap'[v] = 0
  BY DEF Heard
<1> USE DEF RingInv, TablesInv, TypeOK
<1>1. CASE DispatchRejoin(v) /\ Rejoin(v)
  BY <1>1 DEF Rejoin
<1>2. CASE ~(DispatchRejoin(v) /\ Rejoin(v))
  <2>1. ~Mute(v) /\ wstate[v] = "ALIVE" /\ gap[v] = 0
    BY <1>2, MuteStays DEF Heard
  <2>2. ASSUME NEW w \in Worker, SendHeartbeat(w)
        PROVE  wstate'[v] = "ALIVE" /\ gap'[v] = 0
    BY <2>1, <2>2 DEF SendHeartbeat, Heartbeat
  <2>3. ASSUME NEW w \in Worker, w # v, Rejoin(w)
        PROVE  wstate'[v] = "ALIVE" /\ gap'[v] = 0
    BY <2>1, <2>3 DEF Rejoin
  <2>4. ASSUME NEW w \in Worker, PeriodPasses(w)
        PROVE  wstate'[v] = "ALIVE" /\ gap'[v] = 0
    <3>1. w # v
      BY <2>1, <2>4 DEF PeriodPasses
    <3> QED
      BY <2>1, <2>4, <3>1 DEF PeriodPasses, Silence
  <2>5. CASE DetectorRound
    <3>1. v \notin Overdue /\ v \notin Late
      BY <2>1 DEF Overdue, Late
    <3> QED
      BY <2>1, <2>5, <3>1 DEF DetectorRound, Detect, Judged
  <2> QED
    BY <1>2, <2>1, <2>2, <2>3, <2>4, <2>5, VerdictKinds
<1> QED
  BY <1>1, <1>2

-----------------------------------------------------------------------------
(* The answer to a request *)

AskTypes ==
  /\ phase = "RUNNING"
  /\ requested \in [Worker -> BOOLEAN] /\ current \in [Worker -> BOOLEAN]
  /\ reqs \in [Worker -> Nat]

IsReply(m) == m.kind \in {"ASSIGN", "NO_TASK"}
ReplyIn(q) == \E i \in 1..Len(q) : IsReply(q[i])

(* Only a running worker waits for an answer, and it will have one.         *)
Asked(w) ==
  requested[w] => /\ mode[w] = "RUNNING"
                  /\ AccurateFD => reqs[w] > 0 \/ ReplyIn(toWorker[w])

(* Every step that concerns no request.                                     *)
LEMMA AskKinds ==
  ASSUME RingInv, [RingNext]_vars
  PROVE  /\ UNCHANGED phase
         /\ \/ UNCHANGED <<requested, reqs, mode, toWorker>>
            \/ \E w \in Worker : \/ RequestIfIdle(w) \/ DispatchReq(w) \/ Crash(w)
                                 \/ Restart(w) \/ ControlThread(w) \/ DispatchRejoin(w)
            \/ DetectorNotice
<1> USE DEF stateVars, threadVars, sentVars, ringVars, startVars, tablesVars
<1>1. CASE UNCHANGED vars
  BY <1>1 DEF vars
<1>2. ASSUME NEW w \in Worker, ComputeThread(w)
      PROVE  UNCHANGED <<phase, requested, reqs, mode, toWorker>>
  BY <1>2 DEF ComputeThread, TakeWork, CheckpointStep, ResultStep, Abandon
<1>3. ASSUME NEW w \in Worker, SendHeartbeat(w) \/ SendRejoin(w) \/ SaveCheckpoint(w)
      PROVE  UNCHANGED <<phase, requested, reqs, mode, toWorker>>
  BY <1>3 DEF SendHeartbeat, Heartbeat, SendRejoin, SaveCheckpoint
<1>4. ASSUME NEW w \in Worker, DispatchResult(w) \/ CompleteResult(w) \/ PeriodPasses(w)
      PROVE  UNCHANGED <<phase, requested, reqs, mode, toWorker>>
  BY <1>4 DEF DispatchResult, ResultRead, CompleteResult, ResultCommit, ResultReject,
              PeriodPasses, Silence
<1>5. CASE DetectorRound \/ DetectorScan \/ Finished
  BY <1>5 DEF DetectorRound, Detect, DetectorScan, ScanTask, Finished, MainFinish
<1>6. CASE DetectorNotice
  BY <1>6 DEF DetectorNotice, SendNotice
<1>7. ASSUME NEW w \in Worker, DispatchReq(w) \/ DispatchRejoin(w)
      PROVE  UNCHANGED phase
  BY <1>7 DEF DispatchReq, ReplyToReq, Assign, Refuse, DispatchRejoin, Rejoin, RejoinLater
<1>8. ASSUME NEW w \in Worker, RequestIfIdle(w) \/ Crash(w) \/ Restart(w) \/ ControlThread(w)
      PROVE  UNCHANGED phase
  BY <1>8 DEF RequestIfIdle, Crash, Restart, ControlThread, Discard, Enqueue, MarkNoTask,
              Welcome, RetryLater
<1> QED
  BY <1>1, <1>2, <1>3, <1>4, <1>5, <1>6, <1>7, <1>8 DEF RingNext, ComputeThread, ControlThread

LEMMA AskTypesStep ==
  ASSUME RingInv, [RingNext]_vars, AskTypes
  PROVE  AskTypes'
<1> USE DEF stateVars, threadVars, sentVars, ringVars
<1>1. phase' = "RUNNING"
  BY AskKinds DEF AskTypes
<1>2. requested' \in [Worker -> BOOLEAN]
  <2>1. ASSUME NEW w \in Worker, RequestIfIdle(w) \/ Crash(w) \/ ControlThread(w)
        PROVE  requested' \in [Worker -> BOOLEAN]
    BY <2>1 DEF RequestIfIdle, Crash, RequestForgotten, ControlThread, Discard, Enqueue,
                MarkNoTask, Welcome, RetryLater, AskTypes
  <2>2. ASSUME NEW w \in Worker, DispatchReq(w) \/ Restart(w) \/ DispatchRejoin(w)
        PROVE  UNCHANGED requested
    BY <2>2 DEF DispatchReq, Restart, DispatchRejoin
  <2> QED
    BY <2>1, <2>2, AskKinds DEF AskTypes, DetectorNotice
<1>3. reqs' \in [Worker -> Nat]
  <2>1. ASSUME NEW w \in Worker, RequestIfIdle(w) \/ DispatchReq(w)
        PROVE  reqs' \in [Worker -> Nat]
    BY <2>1 DEF RequestIfIdle, DispatchReq, AskTypes
  <2>2. ASSUME NEW w \in Worker, Crash(w) \/ Restart(w) \/ ControlThread(w) \/ DispatchRejoin(w)
        PROVE  UNCHANGED reqs
    BY <2>2 DEF Crash, Restart, ControlThread, Discard, Enqueue, MarkNoTask, Welcome, RetryLater,
                DispatchRejoin
  <2> QED
    BY <2>1, <2>2, AskKinds DEF AskTypes, DetectorNotice
<1>4. current' \in [Worker -> BOOLEAN]
  <2>1. ASSUME NEW w \in Worker, ComputeThread(w) \/ Crash(w)
        PROVE  current' \in [Worker -> BOOLEAN]
    BY <2>1 DEF ComputeThread, TakeWork, CheckpointStep, ResultStep, Abandon, Finish, Crash, AskTypes
  <2>2. ASSUME NEW w \in Worker,
               \/ RequestIfIdle(w) \/ SendHeartbeat(w) \/ SendRejoin(w) \/ Restart(w)
               \/ SaveCheckpoint(w) \/ ControlThread(w) \/ DispatchReq(w) \/ DispatchResult(w)
               \/ CompleteResult(w) \/ DispatchRejoin(w) \/ PeriodPasses(w)
        PROVE  UNCHANGED current
    BY <2>2 DEF RequestIfIdle, SendHeartbeat, SendRejoin, Restart, SaveCheckpoint, ControlThread,
                Discard, Enqueue, MarkNoTask, Welcome, RetryLater, DispatchReq, DispatchResult,
                CompleteResult, DispatchRejoin, PeriodPasses
  <2>3. CASE DetectorRound \/ DetectorScan \/ DetectorNotice \/ Finished \/ UNCHANGED vars
    BY <2>3 DEF DetectorRound, DetectorScan, DetectorNotice, Finished, vars, AskTypes
  <2> QED
    BY <2>1, <2>2, <2>3 DEF RingNext, ComputeThread, ControlThread, AskTypes
<1> QED
  BY <1>1, <1>2, <1>3, <1>4 DEF AskTypes

(* A reply stays under way until the worker takes one.                      *)
LEMMA ReplyStays ==
  ASSUME RingInv, NEW v \in Worker, ReplyIn(toWorker[v]),
         \/ toWorker'[v] = toWorker[v]
         \/ \E m : Tell(v, m)
         \/ (\E kinds : Taking(v, kinds)) /\ ~IsReply(toWorker[v][1])
  PROVE  ReplyIn(toWorker'[v])
<1>1. PICK i \in 1..Len(toWorker[v]) : IsReply(toWorker[v][i])
  BY DEF ReplyIn
<1>2. CASE toWorker'[v] = toWorker[v]
  BY <1>1, <1>2 DEF ReplyIn
<1>3. ASSUME NEW m, Tell(v, m)
      PROVE  ReplyIn(toWorker'[v])
  <2>1. i \in 1..Len(toWorker'[v]) /\ toWorker'[v][i] = toWorker[v][i]
    BY <1>1, <1>3, TellShape
  <2> QED
    BY <1>1, <2>1 DEF ReplyIn
<1>4. ASSUME NEW kinds, Taking(v, kinds), ~IsReply(toWorker[v][1])
      PROVE  ReplyIn(toWorker'[v])
  <2>1. /\ Len(toWorker[v]) \in Nat /\ Len(toWorker'[v]) = Len(toWorker[v]) - 1
        /\ \A j \in 1..(Len(toWorker[v]) - 1) : toWorker'[v][j] = toWorker[v][j + 1]
    BY <1>4, TakingShape
  <2>2. i # 1
    BY <1>1, <1>4
  <2>3. i - 1 \in 1..Len(toWorker'[v]) /\ toWorker'[v][i - 1] = toWorker[v][i]
    BY <1>1, <2>1, <2>2
  <2> QED
    BY <1>1, <2>3 DEF ReplyIn
<1> QED
  BY <1>2, <1>3, <1>4

LEMMA ReplyTold ==
  ASSUME RingInv, NEW v \in Worker, NEW m, Tell(v, m), IsReply(m)
  PROVE  ReplyIn(toWorker'[v])
<1>1. /\ Len(toWorker'[v]) = Len(toWorker[v]) + 1 /\ Len(toWorker[v]) \in Nat
      /\ toWorker'[v][Len(toWorker[v]) + 1] = m
  BY TellShape
<1>2. Len(toWorker'[v]) \in 1..Len(toWorker'[v]) /\ IsReply(toWorker'[v][Len(toWorker'[v])])
  BY <1>1
<1> QED
  BY <1>2 DEF ReplyIn

(* The other workers see nothing of a request.                              *)
LEMMA RequestsApart ==
  ASSUME RingInv, AskTypes, NEW w \in Worker, NEW v \in Worker, v # w,
         \/ RequestIfIdle(w) \/ DispatchReq(w) \/ Crash(w) \/ Restart(w)
         \/ ControlThread(w) \/ DispatchRejoin(w)
  PROVE  /\ requested'[v] = requested[v] /\ reqs'[v] = reqs[v]
         /\ mode'[v] = mode[v] /\ toWorker'[v] = toWorker[v]
<1> USE DEF stateVars, threadVars, sentVars, RingInv, FlagsOK, AskTypes
<1>1. CASE RequestIfIdle(w) \/ Crash(w) \/ Restart(w)
  BY <1>1 DEF RequestIfIdle, Crash, RequestForgotten, Restart
<1>2. CASE DispatchReq(w) \/ DispatchRejoin(w)
  <2>1. toWorker'[v] = toWorker[v]
    <3>1. UNCHANGED toWorker \/ \E m : Tell(w, m)
      BY <1>2 DEF DispatchReq, ReplyToReq, DispatchRejoin
    <3> QED
      BY <3>1, TellShape
  <2> QED
    BY <1>2, <2>1 DEF DispatchReq, DispatchRejoin
<1>3. CASE ControlThread(w)
  <2>1. toWorker'[v] = toWorker[v]
    <3>1. \E kinds : Taking(w, kinds)
      BY <1>3 DEF ControlThread, Discard, Enqueue, MarkNoTask, Welcome, RetryLater
    <3> QED
      BY <3>1, TakingShape
  <2> QED
    BY <1>3, <2>1 DEF ControlThread, Discard, Enqueue, MarkNoTask, Welcome, RetryLater
<1> QED
  BY <1>1, <1>2, <1>3

LEMMA AskedStep ==
  ASSUME RingInv, [RingNext]_vars, AskTypes, NEW v \in Worker, Heard(v), Asked(v)
  PROVE  Asked(v)'
<1> USE DEF stateVars, threadVars, sentVars
<1>1. ASSUME requested'[v] => requested[v], mode'[v] = mode[v], reqs'[v] = reqs[v],
             ReplyIn(toWorker[v]) => ReplyIn(toWorker'[v])
      PROVE  Asked(v)'
  BY <1>1 DEF Asked
<1>2. CASE UNCHANGED <<requested, reqs, mode, toWorker>>
  BY <1>1, <1>2
<1>3. ASSUME NEW w \in Worker, w # v,
             \/ RequestIfIdle(w) \/ DispatchReq(w) \/ Crash(w) \/ Restart(w)
             \/ ControlThread(w) \/ DispatchRejoin(w)
      PROVE  Asked(v)'
  BY <1>1, <1>3, RequestsApart
<1>4. CASE RequestIfIdle(v)
  <2>1. reqs'[v] = reqs[v] + 1 /\ reqs[v] \in Nat /\ mode'[v] = "RUNNING"
    BY <1>4 DEF RequestIfIdle, AskTypes
  <2> QED
    BY <2>1 DEF Asked
<1>5. CASE DispatchReq(v)
  <2>1. UNCHANGED <<requested, mode>>
    BY <1>5 DEF DispatchReq
  <2>2. ASSUME requested[v], AccurateFD
        PROVE  ReplyIn(toWorker'[v])
    <3>1. wstate[v] = "ALIVE" /\ phase = "RUNNING"
      BY <2>2 DEF Asked, Heard, Mute, IsDown, AskTypes
    <3>2. \E m : Tell(v, m) /\ IsReply(m)
      <4>1. IsReply(Msg("NO_TASK")) /\ IsReply(Grant("ASSIGN", Head(pending), 1, None))
        BY DEF IsReply, Msg, Grant
      <4> QED
        BY <1>5, <3>1, <4>1 DEF DispatchReq, ReplyToReq, Assignable
    <3> QED
      BY <3>2, ReplyTold
  <2> QED
    BY <2>1, <2>2 DEF Asked
<1>6. CASE Crash(v)
  BY <1>6 DEF Crash, RequestForgotten, Asked, AskTypes
<1>7. CASE Restart(v)
  BY <1>7 DEF Restart, Asked
<1>8. CASE DispatchRejoin(v)
  <2>1. UNCHANGED <<requested, mode, reqs>> /\ \E m : Tell(v, m)
    BY <1>8 DEF DispatchRejoin
  <2> QED
    BY <1>1, <2>1, ReplyStays
<1>9. CASE DetectorNotice
  <2> DEFINE n == Head(notices)
             m == Grant("TAKEOVER", n.task, n.epoch, n.from)
  <2>1. UNCHANGED <<requested, mode, reqs>> /\ Tell(n.to, m) /\ n.to \in Worker
    BY <1>9, NoticeIsOrder DEF DetectorNotice, SendNotice
  <2>2. n.to # v => toWorker'[v] = toWorker[v]
    BY <2>1, TellShape
  <2>3. n.to = v => Tell(v, m)
    BY <2>1
  <2> HIDE DEF m, n
  <2> QED
    BY <1>1, <2>1, <2>2, <2>3, ReplyStays
<1>10. CASE ControlThread(v)
  <2>1. CASE Discard(v)
    BY <2>1 DEF Discard, Asked
  <2>2. CASE Enqueue(v)
    <3>1. UNCHANGED <<mode, reqs>>
      BY <2>2 DEF Enqueue
    <3>2. requested'[v] => requested[v]
      BY <2>2 DEF Enqueue, AskTypes
    <3>3. ASSUME requested'[v]
          PROVE  ~IsReply(toWorker[v][1])
      <4>1. mode[v] = "RUNNING"
        BY <3>2, <3>3 DEF Asked
      <4>2. /\ Head(toWorker[v]) = toWorker[v][1]
            /\ toWorker[v][1].kind \in {"ASSIGN", "TAKEOVER"}
            /\ toWorker[v][1].kind # "ASSIGN" \/ toWorker[v][1].from = None
        <5>1. /\ Head(toWorker[v]) = toWorker[v][1]
              /\ toWorker[v][1].kind \in {"ASSIGN", "TAKEOVER"}
              /\ Head(toWorker[v]) \in Orders \union Answers
          BY <2>2, TakingShape, Taken DEF Enqueue
        <5> QED
          BY <5>1 DEF Orders, Answers, Msg
      <4>3. toWorker[v][1].from # None
        BY <2>2, <3>3, <4>1, <4>2 DEF Enqueue, Accepts, AskTypes
      <4> QED
        BY <4>2, <4>3 DEF IsReply
    <3>4. requested'[v] /\ ReplyIn(toWorker[v]) => ReplyIn(toWorker'[v])
      BY <2>2, <3>3, ReplyStays DEF Enqueue
    <3> QED
      BY <3>1, <3>2, <3>4 DEF Asked
  <2>3. CASE MarkNoTask(v)
    BY <2>3 DEF MarkNoTask, Asked, AskTypes
  <2>4. CASE Welcome(v) \/ RetryLater(v)
    <3>1. ~IsReply(toWorker[v][1]) /\ \E kinds : Taking(v, kinds)
      BY <2>4, TakingShape DEF Welcome, RetryLater, IsReply
    <3>2. UNCHANGED <<requested, reqs>> /\ (mode[v] = "RUNNING" => mode'[v] = "RUNNING")
      BY <2>4 DEF Welcome, RetryLater
    <3>3. ReplyIn(toWorker[v]) => ReplyIn(toWorker'[v])
      BY <3>1, ReplyStays
    <3> QED
      BY <3>2, <3>3 DEF Asked
  <2> QED
    BY <1>10, <2>1, <2>2, <2>3, <2>4 DEF ControlThread
<1> QED
  BY <1>2, <1>3, <1>4, <1>5, <1>6, <1>7, <1>8, <1>9, <1>10, AskKinds

-----------------------------------------------------------------------------
(* The theorems about messages *)

ExchangeInv ==
  /\ RingInv /\ AskTypes
  /\ \A w \in Worker : Talk(w) /\ Heard(w) /\ Asked(w)

LEMMA ExchangeInit == RingInit => ExchangeInv
<1> SUFFICES ASSUME RingInit PROVE ExchangeInv
  OBVIOUS
<1>1. AskTypes
  BY DEF RingInit, AskTypes
<1>2. \A w \in Worker : Talk(w) /\ Heard(w) /\ Asked(w)
  BY EmptySeq DEF RingInit, Talk, OneAnswer, AnswerIn, Heard, Asked
<1> QED
  BY <1>1, <1>2, RingInitInv DEF ExchangeInv

LEMMA ExchangeStep == ExchangeInv /\ [RingNext]_vars => ExchangeInv'
<1> SUFFICES ASSUME ExchangeInv, [RingNext]_vars PROVE ExchangeInv'
  OBVIOUS
<1>1. RingInv /\ AskTypes /\ \A w \in Worker : Talk(w) /\ Heard(w) /\ Asked(w)
  BY DEF ExchangeInv
<1>2. RingInv' /\ AskTypes'
  BY <1>1, RingStep, AskTypesStep
<1>3. \A w \in Worker : Talk(w)' /\ Heard(w)' /\ Asked(w)'
  BY <1>1, TalkStep, HeardStep, AskedStep
<1> QED
  BY <1>2, <1>3 DEF ExchangeInv

LEMMA Exchange == RingSpec => []ExchangeInv
BY ExchangeInit, ExchangeStep, PTL DEF RingSpec

(* A rejoining worker is never forgotten, and never has two attempts under  *)
(* way (state.rejoin_due, tables.rejoin).                                   *)
THEOREM RejoinAnswered == RingSpec => []RejoinPending
<1>1. ExchangeInv => RejoinPending
  BY DEF ExchangeInv, Talk, AnswerIn, IsAnswer, RejoinPending
<1> QED
  BY <1>1, Exchange, PTL

(* With accurate heartbeats the coordinator never holds a running worker for*)
(* dead, whatever the order of REJOIN, detection and WELCOME.               *)
THEOREM NoZombies == RingSpec => []NoZombie
<1>1. ExchangeInv => NoZombie
  BY DEF ExchangeInv, Heard, Mute, IsDown, NoZombie
<1> QED
  BY <1>1, Exchange, PTL

(* A worker that waits for an answer to REQ gets one (needs_request,        *)
(* dispatcher_loop).                                                        *)
THEOREM RequestsAnswered == RingSpec => []RequestAnswered
<1>1. ExchangeInv => RequestAnswered
  BY DEF ExchangeInv, Asked, ReplyIn, IsReply, RequestAnswered
<1> QED
  BY <1>1, Exchange, PTL

-----------------------------------------------------------------------------
(* The delivery of an assigned task *)

Holds(w, k) == tstate[k] = "ASSIGNED" /\ owner[k] = w

OrderFor(m, k) == m.kind \in {"ASSIGN", "TAKEOVER"} /\ m.task = k /\ m.epoch = epoch[k]

(* The grant in force has not reached the worker yet.                       *)
OnWay(w, k) ==
  \/ \E i \in 1..Len(notices) : notices[i].to = w /\ notices[i].task = k
  \/ \E i \in 1..Len(toWorker[w]) : OrderFor(toWorker[w][i], k)

InQueue(w, k) ==
  \E i \in 1..Len(queue[w]) : queue[w][i].task = k /\ queue[w][i].epoch = epoch[k]
InWork(w, k) == work[w] # Idle /\ Valid(w) /\ work[w].task = k /\ work[w].epoch = epoch[k]
Reported(w, k) == \E r \in reports[w] : r.task = k /\ r.epoch = epoch[k]
InCall(w, k) ==
  callOf[w] # NoCall /\ callOf[w].task = k /\ callOf[w].epoch = epoch[k] /\ ~callOf[w].dead

(* The worker has accepted the grant in force, and what it made of it.      *)
InHand(w, k) == InQueue(w, k) \/ InWork(w, k) \/ Reported(w, k) \/ InCall(w, k)

Fresh(w) == {a \in Grants : a.epoch <= latest[w][a.task]}

(* No worker has accepted an epoch that was not issued, and what waits in   *)
(* its queue it has accepted.                                               *)
AcceptedIssued ==
  /\ \A w \in Worker, k \in Task : latest[w][k] <= epoch[k]
  /\ \A w \in Worker : queue[w] \in Seq(Fresh(w))

(* A grant that lies before WELCOME in the channel is no longer in force:   *)
(* a rejoining worker may drop it.                                          *)
WelcomedLate(w) ==
  \A i, j \in 1..Len(toWorker[w]) :
    i < j /\ toWorker[w][j].kind = "WELCOME" /\ toWorker[w][i].kind = "ASSIGN" =>
      ~(Holds(w, toWorker[w][i].task) /\ toWorker[w][i].epoch = epoch[toWorker[w][i].task])

(* A grant in force is on its way or in hand, and in hand once accepted.    *)
Delivered(w, k) ==
  AccurateFD /\ Holds(w, k) /\ ~Mute(w) =>
    /\ OnWay(w, k) \/ InHand(w, k)
    /\ latest[w][k] = epoch[k] => InHand(w, k)

DeliveryInv ==
  /\ ExchangeInv /\ AcceptedIssued
  /\ \A w \in Worker : WelcomedLate(w)
  /\ \A w \in Worker, k \in Task : Delivered(w, k)

(* A step of the ring leaves the grant of a task alone or renews it.        *)
LEMMA GrantKinds ==
  ASSUME RingInv, [RingNext]_vars, NEW k \in Task
  PROVE  \/ /\ epoch'[k] = epoch[k] /\ owner'[k] = owner[k]
            /\ tstate'[k] = tstate[k] \/ tstate'[k] = "DONE"
         \/ epoch'[k] = epoch[k] + 1
<1> USE DEF RingInv, TablesInv, TypeOK
<1>1. ASSUME NEW w \in Worker, Assign(w)
      PROVE  \/ epoch'[k] = epoch[k] /\ owner'[k] = owner[k] /\ tstate'[k] = tstate[k]
             \/ epoch'[k] = epoch[k] + 1
  <2>1. Head(pending) \in Task /\ epoch[Head(pending)] = 0
    BY <1>1, HeadIsPending DEF Assign, TasksConsistent
  <2>2. /\ tstate' = [tstate EXCEPT ![Head(pending)] = "ASSIGNED"]
        /\ owner' = [owner EXCEPT ![Head(pending)] = w]
        /\ epoch' = [epoch EXCEPT ![Head(pending)] = 1]
    BY <1>1 DEF Assign
  <2>3. CASE k = Head(pending)
    BY <2>1, <2>2, <2>3
  <2>4. CASE k # Head(pending)
    BY <2>1, <2>2, <2>4
  <2> QED
    BY <2>3, <2>4
<1>2. ASSUME NEW s \in Worker, NEW t \in Worker, ScanTask(s, t)
      PROVE  \/ epoch'[k] = epoch[k] /\ owner'[k] = owner[k] /\ tstate'[k] = tstate[k]
             \/ epoch'[k] = epoch[k] + 1
  BY <1>2, SMTT(40) DEF ScanTask, TakeOver, NextEpoch
<1>3. ASSUME NEW w \in Worker, ResultCommit(w)
      PROVE  /\ epoch'[k] = epoch[k] /\ owner'[k] = owner[k]
             /\ tstate'[k] = tstate[k] \/ tstate'[k] = "DONE"
  BY <1>3 DEF ResultCommit
<1>4. CASE UNCHANGED <<epoch, owner, tstate>>
  BY <1>4
<1>5. \/ \E w \in Worker : Assign(w) \/ ResultCommit(w)
      \/ \E s, t \in Worker : ScanTask(s, t)
      \/ UNCHANGED <<epoch, owner, tstate>>
  BY RingIsTables, StepKinds DEF Heartbeat, Rejoin, Detect, Quiet, taskVars
<1> QED
  BY <1>1, <1>2, <1>3, <1>4, <1>5

(* A worker that is welcomed back holds nothing.                            *)
LEMMA WelcomedHoldsNothing ==
  ASSUME RingInv, NEW w \in Worker, Rejoin(w), NEW k \in Task
  PROVE  ~Holds(w, k) /\ ~Holds(w, k)'
<1>1. wstate[w] = "DEAD" /\ sources = {} /\ ~finishing /\ UNCHANGED <<tstate, owner>>
  BY DEF Rejoin, CanHandle, Rejoinable, TablesLockFree, taskVars
<1>2. \E u \in Worker : wstate[u] # "DEAD"
  BY <1>1 DEF RingInv, TablesInv, ScanConsistent
<1> QED
  BY <1>1, <1>2 DEF RingInv, TablesInv, OwnerWatched, Holds

(* An issued epoch that is not in force never comes into force.             *)
LEMMA StaleStays ==
  ASSUME RingInv, [RingNext]_vars, NEW w \in Worker, NEW k \in Task, NEW e \in Issued(k),
         ~(Holds(w, k) /\ e = epoch[k])
  PROVE  ~(Holds(w, k)' /\ e = epoch'[k])
<1>1. e \in Nat /\ epoch[k] \in Nat /\ e <= epoch[k]
  BY DEF Issued, RingInv, TablesInv, TypeOK
<1> QED
  BY <1>1, GrantKinds DEF Holds

LEMMA QueueKinds ==
  ASSUME [RingNext]_vars
  PROVE  \/ UNCHANGED <<queue, latest>>
         \/ \E w \in Worker : TakeWork(w) \/ Crash(w) \/ Enqueue(w)
<1> USE DEF stateVars, threadVars, sentVars, ringVars
<1>1. CASE UNCHANGED vars
  BY <1>1 DEF vars
<1>2. ASSUME NEW w \in Worker,
             \/ CheckpointStep(w) \/ ResultStep(w) \/ Abandon(w) \/ RequestIfIdle(w)
             \/ SendHeartbeat(w) \/ SendRejoin(w) \/ Restart(w) \/ SaveCheckpoint(w)
             \/ Discard(w) \/ MarkNoTask(w) \/ Welcome(w) \/ RetryLater(w)
      PROVE  UNCHANGED <<queue, latest>>
  BY <1>2 DEF CheckpointStep, ResultStep, Abandon, RequestIfIdle, SendHeartbeat, SendRejoin,
              Restart, SaveCheckpoint, Discard, MarkNoTask, Welcome, RetryLater
<1>3. ASSUME NEW w \in Worker,
             \/ DispatchReq(w) \/ DispatchResult(w) \/ CompleteResult(w) \/ DispatchRejoin(w)
             \/ PeriodPasses(w)
      PROVE  UNCHANGED <<queue, latest>>
  BY <1>3 DEF DispatchReq, DispatchResult, CompleteResult, DispatchRejoin, PeriodPasses
<1>4. CASE DetectorRound \/ DetectorScan \/ DetectorNotice \/ Finished
  BY <1>4 DEF DetectorRound, DetectorScan, DetectorNotice, Finished
<1> QED
  BY <1>1, <1>2, <1>3, <1>4 DEF RingNext

(* What enqueue() does with the order at the head of the channel.           *)
LEMMA EnqueueShape ==
  ASSUME RingInv, NEW w \in Worker, Enqueue(w)
  PROVE  LET m == toWorker[w][1]
             a == [task |-> m.task, epoch |-> m.epoch, from |-> m.from]
         IN  /\ m \in Orders /\ m.task \in Task /\ m.epoch \in Issued(m.task) /\ a \in Grants
             /\ \/ /\ UNCHANGED <<latest, queue>>
                   /\ Accepts(w, m) => m.epoch <= latest[w][m.task]
                \/ /\ m.epoch > latest[w][m.task]
                   /\ latest' = [latest EXCEPT ![w][m.task] = m.epoch]
                   /\ queue' = [queue EXCEPT ![w] = Append(Others(queue[w], m.task), a)]
<1> DEFINE m == toWorker[w][1]
           a == [task |-> m.task, epoch |-> m.epoch, from |-> m.from]
<1>1. Head(toWorker[w]) = m /\ m.kind \in {"ASSIGN", "TAKEOVER"} /\ 1 \in 1..Len(toWorker[w])
  BY TakingShape, SMTT(40) DEF Enqueue
<1>2. m \in Orders
  <2>1. m \in Orders \union Answers
    BY <1>1, ChannelType, ElementOfSeq
  <2> QED
    BY <1>1, <2>1 DEF Answers, Msg
<1>3. m.task \in Task /\ m.epoch \in Issued(m.task) /\ m.epoch \in Nat /\ a \in Grants
  BY <1>2 DEF Orders, Grants
<1>4. latest[w][m.task] \in Nat
  BY <1>3 DEF RingInv, LatestOK
<1> HIDE DEF m
<1>5. \/ /\ UNCHANGED <<latest, queue>>
         /\ Accepts(w, m) => ~(m.epoch > latest[w][m.task])
      \/ /\ m.epoch > latest[w][m.task]
         /\ latest' = [latest EXCEPT ![w][m.task] = m.epoch]
         /\ queue' = [queue EXCEPT ![w] = Append(Others(queue[w], m.task), a)]
  BY <1>1 DEF Enqueue, RingInv, QueueOK
<1>6. ~(m.epoch > latest[w][m.task]) => m.epoch <= latest[w][m.task]
  BY <1>3, <1>4
<1> QED
  BY <1>2, <1>3, <1>5, <1>6 DEF m

LEMMA AcceptedStep ==
  ASSUME RingInv, [RingNext]_vars, AcceptedIssued
  PROVE  AcceptedIssued'
<1>1. \A k \in Task : epoch[k] \in Nat /\ epoch'[k] \in Nat /\ epoch[k] <= epoch'[k]
  <2>1. epoch \in [Task -> Nat] /\ epoch' \in [Task -> Nat]
    BY SetsGrow DEF RingInv, TablesInv, TypeOK
  <2>2. \A k \in Task : epoch'[k] = epoch[k] \/ epoch'[k] = epoch[k] + 1
    BY GrantKinds
  <2> QED
    BY <2>1, <2>2
<1>2. Grants \subseteq Grants'
  BY SetsGrow
<1>3. \A w \in Worker, k \in Task : latest[w][k] \in Nat /\ latest[w][k] <= epoch[k]
  BY DEF AcceptedIssued, RingInv, LatestOK
<1>4. \A w \in Worker : queue[w] \in Seq(Fresh(w))
  BY DEF AcceptedIssued
<1>5. ASSUME NEW w \in Worker, latest'[w] = latest[w], queue'[w] \in Seq(Fresh(w))
      PROVE  queue'[w] \in Seq(Fresh(w)') /\ \A k \in Task : latest'[w][k] <= epoch'[k]
  <2>1. Fresh(w) \subseteq Fresh(w)'
    BY <1>2, <1>5 DEF Fresh
  <2>2. queue'[w] \in Seq(Fresh(w)')
    BY <1>5, <2>1, SeqMonotonic
  <2> QED
    BY <1>1, <1>3, <1>5, <2>2
<1>6. CASE UNCHANGED <<queue, latest>>
  BY <1>4, <1>5, <1>6 DEF AcceptedIssued
<1>7. ASSUME NEW w \in Worker, TakeWork(w)
      PROVE  AcceptedIssued'
  <2>1. queue[w] # <<>> /\ queue' = [queue EXCEPT ![w] = Tail(queue[w])] /\ latest' = latest
    BY <1>7 DEF TakeWork, RingInv, QueueOK
  <2>2. Tail(queue[w]) \in Seq(Fresh(w))
    BY <1>4, <2>1, HeadTailProperties
  <2>3. \A v \in Worker : queue'[v] \in Seq(Fresh(v))
    BY <1>4, <2>1, <2>2 DEF RingInv, QueueOK
  <2> QED
    BY <1>5, <2>1, <2>3 DEF AcceptedIssued
<1>8. ASSUME NEW w \in Worker, Crash(w)
      PROVE  AcceptedIssued'
  <2>1. queue' = [queue EXCEPT ![w] = <<>>]
    BY <1>8 DEF Crash
  <2>2. latest' = [latest EXCEPT ![w] = [k \in Task |-> 0]]
    BY <1>8 DEF Crash
  <2>3. queue'[w] \in Seq(Fresh(w)') /\ \A k \in Task : latest'[w][k] <= epoch'[k]
    BY <1>1, <2>1, <2>2, EmptySeq DEF RingInv, QueueOK, LatestOK
  <2>4. \A v \in Worker : v # w => latest'[v] = latest[v] /\ queue'[v] \in Seq(Fresh(v))
    BY <1>4, <2>1, <2>2 DEF RingInv, QueueOK, LatestOK
  <2> QED
    BY <1>5, <2>3, <2>4 DEF AcceptedIssued
<1>9. ASSUME NEW w \in Worker, Enqueue(w)
      PROVE  AcceptedIssued'
  <2> DEFINE m == toWorker[w][1]
             k == m.task
             a == [task |-> m.task, epoch |-> m.epoch, from |-> m.from]
             rest == Others(queue[w], k)
  <2>1. k \in Task /\ m.epoch \in Issued(k) /\ a \in Grants
    BY <1>9, EnqueueShape
  <2>2. a \in [task : Task, epoch : Nat, from : Worker \union {None}]
    BY <2>1 DEF Grants
  <2>3. a.task = k /\ a.epoch = m.epoch
    OBVIOUS
  <2>4. rest \in Seq(Fresh(w))
    BY <1>4, OthersKept DEF RingInv, QueueOnce
  <2> HIDE DEF m, k, a, rest
  <2>5. CASE UNCHANGED <<latest, queue>>
    BY <1>6, <2>5
  <2>6. CASE /\ m.epoch > latest[w][k]
             /\ latest' = [latest EXCEPT ![w][k] = m.epoch]
             /\ queue' = [queue EXCEPT ![w] = Append(rest, a)]
    <3>1. latest'[w] = [latest[w] EXCEPT ![k] = m.epoch]
      BY <2>6 DEF RingInv, LatestOK
    <3>2. /\ latest[w] \in [Task -> Nat] /\ m.epoch \in Nat /\ m.epoch <= epoch[k]
      BY <1>1, <2>1 DEF Issued, RingInv, LatestOK
    <3>3. latest'[w][k] = m.epoch /\ \A j \in Task : j # k => latest'[w][j] = latest[w][j]
      BY <2>1, <3>1, <3>2
    <3>4. \A j \in Task : latest[w][j] <= latest'[w][j] /\ latest'[w][j] <= epoch'[j]
      <4> SUFFICES ASSUME NEW j \in Task
                   PROVE  latest[w][j] <= latest'[w][j] /\ latest'[w][j] <= epoch'[j]
        OBVIOUS
      <4>1. CASE j = k
        BY <1>1, <1>3, <2>1, <2>6, <3>2, <3>3, <4>1, SMTT(40)
      <4>2. CASE j # k
        BY <1>1, <1>3, <3>3, <4>2
      <4> QED
        BY <4>1, <4>2
    <3>5. Fresh(w) \subseteq Fresh(w)'
      <4> SUFFICES ASSUME NEW b \in Fresh(w) PROVE b \in Fresh(w)'
        OBVIOUS
      <4>1. b \in Grants /\ b.epoch \in Nat /\ b.task \in Task /\ b.epoch <= latest[w][b.task]
        BY DEF Fresh, Grants
      <4>2. /\ latest[w][b.task] \in Nat /\ latest'[w][b.task] \in Nat
            /\ latest[w][b.task] <= latest'[w][b.task]
        BY <1>3, <3>2, <3>3, <3>4, <4>1
      <4>3. b.epoch <= latest'[w][b.task]
        BY <4>1, <4>2
      <4> QED
        BY <1>2, <4>1, <4>3 DEF Fresh
    <3>6. a \in Fresh(w)'
      <4>1. a \in Grants'
        BY <1>2, <2>1
      <4>2. a.epoch <= latest'[w][a.task]
        BY <2>3, <3>2, <3>3
      <4> QED
        BY <4>1, <4>2 DEF Fresh
    <3>7. Append(rest, a) \in Seq(Fresh(w)')
      <4>1. rest \in Seq(Fresh(w)')
        BY <2>4, <3>5, SeqMonotonic
      <4> QED
        BY <3>6, <4>1, AppendProperties
    <3>8. queue'[w] \in Seq(Fresh(w)')
      BY <2>6, <3>7 DEF RingInv, QueueOK
    <3>9. \A v \in Worker : v # w => latest'[v] = latest[v] /\ queue'[v] \in Seq(Fresh(v))
      BY <1>4, <2>6 DEF RingInv, QueueOK, LatestOK
    <3> QED
      BY <1>5, <3>4, <3>8, <3>9 DEF AcceptedIssued
  <2> QED
    BY <1>9, <2>5, <2>6, EnqueueShape DEF m, k, a, rest
<1> QED
  BY <1>6, <1>7, <1>8, <1>9, QueueKinds

LEMMA ChannelKinds ==
  ASSUME RingInv, [RingNext]_vars, NEW v \in Worker
  PROVE  \/ toWorker'[v] = toWorker[v]
         \/ \E kinds : Taking(v, kinds)
         \/ \E m : Tell(v, m) /\ m.kind # "WELCOME"
         \/ Rejoin(v) /\ Tell(v, Msg("WELCOME"))
<1> USE DEF stateVars, threadVars, sentVars
<1>1. ASSUME NEW w \in Worker, NEW m \in Orders' \union {Msg("NO_TASK")}, Tell(w, m)
      PROVE  toWorker'[v] = toWorker[v] \/ (Tell(v, m) /\ m.kind # "WELCOME")
  <2>1. m.kind # "WELCOME"
    BY DEF Orders, Msg
  <2>2. w # v => toWorker'[v] = toWorker[v]
    BY <1>1, TellShape
  <2> QED
    BY <1>1, <2>1, <2>2
<1>2. ASSUME NEW w \in Worker, Taking(w, {"ASSIGN", "TAKEOVER", "NO_TASK"})
      PROVE  toWorker'[v] = toWorker[v] \/ Taking(v, {"ASSIGN", "TAKEOVER", "NO_TASK"})
  <2>1. w # v => toWorker'[v] = toWorker[v]
    BY <1>2, TakingShape
  <2> QED
    BY <1>2, <2>1
<1>3. ASSUME NEW w \in Worker, w # v,
             \/ SendRejoin(w) \/ Crash(w) \/ Restart(w) \/ Discard(w)
             \/ Welcome(w) \/ RetryLater(w) \/ DispatchRejoin(w)
      PROVE  toWorker'[v] = toWorker[v]
  BY <1>3, RejoinsApart
<1>4. CASE SendRejoin(v) \/ Crash(v) \/ Restart(v)
  BY <1>4 DEF SendRejoin, Crash, Restart
<1>5. CASE Discard(v) \/ Welcome(v) \/ RetryLater(v)
  BY <1>5 DEF Discard, Welcome, RetryLater
<1>6. CASE DispatchRejoin(v)
  <2>1. Msg("RETRY_LATER").kind # "WELCOME"
    BY DEF Msg
  <2> QED
    BY <1>6, <2>1 DEF DispatchRejoin
<1> QED
  BY <1>1, <1>2, <1>3, <1>4, <1>5, <1>6, PlainStep

LEMMA WelcomedLateStep ==
  ASSUME RingInv, [RingNext]_vars, NEW v \in Worker, WelcomedLate(v)
  PROVE  WelcomedLate(v)'
<1> DEFINE q == toWorker[v]
           p == toWorker'[v]
           InForce(m) == tstate'[m.task] = "ASSIGNED" /\ owner'[m.task] = v
                         /\ m.epoch = epoch'[m.task]
<1>1. ASSUME NEW i \in 1..Len(q), q[i].kind = "ASSIGN",
             ~(Holds(v, q[i].task) /\ q[i].epoch = epoch[q[i].task])
      PROVE  ~InForce(q[i])
  <2>1. q[i] \in Orders \union Answers
    BY ChannelType, ElementOfSeq
  <2>2. q[i].task \in Task /\ q[i].epoch \in Issued(q[i].task)
    BY <1>1, <2>1 DEF Orders, Answers, Msg
  <2> QED
    BY <1>1, <2>2, StaleStays DEF Holds
<1>2. ASSUME NEW i \in 1..Len(q), NEW j \in 1..Len(q), i < j,
             q[j].kind = "WELCOME", q[i].kind = "ASSIGN"
      PROVE  ~InForce(q[i])
  BY <1>1, <1>2 DEF WelcomedLate
<1> SUFFICES ASSUME NEW i \in 1..Len(p), NEW j \in 1..Len(p), i < j,
                    p[j].kind = "WELCOME", p[i].kind = "ASSIGN"
             PROVE  ~InForce(p[i])
  BY DEF WelcomedLate, Holds
<1>3. CASE p = q
  <2> HIDE DEF InForce
  <2> QED
    BY <1>2, <1>3
<1>4. ASSUME NEW kinds, Taking(v, kinds)
      PROVE  ~InForce(p[i])
  <2>1. /\ Len(q) \in Nat /\ Len(p) = Len(q) - 1
        /\ \A h \in 1..(Len(q) - 1) : p[h] = q[h + 1]
    BY <1>4, TakingShape
  <2> HIDE DEF p, q
  <2>2. /\ i + 1 \in 1..Len(q) /\ j + 1 \in 1..Len(q) /\ i + 1 < j + 1
        /\ p[i] = q[i + 1] /\ p[j] = q[j + 1]
    BY <2>1
  <2> HIDE DEF InForce
  <2> QED
    BY <1>2, <2>2
<1>5. ASSUME NEW m, Tell(v, m), m.kind # "WELCOME"
      PROVE  ~InForce(p[i])
  <2>1. /\ Len(q) \in Nat /\ Len(p) = Len(q) + 1 /\ p[Len(q) + 1] = m
        /\ \A h \in 1..Len(q) : p[h] = q[h]
    BY <1>5, TellShape
  <2> HIDE DEF p, q
  <2>2. i \in 1..Len(q) /\ j \in 1..Len(q) /\ p[i] = q[i] /\ p[j] = q[j]
    BY <1>5, <2>1
  <2> HIDE DEF InForce
  <2> QED
    BY <1>2, <2>2
<1>6. ASSUME Rejoin(v), Tell(v, Msg("WELCOME"))
      PROVE  ~InForce(p[i])
  <2>1. /\ Len(q) \in Nat /\ Len(p) = Len(q) + 1
        /\ \A h \in 1..Len(q) : p[h] = q[h]
    BY <1>6, TellShape
  <2>2. i \in 1..Len(q) /\ p[i] = q[i]
    <3> HIDE DEF p, q
    <3> QED
      BY <2>1
  <2>3. q[i] \in Orders \union Answers
    BY <2>2, ChannelType, ElementOfSeq
  <2>4. p[i].task \in Task
    BY <2>2, <2>3 DEF Orders, Answers, Msg
  <2> QED
    BY <1>6, <2>4, WelcomedHoldsNothing DEF Holds
<1> QED
  BY <1>3, <1>4, <1>5, <1>6, ChannelKinds

LEMMA EpochKinds ==
  ASSUME [RingNext]_vars
  PROVE  \/ UNCHANGED epoch
         \/ \E v \in Worker : /\ DispatchReq(v) /\ Assign(v)
                              /\ Tell(v, Grant("ASSIGN", Head(pending), 1, None))
         \/ DetectorScan
<1>1. CASE UNCHANGED vars
  BY <1>1 DEF vars, tablesVars
<1>2. ASSUME NEW w \in Worker,
             \/ TakeWork(w) \/ CheckpointStep(w) \/ ResultStep(w) \/ Abandon(w)
             \/ RequestIfIdle(w) \/ SendRejoin(w)
             \/ Crash(w) \/ Restart(w) \/ SaveCheckpoint(w) \/ Discard(w)
             \/ Enqueue(w) \/ MarkNoTask(w) \/ Welcome(w) \/ RetryLater(w)
      PROVE  UNCHANGED epoch
  <2>1. UNCHANGED tablesVars
    BY <1>2 DEF TakeWork, CheckpointStep, ResultStep, Abandon, RequestIfIdle, SendRejoin,
                Crash, Restart, SaveCheckpoint, Discard, Enqueue, MarkNoTask, Welcome, RetryLater
  <2> QED
    BY <2>1 DEF tablesVars
<1>3. ASSUME NEW w \in Worker,
             DispatchResult(w) \/ CompleteResult(w) \/ SendHeartbeat(w) \/ PeriodPasses(w)
             \/ DispatchRejoin(w)
      PROVE  UNCHANGED epoch
  BY <1>3 DEF DispatchResult, ResultRead, CompleteResult, ResultCommit, ResultReject,
              SendHeartbeat, Heartbeat, PeriodPasses, Silence, DispatchRejoin, Rejoin,
              RejoinLater, taskVars, tablesVars
<1>4. ASSUME NEW w \in Worker, DispatchReq(w), ~Assign(w)
      PROVE  UNCHANGED epoch
  BY <1>4 DEF DispatchReq, ReplyToReq, Refuse, tablesVars
<1>5. ASSUME NEW w \in Worker, DispatchReq(w), Assign(w)
      PROVE  \/ UNCHANGED epoch
             \/ Tell(w, Grant("ASSIGN", Head(pending), 1, None))
  BY <1>5 DEF DispatchReq, ReplyToReq, Refuse, tablesVars
<1>6. CASE DetectorRound \/ DetectorNotice \/ Finished
  BY <1>6 DEF DetectorRound, Detect, DetectorNotice, SendNotice, Finished, MainFinish, taskVars
<1> QED
  BY <1>1, <1>2, <1>3, <1>4, <1>5, <1>6 DEF RingNext

(* A grant renewed is on its way to its new owner, who cannot have accepted *)
(* it yet.                                                                  *)
LEMMA Renewed ==
  ASSUME RingInv, [RingNext]_vars, NEW w \in Worker, NEW k \in Task,
         epoch'[k] = epoch[k] + 1, Holds(w, k)'
  PROVE  OnWay(w, k)' /\ latest' = latest
<1> USE DEF stateVars, threadVars, sentVars
<1>1. epoch[k] \in Nat /\ epoch'[k] # epoch[k]
  BY DEF RingInv, TablesInv, TypeOK
<1>2. ASSUME NEW v \in Worker, DispatchReq(v), Assign(v),
             Tell(v, Grant("ASSIGN", Head(pending), 1, None))
      PROVE  OnWay(w, k)' /\ latest' = latest
  <2> DEFINE m == Grant("ASSIGN", Head(pending), 1, None)
  <2>1. /\ Head(pending) \in Task /\ epoch' = [epoch EXCEPT ![Head(pending)] = 1]
        /\ owner' = [owner EXCEPT ![Head(pending)] = v]
    BY <1>2, HeadIsPending DEF Assign, RingInv, TablesInv
  <2>2. k = Head(pending) /\ epoch'[k] = 1 /\ v = w
    BY <1>1, <2>1 DEF Holds, RingInv, TablesInv, TypeOK
  <2>3. m.kind = "ASSIGN" /\ m.task = k /\ m.epoch = epoch'[k]
    BY <2>2 DEF Grant
  <2>4. /\ Len(toWorker'[w]) = Len(toWorker[w]) + 1 /\ Len(toWorker[w]) \in Nat
        /\ toWorker'[w][Len(toWorker[w]) + 1] = m
    BY <1>2, <2>2, TellShape
  <2>5. Len(toWorker'[w]) \in 1..Len(toWorker'[w]) /\ toWorker'[w][Len(toWorker'[w])] = m
    BY <2>4
  <2> QED
    BY <1>2, <2>3, <2>5 DEF OnWay, OrderFor, DispatchReq
<1>3. CASE DetectorScan
  <2>1. PICK s \in Worker, t \in Worker : ScanTask(s, t)
    BY <1>3 DEF DetectorScan
  <2> DEFINE n == [to |-> t, task |-> cursor, epoch |-> NextEpoch(cursor), from |-> s]
  <2>2. /\ epoch' = [epoch EXCEPT ![cursor] = NextEpoch(cursor)]
        /\ owner' = [owner EXCEPT ![cursor] = t]
        /\ notices' = Append(notices, n)
    BY <1>1, <2>1 DEF ScanTask, TakeOver
  <2>3. k = cursor /\ t = w
    BY <1>1, <2>2 DEF Holds, RingInv, TablesInv, TypeOK
  <2>4. n \in Notice
    <3>1. epoch[cursor] \in Nat /\ cursor \in Task
      BY DEF RingInv, TablesInv, TypeOK
    <3>2. NextEpoch(cursor) \in Nat
      BY <3>1 DEF NextEpoch
    <3> QED
      BY <3>1, <3>2 DEF Notice
  <2>5. Len(notices') \in 1..Len(notices') /\ notices'[Len(notices')] = n
    <3> HIDE DEF n
    <3>1. /\ Len(notices') = Len(notices) + 1 /\ Len(notices) \in Nat
          /\ notices'[Len(notices) + 1] = n
      BY <2>2, <2>4, AppendProperties, LenProperties DEF RingInv, TablesInv, TypeOK
    <3> QED
      BY <3>1
  <2> QED
    BY <1>3, <2>3, <2>5 DEF OnWay, DetectorScan, ringVars
<1> QED
  BY <1>1, <1>2, <1>3, EpochKinds

LEMMA HandKinds ==
  ASSUME [RingNext]_vars
  PROVE  \/ UNCHANGED <<queue, work, current, reports, callOf, mode, crashGen, latest>>
         \/ \E w \in Worker : \/ ComputeThread(w) \/ Crash(w) \/ Restart(w) \/ Enqueue(w)
                              \/ Welcome(w) \/ DispatchResult(w) \/ CompleteResult(w)
<1> USE DEF stateVars, threadVars, sentVars, ringVars
<1>1. CASE UNCHANGED vars
  BY <1>1 DEF vars, tablesVars
<1>2. ASSUME NEW w \in Worker,
             \/ RequestIfIdle(w) \/ SendHeartbeat(w) \/ SendRejoin(w) \/ SaveCheckpoint(w)
             \/ Discard(w) \/ MarkNoTask(w) \/ RetryLater(w)
      PROVE  UNCHANGED <<queue, work, current, reports, callOf, mode, crashGen, latest>>
  BY <1>2 DEF RequestIfIdle, SendHeartbeat, Heartbeat, SendRejoin, SaveCheckpoint, Discard,
              MarkNoTask, RetryLater, tablesVars
<1>3. ASSUME NEW w \in Worker, DispatchReq(w) \/ DispatchRejoin(w) \/ PeriodPasses(w)
      PROVE  UNCHANGED <<queue, work, current, reports, callOf, mode, crashGen, latest>>
  BY <1>3 DEF DispatchReq, ReplyToReq, Assign, Refuse, DispatchRejoin, Rejoin, RejoinLater,
              PeriodPasses, Silence, tablesVars
<1>4. CASE DetectorRound \/ DetectorScan \/ DetectorNotice \/ Finished
  BY <1>4 DEF DetectorRound, Detect, DetectorScan, ScanTask, DetectorNotice, SendNotice,
              Finished, MainFinish
<1> QED
  BY <1>1, <1>2, <1>3, <1>4 DEF RingNext, ComputeThread

LEMMA HandsApart ==
  ASSUME RingInv, AskTypes, NEW u \in Worker, NEW w \in Worker, u # w,
         \/ ComputeThread(u) \/ Crash(u) \/ Restart(u) \/ Enqueue(u)
         \/ Welcome(u) \/ DispatchResult(u) \/ CompleteResult(u)
  PROVE  /\ queue'[w] = queue[w] /\ work'[w] = work[w] /\ current'[w] = current[w]
         /\ reports'[w] = reports[w] /\ callOf'[w] = callOf[w] /\ mode'[w] = mode[w]
         /\ crashGen'[w] = crashGen[w] /\ latest'[w] = latest[w]
<1> USE DEF stateVars, threadVars, sentVars, ringVars, tablesVars,
            RingInv, FlagsOK, LatestOK, QueueOK, WorkOK, ReportsOK, AskTypes
<1>1. CASE TakeWork(u) \/ CheckpointStep(u)
  BY <1>1 DEF TakeWork, CheckpointStep
<1>2. CASE ResultStep(u) \/ Abandon(u)
  BY <1>2 DEF ResultStep, Abandon, Finish
<1>3. CASE Crash(u) \/ Restart(u) \/ Welcome(u)
  BY <1>3 DEF Crash, Restart, Welcome
<1>4. CASE Enqueue(u)
  BY <1>4 DEF Enqueue
<1>5. CASE DispatchResult(u) \/ CompleteResult(u)
  <2>1. callOf \in [Worker -> Call \union {NoCall}]
    BY DEF TablesInv, TypeOK
  <2> QED
    BY <1>5, <2>1 DEF DispatchResult, ResultRead, CompleteResult, ResultCommit, ResultReject
<1> QED
  BY <1>1, <1>2, <1>3, <1>4, <1>5 DEF ComputeThread

(* What is in hand stays in hand while its grant is in force.               *)
LEMMA HandTakes ==
  ASSUME RingInv, AskTypes, AcceptedIssued, NEW w \in Worker, NEW k \in Task,
         TakeWork(w), InHand(w, k), epoch'[k] = epoch[k]
  PROVE  InHand(w, k)'
<1> USE DEF stateVars, threadVars, sentVars, tablesVars
<1> DEFINE a == Head(queue[w])
<1>1. /\ work[w] = Idle /\ mode[w] = "RUNNING" /\ queue[w] # <<>>
      /\ work'[w].task = a.task /\ work'[w].epoch = a.epoch /\ work'[w].gen = crashGen[w]
      /\ current'[w]
      /\ queue'[w] = Tail(queue[w])
      /\ UNCHANGED <<mode, crashGen, latest, reports, callOf>>
  BY DEF TakeWork, RingInv, QueueOK, WorkOK, AskTypes
<1>2. /\ queue[w] \in Seq(Fresh(w)) /\ Len(queue[w]) \in Nat /\ a = queue[w][1] /\ a \in Fresh(w)
      /\ Len(Tail(queue[w])) = Len(queue[w]) - 1
      /\ \A i \in 1..(Len(queue[w]) - 1) : Tail(queue[w])[i] = queue[w][i + 1]
  <2>1. queue[w] \in Seq(Fresh(w))
    BY DEF AcceptedIssued
  <2> QED
    BY <1>1, <2>1, HeadTailProperties, LenProperties
<1>3. ~InWork(w, k)
  BY <1>1 DEF InWork
<1>4. CASE Reported(w, k) \/ InCall(w, k)
  BY <1>1, <1>4 DEF InHand, Reported, InCall
<1>5. ASSUME NEW i \in 1..Len(queue[w]), queue[w][i].task = k, queue[w][i].epoch = epoch[k], i # 1
      PROVE  InHand(w, k)'
  <2>1. i - 1 \in 1..Len(queue'[w]) /\ queue'[w][i - 1] = queue[w][i]
    BY <1>1, <1>2, <1>5
  <2> QED
    BY <1>5, <2>1 DEF InHand, InQueue
<1>6. ASSUME a.task = k, a.epoch = epoch[k]
      PROVE  InHand(w, k)'
  <2>1. a.epoch <= latest[w][k] /\ latest[w][k] <= epoch[k] /\ latest[w][k] \in Nat /\ epoch[k] \in Nat
    BY <1>2, <1>6, SMTT(40) DEF Fresh, AcceptedIssued, RingInv, LatestOK, TablesInv, TypeOK
  <2>2. latest[w][k] = epoch[k]
    BY <1>6, <2>1
  <2>3. work'[w] # Idle
    BY <1>1, <1>6 DEF TakeWork, RingInv, WorkOK, Idle
  <2>4. Active(w, crashGen[w], k, epoch[k])'
    BY <1>1, <2>2 DEF Active
  <2> QED
    BY <1>1, <1>6, <2>2, <2>3 DEF InHand, InWork, Valid, WorkActive, Active
<1> QED
  BY <1>1, <1>2, <1>3, <1>4, <1>5, <1>6 DEF InHand, InQueue

LEMMA HandComputes ==
  ASSUME RingInv, AskTypes, NEW w \in Worker, NEW k \in Task,
         CheckpointStep(w) \/ ResultStep(w) \/ Abandon(w),
         InHand(w, k), epoch'[k] = epoch[k]
  PROVE  InHand(w, k)'
<1> USE DEF stateVars, threadVars, sentVars, tablesVars
<1>1. UNCHANGED <<queue, callOf, mode, crashGen, latest>>
  BY DEF CheckpointStep, ResultStep, Abandon
<1>2. CASE InQueue(w, k) \/ InCall(w, k)
  BY <1>1, <1>2 DEF InHand, InQueue, InCall
<1>3. CASE Reported(w, k)
  <2>1. reports[w] \subseteq reports'[w]
    BY DEF CheckpointStep, ResultStep, Abandon, RingInv, ReportsOK
  <2> QED
    BY <1>3, <2>1 DEF InHand, Reported
<1>4. CASE InWork(w, k)
  <2>1. work[w] \in Works /\ work[w] # Idle /\ Valid(w)
    BY <1>4 DEF InWork, RingInv, WorkOK
  <2>2. CASE CheckpointStep(w)
    <3> DEFINE x == work[w]
    <3>1. /\ work'[w] = [x EXCEPT !.step = x.step + 1, !.partial = Append(x.partial, x.step)]
          /\ current' = current
      BY <2>2 DEF CheckpointStep, RingInv, WorkOK
    <3>2. work'[w].task = x.task /\ work'[w].epoch = x.epoch /\ work'[w].gen = x.gen
      BY <2>1, <3>1 DEF Works
    <3>3. work'[w] # Idle
      <4>1. x \in [task : Task, epoch : Nat, gen : Nat, step : 1..Steps, partial : Seq(Nat)]
        BY <2>1 DEF Works
      <4>2. DOMAIN work'[w] = {"task", "epoch", "gen", "step", "partial"}
        BY <3>1, <4>1
      <4>3. DOMAIN Idle = {"task"}
        BY DEF Idle
      <4> QED
        BY <4>2, <4>3
    <3> QED
      BY <1>1, <1>4, <3>1, <3>2, <3>3 DEF InHand, InWork, Valid, WorkActive, Active
  <2>3. CASE ResultStep(w)
    <3> DEFINE x == work[w]
               r == [task |-> x.task, epoch |-> x.epoch, value |-> Append(x.partial, x.step)]
    <3>1. r \in reports'[w]
      BY <2>3 DEF ResultStep, RingInv, ReportsOK
    <3>2. r.task = k /\ r.epoch = epoch'[k]
      BY <1>4 DEF InWork
    <3> QED
      BY <3>1, <3>2 DEF InHand, Reported
  <2>4. ~Abandon(w)
    BY <2>1 DEF Abandon
  <2> QED
    BY <2>2, <2>3, <2>4
<1> QED
  BY <1>2, <1>3, <1>4 DEF InHand

LEMMA HandEnqueues ==
  ASSUME RingInv, AskTypes, AcceptedIssued, NEW w \in Worker, NEW k \in Task,
         Enqueue(w), InHand(w, k), epoch'[k] = epoch[k]
  PROVE  InHand(w, k)'
<1> USE DEF stateVars, threadVars, sentVars, tablesVars
<1> DEFINE m == toWorker[w][1]
           j == m.task
           a == [task |-> m.task, epoch |-> m.epoch, from |-> m.from]
           rest == Others(queue[w], j)
<1>1. UNCHANGED <<work, current, reports, callOf, mode, crashGen>>
  BY DEF Enqueue
<1>2. CASE Reported(w, k) \/ InCall(w, k)
  BY <1>1, <1>2 DEF InHand, Reported, InCall
<1>3. CASE UNCHANGED <<latest, queue>>
  BY <1>1, <1>3 DEF InHand, InQueue, InWork, Valid, WorkActive, Active, Reported, InCall
<1>4. ASSUME m.epoch > latest[w][j], j \in Task, m.epoch \in Issued(j),
             latest' = [latest EXCEPT ![w][j] = m.epoch],
             queue' = [queue EXCEPT ![w] = Append(rest, a)],
             InQueue(w, k) \/ InWork(w, k)
      PROVE  InHand(w, k)'
  <2>1. latest[w][k] = epoch[k] /\ epoch[k] \in Nat /\ latest[w][k] \in Nat
    <3>1. latest[w][k] <= epoch[k] /\ latest[w][k] \in Nat /\ epoch[k] \in Nat
      BY DEF AcceptedIssued, RingInv, LatestOK, TablesInv, TypeOK
    <3>2. ASSUME NEW i \in 1..Len(queue[w]), queue[w][i].task = k, queue[w][i].epoch = epoch[k]
          PROVE  epoch[k] <= latest[w][k]
      <4>1. queue[w][i] \in Fresh(w)
        BY ElementOfSeq DEF AcceptedIssued
      <4> QED
        BY <3>2, <4>1 DEF Fresh
    <3>3. InWork(w, k) => latest[w][k] = epoch[k]
      BY DEF InWork, Valid, WorkActive, Active
    <3> QED
      BY <1>4, <3>1, <3>2, <3>3, SMTT(40) DEF InQueue
  <2>2. j # k
    <3> SUFFICES ASSUME j = k PROVE FALSE
      OBVIOUS
    <3>1. m.epoch \in 1..epoch[k] /\ m.epoch > epoch[k]
      BY <1>4, <2>1 DEF Issued
    <3> QED
      BY <2>1, <3>1
  <2>3. latest'[w][k] = latest[w][k]
    BY <1>4, <2>2 DEF RingInv, LatestOK
  <2>4. CASE InWork(w, k)
    BY <1>1, <2>3, <2>4 DEF InHand, InWork, Valid, WorkActive, Active
  <2>5. ASSUME NEW i \in 1..Len(queue[w]), queue[w][i].task = k, queue[w][i].epoch = epoch[k]
        PROVE  InHand(w, k)'
    <3>1. /\ rest \in Seq(Grants)
          /\ \E h \in 1..Len(rest) : rest[h] = queue[w][i]
      BY <2>2, <2>5, OthersKept DEF RingInv, QueueOK, QueueOnce
    <3>2. PICK h \in 1..Len(rest) : rest[h] = queue[w][i]
      BY <3>1
    <3>3. a \in Grants
      BY EnqueueShape
    <3> HIDE DEF rest, a, m, j
    <3>4. queue'[w] = Append(rest, a)
      BY <1>4 DEF RingInv, QueueOK
    <3>5. h \in 1..Len(Append(rest, a)) /\ Append(rest, a)[h] = rest[h]
      BY <3>1, <3>2, <3>3, AppendProperties, LenProperties
    <3> QED
      BY <2>5, <3>2, <3>4, <3>5 DEF InHand, InQueue
  <2> QED
    BY <1>4, <2>4, <2>5 DEF InQueue
<1>5. /\ j \in Task /\ m.epoch \in Issued(j)
      /\ \/ UNCHANGED <<latest, queue>>
         \/ /\ m.epoch > latest[w][j]
            /\ latest' = [latest EXCEPT ![w][j] = m.epoch]
            /\ queue' = [queue EXCEPT ![w] = Append(rest, a)]
  BY EnqueueShape
<1> QED
  BY <1>2, <1>3, <1>4, <1>5 DEF InHand

LEMMA HandReports ==
  ASSUME RingInv, NEW w \in Worker, NEW k \in Task,
         DispatchResult(w) \/ CompleteResult(w),
         wstate[w] # "DEAD", Holds(w, k), Holds(w, k)',
         InHand(w, k), epoch'[k] = epoch[k]
  PROVE  InHand(w, k)'
<1> USE DEF stateVars, threadVars, sentVars, ringVars
<1>1. UNCHANGED <<queue, work, current, mode, crashGen, latest>>
  BY DEF DispatchResult, CompleteResult
<1>2. CASE InQueue(w, k) \/ InWork(w, k)
  BY <1>1, <1>2 DEF InHand, InQueue, InWork, Valid, WorkActive, Active
<1>3. callOf \in [Worker -> Call \union {NoCall}]
  BY DEF RingInv, TablesInv, TypeOK
<1>4. CASE DispatchResult(w)
  <2>1. PICK r \in reports[w] : /\ ResultRead(w, r.task, r.epoch, r.value)
                                /\ reports' = [reports EXCEPT ![w] = @ \ {r}]
    BY <1>4 DEF DispatchResult
  <2>2. /\ callOf[w] = NoCall
        /\ callOf'[w] = [task |-> r.task, epoch |-> r.epoch, value |-> r.value, dead |-> FALSE]
    BY <1>3, <2>1 DEF ResultRead, CanHandle, SendLockFree
  <2>3. reports'[w] = reports[w] \ {r}
    BY <2>1 DEF RingInv, ReportsOK
  <2>4. callOf'[w] # NoCall
    <3>1. DOMAIN callOf'[w] = {"task", "epoch", "value", "dead"} /\ DOMAIN NoCall = {"task"}
      BY <2>2 DEF NoCall
    <3> QED
      BY <3>1
  <2>5. ASSUME NEW x \in reports[w], x.task = k, x.epoch = epoch[k]
        PROVE  InHand(w, k)'
    <3>1. CASE x = r
      BY <2>2, <2>4, <2>5, <3>1 DEF InHand, InCall
    <3>2. CASE x # r
      BY <2>3, <2>5, <3>2 DEF InHand, Reported
    <3> QED
      BY <3>1, <3>2
  <2> QED
    BY <1>2, <2>2, <2>5 DEF InHand, Reported, InCall
<1>5. CASE CompleteResult(w)
  <2>1. UNCHANGED reports
    BY <1>5 DEF CompleteResult
  <2>2. ~InCall(w, k)
    <3> SUFFICES ASSUME InCall(w, k) PROVE FALSE
      OBVIOUS
    <3>1. ~Stale(w, callOf[w])
      BY DEF InCall, Stale, Holds
    <3>2. tstate' = [tstate EXCEPT ![k] = "DONE"]
      BY <1>5, <3>1 DEF CompleteResult, ResultCommit, ResultReject, InCall
    <3> QED
      BY <3>2 DEF Holds, RingInv, TablesInv, TypeOK
  <2> QED
    BY <1>2, <2>1, <2>2 DEF InHand, Reported
<1> QED
  BY <1>4, <1>5

LEMMA CrashMutes ==
  ASSUME RingInv, NEW w \in Worker, Talk(w), Crash(w)
  PROVE  Mute(w)'
<1> USE DEF stateVars
<1>1. mode[w] = "RUNNING" /\ mode'[w] = "CRASHED" /\ toWorker'[w] = toWorker[w]
  BY DEF Crash, RingInv, FlagsOK
<1>2. ~WelcomeComing(w)'
  BY <1>1, WelcomeIsAnswer DEF Talk, WelcomeComing
<1> QED
  BY <1>1, <1>2 DEF Mute, IsDown

LEMMA HandKept ==
  ASSUME ExchangeInv, AcceptedIssued, [RingNext]_vars, NEW w \in Worker, NEW k \in Task,
         AccurateFD, ~Mute(w), ~Mute(w)', Holds(w, k), Holds(w, k)',
         InHand(w, k), epoch'[k] = epoch[k]
  PROVE  InHand(w, k)'
<1> USE DEF stateVars, threadVars, sentVars, tablesVars
<1>1. RingInv /\ AskTypes /\ Talk(w) /\ wstate[w] = "ALIVE"
  BY DEF ExchangeInv, Heard
<1>2. ASSUME queue'[w] = queue[w], work'[w] = work[w], current'[w] = current[w],
             reports'[w] = reports[w], callOf'[w] = callOf[w],
             mode'[w] = mode[w] \/ mode[w] # "RUNNING",
             crashGen'[w] = crashGen[w], latest'[w] = latest[w]
      PROVE  InHand(w, k)'
  BY <1>2 DEF InHand, InQueue, InWork, Valid, WorkActive, Active, Reported, InCall
<1>3. CASE UNCHANGED <<queue, work, current, reports, callOf, mode, crashGen, latest>>
  BY <1>2, <1>3
<1>4. ASSUME NEW u \in Worker, u # w,
             \/ ComputeThread(u) \/ Crash(u) \/ Restart(u) \/ Enqueue(u)
             \/ Welcome(u) \/ DispatchResult(u) \/ CompleteResult(u)
      PROVE  InHand(w, k)'
  BY <1>1, <1>2, <1>4, HandsApart
<1>5. CASE ComputeThread(w)
  BY <1>1, <1>5, HandTakes, HandComputes DEF ComputeThread
<1>6. ~Crash(w)
  BY <1>1, CrashMutes
<1>7. CASE Restart(w)
  BY <1>2, <1>7 DEF Restart
<1>8. CASE Welcome(w)
  BY <1>2, <1>8 DEF Welcome
<1>9. CASE Enqueue(w)
  BY <1>1, <1>9, HandEnqueues
<1>10. CASE DispatchResult(w) \/ CompleteResult(w)
  BY <1>1, <1>10, HandReports
<1> QED
  BY <1>3, <1>4, <1>5, <1>6, <1>7, <1>8, <1>9, <1>10, HandKinds

(* An order in force that the worker takes from the channel is accepted.    *)
LEMMA OrderAccepted ==
  ASSUME ExchangeInv, AcceptedIssued, NEW w \in Worker, NEW k \in Task, WelcomedLate(w),
         ~Mute(w), Holds(w, k), Enqueue(w), OrderFor(toWorker[w][1], k), epoch'[k] = epoch[k]
  PROVE  \/ InHand(w, k)'
         \/ latest[w][k] = epoch[k]
<1> DEFINE m == toWorker[w][1]
           a == [task |-> m.task, epoch |-> m.epoch, from |-> m.from]
           rest == Others(queue[w], k)
<1>1. RingInv /\ m.task = k /\ m.epoch = epoch[k]
  BY DEF ExchangeInv, OrderFor
<1>2. m \in Orders /\ a \in Grants
  BY <1>1, EnqueueShape
<1>3. Accepts(w, m)
  <2>1. CASE mode[w] = "RUNNING"
    BY <2>1 DEF Accepts
  <2>2. CASE mode[w] # "RUNNING"
    <3>1. WelcomeComing(w)
      BY <1>1, <2>2 DEF Mute, IsDown, RingInv, FlagsOK
    <3>2. PICK j \in 1..Len(toWorker[w]) : toWorker[w][j].kind = "WELCOME"
      BY <3>1 DEF WelcomeComing
    <3>3. 1 \in 1..Len(toWorker[w]) /\ j \in Nat /\ j # 1
      BY <1>1, <3>2, TakingShape, SMTT(40) DEF Enqueue, OrderFor
    <3>4. 1 < j
      BY <3>2, <3>3
    <3>5. m.kind # "ASSIGN"
      BY <1>1, <3>2, <3>3, <3>4 DEF WelcomedLate
    <3> QED
      BY <1>2, <3>5 DEF Orders, Accepts
  <2> QED
    BY <2>1, <2>2
<1>4. latest[w][k] <= epoch[k] /\ latest[w][k] \in Nat /\ epoch[k] \in Nat
  BY <1>1 DEF AcceptedIssued, RingInv, LatestOK, TablesInv, TypeOK
<1>5. \/ m.epoch <= latest[w][k]
      \/ queue' = [queue EXCEPT ![w] = Append(rest, a)]
  BY <1>1, <1>3, EnqueueShape
<1>6. CASE m.epoch <= latest[w][k]
  BY <1>1, <1>4, <1>6
<1>7. CASE queue' = [queue EXCEPT ![w] = Append(rest, a)]
  <2>1. rest \in Seq(Grants)
    BY <1>1, OthersKept DEF RingInv, QueueOK, QueueOnce
  <2>2. a.task = k /\ a.epoch = epoch'[k]
    BY <1>1
  <2> HIDE DEF a, rest
  <2>3. queue'[w] = Append(rest, a)
    BY <1>1, <1>7 DEF RingInv, QueueOK
  <2>4. Len(rest) + 1 \in 1..Len(Append(rest, a)) /\ Append(rest, a)[Len(rest) + 1] = a
    BY <1>2, <2>1, AppendProperties, LenProperties
  <2> QED
    BY <2>2, <2>3, <2>4 DEF InHand, InQueue
<1> QED
  BY <1>5, <1>6, <1>7

(* Where an order lies in the channel after a step.                         *)
LEMMA OrderMoves ==
  ASSUME RingInv, NEW w \in Worker, NEW k \in Task, epoch'[k] = epoch[k],
         NEW i \in 1..Len(toWorker[w]), OrderFor(toWorker[w][i], k),
         \/ toWorker'[w] = toWorker[w]
         \/ \E m : Tell(w, m)
         \/ (\E kinds : Taking(w, kinds)) /\ i # 1
  PROVE  OnWay(w, k)'
<1>1. ASSUME NEW j \in 1..Len(toWorker'[w]), toWorker'[w][j] = toWorker[w][i]
      PROVE  OnWay(w, k)'
  BY <1>1 DEF OnWay, OrderFor
<1>2. CASE toWorker'[w] = toWorker[w]
  BY <1>1, <1>2
<1>3. ASSUME NEW m, Tell(w, m)
      PROVE  OnWay(w, k)'
  <2>1. i \in 1..Len(toWorker'[w]) /\ toWorker'[w][i] = toWorker[w][i]
    BY <1>3, TellShape
  <2> QED
    BY <1>1, <2>1
<1>4. ASSUME NEW kinds, Taking(w, kinds), i # 1
      PROVE  OnWay(w, k)'
  <2>1. /\ Len(toWorker[w]) \in Nat /\ Len(toWorker'[w]) = Len(toWorker[w]) - 1
        /\ \A j \in 1..(Len(toWorker[w]) - 1) : toWorker'[w][j] = toWorker[w][j + 1]
    BY <1>4, TakingShape
  <2>2. i - 1 \in 1..Len(toWorker'[w]) /\ toWorker'[w][i - 1] = toWorker[w][i]
    BY <1>4, <2>1
  <2> QED
    BY <1>1, <2>2
<1> QED
  BY <1>2, <1>3, <1>4

LEMMA NoticeKinds ==
  ASSUME [RingNext]_vars
  PROVE  \/ UNCHANGED notices
         \/ \E s, t \in Worker : ScanTask(s, t)
         \/ DetectorNotice
<1>1. CASE UNCHANGED vars
  BY <1>1 DEF vars, tablesVars
<1>2. ASSUME NEW w \in Worker,
             \/ TakeWork(w) \/ CheckpointStep(w) \/ ResultStep(w) \/ Abandon(w)
             \/ RequestIfIdle(w) \/ SendRejoin(w)
             \/ Crash(w) \/ Restart(w) \/ SaveCheckpoint(w) \/ Discard(w)
             \/ Enqueue(w) \/ MarkNoTask(w) \/ Welcome(w) \/ RetryLater(w)
      PROVE  UNCHANGED notices
  <2>1. UNCHANGED tablesVars
    BY <1>2 DEF TakeWork, CheckpointStep, ResultStep, Abandon, RequestIfIdle, SendRejoin,
                Crash, Restart, SaveCheckpoint, Discard, Enqueue, MarkNoTask, Welcome, RetryLater
  <2> QED
    BY <2>1 DEF tablesVars
<1>3. ASSUME NEW w \in Worker,
             \/ DispatchReq(w) \/ DispatchResult(w) \/ CompleteResult(w) \/ SendHeartbeat(w)
             \/ PeriodPasses(w) \/ DispatchRejoin(w)
      PROVE  UNCHANGED notices
  BY <1>3 DEF DispatchReq, ReplyToReq, Assign, Refuse, DispatchResult, ResultRead,
              CompleteResult, ResultCommit, ResultReject, SendHeartbeat, Heartbeat,
              PeriodPasses, Silence, DispatchRejoin, Rejoin, RejoinLater, scanVars, tablesVars
<1>4. CASE DetectorRound \/ DetectorScan \/ Finished
  BY <1>4 DEF DetectorRound, Detect, DetectorScan, Finished, MainFinish, scanVars
<1> QED
  BY <1>1, <1>2, <1>3, <1>4 DEF RingNext

(* A notice leaves the detector only for the channel of its target.         *)
LEMMA NoticeMoves ==
  ASSUME RingInv, [RingNext]_vars, NEW w \in Worker, NEW k \in Task, epoch'[k] = epoch[k],
         NEW i \in 1..Len(notices), notices[i].to = w, notices[i].task = k
  PROVE  OnWay(w, k)'
<1>1. notices \in Seq(Notice) /\ Len(notices) \in Nat /\ notices # <<>>
  BY LenProperties DEF RingInv, TablesInv, TypeOK
<1>2. ASSUME NEW j \in 1..Len(notices'), notices'[j] = notices[i]
      PROVE  OnWay(w, k)'
  BY <1>2 DEF OnWay
<1>3. CASE UNCHANGED notices
  BY <1>2, <1>3
<1>4. ASSUME NEW s \in Worker, NEW t \in Worker, ScanTask(s, t)
      PROVE  OnWay(w, k)'
  <2>1. UNCHANGED notices \/ \E n \in Notice : notices' = Append(notices, n)
    <3>1. [to |-> t, task |-> cursor, epoch |-> NextEpoch(cursor), from |-> s] \in Notice
      <4>1. cursor \in Task /\ epoch \in [Task -> Nat]
        BY DEF RingInv, TablesInv, TypeOK
      <4>2. NextEpoch(cursor) \in Nat
        BY <4>1 DEF NextEpoch
      <4> QED
        BY <4>1, <4>2 DEF Notice
    <3> QED
      BY <1>4, <3>1 DEF ScanTask, TakeOver
  <2>2. ASSUME NEW n \in Notice, notices' = Append(notices, n)
        PROVE  i \in 1..Len(notices') /\ notices'[i] = notices[i]
    BY <1>1, <2>2, AppendProperties
  <2> QED
    BY <1>2, <1>3, <2>1, <2>2
<1>5. CASE DetectorNotice
  <2> DEFINE n == Head(notices)
             m == Grant("TAKEOVER", n.task, n.epoch, n.from)
  <2>1. /\ notices' = Tail(notices) /\ Tell(n.to, m) /\ n = notices[1]
        /\ Len(Tail(notices)) = Len(notices) - 1
        /\ \A j \in 1..(Len(notices) - 1) : Tail(notices)[j] = notices[j + 1]
    BY <1>1, <1>5, HeadTailProperties DEF DetectorNotice, SendNotice
  <2>2. CASE i = 1
    <3>1. n.to = w /\ n.task = k /\ epoch[n.task] = n.epoch
      BY <1>1, <2>1, <2>2, NoticeIsOrder
    <3>2. m.kind = "TAKEOVER" /\ m.task = k /\ m.epoch = epoch'[k]
      BY <3>1 DEF Grant
    <3>3. Tell(w, m)
      BY <2>1, <3>1
    <3> HIDE DEF m
    <3>4. /\ Len(toWorker'[w]) = Len(toWorker[w]) + 1 /\ Len(toWorker[w]) \in Nat
          /\ toWorker'[w][Len(toWorker[w]) + 1] = m
      BY <3>3, TellShape
    <3>5. Len(toWorker'[w]) \in 1..Len(toWorker'[w]) /\ toWorker'[w][Len(toWorker'[w])] = m
      BY <3>4
    <3> QED
      BY <3>2, <3>5 DEF OnWay, OrderFor
  <2>3. CASE i # 1
    <3>1. i - 1 \in 1..Len(notices') /\ notices'[i - 1] = notices[i]
      BY <1>1, <2>1, <2>3
    <3> QED
      BY <1>2, <3>1
  <2> QED
    BY <2>2, <2>3
<1>6. \/ UNCHANGED notices
      \/ \E s, t \in Worker : ScanTask(s, t)
      \/ DetectorNotice
  BY NoticeKinds
<1> QED
  BY <1>3, <1>4, <1>5, <1>6

LEMMA ChannelSteps ==
  ASSUME RingInv, AskTypes, [RingNext]_vars, NEW w \in Worker
  PROVE  toWorker'[w] = toWorker[w] \/ (\E m : Tell(w, m)) \/ ControlThread(w)
<1> USE DEF stateVars, threadVars, sentVars
<1>1. ASSUME NEW u \in Worker, u # w,
             \/ RequestIfIdle(u) \/ DispatchReq(u) \/ Crash(u) \/ Restart(u)
             \/ ControlThread(u) \/ DispatchRejoin(u)
      PROVE  toWorker'[w] = toWorker[w]
  BY <1>1, RequestsApart
<1>2. CASE RequestIfIdle(w) \/ Crash(w) \/ Restart(w)
  BY <1>2 DEF RequestIfIdle, Crash, Restart
<1>3. CASE DispatchReq(w) \/ DispatchRejoin(w)
  BY <1>3 DEF DispatchReq, ReplyToReq, DispatchRejoin
<1>4. CASE DetectorNotice
  <2> DEFINE n == Head(notices)
  <2>1. n.to \in Worker /\ Tell(n.to, Grant("TAKEOVER", n.task, n.epoch, n.from))
    BY <1>4, NoticeIsOrder DEF DetectorNotice, SendNotice
  <2>2. n.to # w => toWorker'[w] = toWorker[w]
    BY <2>1, TellShape
  <2> QED
    BY <2>1, <2>2
<1> QED
  BY <1>1, <1>2, <1>3, <1>4, AskKinds

LEMMA DeliveredStep ==
  ASSUME DeliveryInv, [RingNext]_vars, NEW w \in Worker, NEW k \in Task
  PROVE  Delivered(w, k)'
<1> SUFFICES ASSUME AccurateFD, Holds(w, k)', ~Mute(w)'
             PROVE  /\ OnWay(w, k)' \/ InHand(w, k)'
                    /\ latest'[w][k] = epoch'[k] => InHand(w, k)'
  BY DEF Delivered
<1>1. /\ ExchangeInv /\ RingInv /\ AskTypes /\ AcceptedIssued /\ Talk(w) /\ WelcomedLate(w)
      /\ Delivered(w, k)
  BY DEF DeliveryInv, ExchangeInv
<1>2. /\ epoch[k] \in Nat /\ latest[w][k] \in Nat /\ latest[w][k] <= epoch[k]
  BY <1>1 DEF AcceptedIssued, RingInv, LatestOK, TablesInv, TypeOK
<1>3. ~Mute(w)
  <2>1. ~Rejoin(w)
    BY <1>1, WelcomedHoldsNothing
  <2> QED
    BY <1>1, <2>1, MuteStays
<1>4. CASE epoch'[k] = epoch[k] + 1
  <2>1. OnWay(w, k)' /\ latest' = latest
    BY <1>1, <1>4, Renewed
  <2> QED
    BY <1>2, <1>4, <2>1
<1>5. CASE /\ epoch'[k] = epoch[k] /\ owner'[k] = owner[k]
           /\ tstate'[k] = tstate[k] \/ tstate'[k] = "DONE"
  <2>1. Holds(w, k)
    BY <1>5 DEF Holds
  <2>2. InHand(w, k) => InHand(w, k)'
    BY <1>1, <1>3, <1>5, <2>1, HandKept
  <2>3. /\ OnWay(w, k) \/ InHand(w, k)
        /\ latest[w][k] = epoch[k] => InHand(w, k)
    BY <1>1, <1>3, <2>1 DEF Delivered
  <2>4. Enqueue(w) /\ OrderFor(toWorker[w][1], k) => InHand(w, k)'
    BY <1>1, <1>3, <1>5, <2>1, <2>2, <2>3, OrderAccepted
  <2>5. ASSUME NEW i \in 1..Len(toWorker[w]), OrderFor(toWorker[w][i], k)
        PROVE  OnWay(w, k)' \/ InHand(w, k)'
    <3>1. ASSUME ControlThread(w)
          PROVE  \E kinds : Taking(w, kinds)
      BY <3>1 DEF ControlThread, Discard, Enqueue, MarkNoTask, Welcome, RetryLater
    <3>2. CASE \/ toWorker'[w] = toWorker[w] \/ (\E m : Tell(w, m))
               \/ (ControlThread(w) /\ i # 1)
      BY <1>1, <1>5, <2>5, <3>1, <3>2, OrderMoves
    <3>3. CASE ControlThread(w) /\ i = 1
      <4>1. ASSUME Discard(w)
            PROVE  FALSE
        <5>1. mode[w] = "CRASHED"
          BY <4>1 DEF Discard
        <5>2. WelcomeComing(w)
          BY <1>3, <5>1 DEF Mute, IsDown
        <5> QED
          BY <1>1, <5>1, <5>2, WelcomeIsAnswer DEF Talk
      <4>2. ~MarkNoTask(w) /\ ~Welcome(w) /\ ~RetryLater(w)
        BY <1>1, <2>5, <3>3, TakingShape DEF OrderFor, MarkNoTask, Welcome, RetryLater
      <4>3. Enqueue(w)
        BY <3>3, <4>1, <4>2 DEF ControlThread
      <4> QED
        BY <2>4, <2>5, <3>3, <4>3
    <3> QED
      BY <1>1, <3>2, <3>3, ChannelSteps
  <2>6. OnWay(w, k)' \/ InHand(w, k)'
    BY <1>1, <1>5, <2>2, <2>3, <2>5, NoticeMoves DEF OnWay
  <2>7. ASSUME latest'[w][k] = epoch'[k]
        PROVE  InHand(w, k)'
    <3>1. CASE latest'[w][k] = latest[w][k]
      BY <1>5, <2>2, <2>3, <2>7, <3>1
    <3>2. CASE latest'[w][k] # latest[w][k]
      <4>1. PICK u \in Worker : TakeWork(u) \/ Crash(u) \/ Enqueue(u)
        BY <3>2, QueueKinds
      <4>2. ~TakeWork(u)
        BY <3>2 DEF TakeWork
      <4>3. u = w
        BY <1>1, <3>2, <4>1, <4>2, HandsApart
      <4>4. Enqueue(w)
        BY <1>1, <4>1, <4>2, <4>3, CrashMutes
      <4> DEFINE m == toWorker[w][1]
      <4>5. m \in Orders /\ m.task \in Task /\ latest' = [latest EXCEPT ![w][m.task] = m.epoch]
        BY <1>1, <3>2, <4>4, EnqueueShape
      <4>6. m.task = k /\ m.epoch = epoch[k]
        <5> HIDE DEF m
        <5>1. latest'[w] = [latest[w] EXCEPT ![m.task] = m.epoch] /\ latest[w] \in [Task -> Nat]
          BY <1>1, <4>5 DEF RingInv, LatestOK
        <5> QED
          BY <1>5, <2>7, <3>2, <4>5, <5>1
      <4> QED
        BY <2>4, <4>4, <4>5, <4>6 DEF OrderFor, Orders
    <3> QED
      BY <3>1, <3>2
  <2> QED
    BY <2>6, <2>7
<1> QED
  BY <1>1, <1>4, <1>5, GrantKinds

-----------------------------------------------------------------------------
LEMMA DeliveryInit == RingInit => DeliveryInv
<1> SUFFICES ASSUME RingInit PROVE DeliveryInv
  OBVIOUS
<1>1. AcceptedIssued
  BY EmptySeq DEF RingInit, AcceptedIssued
<1>2. \A w \in Worker : WelcomedLate(w)
  BY EmptySeq DEF RingInit, WelcomedLate
<1>3. \A w \in Worker, k \in Task : Delivered(w, k)
  BY DEF RingInit, Delivered, Holds
<1> QED
  BY <1>1, <1>2, <1>3, ExchangeInit DEF DeliveryInv

LEMMA DeliveryStep == DeliveryInv /\ [RingNext]_vars => DeliveryInv'
<1> SUFFICES ASSUME DeliveryInv, [RingNext]_vars PROVE DeliveryInv'
  OBVIOUS
<1>1. ExchangeInv /\ RingInv /\ AcceptedIssued /\ \A w \in Worker : WelcomedLate(w)
  BY DEF DeliveryInv, ExchangeInv
<1>2. ExchangeInv'
  BY <1>1, ExchangeStep
<1>3. AcceptedIssued' /\ \A w \in Worker : WelcomedLate(w)'
  BY <1>1, AcceptedStep, WelcomedLateStep
<1>4. \A w \in Worker, k \in Task : Delivered(w, k)'
  BY DeliveredStep
<1> QED
  BY <1>2, <1>3, <1>4 DEF DeliveryInv

LEMMA Delivery == RingSpec => []DeliveryInv
BY DeliveryInit, DeliveryStep, PTL DEF RingSpec

(* No task is lost: with accurate heartbeats an assigned task can always be *)
(* delivered by its owner, or the detector will take it from the owner      *)
(* (state.enqueue, tables.rejoin, tables.result, detector_loop).            *)
THEOREM NoOrphans == RingSpec => []NoOrphan
<1>1. DeliveryInv => NoOrphan
  <2> SUFFICES ASSUME DeliveryInv, AccurateFD, NEW k \in Task, tstate[k] = "ASSIGNED",
                      ~Mute(owner[k])
               PROVE  CanDeliver(owner[k], k, epoch[k])
    BY DEF NoOrphan
  <2> DEFINE w == owner[k]
  <2>1. RingInv
    BY DEF DeliveryInv, ExchangeInv
  <2>2. w \in Worker
    BY <2>1 DEF RingInv, TablesInv, TypeOK, TasksConsistent
  <2>3. OnWay(w, k) \/ InHand(w, k)
    BY <2>2 DEF DeliveryInv, Delivered, Holds
  <2>4. ASSUME NEW i \in 1..Len(toWorker[w]), OrderFor(toWorker[w][i], k)
        PROVE  toWorker[w][i] \in {Grant("ASSIGN", k, epoch[k], None)}
                                    \union {Grant("TAKEOVER", k, epoch[k], v) : v \in Worker}
    <3> DEFINE m == toWorker[w][i]
    <3>1. m \in Orders \union Answers
      BY <2>1, <2>2, ChannelType, ElementOfSeq
    <3>2. m \in Orders
      BY <2>4, <3>1 DEF Answers, Msg, OrderFor
    <3> HIDE DEF m
    <3>3. /\ m = [kind |-> m.kind, task |-> m.task, epoch |-> m.epoch, from |-> m.from]
          /\ m.kind \in {"ASSIGN", "TAKEOVER"} /\ m.from \in Worker \union {None}
          /\ m.kind = "ASSIGN" <=> m.from = None
      BY <3>2 DEF Orders
    <3>4. m.task = k /\ m.epoch = epoch[k]
      BY <2>4 DEF OrderFor, m
    <3>5. m = Grant(m.kind, k, epoch[k], m.from)
      BY <3>3, <3>4 DEF Grant
    <3>6. m \in {Grant("ASSIGN", k, epoch[k], None)}
                  \union {Grant("TAKEOVER", k, epoch[k], v) : v \in Worker}
      BY <3>3, <3>5
    <3> QED
      BY <3>6 DEF m
  <2> QED
    BY <2>3, <2>4 DEF CanDeliver, OnWay, InHand, InQueue, InWork, Reported, InCall
<1> QED
  BY <1>1, Delivery, PTL

-----------------------------------------------------------------------------
(* The types *)

LEMMA NoTaskTyped ==
  ASSUME [RingNext]_vars, noTask \in [Worker -> BOOLEAN]
  PROVE  noTask' \in [Worker -> BOOLEAN]
<1> USE DEF stateVars, threadVars, sentVars, ringVars
<1>1. ASSUME NEW w \in Worker, Crash(w) \/ MarkNoTask(w)
      PROVE  noTask' \in [Worker -> BOOLEAN]
  BY <1>1 DEF Crash, MarkNoTask
<1>2. ASSUME NEW w \in Worker,
             \/ TakeWork(w) \/ CheckpointStep(w) \/ ResultStep(w) \/ Abandon(w)
             \/ RequestIfIdle(w) \/ SendHeartbeat(w) \/ SendRejoin(w) \/ Restart(w)
             \/ SaveCheckpoint(w) \/ Discard(w) \/ Enqueue(w) \/ Welcome(w) \/ RetryLater(w)
      PROVE  UNCHANGED noTask
  BY <1>2 DEF TakeWork, CheckpointStep, ResultStep, Abandon, RequestIfIdle, SendHeartbeat,
              SendRejoin, Restart, SaveCheckpoint, Discard, Enqueue, Welcome, RetryLater
<1>3. ASSUME NEW w \in Worker,
             \/ DispatchReq(w) \/ DispatchResult(w) \/ CompleteResult(w) \/ DispatchRejoin(w)
             \/ PeriodPasses(w)
      PROVE  UNCHANGED noTask
  BY <1>3 DEF DispatchReq, DispatchResult, CompleteResult, DispatchRejoin, PeriodPasses
<1>4. CASE DetectorRound \/ DetectorScan \/ DetectorNotice \/ Finished \/ UNCHANGED vars
  BY <1>4 DEF DetectorRound, DetectorScan, DetectorNotice, Finished, vars
<1> QED
  BY <1>1, <1>2, <1>3, <1>4 DEF RingNext

(* A worker crashes no more often than all of them together.                *)
LEMMA CrashesBounded ==
  ASSUME RingInv, [RingNext]_vars, crashGen \in [Worker -> 0..MaxCrashes]
  PROVE  crashGen' \in [Worker -> 0..MaxCrashes]
<1> USE DEF stateVars, threadVars, sentVars
<1>1. ASSUME NEW w \in Worker, Crash(w)
      PROVE  crashGen[w] < MaxCrashes
  <2> DEFINE Seen == {p \in Worker \X (1..MaxCrashes) : p[2] <= crashGen[p[1]]}
             Own == {w} \X (1..MaxCrashes)
  <2> SUFFICES ASSUME crashGen[w] = MaxCrashes PROVE FALSE
    OBVIOUS
  <2>1. IsFiniteSet(Seen)
    <3>1. IsFiniteSet(Worker) /\ IsFiniteSet(1..MaxCrashes)
      BY FS_Interval DEF Worker, TablesAssumption, RingAssumption
    <3>2. IsFiniteSet(Worker \X (1..MaxCrashes))
      BY <3>1, FS_Product
    <3> QED
      BY <3>2, FS_Subset
  <2>2. Own \subseteq Seen
    BY DEF RingAssumption
  <2>3. Cardinality(Own) = MaxCrashes
    <3>1. IsFiniteSet({w}) /\ Cardinality({w}) = 1
      BY FS_Singleton
    <3>2. IsFiniteSet(1..MaxCrashes) /\ Cardinality(1..MaxCrashes) = MaxCrashes
      BY FS_Interval DEF RingAssumption
    <3>3. Cardinality(Own) = 1 * MaxCrashes
      BY <3>1, <3>2, FS_Product
    <3> QED
      BY <3>3 DEF RingAssumption
  <2>4. Cardinality(Own) <= Cardinality(Seen)
    BY <2>1, <2>2, FS_Subset
  <2>5. Cardinality(Seen) < MaxCrashes
    BY <1>1 DEF Crash, CrashDue, Crashes
  <2>6. Cardinality(Seen) \in Nat
    BY <2>1, FS_CardinalityType
  <2> HIDE DEF Seen, Own
  <2> QED
    BY <2>3, <2>4, <2>5, <2>6 DEF RingAssumption
<1>2. ASSUME NEW w \in Worker, Crash(w)
      PROVE  crashGen' \in [Worker -> 0..MaxCrashes]
  <2>1. crashGen[w] + 1 \in 0..MaxCrashes
    BY <1>1, <1>2 DEF RingAssumption
  <2>2. crashGen' = [crashGen EXCEPT ![w] = crashGen[w] + 1]
    BY <1>2 DEF Crash
  <2> QED
    BY <2>1, <2>2
<1>3. ASSUME NEW w \in Worker,
             \/ ComputeThread(w) \/ Restart(w) \/ Enqueue(w)
             \/ Welcome(w) \/ DispatchResult(w) \/ CompleteResult(w)
      PROVE  UNCHANGED crashGen
  BY <1>3 DEF ComputeThread, TakeWork, CheckpointStep, ResultStep, Abandon, Restart, Enqueue,
              Welcome, DispatchResult, CompleteResult, ringVars
<1> QED
  BY <1>2, <1>3, HandKinds

TypingInv ==
  /\ ExchangeInv
  /\ noTask \in [Worker -> BOOLEAN] /\ crashGen \in [Worker -> 0..MaxCrashes]

(* The workers' state and the messages keep their types, and the bounds on  *)
(* steps and crashes hold (state.py, compute.py).                           *)
THEOREM RingTyping == RingSpec => []RingTypeOK
<1>1. RingInit => TypingInv
  BY ExchangeInit DEF TypingInv, RingInit, RingAssumption
<1>2. TypingInv /\ [RingNext]_vars => TypingInv'
  BY ExchangeStep, NoTaskTyped, CrashesBounded DEF TypingInv, ExchangeInv
<1>3. TypingInv => RingTypeOK
  <2> SUFFICES ASSUME TypingInv PROVE RingTypeOK
    OBVIOUS
  <2>1. RingInv /\ AskTypes
    BY DEF TypingInv, ExchangeInv
  <2>2. queue \in [Worker -> Seq(Assignment)]
    <3>1. Grants \subseteq Assignment
      BY DEF Grants, Assignment
    <3>2. Seq(Grants) \subseteq Seq(Assignment)
      BY <3>1
    <3> QED
      BY <2>1, <3>2 DEF RingInv, QueueOK
  <2>3. store \in [Worker -> [Task -> Checkpoint \union {NoCkpt}]]
    <3>1. Kept \subseteq Checkpoint
      BY DEF Kept, Checkpoint, RingAssumption
    <3> QED
      BY <2>1, <3>1 DEF RingInv, StoreOK
  <2>4. \A w \in Worker : work[w] # Idle => work[w].step \in 1..Steps
    BY <2>1 DEF RingInv, WorkOK, Works
  <2>5. \A w \in Worker : reports[w] \subseteq [task : Task, epoch : Nat, value : Value]
    <3>1. Reports \subseteq [task : Task, epoch : Nat, value : Value]
      BY DEF Reports, RingAssumption
    <3> QED
      BY <2>1, <3>1 DEF RingInv, ReportsOK
  <2> QED
    BY <2>1, <2>2, <2>3, <2>4, <2>5
    DEF TypingInv, RingInv, FlagsOK, LatestOK, AskTypes, RingTypeOK
<1> QED
  BY <1>1, <1>2, <1>3, PTL DEF RingSpec
=============================================================================
