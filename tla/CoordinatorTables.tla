-------------------------- MODULE CoordinatorTables --------------------------
(***************************************************************************)
(* HW3 coordinator: the tables object and the threads that call it         *)
(* (HW3/hw3/coordinator/tables.py, dispatcher.py, detector.py, __main__.py)*)
(*                                                                         *)
(* Threads and locks.  A dispatcher handles one request of worker w while  *)
(* it holds w's send lock; RESULT is the only request whose handler is not *)
(* atomic: it reads the worker under tables.lock, releases that lock, and  *)
(* decides under the task's lock (callOf[w] is the handler between the two *)
(* steps).  The failure detector holds tables.lock for a whole scan        *)
(* (sources # {}), visits the tasks one at a time under their own locks,   *)
(* and sends the takeover notices after it has released tables.lock.       *)
(*                                                                         *)
(* Time.  Only now - last_hb matters: gap[w] counts silent detector        *)
(* periods and stops at DeadAfter.                                         *)
(***************************************************************************)
EXTENDS Integers, Sequences, FiniteSets

CONSTANTS
  WorkerCount,    \* WORKER_COUNT
  TaskCount,      \* TASK_COUNT
  Dispatchers,    \* DISPATCHER_COUNT
  SuspectAfter,   \* SUSPECT_TIMEOUT_SECONDS, in detector periods
  DeadAfter,      \* DEAD_TIMEOUT_SECONDS, in detector periods
  Value,          \* results a worker may report
  None,
  MaxRejoins      \* bound: rejoins granted in a run

ASSUME TablesAssumption ==
  /\ WorkerCount \in Nat \ {0}
  /\ TaskCount \in Nat \ {0}
  /\ Dispatchers \in Nat \ {0}
  /\ SuspectAfter \in Nat \ {0}
  /\ DeadAfter \in Nat \ {0} /\ SuspectAfter <= DeadAfter
  /\ MaxRejoins \in Nat
  /\ None \notin Value /\ None \notin 1..WorkerCount /\ None \notin {"PASS", "FAIL"}

Worker == 1..WorkerCount
Task == 1..TaskCount

VARIABLES
  phase,            \* REGISTERING, RING, RUNNING
  registered,       \* workers whose channel is set
  ringOk,           \* workers whose RING_OK arrived
  detectorEnabled,
  finishing,
  error,            \* app.error is set
  verdict,          \* outcome of verify(): None, "PASS" or "FAIL"
  wstate,           \* ALIVE, SUSPECT, DEAD
  gap,
  rejoins,          \* rejoin_count
  pending,          \* the deque of tasks never assigned
  tstate,           \* PENDING, ASSIGNED, DONE
  owner,
  epoch,
  result,
  commitCount,
  doneCount,
  callOf,           \* RESULT handler of w between its two steps, or NoCall
  sources,          \* dead workers the detector has still to scan
  cursor,           \* next task of the scan
  notices           \* TAKEOVER messages decided and not yet sent

tablesVars == <<phase, registered, ringOk, detectorEnabled, finishing, error,
                verdict, wstate, gap, rejoins, pending, tstate, owner, epoch,
                result, commitCount, doneCount, callOf, sources, cursor,
                notices>>

startVars == <<phase, registered, ringOk>>
mainVars == <<detectorEnabled, finishing, error, verdict>>
workerVars == <<wstate, gap, rejoins>>
taskVars == <<pending, tstate, owner, epoch, result, commitCount, doneCount>>
scanVars == <<sources, cursor, notices>>

NoCall == [task |-> None]
Call == [task : Task, epoch : Nat, value : Value, dead : BOOLEAN]
Notice == [to : Worker, task : Task, epoch : Nat, from : Worker]

TablesInit ==
  /\ phase = "REGISTERING"
  /\ registered = {} /\ ringOk = {}
  /\ detectorEnabled = FALSE /\ finishing = FALSE /\ error = FALSE
  /\ verdict = None
  /\ wstate = [w \in Worker |-> "ALIVE"]
  /\ gap = [w \in Worker |-> 0]
  /\ rejoins = [w \in Worker |-> 0]
  /\ pending = [k \in Task |-> k]
  /\ tstate = [k \in Task |-> "PENDING"]
  /\ owner = [k \in Task |-> None]
  /\ epoch = [k \in Task |-> 0]
  /\ result = [k \in Task |-> None]
  /\ commitCount = [k \in Task |-> 0]
  /\ doneCount = 0
  /\ callOf = [w \in Worker |-> NoCall]
  /\ sources = {} /\ cursor = 1 /\ notices = <<>>

-----------------------------------------------------------------------------
(* Locks *)

TablesLockFree == sources = {}
SendLockFree(w) == callOf[w] = NoCall
BusyDispatchers == Cardinality({w \in Worker : callOf[w] # NoCall})

(* Mutant: a dispatcher does not take the send lock of the worker. *)
CanHandleUnlocked(w) ==
  /\ ~finishing
  /\ w \in registered
  /\ TablesLockFree
  /\ BusyDispatchers < Dispatchers

(* A dispatcher can start on a request of w: it found finishing clear, the *)
(* sender is registered, and it takes w's send lock and tables.lock.       *)
CanHandle(w) ==
  /\ ~finishing
  /\ w \in registered
  /\ SendLockFree(w) /\ TablesLockFree
  /\ BusyDispatchers < Dispatchers

-----------------------------------------------------------------------------
(* Start-up barrier *)

Hello(w) ==
  /\ ~finishing /\ TablesLockFree
  /\ BusyDispatchers < Dispatchers
  /\ phase = "REGISTERING" /\ w \notin registered
  /\ registered' = registered \union {w}
  /\ UNCHANGED <<phase, ringOk, mainVars, workerVars, taskVars, callOf, scanVars>>

(* Main wakes up when every channel is set. *)
MainRing ==
  /\ phase = "REGISTERING" /\ registered = Worker /\ ~error
  /\ phase' = "RING"
  /\ UNCHANGED <<registered, ringOk, mainVars, workerVars, taskVars, callOf, scanVars>>

RingOk(w) ==
  /\ CanHandle(w)
  /\ phase = "RING"
  /\ ringOk' = ringOk \union {w}
  /\ UNCHANGED <<phase, registered, mainVars, workerVars, taskVars, callOf, scanVars>>

(* begin(): raises, so never takes effect, before every RING_OK. *)
Begin ==
  /\ phase = "RING" /\ ringOk = Worker /\ ~error
  /\ phase' = "RUNNING"
  /\ gap' = [w \in Worker |-> 0]
  /\ UNCHANGED <<registered, ringOk, mainVars, wstate, rejoins, taskVars, callOf, scanVars>>

(* After START has been sent to every worker. *)
EnableDetector ==
  /\ phase = "RUNNING" /\ ~detectorEnabled /\ ~finishing
  /\ detectorEnabled' = TRUE
  /\ UNCHANGED <<startVars, finishing, error, verdict, workerVars, taskVars, callOf, scanVars>>

-----------------------------------------------------------------------------
(* Worker requests *)

(* One more detector period passes without a heartbeat of w. *)
Silence(w) ==
  /\ ~finishing
  /\ phase = "RUNNING" /\ wstate[w] # "DEAD" /\ gap[w] < DeadAfter
  /\ gap' = [gap EXCEPT ![w] = @ + 1]
  /\ UNCHANGED <<startVars, mainVars, wstate, rejoins, taskVars, callOf, scanVars>>

(* The listener handles HB itself, without the send lock. *)
Heartbeat(w) ==
  /\ TablesLockFree /\ ~finishing /\ w \in registered
  /\ phase = "RUNNING" /\ wstate[w] # "DEAD"
  /\ gap' = [gap EXCEPT ![w] = 0]
  /\ wstate' = [wstate EXCEPT ![w] = "ALIVE"]
  /\ UNCHANGED <<startVars, mainVars, rejoins, taskVars, callOf, scanVars>>

Assignable(w) == phase = "RUNNING" /\ wstate[w] # "DEAD"

AfterPop == Tail(pending)

(* request() with a task to give: the reply is ASSIGN of Head(pending). *)
Assign(w) ==
  /\ CanHandle(w)
  /\ Assignable(w) /\ pending # <<>>
  /\ LET k == Head(pending) IN
       /\ tstate' = [tstate EXCEPT ![k] = "ASSIGNED"]
       /\ owner' = [owner EXCEPT ![k] = w]
       /\ epoch' = [epoch EXCEPT ![k] = 1]
  /\ pending' = AfterPop
  /\ UNCHANGED <<startVars, mainVars, workerVars, result, commitCount, doneCount,
                 callOf, scanVars>>

(* request() with nothing to give: NO_TASK, or no reply to a dead worker.  *)
Refuse(w) ==
  /\ CanHandle(w)
  /\ ~Assignable(w) \/ pending = <<>>
  /\ UNCHANGED tablesVars

(* result(), first half: the worker is read under tables.lock.             *)
ResultRead(w, k, e, v) ==
  /\ CanHandle(w)
  /\ callOf' = [callOf EXCEPT ![w] =
       [task |-> k, epoch |-> e, value |-> v, dead |-> wstate[w] = "DEAD"]]
  /\ UNCHANGED <<startVars, mainVars, workerVars, taskVars, scanVars>>

(* Mutant: a task already done can be committed again. *)
StaleUnlessDone(w, c) == c.dead \/ epoch[c.task] # c.epoch \/ owner[c.task] # w

Stale(w, c) ==
  \/ c.dead
  \/ tstate[c.task] = "DONE"
  \/ epoch[c.task] # c.epoch
  \/ owner[c.task] # w

(* result(), second half, under the task's lock. *)
ResultCommit(w) ==
  LET c == callOf[w] IN
  /\ c # NoCall
  /\ ~Stale(w, c)
  /\ tstate' = [tstate EXCEPT ![c.task] = "DONE"]
  /\ result' = [result EXCEPT ![c.task] = c.value]
  /\ commitCount' = [commitCount EXCEPT ![c.task] = @ + 1]
  /\ doneCount' = doneCount + 1
  /\ callOf' = [callOf EXCEPT ![w] = NoCall]
  /\ UNCHANGED <<startVars, mainVars, workerVars, pending, owner, epoch, scanVars>>

ResultReject(w) ==
  LET c == callOf[w] IN
  /\ c # NoCall
  /\ Stale(w, c)
  /\ callOf' = [callOf EXCEPT ![w] = NoCall]
  /\ UNCHANGED <<startVars, mainVars, workerVars, taskVars, scanVars>>

RejoinsGranted == Cardinality({p \in Worker \X (1..MaxRejoins) : p[2] <= rejoins[p[1]]})

(* Mutant: a worker is welcomed before the detector has moved its tasks. *)
RejoinableAnyState(w) == phase = "RUNNING"

Rejoinable(w) == phase = "RUNNING" /\ wstate[w] = "DEAD"

(* Mutant: last_hb is not refreshed. *)
RejoinKeepsGap(w) ==
  /\ CanHandle(w) /\ Rejoinable(w) /\ RejoinsGranted < MaxRejoins
  /\ wstate' = [wstate EXCEPT ![w] = "ALIVE"]
  /\ rejoins' = [rejoins EXCEPT ![w] = @ + 1]
  /\ UNCHANGED <<startVars, mainVars, gap, taskVars, callOf, scanVars>>

(* rejoin() of a worker the detector has declared dead: WELCOME. *)
Rejoin(w) ==
  /\ CanHandle(w) /\ Rejoinable(w)
  /\ RejoinsGranted < MaxRejoins
  /\ wstate' = [wstate EXCEPT ![w] = "ALIVE"]
  /\ gap' = [gap EXCEPT ![w] = 0]
  /\ rejoins' = [rejoins EXCEPT ![w] = @ + 1]
  /\ UNCHANGED <<startVars, mainVars, taskVars, callOf, scanVars>>

(* rejoin() of any other worker: RETRY_LATER. *)
RejoinLater(w) ==
  /\ CanHandle(w)
  /\ ~Rejoinable(w)
  /\ UNCHANGED tablesVars

-----------------------------------------------------------------------------
(* Failure detector *)

Overdue == {w \in Worker : wstate[w] # "DEAD" /\ gap[w] >= DeadAfter}
Late == {w \in Worker : wstate[w] = "ALIVE" /\ gap[w] >= SuspectAfter} \ Overdue

Judged == [w \in Worker |-> IF w \in Overdue THEN "DEAD"
                            ELSE IF w \in Late THEN "SUSPECT" ELSE wstate[w]]

(* Distance from s to w along the ring of workers. *)
RingDistance(s, w) == (w - s + WorkerCount) % WorkerCount

InState(st) == {w \in Worker : wstate[w] = st}

(* t is next_alive(s): the next ALIVE worker, failing that SUSPECT, after s *)
IsNextAlive(s, t) ==
  LET others == InState("ALIVE") \ {s}
      usable == IF others # {} THEN others ELSE InState("SUSPECT") \ {s}
  IN  /\ t \in usable
      /\ \A u \in usable : RingDistance(s, t) <= RingDistance(s, u)

(* Mutant: a round starts while notices of the last one are still unsent. *)
RoundOverlaps == TablesLockFree

(* The thread sends every notice of a round before it starts the next one. *)
RoundMayStart == TablesLockFree /\ notices = <<>>

(* detect() up to the scan, with tables.lock held from here on.  All overdue*)
(* workers are marked before any target is chosen.  A round already past its wait runs even    *)
(* when finishing has been set, until Main disarms the detector.            *)
Detect ==
  /\ detectorEnabled /\ phase = "RUNNING"
  /\ RoundMayStart
  /\ Overdue # {} \/ Late # {}
  /\ wstate' = Judged
  /\ IF Overdue # {} /\ \A w \in Worker : Judged[w] = "DEAD"
       THEN /\ error' = TRUE /\ finishing' = TRUE   \* next_alive raises
            /\ UNCHANGED sources
       ELSE /\ sources' = Overdue
            /\ UNCHANGED <<error, finishing>>
  /\ UNCHANGED <<startVars, detectorEnabled, verdict, gap, rejoins, taskVars, callOf,
                 cursor, notices>>

(* Mutants: the scan stops one task early, or one task late. *)
ScanStopsEarly == cursor >= TaskCount - 1
ScanStopsLate == cursor > TaskCount

LastOfScan == cursor = TaskCount

(* Mutant: a takeover keeps the epoch of the dead owner. *)
SameEpoch(k) == epoch[k]

NextEpoch(k) == epoch[k] + 1

(* Mutant: a task whose RESULT is being handled is left to that handler. *)
OwnsUnlessBusy(s, k) ==
  tstate[k] = "ASSIGNED" /\ owner[k] = s /\ (callOf[s] = NoCall \/ callOf[s].task # k)

Owns(s, k) == tstate[k] = "ASSIGNED" /\ owner[k] = s

TakeOver(s, k, t) ==
  /\ epoch' = [epoch EXCEPT ![k] = NextEpoch(k)]
  /\ owner' = [owner EXCEPT ![k] = t]
  /\ notices' = Append(notices, [to |-> t, task |-> k, epoch |-> NextEpoch(k), from |-> s])

(* The scan visits one task for the dead worker s, under the task's lock.  *)
ScanTask(s, t) ==
  /\ s \in sources /\ \A u \in sources : s <= u
  /\ IsNextAlive(s, t)
  /\ IF Owns(s, cursor) THEN TakeOver(s, cursor, t) ELSE UNCHANGED <<epoch, owner, notices>>
  /\ IF LastOfScan
       THEN cursor' = 1 /\ sources' = sources \ {s}
       ELSE cursor' = cursor + 1 /\ UNCHANGED sources
  /\ UNCHANGED <<startVars, mainVars, workerVars, pending, tstate, result, commitCount,
                 doneCount, callOf>>

(* The detector sends the next notice (dropped once finishing is set). *)
SendNotice ==
  /\ TablesLockFree /\ notices # <<>>
  /\ SendLockFree(Head(notices).to)
  /\ notices' = Tail(notices)
  /\ UNCHANGED <<startVars, mainVars, workerVars, taskVars, callOf, sources, cursor>>

-----------------------------------------------------------------------------
(* Main thread *)

(* fail(): a socket error or the EOF of a registered worker. *)
Fail ==
  /\ ~finishing
  /\ error' = TRUE /\ finishing' = TRUE
  /\ UNCHANGED <<startVars, detectorEnabled, verdict, workerVars, taskVars, callOf, scanVars>>

AllDone == doneCount = TaskCount

(* The last commit wakes Main. *)
MainFinish ==
  /\ detectorEnabled /\ ~finishing
  /\ AllDone
  /\ finishing' = TRUE
  /\ UNCHANGED <<startVars, detectorEnabled, error, verdict, workerVars, taskVars, callOf,
                 scanVars>>

MainDisarm ==
  /\ finishing /\ detectorEnabled /\ TablesLockFree
  /\ detectorEnabled' = FALSE
  /\ UNCHANGED <<startVars, finishing, error, verdict, workerVars, taskVars, callOf, scanVars>>

(* verify(): every task DONE and committed once. *)
MainVerify ==
  /\ phase = "RUNNING" /\ finishing /\ ~detectorEnabled
  /\ ~error /\ verdict = None
  /\ verdict' = IF \A k \in Task : tstate[k] = "DONE" /\ commitCount[k] = 1
                  THEN "PASS" ELSE "FAIL"
  /\ UNCHANGED <<startVars, detectorEnabled, finishing, error, workerVars, taskVars,
                 callOf, scanVars>>

-----------------------------------------------------------------------------
(* A worker names a task it was once given and one of the epochs issued.   *)
WorkerStep(w) ==
  \/ Hello(w) \/ RingOk(w) \/ Silence(w) \/ Heartbeat(w)
  \/ Assign(w) \/ Refuse(w) \/ Rejoin(w) \/ RejoinLater(w)
  \/ \E k \in Task, v \in Value : \E e \in 1..epoch[k] : ResultRead(w, k, e, v)
  \/ ResultCommit(w) \/ ResultReject(w)

DetectorStep == Detect \/ (\E s, t \in Worker : ScanTask(s, t)) \/ SendNotice

MainStep ==
  MainRing \/ Begin \/ EnableDetector \/ MainFinish \/ MainDisarm \/ MainVerify

TablesNext == (\E w \in Worker : WorkerStep(w)) \/ DetectorStep \/ MainStep \/ Fail

TablesSpec == TablesInit /\ [][TablesNext]_tablesVars

-----------------------------------------------------------------------------
(* Properties *)

(* Type invariant of the tables object and of the threads' local state.    *)
TypeOK ==
  /\ phase \in {"REGISTERING", "RING", "RUNNING"}
  /\ registered \subseteq Worker /\ ringOk \subseteq Worker
  /\ detectorEnabled \in BOOLEAN /\ finishing \in BOOLEAN /\ error \in BOOLEAN
  /\ verdict \in {None, "PASS", "FAIL"}
  /\ wstate \in [Worker -> {"ALIVE", "SUSPECT", "DEAD"}]
  /\ gap \in [Worker -> 0..DeadAfter]
  /\ rejoins \in [Worker -> Nat]
  /\ pending \in Seq(Task)
  /\ tstate \in [Task -> {"PENDING", "ASSIGNED", "DONE"}]
  /\ owner \in [Task -> Worker \union {None}]
  /\ epoch \in [Task -> Nat]
  /\ result \in [Task -> Value \union {None}]
  /\ commitCount \in [Task -> Nat]
  /\ doneCount \in Nat
  /\ callOf \in [Worker -> Call \union {NoCall}]
  /\ sources \subseteq Worker
  /\ cursor \in Task
  /\ notices \in Seq(Notice)

(* No takeover is forgotten: whenever tables.lock is free, a task in work   *)
(* belongs to a worker the detector still watches.  A REQ or a REJOIN that  *)
(* slips between two detector rounds, or a RESULT between two tasks of a    *)
(* scan, must not leave a task with a dead owner.  (With every worker dead  *)
(* next_alive has raised and the run has failed.)                           *)
DeadOwnsNothing ==
  TablesLockFree /\ (\E w \in Worker : wstate[w] # "DEAD") =>
    \A k \in Task : tstate[k] = "ASSIGNED" => wstate[owner[k]] # "DEAD"

(* The counter Main waits for is exact: every DONE task was committed once  *)
(* and counted once, however RESULT handlers and scans interleave.          *)
CommitsExact ==
  /\ \A k \in Task : commitCount[k] = IF tstate[k] = "DONE" THEN 1 ELSE 0
  /\ doneCount = Cardinality({k \in Task : tstate[k] = "DONE"})

(* The deque holds exactly the tasks never assigned, each once and in       *)
(* order, so an answer NO_TASK stays true for the rest of the run.          *)
PendingExact ==
  /\ \A i \in 1..Len(pending) : pending[i] = TaskCount - Len(pending) + i
  /\ \A k \in Task : tstate[k] = "PENDING" <=> k > TaskCount - Len(pending)

(* A TAKEOVER notice is still true when it leaves: the detector sends the   *)
(* notices of a round before the next round can move a task again, so its   *)
(* target is not dead and holds the task under the epoch announced.         *)
NoticeCurrent ==
  \A i \in 1..Len(notices) :
    /\ wstate[notices[i].to] # "DEAD"
    /\ owner[notices[i].task] = notices[i].to
    /\ epoch[notices[i].task] = notices[i].epoch

(* The dead flag a RESULT handler has read can only be stale in the safe    *)
(* direction: a result is never rejected as DEAD after its sender has been  *)
(* welcomed back, because REJOIN needs the send lock the handler holds.     *)
DeadReadStable ==
  \A w \in Worker : callOf[w] # NoCall /\ callOf[w].dead => wstate[w] = "DEAD"

(* The summary Main logs at the end of a run without error is a PASS.       *)
VerifyPasses == verdict # "FAIL"

(* The handler of w commits k in this step. *)
Commits(w, k) ==
  /\ callOf[w] # NoCall /\ callOf[w].task = k /\ callOf'[w] = NoCall
  /\ tstate[k] # "DONE" /\ tstate'[k] = "DONE"

(* The detector is in a scan and has not visited k for w yet. *)
ScanAhead(w, k) == w \in sources /\ ((\A u \in sources : w <= u) => cursor <= k)

CommitBeforeScan ==
  (\E u \in Worker : wstate[u] # "DEAD") =>
    \A w \in Worker, k \in Task :
      Commits(w, k) /\ wstate[w] = "DEAD" => ScanAhead(w, k)

(* A RESULT that was under way when its sender was declared dead counts only*)
(* while the scan of that round has still to reach the task: a commit then  *)
(* takes the task out of the takeovers, and once a task was handed over, or *)
(* DEAD_SCAN was logged, no RESULT of the dead worker is committed any more.*)
(* The flag the handler read says ALIVE, so this rests on the scan visiting *)
(* every task of every dead worker before tables.lock is free again.  (With *)
(* every worker dead next_alive has raised, and there is no scan.)          *)
NoCommitAfterScan == [][CommitBeforeScan]_tablesVars

Ledger == INSTANCE TaskLedger WITH holder <- owner, grant <- epoch, outcome <- result

(* Whatever its threads do, the tables object is a TaskLedger: grants of a  *)
(* task are numbered without gaps and a committed task never changes again. *)
ImplementsLedger == Ledger!LedgerSpec
=============================================================================
