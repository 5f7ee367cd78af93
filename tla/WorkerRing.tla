----------------------------- MODULE WorkerRing -----------------------------
(***************************************************************************)
(* HW3 composed: the coordinator's tables and the ring of workers that     *)
(* compute the tasks, crash, restart and rejoin                            *)
(* (HW3/hw3/worker/state.py, network.py, compute.py, heartbeat.py).        *)
(*                                                                         *)
(* Threads of a worker.  Compute holds a Work object and goes through its  *)
(* steps; Control takes one coordinator message at a time, first reading   *)
(* (mode, generation) and then acting on what it read; the Peer thread     *)
(* takes CRASH and RESTART from the launcher and CKPT from the predecessor;*)
(* Compute and Heartbeat both ask for work.  Every send checks the state   *)
(* under send_gate, so the check and the write are one step.  So are        *)
(* Control's two: a CRASH between them ends the generation it read, and    *)
(* acting on the message then fails the generation check, which is Discard.*)
(*                                                                         *)
(* Channels.  What the coordinator sends to a worker is one FIFO channel.  *)
(* What a worker sends is taken by any of several dispatchers, so requests *)
(* of one worker may be handled in any order.  HB is handled by the        *)
(* listener and takes effect when sent: a late HB differs from an early one*)
(* only by gaps, which Silence leaves open.                                *)
(***************************************************************************)
EXTENDS CoordinatorTables

CONSTANTS
  Steps,         \* STEPS_PER_TASK
  MaxCrashes,    \* bound: CRASH commands in a run
  MaxDown,       \* the launcher keeps at most this many workers down
  AccurateFD,    \* TRUE: the heartbeats of a live worker are never late
  LongDowntime   \* TRUE: DOWNTIME_SECONDS outlasts the detection of a crash

(* What a worker has counted after n steps of a task. *)
FirstSteps(n) == [i \in 1..n |-> i]

ASSUME RingAssumption ==
  /\ Steps \in Nat \ {0} /\ FirstSteps(Steps) \in Value
  /\ MaxCrashes \in Nat /\ MaxDown \in Nat
  /\ AccurateFD \in BOOLEAN /\ LongDowntime \in BOOLEAN

VARIABLES
  mode,          \* RUNNING, CRASHED, REJOINING
  crashGen,
  queue,         \* assignments waiting for the compute thread
  store,         \* checkpoints kept for the predecessor, NoCkpt if none
  latest,        \* highest epoch accepted for a task, 0 if none
  requested,
  noTask,
  rejoinDue,
  work,          \* Work object in the hands of the compute thread, or Idle
  current,       \* state.current is that object
  reqs,          \* REQ messages not yet handled
  reports,       \* RESULT messages not yet handled
  rejoinSent,    \* a REJOIN message not yet handled
  toWorker,      \* coordinator to worker, FIFO
  toBuddy        \* CKPT messages to the successor, FIFO

stateVars == <<mode, crashGen, queue, store, latest, requested, noTask, rejoinDue>>
threadVars == <<work, current>>
sentVars == <<reqs, reports, rejoinSent>>
ringVars == <<stateVars, threadVars, sentVars, toWorker, toBuddy>>
vars == <<tablesVars, ringVars>>

Idle == [task |-> None]
NoCkpt == [epoch |-> 0]
Msg(kind) == [kind |-> kind]
Grant(kind, k, e, from) == [kind |-> kind, task |-> k, epoch |-> e, from |-> from]

Buddy(w) == (w % WorkerCount) + 1
Tell(w, m) == toWorker' = [toWorker EXCEPT ![w] = Append(@, m)]

(* The run just after every worker has handled START. *)
RingInit ==
  /\ phase = "RUNNING" /\ registered = Worker /\ ringOk = Worker
  /\ detectorEnabled = TRUE /\ finishing = FALSE /\ error = FALSE /\ verdict = None
  /\ wstate = [w \in Worker |-> "ALIVE"]
  /\ gap = [w \in Worker |-> 0] /\ rejoins = [w \in Worker |-> 0]
  /\ pending = [k \in Task |-> k] /\ tstate = [k \in Task |-> "PENDING"]
  /\ owner = [k \in Task |-> None] /\ epoch = [k \in Task |-> 0]
  /\ result = [k \in Task |-> None] /\ commitCount = [k \in Task |-> 0]
  /\ doneCount = 0
  /\ callOf = [w \in Worker |-> NoCall]
  /\ sources = {} /\ cursor = 1 /\ notices = <<>>
  /\ mode = [w \in Worker |-> "RUNNING"]
  /\ crashGen = [w \in Worker |-> 0]
  /\ queue = [w \in Worker |-> <<>>]
  /\ store = [w \in Worker |-> [k \in Task |-> NoCkpt]]
  /\ latest = [w \in Worker |-> [k \in Task |-> 0]]
  /\ requested = [w \in Worker |-> FALSE] /\ noTask = [w \in Worker |-> FALSE]
  /\ rejoinDue = [w \in Worker |-> FALSE]
  /\ work = [w \in Worker |-> Idle] /\ current = [w \in Worker |-> FALSE]
  /\ reqs = [w \in Worker |-> 0] /\ reports = [w \in Worker |-> {}]
  /\ rejoinSent = [w \in Worker |-> FALSE]
  /\ toWorker = [w \in Worker |-> <<>>]
  /\ toBuddy = [w \in Worker |-> <<>>]

-----------------------------------------------------------------------------
(* Compute thread *)

Active(w, g, k, e) == mode[w] = "RUNNING" /\ crashGen[w] = g /\ latest[w][k] = e
WorkActive(w) == Active(w, work[w].gen, work[w].task, work[w].epoch)
Valid(w) == current[w] /\ WorkActive(w)

(* A takeover resumes from a checkpoint of an earlier epoch. *)
Resumes(a, c) == a.from # None /\ c # NoCkpt /\ c.epoch < a.epoch

(* Mutant: the checkpointed step is computed again. *)
StepOfCkpt(c) == c.step

StepAfterCkpt(c) == c.step + 1

(* take_work() *)
TakeWork(w) ==
  /\ work[w] = Idle /\ mode[w] = "RUNNING" /\ queue[w] # <<>>
  /\ LET a == Head(queue[w])
         c == store[w][a.task]
     IN  work' = [work EXCEPT ![w] =
           [task |-> a.task, epoch |-> a.epoch, gen |-> crashGen[w],
            step |-> IF Resumes(a, c) THEN StepAfterCkpt(c) ELSE 1,
            partial |-> IF Resumes(a, c) THEN c.partial ELSE <<>>]]
  /\ queue' = [queue EXCEPT ![w] = Tail(@)]
  /\ current' = [current EXCEPT ![w] = TRUE]
  /\ UNCHANGED <<tablesVars, mode, crashGen, store, latest, requested, noTask, rejoinDue,
                 sentVars, toWorker, toBuddy>>

(* finish(): clears state.current only when it still is this work. *)
Finish(w) ==
  /\ work' = [work EXCEPT ![w] = Idle]
  /\ current' = [current EXCEPT ![w] = FALSE]

(* Mutant: a step too many. *)
MoreStepsThanDue(x) == x.step <= Steps

MoreSteps(x) == x.step < Steps

(* A step whose work is still valid after the delay, up to its CKPT.  The  *)
(* check of send_checkpoint() is the same, so the two are one; the write   *)
(* may fail with the buddy's connection, and the next step follows.        *)
CheckpointStep(w) ==
  LET x == work[w]
      counted == Append(x.partial, x.step)
  IN
  /\ x # Idle /\ Valid(w) /\ MoreSteps(x)
  /\ work' = [work EXCEPT ![w].step = @ + 1, ![w].partial = counted]
  /\ \/ toBuddy' = [toBuddy EXCEPT ![w] = Append(@,
            [task |-> x.task, epoch |-> x.epoch, step |-> x.step, partial |-> counted])]
     \/ UNCHANGED toBuddy
  /\ UNCHANGED <<tablesVars, stateVars, current, sentVars, toWorker>>

(* The last step, its RESULT, and finish(). *)
ResultStep(w) ==
  LET x == work[w] IN
  /\ x # Idle /\ Valid(w) /\ x.step = Steps
  /\ reports' = [reports EXCEPT ![w] = @ \union
       {[task |-> x.task, epoch |-> x.epoch, value |-> Append(x.partial, x.step)]}]
  /\ Finish(w)
  /\ UNCHANGED <<tablesVars, stateVars, reqs, rejoinSent, toWorker, toBuddy>>

(* The thread notices that its work was cancelled, however late. *)
Abandon(w) ==
  /\ work[w] # Idle /\ ~Valid(w)
  /\ Finish(w)
  /\ UNCHANGED <<tablesVars, stateVars, sentVars, toWorker, toBuddy>>

ComputeThread(w) ==
  TakeWork(w) \/ CheckpointStep(w) \/ ResultStep(w) \/ Abandon(w)

-----------------------------------------------------------------------------
(* Heartbeat thread *)

(* needs_request() and request_if_idle(), which Compute calls as well. *)
RequestIfIdle(w) ==
  /\ mode[w] = "RUNNING" /\ ~current[w] /\ queue[w] = <<>>
  /\ ~requested[w] /\ ~noTask[w]
  /\ requested' = [requested EXCEPT ![w] = TRUE]
  /\ reqs' = [reqs EXCEPT ![w] = @ + 1]
  /\ UNCHANGED <<tablesVars, mode, crashGen, queue, store, latest, noTask, rejoinDue,
                 threadVars, reports, rejoinSent, toWorker, toBuddy>>

SendHeartbeat(w) ==
  /\ mode[w] = "RUNNING"
  /\ Heartbeat(w)
  /\ UNCHANGED ringVars

SendRejoin(w) ==
  /\ mode[w] = "REJOINING" /\ rejoinDue[w]
  /\ rejoinDue' = [rejoinDue EXCEPT ![w] = FALSE]
  /\ rejoinSent' = [rejoinSent EXCEPT ![w] = TRUE]
  /\ UNCHANGED <<tablesVars, mode, crashGen, queue, store, latest, requested, noTask,
                 threadVars, reqs, reports, toWorker, toBuddy>>

-----------------------------------------------------------------------------
(* Peer thread *)

IsDown(w) == mode[w] \in {"CRASHED", "REJOINING"}
Crashes == Cardinality({p \in Worker \X (1..MaxCrashes) : p[2] <= crashGen[p[1]]})

CrashDue ==
  Crashes < MaxCrashes /\ Cardinality({v \in Worker : IsDown(v)}) < MaxDown

(* Mutant: a crash leaves the flag of an unanswered REQ. *)
RequestKept(w) == requested

RequestForgotten(w) == [requested EXCEPT ![w] = FALSE]

(* CRASH: everything but the sockets is lost, messages in flight are not.  *)
Crash(w) ==
  /\ mode[w] = "RUNNING" /\ CrashDue
  /\ mode' = [mode EXCEPT ![w] = "CRASHED"]
  /\ crashGen' = [crashGen EXCEPT ![w] = @ + 1]
  /\ queue' = [queue EXCEPT ![w] = <<>>]
  /\ store' = [store EXCEPT ![w] = [k \in Task |-> NoCkpt]]
  /\ latest' = [latest EXCEPT ![w] = [k \in Task |-> 0]]
  /\ current' = [current EXCEPT ![w] = FALSE]
  /\ requested' = RequestForgotten(w)
  /\ noTask' = [noTask EXCEPT ![w] = FALSE]
  /\ rejoinDue' = [rejoinDue EXCEPT ![w] = FALSE]
  /\ UNCHANGED <<tablesVars, work, sentVars, toWorker, toBuddy>>

Restart(w) ==
  /\ mode[w] = "CRASHED"
  /\ LongDowntime => wstate[w] = "DEAD"
  /\ mode' = [mode EXCEPT ![w] = "REJOINING"]
  /\ rejoinDue' = [rejoinDue EXCEPT ![w] = TRUE]
  /\ UNCHANGED <<tablesVars, crashGen, queue, store, latest, requested, noTask, threadVars,
                 sentVars, toWorker, toBuddy>>

Newer(c, old) == c.epoch > old.epoch \/ (c.epoch = old.epoch /\ c.step > old.step)

(* save_checkpoint() at the buddy of w. *)
SaveCheckpoint(w) ==
  LET b == Buddy(w)
      m == Head(toBuddy[w])
      old == store[b][m.task]
  IN
  /\ toBuddy[w] # <<>>
  /\ toBuddy' = [toBuddy EXCEPT ![w] = Tail(@)]
  /\ store' = IF mode[b] # "CRASHED" /\ (old = NoCkpt \/ Newer(m, old))
       THEN [store EXCEPT ![b][m.task] =
               [epoch |-> m.epoch, step |-> m.step, partial |-> m.partial]]
       ELSE store
  /\ UNCHANGED <<tablesVars, mode, crashGen, queue, latest, requested, noTask, rejoinDue,
                 threadVars, sentVars, toWorker>>

-----------------------------------------------------------------------------
(* Control thread *)

(* Control reads the next message of the given kinds and acts on it. *)
Taking(w, kinds) ==
  /\ toWorker[w] # <<>> /\ Head(toWorker[w]).kind \in kinds
  /\ toWorker' = [toWorker EXCEPT ![w] = Tail(@)]

(* A crashed worker discards what it reads. *)
Discard(w) ==
  /\ mode[w] = "CRASHED"
  /\ Taking(w, {"ASSIGN", "TAKEOVER", "NO_TASK", "WELCOME", "RETRY_LATER"})
  /\ UNCHANGED <<tablesVars, stateVars, threadVars, sentVars, toBuddy>>

(* The queue without task k, which waits in it at most once: every enqueue()*)
(* removes it first.                                                        *)
Others(q, k) ==
  LET at == {i \in 1..Len(q) : q[i].task = k} IN
  IF at = {} THEN q
  ELSE LET i == CHOOSE i \in at : TRUE
       IN  SubSeq(q, 1, i - 1) \o SubSeq(q, i + 1, Len(q))

(* Mutant: a worker that was told NO_TASK takes nothing any more. *)
AcceptsUnlessNoTask(w, m) == mode[w] = "RUNNING" /\ ~noTask[w]

(* A rejoining worker already accepts takeovers, not ASSIGN. *)
Accepts(w, m) == mode[w] = "RUNNING" \/ m.from # None

(* enqueue() *)
Enqueue(w) ==
  LET m == Head(toWorker[w])
      k == m.task
  IN
  /\ mode[w] # "CRASHED"
  /\ Taking(w, {"ASSIGN", "TAKEOVER"})
  /\ requested' = IF Accepts(w, m) /\ m.from = None
       THEN [requested EXCEPT ![w] = FALSE] ELSE requested
  /\ IF Accepts(w, m) /\ m.epoch > latest[w][k]
       THEN /\ latest' = [latest EXCEPT ![w][k] = m.epoch]
            /\ queue' = [queue EXCEPT ![w] = Append(Others(@, k),
                 [task |-> k, epoch |-> m.epoch, from |-> m.from])]
       ELSE UNCHANGED <<latest, queue>>
  /\ UNCHANGED <<tablesVars, mode, crashGen, store, noTask, rejoinDue, threadVars,
                 sentVars, toBuddy>>

MarkNoTask(w) ==
  /\ mode[w] # "CRASHED"
  /\ Taking(w, {"NO_TASK"})
  /\ IF mode[w] = "RUNNING"
       THEN /\ requested' = [requested EXCEPT ![w] = FALSE]
            /\ noTask' = [noTask EXCEPT ![w] = TRUE]
       ELSE UNCHANGED <<requested, noTask>>
  /\ UNCHANGED <<tablesVars, mode, crashGen, queue, store, latest, rejoinDue, threadVars,
                 sentVars, toBuddy>>

Welcome(w) ==
  /\ mode[w] # "CRASHED"
  /\ Taking(w, {"WELCOME"})
  /\ IF mode[w] = "REJOINING"
       THEN /\ mode' = [mode EXCEPT ![w] = "RUNNING"]
            /\ rejoinDue' = [rejoinDue EXCEPT ![w] = FALSE]
       ELSE UNCHANGED <<mode, rejoinDue>>
  /\ UNCHANGED <<tablesVars, crashGen, queue, store, latest, requested, noTask, threadVars,
                 sentVars, toBuddy>>

(* Mutant: the answer RETRY_LATER does not schedule another REJOIN. *)
RetryNever(w) ==
  /\ mode[w] # "CRASHED"
  /\ Taking(w, {"RETRY_LATER"})
  /\ UNCHANGED <<tablesVars, stateVars, threadVars, sentVars, toBuddy>>

RetryLater(w) ==
  /\ mode[w] # "CRASHED"
  /\ Taking(w, {"RETRY_LATER"})
  /\ rejoinDue' = IF mode[w] = "REJOINING" THEN [rejoinDue EXCEPT ![w] = TRUE] ELSE rejoinDue
  /\ UNCHANGED <<tablesVars, mode, crashGen, queue, store, latest, requested, noTask,
                 threadVars, sentVars, toBuddy>>

ControlThread(w) ==
  Discard(w) \/ Enqueue(w) \/ MarkNoTask(w) \/ Welcome(w) \/ RetryLater(w)

-----------------------------------------------------------------------------
(* Coordinator threads, with the messages they take and send *)

ReplyToReq(w) ==
  \/ Assign(w) /\ Tell(w, Grant("ASSIGN", Head(pending), 1, None))
  \/ Refuse(w) /\ Assignable(w) /\ Tell(w, Msg("NO_TASK"))
  \/ Refuse(w) /\ ~Assignable(w) /\ UNCHANGED toWorker

DispatchReq(w) ==
  /\ reqs[w] > 0
  /\ reqs' = [reqs EXCEPT ![w] = @ - 1]
  /\ ReplyToReq(w)
  /\ UNCHANGED <<stateVars, threadVars, reports, rejoinSent, toBuddy>>

DispatchResult(w) ==
  \E r \in reports[w] :
    /\ ResultRead(w, r.task, r.epoch, r.value)
    /\ reports' = [reports EXCEPT ![w] = @ \ {r}]
    /\ UNCHANGED <<stateVars, threadVars, reqs, rejoinSent, toWorker, toBuddy>>

(* ACK and REJECT_STALE change nothing at the worker. *)
CompleteResult(w) ==
  /\ ResultCommit(w) \/ ResultReject(w)
  /\ UNCHANGED ringVars

DispatchRejoin(w) ==
  /\ rejoinSent[w]
  /\ rejoinSent' = [rejoinSent EXCEPT ![w] = FALSE]
  /\ \/ Rejoin(w) /\ Tell(w, Msg("WELCOME"))
     \/ RejoinLater(w) /\ Tell(w, Msg("RETRY_LATER"))
  /\ UNCHANGED <<stateVars, threadVars, reqs, reports, toBuddy>>

DetectorRound == Detect /\ UNCHANGED ringVars
DetectorScan == (\E s, t \in Worker : ScanTask(s, t)) /\ UNCHANGED ringVars

DetectorNotice ==
  LET n == Head(notices) IN
  /\ SendNotice
  /\ Tell(n.to, Grant("TAKEOVER", n.task, n.epoch, n.from))
  /\ UNCHANGED <<stateVars, threadVars, sentVars, toBuddy>>

(* A worker is silent from its crash until it can act on WELCOME. *)
WelcomeComing(w) ==
  \E i \in 1..Len(toWorker[w]) : toWorker[w][i].kind = "WELCOME"
Mute(w) == IsDown(w) /\ ~WelcomeComing(w)

PeriodPasses(w) ==
  /\ AccurateFD => Mute(w)
  /\ Silence(w)
  /\ UNCHANGED ringVars

Finished == MainFinish /\ UNCHANGED ringVars

-----------------------------------------------------------------------------
(* The run ends when Main sets finishing. *)
RingNext ==
  /\ ~finishing
  /\ \/ \E w \in Worker :
          \/ TakeWork(w) \/ CheckpointStep(w) \/ ResultStep(w) \/ Abandon(w)
          \/ RequestIfIdle(w) \/ SendHeartbeat(w) \/ SendRejoin(w)
          \/ Crash(w) \/ Restart(w) \/ SaveCheckpoint(w)
          \/ Discard(w)
          \/ Enqueue(w) \/ MarkNoTask(w) \/ Welcome(w) \/ RetryLater(w)
          \/ DispatchReq(w) \/ DispatchResult(w) \/ CompleteResult(w) \/ DispatchRejoin(w)
          \/ PeriodPasses(w)
     \/ DetectorRound \/ DetectorScan \/ DetectorNotice
     \/ Finished

RingSpec == RingInit /\ [][RingNext]_vars

(* Every thread that can take a step takes one; time passes for a crashed  *)
(* worker; the launcher restarts what it crashed.  Crashes, heartbeats and *)
(* the silence of a live worker are not promised.                          *)
Fairness ==
  /\ \A w \in Worker :
       /\ WF_vars(ComputeThread(w)) /\ WF_vars(ControlThread(w))
       /\ WF_vars(RequestIfIdle(w)) /\ WF_vars(SendRejoin(w))
       /\ WF_vars(Restart(w)) /\ WF_vars(SaveCheckpoint(w))
       /\ WF_vars(DispatchReq(w)) /\ WF_vars(DispatchResult(w))
       /\ WF_vars(CompleteResult(w)) /\ WF_vars(DispatchRejoin(w))
       /\ WF_vars(Mute(w) /\ PeriodPasses(w))
  /\ WF_vars(Finished)
  /\ WF_vars(DetectorRound) /\ WF_vars(DetectorScan) /\ WF_vars(DetectorNotice)

FairRingSpec == RingSpec /\ Fairness

-----------------------------------------------------------------------------
(* Properties *)

Assignment == [task : Task, epoch : Nat, from : Worker \union {None}]
Checkpoint == [epoch : Nat, step : 1..Steps, partial : Seq(Nat)]

(* Type invariant of the workers and of the channels. *)
RingTypeOK ==
  /\ mode \in [Worker -> {"RUNNING", "CRASHED", "REJOINING"}]
  /\ crashGen \in [Worker -> 0..MaxCrashes]
  /\ queue \in [Worker -> Seq(Assignment)]
  /\ store \in [Worker -> [Task -> Checkpoint \union {NoCkpt}]]
  /\ latest \in [Worker -> [Task -> Nat]]
  /\ requested \in [Worker -> BOOLEAN] /\ noTask \in [Worker -> BOOLEAN]
  /\ rejoinDue \in [Worker -> BOOLEAN] /\ rejoinSent \in [Worker -> BOOLEAN]
  /\ current \in [Worker -> BOOLEAN]
  /\ \A w \in Worker : work[w] # Idle => work[w].step \in 1..Steps
  /\ reqs \in [Worker -> Nat]
  /\ \A w \in Worker : reports[w] \subseteq [task : Task, epoch : Nat, value : Value]

(* The worker can still deliver task k under epoch e: the grant or the      *)
(* takeover is on its way or queued, the work is valid, or its RESULT is    *)
(* under way to the task table.                                             *)
CanDeliver(w, k, e) ==
  \/ \E i \in 1..Len(notices) : notices[i].to = w /\ notices[i].task = k
  \/ \E i \in 1..Len(toWorker[w]) :
       toWorker[w][i] \in {Grant("ASSIGN", k, e, None)}
                            \union {Grant("TAKEOVER", k, e, v) : v \in Worker}
  \/ \E i \in 1..Len(queue[w]) : queue[w][i].task = k /\ queue[w][i].epoch = e
  \/ work[w] # Idle /\ Valid(w) /\ work[w].task = k /\ work[w].epoch = e
  \/ \E r \in reports[w] : r.task = k /\ r.epoch = e
  \/ callOf[w] # NoCall /\ callOf[w].task = k /\ callOf[w].epoch = e /\ ~callOf[w].dead

(* No task is lost: an assigned task can be delivered by its owner, or the  *)
(* owner is silent, so the detector will take the task from it.  The hazards*)
(* are an ASSIGN or a TAKEOVER that reaches a crashed or rejoining worker,  *)
(* a REJOIN granted before the dead worker's tasks were moved, and a RESULT *)
(* handled while its task is taken over.                                    *)
NoOrphan ==
  AccurateFD =>
    \A k \in Task : tstate[k] = "ASSIGNED" =>
      Mute(owner[k]) \/ CanDeliver(owner[k], k, epoch[k])

(* A worker that waits for an answer to REQ gets one, so it cannot starve   *)
(* with requested set: after a crash neither an answer dropped while it was *)
(* down nor a REQ of its former life may leave the flag behind.             *)
RequestAnswered ==
  AccurateFD =>
    \A w \in Worker : mode[w] = "RUNNING" /\ requested[w] =>
      \/ reqs[w] > 0
      \/ \E i \in 1..Len(toWorker[w]) : toWorker[w][i].kind \in {"ASSIGN", "NO_TASK"}

(* A rejoining worker is never forgotten: its next REJOIN is due, or one is *)
(* under way, or the answer to it is; RETRY_LATER must not end the attempt. *)
RejoinPending ==
  \A w \in Worker : mode[w] = "REJOINING" =>
    \/ rejoinDue[w] \/ rejoinSent[w]
    \/ \E i \in 1..Len(toWorker[w]) : toWorker[w][i].kind \in {"WELCOME", "RETRY_LATER"}

(* The coordinator never holds a running worker for dead: HB and REQ of such*)
(* a worker would be ignored for ever.                                      *)
NoZombie ==
  AccurateFD => \A w \in Worker : mode[w] = "RUNNING" => wstate[w] # "DEAD"

(* Whatever was lost or resumed, each step of a task is counted exactly     *)
(* once: a partial count always stands for the steps before the next one,   *)
(* in the compute thread, in the buddy's store and in the committed result. *)
CountsExact ==
  /\ \A w \in Worker : work[w] # Idle => work[w].partial = FirstSteps(work[w].step - 1)
  /\ \A w \in Worker, k \in Task :
       store[w][k] # NoCkpt => store[w][k].partial = FirstSteps(store[w][k].step)
  /\ \A w \in Worker : \A r \in reports[w] : r.value = FirstSteps(Steps)
  /\ \A k \in Task : tstate[k] = "DONE" => result[k] = FirstSteps(Steps)

(* The job ends: every task is committed and Main sets finishing, although  *)
(* workers crash at any point and messages to them are lost.                *)
JobEnds == <>finishing
=============================================================================
