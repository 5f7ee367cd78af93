# Verification of the Data Communication homeworks

This directory is a TLA+ development kept beside the four programs of this
repository. It states what the programs' concurrent cores promise, checks it
with TLC on small instances, and proves the central results with TLAPS for every
size of the system.

## 1. Inventory

The repository holds four independent programs.

| program | what it is | shared state and actors | hard parts |
|---|---|---|---|
| HW1 (Python) | a master hands tasks to four workers, which hand tasks to each other over P2P connections | master's inbox, each worker's ready queue of ten slots, transfer records on both sides | lost ACKs, status queries, slots reserved for transfers in progress |
| HW2 (Java) | a seat-booking server: listener, bounded request queue, worker threads, notifier, monitor | one lock per seat, FIFO waitlists, the queue, the connections | lock order of MULTI, hand-over on CANCEL against new requests, notice and response order, shutdown |
| HW3 (Python) | a coordinator and a ring of workers that survive crashes injected by a launcher | task table, worker states, dispatchers, failure detector; worker state with five threads; checkpoints at the ring neighbour | everything below |
| HW4 (Python) | "ASCII Evolution", three cellular automata in turn: an assigner drives rounds, workers compute bands from halos | the round barrier, halos, snapshots | everyone waits for everyone, failure of one, a halo of the wrong round |

Components, their state, operations and what makes them correct:

* **HW3 tables** (`coordinator/tables.py`): task table, worker table, phase, deque
  of tasks never assigned. Operations `hello`, `ring_ok`, `begin`, `heartbeat`,
  `request`, `result`, `rejoin`, `detect`, `verify`, called by six dispatchers, the
  listener, the detector and Main under `tables.lock`, one lock per task and one send
  lock per worker. Correct when no task is forgotten by a takeover, every task is
  committed exactly once and only by its current owner, and the run verifies.
* **HW3 worker** (`worker/state.py`, `network.py`, `compute.py`, `heartbeat.py`):
  mode, generation, queue, checkpoint store, `latest`, request flags, the work in the
  hands of the compute thread. Correct when whatever a crash swallows is made up for:
  no orphaned task, no worker that waits for ever, each step counted once.
* **HW3 launcher** (`launcher/chaos.py`, `__main__.py`): per worker RUNNING, CRASHED,
  REJOINING or EXITED, the next crash, `blocked`, the cutoff. Correct when at most two
  workers are down, every crash is followed by a restart and the schedule resumes.
* **HW3 life cycle** (`coordinator/__main__.py`, `listener.py`, `network.py`):
  HELLO, RING, RING_OK, START, READY; `fail`; BYE and the joins of `close`.
* **HW2 seat manager** (`SeatManager.java`): owner and waitlist of every seat.
  Correct when a seat has one owner, a hand-over goes to the head of the waitlist,
  MULTI is all or nothing and never deadlocks.
* **HW2 server** (`Server`, `Listener`, `BoundedRequestQueue`, `Worker`, `Notifier`,
  `Monitor`): queue, flags, outgoing notices. Correct when every accepted request is
  answered once and shutdown ends.
* **HW4 assigner and workers** (`barrier.py`, `board.py`, ...): round, halos, results,
  failure flag. Correct when the snapshots are the boards of the reference computation,
  complete and in order, the error that is reported names who failed, and an error wakes
  everybody.
* **HW1 master, worker, P2P** (`master.py`, `worker.py`, `p2p.py`): task states, ready
  queues, transfer records. Correct when a task has one owner through a transfer whose
  acknowledgement is lost, no task is lost, the queues keep their bound and the run ends.

The hazards of the code, each at its line, are the `hazards` of `PROJECT.json`.

## 2. Plan

1. `TaskLedger` and `CoordinatorTables` (done).
2. `WorkerRing`, which composes the tables with the workers, and `WorkerRing_proofs`
   about both (done).
3. `SeatBooking` (abstract), `SeatManager` (locks) and `SeatManager_proofs`, then
   `BookingServer` and `BookingServer_proofs` (done).
4. `LifeBoard`, `LifeReference` (abstract), `LifeBarrier` and their proofs (done).
5. `TaskTransfer`, `TaskTransfer_proofs`, `TaskTokens_proofs` and `TaskCalm_proofs` (done).
6. `ChaosLauncher` and `ChaosLauncher_proofs` (done).
7. Left: the start-up exchange HELLO, RING, RING_OK on the side of the HW3 workers and the
   joins of the coordinator's `close()`; the sockets of the HW3 processes.

## 3. Modules

| module | models | notes |
|---|---|---|
| `TaskLedger` | what a task table promises | abstract: holder, numbered grant, outcome |
| `CoordinatorTables` | `tables.py`, `dispatcher.py`, `detector.py`, Main of `__main__.py` | the workers are unconstrained |
| `WorkerRing` | `worker/*.py`, with the tables | EXTENDS `CoordinatorTables`, joins its actions with the messages |
| `WorkerRing_proofs` | | of the tables: invariant, safety theorems, refinement; of the ring: invariant of messages and counts, exact counts, the tables' theorems for the ring; REJOIN, REQ and the delivery of grants; types |
| `SeatRequests` | requests, their seats and what makes them malformed (HW2) | extended by the next three |
| `SeatBooking` | what the seat manager promises | abstract: every request in one step |
| `SeatManager` | `SeatManager.java` | one lock per seat, workers inside `handle` |
| `SeatManager_proofs` | | invariant, safety theorems, refinement of `SeatBooking` |
| `BookingServer` | `Server`, `Listener`, `BoundedRequestQueue`, `Worker`, `Notifier`, `ClientConnection`, `Client`, `ClientMain` | EXTENDS `SeatBooking`: `handle` is one step |
| `BookingServer_proofs` | | types, seats held, agreement at the end, no failure without an I/O error |
| `ChaosLauncher` | `launcher/chaos.py`, `launcher/__main__.py`, `launcher/processes.py` | with the mode of the workers and both directions of the control connections |
| `ChaosLauncher_proofs` | | invariant, safety theorems |
| `LifeBoard` | `worker/rules.py`, `worker/board.py`, `assigner/partition.py` | the rules and the bands, no state |
| `LifeReference` | `worker/reference.py` | abstract: whole boards, one snapshot after the other |
| `LifeBarrier` | `assigner/barrier.py`, `server.py`, `worker/__main__.py`, the transports | EXTENDS `LifeBoard` |
| `LifeBarrier_proofs` | | bands equal the whole board, invariant, refinement of `LifeReference`, who is blamed for a failed run, types |
| `TaskTransfer` | `HW1/master.py`, `worker.py`, `p2p.py` | the state of a program part is one record |
| `TaskTransfer_proofs` | | types and the phases of checks and transfers |
| `TaskTokens_proofs` | | EXTENDS the former: where each task is, one runner, none lost |
| `TaskCalm_proofs` | | EXTENDS the former: no exception, statistics that agree |
| `MCCoordinatorTables`, `MCWorkerRing`, `MCChaosLauncher`, `MCSeatManager`, `MCBookingServer`, `MCLifeBarrier`, `MCTaskTransfer` | | small instances |

### CoordinatorTables

Every method of `Tables` is one action, with two exceptions that the locks call for.
`result` reads the worker's state under `tables.lock`, releases it and decides under
the task lock: `ResultRead` and `ResultCommit` or `ResultReject`, with `callOf[w]` the
handler between the two. `detect` keeps `tables.lock` but takes the task locks one by
one: `Detect` marks the overdue workers, `ScanTask` visits one task of one dead worker
(`sources`, `cursor`). `TablesLockFree` and `SendLockFree` are the guards of whatever
needs the two locks; at most `Dispatchers` handlers are between two steps. The
detector thread sends the notices of a round before it starts the next one.

Time enters only through `now - last_hb`: `gap[w]` counts silent detector periods
(`Silence`, `Heartbeat`). Without a link to the workers any worker may be silent at
any time, so every verdict of the detector, right or wrong, is explored. A worker may
report any epoch ever issued for a task and any value (`ResultRead`), which includes
duplicates and results of a former life.

`next_alive` raises when every worker is dead; the detector thread's guard turns that
into `fail`, which is why `Detect` sets `error`. `verify` is the task and commit test;
its comparison of the sum is `CountsExact` of the ring. `rejoin` is bounded by
`MaxRejoins`.

### WorkerRing

A worker's threads are separate actions: compute (`TakeWork`, `CheckpointStep`,
`ResultStep`, `Abandon`), heartbeat (`RequestIfIdle`, `SendHeartbeat`, `SendRejoin`),
control (`Discard`, `Enqueue`, `MarkNoTask`, `Welcome`, `RetryLater`) and peer
(`Crash`, `Restart`, `SaveCheckpoint`). Where the model takes one step for several of
the code:

* A send checks the state again under `send_gate`; the check, the write and the
  preceding `valid`/`delay` tests are one step, since only the last one counts.
* The control thread reads mode and generation and acts later. A crash in between
  makes the generation test fail, and that is `Discard` after the crash; `WELCOME`
  and `RETRY_LATER`, which have no such test, are only in flight while the worker is
  REJOINING, and only the control thread ends that mode.
* `HB` takes effect when it is sent. A late one differs by gaps, which `PeriodPasses`
  leaves open when `AccurateFD` is FALSE.
* Requests of a worker sit in bags (`reqs`, `reports`, `rejoinSent`): several
  dispatchers may take them in any order. What goes to a worker is FIFO.

`partial` is the sequence of steps counted so far instead of a number of primes, so
that a step counted twice or left out is visible. A checkpoint may be lost on a broken
buddy connection at any step. `Crash` clears exactly what `WorkerState.crash` clears;
messages in flight and the `Work` object in the hands of the compute thread survive.

`Others` is the comprehension in `enqueue` that drops a task from the queue; since every
`enqueue` does so first, there is at most one entry to drop (`QueueOnce` of
`WorkerRing_proofs`).

`AccurateFD` says that a live worker's heartbeats are never late: a period of silence
counts only for a worker that is down. This is the assumption the timeouts of
`settings.py` (heartbeat 1 s, dead after 5 s) make; one run drops it. `LongDowntime`
says that a restart follows the detection of the crash (downtime at least 10 s, dead
after 5 s); the runs that drop it exercise RETRY_LATER.

### ChaosLauncher

The launcher has one thread. One round of `_event_loop` up to `select` is one action:
the cutoff, the restarts that are due and at most one crash use one reading of the clock
and nothing of the launcher comes in between (`NoCrash`, `NobodyToCrash`, `CrashOne`, by
what `due_crash` finds; `LeaveLoop` when all workers have exited). `select` returns when
a message is read (`woken`) or when the smallest of `Alarms` has been reached; a round
taken late is one with a larger `clock`. `clock` counts from `t0`. What `select`
delivers together is read one message at a time (`ReceiveReady`, `ReceiveRejoined`,
`ReceiveEof`, `StartupFails`).

Of a worker there is what the launcher can see: its mode, the control connection and
the two messages it sends. READY is sent by the later of START and LAUNCHER, REJOINED
after the locks of `welcome()` were released (`SendRejoined`). When START and WELCOME
come is up to the coordinator, and a worker may stop at any time. A command written to
a worker that is gone is lost or fails (`lost` in a round); a connection that is closed
with unread commands may lose the last report. An exception of a failed start-up stops
all processes.

`Recovers` does not say that the loop ends. `all_exited` is tested before a round and
`select` waits without a timeout when nothing is set: if the last worker's end is found
out by a RESTART that cannot be written, within a round after the cutoff, nothing wakes
the loop any more. A write has to fail inside that one round for it, where the reading
of an EOF ends the loop as intended.

### SeatManager

A worker thread inside `handle` goes through `acquire` (one lock per step, lowest seat
first), `judge`, for a reservation of several seats `assign` (one seat per step), for a
cancellation `handoff`, then `unlock` (one lock per step, highest first) and `return`.
A seat given up by CANCEL is vacant until `HandOff`, as between the two assignments of
`owner` in the code. `Assign` counts a seat already taken as a double booking and the
call throws, as the code does. Which lists of seats a request carries is the parameter
`SeatLists`: the decoder passes duplicates and numbers out of range on, and
`Malformed` refuses them without a lock.

`SeatBooking` says what the callers may rely on. The refinement mapping shows a
reservation as done when its worker has found all seats empty, and a cancellation as
done when the seat has been handed on (`SeenOwner`); a verdict counts as an answer
when it is fixed (`SeenAnswers`).

### BookingServer

The server's threads have a `pc` each; main is the listener until it shuts down. A
thread that waits on a condition is `"asleep"` and goes on only when another thread
signals that condition, so a lost wake-up shows as a run that does not end; spurious
wake-ups are left out. Clients are a receiver and a sender working on one `view`
(`held`, `pending`, `waits`, the counters). A socket holds `SocketRoom` lines in each
direction, and a sender of more waits.

* `HandleTask` is one step. That is what `LocksMakeRequestsAtomic` proves of the code.
  Everything after it is a step of its own: `SubmitNotice`, `SendResponse`,
  `RecordResponse`. That is why a notice may overtake the response it belongs to, and
  the responses of two workers each other.
* `prepareRequest` and the sending are one step: what the receiver does in between
  only adds to the seats the client may choose from. Which command and which seats
  the draw yields is open; that a seat with an unanswered request is never chosen
  again is not.
* `stopInput` is one step (flag, queue, selector). `reportFailure` is five steps in the
  code's order, run by the thread that met the first failure while all others go on;
  `after` says where that thread continues.
* `InBalance` and `ServerInBalance` are the final checks of the client and of the
  server, which keeps the number of first responses in `completed`; a failing check is a
  failure, so `NoFalseAlarm` says that they never fail.
* `Fault` is an I/O error: the connection of a client breaks, or a worker, the notifier
  or the monitor fails to write its log. Failures while starting and log errors of the
  listener are left out. The monitor's reports read the state and change nothing, so
  only its end is there.

### LifeBoard, LifeReference and LifeBarrier

`LifeBoard` holds the computation. A window is a function from `0` to `h + 1` to rows, the
band with the row above and below it; characters are their codes, since rule 1 compares
them. `BoardStep` is `Board.step` (repaint or convert what the round calls for, then one
rule), `WholeStep` the same for the whole board, its own neighbour. `Era` is the number of
rounds of one rule, `Full` the distance of two snapshots.

`LifeBarrier` has Main (`mpc`), one handler per worker (`hpc`) and the worker processes
(`wpc`). The one lock is released only by waiting, so a critical section is one action
and a waiting thread is `"waiting"` until somebody notifies it. `fail()` is two steps:
the mark with the notification under the lock, then the closing of all connections.
`Release` takes the frame and the new halos under the lock, `Record` writes the snapshot
afterwards, while the handlers are already in the next round. A full band is part of a
result when `IsFull` says so, on both sides.

Faults are a worker that dies, one that hangs (`slow`; then a timeout of the barrier, of a
handler or of a worker may fire), and an exception of Main. `History`, the sequence of
reference boards, is a constant defined by `HistoryAssumption`: the assigner holds a whole
board only now and then, and the refinement mapping needs one for every round.

### TaskTransfer

The master handles one message per step, with everything `handle_message` does for it:
the distribution, the end test and the periodic checks (`Distribute`, `FinishIfReady`,
`EndOfRound`). A worker has three kinds of threads: the one for the master's messages
(`Handle...`), the P2P check (`BeginCheck` to `Conclude`) and one per peer connection
(`StartReceive`, `FinishReceive`). Operators like `UpdateQueue` map a state and the wires
to the next ones, so that a handler is their composition.

Taken together are: sending TIME and receiving TIME_ACK with what follows; the request
for the P2P time and the reservation it follows; the answer to a P2P request and the
step that sends it, since an answer that is late or lost is a `Timeout` before it.
Reports of the queue carry a version in the code and are sent under the lock; they are
FIFO, so the version is left out. The slot the master sets aside for an assigned task is
freed by the report that names the task. Time is left out but for the checks, which may
become due at any message. Any exception ends the run (verdict `"error"`), and a transfer
whose outcome stays unknown ends it as the code does (`"unknown"`).

The choice of a P2P target does not look at `failed_worker`, so a task whose processing
failed may be passed back to the worker it failed on; only the reassignment by the
master avoids that, and `Readme.txt:340` of HW1 speaks only of it.

## 4. Runs

| run | instance | shows |
|---|---|---|
| `tables` | 2 workers, 2 tasks, 2 dispatchers, suspect 1, dead 2, 1 rejoin | the start-up phases, scans over both tasks, rounds and notices, RESULT handlers between their locks against detector rounds and REJOIN, refinement of `TaskLedger` |
| `ring_retry` | 3 workers, 1 task of 1 step, 2 crashes, 2 down at once, 1 rejoin | nothing lost or stuck whatever a crash swallows, with early restarts |
| `ring_resume` | 2 workers, 1 task of 2 steps, 2 crashes, 1 down, 2 rejoins | takeovers resume exactly |
| `ring_tasks` | 3 workers, 2 tasks, 1 crash | two tasks at one worker, NO_TASK, a crash between request and answer |
| `ring_inaccurate` | 2 workers, 1 task of 2 steps, 1 crash, wrong verdicts at any time | exact counts even then |
| `ring_live` | 2 workers, 1 task of 2 steps, 1 crash, fair threads | the job ends |
| `launcher` | 3 workers, 2 down at most, first crash after 1, intervals and downtimes of 1 or 2, cutoff 5 | never more workers down, crashes until the cutoff, no idle spinning, every crash followed by a restart |
| `seats` | 3 clients, 2 seats, 2 workers, lists `<1>`, `<2,1>`, `<1,2>`, `<1,1>`, `<3>`, 4 requests in all | locks, hand-overs and balance, refinement of `SeatBooking` |
| `server` | 2 clients with 2 requests each, 2 seats, 2 workers, queue of 1, sockets of 2 lines, no errors | every order of responses and notices up to the end of the shutdown |
| `server_fail` | the same with 1 seat, 1 worker, sockets of 1 line, 1 error at any moment | the run ends whoever was blocked |
| `life` | board of 4 rows and 3 columns, 3 workers, 3 rounds (one of each rule), a snapshot every 3, 1 fault | refinement of the reference computation, the right one blamed, everybody ends |
| `transfer` | 2 workers, 6 tasks, queues of 3, 2 checks, failed processings or lost answers | one runner per task, none lost, no false alarm, the run ends |

Why the bounds are enough: a takeover needs an owner and a target; the choice of
`next_alive` and two simultaneous deaths need a third worker, which `ring_retry` has and
the proofs have for any number; a task that comes back to
a former owner needs a rejoin; a queue holding an assignment and a takeover needs two
tasks; resuming needs one checkpoint, so two steps. Two overlapping reservations in
opposite orders need two seats and two workers, a hand-over with a rest of the
waitlist three clients; a notice that overtakes a response needs two workers, and a
listener blocked in `put` a queue of one and a request more than the queue and the
workers hold. The launcher's plan is blocked with two workers down and a third up, and resumes with
the first REJOINED; four crashes happen before the cutoff. In `life` three workers make
the neighbours above and below differ, the bands have 1, 1 and 2 rows, and three rounds
pass all rules, repainting and conversion; its snapshots are the first and the last board,
and `Implementation` has the ones in between (a run with six rounds takes too long). In `transfer` a queue of three holds a task
in each of the roles free, reserved and accepted; six tasks fill both queues; two
transfers to one target at the same time and a transfer of two tasks do not occur in it.
`FewRequests` bounds the requests of `seats`, which would otherwise
go on; symmetry is used where clients and workers are interchangeable and no liveness
is checked. Deadlock is not checked because
every run of the program ends.

`FirstToOne` (a state CONSTRAINT of four ring runs) keeps the states in which the
first grant of task 1 went to worker 1. Workers are alike up to a rotation of the ring.
The one place that mentions their order, the scan of several dead workers by number,
gives the same result in any order in these runs, because a dead worker is never a
target and at most one of the dead ones has a task.

**Fairness** (`ring_live`): weak fairness of each thread's own step, of the restart the
launcher owes a crashed worker, of time passing for a silent worker and of the
detector. Nothing is assumed of crashes, of heartbeats or of the order in which
dispatchers take requests. `server_fail` assumes less: as long as some thread can take
a step one of them does, whichever (`FairServerSpec`). The state graph has no cycle, so
no thread can be starved by another for ever; what remains is that nobody may be stuck
before the run has ended. Errors need not happen. `life` and `transfer` assume the same of their threads
and processes; a worker that hangs never needs to answer, faults need not happen, and
what a timeout needs is that time passes. `launcher` assumes that the launcher's thread
runs, that time passes and that each worker's threads run, START and WELCOME of the
coordinator included (`ring_live` is about those); nothing is assumed of workers ending.

Properties worth reading first: `NoOrphan` and `RequestAnswered` (what crashes and
lost messages must not cause), `DeadOwnsNothing` and `NoticeCurrent` (detector against
dispatchers), `NoCommitAfterScan` (how long the RESULT of a worker declared dead may still
count), `DeadReadStable` (why the unlocked read in `result` is harmless: REJOIN
needs the send lock the handler holds), `CountsExact`; for HW2 `ImplementsBooking`,
`NoVacantQueue` (why MULTI may ignore the waitlists), `NoFalseAlarm` and
`EndsInAgreement` (clients and server agree although notices and responses race); for the
launcher `AtMostMaxDown` (what is really down, not what the slots say) and `PlanResumes`;
for HW4 `ImplementsReference` and `RightBlame`; for HW1 `NothingLost` and `OneRunner`.

## 5. Proofs

`WorkerRing_proofs` begins with the tables. It proves, for all values of the constants that satisfy
`TablesAssumption` (positive counts, `SuspectAfter <= DeadAfter`, `None` distinct from
what it stands apart from):

* `Typing`: `TypeOK`.
* `Invariance`: the inductive invariant `TablesInv`. `DeadOwnsNothing` alone is not
  inductive, since it says nothing while a scan is under way. `OwnerWatched` adds that a
  task with a dead owner is still ahead of the scan, `ScanConsistent` that scanned
  workers are dead and that the run has failed when all are; `TasksConsistent` ties
  state, owner, epoch and result of a task together; `DoneWhenFinished` says why Main
  stopped waiting.
* From it `NoForgottenTakeover`, `ExactCommits`, `ExactPending`, `CurrentNotices`,
  `StableDeadRead`, `RunsVerify`, the action property `LateCommits`
  (`NoCommitAfterScan`), and `Implementation`: every step of the tables is a step or a
  stutter of `TaskLedger`. `LateCommits` is about the RESULT of a worker that is declared
  dead after the handler has read it as alive: the handler's own checks would accept it as
  long as the worker owns the task, and it is `OwnerWatched` that says for how long that is.

`ExactPending` and `RunsVerify` are proved only; no run repeats them.

`StepKinds` reduces each case analysis to the six actions that can matter.

Of the ring it proves, for any number of workers, tasks, steps, crashes and rejoins,
with late heartbeats or without (`TablesAssumption` and `RingAssumption`, which asks that
the full count `FirstSteps(Steps)` is one of the results the tables allow in `Value`):

* `RingInvariance`: the inductive invariant `RingInv`. It says of every message, queue
  entry, piece of work and checkpoint that its epoch was issued and that its count is
  that of the steps before the next one. `CountsExact` alone is not inductive, since it
  sees neither checkpoints in flight nor the RESULT a dispatcher is handling.
* `RingKeepsTables`: every step of the ring is a step `CoordinatorTables` allows. The
  point to prove is that each RESULT names an epoch that was issued, which `RingInv`
  gives. So the theorems about the tables hold in the ring (`RingLosesNoTakeover`).
* `ExactCounts`: `CountsExact`.

Its last part builds two invariants on these:

* `ExchangeInv`: a rejoining worker has exactly one REJOIN due, under way or answered
  (`Talk`); with accurate heartbeats a worker that is not mute counts as alive
  (`Heard`); only a running worker waits for an answer, and it will have one (`Asked`).
  From it `RejoinAnswered`, `NoZombies` and `RequestsAnswered`.
* `DeliveryInv`: the grant in force of a task is on its way to its owner or in the
  owner's hands, and in its hands once its epoch is in `latest` (`Delivered`). Two facts
  make that inductive: nobody has accepted an epoch that was not issued
  (`AcceptedIssued`), so a grant in force is never refused as old; and no ASSIGN in force
  lies before a WELCOME in the channel (`WelcomedLate`), so the ones a rejoining worker
  drops are out of date. From it `NoOrphans`.
* `RingTyping`: `RingTypeOK`, with the bounds on steps and on the crashes of one worker.

`SeatManager_proofs` proves, for any number of clients, seats, workers and requests and
any lists of seats, from `RequestsAssumption` and `ManagerAssumption`:

* `SeatTyping`: `SeatTypeOK`.
* `ManagerInvariant`: the inductive invariant `ManagerInv`. `NoVacantQueue` alone is not
  inductive: it says nothing of seats whose lock is taken. `InCall` says for each point
  of `handle` which locks the worker holds and what it may have left undone; `Vacancy`
  that a vacant seat with a waitlist is in the hands of a worker about to hand it on;
  `Numbered` which requests can have been answered.
* From it `SingleClaim`, `NoVacantSeatWaitedFor` and `NoDeadlockOfLocks`: of any group of
  workers the one that waits for the highest seat waits for nobody in the group, since
  the holder of that seat waits only for a higher one.
* `LocksMakeRequestsAtomic`: `ManagerSpec` implements `SeatBooking`. A step inside a call
  is invisible, except the one that decides it, which is the step of `SeatBooking`.

* `CountersBalance`: `Balanced`. The two equations hold only while nobody is inside
  `handle`; the invariant behind them counts, besides taken seats and waiting clients,
  what the calls under way have counted or assigned already. Its lemmas say how the
  cardinality of the entries changes when a waitlist gains its last or loses its first one.

`BookingServer_proofs` proves, for any number of clients, seats, workers and requests, any
queue, sockets of any size and any number of I/O errors (`RequestsAssumption`,
`ServerAssumption`, `ThreadAssumption`), three results, each on top of the one before:

* `ServerTyping`: `ServerTypeOK`. The bound on accepted requests needs to know that only
  main reads them, the bound on responses that each accepted request is in one place, so
  `Typed` comes with where each thread may stand and what it has in hand then.
* `HeldSeatsOwned`: `HeldIsOwned`. What a client believes depends on a line still in the
  socket, on a result a worker has not sent yet and on a request not handled yet. `BooksInv`
  therefore follows each request and each answer on its way: a request is in one place,
  its seats touch no other unanswered request of the client (`Choose`), a line agrees
  with the answer the manager gave, and a seat that was answered or handed over is the
  client's until it asks to cancel it. That makes the order in which two workers' responses,
  or a response and a notice, arrive irrelevant.
* `AgreementAtEnd`: `EndsInAgreement`. A client that leaves in good order has answers to all
  it sent, but it may lack a notice: `EndInv` adds that main says BYE only after workers
  and notifier have ended (`ThreadsJoined`), that a seat handed over stays on its way as a
  notice until it reaches the client, unless the run has failed (`NoticesKept`), and that
  nothing follows a BYE in its socket (`ByeLast`).

`Steps` splits a step into the actions, and one lemma per kind of state (`SendsMove`,
`LinesMove`, `NoticesMove`, `EndsMove`, ...) says what any of them may do to it; the proofs
of the invariants use those instead of the 28 actions.

The module ends with `NoFalseAlarms`: `NoFalseAlarm` under the same assumptions. The
code raises an error at a dozen places (`FailSites`), the client at four (`ClientsCalm`);
each has to be shown unreachable until an I/O error happens. The invariant `CalmInv` adds to
`EndInv`:

* whether or not something has failed (`BaseInv`): a response is on its way once, to a
  request that is still pending; a notice is in one place and its client still waits for
  it; what main has in hand is the request it accepted last; `completed` counts the first
  responses, and whoever was waitlisted was handed a seat or still waits;
* as long as nothing has failed (`Calm => Good`): connections are closed last, the input
  stops only when all requests have had their first response, BYE goes to everyone, and
  every answer and every notice is either still on its way or counted.

`Good` leads back to `Calm`: the input stops only when all responses are recorded, so no
thread finds the queue closed or a client gone; a client leaves only after BYE, so
no send fails; and with nothing left on its way both final tallies balance.

`ChaosLauncher_proofs` proves, for any number of workers, any `MaxDown` below it and any
intervals (`LauncherAssumption`):

* `LauncherInvariant`: the inductive invariant `LauncherInv`. `AtMostMaxDown` alone is not
  inductive, since it does not see the commands in flight. `Fits` says for each worker
  what its slot, its mode, the two directions of its connection and `rejoined` can be at
  the same time, so that whoever is really down is down in the slots as well. `Plan`
  relates the next crash, `blocked`, `finished` and the number of slots that are down.
* From it `LauncherTyping`, `BoundedDown`, `Resuming` and the action property `NoSpin`.
  `SomeUp` shows that a blocked plan without a candidate needs a worker that has ended;
  `DownMore` and `DownLess` count.

`LifeBarrier_proofs` begins with `Banding`: for any board, any number of bands and any round
`BoardStep` of the windows cut out of a board yields the bands of `WholeStep`, which
is where rows wrap around and the brightness of rule 3 depends on the absolute row.

It goes on to prove, for any board, number of workers and number of faults:

* `LifeInvariant`: the inductive invariant `LifeInv`: every request, result, edge, halo,
  row of the frame and snapshot is what `History` has for the round it belongs to, and
  Main leaves a round only when all results have arrived, which is a count of distinct
  workers.
* `Implementation`: `ImplementsReference`.

`HistoryAssumption` only defines `History` by recursion on the round.

`Blame` is `[]RightBlame`: the error a run ends with
names a worker that died, or Main after a failure of its own or of a worker that died
before the first round, as long as no deadline passes. "Nobody raises an error against
the others by mistake" is a statement about runs in which nothing has failed yet, so
the invariant `BlameInv` says for those (`Calm`) where every handler stands, what its
worker has done and which one message lies between them (`Place` and `Wires`, together
`Link`). Every step that raises an error for a wrong round, a second result, a
connection closed early or a snapshot out of order then contradicts it; what is left is
the end of a connection, which only a crash brings about. `ErrorKnown` keeps the
culprit after that.

`LifeTyping` is `[]LifeTypeOK`. That boards consist of characters is an induction over
the rounds, since each of the three rules keeps them so (`CellTyped`, `WholeTyped`): the
prover cannot apply the library's induction theorems, whose parameter is an operator, but
the natural numbers are well-founded, so a set of rounds with a wrong board would
have a least one (`LeastNumber`, `BoardsTyped`). That a socket never holds more than two
messages is the invariant `Flow`: it follows the request, or the result it led to, through
every point a handler can be at, also in runs that fail, where `Link` says nothing.

`TaskTransfer_proofs`, `TaskTokens_proofs` and `TaskCalm_proofs` prove, for any number of workers and tasks, any
queue size and load threshold and any number of failed processings, checks and lost or late
answers (`TransferAssumption`):

* `TransferTyping`: `TransferTypeOK`. Its bounds are about room: a queue never holds more
  than `QueueSize` tasks although the slots are promised to P2P requests, taken by tasks on
  their way and freed by transfers whose end is still unknown. To show that a promised slot is
  used once, `Checked` says for every number `c` of a load check in which phase it is
  (`TransferOK`): not issued (`Off`), asked for (`Early`), its P2P time under way
  (`Timing`), its request under way, in the hands of the target or answered (`Asking`, with
  `Offered`, `Arriving` and `Answered`), reported as given (`Given`) or given up (`Dropped`),
  and over (`Done`). A phase fixes at once what the master remembers of the check, which one message
  about it is on the wires, which queue holds tasks for it and what both workers have
  noted, so a step is dealt with by the phases it can happen in and by what it leaves alone.
* `TokensAlways`: `Checked /\ Tokens`. Neither `OneRunner` nor `NothingLost` is inductive: a
  report of a transfer that is still under way makes the master's view of the owner old.
  `Tokens` says that every task is in one place: at the master (`Unassigned`); with its owner
  (`Owned`), where it is handed over, judged, confirmed, startable, started, running, finished
  or stored (`Handed` to `Stored`), with the attempt the master counts; or in a transfer
  (`InTransfer`), held by source and target as the phase of the transfer says. A message
  about an older attempt is therefore never around to be mistaken for a newer one.
* From it `SingleRunner` (`OneRunner`) and `TasksSafe` (`NothingLost`).
* `AlarmsAreReal`: `NoFalseAlarm`. `master.py`, `worker.py` and `p2p.py` raise for a report out of
  turn, a promised slot that is not free, a task or an answer that is unknown, and statistics
  that differ at the end. Where a task or a check stands is known from `TokensAlways`, so those raises
  contradict it. The invariant `Calm` adds what is not about places: the order in a
  wire (`Ordered`: a RESULT goes ahead of the next PROCESS_START; `StopsOK`: nothing follows
  STOP, and nothing is left to do then), which task a worker has active (`ActiveOK`), that a
  check without an answer means a lost answer (`CheckOK`), and the statistics (`BooksOK`). Both
  sides count the same event at different moments, so `TallyOK` ties each of the master's counts
  to the worker's state, corrected by the reports under way: finished tasks and transfers
  count once the master has recorded them, a failed processing that is unreported is missing at
  the master, a repeated attempt whose TASK_CONFIRMED is under way is missing at the worker.
  When everything is done nothing is under way and the two agree.

A message of the master's is followed by the distribution, the end test and the load check in
the same step. `Rounds` and `Turns` are sets of states that each of these leads back into, so
the handlers need to be shown only up to the message they answer with. `Recurses` says
what a recursion over the natural numbers preserves, which `Distribute` and `Pick` need; its
proof takes the least number at which it fails, since the prover cannot use the
library's induction theorems.

Model-checked only: the liveness properties, which depend on fairness.

## 6. Not modelled

Wire formats, line buffering, logs and their offline checkers, prime counting, the
metrics of a run, command lines, the pacing and the popularity of seats of the HW2
clients, the reports of the HW2 monitor.

* HW3: the RING exchange of the workers before START and the shut-down of coordinator
  and workers (BYE, joins of `close()`); the exit codes the launcher checks after its
  loop. They need the sockets of ten processes, and the properties there (everybody
  starts, everybody is joined) are those checked of HW2 and HW4.
* HW4: a second interrupt while Main joins, exceptions inside a locked section, reading
  and checking the canvases, `tools/`.
* HW1: registration, virtual time and its statistics, FINAL_STATS, the 60 s timeouts
  towards the master, the validation of messages, two requests with one transfer ID.
