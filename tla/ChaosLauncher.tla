----------------------------- MODULE ChaosLauncher -----------------------------
(***************************************************************************)
(* HW3: the launcher (launcher/chaos.py, __main__.py) crashes and restarts *)
(* workers at random times and learns from their messages how far they     *)
(* have come.  Of a worker (worker/state.py, network.py) only its mode and *)
(* its launcher connection are here; WorkerRing has the rest.              *)
(*                                                                         *)
(* The launcher has one thread.  It waits in select until a message comes  *)
(* or its next alarm rings, and then does everything that is due; in       *)
(* between workers move and time passes.  Both directions of a connection  *)
(* are FIFO.  clock counts from t0, the moment all workers are ready; it   *)
(* may run ahead of a launcher that is slow.                               *)
(***************************************************************************)
EXTENDS Integers, Sequences, FiniteSets

CONSTANTS
  WorkerCount,                \* 10 in the code
  MaxDown,                    \* most workers down at once, 2 in the code
  MinFirst, MaxFirst,         \* INITIAL_CRASH_INTERVAL_SECONDS
  MinInterval, MaxInterval,   \* CRASH_INTERVAL_SECONDS
  MinDowntime, MaxDowntime,   \* DOWNTIME_SECONDS
  Cutoff                      \* CRASH_CUTOFF_SECONDS

ASSUME LauncherAssumption ==
  /\ WorkerCount \in Nat /\ MaxDown \in 1..WorkerCount - 1
  /\ MaxFirst \in Nat /\ MinFirst \in 1..MaxFirst
  /\ MaxInterval \in Nat /\ MinInterval \in 1..MaxInterval
  /\ MaxDowntime \in Nat /\ MinDowntime \in 1..MaxDowntime
  /\ Cutoff \in Nat

Worker == 1..WorkerCount
Never == 0                    \* no time is set
Nobody == 0

VARIABLES
  pc,          \* connect, events, ended, failed
  cursor,      \* the next worker to connect to
  woken,       \* a message was received since the last round of the loop
  started,     \* t0 is set
  clock,
  nextCrash, blocked, finished,   \* next_crash, blocked, injection_finished
  status, restartAt, ready,       \* the slots
  mode,        \* worker w: BOOTING, RUNNING, CRASHED, REJOINING, STOPPED
  greeted,     \* launcher_connected
  rejoined,    \* w is welcomed and has not told the launcher yet
  toWorker, toLauncher

loopVars == <<pc, cursor, woken>>
planVars == <<started, nextCrash, blocked, finished>>
slotVars == <<status, restartAt, ready>>
workerVars == <<mode, greeted, rejoined>>
vars == <<loopVars, planVars, clock, slotVars, workerVars, toWorker, toLauncher>>

LauncherInit ==
  /\ pc = "connect" /\ cursor = 1 /\ woken = TRUE
  /\ started = FALSE /\ clock = 0
  /\ nextCrash = Never /\ blocked = FALSE /\ finished = FALSE
  /\ status = [w \in Worker |-> "RUNNING"]
  /\ restartAt = [w \in Worker |-> Never] /\ ready = [w \in Worker |-> FALSE]
  /\ mode = [w \in Worker |-> "BOOTING"]
  /\ greeted = [w \in Worker |-> FALSE] /\ rejoined = [w \in Worker |-> FALSE]
  /\ toWorker = [w \in Worker |-> <<>>] /\ toLauncher = [w \in Worker |-> <<>>]

Gone(w) == mode[w] = "STOPPED"

(* Mutant: only workers whose crash is not over yet count as down. *)
DownUntilRestart(slots) == {w \in Worker : slots[w] = "CRASHED"}
(* down_workers *)
Down(slots) == {w \in Worker : slots[w] \in {"CRASHED", "REJOINING"}}
DownCount(slots) == Cardinality(Down(slots))

(* _schedule_next: no crash is planned for the cutoff or later. *)
Schedule(base) ==
  {IF base + i >= Cutoff THEN Never ELSE base + i : i \in MinInterval..MaxInterval}

-----------------------------------------------------------------------------
(* The launcher: _connect_controls *)

(* What is written to a worker that is gone is lost. *)
Greet(w) ==
  toWorker' = [toWorker EXCEPT ![w] = IF Gone(w) THEN @ ELSE Append(@, "LAUNCHER")]

ConnectControl ==
  /\ pc = "connect"
  /\ Greet(cursor)
  /\ cursor' = cursor + 1
  /\ pc' = IF cursor = WorkerCount THEN "events" ELSE "connect"
  /\ UNCHANGED <<woken, planVars, clock, slotVars, workerVars, toLauncher>>

(* An exception: the processes are stopped, and the run has failed. *)
StopProcesses ==
  /\ pc' = "failed"
  /\ mode' = [w \in Worker |-> "STOPPED"]
  /\ UNCHANGED <<cursor, woken, planVars, clock, slotVars, greeted, rejoined,
                 toWorker, toLauncher>>

(* The worker ended before its connection was ready. *)
ConnectFails == pc = "connect" /\ Gone(cursor) /\ StopProcesses

-----------------------------------------------------------------------------
(* The launcher: _event_loop *)

(* Mutant: restarts do not wake the loop. *)
AlarmsForCrashes ==
  ({nextCrash} \ {Never}) \cup (IF started /\ ~finished THEN {Cutoff} ELSE {})
(* next_deadline is the smallest of these. *)
Alarms ==
  {restartAt[w] : w \in {u \in Worker : status[u] = "CRASHED"}}
    \cup ({nextCrash} \ {Never}) \cup (IF started /\ ~finished THEN {Cutoff} ELSE {})

Awake == woken \/ \E t \in Alarms : t <= clock

AllExited == \A w \in Worker : status[w] = "EXITED"

(* Mutant: a crash is still possible at the cutoff itself. *)
FinishingLate == finished \/ (started /\ clock > Cutoff)
(* One round: the cutoff, the restarts, then at most one crash.  lost are the
   workers that turn out to have gone when RESTART is written to them. *)
Finishing == finished \/ (started /\ clock >= Cutoff)
DueRestarts == {w \in Worker : status[w] = "CRASHED" /\ clock >= restartAt[w]}
AfterRestarts(lost) ==
  [w \in Worker |-> IF w \in lost THEN "EXITED"
                    ELSE IF w \in DueRestarts THEN "REJOINING" ELSE status[w]]

(* due_crash is None before, after and between the planned times. *)
MayCrash(slots) ==
  ~Finishing /\ nextCrash # Never /\ clock >= nextCrash /\ DownCount(slots) < MaxDown

Candidates(slots) == {w \in Worker : slots[w] = "RUNNING"}

(* Mutant: a crash is planned although no more worker may be down. *)
PlanOnly(slots) == nextCrash' \in Schedule(clock) /\ UNCHANGED blocked
(* The next crash, unless the most workers are down now. *)
PlanOrBlock(slots) ==
  IF DownCount(slots) >= MaxDown THEN nextCrash' = Never /\ blocked' = TRUE
                                 ELSE nextCrash' \in Schedule(clock) /\ UNCHANGED blocked

(* RESTART to all who are due, CRASH to the victim. *)
SendCommands(victim) ==
  toWorker' = [w \in Worker |->
    IF Gone(w) THEN toWorker[w]
    ELSE IF w \in DueRestarts THEN Append(toWorker[w], "RESTART")
    ELSE IF w = victim THEN Append(toWorker[w], "CRASH") ELSE toWorker[w]]

BeginRound ==
  /\ pc = "events" /\ Awake /\ ~AllExited
  /\ woken' = FALSE /\ finished' = Finishing
  /\ UNCHANGED <<pc, cursor, started, clock, ready, workerVars, toLauncher>>

LostWriting == SUBSET {w \in DueRestarts : Gone(w)}

NoCrash ==
  /\ BeginRound
  /\ \E lost \in LostWriting :
       LET slots == AfterRestarts(lost)
       IN  /\ ~MayCrash(slots)
           /\ status' = slots
           /\ nextCrash' = IF Finishing THEN Never ELSE nextCrash
           /\ blocked' = (blocked /\ ~Finishing)
  /\ restartAt' = [w \in Worker |-> IF w \in DueRestarts THEN Never ELSE restartAt[w]]
  /\ SendCommands(Nobody)

NobodyToCrash ==
  /\ BeginRound
  /\ \E lost \in LostWriting :
       LET slots == AfterRestarts(lost)
       IN MayCrash(slots) /\ Candidates(slots) = {} /\ status' = slots
  /\ nextCrash' = Never /\ blocked' = TRUE
  /\ restartAt' = [w \in Worker |-> IF w \in DueRestarts THEN Never ELSE restartAt[w]]
  /\ SendCommands(Nobody)

(* The victim may have gone too; that it is down until CRASH could not be
   written is what the plan of the next crash is made from. *)
CrashOne ==
  /\ BeginRound
  /\ \E lost \in LostWriting :
       LET slots == AfterRestarts(lost)
       IN  /\ MayCrash(slots)
           /\ \E v \in Candidates(slots), d \in MinDowntime..MaxDowntime :
                LET crashed == [slots EXCEPT ![v] = "CRASHED"]
                    exited == [slots EXCEPT ![v] = "EXITED"]
                IN  /\ PlanOrBlock(crashed)
                    /\ status' \in {crashed} \cup (IF Gone(v) THEN {exited} ELSE {})
                    /\ restartAt' = [w \in Worker |->
                         IF w = v /\ status'[v] = "CRASHED" THEN clock + d
                         ELSE IF w \in DueRestarts THEN Never ELSE restartAt[w]]
                    /\ SendCommands(v)

LeaveLoop ==
  /\ pc = "events" /\ Awake /\ AllExited
  /\ pc' = "ended"
  /\ finished' = (finished \/ started)
  /\ nextCrash' = (IF started THEN Never ELSE nextCrash)
  /\ blocked' = (blocked /\ ~started)
  /\ UNCHANGED <<cursor, woken, started, clock, slotVars, workerVars, toWorker, toLauncher>>

-----------------------------------------------------------------------------
(* The launcher: _receive *)

Receives(w, message) ==
  /\ pc = "events" /\ status[w] # "EXITED"
  /\ toLauncher[w] # <<>> /\ Head(toLauncher[w]) = message
  /\ toLauncher' = [toLauncher EXCEPT ![w] = Tail(@)]
  /\ woken' = TRUE
  /\ UNCHANGED <<pc, cursor, finished, clock, restartAt, workerVars, toWorker>>

(* mark_ready: t0 is the moment the last worker is ready. *)
ReceiveReady(w) ==
  /\ Receives(w, "READY")
  /\ ready' = [ready EXCEPT ![w] = TRUE]
  /\ IF ~started /\ \A u \in Worker \ {w} : ready[u]
     THEN started' = TRUE /\ nextCrash' \in MinFirst..MaxFirst
     ELSE UNCHANGED <<started, nextCrash>>
  /\ UNCHANGED <<status, blocked>>

(* Mutant: a plan that was blocked stays so. *)
StayBlocked(slots) ==
  UNCHANGED <<nextCrash, blocked>>
(* A plan that was blocked goes on when a worker is back. *)
Unblock(slots) ==
  IF blocked /\ DownCount(slots) < MaxDown /\ ~finished
  THEN blocked' = FALSE /\ nextCrash' \in Schedule(clock)
  ELSE UNCHANGED <<nextCrash, blocked>>

(* mark_rejoined *)
ReceiveRejoined(w) ==
  /\ Receives(w, "REJOINED")
  /\ IF status[w] = "REJOINING"
     THEN /\ status' = [status EXCEPT ![w] = "RUNNING"]
          /\ Unblock([status EXCEPT ![w] = "RUNNING"])
     ELSE UNCHANGED <<status, nextCrash, blocked>>
  /\ UNCHANGED <<started, ready>>

(* End of file, after everything the worker wrote. *)
AtEnd(w) == pc = "events" /\ status[w] # "EXITED" /\ Gone(w) /\ toLauncher[w] = <<>>

ReceiveEof(w) ==
  /\ AtEnd(w) /\ started
  /\ status' = [status EXCEPT ![w] = "EXITED"]
  /\ restartAt' = [restartAt EXCEPT ![w] = Never]
  /\ woken' = TRUE
  /\ UNCHANGED <<pc, cursor, planVars, clock, ready, workerVars, toWorker, toLauncher>>

(* A worker ended before all of them were ready: an exception. *)
StartupFails(w) == AtEnd(w) /\ ~started /\ StopProcesses

LauncherStep ==
  \/ ConnectControl \/ ConnectFails
  \/ NoCrash \/ NobodyToCrash \/ CrashOne \/ LeaveLoop
  \/ \E w \in Worker : ReceiveReady(w) \/ ReceiveRejoined(w) \/ ReceiveEof(w) \/ StartupFails(w)

-----------------------------------------------------------------------------
(* Worker w.  send_ready is called after either of the two events it needs,
   so READY is sent by the later one. *)

WorkerSends(w, message) ==
  toLauncher' = [toLauncher EXCEPT ![w] = Append(@, message)]

(* START of the coordinator. *)
Start(w) ==
  /\ mode[w] = "BOOTING"
  /\ mode' = [mode EXCEPT ![w] = "RUNNING"]
  /\ IF greeted[w] THEN WorkerSends(w, "READY") ELSE UNCHANGED toLauncher
  /\ UNCHANGED <<loopVars, planVars, clock, slotVars, greeted, rejoined, toWorker>>

Takes(w, message) ==
  /\ ~Gone(w) /\ toWorker[w] # <<>> /\ Head(toWorker[w]) = message
  /\ toWorker' = [toWorker EXCEPT ![w] = Tail(@)]
  /\ UNCHANGED <<loopVars, planVars, clock, slotVars, rejoined>>

HandleLauncher(w) ==
  /\ Takes(w, "LAUNCHER")
  /\ greeted' = [greeted EXCEPT ![w] = TRUE]
  /\ IF mode[w] = "RUNNING" THEN WorkerSends(w, "READY") ELSE UNCHANGED toLauncher
  /\ UNCHANGED mode

(* A command that does not fit the mode is ignored. *)
HandleCrash(w) ==
  /\ Takes(w, "CRASH")
  /\ mode' = IF mode[w] = "RUNNING" THEN [mode EXCEPT ![w] = "CRASHED"] ELSE mode
  /\ UNCHANGED <<greeted, toLauncher>>

HandleRestart(w) ==
  /\ Takes(w, "RESTART")
  /\ mode' = IF mode[w] = "CRASHED" THEN [mode EXCEPT ![w] = "REJOINING"] ELSE mode
  /\ UNCHANGED <<greeted, toLauncher>>

(* WELCOME of the coordinator, and the message to the launcher, which is sent
   after the locks were released. *)
Welcome(w) ==
  /\ mode[w] = "REJOINING"
  /\ mode' = [mode EXCEPT ![w] = "RUNNING"]
  /\ rejoined' = [rejoined EXCEPT ![w] = TRUE]
  /\ UNCHANGED <<loopVars, planVars, clock, slotVars, greeted, toWorker, toLauncher>>

SendRejoined(w) ==
  /\ rejoined[w]
  /\ rejoined' = [rejoined EXCEPT ![w] = FALSE]
  /\ IF mode[w] = "RUNNING" THEN WorkerSends(w, "REJOINED") ELSE UNCHANGED toLauncher
  /\ UNCHANGED <<loopVars, planVars, clock, slotVars, mode, greeted, toWorker>>

(* BYE, which comes in any mode, or an error: the process ends.  Unread
   commands reset the connection, and what the launcher has not read is lost. *)
Stop(w) ==
  /\ ~Gone(w)
  /\ mode' = [mode EXCEPT ![w] = "STOPPED"]
  /\ toLauncher' \in {toLauncher} \cup
       (IF toWorker[w] # <<>> THEN {[toLauncher EXCEPT ![w] = <<>>]} ELSE {})
  /\ UNCHANGED <<loopVars, planVars, clock, slotVars, greeted, rejoined, toWorker>>

WorkerStep(w) ==
  \/ Start(w) \/ HandleLauncher(w) \/ HandleCrash(w) \/ HandleRestart(w)
  \/ Welcome(w) \/ SendRejoined(w)

(* Time passes.  Nothing is set for a time after the last restart. *)
Tick ==
  /\ pc = "events" /\ started /\ clock < Cutoff + MaxDowntime
  /\ clock' = clock + 1
  /\ UNCHANGED <<loopVars, planVars, slotVars, workerVars, toWorker, toLauncher>>

LauncherNext ==
  \/ LauncherStep \/ Tick \/ \E w \in Worker : WorkerStep(w) \/ Stop(w)

LauncherSpec == LauncherInit /\ [][LauncherNext]_vars

(* The threads run, time passes, and the coordinator starts and welcomes the
   workers.  No worker need ever stop. *)
FairLauncherSpec ==
  /\ LauncherSpec
  /\ WF_vars(LauncherStep) /\ WF_vars(Tick)
  /\ \A w \in Worker : WF_vars(WorkerStep(w))

-----------------------------------------------------------------------------
(* Properties *)

(* Every variable has its type, and a restart is set for each worker that is
   held for crashed and for nobody else, for a crash before the cutoff. *)
LauncherTypeOK ==
  /\ pc \in {"connect", "events", "ended", "failed"} /\ cursor \in 1..WorkerCount + 1
  /\ woken \in BOOLEAN /\ started \in BOOLEAN /\ clock \in Nat
  /\ nextCrash \in Nat /\ blocked \in BOOLEAN /\ finished \in BOOLEAN
  /\ status \in [Worker -> {"RUNNING", "CRASHED", "REJOINING", "EXITED"}]
  /\ restartAt \in [Worker -> Nat] /\ ready \in [Worker -> BOOLEAN]
  /\ \A w \in Worker : /\ restartAt[w] # Never <=> status[w] = "CRASHED"
                      /\ restartAt[w] < Cutoff + MaxDowntime
  /\ mode \in [Worker -> {"BOOTING", "RUNNING", "CRASHED", "REJOINING", "STOPPED"}]
  /\ greeted \in [Worker -> BOOLEAN] /\ rejoined \in [Worker -> BOOLEAN]
  /\ toWorker \in [Worker -> Seq({"LAUNCHER", "CRASH", "RESTART"})]
  /\ toLauncher \in [Worker -> Seq({"READY", "REJOINED"})]

(* Never more than MaxDown workers are really down, although the launcher
   learns late that one is back and its commands take their time. *)
AtMostMaxDown ==
  Cardinality({w \in Worker : mode[w] \in {"CRASHED", "REJOINING"}}) <= MaxDown

(* The crashes do not stop before the cutoff: without a planned one either the
   most workers are down, and the first that is back resumes the plan, or the
   next one would fall after the cutoff.  A worker that ends ends the job. *)
PlanResumes ==
  pc = "events" /\ started /\ ~finished /\ nextCrash = Never
    /\ (\A w \in Worker : ~Gone(w))
  => IF blocked THEN DownCount(status) = MaxDown ELSE clock + MaxInterval >= Cutoff

(* When a round is over every alarm is in the future: the loop sleeps until
   there is something to do, and does not spin while the plan is blocked. *)
NoSpinning ==
  [][NoCrash \/ NobodyToCrash \/ CrashOne => \A t \in Alarms' : t > clock]_vars

(* A crashed worker is restarted and joins again, or its process ends: the
   loop does not sleep past a restart, also after the last crash. *)
Recovers == \A w \in Worker : mode[w] = "CRASHED" ~> mode[w] \in {"RUNNING", "STOPPED"}
=============================================================================
