---------------------------- MODULE LifeBarrier ----------------------------
(***************************************************************************)
(* HW4: the assigner (Main, one handler thread per worker) and the workers *)
(* from the first connection to the end of the run: assigner/barrier.py,   *)
(* assigner/server.py, worker/__main__.py.                                 *)
(*                                                                         *)
(* The one lock is never held across a step except by waiting on done_cv   *)
(* or go_cv, which releases it: a critical section is one action and a     *)
(* thread that waits is in mwaits or in pc "waiting" until it is notified. *)
(* fail() marks the error and notifies under the lock and closes the       *)
(* connections afterwards: pc "closing" is the thread in between.          *)
(***************************************************************************)
EXTENDS LifeBoard

CONSTANTS MaxFaults,     \* bound on workers, or Main, that misbehave
          History        \* the boards of the reference computation

ASSUME FaultAssumption == MaxFaults \in Nat

(* For the refinement mapping: the assigner holds a whole board only in a
   snapshot, so the reference board of a round is taken from here. *)
ASSUME HistoryAssumption ==
  /\ DOMAIN History = 0..Rounds
  /\ History[0] = Canvas[0]
  /\ \A s \in 0..Rounds - 1 : History[s + 1] = WholeStep(s, History[s])

Main == N              \* not a worker; the culprit when an error names none
NoError == -1

VARIABLES
  mpc,        \* Main: accept, assign, initial, start, barrier, record, closing, join, ended
  cursor,     \* Main: next worker to accept, to assign to or to start
  mwaits,     \* Main waits on done_cv
  round, arrived, error,   \* the shared state of run_rounds
  seen, edges, halos, frame,
  snapshot,   \* Main: the frame it copied under the lock, or <<>>
  saved,      \* snapshots saved
  hpc, hround,   \* handler k: idle, top, recv, waiting, woken, bye, closing, ended
  open,       \* the assigner's end of connection k is open
  toWorker, toAssigner,    \* bytes under way, one message per element
  wpc,        \* worker k: new, hello, ready, done, failed
  wround, wrows,           \* its Board: round and cur[1:-1]
  crashed, slow, mainFailed   \* faults that have happened

mainVars == <<mpc, cursor, snapshot, saved>>
sharedVars == <<mwaits, round, arrived, error, seen, edges, halos, frame>>
handlerVars == <<hpc, hround>>
wireVars == <<open, toWorker, toAssigner>>
workerVars == <<wpc, wround, wrows>>
faultVars == <<crashed, slow, mainFailed>>
vars == <<mainVars, sharedVars, handlerVars, wireVars, workerVars, faultVars>>

Hello == [type |-> "HELLO"]
Assign(k) == [type |-> "ASSIGN", rows |-> Band(Canvas[0], First(k), Past(k))]
Request(r, halo) == [type |-> "ROUND", round |-> r, top |-> halo[1], bottom |-> halo[2]]
(* Mutant: the full band comes one round late. *)
IsFullLate(r) == r % Full = 0
IsFull(r) == (r + 1) % Full = 0
Result(r, k, rows) ==
  [type |-> "RESULT", round |-> r, worker |-> k, first |-> rows[1], last |-> rows[Size(k)],
   full |-> IF IsFull(r) THEN rows ELSE <<>>]
Bye == [type |-> "BYE"]

Gone(k) == wpc[k] \in {"done", "failed"}
HasMail(k) == toWorker[k] # <<>>
HasAnswer(k) == toAssigner[k] # <<>>

Init ==
  /\ mpc = "accept" /\ cursor = 0 /\ snapshot = <<>> /\ saved = <<>>
  /\ mwaits = FALSE /\ round = 0 /\ arrived = 0 /\ error = NoError
  /\ seen = [k \in Worker |-> -1]
  /\ edges = [k \in Worker |-> <<>>]
  /\ halos = [k \in Worker |-> <<Canvas[0][(First(k) - 1) % Height],
                                 Canvas[0][Past(k) % Height]>>]
  /\ frame = Canvas[0]
  /\ hpc = [k \in Worker |-> "idle"] /\ hround = [k \in Worker |-> 0]
  /\ open = [k \in Worker |-> FALSE]
  /\ toWorker = [k \in Worker |-> <<>>] /\ toAssigner = [k \in Worker |-> <<>>]
  /\ wpc = [k \in Worker |-> "new"] /\ wround = [k \in Worker |-> 0]
  /\ wrows = [k \in Worker |-> <<>>]
  /\ crashed = {} /\ slow = {} /\ mainFailed = FALSE

-----------------------------------------------------------------------------
(* Mutant: the handlers at the barrier are not woken. *)
MarkErrorQuietly(who, hs) ==
  /\ error' = IF error = NoError THEN who ELSE error
  /\ mwaits' = FALSE
  /\ hpc' = hs
  /\ UNCHANGED <<round, arrived, seen, edges, halos, frame>>

(* fail(): the first error is kept and everybody who waits is woken.  hs is
   what the caller makes of the handlers' pcs. *)
MarkError(who, hs) ==
  /\ error' = IF error = NoError THEN who ELSE error
  /\ mwaits' = FALSE
  /\ hpc' = [k \in Worker |-> IF hs[k] = "waiting" THEN "woken" ELSE hs[k]]
  /\ UNCHANGED <<round, arrived, seen, edges, halos, frame>>

(* What is written to a process that is gone is lost. *)
Send(k, m) == toWorker' = [toWorker EXCEPT ![k] = IF Gone(k) THEN @ ELSE Append(@, m)]

CloseAll == open' = [k \in Worker |-> FALSE]

-----------------------------------------------------------------------------
(* Main: accept_workers *)

AcceptWorker ==
  /\ mpc = "accept" /\ HasAnswer(cursor)
  /\ toAssigner' = [toAssigner EXCEPT ![cursor] = Tail(@)]
  /\ open' = [open EXCEPT ![cursor] = TRUE]
  /\ IF cursor + 1 < N
     THEN cursor' = cursor + 1 /\ UNCHANGED mpc
     ELSE cursor' = 0 /\ mpc' = "assign"
  /\ UNCHANGED <<snapshot, saved, toWorker>>
  /\ UNCHANGED <<sharedVars, handlerVars, workerVars, faultVars>>

SendAssign ==
  /\ mpc = "assign"
  /\ Send(cursor, Assign(cursor))
  /\ IF cursor + 1 < N
     THEN cursor' = cursor + 1 /\ UNCHANGED mpc
     ELSE cursor' = 0 /\ mpc' = "initial"
  /\ UNCHANGED <<snapshot, saved, open, toAssigner>>
  /\ UNCHANGED <<sharedVars, handlerVars, workerVars, faultVars>>

(* EOF instead of HELLO, a broken connection, the startup deadline: whoever
   was accepted is closed and the run ends before it began. *)
StartupFails ==
  /\ \/ mpc = "accept" /\ ~HasAnswer(cursor) /\ Gone(cursor)
     \/ mpc = "assign" /\ Gone(cursor)
     \/ mpc \in {"accept", "assign"} /\ slow # {}
  /\ error' = Main /\ mpc' = "ended"
  /\ CloseAll
  /\ UNCHANGED <<cursor, snapshot, saved, toWorker, toAssigner>>
  /\ UNCHANGED <<mwaits, round, arrived, seen, edges, halos, frame>>
  /\ UNCHANGED <<handlerVars, workerVars, faultVars>>

(* Main: run_rounds *)

SaveInitial ==
  /\ mpc = "initial"
  /\ saved' = <<[state |-> 0, rows |-> frame]>>
  /\ mpc' = "start"
  /\ UNCHANGED <<cursor, snapshot>>
  /\ UNCHANGED <<sharedVars, handlerVars, wireVars, workerVars, faultVars>>

StartThread ==
  /\ mpc = "start"
  /\ hpc' = [hpc EXCEPT ![cursor] = "top"]
  /\ cursor' = cursor + 1
  /\ mpc' = IF cursor + 1 = N THEN "barrier" ELSE "start"
  /\ UNCHANGED <<snapshot, saved, hround>>
  /\ UNCHANGED <<sharedVars, wireVars, workerVars, faultVars>>

LeaveBarrier ==
  /\ mpc = "barrier" /\ ~mwaits /\ error # NoError
  /\ mpc' = "join"
  /\ UNCHANGED <<cursor, snapshot, saved>>
  /\ UNCHANGED <<sharedVars, handlerVars, wireVars, workerVars, faultVars>>

WaitForResults ==
  /\ mpc = "barrier" /\ ~mwaits /\ error = NoError /\ arrived < N
  /\ mwaits' = TRUE
  /\ UNCHANGED <<round, arrived, error, seen, edges, halos, frame>>
  /\ UNCHANGED <<mainVars, handlerVars, wireVars, workerVars, faultVars>>

(* Mutant: the two neighbours are mixed up. *)
HalosCrossed == [k \in Worker |-> <<edges[WorkerAfter(k)][2], edges[WorkerBefore(k)][1]>>]
NextHalos == [k \in Worker |-> <<edges[WorkerBefore(k)][2], edges[WorkerAfter(k)][1]>>]

(* All results of the round are in: the halos of the next one are made, the
   frame is copied if it is due, and the handlers go on. *)
Release ==
  /\ mpc = "barrier" /\ ~mwaits /\ error = NoError /\ arrived >= N
  /\ halos' = NextHalos
  /\ snapshot' = IF IsFull(round) THEN frame ELSE <<>>
  /\ arrived' = 0 /\ round' = round + 1
  /\ hpc' = [k \in Worker |-> IF hpc[k] = "waiting" THEN "woken" ELSE hpc[k]]
  /\ mpc' = "record"
  /\ UNCHANGED <<cursor, saved, mwaits, error, seen, edges, frame, hround>>
  /\ UNCHANGED <<wireVars, workerVars, faultVars>>

(* An exception in Main: the barrier's deadline, a snapshot out of order, or
   (MainBreaks) a failed write, a thread that cannot be started, Ctrl-C. *)
MainRaises ==
  /\ MarkError(Main, hpc)
  /\ mpc' = "closing"
  /\ UNCHANGED <<cursor, snapshot, hround>>
  /\ UNCHANGED <<wireVars, workerVars>>

(* save_snapshot, which insists on the order of the snapshots, and
   record_round; meanwhile the handlers play the next round. *)
Record ==
  /\ mpc = "record"
  /\ IF snapshot # <<>> /\ round # Full * Len(saved)
     THEN MainRaises /\ UNCHANGED <<saved, faultVars>>
     ELSE /\ saved' = IF snapshot = <<>> THEN saved
                      ELSE Append(saved, [state |-> round, rows |-> snapshot])
          /\ mpc' = IF round < Rounds THEN "barrier" ELSE "join"
          /\ UNCHANGED <<cursor, snapshot>>
          /\ UNCHANGED <<sharedVars, handlerVars, wireVars, workerVars, faultVars>>

BarrierTimeout ==
  /\ mpc = "barrier" /\ error = NoError /\ arrived < N /\ slow # {}
  /\ MainRaises
  /\ UNCHANGED <<saved, faultVars>>

MainCloses ==
  /\ mpc = "closing"
  /\ CloseAll
  /\ mpc' = "join"
  /\ UNCHANGED <<cursor, snapshot, saved, toWorker, toAssigner>>
  /\ UNCHANGED <<sharedVars, handlerVars, workerVars, faultVars>>

(* All started threads are joined; execute() closes what is still open. *)
MainJoins ==
  /\ mpc = "join" /\ \A k \in Worker : hpc[k] \in {"idle", "ended"}
  /\ mpc' = "ended"
  /\ CloseAll
  /\ UNCHANGED <<cursor, snapshot, saved, toWorker, toAssigner>>
  /\ UNCHANGED <<sharedVars, handlerVars, workerVars, faultVars>>

MainStep ==
  \/ AcceptWorker \/ SendAssign \/ StartupFails \/ SaveInitial \/ StartThread
  \/ LeaveBarrier \/ WaitForResults \/ Release \/ Record
  \/ BarrierTimeout \/ MainCloses \/ MainJoins

-----------------------------------------------------------------------------
(* Handler k *)

HandlerGoes(k, to) == hpc' = [hpc EXCEPT ![k] = to]

HandlerEnds(k) ==
  /\ HandlerGoes(k, "ended")
  /\ open' = [open EXCEPT ![k] = FALSE]

HandlerRaises(k) ==
  /\ MarkError(k, [hpc EXCEPT ![k] = "closing"])
  /\ UNCHANGED <<hround, mainVars, wireVars, workerVars, faultVars>>

(* An error was found under the lock: return, and close the connection. *)
HandlerReturns(k) ==
  /\ \/ hpc[k] \in {"top", "woken"}
     \/ hpc[k] = "recv" /\ open[k] /\ HasAnswer(k)
  /\ error # NoError
  /\ HandlerEnds(k)
  /\ UNCHANGED <<hround, toWorker, toAssigner>>
  /\ UNCHANGED <<mainVars, sharedVars, workerVars, faultVars>>

SendRound(k) ==
  /\ hpc[k] = "top" /\ error = NoError /\ open[k]
  /\ IF round # hround[k]
     THEN HandlerRaises(k)
     ELSE /\ Send(k, Request(hround[k], halos[k]))
          /\ HandlerGoes(k, "recv")
          /\ UNCHANGED <<hround, open, toAssigner>>
          /\ UNCHANGED <<mainVars, sharedVars, workerVars, faultVars>>

(* RESULT r k of the right shape, whose edges are those of the full band. *)
IsResult(m, k) ==
  /\ m.type = "RESULT" /\ m.round = hround[k] /\ m.worker = k
  /\ (m.full # <<>>) = IsFull(hround[k])
  /\ m.full # <<>> => m.first = m.full[1] /\ m.last = m.full[Len(m.full)]

ResultDue(k) ==
  IsResult(Head(toAssigner[k]), k) /\ round = hround[k] /\ seen[k] # hround[k]

CountResult(k) ==
  LET m == Head(toAssigner[k]) IN
  /\ toAssigner' = [toAssigner EXCEPT ![k] = Tail(@)]
  /\ edges' = [edges EXCEPT ![k] = <<m.first, m.last>>]
  /\ frame' = IF m.full = <<>> THEN frame
              ELSE [y \in 0..Height - 1 |-> IF First(k) <= y /\ y < Past(k)
                                            THEN m.full[y - First(k) + 1] ELSE frame[y]]
  /\ seen' = [seen EXCEPT ![k] = hround[k]]
  /\ arrived' = arrived + 1
  /\ mwaits' = IF arrived + 1 = N THEN FALSE ELSE mwaits
  /\ HandlerGoes(k, "waiting")
  /\ UNCHANGED <<round, error, halos, hround, open, toWorker>>
  /\ UNCHANGED <<mainVars, workerVars, faultVars>>

TakeResult(k) ==
  /\ hpc[k] = "recv" /\ open[k] /\ HasAnswer(k) /\ error = NoError
  /\ IF ResultDue(k) THEN CountResult(k) ELSE HandlerRaises(k)

(* Mutant: the last round is followed by one more. *)
MoreRoundsThanDue(k) == hround[k] + 1 <= Rounds
MoreRounds(k) == hround[k] + 1 < Rounds

(* go_cv.wait() returns: the loop around it, then the next round. *)
Woken(k) ==
  /\ hpc[k] = "woken" /\ error = NoError
  /\ IF round = hround[k] THEN UNCHANGED hround /\ HandlerGoes(k, "waiting")
     ELSE IF MoreRounds(k)
     THEN hround' = [hround EXCEPT ![k] = @ + 1] /\ HandlerGoes(k, "top")
     ELSE UNCHANGED hround /\ HandlerGoes(k, "bye")
  /\ UNCHANGED <<mainVars, sharedVars, wireVars, workerVars, faultVars>>

SendBye(k) ==
  /\ hpc[k] = "bye" /\ open[k]
  /\ Send(k, Bye)
  /\ HandlerEnds(k)
  /\ UNCHANGED <<hround, toAssigner>>
  /\ UNCHANGED <<mainVars, sharedVars, workerVars, faultVars>>

(* The worker is gone: end of file, or a write that fails, which it need not. *)
ConnectionLost(k) ==
  /\ open[k] /\ Gone(k)
  /\ hpc[k] \in {"top", "bye"} \/ (hpc[k] = "recv" /\ ~HasAnswer(k))
  /\ HandlerRaises(k)

(* fail() has closed all connections.  The exception that follows calls fail()
   again, which finds nothing left to do. *)
ConnectionClosed(k) ==
  /\ hpc[k] \in {"top", "recv", "bye"} /\ ~open[k]
  /\ HandlerGoes(k, "ended")
  /\ UNCHANGED <<hround, wireVars, mainVars, sharedVars, workerVars, faultVars>>

HandlerTimeout(k) ==
  /\ hpc[k] \in {"top", "recv", "bye"} /\ k \in slow
  /\ HandlerRaises(k)

HandlerCloses(k) ==
  /\ hpc[k] = "closing"
  /\ CloseAll
  /\ HandlerGoes(k, "ended")
  /\ UNCHANGED <<hround, toWorker, toAssigner>>
  /\ UNCHANGED <<mainVars, sharedVars, workerVars, faultVars>>

HandlerStep(k) ==
  \/ HandlerReturns(k) \/ SendRound(k) \/ TakeResult(k) \/ Woken(k) \/ SendBye(k)
  \/ ConnectionLost(k) \/ ConnectionClosed(k) \/ HandlerTimeout(k) \/ HandlerCloses(k)

-----------------------------------------------------------------------------
(* Worker k: one thread that waits for a message and answers it *)

WorkerGoes(k, to) == wpc' = [wpc EXCEPT ![k] = to]

(* The listening socket is open only while workers are accepted. *)
SendHello(k) ==
  /\ wpc[k] = "new" /\ mpc = "accept"
  /\ toAssigner' = [toAssigner EXCEPT ![k] = Append(@, Hello)]
  /\ WorkerGoes(k, "hello")
  /\ UNCHANGED <<wround, wrows, open, toWorker>>
  /\ UNCHANGED <<mainVars, sharedVars, handlerVars, faultVars>>

ReadAssign(k) ==
  /\ wpc[k] = "hello" /\ HasMail(k) /\ Head(toWorker[k]).type = "ASSIGN"
  /\ toWorker' = [toWorker EXCEPT ![k] = Tail(@)]
  /\ wrows' = [wrows EXCEPT ![k] = Head(toWorker[k]).rows]
  /\ WorkerGoes(k, "ready")
  /\ UNCHANGED <<wround, open, toAssigner>>
  /\ UNCHANGED <<mainVars, sharedVars, handlerVars, faultVars>>

IsRequest(m, k) == m.type = "ROUND" /\ m.round = wround[k]

PlayRound(k) ==
  LET m == Head(toWorker[k]) IN
  /\ wpc[k] = "ready" /\ wround[k] < Rounds /\ HasMail(k) /\ IsRequest(m, k)
  /\ toWorker' = [toWorker EXCEPT ![k] = Tail(@)]
  /\ wrows' = [wrows EXCEPT ![k] = BoardStep(m.round, @, m.top, m.bottom, First(k), Past(k))]
  /\ wround' = [wround EXCEPT ![k] = @ + 1]
  /\ toAssigner' = [toAssigner EXCEPT ![k] = Append(@, Result(m.round, k, wrows'[k]))]
  /\ UNCHANGED <<wpc, open>>
  /\ UNCHANGED <<mainVars, sharedVars, handlerVars, faultVars>>

ReadBye(k) ==
  /\ wpc[k] = "ready" /\ wround[k] = Rounds /\ HasMail(k) /\ Head(toWorker[k]).type = "BYE"
  /\ toWorker' = [toWorker EXCEPT ![k] = Tail(@)]
  /\ WorkerGoes(k, "done")
  /\ UNCHANGED <<wround, wrows, open, toAssigner>>
  /\ UNCHANGED <<mainVars, sharedVars, handlerVars, faultVars>>

(* Anything but the message that is due. *)
WrongMessage(k) ==
  /\ HasMail(k)
  /\ \/ wpc[k] = "hello" /\ Head(toWorker[k]).type # "ASSIGN"
     \/ wpc[k] = "ready" /\ wround[k] < Rounds /\ ~IsRequest(Head(toWorker[k]), k)
     \/ wpc[k] = "ready" /\ wround[k] = Rounds /\ Head(toWorker[k]).type # "BYE"

(* The assigner's end is closed.  Closing a socket with unread bytes resets
   the connection, and what the worker has not read yet may be lost. *)
Closed(k) ==
  /\ ~open[k] /\ mpc # "accept"
  /\ wpc[k] = "new" \/ ~HasMail(k) \/ HasAnswer(k)

(* The process ends, and with it what it has not read. *)
WorkerEnds(k) ==
  /\ ~Gone(k)
  /\ WorkerGoes(k, "failed")
  /\ toWorker' = [toWorker EXCEPT ![k] = <<>>]
  /\ UNCHANGED <<wround, wrows, open, toAssigner, mainVars, sharedVars, handlerVars>>

WorkerFails(k) ==
  /\ WrongMessage(k) \/ Closed(k)
  /\ WorkerEnds(k)
  /\ UNCHANGED faultVars

WorkerTimeout(k) ==
  /\ slow # {}
  /\ WorkerEnds(k)
  /\ UNCHANGED faultVars

WorkerStep(k) ==
  \/ SendHello(k) \/ ReadAssign(k) \/ PlayRound(k) \/ ReadBye(k) \/ WorkerFails(k)

-----------------------------------------------------------------------------
(* Faults *)

CanFault ==
  Cardinality(crashed) + Cardinality(slow) + (IF mainFailed THEN 1 ELSE 0) < MaxFaults

(* The process ends: killed, Ctrl-C, a log it cannot write. *)
WorkerCrash(k) ==
  /\ CanFault
  /\ WorkerEnds(k)
  /\ crashed' = crashed \cup {k}
  /\ UNCHANGED <<slow, mainFailed>>

(* Worker k, or Main with its disk, takes longer than a timeout; a worker may
   never answer again.  Whoever waits for it, directly or at the barrier, may
   see its deadline pass. *)
BecomeSlow(k) ==
  /\ CanFault /\ k \notin slow
  /\ slow' = slow \cup {k}
  /\ UNCHANGED <<crashed, mainFailed>>
  /\ UNCHANGED <<mainVars, sharedVars, handlerVars, wireVars, workerVars>>

(* Main fails in save_snapshot before or after the file is written, in
   record_round, in start(), or is interrupted, also while it joins. *)
MainBreaks ==
  /\ CanFault /\ ~mainFailed
  /\ mpc \in {"initial", "start", "barrier", "record", "join"}
  /\ mainFailed' = TRUE
  /\ \/ UNCHANGED saved
     \/ /\ mpc = "record" /\ snapshot # <<>> /\ round = Full * Len(saved)
        /\ saved' = Append(saved, [state |-> round, rows |-> snapshot])
  /\ MainRaises
  /\ UNCHANGED <<crashed, slow>>

Next ==
  \/ MainStep
  \/ \E k \in Worker : HandlerStep(k) \/ WorkerStep(k) \/ WorkerTimeout(k) \/ WorkerCrash(k)
  \/ \E k \in Worker \cup {Main} : BecomeSlow(k)
  \/ MainBreaks

(* As long as a thread can take a step one of them does; a slow worker need not.
   No thread can be starved by the others: none of them runs for ever. *)
SystemStep ==
  MainStep \/ \E k \in Worker : HandlerStep(k) \/ (k \notin slow /\ WorkerStep(k))

Spec == Init /\ [][Next]_vars
FairSpec == Spec /\ WF_vars(SystemStep)

-----------------------------------------------------------------------------
(* Properties *)

Reference == INSTANCE LifeReference WITH state <- round, board <- History[round]

(* Every variable has its type (state of run_rounds, Handler and Worker). *)
LifeTypeOK ==
  /\ mpc \in {"accept", "assign", "initial", "start", "barrier", "record",
              "closing", "join", "ended"}
  /\ cursor \in 0..N /\ mwaits \in BOOLEAN
  /\ round \in 0..Rounds /\ arrived \in 0..N /\ error \in -1..N
  /\ seen \in [Worker -> -1..Rounds - 1]
  /\ \A k \in Worker : edges[k] = <<>> \/ edges[k] \in Row \X Row
  /\ halos \in [Worker -> Row \X Row] /\ frame \in Picture
  /\ snapshot = <<>> \/ snapshot \in Picture
  /\ \A j \in DOMAIN saved : saved[j].state \in 0..Rounds /\ saved[j].rows \in Picture
  /\ hpc \in [Worker -> {"idle", "top", "recv", "waiting", "woken", "bye", "closing", "ended"}]
  /\ hround \in [Worker -> 0..Rounds - 1] /\ open \in [Worker -> BOOLEAN]
  /\ wpc \in [Worker -> {"new", "hello", "ready", "done", "failed"}]
  /\ wround \in [Worker -> 0..Rounds]
  /\ \A k \in Worker : Len(toWorker[k]) <= 2 /\ Len(toAssigner[k]) <= 1
  /\ crashed \subseteq Worker /\ slow \subseteq 0..N /\ mainFailed \in BOOLEAN

(* However the threads, the workers and the failures interleave, the run is a
   prefix of the reference computation: a round is only left when every band
   has played it with the halos of that round, and the snapshots saved while
   the next round is already running are the reference boards, complete and in
   order. *)
ImplementsReference == Reference!RefSpec

(* The error that run_rounds raises, the first one, names a worker that did
   fail: a failure never gets another worker blamed, and nothing the threads do
   to each other (closing sockets, waking, arriving late) raises an error of
   its own. *)
RightBlame ==
  error # NoError /\ slow = {} =>
    IF error = Main THEN mainFailed \/ (saved = <<>> /\ crashed # {})
                    ELSE error \in crashed

(* Whatever fails, every thread is woken and joined, the run returns, and every
   worker ends, except one that hangs; nobody waits for ever at the barrier, on
   a socket or in join(). *)
EveryoneEnds ==
  <>(/\ mpc = "ended"
     /\ \A k \in Worker : hpc[k] \in {"idle", "ended"} /\ (Gone(k) \/ k \in slow))
=============================================================================
