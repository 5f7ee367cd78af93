---------------------------- MODULE TaskTransfer ----------------------------
(* HW1: the master (master.py) hands tasks to workers (worker.py), a worker
   whose ready queue is long passes tasks directly to the worker with the
   shortest one (p2p.py), and the master records who owns what.

   Threads.  The master handles one message after another; the receive threads
   only fill its inbox.  A worker has three: the one that handles the master's
   messages (the Handle* actions), one per P2P check (BeginCheck .. Conclude)
   and one per peer connection (StartReceive, FinishReceive).  They share the
   worker's state under _state_lock and ready_queue._lock; a step here is what
   one of them does between two waits.  Both directions of a master connection
   are FIFO; different workers' messages reach the inbox in any order.

   Virtual time is left out except for the periodic checks, which become due
   whenever the clock passes them: at any message (the parameter ticks).  The
   60 s timeouts towards the master are not modelled, the 5 s one of the P2P
   requests is: any answer may be late or lost.  A raised exception ends the
   run (verdict "error"): the sockets are closed and everybody follows. *)
EXTENDS Integers, Sequences, FiniteSets, SequencesExt, FiniteSetsExt

CONSTANTS
  N,            \* number of workers (4 in the code)
  NumTasks,     \* number of tasks (count)
  QueueSize,    \* MAX_QUEUE_SIZE, 10 in the code
  Heavy,        \* the smallest size with size * 2 > 15, 8 in the code
  MaxEvents     \* bound: P2P checks, failed processings and P2P requests or
                \* answers that are lost or late, all together

ASSUME TransferAssumption ==
  /\ N \in Nat \ {0, 1} /\ NumTasks \in Nat \ {0} /\ QueueSize \in Nat \ {0}
  /\ Heavy \in 1..QueueSize /\ MaxEvents \in Nat

Worker == 1..N
Key == 1..NumTasks
Check == 1..MaxEvents      \* a P2P_CHECK, and the transfer that it leads to
None == 0
Statuses == {"NONE", "UNKNOWN", "ACCEPTED", "REJECTED"}

(* A task as it travels and waits is [key, attempt, failed, held]: failed is
   failed_retry, held is reserved_transfer_id. *)

VARIABLES
  master,      \* the state of the Master object
  worker,      \* worker[w]: the state of a Worker and of its P2PNode
  toWorker,    \* toWorker[w]: messages on their way from the master to w
  toMaster,    \* toMaster[w]: messages on their way from w to the master
  requests,    \* P2P_TRANSFER requests that have not been served
  faults,      \* number of P2P answers lost so far
  verdict      \* "running", "done", "unknown" (P2P_FAILURE) or "error"

vars == <<master, worker, toWorker, toMaster, requests, faults, verdict>>

(* What may still happen within the bound; a check that is due counts. *)
Left ==
  MaxEvents - faults - master.checks - Cardinality(master.due)
    - Cardinality({e \in Worker \X (1..MaxEvents) : e[2] <= worker[e[1]].failures})

-----------------------------------------------------------------------------
(* The ready queue *)

Free(queue) == {i \in DOMAIN queue : queue[i].held = None}

(* Mutant: the promised slots are forgotten. *)
HasRoomNow(v, count) ==
  Len(v.queue) + count <= QueueSize

(* has_capacity, with the slots promised to unconfirmed tasks and transfers. *)
HasRoom(v, count) ==
  Len(v.queue) + Cardinality(v.accepted) + v.incoming + count <= QueueSize

(* Mutant: reserved tasks are taken too. *)
NextOfAll(queue) ==
  LET again == {i \in DOMAIN queue : queue[i].failed}
  IN  Min(IF again # {} THEN again ELSE DOMAIN queue)

(* The position that dequeue takes: failed tasks first, then the oldest. *)
NextIndex(queue) ==
  LET again == {i \in Free(queue) : queue[i].failed}
  IN  Min(IF again # {} THEN again ELSE Free(queue))

(* The last count tasks that are not reserved become reserved for id. *)
Reserve(queue, id, count) ==
  LET chosen == {i \in Free(queue) : Cardinality({j \in Free(queue) : j >= i}) <= count}
  IN  [i \in DOMAIN queue |-> IF i \in chosen THEN [queue[i] EXCEPT !.held = id] ELSE queue[i]]

(* The tasks at the positions in chosen, in order.  (SelectSeq and RemoveAt as a
   recursive function, which can be proved about.) *)
Pick(queue, chosen) ==
  LET first[n \in 0..Len(queue)] ==
        IF n = 0 THEN <<>>
        ELSE IF n \in chosen THEN Append(first[n - 1], queue[n]) ELSE first[n - 1]
  IN  first[Len(queue)]

(* The tasks reserved for id, the last first: what reserve_for_transfer returns. *)
ReservedFor(queue, id) == Reverse(Pick(queue, {i \in DOMAIN queue : queue[i].held = id}))

ConfirmTransfer(queue, id) == Pick(queue, {i \in DOMAIN queue : queue[i].held # id})

CancelTransfer(queue, id) ==
  [i \in DOMAIN queue |-> IF queue[i].held = id THEN [queue[i] EXCEPT !.held = None] ELSE queue[i]]

-----------------------------------------------------------------------------
(* The master.  An operator on s = [m, wire] gives the master's state and the
   messages to the workers after a part of a handler. *)

Send(s, w, message) == [s EXCEPT !.wire[w] = Append(@, message)]

(* update_queue: sizes arrive in the order of their versions, since a worker
   reports them under its lock; a slot set aside for an assigned task is freed
   by the report that answers its TASK_CONFIRMED. *)
UpdateQueue(m, w, message) ==
  [m EXCEPT !.size[w] = message.size, !.pending[w] = @ \ message.confirms]

QueueLoad(m, w) == m.size[w] + Cardinality(m.pending[w])

(* choose_worker: the least loaded one, the next in turn among equals. *)
Candidates(m, excluded) == {w \in Worker \ {excluded} : QueueLoad(m, w) < QueueSize}
ChooseWorker(m, excluded) ==
  LET Turn(w) == (w - m.last - 1) % N
  IN  CHOOSE w \in Candidates(m, excluded) : \A u \in Candidates(m, excluded) :
        QueueLoad(m, w) < QueueLoad(m, u)
          \/ (QueueLoad(m, w) = QueueLoad(m, u) /\ Turn(w) <= Turn(u))

Waiting(m) == m.retry \o m.fresh
NoCheck(m) == \A w \in Worker : m.check[w] = None
AllDone(m) == \A k \in Key : m.task[k].state = "DONE"

(* One round of the loop of distribute; nothing overtakes the first task. *)
AssignNext(s) ==
  LET m == s.m
      k == Head(Waiting(m))
      t == m.task[k]
      w == ChooseWorker(m, t.failedAt)
  IN  IF Waiting(m) = <<>> \/ Candidates(m, t.failedAt) = {} THEN s
      ELSE Send([m |-> [m EXCEPT
                     !.retry = IF @ = <<>> THEN @ ELSE Tail(@),
                     !.fresh = IF m.retry = <<>> THEN Tail(@) ELSE @,
                     !.task[k] = [t EXCEPT !.state = "SENT", !.owner = w, !.attempt = @ + 1],
                     !.pending[w] = @ \cup {k},
                     !.last = w],
                   wire |-> s.wire],
             w, [type |-> "TASK",
                 task |-> [key |-> k, attempt |-> t.attempt + 1,
                           failed |-> t.failedAt # None, held |-> None]])

(* The state after n rounds of the loop.  (A singleton set makes TLC evaluate a
   state once, not at every mention.) *)
Distribute(s) ==
  LET after[n \in 0..Len(Waiting(s.m))] ==
        IF n = 0 THEN s ELSE CHOOSE y \in {AssignNext(z) : z \in {after[n - 1]}} : TRUE
  IN  IF s.m.ready # Worker \/ ~NoCheck(s.m) THEN s ELSE after[Len(Waiting(s.m))]

FinishIfReady(s) ==
  IF ~AllDone(s.m) \/ s.m.times # {} \/ ~NoCheck(s.m) THEN s
  ELSE [m |-> [s.m EXCEPT !.stopping = TRUE],
        wire |-> [w \in Worker |-> Append(s.wire[w], [type |-> "STOP"])]]

IsHeavy(m, w) == m.size[w] >= Heavy

(* check_load asks every worker whose check is due, and still heavy, at once. *)
CheckLoad(s) ==
  LET m == s.m
      asked == {w \in m.due : IsHeavy(m, w)}
      Id(w) == m.checks + Cardinality({u \in asked : u <= w})
  IN  IF m.stopping \/ AllDone(m) \/ m.ready # Worker \/ ~NoCheck(m) THEN s
      ELSE [m |-> [m EXCEPT !.due = {}, !.checks = @ + Cardinality(asked),
                            !.check = [w \in Worker |-> IF w \in asked THEN Id(w) ELSE None]],
            wire |-> [w \in Worker |->
              IF w \in asked THEN Append(s.wire[w], [type |-> "P2P_CHECK", id |-> Id(w)])
                             ELSE s.wire[w]]]

(* add_time: checks of heavy workers become due. *)
Tick(s, ticks) == [m |-> [s.m EXCEPT !.due = @ \cup ticks], wire |-> s.wire]
Due(m) ==
  IF m.stopping \/ m.ready # Worker THEN {}
  ELSE {w \in Worker \ m.due : IsHeavy(m, w) /\ m.check[w] = None}

(* The rest of the loop of run after a message of w was handled. *)
EndOfRound(w, s) ==
  \E handled \in {s} :
  \E distributed \in {IF handled.m.stopping THEN handled ELSE FinishIfReady(Distribute(handled))} :
  \E ticks \in SUBSET Due(distributed.m) :
    /\ Cardinality(ticks) <= Left
    /\ \E checked \in {CheckLoad(Tick(distributed, ticks))} :
         master' = checked.m /\ toWorker' = checked.wire
    /\ toMaster' = [toMaster EXCEPT ![w] = Tail(@)]
    /\ UNCHANGED <<worker, requests, faults, verdict>>

(* An exception leaves run: the run has failed. *)
Raise(reason) ==
  /\ verdict' = reason
  /\ UNCHANGED <<master, worker, toWorker, toMaster, requests, faults>>

Now(m) == [m |-> m, wire |-> toWorker]
FromWorker(w, type) ==
  verdict = "running" /\ toMaster[w] # <<>> /\ Head(toMaster[w]).type = type

-----------------------------------------------------------------------------
(* The master's handlers *)

Ready(w) ==
  /\ FromWorker(w, "READY")
  /\ EndOfRound(w, Now([master EXCEPT !.ready = @ \cup {w}]))

QueueStatus(w) ==
  /\ FromWorker(w, "QUEUE_STATUS")
  /\ EndOfRound(w, Now(UpdateQueue(master, w, Head(toMaster[w]))))

TaskAck(w) ==
  /\ FromWorker(w, "TASK_ACK")
  /\ LET message == Head(toMaster[w])
         m == UpdateQueue(master, w, message)
         k == message.task.key
         t == master.task[k]
     IN  EndOfRound(w,
           IF t.owner # w \/ t.attempt # message.task.attempt \/ t.state # "SENT" THEN Now(m)
           ELSE IF message.accepted
           THEN Send(Now([m EXCEPT
                       !.task[k].state = "ACCEPTED",
                       !.tally[w].reassigned = @ + IF t.failedAt # None THEN 1 ELSE 0]),
                     w, [type |-> "TASK_CONFIRMED", task |-> message.task])
           ELSE Now([m EXCEPT
                  !.task[k] = [t EXCEPT !.state = "WAITING", !.owner = None],
                  !.pending[w] = @ \ {k}, !.retry = Append(@, k)]))

ProcessingStart(w) ==
  /\ FromWorker(w, "PROCESS_START")
  /\ LET message == Head(toMaster[w])
         k == message.task.key
         t == master.task[k]
     IN  IF \/ t.owner # w \/ t.attempt # message.task.attempt
            \/ t.state # "ACCEPTED" \/ master.active[w] # None
         THEN Raise("error")
         ELSE EndOfRound(w, Send(Now([UpdateQueue(master, w, message) EXCEPT
                                    !.task[k].state = "PROCESSING", !.active[w] = k]),
                                 w, [type |-> "PROCESS_ACK", task |-> message.task]))

TaskResult(w) ==
  /\ FromWorker(w, "RESULT")
  /\ LET message == Head(toMaster[w])
         m == UpdateQueue(master, w, message)
         k == message.task.key
         t == master.task[k]
     IN  IF t.attempt # message.task.attempt \/ t.state \in {"DONE", "WAITING"}
         THEN EndOfRound(w, Now(m))
         ELSE IF t.owner # w THEN Raise("error")
         ELSE EndOfRound(w,
           IF message.success
           THEN Now([m EXCEPT
                  !.active[w] = None, !.task[k].state = "DONE", !.tally[w].success = @ + 1])
           ELSE Now([m EXCEPT
                  !.active[w] = None, !.tally[w].failures = @ + 1,
                  !.task[k] = [t EXCEPT !.state = "WAITING", !.owner = None, !.failedAt = w],
                  !.retry = Append(@, k)]))

TransferTime(w) ==
  /\ FromWorker(w, "P2P_TIME")
  /\ LET message == Head(toMaster[w])
         known == {x \in master.times : x.id = message.id}
         s == Now([master EXCEPT !.times = (@ \ known) \cup
                 {[id |-> message.id, source |-> message.source, target |-> message.target,
                   arrived |-> message.phase = "RECV"]}])
     IN  IF IF message.phase = "SEND"
            THEN \/ w # message.source \/ master.check[w] = None
                 \/ known # {} \/ message.id \in master.transfers
            ELSE \/ w # message.target
                 \/ known # {[id |-> message.id, source |-> message.source,
                              target |-> w, arrived |-> FALSE]}
         THEN Raise("error")
         ELSE EndOfRound(w, Send(s, w, [type |-> "TIME_ACK", id |-> message.id,
                                        phase |-> message.phase]))

(* transfer_result: the tasks change their owner, then the source and the
   target are told. *)
TransferResult(w) ==
  /\ FromWorker(w, "P2P_TRANSFER")
  /\ LET message == Head(toMaster[w])
         moved == {t.key : t \in Range(message.tasks)}
         times == {[id |-> message.id, source |-> w, target |-> message.target, arrived |-> TRUE]}
         tally == [z \in Worker |-> IF z \in {w, message.target}
                                   THEN [master.tally[z] EXCEPT !.moved = @ + 1]
                                   ELSE master.tally[z]]
         s == Now([master EXCEPT
                !.check[w] = None,
                !.transfers = @ \cup {message.id},
                !.times = @ \ times,
                !.tally = tally,
                !.task = [k \in Key |-> IF k \in moved THEN [@[k] EXCEPT !.owner = message.target]
                                                       ELSE @[k]]])
         confirmed == [type |-> "TRANSFER_CONFIRMED", id |-> message.id]
     IN  IF message.id \in master.transfers THEN EndOfRound(w, Now(master))
         ELSE IF \/ message.id # master.check[w] \/ ~(times \subseteq master.times)
                 \/ Cardinality(moved) # Len(message.tasks) \/ moved = {}
                 \/ \E t \in Range(message.tasks) :
                      LET known == master.task[t.key]
                      IN  known.owner # w \/ known.attempt # t.attempt \/ known.state # "ACCEPTED"
         THEN Raise("error")
         ELSE EndOfRound(w, Send(Send(s, w, confirmed), message.target, confirmed))

(* The P2P_COST branch of handle_message: no transfer, or one that was refused. *)
PeerCost(w) ==
  /\ FromWorker(w, "P2P_COST")
  /\ LET message == Head(toMaster[w])
         cancelled == {x \in master.times : x.id = message.id}
     IN  IF \/ message.id # master.check[w]
            \/ message.cancels /\ (cancelled = {}
                 \/ \E x \in cancelled : x.source # w \/ x.arrived)
         THEN Raise("error")
         ELSE EndOfRound(w, Now([master EXCEPT !.check[w] = None,
                               !.times = IF message.cancels THEN @ \ cancelled ELSE @]))

(* transfer_failure: nobody knows who has the tasks, so the run is given up. *)
TransferFailure(w) ==
  /\ FromWorker(w, "P2P_FAILURE")
  /\ LET message == Head(toMaster[w])
     IN  Raise(IF \/ master.stopping \/ message.id # master.check[w]
                  \/ ~\E x \in master.times :
                        x.id = message.id /\ x.source = w /\ x.target = message.target
               THEN "error" ELSE "unknown")

(* stop_ack compares both sides' statistics; after the last one run returns
   (FINAL_STATS and the closing of the connections are left out). *)
StopAck(w) ==
  /\ FromWorker(w, "STOP_ACK")
  /\ IF ~master.stopping \/ Head(toMaster[w]).stats # master.tally[w]
     THEN Raise("error")
     ELSE /\ master' = [master EXCEPT !.stopped = @ \cup {w}]
          /\ toMaster' = [toMaster EXCEPT ![w] = Tail(@)]
          /\ verdict' = IF master.stopped \cup {w} = Worker THEN "done" ELSE verdict
          /\ UNCHANGED <<worker, toWorker, requests, faults>>

HandleMessage(w) ==
  \/ Ready(w) \/ QueueStatus(w) \/ TaskAck(w) \/ ProcessingStart(w) \/ TaskResult(w)
  \/ TransferTime(w) \/ TransferResult(w) \/ PeerCost(w) \/ TransferFailure(w) \/ StopAck(w)

-----------------------------------------------------------------------------
(* The worker.  An operator on v gives the worker's state after a part of a
   handler. *)

Idle == [pc |-> "idle", id |-> None, size |-> 0, left |-> {}, seen |-> {}, target |-> None,
         tries |-> 0, answer |-> "NONE"]

Status(v, confirms) == [type |-> "QUEUE_STATUS", size |-> Len(v.queue), confirms |-> confirms]

Statistics(v) ==
  [success |-> Cardinality(v.stored), failures |-> v.failures,
   moved |-> Cardinality(v.events), reassigned |-> Cardinality(v.reassigned)]

CanStart(v) ==
  v.ready /\ ~v.stopping /\ ~v.broken /\ v.current = <<>> /\ Free(v.queue) # {}

(* The messages are sent, then start_next_task runs. *)
SendAndStart(w, v, messages) ==
  LET next == NextIndex(v.queue)
      rest == Pick(v.queue, DOMAIN v.queue \ {next})
  IN  IF CanStart(v)
      THEN /\ worker' = [worker EXCEPT ![w] =
                           [v EXCEPT !.queue = rest, !.current = <<v.queue[next]>>]]
           /\ toMaster' = [toMaster EXCEPT ![w] = @ \o Append(messages,
                             [type |-> "PROCESS_START", task |-> v.queue[next],
                              size |-> Len(rest), confirms |-> {}])]
      ELSE /\ worker' = [worker EXCEPT ![w] = v]
           /\ toMaster' = [toMaster EXCEPT ![w] = @ \o messages]

FromMaster(w, type) ==
  verdict = "running" /\ toWorker[w] # <<>> /\ Head(toWorker[w]).type = type

(* The rest of _handle_master_message. *)
Answer(w, v, messages) ==
  /\ SendAndStart(w, v, messages)
  /\ toWorker' = [toWorker EXCEPT ![w] = Tail(@)]
  /\ UNCHANGED <<master, faults, verdict>>

HandlePeers(w) ==
  /\ FromMaster(w, "PEERS")
  /\ Answer(w, [worker[w] EXCEPT !.ready = TRUE], <<[type |-> "READY"]>>)
  /\ UNCHANGED requests

HandleTask(w) ==
  /\ FromMaster(w, "TASK")
  /\ LET v == worker[w]
         task == Head(toWorker[w]).task
         ack == [type |-> "TASK_ACK", task |-> task, accepted |-> HasRoom(v, 1),
                 size |-> Len(v.queue), confirms |-> {}]
     IN  Answer(w, IF ack.accepted THEN [v EXCEPT !.accepted = @ \cup {task}] ELSE v, <<ack>>)
  /\ UNCHANGED requests

HandleTaskConfirmed(w) ==
  /\ FromMaster(w, "TASK_CONFIRMED")
  /\ LET task == Head(toWorker[w]).task
         v == [worker[w] EXCEPT
                !.queue = Append(@, task), !.accepted = @ \ {task},
                !.reassigned = IF task.failed THEN @ \cup {<<task.key, task.attempt>>} ELSE @]
     IN  IF task \notin worker[w].accepted \/ Len(worker[w].queue) >= QueueSize
         THEN Raise("error")
         ELSE Answer(w, v, <<Status(v, {task.key})>>) /\ UNCHANGED requests

HandleProcessAck(w) ==
  /\ FromMaster(w, "PROCESS_ACK")
  /\ LET v == worker[w]
         task == Head(toWorker[w]).task
     IN  IF v.current # <<task>> THEN Raise("error")
         ELSE \E success \in BOOLEAN :
           /\ ~success => Left > 0
           /\ Answer(w, [v EXCEPT !.current = <<>>,
                                  !.stored = IF success THEN @ \cup {task.key} ELSE @,
                                  !.failures = IF success THEN @ ELSE @ + 1],
                     <<[type |-> "RESULT", task |-> task, success |-> success,
                        size |-> Len(v.queue), confirms |-> {}]>>)
           /\ UNCHANGED requests

(* A check thread is started; the request itself starts no task. *)
HandleP2PCheck(w) ==
  /\ FromMaster(w, "P2P_CHECK")
  /\ IF worker[w].check.pc # "idle" THEN Raise("error")
     ELSE /\ worker' = [worker EXCEPT ![w].check =
                          [Idle EXCEPT !.pc = "begin", !.id = Head(toWorker[w]).id]]
          /\ toWorker' = [toWorker EXCEPT ![w] = Tail(@)]
          /\ UNCHANGED <<master, toMaster, requests, faults, verdict>>

(* The thread that waits for the time goes on: the check thread sends the tasks
   it reserved, the peer thread may queue the ones it received. *)
HandleTimeAck(w) ==
  /\ FromMaster(w, "TIME_ACK")
  /\ LET v == worker[w]
         id == Head(toWorker[w]).id
     IN  IF Head(toWorker[w]).phase = "SEND"
         THEN /\ Answer(w, [v EXCEPT !.check.pc = "transfer"], <<>>)
              /\ requests' = requests \cup
                   {[id |-> id, source |-> w, target |-> v.check.target,
                     tasks |-> ReservedFor(v.queue, id)]}
         ELSE /\ Answer(w, [v EXCEPT !.receiving[1].timed = TRUE], <<>>)
              /\ UNCHANGED requests

(* The master has recorded the transfer: the source forgets it, the target may
   run the tasks. *)
HandleTransferConfirmed(w) ==
  /\ FromMaster(w, "TRANSFER_CONFIRMED")
  /\ LET id == Head(toWorker[w]).id
         v == worker[w]
         released == [v EXCEPT !.queue = CancelTransfer(@, id), !.events = @ \cup {id}]
     IN  IF id \in v.sent THEN Answer(w, [v EXCEPT !.sent = @ \ {id}], <<>>) /\ UNCHANGED requests
         ELSE IF ReservedFor(v.queue, id) = <<>> THEN Raise("error")
         ELSE Answer(w, released, <<Status(released, {})>>) /\ UNCHANGED requests

HandleStop(w) ==
  /\ FromMaster(w, "STOP")
  /\ Answer(w, [worker[w] EXCEPT !.stopping = TRUE],
            <<[type |-> "STOP_ACK", stats |-> Statistics(worker[w])]>>)
  /\ UNCHANGED requests

-----------------------------------------------------------------------------
(* The check thread of a worker, _run_p2p_check *)

At(w, pc) == verdict = "running" /\ worker[w].check.pc = pc

(* Mutant: no task is started after a check. *)
ReportOnly(w, v, messages, report) ==
  /\ worker' = [worker EXCEPT ![w] = [v EXCEPT !.check = Idle,
                                               !.broken = report.type = "P2P_FAILURE"]]
  /\ toMaster' = [toMaster EXCEPT ![w] = @ \o Append(messages, report)]
  /\ UNCHANGED <<master, toWorker, requests, faults, verdict>>

(* _finish_p2p_check: the outcome is reported and the next task started. *)
FinishCheck(w, v, messages, report) ==
  /\ SendAndStart(w, [v EXCEPT !.check = Idle, !.broken = report.type = "P2P_FAILURE"],
                  Append(messages, report))
  /\ UNCHANGED <<master, toWorker, requests, faults, verdict>>

NoTransfer(id, cancels) == [type |-> "P2P_COST", id |-> id, cancels |-> cancels]

BeginCheck(w) ==
  /\ At(w, "begin")
  /\ LET v == worker[w]
     IN  IF Len(v.queue) < Heavy THEN FinishCheck(w, v, <<>>, NoTransfer(v.check.id, FALSE))
         ELSE /\ worker' = [worker EXCEPT ![w].check =
                              [@ EXCEPT !.pc = "query", !.size = Len(v.queue),
                                        !.left = Worker \ {w}]]
              /\ UNCHANGED <<master, toWorker, toMaster, requests, faults, verdict>>

(* _query_queue: the peers are asked one after the other; one may not answer. *)
QueryPeer(w) ==
  /\ At(w, "query")
  /\ LET peer == Min(worker[w].check.left)
         asked == [worker[w].check EXCEPT
                    !.left = @ \ {peer}, !.pc = IF worker[w].check.left = {peer} THEN "reserve" ELSE @]
     IN  \/ /\ worker' = [worker EXCEPT ![w].check =
                            [asked EXCEPT !.seen = @ \cup {[peer |-> peer, size |-> Len(worker[peer].queue)]}]]
            /\ UNCHANGED faults
         \/ /\ Left > 0
            /\ faults' = faults + 1
            /\ worker' = [worker EXCEPT ![w].check = asked]
  /\ UNCHANGED <<master, toWorker, toMaster, requests, verdict>>

(* find_transfer_target: the shortest queue seen, the smaller worker first. *)
FindTarget(seen) ==
  CHOOSE x \in seen : \A y \in seen : x.size < y.size \/ (x.size = y.size /\ x.peer <= y.peer)

(* The tasks are reserved, as many as half the difference still allows, and the
   master is asked for the time of sending. *)
ChooseAndReserve(w) ==
  /\ At(w, "reserve")
  /\ LET v == worker[w]
         id == v.check.id
         target == FindTarget(v.check.seen)
         count == Min({(v.check.size - target.size) \div 2, QueueSize - target.size,
                       (Len(v.queue) - target.size) \div 2})
         reserved == [v EXCEPT !.queue = Reserve(@, id, count), !.check =
                        [Idle EXCEPT !.pc = "time", !.id = id, !.target = target.peer]]
     IN  IF \/ Len(v.queue) < Heavy \/ v.check.seen = {} \/ count <= 0
            \/ Free(v.queue) = {}
         THEN FinishCheck(w, v, <<>>, NoTransfer(id, FALSE))
         ELSE /\ worker' = [worker EXCEPT ![w] = reserved]
              /\ toMaster' = [toMaster EXCEPT ![w] = @ \o
                   <<Status(reserved, {}),
                     [type |-> "P2P_TIME", id |-> id, source |-> w, target |-> target.peer,
                      phase |-> "SEND"]>>]
              /\ UNCHANGED <<master, toWorker, requests, faults, verdict>>

(* Mutants: no answer counts as an acceptance, or as a refusal. *)
AssumeReceived(check) ==
  [check EXCEPT !.pc = "known", !.answer = "ACCEPTED"]
AssumeRefused(check) ==
  [check EXCEPT !.pc = "known", !.answer = "REJECTED"]

(* No answer to one more status query; the third time is the last. *)
NoAnswer(check) ==
  IF check.tries = 2 THEN [check EXCEPT !.pc = "known", !.answer = "UNKNOWN"]
                     ELSE [check EXCEPT !.tries = @ + 1]

(* check_transfer: the target answers when no transfer is being received. *)
AskStatus(w) ==
  /\ At(w, "status")
  /\ LET check == worker[w].check
         peer == worker[check.target]
     IN  /\ peer.receiving = <<>>
         /\ worker' = [worker EXCEPT ![w].check =
              IF peer.received[check.id] \in {"ACCEPTED", "REJECTED"}
              THEN [check EXCEPT !.pc = "known", !.answer = peer.received[check.id]]
              ELSE NoAnswer(check)]
  /\ UNCHANGED <<master, toWorker, toMaster, requests, faults, verdict>>

(* A P2P request is given up after 5 s: it may be lost, still be on its way, or
   have been served while its answer is late or lost. *)
Timeout(w) ==
  /\ Left > 0
  /\ faults' = faults + 1
  /\ \/ /\ At(w, "transfer")
        /\ requests' \in {requests, {r \in requests : r.source # w}}
        /\ worker' = [worker EXCEPT ![w].check.pc = "status"]
     \/ /\ At(w, "status")
        /\ worker' = [worker EXCEPT ![w].check = NoAnswer(@)]
        /\ UNCHANGED requests
  /\ UNCHANGED <<master, toWorker, toMaster, verdict>>

(* The fate of the transfer is known, or will never be. *)
Conclude(w) ==
  /\ At(w, "known")
  /\ LET v == worker[w]
         id == v.check.id
         confirmed == [v EXCEPT !.queue = ConfirmTransfer(@, id),
                                !.events = @ \cup {id}, !.sent = @ \cup {id}]
         cancelled == [v EXCEPT !.queue = CancelTransfer(@, id)]
     IN  CASE v.check.answer = "ACCEPTED" ->
                FinishCheck(w, confirmed, <<Status(confirmed, {})>>,
                  [type |-> "P2P_TRANSFER", id |-> id, target |-> v.check.target,
                   tasks |-> ReservedFor(v.queue, id)])
           [] v.check.answer = "REJECTED" ->
                FinishCheck(w, cancelled, <<Status(cancelled, {})>>, NoTransfer(id, TRUE))
           [] OTHER ->
                FinishCheck(w, v, <<>>,
                  [type |-> "P2P_FAILURE", id |-> id, target |-> v.check.target])

-----------------------------------------------------------------------------
(* The peer threads of a worker; transfer_lock lets one receive at a time. *)

(* The answer reaches the source, unless it has given up waiting. *)
Reply(r, answer) ==
  LET check == worker[r.source].check
  IN  IF check.pc = "transfer" /\ check.id = r.id
      THEN [check EXCEPT !.pc = "known", !.answer = answer] ELSE check

StartReceive(w) ==
  /\ verdict = "running" /\ worker[w].receiving = <<>>
  /\ \E r \in requests :
       /\ r.target = w
       /\ requests' = requests \ {r}
       /\ IF HasRoom(worker[w], Len(r.tasks))
          THEN /\ worker' = [worker EXCEPT
                    ![w].incoming = @ + Len(r.tasks),
                    ![w].received[r.id] = "UNKNOWN",
                    ![w].receiving = <<[request |-> r, timed |-> FALSE]>>]
               /\ toMaster' = [toMaster EXCEPT ![w] = Append(@,
                    [type |-> "P2P_TIME", id |-> r.id, source |-> r.source, target |-> w,
                     phase |-> "RECV"])]
          ELSE /\ worker' = [worker EXCEPT ![w].received[r.id] = "REJECTED",
                                           ![r.source].check = Reply(r, "REJECTED")]
               /\ UNCHANGED toMaster
  /\ UNCHANGED <<master, toWorker, faults, verdict>>

(* The tasks are queued, reserved until the master confirms the transfer. *)
FinishReceive(w) ==
  /\ verdict = "running" /\ worker[w].receiving # <<>> /\ worker[w].receiving[1].timed
  /\ LET v == worker[w]
         r == v.receiving[1].request
         count == Len(r.tasks)
     IN  IF Len(v.queue) + count > QueueSize THEN Raise("error")
         ELSE /\ worker' = [worker EXCEPT
                   ![w] = [v EXCEPT !.queue = @ \o r.tasks, !.incoming = @ - count,
                                    !.received[r.id] = "ACCEPTED", !.receiving = <<>>],
                   ![r.source].check = Reply(r, "ACCEPTED")]
              /\ toMaster' = [toMaster EXCEPT ![w] = @ \o
                   [i \in 1..count |-> [type |-> "QUEUE_STATUS", size |-> Len(v.queue) + i,
                                        confirms |-> {}]]]
              /\ UNCHANGED <<master, toWorker, requests, faults, verdict>>

-----------------------------------------------------------------------------
(* The specification: the four workers have registered and are sent PEERS. *)

NewTask == [state |-> "WAITING", owner |-> None, attempt |-> 0, failedAt |-> None]
NewWorker ==
  [ready |-> FALSE, queue |-> <<>>, accepted |-> {}, incoming |-> 0, current |-> <<>>,
   broken |-> FALSE, stopping |-> FALSE, stored |-> {}, failures |-> 0, events |-> {},
   sent |-> {}, reassigned |-> {}, check |-> Idle,
   received |-> [id \in Check |-> "NONE"], receiving |-> <<>>]

Init ==
  /\ master = [ready |-> {}, task |-> [k \in Key |-> NewTask],
               fresh |-> [i \in Key |-> i], retry |-> <<>>,
               size |-> [w \in Worker |-> 0], pending |-> [w \in Worker |-> {}],
               last |-> 0, due |-> {}, check |-> [w \in Worker |-> None], checks |-> 0,
               active |-> [w \in Worker |-> None], times |-> {}, transfers |-> {},
               tally |-> [w \in Worker |-> [success |-> 0, failures |-> 0, moved |-> 0,
                                            reassigned |-> 0]],
               stopping |-> FALSE, stopped |-> {}]
  /\ worker = [w \in Worker |-> NewWorker]
  /\ toWorker = [w \in Worker |-> <<[type |-> "PEERS"]>>]
  /\ toMaster = [w \in Worker |-> <<>>]
  /\ requests = {} /\ faults = 0 /\ verdict = "running"

WorkerStep(w) ==
  \/ HandlePeers(w) \/ HandleTask(w) \/ HandleTaskConfirmed(w) \/ HandleProcessAck(w)
  \/ HandleP2PCheck(w) \/ HandleTimeAck(w) \/ HandleTransferConfirmed(w) \/ HandleStop(w)

PeerStep(w) ==
  \/ BeginCheck(w) \/ QueryPeer(w) \/ ChooseAndReserve(w) \/ AskStatus(w) \/ Conclude(w)
  \/ StartReceive(w) \/ FinishReceive(w)

SystemStep == \E w \in Worker : HandleMessage(w) \/ WorkerStep(w) \/ PeerStep(w)

Next == SystemStep \/ \E w \in Worker : Timeout(w)

Spec == Init /\ [][Next]_vars

(* As long as a thread can take a step, one of them does: they wait for each
   other's messages only, and none of them runs for ever. *)
FairSpec == Spec /\ WF_vars(SystemStep)

-----------------------------------------------------------------------------
(* Properties *)

(* Every variable has its type; the tasks a worker has queued, accepted and
   agreed to receive never exceed the ready queue, and the master never sets
   aside more slots than there are. *)
TransferTypeOK ==
  /\ master.task \in [Key -> [state : {"WAITING", "SENT", "ACCEPTED", "PROCESSING", "DONE"},
                              owner : Worker \cup {None}, attempt : Nat,
                              failedAt : Worker \cup {None}]]
  /\ Range(Waiting(master)) \subseteq Key
  /\ master.ready \cup master.due \cup master.stopped \subseteq Worker
  /\ master.check \in [Worker -> Check \cup {None}] /\ master.transfers \subseteq Check
  /\ master.active \in [Worker -> Key \cup {None}] /\ master.last \in Worker \cup {None}
  /\ \A w \in Worker :
       LET v == worker[w]
       IN  /\ master.size[w] \in 0..QueueSize /\ Cardinality(master.pending[w]) <= QueueSize
           /\ v.incoming \in 0..QueueSize
           /\ Len(v.queue) + Cardinality(v.accepted) + v.incoming <= QueueSize
           /\ \A t \in Range(v.queue) : t.key \in Key /\ t.held \in Check \cup {None}
           /\ \A t \in v.accepted \cup Range(v.current) : t.key \in Key /\ t.held = None
           /\ v.check.pc \in {"idle", "begin", "query", "reserve", "time", "transfer",
                              "status", "known"}
           /\ v.received \in [Check -> Statuses] /\ v.check.answer \in Statuses
           /\ Len(v.receiving) <= 1
  /\ \A r \in requests : r.source # r.target /\ r.tasks # <<>>
  /\ verdict \in {"running", "done", "unknown", "error"}

InQueue(w, k) == \E i \in DOMAIN worker[w].queue : worker[w].queue[i].key = k
Runnable(w, k) ==
  \/ \E i \in Free(worker[w].queue) : worker[w].queue[i].key = k
  \/ \E i \in DOMAIN worker[w].current : worker[w].current[i].key = k
OnWire(wire, type, k) ==
  \E i \in DOMAIN wire : wire[i].type = type /\ wire[i].task.key = k

(* A worker may run a task only if the master counts it as the owner, so never
   two workers at once, whatever happens to the messages of a transfer. *)
OneRunner == \A w \in Worker, k \in Key : Runnable(w, k) => master.task[k].owner = w

(* No task is lost: it waits at the master, is on its way to or from its owner,
   or its owner has it; a task that the source of a transfer has given away is
   held by the target until the master knows.  A finished task is stored by one
   worker. *)
Moving(w, k) ==
  \E i \in DOMAIN toMaster[w] :
    LET message == toMaster[w][i]
    IN  /\ message.type = "P2P_TRANSFER"
        /\ \E t \in Range(message.tasks) : t.key = k
        /\ InQueue(message.target, k) /\ ~Runnable(message.target, k)
NothingLost ==
  verdict = "running" => \A k \in Key :
    LET t == master.task[k]
        w == t.owner
    IN  CASE t.state = "WAITING" ->
               Cardinality({i \in DOMAIN Waiting(master) : Waiting(master)[i] = k}) = 1
          [] t.state = "SENT" -> OnWire(toWorker[w], "TASK", k) # OnWire(toMaster[w], "TASK_ACK", k)
          [] t.state = "ACCEPTED" ->
               \/ \E x \in worker[w].accepted : x.key = k
               \/ InQueue(w, k) \/ OnWire(toMaster[w], "PROCESS_START", k) \/ Moving(w, k)
          [] t.state = "PROCESSING" ->
               \/ \E i \in DOMAIN worker[w].current : worker[w].current[i].key = k
               \/ OnWire(toMaster[w], "RESULT", k)
          [] OTHER -> Cardinality({u \in Worker : k \in worker[u].stored}) = 1

(* No exception is raised by the interplay of the threads alone: a queue slot
   that was promised is there, no report is out of turn, and at the end the
   statistics of both sides agree.  A run is given up only after a P2P answer
   was lost. *)
NoFalseAlarm == verdict # "error" /\ (verdict = "unknown" => faults > 0)

(* The run ends: no task waits for ever for a slot, a confirmation or a check. *)
RunEnds == <>(verdict # "running")
=============================================================================
