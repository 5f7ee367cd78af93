---------------------------- MODULE BookingServer ----------------------------
(***************************************************************************)
(* HW2: the booking server around its seats, and the clients it serves.    *)
(*                                                                         *)
(* Threads of the server: main, which is the listener until it shuts down, *)
(* the workers, the notifier and the monitor.  SeatManager.handle is one   *)
(* step, the one SeatBooking takes; SeatManager shows why it may be.       *)
(* Condition variables are modelled with their waiters: a thread that has  *)
(* found nothing to do is "asleep" until some other thread signals it.     *)
(* A socket holds SocketRoom lines in each direction.                      *)
(***************************************************************************)
EXTENDS SeatBooking

CONSTANTS
  Worker,
  RequestsPerClient,
  Capacity,           \* REQUEST_QUEUE_CAPACITY
  SocketRoom,         \* bound: lines a socket buffers in one direction
  MaxFaults,          \* bound: I/O errors in a run
  None

ASSUME ServerAssumption ==
  /\ RequestsPerClient \in Nat \ {0} /\ Capacity \in Nat \ {0} /\ SocketRoom \in Nat \ {0}
  /\ MaxFaults \in Nat /\ MaxId = RequestsPerClient
  /\ IsFiniteSet(Client) /\ Client # {}

Main == "main"
Thread == Worker \union {Main, "notifier", "monitor"}

ASSUME ThreadAssumption ==
  /\ Worker \intersect {Main, "notifier", "monitor"} = {}
  /\ None \notin Thread \union Status

VARIABLES
  phase,          \* of a client: new, up, done or failed
  view,           \* what a client knows
  toServer, toClient,
  pc,             \* of the server's threads
  task,           \* the request a worker or the listener has in hand
  reply, notice,  \* the Result a worker has in hand
  queue, inputStopped,
  registered, accepted, responses, completed,
  notices, noticesFinished, noticesAborted, notifyCount,
  closed,         \* connections the server has closed
  farewells,      \* clients BYE was sent to
  monitorStopping,
  reporter,       \* the thread whose failure was reported first, or None
  stage,          \* how far its reportFailure has got
  after,          \* what it does afterwards
  interrupted,    \* threads reportFailure has aborted and interrupted
  faults

clientVars == <<phase, view>>
wireVars == <<toServer, toClient>>
callVars == <<task, reply, notice>>
inputVars == <<queue, inputStopped>>
tallyVars == <<registered, accepted, responses, completed>>
noticeVars == <<notices, noticesFinished, noticesAborted, notifyCount>>
failVars == <<reporter, stage, after>>
endVars == <<closed, farewells, monitorStopping, interrupted>>
serverVars == <<clientVars, wireVars, pc, callVars, inputVars, tallyVars, noticeVars,
                failVars, endVars, faults, bookingVars>>

Hello == [type |-> "HELLO"]
Resp(r, st) == [type |-> "RESP", id |-> r.id, seats |-> r.seats, status |-> st]
Notify(n) == [type |-> "NOTIFY", id |-> n.request, seats |-> <<n.seat>>, status |-> "NOTIFY"]
Bye == [type |-> "BYE", id |-> 0, seats |-> <<>>, status |-> "BYE"]
NoTask == [type |-> "NONE"]

ServerInit ==
  /\ BookingInit
  /\ phase = [c \in Client |-> "new"]
  /\ view = [c \in Client |->
               [held |-> {}, pending |-> {}, early |-> {}, waits |-> {},
                sent |-> 0, answered |-> 0, listed |-> 0, told |-> 0]]
  /\ toServer = [c \in Client |-> <<>>] /\ toClient = [c \in Client |-> <<>>]
  /\ pc = [t \in Thread |->
             CASE t = Main -> "listen" [] t = "monitor" -> "watch" [] OTHER -> "take"]
  /\ task = [t \in Thread |-> NoTask]
  /\ reply = [w \in Worker |-> None] /\ notice = [w \in Worker |-> {}]
  /\ queue = <<>> /\ inputStopped = FALSE
  /\ registered = {} /\ accepted = [c \in Client |-> 0] /\ responses = [c \in Client |-> 0]
  /\ completed = 0
  /\ notices = <<>> /\ noticesFinished = FALSE /\ noticesAborted = FALSE /\ notifyCount = 0
  /\ closed = {} /\ farewells = {} /\ monitorStopping = FALSE
  /\ reporter = None /\ stage = "none" /\ after = "none" /\ interrupted = {}
  /\ faults = 0

-----------------------------------------------------------------------------
(* Clients *)

Gone(c) == phase[c] \in {"done", "failed"}

ClientFails(c) ==
  /\ phase' = [phase EXCEPT ![c] = "failed"]
  /\ toClient' = [toClient EXCEPT ![c] = <<>>]
  /\ UNCHANGED view

(* run: connect, then HELLO; refused once the listener has left.           *)
Connect(c) ==
  /\ phase[c] = "new"
  /\ IF c \in closed
     THEN ClientFails(c) /\ UNCHANGED toServer
     ELSE /\ phase' = [phase EXCEPT ![c] = "up"]
          /\ toServer' = [toServer EXCEPT ![c] = <<Hello>>]
          /\ UNCHANGED <<view, toClient>>

Busy(c) == UNION {SeatsOf(r) : r \in view[c].pending}

(* Mutant: a seat may be cancelled before its reservation is answered. *)
ChooseUnconfirmed(c) ==
  {r \in Request :
     /\ r.client = c /\ r.id = view[c].sent + 1 /\ ~Malformed(r)
     /\ IF r.command = "CANCEL" THEN OnlySeat(r) \in view[c].held \union Busy(c)
        ELSE SeatsOf(r) \intersect Busy(c) = {}}

(* prepareRequest: any command the draw may yield, on seats with no first  *)
(* response outstanding; a cancellation of a seat held.                    *)
Choose(c) ==
  {r \in Request :
     /\ r.client = c /\ r.id = view[c].sent + 1 /\ ~Malformed(r)
     /\ SeatsOf(r) \intersect Busy(c) = {}
     /\ r.command = "CANCEL" => OnlySeat(r) \in view[c].held}

(* prepareRequest and the sending of its request: what the receiver does   *)
(* in between only adds to the choices.                                    *)
SendRequest(c, r) ==
  /\ phase[c] = "up" /\ view[c].sent < RequestsPerClient
  /\ r \in Choose(c) /\ Len(toServer[c]) < SocketRoom
  /\ view' = [view EXCEPT ![c].sent = r.id, ![c].pending = @ \union {r}]
  /\ toServer' = [toServer EXCEPT ![c] = Append(@, r)]
  /\ UNCHANGED <<phase, toClient>>

Answered(c, m) ==
  {r \in view[c].pending :
     /\ r.id = m.id /\ r.seats = m.seats
     /\ r.id \in view[c].early => m.status = "WAITLISTED"
     /\ m.status = "WAITLISTED" => r.command = "RESERVE"}

(* Mutant: a notice that overtakes the WAITLISTED response is unexpected. *)
ToldWaiting(c, m) == {r \in view[c].waits : r.id = m.id /\ r.seats = m.seats}

Told(c, m) ==
  {r \in view[c].waits
           \union {p \in view[c].pending : p.id \notin view[c].early /\ p.command = "RESERVE"} :
     r.id = m.id /\ r.seats = m.seats}

(* What the client knows after the response, and after the notice.         *)
TakeResp(v, m, r) ==
  [v EXCEPT
    !.held = CASE m.status = "SUCCESS" /\ r.command = "CANCEL" -> @ \ SeatsOf(r)
               [] m.status = "SUCCESS" /\ r.command # "CANCEL" -> @ \union SeatsOf(r)
               [] OTHER -> @,
    !.waits = IF m.status = "WAITLISTED" /\ r.id \notin v.early THEN @ \union {r} ELSE @,
    !.listed = IF m.status = "WAITLISTED" THEN @ + 1 ELSE @,
    !.pending = @ \ {r}, !.early = @ \ {r.id},
    !.answered = @ + 1]

TakeNotify(v, r) ==
  [v EXCEPT
    !.waits = @ \ {r},
    !.early = IF r \in v.pending THEN @ \union {r.id} ELSE @,
    !.held = @ \union SeatsOf(r),
    !.told = @ + 1]

(* writeFinalState *)
InBalance(c) ==
  LET v == view[c] IN
  /\ v.sent = RequestsPerClient /\ v.answered = RequestsPerClient /\ v.pending = {}
  /\ v.listed = v.told + Cardinality(v.waits)

(* handleResponse *)
ReceiveLine(c) ==
  LET m == Head(toClient[c]) IN
  /\ phase[c] = "up" /\ toClient[c] # <<>>
  /\ UNCHANGED toServer
  /\ \/ /\ m.type = "RESP" /\ \E r \in Answered(c, m) : view' = [view EXCEPT ![c] = TakeResp(@, m, r)]
        /\ toClient' = [toClient EXCEPT ![c] = Tail(@)] /\ UNCHANGED phase
     \/ /\ m.type = "NOTIFY" /\ \E r \in Told(c, m) : view' = [view EXCEPT ![c] = TakeNotify(@, r)]
        /\ toClient' = [toClient EXCEPT ![c] = Tail(@)] /\ UNCHANGED phase
     \/ /\ m.type = "BYE" /\ InBalance(c)
        /\ phase' = [phase EXCEPT ![c] = "done"]
        /\ toClient' = [toClient EXCEPT ![c] = <<>>] /\ UNCHANGED view
     \/ /\ CASE m.type = "RESP" -> Answered(c, m) = {}
             [] m.type = "NOTIFY" -> Told(c, m) = {}
             [] OTHER -> ~InBalance(c)
        /\ ClientFails(c)

(* The connection ended before BYE; lines in flight may be lost with it.   *)
ReceiveEnd(c) ==
  /\ phase[c] = "up" /\ c \in closed
  /\ toClient[c] = <<>> \/ reporter # None
  /\ ClientFails(c) /\ UNCHANGED toServer

(* ClientMain: one client has failed, the others are aborted.              *)
AbortClient(c) ==
  /\ phase[c] \in {"new", "up"} /\ \E d \in Client : phase[d] = "failed"
  /\ ClientFails(c) /\ UNCHANGED toServer

ClientStep(c) ==
  /\ \/ Connect(c) \/ ReceiveLine(c) \/ ReceiveEnd(c) \/ AbortClient(c)
     \/ \E r \in Choose(c) : SendRequest(c, r)
  /\ UNCHANGED <<pc, callVars, inputVars, tallyVars, noticeVars, failVars, endVars,
                 faults, bookingVars>>

-----------------------------------------------------------------------------
(* Threads of the server *)

Goes(t, next) == pc' = [pc EXCEPT ![t] = next] /\ UNCHANGED failVars

(* reportFailure: the first failure is acted on by the thread that met it. *)
Fail(t, next) ==
  IF reporter = None
  THEN /\ reporter' = t /\ stage' = "input" /\ after' = next
       /\ pc' = [pc EXCEPT ![t] = "report"]
  ELSE Goes(t, next)

(* Mutant: closing the queue wakes the takers only. *)
WakeTakers(p) == [t \in Thread |-> IF p[t] = "asleep" /\ t \in Worker THEN "take" ELSE p[t]]

(* signalAll on both conditions of the queue *)
WakeAll(p) ==
  [t \in Thread |->
    IF p[t] # "asleep" \/ t = "notifier" THEN p[t] ELSE IF t = Main THEN "put" ELSE "take"]

WakeNotifier(p) == [p EXCEPT !["notifier"] = IF @ = "asleep" THEN "take" ELSE @]

(* notEmpty.signal: one of the waiting workers, whichever. *)
WakeWorker(p) ==
  LET asleep == {w \in Worker : p[w] = "asleep"} IN
  IF asleep = {} THEN {p} ELSE {[p EXCEPT ![w] = "take"] : w \in asleep}

(* stopInput: no registration, no put and no selection after it. *)
StopInput(t, next) ==
  inputStopped' = TRUE /\ pc' = WakeAll([pc EXCEPT ![t] = next])

(* Connection.send by thread t, which goes on or gives up.                 *)
Deliver(t, c, m, next, giveUp) ==
  \/ /\ c \in closed \/ Gone(c) \/ (t \in interrupted /\ Len(toClient[c]) >= SocketRoom)
     /\ Fail(t, giveUp) /\ UNCHANGED toClient
  \/ /\ c \notin closed /\ Gone(c)
     /\ Goes(t, next) /\ UNCHANGED toClient
  \/ /\ c \notin closed /\ ~Gone(c) /\ Len(toClient[c]) < SocketRoom
     /\ Goes(t, next) /\ toClient' = [toClient EXCEPT ![c] = Append(@, m)]

ReportFailure(t) ==
  /\ pc[t] = "report"
  /\ \/ stage = "input" /\ stage' = "notices" /\ StopInput(t, "report")
        /\ UNCHANGED <<noticeVars, endVars>>
     \/ stage = "notices" /\ stage' = "threads"
        /\ noticesAborted' = TRUE /\ noticesFinished' = TRUE /\ pc' = WakeNotifier(pc)
        /\ UNCHANGED <<notices, notifyCount, inputStopped, endVars>>
     \/ stage = "threads" /\ stage' = "connections"
        /\ interrupted' = Worker \union {"notifier"}
        /\ UNCHANGED <<pc, noticeVars, inputStopped, closed, farewells, monitorStopping>>
     \/ stage = "connections" /\ stage' = "monitor"
        /\ closed' = closed \union registered
        /\ UNCHANGED <<pc, noticeVars, inputStopped, farewells, monitorStopping, interrupted>>
     \/ stage = "monitor" /\ stage' = "over"
        /\ monitorStopping' = TRUE /\ pc' = [pc EXCEPT ![t] = after]
        /\ UNCHANGED <<noticeVars, inputStopped, closed, farewells, interrupted>>
  /\ UNCHANGED <<clientVars, wireVars, callVars, queue, tallyVars, reporter, after,
                 faults, bookingVars>>

(* The monitor's loop, as far as its end is concerned. *)
MonitorEnds ==
  /\ pc["monitor"] = "watch" /\ monitorStopping
  /\ Goes("monitor", "ended")
  /\ UNCHANGED <<clientVars, wireVars, callVars, inputVars, tallyVars, noticeVars, endVars,
                 faults, bookingVars>>

-----------------------------------------------------------------------------
(* Listener *)

(* handleLine throws: the connection is closed and the run has failed.     *)
RefuseLine(c) ==
  /\ closed' = closed \union {c} /\ Fail(Main, "leave")
  /\ UNCHANGED <<farewells, monitorStopping, interrupted>>

(* HELLO: registerClient *)
ReadHello(c) ==
  /\ pc[Main] = "listen" /\ c \notin closed
  /\ toServer[c] # <<>> /\ Head(toServer[c]) = Hello
  /\ toServer' = [toServer EXCEPT ![c] = Tail(@)]
  /\ IF inputStopped
     THEN RefuseLine(c) /\ UNCHANGED registered
     ELSE registered' = registered \union {c} /\ UNCHANGED <<pc, failVars, endVars>>
  /\ UNCHANGED <<clientVars, toClient, callVars, inputVars, accepted, responses, completed,
                 noticeVars, faults, bookingVars>>

(* A request: decodeRequest, acceptRequestId, then put. *)
ReadRequest(c) ==
  LET r == Head(toServer[c]) IN
  /\ pc[Main] = "listen" /\ c \notin closed
  /\ toServer[c] # <<>> /\ r # Hello
  /\ toServer' = [toServer EXCEPT ![c] = Tail(@)]
  /\ IF r.id # accepted[c] + 1
     THEN RefuseLine(c) /\ UNCHANGED <<accepted, task>>
     ELSE /\ accepted' = [accepted EXCEPT ![c] = r.id]
          /\ task' = [task EXCEPT ![Main] = r]
          /\ Goes(Main, "put") /\ UNCHANGED endVars
  /\ UNCHANGED <<clientVars, toClient, reply, notice, inputVars, registered, responses,
                 completed, noticeVars, faults, bookingVars>>

(* Mutant: one request more than the queue may hold. *)
FullLate == Len(queue) > Capacity

Full == Len(queue) >= Capacity

(* BoundedRequestQueue.put *)
Put ==
  /\ pc[Main] = "put"
  /\ \/ /\ inputStopped
        /\ RefuseLine(task[Main].client) /\ UNCHANGED <<queue, task>>
     \/ /\ ~inputStopped /\ Full
        /\ Goes(Main, "asleep") /\ UNCHANGED <<queue, task, endVars>>
     \/ /\ ~inputStopped /\ ~Full
        /\ queue' = Append(queue, task[Main])
        /\ task' = [task EXCEPT ![Main] = NoTask]
        /\ pc' \in WakeWorker([pc EXCEPT ![Main] = "listen"])
        /\ UNCHANGED <<failVars, endVars>>
  /\ UNCHANGED <<clientVars, wireVars, reply, notice, inputStopped, tallyVars, noticeVars,
                 faults, bookingVars>>

(* readLines has reached the end of the connection, unread lines or not.   *)
ReadEnd(c) ==
  /\ pc[Main] = "listen" /\ c \notin closed /\ Gone(c)
  /\ c \in registered \/ toServer[c] # <<>>
  /\ Fail(Main, "leave")
  /\ UNCHANGED <<clientVars, wireVars, callVars, inputVars, tallyVars, noticeVars, endVars,
                 faults, bookingVars>>

(* stop has woken the selector. *)
StopListening ==
  /\ pc[Main] = "listen" /\ inputStopped
  /\ Goes(Main, "leave")
  /\ UNCHANGED <<clientVars, wireVars, callVars, inputVars, tallyVars, noticeVars, endVars,
                 faults, bookingVars>>

Expected == RequestsPerClient * Cardinality(Client)

(* closeListenerResources: connections that never said HELLO are closed.   *)
LeaveListener ==
  /\ pc[Main] = "leave"
  /\ closed' = closed \union (Client \ registered)
  /\ IF reporter = None /\ completed # Expected THEN Fail(Main, "shutdown") ELSE Goes(Main, "shutdown")
  /\ UNCHANGED <<clientVars, wireVars, callVars, inputVars, tallyVars, noticeVars, farewells,
                 monitorStopping, interrupted, faults, bookingVars>>

-----------------------------------------------------------------------------
(* Workers *)

(* BoundedRequestQueue.take *)
TakeTask(w) ==
  /\ pc[w] = "take" /\ w \notin interrupted
  /\ \/ /\ queue # <<>>
        /\ task' = [task EXCEPT ![w] = Head(queue)] /\ queue' = Tail(queue)
        /\ pc' = [pc EXCEPT ![w] = "handle", ![Main] = IF @ = "asleep" THEN "put" ELSE @]
     \/ /\ queue = <<>> /\ inputStopped
        /\ pc' = [pc EXCEPT ![w] = "ended"] /\ UNCHANGED <<task, queue>>
     \/ /\ queue = <<>> /\ ~inputStopped
        /\ pc' = [pc EXCEPT ![w] = "asleep"] /\ UNCHANGED <<task, queue>>
  /\ UNCHANGED <<clientVars, wireVars, reply, notice, inputStopped, tallyVars, noticeVars,
                 failVars, endVars, faults, bookingVars>>

(* Aborted between two requests, while it waits, or before it handles one. *)
WorkerAborted(w) ==
  /\ pc[w] \in {"take", "asleep", "handle"} /\ w \in interrupted
  /\ Goes(w, "ended")
  /\ UNCHANGED <<clientVars, wireVars, callVars, inputVars, tallyVars, noticeVars, endVars,
                 faults, bookingVars>>

HandleTask(w) ==
  /\ pc[w] = "handle"
  /\ Handle(task[w])
  /\ \E st \in Status :
       answers' = answers \union {Reply(task[w], st)} /\ reply' = [reply EXCEPT ![w] = st]
  /\ notice' = [notice EXCEPT ![w] = handed' \ handed]
  /\ Goes(w, IF handed' = handed THEN "send" ELSE "submit")
  /\ UNCHANGED <<clientVars, wireVars, task, inputVars, tallyVars, noticeVars, endVars, faults>>

(* Notifier.submit *)
SubmitNotice(w) ==
  /\ pc[w] = "submit"
  /\ notice' = [notice EXCEPT ![w] = {}]
  /\ IF noticesFinished
     THEN Fail(w, "ended") /\ UNCHANGED notices
     ELSE /\ \E n \in notice[w] : notices' = Append(notices, n)
          /\ pc' = WakeNotifier([pc EXCEPT ![w] = "send"]) /\ UNCHANGED failVars
  /\ UNCHANGED <<clientVars, wireVars, task, reply, inputVars, tallyVars, noticesFinished,
                 noticesAborted, notifyCount, endVars, faults, bookingVars>>

SendResponse(w) ==
  /\ pc[w] = "send"
  /\ Deliver(w, task[w].client, Resp(task[w], reply[w]), "record", "ended")
  /\ UNCHANGED <<clientVars, toServer, callVars, inputVars, tallyVars, noticeVars, endVars,
                 faults, bookingVars>>

(* recordFirstResponse *)
RecordResponse(w) ==
  LET c == task[w].client IN
  /\ pc[w] = "record"
  /\ task' = [task EXCEPT ![w] = NoTask] /\ reply' = [reply EXCEPT ![w] = None]
  /\ IF c \notin registered \/ responses[c] >= RequestsPerClient
     THEN Fail(w, "ended") /\ UNCHANGED <<responses, completed>>
     ELSE /\ responses' = [responses EXCEPT ![c] = @ + 1]
          /\ completed' = completed + 1
          /\ Goes(w, IF completed' = Expected THEN "stop" ELSE "take")
  /\ UNCHANGED <<clientVars, wireVars, notice, inputVars, registered, accepted, noticeVars,
                 endVars, faults, bookingVars>>

(* All first responses are out: the worker stops the input. *)
StopAfterLast(w) ==
  /\ pc[w] = "stop"
  /\ StopInput(w, "take")
  /\ UNCHANGED <<clientVars, wireVars, callVars, queue, tallyVars, noticeVars, failVars,
                 endVars, faults, bookingVars>>

WorkerStep(w) ==
  \/ TakeTask(w) \/ WorkerAborted(w) \/ HandleTask(w) \/ SubmitNotice(w)
  \/ SendResponse(w) \/ RecordResponse(w) \/ StopAfterLast(w) \/ ReportFailure(w)

-----------------------------------------------------------------------------
(* Notifier *)

TakeNotice ==
  /\ pc["notifier"] = "take"
  /\ \/ /\ noticesAborted \/ (notices = <<>> /\ noticesFinished)
        /\ Goes("notifier", "ended") /\ UNCHANGED <<notices, task>>
     \/ /\ ~noticesAborted /\ notices # <<>>
        /\ task' = [task EXCEPT !["notifier"] = Head(notices)] /\ notices' = Tail(notices)
        /\ Goes("notifier", "send")
     \/ /\ notices = <<>> /\ ~noticesFinished
        /\ Goes("notifier", "asleep") /\ UNCHANGED <<notices, task>>
  /\ UNCHANGED <<clientVars, wireVars, reply, notice, inputVars, tallyVars, noticesFinished,
                 noticesAborted, notifyCount, endVars, faults, bookingVars>>

SendNotice ==
  LET n == task["notifier"] IN
  /\ pc["notifier"] = "send"
  /\ IF n.client \notin registered
     THEN Fail("notifier", "ended") /\ UNCHANGED toClient
     ELSE Deliver("notifier", n.client, Notify(n), "count", "ended")
  /\ UNCHANGED <<clientVars, toServer, callVars, inputVars, tallyVars, noticeVars, endVars,
                 faults, bookingVars>>

(* recordNotify *)
CountNotice ==
  /\ pc["notifier"] = "count"
  /\ notifyCount' = notifyCount + 1
  /\ task' = [task EXCEPT !["notifier"] = NoTask]
  /\ Goes("notifier", "take")
  /\ UNCHANGED <<clientVars, wireVars, reply, notice, inputVars, tallyVars, notices,
                 noticesFinished, noticesAborted, endVars, faults, bookingVars>>

NotifierStep == TakeNotice \/ SendNotice \/ CountNotice \/ ReportFailure("notifier")

-----------------------------------------------------------------------------
(* Shutdown *)

Shutdown ==
  /\ pc[Main] = "shutdown"
  /\ StopInput(Main, "joinWorkers")
  /\ UNCHANGED <<clientVars, wireVars, callVars, queue, tallyVars, noticeVars, failVars,
                 endVars, faults, bookingVars>>

(* The last worker has ended: no further notice can come. *)
JoinWorkers ==
  /\ pc[Main] = "joinWorkers" /\ \A w \in Worker : pc[w] = "ended"
  /\ noticesFinished' = TRUE
  /\ pc' = WakeNotifier([pc EXCEPT ![Main] = "joinNotifier"])
  /\ UNCHANGED <<clientVars, wireVars, callVars, inputVars, tallyVars, notices, noticesAborted,
                 notifyCount, failVars, endVars, faults, bookingVars>>

(* Mutant: the notifier is told to finish and not waited for. *)
NotJoined == TRUE

NotifierJoined == pc["notifier"] = "ended"

JoinNotifier ==
  /\ pc[Main] = "joinNotifier" /\ NotifierJoined
  /\ IF reporter = None /\ completed # Expected THEN Fail(Main, "stopMonitor")
     ELSE Goes(Main, IF reporter = None THEN "bye" ELSE "stopMonitor")
  /\ UNCHANGED <<clientVars, wireVars, callVars, inputVars, tallyVars, noticeVars, endVars,
                 faults, bookingVars>>

SayBye(c) ==
  /\ pc[Main] = "bye" /\ c \in registered \ farewells
  /\ farewells' = farewells \union {c}
  /\ Deliver(Main, c, Bye, IF farewells' = registered THEN "stopMonitor" ELSE "bye", "stopMonitor")
  /\ UNCHANGED <<clientVars, toServer, callVars, inputVars, tallyVars, noticeVars, closed,
                 monitorStopping, interrupted, faults, bookingVars>>

StopMonitor ==
  /\ pc[Main] = "stopMonitor"
  /\ monitorStopping' = TRUE /\ Goes(Main, "joinMonitor")
  /\ UNCHANGED <<clientVars, wireVars, callVars, inputVars, tallyVars, noticeVars, closed,
                 farewells, interrupted, faults, bookingVars>>

(* writeFinalState, without what Balanced of SeatManager says.             *)
ServerInBalance ==
  Cardinality({a \in answers : a.status = "WAITLISTED"})
    = notifyCount + Cardinality(UNION {{s} \X DOMAIN waiting[s] : s \in Seat})

JoinMonitor ==
  /\ pc[Main] = "joinMonitor" /\ pc["monitor"] = "ended"
  /\ IF reporter = None /\ ~ServerInBalance THEN Fail(Main, "close") ELSE Goes(Main, "close")
  /\ UNCHANGED <<clientVars, wireVars, callVars, inputVars, tallyVars, noticeVars, endVars,
                 faults, bookingVars>>

CloseConnections ==
  /\ pc[Main] = "close"
  /\ closed' = closed \union registered /\ Goes(Main, "ended")
  /\ UNCHANGED <<clientVars, wireVars, callVars, inputVars, tallyVars, noticeVars, farewells,
                 monitorStopping, interrupted, faults, bookingVars>>

MainStep ==
  \/ \E c \in Client : ReadHello(c) \/ ReadRequest(c) \/ ReadEnd(c) \/ SayBye(c)
  \/ Put \/ StopListening \/ LeaveListener \/ Shutdown \/ JoinWorkers \/ JoinNotifier
  \/ StopMonitor \/ JoinMonitor \/ CloseConnections \/ ReportFailure(Main)

MonitorStep == MonitorEnds \/ ReportFailure("monitor")

-----------------------------------------------------------------------------
(* I/O errors: a connection breaks, or a thread cannot write its log.      *)

Fault ==
  /\ faults < MaxFaults /\ faults' = faults + 1
  /\ \/ /\ \E c \in Client : phase[c] = "up" /\ ClientFails(c)
        /\ UNCHANGED <<toServer, pc, failVars>>
     \/ /\ \E t \in Thread \ {Main} : pc[t] \in {"take", "handle", "watch"} /\ Fail(t, "ended")
        /\ UNCHANGED <<clientVars, wireVars>>
  /\ UNCHANGED <<callVars, inputVars, tallyVars, noticeVars, endVars, bookingVars>>

ThreadStep ==
  \/ MainStep \/ NotifierStep \/ MonitorStep
  \/ \E w \in Worker : WorkerStep(w)
  \/ \E c \in Client : ClientStep(c)

ServerNext == ThreadStep \/ Fault

ServerSpec == ServerInit /\ [][ServerNext]_serverVars

(* As long as some thread can go on, one of them does, whichever: weaker   *)
(* than a fair scheduler.  Errors need not happen.                         *)
FairServerSpec == ServerSpec /\ WF_serverVars(ThreadStep)
-----------------------------------------------------------------------------
(* Properties *)

ServerTypeOK ==
  /\ phase \in [Client -> {"new", "up", "done", "failed"}]
  /\ \A c \in Client :
       /\ view[c].held \subseteq Seat /\ view[c].pending \subseteq Request
       /\ view[c].waits \subseteq Request /\ view[c].early \subseteq 1..MaxId
       /\ view[c].sent \in 0..RequestsPerClient /\ view[c].answered \in 0..view[c].sent
       /\ accepted[c] \in 0..view[c].sent /\ responses[c] \in 0..accepted[c]
       /\ Len(toServer[c]) <= SocketRoom /\ Len(toClient[c]) <= SocketRoom
  /\ pc \in [Thread -> {"listen", "put", "leave", "shutdown", "joinWorkers", "joinNotifier",
                        "bye", "stopMonitor", "joinMonitor", "close", "take", "asleep", "handle",
                        "submit", "send", "record", "stop", "count", "watch", "report", "ended"}]
  /\ reply \in [Worker -> Status \union {None}] /\ notice \in [Worker -> SUBSET Notices]
  /\ queue \in Seq(Request) /\ Len(queue) <= Capacity
  /\ notices \in Seq(Notices) /\ notifyCount \in Nat
  /\ registered \subseteq Client /\ closed \subseteq Client /\ farewells \subseteq registered
  /\ inputStopped \in BOOLEAN /\ noticesFinished \in BOOLEAN /\ noticesAborted \in BOOLEAN
  /\ monitorStopping \in BOOLEAN /\ interrupted \subseteq Thread
  /\ reporter \in Thread \union {None} /\ faults \in 0..MaxFaults

(* Without I/O errors nothing fails: no client rejects a response, a notice*)
(* or a BYE as unexpected, whatever order they arrive in, no thread hits   *)
(* one of its checks, and the final tallies of both sides balance.         *)
NoFalseAlarm ==
  faults = 0 => reporter = None /\ \A c \in Client : phase[c] # "failed"

(* A client never believes it holds a seat it does not own, except while a *)
(* cancellation of that seat of its own is unanswered.                     *)
HeldIsOwned ==
  \A c \in Client : \A s \in view[c].held :
    \/ owner[s] = c
    \/ \E r \in view[c].pending : r.command = "CANCEL" /\ s \in SeatsOf(r)

(* A client that has ended well agrees with the seat manager on what it    *)
(* owns and what it still waits for: the BYE came after every notice.      *)
EndsInAgreement ==
  \A c \in Client : phase[c] = "done" =>
    /\ view[c].held = {s \in Seat : owner[s] = c}
    /\ {OnlySeat(r) : r \in view[c].waits} = {s \in Seat : IsWaiting(waiting[s], c)}

(* Every run ends, the failed ones too: all threads are joined and all     *)
(* clients have left, whoever was blocked on whatever.                     *)
RunEnds ==
  <>(/\ \A t \in Thread : pc[t] = "ended"
     /\ \A c \in Client : Gone(c))
=============================================================================
