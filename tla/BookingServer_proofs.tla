------------------------- MODULE BookingServer_proofs -------------------------
(***************************************************************************)
(* Proofs about BookingServer, for any number of clients, workers, seats,  *)
(* requests and failures, any queue and any sockets.                       *)
(***************************************************************************)
EXTENDS BookingServer, FiniteSetTheorems, TLAPS

USE RequestsAssumption, ServerAssumption, ThreadAssumption

-----------------------------------------------------------------------------
(* Types *)

(* What a line to a client may be.                                         *)
Lines ==
  [type : {"RESP"}, id : 1..MaxId, seats : SeatLists, status : Status]
    \union [type : {"NOTIFY"}, id : 1..MaxId, seats : {<<s>> : s \in Seat}, status : {"NOTIFY"}]
    \union {Bye}

(* What a client may ask for.                                              *)
Proper == {r \in Request : ~Malformed(r)}

Views ==
  [held : SUBSET Seat, pending : SUBSET Proper, early : SUBSET (1..MaxId),
   waits : SUBSET Proper, sent : 0..RequestsPerClient, answered : Nat, listed : Nat, told : Nat]

MainAt == {"listen", "put", "asleep", "leave", "shutdown", "joinWorkers", "joinNotifier", "bye",
           "stopMonitor", "joinMonitor", "close", "report", "ended"}
WorkerAt == {"take", "asleep", "handle", "submit", "send", "record", "stop", "report", "ended"}
NotifierAt == {"take", "asleep", "send", "count", "report", "ended"}
MonitorAt == {"watch", "report", "ended"}

(* A worker that has a Result in hand.                                     *)
Replying == {w \in Worker : pc[w] \in {"submit", "send", "record"}}

ClientTypes ==
  /\ phase \in [Client -> {"new", "up", "done", "failed"}]
  /\ view \in [Client -> Views]

WireTypes ==
  /\ toServer \in [Client -> Seq(Request \union {Hello})]
  /\ toClient \in [Client -> Seq(Lines)]
  /\ \A c \in Client : Len(toServer[c]) <= SocketRoom /\ Len(toClient[c]) <= SocketRoom

QueueTypes ==
  /\ queue \in Seq(Request) /\ Len(queue) <= Capacity
  /\ notices \in Seq(Notices)

TallyTypes ==
  /\ registered \subseteq Client /\ accepted \in [Client -> Nat] /\ responses \in [Client -> Nat]
  /\ completed \in Nat /\ notifyCount \in Nat /\ faults \in 0..MaxFaults
  /\ closed \subseteq Client /\ farewells \subseteq registered
  /\ inputStopped \in BOOLEAN /\ noticesFinished \in BOOLEAN /\ noticesAborted \in BOOLEAN
  /\ monitorStopping \in BOOLEAN /\ interrupted \subseteq Worker \union {"notifier"}

BookingTypes ==
  /\ owner \in [Seat -> Client \union {Nobody}] /\ waiting \in [Seat -> Seq(Entries)]
  /\ answers \subseteq Replies /\ handed \subseteq Notices

(* Where each thread may be.                                               *)
PcTypes ==
  /\ pc \in [Thread -> MainAt \union WorkerAt \union NotifierAt \union MonitorAt]
  /\ pc[Main] \in MainAt /\ pc["notifier"] \in NotifierAt /\ pc["monitor"] \in MonitorAt
  /\ \A w \in Worker : pc[w] \in WorkerAt

(* What it has in hand there.                                              *)
HandTypes ==
  /\ task \in [Thread -> Request \union Notices \union {NoTask}]
  /\ reply \in [Worker -> Status \union {None}] /\ notice \in [Worker -> SUBSET Notices]
  /\ pc[Main] \in {"put", "asleep"} => task[Main] \in Request
  /\ \A w \in Worker : pc[w] = "handle" \/ w \in Replying => task[w] \in Request
  /\ \A w \in Replying : reply[w] \in Status
  /\ pc["notifier"] \in {"send", "count"} => task["notifier"] \in Notices

(* The one thread that reports the first failure, and where it goes then.  *)
ReporterTypes ==
  /\ reporter \in Thread \union {None}
  /\ \A t \in Thread : pc[t] = "report" => t = reporter
  /\ reporter = Main => after \in {"leave", "shutdown", "stopMonitor", "close"}
  /\ reporter \in Thread \ {Main} => after = "ended"

Typed ==
  /\ ClientTypes /\ WireTypes /\ QueueTypes /\ TallyTypes /\ BookingTypes
  /\ PcTypes /\ HandTypes /\ ReporterTypes

-----------------------------------------------------------------------------
(* The steps *)

(* Every step is that of one thread or of one client, or an I/O error.      *)
LEMMA Steps ==
  ASSUME [ServerNext]_serverVars
  PROVE  \/ \E c \in Client : \/ ClientStep(c) \/ ReadHello(c) \/ ReadRequest(c)
                              \/ ReadEnd(c) \/ SayBye(c)
         \/ \E w \in Worker : \/ TakeTask(w) \/ WorkerAborted(w) \/ HandleTask(w)
                              \/ SubmitNotice(w) \/ SendResponse(w) \/ RecordResponse(w)
                              \/ StopAfterLast(w)
         \/ \E t \in Thread : ReportFailure(t)
         \/ Put \/ StopListening \/ LeaveListener \/ Shutdown \/ JoinWorkers \/ JoinNotifier
         \/ StopMonitor \/ JoinMonitor \/ CloseConnections
         \/ TakeNotice \/ SendNotice \/ CountNotice \/ MonitorEnds
         \/ Fault \/ UNCHANGED serverVars
<1>1. Main \in Thread /\ "notifier" \in Thread /\ "monitor" \in Thread /\ Worker \subseteq Thread
  BY DEF Thread
<1> QED
  BY <1>1 DEF ServerNext, ThreadStep, MainStep, NotifierStep, MonitorStep, WorkerStep

(* Which steps change what.                                                *)
Changes ==
  /\ UNCHANGED bookingVars \/ \E w \in Worker : HandleTask(w)
  /\ UNCHANGED view \/ \E c \in Client : ClientStep(c)
  /\ UNCHANGED phase \/ Fault \/ \E c \in Client : ClientStep(c)
  /\ UNCHANGED toServer \/ \E c \in Client : ClientStep(c) \/ ReadHello(c) \/ ReadRequest(c)
  /\ UNCHANGED toClient \/ Fault \/ SendNotice \/ (\E w \in Worker : SendResponse(w))
       \/ \E c \in Client : ClientStep(c) \/ SayBye(c)
  /\ UNCHANGED queue \/ Put \/ \E w \in Worker : TakeTask(w)
  /\ UNCHANGED notices \/ TakeNotice \/ \E w \in Worker : SubmitNotice(w)
  /\ UNCHANGED task \/ Put \/ TakeNotice \/ CountNotice \/ (\E c \in Client : ReadRequest(c))
       \/ \E w \in Worker : TakeTask(w) \/ RecordResponse(w)
  /\ UNCHANGED reply \/ \E w \in Worker : HandleTask(w) \/ RecordResponse(w)
  /\ UNCHANGED notice \/ \E w \in Worker : HandleTask(w) \/ SubmitNotice(w)
  /\ UNCHANGED registered \/ \E c \in Client : ReadHello(c)
  /\ UNCHANGED accepted \/ \E c \in Client : ReadRequest(c)
  /\ UNCHANGED <<responses, completed>> \/ \E w \in Worker : RecordResponse(w)
  /\ UNCHANGED notifyCount \/ CountNotice
  /\ UNCHANGED farewells \/ \E c \in Client : SayBye(c)
  /\ UNCHANGED faults \/ Fault
  /\ UNCHANGED inputStopped \/ Shutdown \/ (\E t \in Thread : ReportFailure(t))
       \/ \E w \in Worker : StopAfterLast(w)
  /\ UNCHANGED noticesFinished \/ JoinWorkers \/ \E t \in Thread : ReportFailure(t)
  /\ UNCHANGED <<noticesAborted, interrupted>> \/ \E t \in Thread : ReportFailure(t)
  /\ UNCHANGED monitorStopping \/ StopMonitor \/ \E t \in Thread : ReportFailure(t)
  /\ UNCHANGED closed \/ Put \/ LeaveListener \/ CloseConnections
       \/ (\E t \in Thread : ReportFailure(t)) \/ \E c \in Client : ReadHello(c) \/ ReadRequest(c)

LEMMA Frames ==
  ASSUME [ServerNext]_serverVars
  PROVE  Changes
<1> USE DEF Changes, clientVars, wireVars, callVars, inputVars, tallyVars, noticeVars, failVars,
        endVars, bookingVars
<1>1. ASSUME NEW c \in Client, ClientStep(c) PROVE Changes
  BY <1>1 DEF ClientStep
<1>2. ASSUME NEW c \in Client, ReadHello(c) PROVE Changes
  BY <1>2 DEF ReadHello, RefuseLine, Fail, Goes
<1>3. ASSUME NEW c \in Client, ReadRequest(c) PROVE Changes
  BY <1>3 DEF ReadRequest, RefuseLine, Fail, Goes
<1>4. ASSUME NEW c \in Client, ReadEnd(c) PROVE Changes
  BY <1>4 DEF ReadEnd, Fail, Goes
<1>5. ASSUME NEW c \in Client, SayBye(c) PROVE Changes
  BY <1>5 DEF SayBye, Deliver, Fail, Goes
<1>6. ASSUME NEW w \in Worker, TakeTask(w) PROVE Changes
  BY <1>6 DEF TakeTask
<1>7. ASSUME NEW w \in Worker, WorkerAborted(w) PROVE Changes
  BY <1>7 DEF WorkerAborted, Goes
<1>8. ASSUME NEW w \in Worker, HandleTask(w) PROVE Changes
  BY <1>8 DEF HandleTask, Goes
<1>9. ASSUME NEW w \in Worker, SubmitNotice(w) PROVE Changes
  BY <1>9 DEF SubmitNotice, Fail, Goes, WakeNotifier
<1>10. ASSUME NEW w \in Worker, SendResponse(w) PROVE Changes
  BY <1>10 DEF SendResponse, Deliver, Fail, Goes
<1>11. ASSUME NEW w \in Worker, RecordResponse(w) PROVE Changes
  BY <1>11 DEF RecordResponse, Fail, Goes
<1>12. ASSUME NEW w \in Worker, StopAfterLast(w) PROVE Changes
  BY <1>12 DEF StopAfterLast, StopInput, WakeAll
<1>13. ASSUME NEW t \in Thread, ReportFailure(t) PROVE Changes
  BY <1>13 DEF ReportFailure, StopInput
<1>14. CASE Put
  BY <1>14 DEF Put, RefuseLine, Fail, Goes, WakeWorker
<1>15. CASE StopListening
  BY <1>15 DEF StopListening, Goes
<1>16. CASE LeaveListener
  BY <1>16 DEF LeaveListener, Fail, Goes
<1>17. CASE Shutdown
  BY <1>17 DEF Shutdown, StopInput, WakeAll
<1>18. CASE JoinWorkers
  BY <1>18 DEF JoinWorkers, WakeNotifier
<1>19. CASE JoinNotifier
  BY <1>19 DEF JoinNotifier, Fail, Goes
<1>20. CASE StopMonitor
  BY <1>20 DEF StopMonitor, Goes
<1>21. CASE JoinMonitor
  BY <1>21 DEF JoinMonitor, Fail, Goes
<1>22. CASE CloseConnections
  BY <1>22 DEF CloseConnections, Goes
<1>23. CASE TakeNotice
  BY <1>23 DEF TakeNotice, Goes
<1>24. CASE SendNotice
  BY <1>24 DEF SendNotice, Deliver, Fail, Goes
<1>25. CASE CountNotice
  BY <1>25 DEF CountNotice, Goes
<1>26. CASE MonitorEnds
  BY <1>26 DEF MonitorEnds, Goes
<1>27. CASE Fault
  BY <1>27 DEF Fault, Fail, Goes, ClientFails
<1>28. CASE UNCHANGED serverVars
  BY <1>28 DEF serverVars
<1> QED
  BY <1>1, <1>2, <1>3, <1>4, <1>5, <1>6, <1>7, <1>8, <1>9, <1>10, <1>11, <1>12, <1>13,
     <1>14, <1>15, <1>16, <1>17, <1>18, <1>19, <1>20, <1>21, <1>22, <1>23, <1>24, <1>25,
     <1>26, <1>27, <1>28, Steps

(* The threads stay on their ways.                                         *)
LEMMA PcTyping ==
  ASSUME Typed, [ServerNext]_serverVars
  PROVE  (PcTypes /\ ReporterTypes)'
<1> USE DEF Typed, PcTypes, ReporterTypes, Thread, Main, MainAt, WorkerAt, NotifierAt, MonitorAt,
        clientVars, wireVars, callVars, inputVars, tallyVars, noticeVars, failVars, endVars
<1>1. ASSUME NEW c \in Client, ClientStep(c) PROVE (PcTypes /\ ReporterTypes)'
  BY <1>1 DEF ClientStep
<1>2. ASSUME NEW c \in Client, ReadHello(c) PROVE (PcTypes /\ ReporterTypes)'
  BY <1>2 DEF ReadHello, RefuseLine, Fail, Goes
<1>3. ASSUME NEW c \in Client, ReadRequest(c) PROVE (PcTypes /\ ReporterTypes)'
  BY <1>3 DEF ReadRequest, RefuseLine, Fail, Goes
<1>4. ASSUME NEW c \in Client, ReadEnd(c) PROVE (PcTypes /\ ReporterTypes)'
  BY <1>4 DEF ReadEnd, Fail, Goes
<1>5. ASSUME NEW c \in Client, SayBye(c) PROVE (PcTypes /\ ReporterTypes)'
  BY <1>5 DEF SayBye, Deliver, Fail, Goes
<1>6. ASSUME NEW w \in Worker, TakeTask(w) PROVE (PcTypes /\ ReporterTypes)'
  BY <1>6 DEF TakeTask
<1>7. ASSUME NEW w \in Worker, WorkerAborted(w) PROVE (PcTypes /\ ReporterTypes)'
  BY <1>7 DEF WorkerAborted, Goes
<1>8. ASSUME NEW w \in Worker, HandleTask(w) PROVE (PcTypes /\ ReporterTypes)'
  BY <1>8 DEF HandleTask, Goes
<1>9. ASSUME NEW w \in Worker, SubmitNotice(w) PROVE (PcTypes /\ ReporterTypes)'
  BY <1>9 DEF SubmitNotice, Fail, Goes, WakeNotifier
<1>10. ASSUME NEW w \in Worker, SendResponse(w) PROVE (PcTypes /\ ReporterTypes)'
  BY <1>10 DEF SendResponse, Deliver, Fail, Goes
<1>11. ASSUME NEW w \in Worker, RecordResponse(w) PROVE (PcTypes /\ ReporterTypes)'
  BY <1>11 DEF RecordResponse, Fail, Goes
<1>12. ASSUME NEW w \in Worker, StopAfterLast(w) PROVE (PcTypes /\ ReporterTypes)'
  BY <1>12 DEF StopAfterLast, StopInput, WakeAll
<1>13. ASSUME NEW t \in Thread, ReportFailure(t) PROVE (PcTypes /\ ReporterTypes)'
  BY <1>13 DEF ReportFailure, StopInput, WakeAll, WakeNotifier, ReporterTypes
<1>14. CASE Put
  BY <1>14 DEF Put, RefuseLine, Fail, Goes, WakeWorker
<1>15. CASE StopListening
  BY <1>15 DEF StopListening, Goes
<1>16. CASE LeaveListener
  BY <1>16 DEF LeaveListener, Fail, Goes
<1>17. CASE Shutdown
  BY <1>17 DEF Shutdown, StopInput, WakeAll
<1>18. CASE JoinWorkers
  BY <1>18 DEF JoinWorkers, WakeNotifier
<1>19. CASE JoinNotifier
  BY <1>19 DEF JoinNotifier, Fail, Goes
<1>20. CASE StopMonitor
  BY <1>20 DEF StopMonitor, Goes
<1>21. CASE JoinMonitor
  BY <1>21 DEF JoinMonitor, Fail, Goes
<1>22. CASE CloseConnections
  BY <1>22 DEF CloseConnections, Goes
<1>23. CASE TakeNotice
  BY <1>23 DEF TakeNotice, Goes
<1>24. CASE SendNotice
  BY <1>24 DEF SendNotice, Deliver, Fail, Goes
<1>25. CASE CountNotice
  BY <1>25 DEF CountNotice, Goes
<1>26. CASE MonitorEnds
  BY <1>26 DEF MonitorEnds, Goes
<1>27. CASE Fault
  BY <1>27 DEF Fault, Fail, Goes, ClientFails
<1>28. CASE UNCHANGED serverVars
  BY <1>28 DEF serverVars
<1> HIDE DEF Typed, PcTypes, ReporterTypes, Thread, Main, MainAt, WorkerAt, NotifierAt, MonitorAt
<1> QED
  BY <1>1, <1>2, <1>3, <1>4, <1>5, <1>6, <1>7, <1>8, <1>9, <1>10, <1>11, <1>12, <1>13,
     <1>14, <1>15, <1>16, <1>17, <1>18, <1>19, <1>20, <1>21, <1>22, <1>23, <1>24, <1>25,
     <1>26, <1>27, <1>28, Steps

(* What a worker, main and the notifier have in hand stays the same from    *)
(* one step to the next, and where they got it.                             *)
AtWork(w) == pc[w] = "handle" \/ w \in Replying
Holding == pc[Main] \in {"put", "asleep"}
Carrying == pc["notifier"] \in {"send", "count"}

WorkerLife(w) ==
  /\ AtWork(w) /\ AtWork(w)' => task'[w] = task[w]
  /\ AtWork(w)' /\ ~AtWork(w) =>
       TakeTask(w) /\ queue # <<>> /\ task'[w] = Head(queue) /\ queue' = Tail(queue)
  /\ (w \in Replying)' /\ w \notin Replying => HandleTask(w)
  /\ w \in Replying /\ (w \in Replying)' => reply'[w] = reply[w]
  /\ (pc[w] \in {"submit", "send"})' /\ pc[w] \notin {"submit", "send"} => HandleTask(w)
  /\ pc[w] = "ended" => pc'[w] = "ended"

MainLife ==
  /\ Holding /\ Holding' => task'[Main] = task[Main]
  /\ Holding' /\ ~Holding =>
       \E c \in Client :
         /\ ReadRequest(c) /\ task'[Main] = Head(toServer[c])
         /\ Head(toServer[c]).id = accepted[c] + 1
         /\ accepted' = [accepted EXCEPT ![c] = Head(toServer[c]).id]

NotifierLife ==
  /\ Carrying /\ Carrying' => task'["notifier"] = task["notifier"]
  /\ Carrying' /\ ~Carrying =>
       /\ TakeNotice /\ notices # <<>> /\ notices' = Tail(notices)
       /\ task'["notifier"] = Head(notices) /\ pc'["notifier"] = "send"
  /\ pc["notifier"] = "ended" => pc'["notifier"] = "ended"

(* In every step a worker moves as above. *)
LEMMA WorkersLive ==
  ASSUME Typed, [ServerNext]_serverVars
  PROVE  \A v \in Worker : WorkerLife(v)
<1> USE DEF Typed, PcTypes, HandTypes, Thread, Main, WorkerAt, WorkerLife, AtWork, Replying,
        clientVars, wireVars, callVars, inputVars, tallyVars, noticeVars, failVars, endVars
<1>1. ASSUME NEW c \in Client, ClientStep(c) PROVE \A v \in Worker : WorkerLife(v)
  BY <1>1 DEF ClientStep
<1>2. ASSUME NEW c \in Client, ReadHello(c) PROVE \A v \in Worker : WorkerLife(v)
  BY <1>2 DEF ReadHello, RefuseLine, Fail, Goes
<1>3. ASSUME NEW c \in Client, ReadRequest(c) PROVE \A v \in Worker : WorkerLife(v)
  BY <1>3 DEF ReadRequest, RefuseLine, Fail, Goes
<1>4. ASSUME NEW c \in Client, ReadEnd(c) PROVE \A v \in Worker : WorkerLife(v)
  BY <1>4 DEF ReadEnd, Fail, Goes
<1>5. ASSUME NEW c \in Client, SayBye(c) PROVE \A v \in Worker : WorkerLife(v)
  BY <1>5 DEF SayBye, Deliver, Fail, Goes
<1>6. ASSUME NEW w \in Worker, TakeTask(w) PROVE \A v \in Worker : WorkerLife(v)
  BY <1>6 DEF TakeTask
<1>7. ASSUME NEW w \in Worker, WorkerAborted(w) PROVE \A v \in Worker : WorkerLife(v)
  BY <1>7 DEF WorkerAborted, Goes
<1>8. ASSUME NEW w \in Worker, HandleTask(w) PROVE \A v \in Worker : WorkerLife(v)
  BY <1>8 DEF HandleTask, Goes
<1>9. ASSUME NEW w \in Worker, SubmitNotice(w) PROVE \A v \in Worker : WorkerLife(v)
  BY <1>9 DEF SubmitNotice, Fail, Goes, WakeNotifier
<1>10. ASSUME NEW w \in Worker, SendResponse(w) PROVE \A v \in Worker : WorkerLife(v)
  BY <1>10 DEF SendResponse, Deliver, Fail, Goes
<1>11. ASSUME NEW w \in Worker, RecordResponse(w) PROVE \A v \in Worker : WorkerLife(v)
  BY <1>11 DEF RecordResponse, Fail, Goes
<1>12. ASSUME NEW w \in Worker, StopAfterLast(w) PROVE \A v \in Worker : WorkerLife(v)
  BY <1>12 DEF StopAfterLast, StopInput, WakeAll
<1>13. ASSUME NEW t \in Thread, ReportFailure(t) PROVE \A v \in Worker : WorkerLife(v)
  BY <1>13 DEF ReportFailure, StopInput, WakeAll, WakeNotifier, ReporterTypes
<1>14. CASE Put
  BY <1>14 DEF Put, RefuseLine, Fail, Goes, WakeWorker
<1>15. CASE StopListening
  BY <1>15 DEF StopListening, Goes
<1>16. CASE LeaveListener
  BY <1>16 DEF LeaveListener, Fail, Goes
<1>17. CASE Shutdown
  BY <1>17 DEF Shutdown, StopInput, WakeAll
<1>18. CASE JoinWorkers
  BY <1>18 DEF JoinWorkers, WakeNotifier
<1>19. CASE JoinNotifier
  BY <1>19 DEF JoinNotifier, Fail, Goes
<1>20. CASE StopMonitor
  BY <1>20 DEF StopMonitor, Goes
<1>21. CASE JoinMonitor
  BY <1>21 DEF JoinMonitor, Fail, Goes
<1>22. CASE CloseConnections
  BY <1>22 DEF CloseConnections, Goes
<1>23. CASE TakeNotice
  BY <1>23 DEF TakeNotice, Goes
<1>24. CASE SendNotice
  BY <1>24 DEF SendNotice, Deliver, Fail, Goes
<1>25. CASE CountNotice
  BY <1>25 DEF CountNotice, Goes
<1>26. CASE MonitorEnds
  BY <1>26 DEF MonitorEnds, Goes
<1>27. CASE Fault
  BY <1>27 DEF Fault, Fail, Goes, ClientFails
<1>28. CASE UNCHANGED serverVars
  BY <1>28 DEF serverVars
<1> HIDE DEF Typed, PcTypes, HandTypes, Thread, Main, WorkerAt, WorkerLife, AtWork, Replying
<1> QED
  BY <1>1, <1>2, <1>3, <1>4, <1>5, <1>6, <1>7, <1>8, <1>9, <1>10, <1>11, <1>12, <1>13,
     <1>14, <1>15, <1>16, <1>17, <1>18, <1>19, <1>20, <1>21, <1>22, <1>23, <1>24, <1>25,
     <1>26, <1>27, <1>28, Steps

(* In every step main moves as above. *)
LEMMA MainLives ==
  ASSUME Typed, [ServerNext]_serverVars
  PROVE  MainLife
<1> USE DEF Typed, PcTypes, HandTypes, Thread, Main, MainAt, MainLife, Holding,
        clientVars, wireVars, callVars, inputVars, tallyVars, noticeVars, failVars, endVars
<1>1. ASSUME NEW c \in Client, ClientStep(c) PROVE MainLife
  BY <1>1 DEF ClientStep
<1>2. ASSUME NEW c \in Client, ReadHello(c) PROVE MainLife
  BY <1>2 DEF ReadHello, RefuseLine, Fail, Goes
<1>3. ASSUME NEW c \in Client, ReadRequest(c) PROVE MainLife
  <2>1. /\ ~Holding
        /\ Holding' => /\ task'[Main] = Head(toServer[c])
                       /\ Head(toServer[c]).id = accepted[c] + 1
                       /\ accepted' = [accepted EXCEPT ![c] = Head(toServer[c]).id]
    BY <1>3 DEF ReadRequest, RefuseLine, Fail, Goes
  <2> QED
    BY <1>3, <2>1
<1>4. ASSUME NEW c \in Client, ReadEnd(c) PROVE MainLife
  BY <1>4 DEF ReadEnd, Fail, Goes
<1>5. ASSUME NEW c \in Client, SayBye(c) PROVE MainLife
  BY <1>5 DEF SayBye, Deliver, Fail, Goes
<1>6. ASSUME NEW w \in Worker, TakeTask(w) PROVE MainLife
  BY <1>6 DEF TakeTask
<1>7. ASSUME NEW w \in Worker, WorkerAborted(w) PROVE MainLife
  BY <1>7 DEF WorkerAborted, Goes
<1>8. ASSUME NEW w \in Worker, HandleTask(w) PROVE MainLife
  BY <1>8 DEF HandleTask, Goes
<1>9. ASSUME NEW w \in Worker, SubmitNotice(w) PROVE MainLife
  BY <1>9 DEF SubmitNotice, Fail, Goes, WakeNotifier
<1>10. ASSUME NEW w \in Worker, SendResponse(w) PROVE MainLife
  BY <1>10 DEF SendResponse, Deliver, Fail, Goes
<1>11. ASSUME NEW w \in Worker, RecordResponse(w) PROVE MainLife
  BY <1>11 DEF RecordResponse, Fail, Goes
<1>12. ASSUME NEW w \in Worker, StopAfterLast(w) PROVE MainLife
  BY <1>12 DEF StopAfterLast, StopInput, WakeAll
<1>13. ASSUME NEW t \in Thread, ReportFailure(t) PROVE MainLife
  BY <1>13 DEF ReportFailure, StopInput, WakeAll, WakeNotifier, ReporterTypes
<1>14. CASE Put
  BY <1>14 DEF Put, RefuseLine, Fail, Goes, WakeWorker
<1>15. CASE StopListening
  BY <1>15 DEF StopListening, Goes
<1>16. CASE LeaveListener
  BY <1>16 DEF LeaveListener, Fail, Goes
<1>17. CASE Shutdown
  BY <1>17 DEF Shutdown, StopInput, WakeAll
<1>18. CASE JoinWorkers
  BY <1>18 DEF JoinWorkers, WakeNotifier
<1>19. CASE JoinNotifier
  BY <1>19 DEF JoinNotifier, Fail, Goes
<1>20. CASE StopMonitor
  BY <1>20 DEF StopMonitor, Goes
<1>21. CASE JoinMonitor
  BY <1>21 DEF JoinMonitor, Fail, Goes
<1>22. CASE CloseConnections
  BY <1>22 DEF CloseConnections, Goes
<1>23. CASE TakeNotice
  BY <1>23 DEF TakeNotice, Goes
<1>24. CASE SendNotice
  BY <1>24 DEF SendNotice, Deliver, Fail, Goes
<1>25. CASE CountNotice
  BY <1>25 DEF CountNotice, Goes
<1>26. CASE MonitorEnds
  BY <1>26 DEF MonitorEnds, Goes
<1>27. CASE Fault
  BY <1>27 DEF Fault, Fail, Goes, ClientFails
<1>28. CASE UNCHANGED serverVars
  BY <1>28 DEF serverVars
<1> HIDE DEF Typed, PcTypes, HandTypes, Thread, Main, MainAt, MainLife, Holding
<1> QED
  BY <1>1, <1>2, <1>3, <1>4, <1>5, <1>6, <1>7, <1>8, <1>9, <1>10, <1>11, <1>12, <1>13,
     <1>14, <1>15, <1>16, <1>17, <1>18, <1>19, <1>20, <1>21, <1>22, <1>23, <1>24, <1>25,
     <1>26, <1>27, <1>28, Steps

(* In every step the notifier moves as above. *)
LEMMA NotifierLives ==
  ASSUME Typed, [ServerNext]_serverVars
  PROVE  NotifierLife
<1> USE DEF Typed, PcTypes, HandTypes, Thread, Main, NotifierAt, NotifierLife, Carrying,
        clientVars, wireVars, callVars, inputVars, tallyVars, noticeVars, failVars, endVars
<1>1. ASSUME NEW c \in Client, ClientStep(c) PROVE NotifierLife
  BY <1>1 DEF ClientStep
<1>2. ASSUME NEW c \in Client, ReadHello(c) PROVE NotifierLife
  BY <1>2 DEF ReadHello, RefuseLine, Fail, Goes
<1>3. ASSUME NEW c \in Client, ReadRequest(c) PROVE NotifierLife
  BY <1>3 DEF ReadRequest, RefuseLine, Fail, Goes
<1>4. ASSUME NEW c \in Client, ReadEnd(c) PROVE NotifierLife
  BY <1>4 DEF ReadEnd, Fail, Goes
<1>5. ASSUME NEW c \in Client, SayBye(c) PROVE NotifierLife
  BY <1>5 DEF SayBye, Deliver, Fail, Goes
<1>6. ASSUME NEW w \in Worker, TakeTask(w) PROVE NotifierLife
  BY <1>6 DEF TakeTask
<1>7. ASSUME NEW w \in Worker, WorkerAborted(w) PROVE NotifierLife
  BY <1>7 DEF WorkerAborted, Goes
<1>8. ASSUME NEW w \in Worker, HandleTask(w) PROVE NotifierLife
  BY <1>8 DEF HandleTask, Goes
<1>9. ASSUME NEW w \in Worker, SubmitNotice(w) PROVE NotifierLife
  BY <1>9 DEF SubmitNotice, Fail, Goes, WakeNotifier
<1>10. ASSUME NEW w \in Worker, SendResponse(w) PROVE NotifierLife
  BY <1>10 DEF SendResponse, Deliver, Fail, Goes
<1>11. ASSUME NEW w \in Worker, RecordResponse(w) PROVE NotifierLife
  BY <1>11 DEF RecordResponse, Fail, Goes
<1>12. ASSUME NEW w \in Worker, StopAfterLast(w) PROVE NotifierLife
  BY <1>12 DEF StopAfterLast, StopInput, WakeAll
<1>13. ASSUME NEW t \in Thread, ReportFailure(t) PROVE NotifierLife
  BY <1>13 DEF ReportFailure, StopInput, WakeAll, WakeNotifier, ReporterTypes
<1>14. CASE Put
  BY <1>14 DEF Put, RefuseLine, Fail, Goes, WakeWorker
<1>15. CASE StopListening
  BY <1>15 DEF StopListening, Goes
<1>16. CASE LeaveListener
  BY <1>16 DEF LeaveListener, Fail, Goes
<1>17. CASE Shutdown
  BY <1>17 DEF Shutdown, StopInput, WakeAll
<1>18. CASE JoinWorkers
  BY <1>18 DEF JoinWorkers, WakeNotifier
<1>19. CASE JoinNotifier
  BY <1>19 DEF JoinNotifier, Fail, Goes
<1>20. CASE StopMonitor
  BY <1>20 DEF StopMonitor, Goes
<1>21. CASE JoinMonitor
  BY <1>21 DEF JoinMonitor, Fail, Goes
<1>22. CASE CloseConnections
  BY <1>22 DEF CloseConnections, Goes
<1>23. CASE TakeNotice
  BY <1>23 DEF TakeNotice, Goes
<1>24. CASE SendNotice
  BY <1>24 DEF SendNotice, Deliver, Fail, Goes
<1>25. CASE CountNotice
  BY <1>25 DEF CountNotice, Goes
<1>26. CASE MonitorEnds
  BY <1>26 DEF MonitorEnds, Goes
<1>27. CASE Fault
  BY <1>27 DEF Fault, Fail, Goes, ClientFails
<1>28. CASE UNCHANGED serverVars
  BY <1>28 DEF serverVars
<1> HIDE DEF Typed, PcTypes, HandTypes, Thread, Main, NotifierAt, NotifierLife, Carrying
<1> QED
  BY <1>1, <1>2, <1>3, <1>4, <1>5, <1>6, <1>7, <1>8, <1>9, <1>10, <1>11, <1>12, <1>13,
     <1>14, <1>15, <1>16, <1>17, <1>18, <1>19, <1>20, <1>21, <1>22, <1>23, <1>24, <1>25,
     <1>26, <1>27, <1>28, Steps

(* What a request is, and a line to a client.                              *)
LEMMA RequestFacts ==
  ASSUME NEW r \in Request
  PROVE  /\ r.client \in Client /\ r.id \in 1..MaxId /\ r.id \in 1..RequestsPerClient
         /\ r.command \in Command /\ r.seats \in SeatLists /\ r.seats \in Seq(Int)
         /\ r # Hello
         /\ \A st \in Status : Resp(r, st) \in Lines /\ Reply(r, st) \in Replies
         /\ Entry(r) \in Entries
<1>1. r \in [client : Client, id : 1..MaxId, command : Command, seats : SeatLists]
  BY DEF Request
<1>2. r # Hello
  <2>1. DOMAIN r = {"client", "id", "command", "seats"} /\ DOMAIN Hello = {"type"}
    BY <1>1 DEF Hello
  <2> QED
    BY <2>1
<1> QED
  BY <1>1, <1>2 DEF Resp, Lines, Reply, Replies, Entry, Entries

LEMMA NoticeFacts ==
  ASSUME NEW n \in Notices
  PROVE  /\ n.client \in Client /\ n.request \in 1..MaxId /\ n.seat \in Seat
         /\ Notify(n) \in Lines
BY DEF Notices, Notify, Lines

LEMMA LineFacts ==
  ASSUME NEW m \in Lines
  PROVE  /\ m.type \in {"RESP", "NOTIFY", "BYE"}
         /\ m.type = "RESP" => m.id \in 1..MaxId /\ m.seats \in SeatLists /\ m.status \in Status
         /\ m.type = "NOTIFY" => m.id \in 1..MaxId /\ \E s \in Seat : m.seats = <<s>>
         /\ m.type = "BYE" => m = Bye
BY DEF Lines, Bye

LEMMA ByeIsLine == Bye \in Lines /\ Bye.type = "BYE"
BY DEF Lines, Bye

(* A line put on a wire, or taken from it.                                 *)
LEMMA QueueFacts ==
  ASSUME NEW S, NEW q \in Seq(S)
  PROVE  /\ \A x \in S : Append(q, x) \in Seq(S) /\ Len(Append(q, x)) = Len(q) + 1
         /\ q # <<>> => /\ Head(q) \in S /\ Tail(q) \in Seq(S) /\ Len(Tail(q)) = Len(q) - 1
                        /\ Len(q) > 0 /\ 1 \in DOMAIN q /\ Head(q) = q[1]
OBVIOUS

LEMMA AppendFacts ==
  ASSUME NEW S, NEW q \in Seq(S), NEW x \in S
  PROVE  /\ DOMAIN Append(q, x) = DOMAIN q \union {Len(q) + 1}
         /\ \A j \in DOMAIN q : Append(q, x)[j] = q[j]
         /\ Append(q, x)[Len(q) + 1] = x /\ Len(q) + 1 \notin DOMAIN q
         /\ DOMAIN q = 1..Len(q) /\ Len(q) \in Nat
OBVIOUS

LEMMA TailFacts ==
  ASSUME NEW S, NEW q \in Seq(S), q # <<>>
  PROVE  /\ DOMAIN Tail(q) = 1..(Len(q) - 1)
         /\ \A j \in DOMAIN Tail(q) : Tail(q)[j] = q[j + 1] /\ j + 1 \in DOMAIN q /\ j \in Nat
         /\ DOMAIN q = 1..Len(q) /\ Len(q) \in Nat /\ 1 \in DOMAIN q
OBVIOUS

(* A line that is delivered fits its wire.                                 *)
LEMMA DeliverTypes ==
  ASSUME WireTypes, NEW t, NEW c \in Client, NEW m \in Lines, NEW next, NEW giveUp,
         Deliver(t, c, m, next, giveUp)
  PROVE  /\ toClient' \in [Client -> Seq(Lines)]
         /\ \A d \in Client : Len(toClient'[d]) <= SocketRoom
         /\ \A d \in Client : d # c => toClient'[d] = toClient[d]
         /\ \/ toClient'[c] = toClient[c]
            \/ toClient'[c] = Append(toClient[c], m) /\ c \notin closed /\ ~Gone(c)
<1>1. CASE UNCHANGED toClient
  BY <1>1 DEF WireTypes
<1>2. CASE /\ toClient' = [toClient EXCEPT ![c] = Append(@, m)] /\ Len(toClient[c]) < SocketRoom
           /\ c \notin closed /\ ~Gone(c)
  BY <1>2, QueueFacts DEF WireTypes
<1> QED
  BY <1>1, <1>2 DEF Deliver

(* The seats keep their types.                                              *)
LEMMA BookingTyping ==
  ASSUME Typed, [ServerNext]_serverVars
  PROVE  BookingTypes'
<1> USE DEF Typed
<1>1. ASSUME NEW w \in Worker, HandleTask(w) PROVE BookingTypes'
  <2> DEFINE r == task[w]
             s == OnlySeat(r)
  <2>1. r \in Request
    BY <1>1 DEF HandleTask, HandTypes, Typed
  <2>2. /\ r.client \in Client /\ r.id \in 1..MaxId /\ Entry(r) \in Entries
        /\ \A st \in Status : Reply(r, st) \in Replies
    BY <2>1, RequestFacts
  <2>3. answers' \subseteq Replies
    BY <1>1, <2>2 DEF HandleTask, BookingTypes
  <2>4. ~Malformed(r) /\ r.command # "RESERVE_MULTI" => s \in Seat
    BY <2>1, RequestFacts DEF Malformed, BadSeat, OnlySeat, Request
  <2>5. r.command \in Command
    BY <2>1, RequestFacts
  <2>6. CASE Grant(r)
    BY <2>2, <2>3, <2>6 DEF Grant, BookingTypes
  <2>7. CASE Waitlist(r)
    <3>1. s \in Seat /\ waiting[s] \in Seq(Entries)
      BY <2>4, <2>7 DEF Waitlist, Waitlisted, BookingTypes
    <3>2. Append(waiting[s], Entry(r)) \in Seq(Entries)
      BY <3>1, <2>2, QueueFacts
    <3> QED
      BY <2>3, <2>7, <3>1, <3>2 DEF Waitlist, BookingTypes
  <2>8. CASE Free(r)
    BY <2>3, <2>8 DEF Free, BookingTypes
  <2>9. CASE HandOver(r)
    <3>1. s \in Seat /\ waiting[s] \in Seq(Entries) /\ waiting[s] # <<>>
      BY <2>4, <2>9 DEF HandOver, Cancelled, BookingTypes
    <3>2. Head(waiting[s]) \in Entries /\ Tail(waiting[s]) \in Seq(Entries)
      BY <3>1, QueueFacts
    <3>3. Head(waiting[s]).client \in Client /\ Notice(Head(waiting[s]), s) \in Notices
      BY <3>1, <3>2 DEF Entries, Notice, Notices
    <3> QED
      BY <2>3, <2>9, <3>1, <3>2, <3>3 DEF HandOver, BookingTypes
  <2>10. CASE Refuse(r)
    BY <2>3, <2>10 DEF Refuse, BookingTypes
  <2> QED
    BY <1>1, <2>6, <2>7, <2>8, <2>9, <2>10 DEF HandleTask, Handle
<1> QED
  BY <1>1, Frames DEF Changes, bookingVars, BookingTypes

(* Whoever has something in hand has something of its kind.                *)
LEMMA HandTyping ==
  ASSUME Typed, [ServerNext]_serverVars
  PROVE  HandTypes'
<1> USE DEF Typed
<1>1. \A q \in Seq(Request) : q # <<>> => Head(q) \in Request
  BY QueueFacts
<1>2. \A q \in Seq(Notices) : q # <<>> => Head(q) \in Notices
  BY QueueFacts
<1>3. task' \in [Thread -> Request \union Notices \union {NoTask}]
  <2>1. ASSUME NEW c \in Client, ReadRequest(c) PROVE task' \in [Thread -> Request \union Notices \union {NoTask}]
    <3>1. Head(toServer[c]) \in Request
      BY <2>1, QueueFacts DEF ReadRequest, WireTypes
    <3> QED
      BY <2>1, <3>1 DEF ReadRequest, HandTypes
  <2>2. ASSUME NEW w \in Worker, TakeTask(w) \/ RecordResponse(w) PROVE task' \in [Thread -> Request \union Notices \union {NoTask}]
    BY <1>1, <2>2 DEF TakeTask, RecordResponse, HandTypes, QueueTypes
  <2>3. ASSUME Put \/ TakeNotice \/ CountNotice PROVE task' \in [Thread -> Request \union Notices \union {NoTask}]
    BY <1>2, <2>3 DEF Put, TakeNotice, CountNotice, HandTypes, QueueTypes
  <2> QED
    BY <2>1, <2>2, <2>3, Frames DEF Changes, HandTypes
<1>4. reply' \in [Worker -> Status \union {None}]
  BY Frames DEF Changes, HandTypes, HandleTask, RecordResponse
<1>5. BookingTypes'
  BY BookingTyping
<1>6. notice' \in [Worker -> SUBSET Notices]
  <2>1. ASSUME NEW w \in Worker, HandleTask(w) PROVE notice' \in [Worker -> SUBSET Notices]
    BY <1>5, <2>1 DEF HandleTask, HandTypes, BookingTypes
  <2>2. ASSUME NEW w \in Worker, SubmitNotice(w) PROVE notice' \in [Worker -> SUBSET Notices]
    BY <2>2 DEF SubmitNotice, HandTypes
  <2> QED
    BY <2>1, <2>2, Frames DEF Changes, HandTypes
<1>7. (Holding => task[Main] \in Request)'
  <2>1. ASSUME NEW c \in Client, ReadRequest(c) PROVE Head(toServer[c]) \in Request
    BY <2>1, QueueFacts DEF ReadRequest, WireTypes
  <2> QED
    BY <2>1, MainLives DEF MainLife, HandTypes, Holding
<1>8. \A w \in Worker : (AtWork(w) => task[w] \in Request)'
  BY <1>1, WorkersLive DEF WorkerLife, HandTypes, AtWork, QueueTypes
<1>9. \A w \in Worker : (w \in Replying => reply[w] \in Status)'
  <2>1. ASSUME NEW w \in Worker, HandleTask(w) PROVE reply'[w] \in Status
    BY <2>1 DEF HandleTask, HandTypes
  <2> QED
    BY <2>1, WorkersLive DEF WorkerLife, HandTypes
<1>10. (Carrying => task["notifier"] \in Notices)'
  BY <1>2, NotifierLives DEF NotifierLife, HandTypes, Carrying, QueueTypes
<1> QED
  BY <1>3, <1>4, <1>6, <1>7, <1>8, <1>9, <1>10 DEF HandTypes, Holding, AtWork, Carrying, Replying

LEMMA ProperFacts ==
  ASSUME NEW r \in Proper
  PROVE  /\ r \in Request /\ ~Malformed(r) /\ SeatsOf(r) \subseteq Seat
         /\ r.command # "RESERVE_MULTI" =>
              /\ SeatsOf(r) = {OnlySeat(r)} /\ OnlySeat(r) \in Seat /\ r.seats = <<OnlySeat(r)>>
<1>1. /\ r \in Request /\ ~Malformed(r) /\ r.seats \in Seq(Int)
      /\ r.command # "RESERVE_MULTI" => Len(r.seats) = 1
  BY RequestFacts DEF Proper, Request
<1>2. SeatsOf(r) \subseteq Seat
  BY <1>1 DEF Malformed, BadSeat, SeatsOf
<1>3. ASSUME r.command # "RESERVE_MULTI"
      PROVE  SeatsOf(r) = {OnlySeat(r)} /\ OnlySeat(r) \in Seat /\ r.seats = <<OnlySeat(r)>>
  BY <1>1, <1>2, <1>3 DEF SeatsOf, OnlySeat
<1> QED
  BY <1>1, <1>2, <1>3

LEMMA ViewTypes ==
  ASSUME NEW v \in Views
  PROVE  /\ v.held \in SUBSET Seat /\ v.pending \in SUBSET Proper /\ v.early \in SUBSET (1..MaxId)
         /\ v.waits \in SUBSET Proper /\ v.sent \in 0..RequestsPerClient
         /\ v.answered \in Nat /\ v.listed \in Nat /\ v.told \in Nat
BY DEF Views

(* What a client's step makes of its view.                                  *)
LEMMA SendEffect ==
  ASSUME ClientTypes, NEW c \in Client, NEW r \in Choose(c), SendRequest(c, r)
  PROVE  /\ \A d \in Client : d # c => view'[d] = view[d]
         /\ view'[c] \in Views
         /\ r \in Request /\ r.client = c /\ r.id = view[c].sent + 1 /\ ~Malformed(r)
         /\ SeatsOf(r) \intersect Busy(c) = {}
         /\ r.command = "CANCEL" => OnlySeat(r) \in view[c].held
         /\ view'[c].held = view[c].held /\ view'[c].pending = view[c].pending \union {r}
         /\ view'[c].early = view[c].early /\ view'[c].waits = view[c].waits
         /\ view'[c].sent = r.id /\ view'[c].answered = view[c].answered
         /\ view'[c].listed = view[c].listed /\ view'[c].told = view[c].told
<1>1. view[c] \in Views /\ view \in [Client -> Views]
  BY DEF ClientTypes
<1>2. /\ r \in Request /\ r.client = c /\ r.id = view[c].sent + 1 /\ ~Malformed(r)
      /\ SeatsOf(r) \intersect Busy(c) = {}
      /\ r.command = "CANCEL" => OnlySeat(r) \in view[c].held
  BY DEF Choose
<1>3. r.id \in 0..RequestsPerClient
  BY <1>2, RequestFacts
<1> DEFINE x2 == view[c].pending \union {r}
           n1 == [view[c] EXCEPT !.sent = r.id]
           n2 == [n1 EXCEPT !.pending = x2]
<1>4. view' = [view EXCEPT ![c] = n2]
  BY <1>1 DEF SendRequest
<1>5. view'[c] = n2 /\ \A d \in Client : d # c => view'[d] = view[d]
  BY <1>1, <1>4
<1>6. /\ n1 \in Views /\ n1.sent = r.id /\ n1.held = view[c].held /\ n1.early = view[c].early
      /\ n1.waits = view[c].waits /\ n1.answered = view[c].answered
      /\ n1.listed = view[c].listed /\ n1.told = view[c].told
  BY <1>1, <1>3 DEF Views
<1>7. x2 \in SUBSET Proper
  BY <1>1, <1>2, ViewTypes DEF Proper
<1> HIDE DEF n1, x2
<1>8. /\ n2 \in Views /\ n2.pending = x2 /\ n2.sent = n1.sent
      /\ n2.held = n1.held /\ n2.early = n1.early /\ n2.waits = n1.waits
      /\ n2.answered = n1.answered /\ n2.listed = n1.listed /\ n2.told = n1.told
  BY <1>6, <1>7 DEF Views
<1> HIDE DEF n2
<1> QED
  BY <1>2, <1>5, <1>6, <1>8 DEF x2

(* What the response m to the request r makes of a view, and the notice m. *)
RespView(c, m, r) ==
  /\ \A d \in Client : d # c => view'[d] = view[d]
  /\ view'[c] \in Views
  /\ r \in view[c].pending /\ r \in Request /\ r.id = m.id /\ r.seats = m.seats
  /\ r.id \in view[c].early => m.status = "WAITLISTED"
  /\ m.status = "WAITLISTED" => r.command = "RESERVE"
  /\ view'[c].held = IF m.status = "SUCCESS"
                     THEN IF r.command = "CANCEL" THEN view[c].held \ SeatsOf(r)
                          ELSE view[c].held \union SeatsOf(r)
                     ELSE view[c].held
  /\ view'[c].waits = IF m.status = "WAITLISTED" /\ r.id \notin view[c].early
                      THEN view[c].waits \union {r} ELSE view[c].waits
  /\ view'[c].listed = IF m.status = "WAITLISTED" THEN view[c].listed + 1
                       ELSE view[c].listed
  /\ view'[c].pending = view[c].pending \ {r} /\ view'[c].early = view[c].early \ {r.id}
  /\ view'[c].answered = view[c].answered + 1
  /\ view'[c].sent = view[c].sent /\ view'[c].told = view[c].told

LEMMA RespEffect ==
  ASSUME ClientTypes, NEW c \in Client, NEW m \in Lines, m.type = "RESP",
         NEW r \in Answered(c, m), view' = [view EXCEPT ![c] = TakeResp(@, m, r)]
  PROVE  RespView(c, m, r)
<1>1. view[c] \in Views /\ view \in [Client -> Views]
  BY DEF ClientTypes
<1>2. /\ r \in view[c].pending /\ r \in Request /\ r.id = m.id /\ r.seats = m.seats
      /\ r.id \in view[c].early => m.status = "WAITLISTED"
      /\ m.status = "WAITLISTED" => r.command = "RESERVE"
  BY <1>1 DEF Answered, Views, Proper
<1>3. SeatsOf(r) \subseteq Seat /\ r \in Proper
  BY <1>1, ProperFacts DEF Answered, Views
<1> DEFINE v == view[c]
           x1 == IF m.status = "SUCCESS"
                 THEN IF r.command = "CANCEL" THEN v.held \ SeatsOf(r) ELSE v.held \union SeatsOf(r)
                 ELSE v.held
           x2 == IF m.status = "WAITLISTED" /\ r.id \notin v.early THEN v.waits \union {r} ELSE v.waits
           x3 == IF m.status = "WAITLISTED" THEN v.listed + 1 ELSE v.listed
           x4 == v.pending \ {r}
           x5 == v.early \ {r.id}
           x6 == v.answered + 1
           n1 == [v EXCEPT !.held = x1]
           n2 == [n1 EXCEPT !.waits = x2]
           n3 == [n2 EXCEPT !.listed = x3]
           n4 == [n3 EXCEPT !.pending = x4]
           n5 == [n4 EXCEPT !.early = x5]
           n6 == [n5 EXCEPT !.answered = x6]
<1>4. view'[c] = n6 /\ \A d \in Client : d # c => view'[d] = view[d]
  BY <1>1 DEF TakeResp
<1>5. x1 \in SUBSET Seat /\ x2 \in SUBSET Proper /\ x3 \in Nat /\ x4 \in SUBSET Proper /\ x5 \in SUBSET (1..MaxId) /\ x6 \in Nat
  BY <1>1, <1>3, ViewTypes
<1>0. v \in Views
  BY <1>1
<1> HIDE DEF v, x1, x2, x3, x4, x5, x6
<1>6. /\ n1 \in Views /\ n1.held = x1
      /\ n1.pending = v.pending /\ n1.early = v.early /\ n1.waits = v.waits
      /\ n1.sent = v.sent /\ n1.answered = v.answered /\ n1.listed = v.listed
      /\ n1.told = v.told
  BY <1>5, <1>0 DEF Views
<1> HIDE DEF n1
<1>7. /\ n2 \in Views /\ n2.waits = x2
      /\ n2.held = n1.held /\ n2.pending = n1.pending /\ n2.early = n1.early
      /\ n2.sent = n1.sent /\ n2.answered = n1.answered /\ n2.listed = n1.listed
      /\ n2.told = n1.told
  BY <1>5, <1>6 DEF Views
<1> HIDE DEF n2
<1>8. /\ n3 \in Views /\ n3.listed = x3
      /\ n3.held = n2.held /\ n3.pending = n2.pending /\ n3.early = n2.early
      /\ n3.waits = n2.waits /\ n3.sent = n2.sent /\ n3.answered = n2.answered
      /\ n3.told = n2.told
  BY <1>5, <1>7 DEF Views
<1> HIDE DEF n3
<1>9. /\ n4 \in Views /\ n4.pending = x4
      /\ n4.held = n3.held /\ n4.early = n3.early /\ n4.waits = n3.waits
      /\ n4.sent = n3.sent /\ n4.answered = n3.answered /\ n4.listed = n3.listed
      /\ n4.told = n3.told
  BY <1>5, <1>8 DEF Views
<1> HIDE DEF n4
<1>10. /\ n5 \in Views /\ n5.early = x5
      /\ n5.held = n4.held /\ n5.pending = n4.pending /\ n5.waits = n4.waits
      /\ n5.sent = n4.sent /\ n5.answered = n4.answered /\ n5.listed = n4.listed
      /\ n5.told = n4.told
  BY <1>5, <1>9 DEF Views
<1> HIDE DEF n5
<1>11. /\ n6 \in Views /\ n6.answered = x6
      /\ n6.held = n5.held /\ n6.pending = n5.pending /\ n6.early = n5.early
      /\ n6.waits = n5.waits /\ n6.sent = n5.sent /\ n6.listed = n5.listed
      /\ n6.told = n5.told
  BY <1>5, <1>10 DEF Views
<1> HIDE DEF n6
<1> QED
  BY <1>2, <1>4, <1>6, <1>7, <1>8, <1>9, <1>10, <1>11 DEF v, x1, x2, x3, x4, x5, x6, RespView

NotifyView(c, m, r) ==
  /\ \A d \in Client : d # c => view'[d] = view[d]
  /\ view'[c] \in Views
  /\ r \in view[c].waits \union view[c].pending /\ r \in Request
  /\ r.id = m.id /\ r.seats = m.seats
  /\ r \in view[c].waits \/ (r.id \notin view[c].early /\ r.command = "RESERVE")
  /\ SeatsOf(r) = {OnlySeat(r)} /\ r.seats = <<OnlySeat(r)>>
  /\ view'[c].held = view[c].held \union {OnlySeat(r)}
  /\ view'[c].waits = view[c].waits \ {r}
  /\ view'[c].early = IF r \in view[c].pending THEN view[c].early \union {r.id}
                      ELSE view[c].early
  /\ view'[c].told = view[c].told + 1 /\ view'[c].pending = view[c].pending
  /\ view'[c].answered = view[c].answered /\ view'[c].listed = view[c].listed
  /\ view'[c].sent = view[c].sent

LEMMA NotifyEffect ==
  ASSUME ClientTypes, NEW c \in Client, NEW m \in Lines, m.type = "NOTIFY",
         NEW r \in Told(c, m), view' = [view EXCEPT ![c] = TakeNotify(@, r)]
  PROVE  NotifyView(c, m, r)
<1>1. view[c] \in Views /\ view \in [Client -> Views]
  BY DEF ClientTypes
<1>2. /\ r \in view[c].waits \union view[c].pending /\ r \in Request
      /\ r.id = m.id /\ r.seats = m.seats
      /\ r \in view[c].waits \/ (r.id \notin view[c].early /\ r.command = "RESERVE")
  BY <1>1 DEF Told, Views, Proper
<1>3. PICK s \in Seat : r.seats = <<s>>
  BY <1>2, LineFacts
<1>4. SeatsOf(r) = {s} /\ OnlySeat(r) = s
  BY <1>3 DEF SeatsOf, OnlySeat
<1>5. r.id \in 1..MaxId
  BY <1>2, RequestFacts
<1> DEFINE v == view[c]
           x1 == v.waits \ {r}
           x2 == IF r \in v.pending THEN v.early \union {r.id} ELSE v.early
           x3 == v.held \union SeatsOf(r)
           x4 == v.told + 1
           n1 == [v EXCEPT !.waits = x1]
           n2 == [n1 EXCEPT !.early = x2]
           n3 == [n2 EXCEPT !.held = x3]
           n4 == [n3 EXCEPT !.told = x4]
<1>6. view'[c] = n4 /\ \A d \in Client : d # c => view'[d] = view[d]
  BY <1>1 DEF TakeNotify
<1>7. x1 \in SUBSET Proper /\ x2 \in SUBSET (1..MaxId) /\ x3 \in SUBSET Seat /\ x4 \in Nat
  BY <1>1, <1>3, <1>4, <1>5, ViewTypes
<1>0. v \in Views
  BY <1>1
<1> HIDE DEF v, x1, x2, x3, x4
<1>8. /\ n1 \in Views /\ n1.waits = x1
      /\ n1.held = v.held /\ n1.pending = v.pending /\ n1.early = v.early
      /\ n1.sent = v.sent /\ n1.answered = v.answered /\ n1.listed = v.listed
      /\ n1.told = v.told
  BY <1>7, <1>0 DEF Views
<1> HIDE DEF n1
<1>9. /\ n2 \in Views /\ n2.early = x2
      /\ n2.held = n1.held /\ n2.pending = n1.pending /\ n2.waits = n1.waits
      /\ n2.sent = n1.sent /\ n2.answered = n1.answered /\ n2.listed = n1.listed
      /\ n2.told = n1.told
  BY <1>7, <1>8 DEF Views
<1> HIDE DEF n2
<1>10. /\ n3 \in Views /\ n3.held = x3
      /\ n3.pending = n2.pending /\ n3.early = n2.early /\ n3.waits = n2.waits
      /\ n3.sent = n2.sent /\ n3.answered = n2.answered /\ n3.listed = n2.listed
      /\ n3.told = n2.told
  BY <1>7, <1>9 DEF Views
<1> HIDE DEF n3
<1>11. /\ n4 \in Views /\ n4.told = x4
      /\ n4.held = n3.held /\ n4.pending = n3.pending /\ n4.early = n3.early
      /\ n4.waits = n3.waits /\ n4.sent = n3.sent /\ n4.answered = n3.answered
      /\ n4.listed = n3.listed
  BY <1>7, <1>10 DEF Views
<1> HIDE DEF n4
<1> QED
  BY <1>2, <1>3, <1>4, <1>6, <1>8, <1>9, <1>10, <1>11 DEF v, x1, x2, x3, x4, NotifyView

(* A client reads a line, sends a request, or only changes its phase.       *)
LEMMA ClientSteps ==
  ASSUME NEW c \in Client, ClientStep(c)
  PROVE  \/ (\E r \in Choose(c) : SendRequest(c, r))
         \/ /\ toClient[c] # <<>> /\ Head(toClient[c]).type = "RESP" /\ phase[c] = "up"
            /\ \E r \in Answered(c, Head(toClient[c])) :
                 view' = [view EXCEPT ![c] = TakeResp(@, Head(toClient[c]), r)]
            /\ toClient' = [toClient EXCEPT ![c] = Tail(@)] /\ UNCHANGED <<phase, toServer>>
         \/ /\ toClient[c] # <<>> /\ Head(toClient[c]).type = "NOTIFY" /\ phase[c] = "up"
            /\ \E r \in Told(c, Head(toClient[c])) :
                 view' = [view EXCEPT ![c] = TakeNotify(@, r)]
            /\ toClient' = [toClient EXCEPT ![c] = Tail(@)] /\ UNCHANGED <<phase, toServer>>
         \/ /\ toClient[c] # <<>> /\ Head(toClient[c]).type = "BYE" /\ InBalance(c)
            /\ phase[c] = "up" /\ phase' = [phase EXCEPT ![c] = "done"]
            /\ toClient' = [toClient EXCEPT ![c] = <<>>] /\ UNCHANGED <<view, toServer>>
         \/ /\ phase[c] = "new" /\ c \notin closed /\ phase' = [phase EXCEPT ![c] = "up"]
            /\ toServer' = [toServer EXCEPT ![c] = <<Hello>>] /\ UNCHANGED <<view, toClient>>
         \/ /\ phase[c] \in {"new", "up"} /\ ClientFails(c) /\ UNCHANGED toServer
<1>1. CASE ReceiveLine(c)
  BY <1>1 DEF ReceiveLine
<1>2. CASE Connect(c)
  BY <1>2 DEF Connect
<1>3. CASE ReceiveEnd(c) \/ AbortClient(c)
  BY <1>3 DEF ReceiveEnd, AbortClient
<1> QED
  BY <1>1, <1>2, <1>3 DEF ClientStep

LEMMA FailTypes ==
  ASSUME ClientTypes, WireTypes, NEW c \in Client, ClientFails(c)
  PROVE  /\ ClientTypes' /\ view' = view /\ toClient' \in [Client -> Seq(Lines)]
         /\ \A d \in Client : Len(toClient'[d]) <= SocketRoom
BY DEF ClientTypes, WireTypes, ClientFails

(* The clients keep their types, and so do their wires.                     *)
LEMMA ClientStepTypes ==
  ASSUME Typed, NEW c \in Client, ClientStep(c)
  PROVE  ClientTypes' /\ WireTypes'
<1> USE DEF Typed
<1>0. /\ ClientTypes /\ WireTypes /\ toServer[c] \in Seq(Request \union {Hello})
      /\ toClient[c] \in Seq(Lines)
  BY DEF WireTypes
<1>1. ASSUME NEW r \in Choose(c), SendRequest(c, r) PROVE ClientTypes' /\ WireTypes'
  <2>1. /\ \A d \in Client : d # c => view'[d] = view[d]
        /\ view'[c] \in Views /\ r \in Request
    BY <1>0, <1>1, SendEffect
  <2>2. ClientTypes'
    BY <2>1, <1>1 DEF SendRequest, ClientTypes
  <2>3. /\ Append(toServer[c], r) \in Seq(Request \union {Hello})
        /\ Len(Append(toServer[c], r)) = Len(toServer[c]) + 1
    BY <1>0, <2>1, QueueFacts
  <2>4. WireTypes'
    BY <1>0, <1>1, <2>3 DEF SendRequest, WireTypes
  <2> QED
    BY <2>2, <2>4
<1>2. ASSUME toClient[c] # <<>>, toClient' = [toClient EXCEPT ![c] = Tail(@)], UNCHANGED toServer
      PROVE  WireTypes' /\ Head(toClient[c]) \in Lines
  BY <1>0, <1>2, QueueFacts DEF WireTypes
<1>3. ASSUME toClient[c] # <<>>, Head(toClient[c]).type = "RESP", Head(toClient[c]) \in Lines,
             NEW r \in Answered(c, Head(toClient[c])),
             view' = [view EXCEPT ![c] = TakeResp(@, Head(toClient[c]), r)], UNCHANGED phase
      PROVE  ClientTypes'
  <2>1. view'[c] \in Views /\ \A d \in Client : d # c => view'[d] = view[d]
    BY <1>0, <1>3, RespEffect DEF RespView
  <2> QED
    BY <1>3, <2>1 DEF ClientTypes
<1>4. ASSUME toClient[c] # <<>>, Head(toClient[c]).type = "NOTIFY", Head(toClient[c]) \in Lines,
             NEW r \in Told(c, Head(toClient[c])),
             view' = [view EXCEPT ![c] = TakeNotify(@, r)], UNCHANGED phase
      PROVE  ClientTypes'
  <2>1. view'[c] \in Views /\ \A d \in Client : d # c => view'[d] = view[d]
    BY <1>0, <1>4, NotifyEffect DEF NotifyView
  <2> QED
    BY <1>4, <2>1 DEF ClientTypes
<1>5. ASSUME phase' = [phase EXCEPT ![c] = "done"], toClient' = [toClient EXCEPT ![c] = <<>>],
             UNCHANGED <<view, toServer>>
      PROVE  ClientTypes' /\ WireTypes'
  BY <1>5 DEF ClientTypes, WireTypes
<1>6. ASSUME phase' = [phase EXCEPT ![c] = "up"], toServer' = [toServer EXCEPT ![c] = <<Hello>>],
             UNCHANGED <<view, toClient>>
      PROVE  ClientTypes' /\ WireTypes'
  <2>1. <<Hello>> \in Seq(Request \union {Hello}) /\ Len(<<Hello>>) = 1
    OBVIOUS
  <2> QED
    BY <1>6, <2>1 DEF ClientTypes, WireTypes
<1>7. ASSUME ClientFails(c), UNCHANGED toServer PROVE ClientTypes' /\ WireTypes'
  BY <1>0, <1>7, FailTypes DEF WireTypes
<1> HIDE DEF Typed
<1> QED
  BY <1>1, <1>2, <1>3, <1>4, <1>5, <1>6, <1>7, ClientSteps

LEMMA ClientTyping ==
  ASSUME Typed, [ServerNext]_serverVars
  PROVE  ClientTypes' /\ WireTypes'
<1> USE DEF Typed
<1>1. ASSUME NEW c \in Client, ReadHello(c) \/ ReadRequest(c) PROVE WireTypes'
  <2>1. /\ toServer[c] # <<>> /\ toServer' = [toServer EXCEPT ![c] = Tail(@)]
        /\ toClient' = toClient /\ toServer[c] \in Seq(Request \union {Hello})
    BY <1>1 DEF ReadHello, ReadRequest, WireTypes
  <2>2. Tail(toServer[c]) \in Seq(Request \union {Hello}) /\ Len(Tail(toServer[c])) <= Len(toServer[c])
    BY <2>1, QueueFacts
  <2> QED
    BY <2>1, <2>2 DEF WireTypes
<1>2. ASSUME NEW t, NEW c \in Client, NEW m \in Lines, NEW next, NEW giveUp,
             Deliver(t, c, m, next, giveUp), UNCHANGED toServer
      PROVE  WireTypes'
  BY <1>2, DeliverTypes DEF WireTypes
<1>3. ASSUME NEW c \in Client, SayBye(c) PROVE WireTypes'
  BY <1>2, <1>3, ByeIsLine DEF SayBye
<1>4. ASSUME NEW w \in Worker, SendResponse(w) PROVE WireTypes'
  <2>1. task[w] \in Request /\ reply[w] \in Status
    BY <1>4 DEF SendResponse, HandTypes, Replying
  <2> QED
    BY <1>2, <1>4, <2>1, RequestFacts DEF SendResponse
<1>5. ASSUME SendNotice PROVE WireTypes'
  <2>1. task["notifier"] \in Notices
    BY <1>5 DEF SendNotice, HandTypes
  <2>2. CASE UNCHANGED <<toServer, toClient>>
    BY <2>2 DEF WireTypes
  <2> QED
    BY <1>2, <1>5, <2>1, <2>2, NoticeFacts DEF SendNotice
<1>6. CASE Fault
  <2>1. ASSUME NEW c \in Client, ClientFails(c), UNCHANGED toServer
        PROVE  ClientTypes' /\ WireTypes'
    BY <2>1, FailTypes DEF WireTypes
  <2>2. ASSUME UNCHANGED <<clientVars, wireVars>> PROVE ClientTypes' /\ WireTypes'
    BY <2>2 DEF ClientTypes, WireTypes, clientVars, wireVars
  <2> QED
    BY <1>6, <2>1, <2>2 DEF Fault
<1>7. ClientTypes'
  BY <1>6, Frames, ClientStepTypes DEF Changes, ClientTypes
<1>8. WireTypes'
  <2>1. CASE UNCHANGED <<toServer, toClient>>
    BY <2>1 DEF WireTypes
  <2> QED
    BY <1>1, <1>3, <1>4, <1>5, <1>6, <2>1, Frames, ClientStepTypes DEF Changes
<1> QED
  BY <1>7, <1>8

LEMMA QueueTyping ==
  ASSUME Typed, [ServerNext]_serverVars
  PROVE  QueueTypes'
<1> USE DEF Typed
<1>1. queue' \in Seq(Request) /\ Len(queue') <= Capacity
  <2>1. ASSUME Put PROVE queue' \in Seq(Request) /\ Len(queue') <= Capacity
    <3>1. task[Main] \in Request /\ queue \in Seq(Request) /\ Len(queue) <= Capacity
      BY <2>1 DEF Put, HandTypes, QueueTypes
    <3>2. CASE UNCHANGED queue
      BY <3>1, <3>2
    <3>3. CASE queue' = Append(queue, task[Main]) /\ ~Full
      BY <3>1, <3>3, QueueFacts DEF Full
    <3> QED
      BY <2>1, <3>2, <3>3 DEF Put
  <2>2. ASSUME NEW w \in Worker, TakeTask(w)
        PROVE  queue' \in Seq(Request) /\ Len(queue') <= Capacity
    <3>1. queue \in Seq(Request) /\ Len(queue) <= Capacity
      BY DEF QueueTypes
    <3>2. CASE UNCHANGED queue
      BY <3>1, <3>2
    <3>3. CASE queue # <<>> /\ queue' = Tail(queue)
      BY <3>1, <3>3, QueueFacts
    <3> QED
      BY <2>2, <3>2, <3>3 DEF TakeTask
  <2> QED
    BY <2>1, <2>2, Frames DEF Changes, QueueTypes
<1>2. notices' \in Seq(Notices)
  <2>1. ASSUME NEW w \in Worker, SubmitNotice(w) PROVE notices' \in Seq(Notices)
    <3>1. notice[w] \subseteq Notices /\ notices \in Seq(Notices)
      BY DEF HandTypes, QueueTypes
    <3> QED
      BY <2>1, <3>1, QueueFacts DEF SubmitNotice
  <2>2. ASSUME TakeNotice PROVE notices' \in Seq(Notices)
    <3>1. notices \in Seq(Notices)
      BY DEF QueueTypes
    <3>2. CASE UNCHANGED notices
      BY <3>1, <3>2
    <3>3. CASE notices # <<>> /\ notices' = Tail(notices)
      BY <3>1, <3>3, QueueFacts
    <3> QED
      BY <2>2, <3>2, <3>3 DEF TakeNotice
  <2> QED
    BY <2>1, <2>2, Frames DEF Changes, QueueTypes
<1> QED
  BY <1>1, <1>2 DEF QueueTypes

LEMMA TallyTyping ==
  ASSUME Typed, [ServerNext]_serverVars
  PROVE  TallyTypes'
<1> USE DEF Typed
<1>1. registered' \subseteq Client /\ registered \subseteq registered'
  BY Frames DEF Changes, TallyTypes, ReadHello
<1>2. accepted' \in [Client -> Nat]
  <2>1. ASSUME NEW c \in Client, ReadRequest(c) PROVE accepted' \in [Client -> Nat]
    <3>1. Head(toServer[c]) \in Request
      BY <2>1, QueueFacts DEF ReadRequest, WireTypes
    <3>2. Head(toServer[c]).id \in Nat
      BY <3>1, RequestFacts
    <3> QED
      BY <2>1, <3>2 DEF ReadRequest, TallyTypes
  <2> QED
    BY <2>1, Frames DEF Changes, TallyTypes
<1>3. responses' \in [Client -> Nat] /\ completed' \in Nat
  <2>1. ASSUME NEW w \in Worker, RecordResponse(w)
        PROVE  responses' \in [Client -> Nat] /\ completed' \in Nat
    BY <2>1 DEF RecordResponse, TallyTypes
  <2> QED
    BY <2>1, Frames DEF Changes, TallyTypes
<1>4. notifyCount' \in Nat /\ faults' \in 0..MaxFaults
  BY Frames DEF Changes, TallyTypes, CountNotice, Fault
<1>5. closed' \subseteq Client
  <2>1. ASSUME Put PROVE closed' \subseteq Client
    <3>1. task[Main].client \in Client
      BY <2>1, RequestFacts DEF Put, HandTypes
    <3> QED
      BY <2>1, <3>1 DEF Put, RefuseLine, TallyTypes, endVars
  <2>2. ASSUME NEW c \in Client, ReadHello(c) \/ ReadRequest(c) PROVE closed' \subseteq Client
    BY <2>2 DEF ReadHello, ReadRequest, RefuseLine, TallyTypes, endVars
  <2>3. ASSUME NEW t \in Thread, ReportFailure(t) PROVE closed' \subseteq Client
    BY <2>3 DEF ReportFailure, TallyTypes, endVars
  <2>4. ASSUME LeaveListener \/ CloseConnections PROVE closed' \subseteq Client
    BY <2>4 DEF LeaveListener, CloseConnections, TallyTypes
  <2> QED
    BY <2>1, <2>2, <2>3, <2>4, Frames DEF Changes, TallyTypes
<1>6. farewells' \subseteq registered'
  <2>1. ASSUME NEW c \in Client, SayBye(c) PROVE farewells' \subseteq registered
    BY <2>1 DEF SayBye, TallyTypes
  <2> QED
    BY <1>1, <2>1, Frames DEF Changes, TallyTypes
<1>7. /\ inputStopped' \in BOOLEAN /\ noticesFinished' \in BOOLEAN /\ noticesAborted' \in BOOLEAN
      /\ monitorStopping' \in BOOLEAN /\ interrupted' \subseteq Worker \union {"notifier"}
  BY Frames DEF Changes, TallyTypes, ReportFailure, JoinWorkers, StopMonitor, Shutdown,
     StopAfterLast, StopInput, noticeVars, endVars
<1> QED
  BY <1>1, <1>2, <1>3, <1>4, <1>5, <1>6, <1>7 DEF TallyTypes

LEMMA TypedStep == Typed /\ [ServerNext]_serverVars => Typed'
<1> SUFFICES ASSUME Typed, [ServerNext]_serverVars PROVE Typed'
  OBVIOUS
<1>1. (PcTypes /\ ReporterTypes)' /\ HandTypes' /\ BookingTypes'
  BY PcTyping, HandTyping, BookingTyping
<1>2. ClientTypes' /\ WireTypes' /\ QueueTypes' /\ TallyTypes'
  BY ClientTyping, QueueTyping, TallyTyping
<1> QED
  BY <1>1, <1>2 DEF Typed

LEMMA TypedInit == ServerInit => Typed
<1> SUFFICES ASSUME ServerInit PROVE Typed
  OBVIOUS
<1>1. ClientTypes
  BY DEF ServerInit, ClientTypes, Views
<1>2. \A S : <<>> \in Seq(S) /\ Len(<<>>) = 0
  OBVIOUS
<1>6. WireTypes
  BY <1>2 DEF ServerInit, WireTypes
<1>7. QueueTypes
  BY <1>2 DEF ServerInit, QueueTypes
<1>9. /\ registered = {} /\ accepted = [c \in Client |-> 0] /\ responses = [c \in Client |-> 0]
      /\ completed = 0 /\ notifyCount = 0 /\ faults = 0 /\ closed = {} /\ farewells = {}
      /\ ~inputStopped /\ ~noticesFinished /\ ~noticesAborted /\ ~monitorStopping
      /\ inputStopped \in BOOLEAN /\ noticesFinished \in BOOLEAN /\ noticesAborted \in BOOLEAN
      /\ monitorStopping \in BOOLEAN /\ interrupted = {}
  BY Zenon DEF ServerInit
<1>8. TallyTypes
  BY <1>9 DEF TallyTypes
<1>3. BookingTypes
  BY DEF ServerInit, BookingInit, BookingTypes
<1>4. PcTypes
  BY DEF ServerInit, PcTypes, Thread, Main, MainAt, WorkerAt, NotifierAt, MonitorAt
<1>5. HandTypes /\ ReporterTypes
  BY <1>4 DEF ServerInit, HandTypes, ReporterTypes, Replying, PcTypes, Thread, Main
<1> QED
  BY <1>1, <1>3, <1>4, <1>5, <1>6, <1>7, <1>8 DEF Typed

-----------------------------------------------------------------------------
(* What the threads have in hand, and what is on the wires *)

(* What a client has sent is what main has accepted of it and what is still*)
(* on the wire, in order.                                                  *)
WireOK(c) ==
  LET q == toServer[c] IN
  /\ \A j \in DOMAIN q : q[j] \in Request => q[j].client = c
  /\ phase[c] = "new" => q = <<>> /\ view[c].sent = 0 /\ c \notin registered
  /\ c \in registered =>
       /\ view[c].sent = accepted[c] + Len(q)
       /\ \A j \in DOMAIN q : q[j] \in Request /\ q[j].id = accepted[c] + j
  /\ c \notin registered =>
       /\ accepted[c] = 0 /\ responses[c] = 0
       /\ \/ c \in closed
          \/ q = <<>> /\ view[c].sent = 0 /\ phase[c] # "up"
          \/ /\ q # <<>> /\ q[1] = Hello /\ Len(q) = view[c].sent + 1
             /\ \A j \in DOMAIN q : j # 1 => q[j] \in Request /\ q[j].id = j - 1

(* A request on its way to the seats is pending at its client until it has *)
(* been answered.                                                          *)
InHand(r) == r \in view[r.client].pending \/ ~Unanswered(r)
Taken(r) == InHand(r) /\ r.id <= accepted[r.client]

RequestsInHand ==
  /\ \A c \in Client : \A j \in DOMAIN toServer[c] :
       toServer[c][j] \in Request => InHand(toServer[c][j])
  /\ Holding => Taken(task[Main])
  /\ \A j \in DOMAIN queue : Taken(queue[j])
  /\ \A w \in Worker : AtWork(w) => Taken(task[w])

(* What is on its way back was decided by the seats.                       *)
LineTrue(c, m) ==
  /\ m.type = "RESP" => [client |-> c, request |-> m.id, status |-> m.status] \in answers
  /\ m.type = "NOTIFY" => \E n \in handed : n.client = c /\ m = Notify(n)

ResultsTrue ==
  /\ \A w \in Replying : Reply(task[w], reply[w]) \in answers
  /\ \A w \in Worker : notice[w] \subseteq handed
  /\ \A j \in DOMAIN notices : notices[j] \in handed
  /\ Carrying => task["notifier"] \in handed
  /\ \A c \in Client : \A j \in DOMAIN toClient[c] : LineTrue(c, toClient[c][j])

-----------------------------------------------------------------------------
(* The books: what the clients know against what the seats say *)

(* Each request has one answer, and its number was accepted.  A notice     *)
(* stands for a request that was waitlisted and waits no more.             *)
AnswersOnce ==
  /\ \A a, b \in answers : a.client = b.client /\ a.request = b.request => a = b
  /\ \A a \in answers : a.request <= accepted[a.client]
  /\ \A n \in handed :
       [client |-> n.client, request |-> n.request, status |-> "WAITLISTED"] \in answers
  /\ \A n, p \in handed : n.client = p.client /\ n.request = p.request => n = p
  /\ \A n \in handed : \A s \in Seat : \A i \in DOMAIN waiting[s] :
        waiting[s][i] # [client |-> n.client, request |-> n.request]

SeatsFair ==
  /\ \A s \in Seat : owner[s] = Nobody => waiting[s] = <<>>
  /\ \A s \in Seat : \A i \in DOMAIN waiting[s] :
       /\ waiting[s][i].client # owner[s]
       /\ \A j \in DOMAIN waiting[s] : i # j => waiting[s][i].client # waiting[s][j].client

(* What a client has asked for and not got.                                *)
Asked(c) == view[c].waits \union view[c].pending

(* The requests of a client for which it waits for a seat, by the server's *)
(* books, and has not been told of any.                                    *)
Open(c) ==
  {r \in Asked(c) : Reply(r, "WAITLISTED") \in answers /\ r.id \notin view[c].early}

(* The requests that succeeded and the client has not heard of.            *)
Won(c) == {p \in view[c].pending : p.command # "CANCEL" /\ Reply(p, "SUCCESS") \in answers}
GivenUp(c) == {p \in view[c].pending : p.command = "CANCEL" /\ Reply(p, "SUCCESS") \in answers}

ViewOK(c) ==
  LET v == view[c] IN
  /\ \A r \in Asked(c) : r.client = c /\ r.id <= v.sent
  /\ \A r, p \in Asked(c) : r.id = p.id => r = p
  /\ \A r, p \in v.pending : r # p => SeatsOf(r) \intersect SeatsOf(p) = {}
  /\ \A r \in v.waits :
       r \notin v.pending /\ Reply(r, "WAITLISTED") \in answers /\ r.id \notin v.early
  /\ \A r \in Asked(c) : Reply(r, "WAITLISTED") \in answers => r.command = "RESERVE"
  /\ \A i \in v.early : \E n \in handed : n.client = c /\ n.request = i
  /\ IsFiniteSet(v.pending) /\ v.answered + Cardinality(v.pending) = v.sent

(* Why the client may believe it holds a seat, what becomes of its         *)
(* cancellations, of its successes, of its waits, and why it owns a seat.  *)
HeldOK(c) ==
  \A s \in view[c].held : owner[s] = c \/ \E p \in GivenUp(c) : OnlySeat(p) = s
CancelsOK(c) ==
  \A p \in view[c].pending : p.command = "CANCEL" =>
    /\ OnlySeat(p) \in view[c].held
    /\ Unanswered(p) \/ (p \in GivenUp(c) /\ owner[OnlySeat(p)] # c)
WonOK(c) ==
  \A p \in Won(c) : \A s \in SeatsOf(p) :
    owner[s] = c /\ \A r \in Open(c) : OnlySeat(r) # s
Queued(r) == \E i \in DOMAIN waiting[OnlySeat(r)] : waiting[OnlySeat(r)][i] = Entry(r)
OpenOK(c) ==
  \A r \in Open(c) :
    /\ OnlySeat(r) \notin view[c].held
    /\ Notice(Entry(r), OnlySeat(r)) \in handed \/ Queued(r)
    /\ \A p \in Open(c) : OnlySeat(p) = OnlySeat(r) => p = r
    /\ \A n \in handed : n.client = c /\ n.request = r.id =>
         n.seat = OnlySeat(r) /\ owner[n.seat] = c
OwnedOK(c) ==
  \A s \in Seat : owner[s] = c =>
    \/ s \in view[c].held
    \/ \E p \in Won(c) : s \in SeatsOf(p)
    \/ \E r \in Open(c) : OnlySeat(r) = s

ClaimsOK(c) == HeldOK(c) /\ CancelsOK(c) /\ WonOK(c) /\ OpenOK(c) /\ OwnedOK(c)

(* Whoever waits at a seat has asked for it.                               *)
WaitersKnown ==
  \A c \in Client : \A s \in Seat : \A i \in DOMAIN waiting[s] :
    waiting[s][i].client = c =>
      \E r \in Open(c) : r.id = waiting[s][i].request /\ OnlySeat(r) = s

(* The numbers of a client's answers, but for those a worker has still to  *)
(* record.                                                                 *)
Recorded(c) ==
  {a.request : a \in {b \in answers : b.client = c}}
    \ {task[w].id : w \in {v \in Replying : task[v].client = c}}

CountOK(c) ==
  /\ responses[c] <= Cardinality(Recorded(c)) /\ responses[c] <= RequestsPerClient
  /\ \A w, v \in Replying : w # v => task[w].client # task[v].client \/ task[w].id # task[v].id

Books == AnswersOnce /\ SeatsFair /\ WaitersKnown /\ \A c \in Client : ViewOK(c) /\ ClaimsOK(c)

BooksInv ==
  /\ Typed /\ (\A c \in Client : WireOK(c) /\ CountOK(c))
  /\ RequestsInHand /\ ResultsTrue /\ Books

-----------------------------------------------------------------------------
(* The three ways in which a client learns something *)

Asks(c, r) ==
  /\ ClientStep(c) /\ r \in Choose(c) /\ SendRequest(c, r)
  /\ \A d \in Client : d # c => view'[d] = view[d]
  /\ view'[c] \in Views
  /\ r \in Proper /\ r.client = c /\ r.id = view[c].sent + 1
  /\ SeatsOf(r) \intersect Busy(c) = {}
  /\ r.command = "CANCEL" => OnlySeat(r) \in view[c].held
  /\ view'[c].held = view[c].held /\ view'[c].pending = view[c].pending \union {r}
  /\ view'[c].early = view[c].early /\ view'[c].waits = view[c].waits
  /\ view'[c].sent = r.id /\ view'[c].answered = view[c].answered
  /\ view'[c].listed = view[c].listed /\ view'[c].told = view[c].told

Hears(c, m, r) ==
  /\ ClientStep(c) /\ phase[c] = "up" /\ toClient[c] # <<>> /\ m = Head(toClient[c])
  /\ m \in Lines /\ m.type = "RESP"
  /\ toClient' = [toClient EXCEPT ![c] = Tail(@)] /\ UNCHANGED <<phase, toServer>>
  /\ r \in Proper /\ RespView(c, m, r)

Learns(c, m, r) ==
  /\ ClientStep(c) /\ phase[c] = "up" /\ toClient[c] # <<>> /\ m = Head(toClient[c])
  /\ m \in Lines /\ m.type = "NOTIFY"
  /\ toClient' = [toClient EXCEPT ![c] = Tail(@)] /\ UNCHANGED <<phase, toServer>>
  /\ r \in Proper /\ NotifyView(c, m, r)

(* A client's step is one of them or leaves its view alone. *)
LEMMA ClientReads ==
  ASSUME Typed, NEW c \in Client, ClientStep(c)
  PROVE  \/ \E r \in Request : Asks(c, r)
         \/ \E m \in Lines, r \in Request : Hears(c, m, r) \/ Learns(c, m, r)
         \/ /\ UNCHANGED view /\ phase[c] = "up" /\ phase' = [phase EXCEPT ![c] = "done"]
            /\ toClient' = [toClient EXCEPT ![c] = <<>>] /\ UNCHANGED toServer
            /\ toClient[c] # <<>> /\ Head(toClient[c]).type = "BYE" /\ InBalance(c)
         \/ /\ UNCHANGED <<view, toClient>> /\ phase[c] = "new" /\ phase' = [phase EXCEPT ![c] = "up"]
         \/ /\ UNCHANGED <<view, toServer>> /\ phase[c] \in {"new", "up"}
            /\ phase' = [phase EXCEPT ![c] = "failed"] /\ toClient' = [toClient EXCEPT ![c] = <<>>]
<1>0. ClientTypes /\ toClient[c] \in Seq(Lines)
  BY DEF Typed, WireTypes
<1>1. ASSUME NEW r \in Choose(c), SendRequest(c, r) PROVE \E p \in Request : Asks(c, p)
  <2>1. Asks(c, r) /\ r \in Request
    BY <1>0, <1>1, SendEffect DEF Asks, Proper
  <2> QED
    BY <2>1
<1> DEFINE m == Head(toClient[c])
<1>2. ASSUME toClient[c] # <<>>, m.type = "RESP", phase[c] = "up",
             NEW r \in Answered(c, m), view' = [view EXCEPT ![c] = TakeResp(@, m, r)],
             toClient' = [toClient EXCEPT ![c] = Tail(@)], UNCHANGED <<phase, toServer>>
      PROVE  m \in Lines /\ Hears(c, m, r) /\ r \in Request
  <2>1. m \in Lines
    BY <1>0, <1>2, QueueFacts
  <2>2. r \in view[c].pending
    BY DEF Answered
  <2>3. r \in Proper /\ r \in Request
    BY <1>0, <2>2 DEF ClientTypes, Views, Proper
  <2> HIDE DEF m
  <2>4. m = Head(toClient[c])
    BY DEF m
  <2> QED
    BY <1>0, <1>2, <2>1, <2>3, <2>4, RespEffect DEF Hears
<1>3. ASSUME toClient[c] # <<>>, m.type = "NOTIFY", phase[c] = "up",
             NEW r \in Told(c, m), view' = [view EXCEPT ![c] = TakeNotify(@, r)],
             toClient' = [toClient EXCEPT ![c] = Tail(@)], UNCHANGED <<phase, toServer>>
      PROVE  m \in Lines /\ Learns(c, m, r) /\ r \in Request
  <2>1. m \in Lines
    BY <1>0, <1>3, QueueFacts
  <2>2. r \in view[c].pending \/ r \in view[c].waits
    BY DEF Told
  <2>3. r \in Proper /\ r \in Request
    BY <1>0, <2>2 DEF ClientTypes, Views, Proper
  <2> HIDE DEF m
  <2>4. m = Head(toClient[c])
    BY DEF m
  <2> QED
    BY <1>0, <1>3, <2>1, <2>3, <2>4, NotifyEffect DEF Learns
<1> HIDE DEF m
<1>4. ASSUME m \in Lines, NEW r \in Request, Hears(c, m, r) \/ Learns(c, m, r)
      PROVE  \E x \in Lines, p \in Request : Hears(c, x, p) \/ Learns(c, x, p)
  BY <1>4
<1>5. CASE ClientFails(c) /\ phase[c] \in {"new", "up"} /\ UNCHANGED toServer
  BY <1>5 DEF ClientFails
<1> QED
  BY <1>1, <1>2, <1>3, <1>4, <1>5, ClientSteps DEF m

LEMMA ClientMoves ==
  ASSUME Typed, NEW c \in Client, ClientStep(c)
  PROVE  \/ \E r \in Request : Asks(c, r)
         \/ \E m \in Lines, r \in Request : Hears(c, m, r) \/ Learns(c, m, r)
         \/ UNCHANGED view
BY ClientReads

(* Nothing that was decided, closed or registered is undone.               *)
LEMMA Grows ==
  ASSUME Typed, [ServerNext]_serverVars
  PROVE  /\ answers \subseteq answers' /\ handed \subseteq handed'
         /\ closed \subseteq closed' /\ registered \subseteq registered'
         /\ farewells \subseteq farewells'
         /\ \A c \in Client : accepted[c] <= accepted'[c]
<1>1. answers \subseteq answers' /\ handed \subseteq handed'
  <2>1. ASSUME NEW w \in Worker, HandleTask(w)
        PROVE  answers \subseteq answers' /\ handed \subseteq handed'
    BY <2>1 DEF HandleTask, Handle, Grant, Waitlist, Free, HandOver, Refuse
  <2> QED
    BY <2>1, Frames DEF Changes, bookingVars
<1>2. registered \subseteq registered' /\ farewells \subseteq farewells'
  BY Frames DEF Changes, ReadHello, SayBye
<1>3. \A c \in Client : accepted[c] <= accepted'[c]
  <2>1. ASSUME NEW c \in Client, ReadRequest(c)
        PROVE  \A d \in Client : accepted[d] <= accepted'[d]
    <3>1. accepted \in [Client -> Nat]
      BY DEF Typed, TallyTypes
    <3>2. CASE accepted' = accepted
      BY <3>1, <3>2
    <3>3. CASE accepted' = [accepted EXCEPT ![c] = accepted[c] + 1]
      BY <3>1, <3>3
    <3> QED
      BY <2>1, <3>2, <3>3 DEF ReadRequest
  <2>2. \A d \in Client : accepted[d] <= accepted[d]
    BY DEF Typed, TallyTypes
  <2> QED
    BY <2>1, <2>2, Frames DEF Changes
<1>4. closed \subseteq closed'
  <2>1. ASSUME Put PROVE closed \subseteq closed'
    BY <2>1 DEF Put, RefuseLine, endVars
  <2>2. ASSUME NEW c \in Client, ReadHello(c) \/ ReadRequest(c) PROVE closed \subseteq closed'
    BY <2>2 DEF ReadHello, ReadRequest, RefuseLine, endVars
  <2>3. ASSUME NEW t \in Thread, ReportFailure(t) PROVE closed \subseteq closed'
    BY <2>3 DEF ReportFailure, endVars
  <2>4. ASSUME LeaveListener \/ CloseConnections PROVE closed \subseteq closed'
    BY <2>4 DEF LeaveListener, CloseConnections
  <2> QED
    BY <2>1, <2>2, <2>3, <2>4, Frames DEF Changes
<1> QED
  BY <1>1, <1>2, <1>3, <1>4

-----------------------------------------------------------------------------
(* The wires to the server *)

(* A client's step leaves the others alone.                                *)
LEMMA OthersKeep ==
  ASSUME Typed, NEW d \in Client, ClientStep(d), NEW c \in Client, c # d
  PROVE  /\ view'[c] = view[c] /\ phase'[c] = phase[c]
         /\ toServer'[c] = toServer[c] /\ toClient'[c] = toClient[c]
<1>0. /\ phase \in [Client -> {"new", "up", "done", "failed"}] /\ ClientTypes /\ WireTypes
      /\ view \in [Client -> Views] /\ toServer \in [Client -> Seq(Request \union {Hello})]
      /\ toClient \in [Client -> Seq(Lines)]
  BY DEF Typed, ClientTypes, WireTypes
<1>1. view'[c] = view[c]
  <2>1. ASSUME NEW r \in Request, Asks(d, r) PROVE view'[c] = view[c]
    BY <2>1 DEF Asks
  <2>2. ASSUME NEW m \in Lines, NEW r \in Request, Hears(d, m, r) \/ Learns(d, m, r)
        PROVE view'[c] = view[c]
    BY <2>2 DEF Hears, Learns, RespView, NotifyView
  <2>3. CASE UNCHANGED view
    BY <2>3
  <2> QED
    BY <2>1, <2>2, <2>3, ClientMoves
<1>2. phase'[c] = phase[c] /\ toServer'[c] = toServer[c] /\ toClient'[c] = toClient[c]
  <2>1. ASSUME NEW r \in Choose(d), SendRequest(d, r)
        PROVE  phase'[c] = phase[c] /\ toServer'[c] = toServer[c] /\ toClient'[c] = toClient[c]
    BY <1>0, <2>1 DEF SendRequest
  <2>2. CASE ClientFails(d) /\ UNCHANGED toServer
    BY <1>0, <2>2 DEF ClientFails
  <2> QED
    BY <1>0, <2>1, <2>2, ClientSteps
<1> QED
  BY <1>1, <1>2

(* A wire no step touches stays in order.                                  *)
LEMMA WireSame ==
  ASSUME Typed, [ServerNext]_serverVars, NEW c \in Client, WireOK(c),
         view'[c].sent = view[c].sent, toServer'[c] = toServer[c],
         phase'[c] = phase[c] \/ phase'[c] \in {"done", "failed"},
         registered' = registered, accepted'[c] = accepted[c],
         c \notin registered => responses'[c] = responses[c]
  PROVE  WireOK(c)'
BY Grows DEF WireOK

LEMMA WireAsked ==
  ASSUME Typed, [ServerNext]_serverVars, NEW c \in Client, WireOK(c), NEW r \in Request, Asks(c, r)
  PROVE  WireOK(c)'
<1> DEFINE q == toServer[c]
           z == Append(q, r)
<1>1. q \in Seq(Request \union {Hello}) /\ Len(q) \in Nat /\ view[c].sent \in Nat
  BY DEF Typed, WireTypes, ClientTypes, Views
<1>2. /\ toServer'[c] = z /\ phase' = phase /\ phase[c] = "up"
      /\ view'[c].sent = r.id /\ r.id = view[c].sent + 1 /\ r.client = c
      /\ UNCHANGED <<registered, accepted, responses, closed>>
  BY DEF Asks, SendRequest, ClientStep, tallyVars, endVars, Typed, WireTypes
<1>3. /\ DOMAIN z = DOMAIN q \union {Len(q) + 1}
      /\ \A j \in DOMAIN q : z[j] = q[j]
      /\ z[Len(q) + 1] = r /\ Len(z) = Len(q) + 1
      /\ DOMAIN q = 1..Len(q) /\ z # <<>> /\ (q # <<>> => 1 \in DOMAIN q)
  BY <1>1, AppendFacts, QueueFacts
<1> HIDE DEF z, q
<1>4. accepted[c] \in Nat
  BY DEF Typed, TallyTypes
<1>5. \A j \in DOMAIN z : z[j] \in Request => z[j].client = c
  <2>1. \A j \in DOMAIN q : q[j] \in Request => q[j].client = c
    BY DEF WireOK, q
  <2> QED
    BY <1>2, <1>3, <2>1
<1>7. ASSUME c \in registered
      PROVE  /\ view'[c].sent = accepted[c] + Len(z)
             /\ \A j \in DOMAIN z : z[j] \in Request /\ z[j].id = accepted[c] + j
  <2>1. view[c].sent = accepted[c] + Len(q) /\ \A j \in DOMAIN q : q[j] \in Request /\ q[j].id = accepted[c] + j
    BY <1>7 DEF WireOK, q
  <2>2. ASSUME NEW j \in DOMAIN z PROVE z[j] \in Request /\ z[j].id = accepted[c] + j
    <3>1. CASE j \in DOMAIN q
      BY <1>3, <2>1, <3>1
    <3>2. CASE j = Len(q) + 1
      BY <1>1, <1>2, <1>3, <1>4, <2>1, <3>2
    <3> QED
      BY <1>3, <3>1, <3>2
  <2> QED
    BY <1>1, <1>2, <1>3, <1>4, <2>1, <2>2
<1>8. ASSUME c \notin registered, c \notin closed
      PROVE  /\ z # <<>> /\ z[1] = Hello /\ Len(z) = view'[c].sent + 1
             /\ \A j \in DOMAIN z : j # 1 => z[j] \in Request /\ z[j].id = j - 1
  <2>1. /\ q # <<>> /\ q[1] = Hello /\ Len(q) = view[c].sent + 1
        /\ \A j \in DOMAIN q : j # 1 => q[j] \in Request /\ q[j].id = j - 1
    BY <1>2, <1>8 DEF WireOK, q
  <2>2. ASSUME NEW j \in DOMAIN z, j # 1 PROVE z[j] \in Request /\ z[j].id = j - 1
    <3>1. CASE j \in DOMAIN q
      BY <1>3, <2>1, <2>2, <3>1
    <3>2. CASE j = Len(q) + 1
      BY <1>1, <1>2, <1>3, <2>1, <3>2
    <3> QED
      BY <1>3, <3>1, <3>2
  <2>3. 1 \in DOMAIN q /\ z[1] = Hello
    BY <1>3, <2>1
  <2> QED
    BY <1>1, <1>2, <1>3, <2>1, <2>2, <2>3
<1> QED
  BY <1>2, <1>5, <1>7, <1>8 DEF WireOK

LEMMA WireRead ==
  ASSUME Typed, [ServerNext]_serverVars, NEW c \in Client, WireOK(c), ReadHello(c) \/ ReadRequest(c)
  PROVE  WireOK(c)' /\ \A d \in Client : d # c => toServer'[d] = toServer[d]
<1> DEFINE q == toServer[c]
           z == Tail(q)
<1>1. q \in Seq(Request \union {Hello}) /\ q # <<>> /\ toServer'[c] = z /\ c \notin closed
      /\ Head(q) \in Request \union {Hello}
  BY QueueFacts DEF Typed, WireTypes, ReadHello, ReadRequest
<1>2. /\ DOMAIN z = 1..(Len(q) - 1) /\ Len(z) = Len(q) - 1 /\ Head(q) = q[1]
      /\ \A j \in DOMAIN z : z[j] = q[j + 1] /\ j + 1 \in DOMAIN q /\ j \in Nat /\ j # 0
      /\ 1 \in DOMAIN q /\ Len(q) \in Nat
  BY <1>1, TailFacts, QueueFacts
<1>3. /\ phase' = phase /\ view' = view /\ phase[c] # "new" /\ accepted[c] \in Nat
      /\ view[c].sent \in Nat /\ UNCHANGED responses
  BY <1>1 DEF ReadHello, ReadRequest, clientVars, WireOK, Typed, TallyTypes, ClientTypes, Views
<1>4. \A j \in DOMAIN z : z[j] \in Request => z[j].client = c
  BY <1>2 DEF WireOK
<1>5. Hello \notin Request
  BY RequestFacts
<1>8. \A d \in Client : d # c => toServer'[d] = toServer[d]
  BY DEF ReadHello, ReadRequest, Typed, WireTypes
<1>6. CASE ReadHello(c)
  <2>1. c \notin registered /\ q[1] = Hello
    BY <1>1, <1>2, <1>5, <1>6 DEF ReadHello, WireOK
  <2>2. /\ accepted[c] = 0 /\ responses[c] = 0 /\ view[c].sent = 0 + Len(z)
        /\ \A j \in DOMAIN z : z[j] \in Request /\ z[j].id = 0 + j
    BY <1>1, <1>2, <2>1, <1>3 DEF WireOK
  <2>3. /\ accepted'[c] = 0 /\ responses'[c] = 0 /\ (c \in registered' \/ c \in closed')
        /\ view'[c].sent = 0 + Len(z) /\ phase'[c] # "new"
    BY <1>3, <1>6, <2>2 DEF ReadHello, RefuseLine
  <2> HIDE DEF z, q
  <2> QED
    BY <1>1, <1>4, <1>8, <2>2, <2>3 DEF WireOK
<1>7. CASE ReadRequest(c)
  <2>1. c \in registered
    BY <1>1, <1>2, <1>7 DEF ReadRequest, WireOK
  <2>2. Head(q).id = accepted[c] + 1
    BY <1>2, <2>1 DEF WireOK
  <2>3. accepted' = [accepted EXCEPT ![c] = Head(q).id] /\ registered' = registered
    BY <1>7, <2>2 DEF ReadRequest
  <2>4. accepted'[c] = accepted[c] + 1
    BY <2>2, <2>3 DEF Typed, TallyTypes
  <2>6. view[c].sent = accepted[c] + Len(q) /\ \A j \in DOMAIN q : q[j] \in Request /\ q[j].id = accepted[c] + j
    BY <2>1 DEF WireOK
  <2>5. /\ view'[c].sent = accepted'[c] + Len(z) /\ phase'[c] # "new" /\ c \in registered'
        /\ \A j \in DOMAIN z : z[j] \in Request /\ z[j].id = accepted'[c] + j
    <3>1. ASSUME NEW j \in DOMAIN z PROVE z[j] \in Request /\ z[j].id = accepted'[c] + j
      <4>1. q[j + 1] \in Request /\ q[j + 1].id = accepted[c] + (j + 1) /\ j \in Nat
        BY <1>2, <2>6
      <4>2. z[j] = q[j + 1]
        BY <1>2
      <4> HIDE DEF z, q
      <4> QED
        BY <1>3, <2>4, <4>1, <4>2
    <3> QED
      BY <1>2, <1>3, <2>1, <2>3, <2>4, <2>6, <3>1
  <2> HIDE DEF z, q
  <2> QED
    BY <1>1, <1>4, <1>8, <2>5 DEF WireOK
<1> QED
  BY <1>6, <1>7, <1>8

LEMMA WireStep ==
  ASSUME Typed, \A c \in Client : WireOK(c), [ServerNext]_serverVars
  PROVE  \A c \in Client : WireOK(c)'
<1> SUFFICES ASSUME NEW c \in Client PROVE WireOK(c)'
  OBVIOUS
<1>0. phase \in [Client -> {"new", "up", "done", "failed"}] /\ ClientTypes /\ WireTypes
  BY DEF Typed, ClientTypes
<1>1. ASSUME NEW d \in Client, ClientStep(d) PROVE WireOK(c)'
  <2>1. UNCHANGED <<registered, accepted, responses, closed>>
    BY <1>1 DEF ClientStep, tallyVars, endVars
  <2>2. ASSUME view'[c].sent = view[c].sent, toServer'[c] = toServer[c],
               phase'[c] = phase[c] \/ phase'[c] \in {"done", "failed"}
        PROVE  WireOK(c)'
    BY <2>1, <2>2, WireSame
  <2>3. CASE c # d
    BY <1>1, <2>2, <2>3, OthersKeep
  <2>4. CASE c = d /\ \E r \in Request : Asks(c, r)
    BY <2>4, WireAsked
  <2>5. CASE c = d /\ ~\E r \in Request : Asks(c, r)
    <3>4. ASSUME NEW m \in Lines, NEW r \in Request, Hears(c, m, r) \/ Learns(c, m, r)
          PROVE  view'[c].sent = view[c].sent
      BY <3>4 DEF Hears, Learns, RespView, NotifyView
    <3>1. view'[c].sent = view[c].sent
      <4>1. CASE UNCHANGED view
        BY <4>1
      <4> QED
        BY <1>1, <2>5, <3>4, <4>1, ClientMoves
    <3>2. ASSUME NEW r \in Choose(c), SendRequest(c, r) PROVE FALSE
      <4>1. Asks(c, r) /\ r \in Request
        BY <1>0, <1>1, <2>5, <3>2, SendEffect DEF Asks, Proper
      <4> QED
        BY <2>5, <4>1
    <3>3. CASE /\ phase[c] = "new" /\ c \notin closed /\ phase' = [phase EXCEPT ![c] = "up"]
               /\ toServer' = [toServer EXCEPT ![c] = <<Hello>>] /\ UNCHANGED <<view, toClient>>
      <4>1. /\ toServer'[c] = <<Hello>> /\ view[c].sent = 0 /\ c \notin registered
            /\ accepted[c] = 0 /\ responses[c] = 0 /\ phase'[c] = "up"
        BY <1>0, <3>3 DEF WireOK, WireTypes
      <4>2. /\ Len(<<Hello>>) = 1 /\ <<Hello>>[1] = Hello /\ DOMAIN <<Hello>> = {1}
            /\ <<Hello>> # <<>> /\ Hello \notin Request
        BY RequestFacts
      <4> QED
        BY <2>1, <3>1, <4>1, <4>2 DEF WireOK
    <3> QED
      BY <1>0, <1>1, <2>2, <2>5, <3>1, <3>2, <3>3, ClientSteps DEF ClientFails
  <2> QED
    BY <2>3, <2>4, <2>5
<1>2. ASSUME NEW d \in Client, ReadHello(d) \/ ReadRequest(d) PROVE WireOK(c)'
  <2>1. CASE c = d
    BY <1>2, <2>1, WireRead
  <2>2. CASE c # d
    <3>1. UNCHANGED <<phase, view, responses>> /\ toServer'[c] = toServer[c] /\ accepted'[c] = accepted[c]
      BY <1>2, <2>2, WireRead DEF ReadHello, ReadRequest, clientVars, Typed, TallyTypes
    <3>2. c \in registered' <=> c \in registered
      BY <1>2, <2>2 DEF ReadHello, ReadRequest
    <3> QED
      BY <3>1, <3>2, Grows DEF WireOK
  <2> QED
    BY <2>1, <2>2
<1>3. ASSUME NEW w \in Worker, RecordResponse(w) PROVE WireOK(c)'
  <2>1. c \notin registered => responses'[c] = responses[c]
    BY <1>3 DEF RecordResponse, Typed, TallyTypes
  <2> QED
    BY <1>3, <2>1, WireSame DEF RecordResponse, clientVars, wireVars
<1>4. CASE Fault
  <2>1. phase'[c] = phase[c] \/ phase'[c] \in {"done", "failed"}
    BY <1>0, <1>4 DEF Fault, ClientFails, clientVars
  <2> QED
    BY <1>4, <2>1, WireSame DEF Fault, ClientFails, clientVars, wireVars, tallyVars
<1>5. CASE UNCHANGED <<phase, view, toServer, registered, accepted, responses>>
  BY <1>5, WireSame
<1> QED
  BY <1>1, <1>2, <1>3, <1>4, <1>5, Frames DEF Changes

-----------------------------------------------------------------------------
(* The wires to the clients *)

(* A thread sends a client a line.                                         *)
LineAdded(c, m) ==
  /\ toClient'[c] = Append(toClient[c], m) /\ m \in Lines /\ c \notin closed /\ ~Gone(c)
  /\ \/ \E w \in Worker : /\ SendResponse(w) /\ pc[w] = "send" /\ task[w].client = c
                          /\ m = Resp(task[w], reply[w]) /\ pc'[w] = "record"
     \/ /\ SendNotice /\ pc["notifier"] = "send" /\ task["notifier"].client = c
        /\ m = Notify(task["notifier"]) /\ pc'["notifier"] = "count"
     \/ SayBye(c) /\ m = Bye

LineRead(c) ==
  /\ ClientStep(c) /\ phase[c] = "up" /\ toClient[c] # <<>> /\ toClient'[c] = Tail(toClient[c])

(* The wire to a client is read by it, or emptied when it leaves, or gets  *)
(* one line more.                                                          *)
LEMMA LinesMove ==
  ASSUME Typed, [ServerNext]_serverVars, NEW c \in Client
  PROVE  \/ toClient'[c] = toClient[c]
         \/ LineRead(c)
         \/ toClient'[c] = <<>> /\ phase'[c] \in {"done", "failed"}
         \/ \E m \in Lines : LineAdded(c, m)
<1> DEFINE Goal == \/ toClient'[c] = toClient[c]
                   \/ LineRead(c)
                   \/ toClient'[c] = <<>> /\ phase'[c] \in {"done", "failed"}
                   \/ \E m \in Lines : LineAdded(c, m)
<1>0. /\ phase \in [Client -> {"new", "up", "done", "failed"}] /\ WireTypes
      /\ toClient \in [Client -> Seq(Lines)] /\ HandTypes /\ PcTypes
  BY DEF Typed, ClientTypes, WireTypes
<1>1. ASSUME NEW d \in Client, ClientStep(d) PROVE Goal
  <2>1. CASE c # d
    BY <1>1, <2>1, OthersKeep
  <2>2. CASE c = d
    <3>1. ASSUME NEW r \in Choose(c), SendRequest(c, r) PROVE Goal
      BY <3>1 DEF SendRequest
    <3>2. CASE ClientFails(c)
      BY <1>0, <3>2 DEF ClientFails
    <3> QED
      BY <1>0, <1>1, <2>2, <3>1, <3>2, ClientSteps DEF LineRead
  <2> QED
    BY <2>1, <2>2
<1>2. ASSUME Fault PROVE Goal
  <2>1. ASSUME NEW d \in Client, ClientFails(d) PROVE Goal
    BY <1>0, <2>1 DEF ClientFails
  <2> QED
    BY <1>2, <2>1 DEF Fault, wireVars
<1>3. ASSUME NEW t \in Thread, NEW d \in Client, NEW m \in Lines, NEW next, NEW giveUp,
             Deliver(t, d, m, next, giveUp)
      PROVE  \/ toClient'[c] = toClient[c]
             \/ /\ c = d /\ toClient'[c] = Append(toClient[c], m) /\ c \notin closed
                /\ ~Gone(c) /\ pc'[t] = next
  BY <1>0, <1>3 DEF Deliver, Goes, PcTypes
<1>4. ASSUME NEW w \in Worker, SendResponse(w) PROVE Goal
  <2>1. task[w] \in Request /\ reply[w] \in Status /\ pc[w] = "send"
    BY <1>0, <1>4 DEF SendResponse, HandTypes, Replying
  <2>2. task[w].client \in Client /\ Resp(task[w], reply[w]) \in Lines
    BY <2>1, RequestFacts
  <2>3. w \in Thread /\ Deliver(w, task[w].client, Resp(task[w], reply[w]), "record", "ended")
    BY <1>4 DEF SendResponse, Thread
  <2>4. CASE toClient'[c] = toClient[c]
    BY <2>4
  <2>5. CASE /\ c = task[w].client /\ toClient'[c] = Append(toClient[c], Resp(task[w], reply[w]))
             /\ c \notin closed /\ ~Gone(c) /\ pc'[w] = "record"
    <3>1. LineAdded(c, Resp(task[w], reply[w]))
      BY <1>4, <2>1, <2>2, <2>5 DEF LineAdded
    <3> QED
      BY <2>2, <3>1
  <2> QED
    BY <1>3, <2>2, <2>3, <2>4, <2>5
<1>5. ASSUME SendNotice PROVE Goal
  <2> DEFINE n == task["notifier"]
  <2>1. n \in Notices /\ pc["notifier"] = "send"
    BY <1>0, <1>5 DEF SendNotice, HandTypes
  <2>2. n.client \in Client /\ Notify(n) \in Lines /\ "notifier" \in Thread
    BY <2>1, NoticeFacts DEF Thread
  <2>3. UNCHANGED toClient \/ Deliver("notifier", n.client, Notify(n), "count", "ended")
    BY <1>5 DEF SendNotice
  <2>4. CASE toClient'[c] = toClient[c]
    BY <2>4
  <2>5. CASE /\ c = n.client /\ toClient'[c] = Append(toClient[c], Notify(n))
             /\ c \notin closed /\ ~Gone(c) /\ pc'["notifier"] = "count"
    <3>1. LineAdded(c, Notify(n))
      BY <1>5, <2>1, <2>2, <2>5 DEF LineAdded
    <3> QED
      BY <2>2, <3>1
  <2> HIDE DEF n
  <2> QED
    BY <1>3, <2>2, <2>3, <2>4, <2>5
<1>6. ASSUME NEW d \in Client, SayBye(d) PROVE Goal
  <2>1. Bye \in Lines /\ Main \in Thread
    BY ByeIsLine DEF Thread
  <2>2. \/ toClient'[c] = toClient[c]
        \/ c = d /\ toClient'[c] = Append(toClient[c], Bye) /\ c \notin closed /\ ~Gone(c)
    BY <1>3, <1>6, <2>1 DEF SayBye
  <2>3. CASE c = d /\ toClient'[c] = Append(toClient[c], Bye) /\ c \notin closed /\ ~Gone(c)
    <3>1. LineAdded(c, Bye)
      BY <1>6, <2>1, <2>3 DEF LineAdded
    <3> QED
      BY <2>1, <3>1
  <2> QED
    BY <2>2, <2>3
<1>7. ASSUME UNCHANGED toClient PROVE Goal
  BY <1>7
<1> HIDE DEF Goal
<1>8. \/ UNCHANGED toClient \/ Fault \/ SendNotice \/ (\E w \in Worker : SendResponse(w))
      \/ \E d \in Client : ClientStep(d) \/ SayBye(d)
  BY Frames DEF Changes
<1>9. Goal
  BY <1>1, <1>2, <1>4, <1>5, <1>6, <1>7, <1>8
<1> QED
  BY <1>9 DEF Goal

(* What is sent was decided.                                               *)
LEMMA ResultsStep ==
  ASSUME Typed, ResultsTrue, [ServerNext]_serverVars
  PROVE  ResultsTrue'
<1>0. answers \subseteq answers' /\ handed \subseteq handed'
  BY Grows
<1>1. \A w \in Worker : (w \in Replying => Reply(task[w], reply[w]) \in answers)'
  <2> SUFFICES ASSUME NEW w \in Worker, (w \in Replying)' PROVE Reply(task'[w], reply'[w]) \in answers'
    OBVIOUS
  <2>1. WorkerLife(w)
    BY WorkersLive
  <2>2. CASE w \in Replying
    <3>1. task'[w] = task[w] /\ reply'[w] = reply[w]
      BY <2>1, <2>2 DEF WorkerLife, AtWork
    <3> QED
      BY <1>0, <2>2, <3>1 DEF ResultsTrue
  <2>3. CASE w \notin Replying
    <3>1. HandleTask(w)
      BY <2>1, <2>3 DEF WorkerLife
    <3> QED
      BY <3>1 DEF HandleTask, Typed, HandTypes
  <2> QED
    BY <2>2, <2>3
<1>2. \A w \in Worker : notice'[w] \subseteq handed'
  <2> SUFFICES ASSUME NEW w \in Worker PROVE notice'[w] \subseteq handed'
    OBVIOUS
  <2>1. ASSUME NEW v \in Worker, HandleTask(v) PROVE notice'[w] \subseteq handed'
    BY <1>0, <2>1 DEF HandleTask, ResultsTrue, Typed, HandTypes
  <2>2. ASSUME NEW v \in Worker, SubmitNotice(v) PROVE notice'[w] \subseteq handed'
    BY <1>0, <2>2 DEF SubmitNotice, ResultsTrue, Typed, HandTypes
  <2> QED
    BY <1>0, <2>1, <2>2, Frames DEF Changes, ResultsTrue
<1>3. \A j \in DOMAIN notices' : notices'[j] \in handed'
  <2>0. notices \in Seq(Notices) /\ \A j \in DOMAIN notices : notices[j] \in handed'
    BY <1>0 DEF Typed, QueueTypes, ResultsTrue
  <2>1. CASE notices' = notices
    BY <2>0, <2>1
  <2>2. CASE notices # <<>> /\ notices' = Tail(notices)
    BY <2>0, <2>2, TailFacts
  <2>3. ASSUME NEW w \in Worker, NEW n \in notice[w], notices' = Append(notices, n)
        PROVE  \A j \in DOMAIN notices' : notices'[j] \in handed'
    <3>1. n \in Notices /\ n \in handed'
      BY <1>0, <2>3 DEF ResultsTrue, Typed, HandTypes
    <3> QED
      BY <2>0, <2>3, <3>1, AppendFacts
  <2>4. ASSUME TakeNotice PROVE notices' = notices \/ (notices # <<>> /\ notices' = Tail(notices))
    BY <2>4 DEF TakeNotice
  <2>5. ASSUME NEW w \in Worker, SubmitNotice(w)
        PROVE  notices' = notices \/ \E n \in notice[w] : notices' = Append(notices, n)
    BY <2>5 DEF SubmitNotice
  <2> QED
    BY <2>1, <2>2, <2>3, <2>4, <2>5, Frames DEF Changes
<1>4. Carrying' => task'["notifier"] \in handed'
  <2>1. notices # <<>> => Head(notices) \in handed
    <3>1. notices \in Seq(Notices)
      BY DEF Typed, QueueTypes
    <3> QED
      BY <3>1, QueueFacts DEF ResultsTrue
  <2> QED
    BY <1>0, <2>1, NotifierLives DEF NotifierLife, ResultsTrue
<1>5. \A c \in Client : \A j \in DOMAIN toClient'[c] : (LineTrue(c, toClient[c][j]))'
  <2> SUFFICES ASSUME NEW c \in Client, NEW j \in DOMAIN toClient'[c]
               PROVE  (LineTrue(c, toClient[c][j]))'
    OBVIOUS
  <2> DEFINE Stays(m) == /\ m.type = "RESP" =>
                              [client |-> c, request |-> m.id, status |-> m.status] \in answers'
                         /\ m.type = "NOTIFY" => \E n \in handed' : n.client = c /\ m = Notify(n)
  <2>0. toClient[c] \in Seq(Lines)
    BY DEF Typed, WireTypes
  <2>1. ASSUME NEW m, LineTrue(c, m) PROVE Stays(m)
    BY <1>0, <2>1 DEF LineTrue
  <2>2. \A i \in DOMAIN toClient[c] : Stays(toClient[c][i])
    <3>1. \A i \in DOMAIN toClient[c] : LineTrue(c, toClient[c][i])
      BY DEF ResultsTrue
    <3> HIDE DEF Stays
    <3> QED
      BY <2>1, <3>1
  <2>3. ASSUME NEW m \in Lines, LineAdded(c, m) PROVE Stays(m)
    <3>1. ASSUME NEW w \in Worker, pc[w] = "send", task[w].client = c, m = Resp(task[w], reply[w])
          PROVE  LineTrue(c, m)
      BY <3>1 DEF LineTrue, Resp, ResultsTrue, Replying, Reply
    <3>2. ASSUME pc["notifier"] = "send", task["notifier"].client = c, m = Notify(task["notifier"])
          PROVE  LineTrue(c, m)
      BY <3>2 DEF LineTrue, Notify, ResultsTrue, Carrying
    <3>3. ASSUME m = Bye PROVE LineTrue(c, m)
      BY <3>3 DEF LineTrue, Bye
    <3>4. LineTrue(c, m)
      BY <2>3, <3>1, <3>2, <3>3 DEF LineAdded
    <3> QED
      BY <2>1, <3>4
  <2> HIDE DEF Stays
  <2>4. Stays(toClient'[c][j])
    <3>1. CASE toClient'[c] = toClient[c]
      BY <2>2, <3>1
    <3>2. CASE LineRead(c)
      <4>1. toClient'[c] = Tail(toClient[c]) /\ toClient[c] # <<>>
        BY <3>2 DEF LineRead
      <4> QED
        BY <2>0, <2>2, <4>1, TailFacts
    <3>3. CASE toClient'[c] = <<>>
      BY <3>3
    <3>4. ASSUME NEW m \in Lines, LineAdded(c, m) PROVE Stays(toClient'[c][j])
      <4>1. toClient'[c] = Append(toClient[c], m)
        BY <3>4 DEF LineAdded
      <4>2. \/ j \in DOMAIN toClient[c] /\ toClient'[c][j] = toClient[c][j]
            \/ toClient'[c][j] = m
        BY <2>0, <4>1, AppendFacts
      <4> QED
        BY <2>2, <2>3, <3>4, <4>2
    <3> QED
      BY <3>1, <3>2, <3>3, <3>4, LinesMove
  <2> QED
    BY <2>4 DEF Stays, LineTrue
<1> QED
  BY <1>1, <1>2, <1>3, <1>4, <1>5 DEF ResultsTrue, Replying, Carrying

-----------------------------------------------------------------------------
(* Requests on their way to the seats *)

(* What a client reads is true.                                            *)
LEMMA HeardTrue ==
  ASSUME Typed, ResultsTrue, NEW c \in Client, ViewOK(c), NEW m \in Lines, NEW r \in Request,
         Hears(c, m, r)
  PROVE  Reply(r, m.status) \in answers /\ m.status \in Status /\ r.client = c
<1>1. toClient[c] \in Seq(Lines) /\ toClient[c] # <<>> /\ m = Head(toClient[c]) /\ m.type = "RESP"
      /\ m.status \in Status
  BY LineFacts DEF Hears, Typed, WireTypes
<1>2. LineTrue(c, m)
  BY <1>1, QueueFacts DEF ResultsTrue
<1>3. r.client = c /\ r.id = m.id
  BY DEF ViewOK, Asked, Hears, RespView
<1> QED
  BY <1>1, <1>2, <1>3 DEF LineTrue, Reply

LEMMA LearnedTrue ==
  ASSUME Typed, ResultsTrue, NEW c \in Client, ViewOK(c), NEW m \in Lines, NEW r \in Request,
         Learns(c, m, r)
  PROVE  Notice(Entry(r), OnlySeat(r)) \in handed /\ r.client = c
<1>1. toClient[c] \in Seq(Lines) /\ toClient[c] # <<>> /\ m = Head(toClient[c]) /\ m.type = "NOTIFY"
  BY DEF Learns, Typed, WireTypes
<1>2. LineTrue(c, m)
  BY <1>1, QueueFacts DEF ResultsTrue
<1>3. r.client = c /\ r.id = m.id /\ r.seats = m.seats
  BY DEF ViewOK, Asked, Learns, NotifyView
<1>4. PICK n \in handed : n.client = c /\ m = Notify(n)
  BY <1>1, <1>2 DEF LineTrue
<1>5. n \in Notices
  BY DEF Typed, BookingTypes
<1>6. r.id = n.request /\ r.seats = <<n.seat>>
  BY <1>3, <1>4 DEF Notify
<1>7. OnlySeat(r) = n.seat
  BY <1>6 DEF OnlySeat
<1>8. n = [client |-> n.client, request |-> n.request, seat |-> n.seat]
  BY <1>5 DEF Notices
<1> QED
  BY <1>3, <1>4, <1>6, <1>7, <1>8 DEF Notice, Entry

(* A request stays in hand until it is answered, and answered ever after.  *)
LEMMA InHandKept ==
  ASSUME Typed, ResultsTrue, \A c \in Client : ViewOK(c), [ServerNext]_serverVars,
         NEW r \in Request, InHand(r)
  PROVE  \/ r \in view'[r.client].pending
         \/ \E a \in answers' : a.client = r.client /\ a.request = r.id
<1> DEFINE c == r.client
<1>0. c \in Client /\ answers \subseteq answers'
  BY Grows, RequestFacts
<1>1. CASE ~Unanswered(r)
  BY <1>0, <1>1 DEF Unanswered
<1>2. CASE r \in view[c].pending
  <2>1. ASSUME NEW d \in Client, ClientStep(d), d # c PROVE r \in view'[c].pending
    BY <1>0, <1>2, <2>1, OthersKeep
  <2>2. ASSUME NEW p \in Request, Asks(c, p) PROVE r \in view'[c].pending
    BY <1>2, <2>2 DEF Asks
  <2>3. ASSUME NEW m \in Lines, NEW p \in Request, Hears(c, m, p)
        PROVE  \/ r \in view'[c].pending
               \/ \E a \in answers' : a.client = r.client /\ a.request = r.id
    <3>1. CASE p = r
      <4>1. Reply(r, m.status) \in answers'
        BY <1>0, <2>3, <3>1, HeardTrue
      <4> QED
        BY <4>1 DEF Reply
    <3>2. CASE p # r
      BY <1>2, <2>3, <3>2 DEF Hears, RespView
    <3> QED
      BY <3>1, <3>2
  <2>4. ASSUME NEW m \in Lines, NEW p \in Request, Learns(c, m, p) PROVE r \in view'[c].pending
    BY <1>2, <2>4 DEF Learns, NotifyView
  <2>5. CASE UNCHANGED view
    BY <1>2, <2>5
  <2> HIDE DEF c
  <2>6. ASSUME NEW d \in Client, ClientStep(d)
        PROVE  \/ r \in view'[c].pending
               \/ \E a \in answers' : a.client = r.client /\ a.request = r.id
    <3>1. CASE d # c
      BY <2>1, <2>6, <3>1
    <3>2. CASE d = c
      <4>1. CASE UNCHANGED view
        BY <1>2, <4>1
      <4> QED
        BY <1>0, <2>2, <2>3, <2>4, <2>6, <3>2, <4>1, ClientMoves
    <3> QED
      BY <3>1, <3>2
  <2>7. UNCHANGED view \/ \E d \in Client : ClientStep(d)
    BY Frames DEF Changes
  <2> QED
    BY <2>5, <2>6, <2>7 DEF c
<1> QED
  BY <1>1, <1>2 DEF InHand

LEMMA InHandStep ==
  ASSUME Typed, ResultsTrue, RequestsInHand, \A c \in Client : ViewOK(c) /\ WireOK(c),
         [ServerNext]_serverVars
  PROVE  RequestsInHand'
<1> DEFINE Kept(r) == \/ r \in view'[r.client].pending
                      \/ \E a \in answers' : a.client = r.client /\ a.request = r.id
<1>1. ASSUME NEW r \in Request, InHand(r) PROVE Kept(r)
  BY <1>1, InHandKept
<1>2. \A c \in Client : accepted[c] <= accepted'[c] /\ accepted[c] \in Nat /\ accepted'[c] \in Nat
  BY Grows, TypedStep DEF Typed, TallyTypes
<1>3. ASSUME NEW r \in Request, Taken(r) PROVE Kept(r) /\ r.id <= accepted'[r.client]
  <2>1. r.client \in Client /\ r.id \in Nat
    BY RequestFacts
  <2> HIDE DEF Kept
  <2> QED
    BY <1>1, <1>2, <1>3, <2>1 DEF Taken
<1>4. ASSUME NEW c \in Client, NEW j \in DOMAIN toServer'[c], toServer'[c][j] \in Request
      PROVE  Kept(toServer'[c][j])
  <2>0. /\ toServer[c] \in Seq(Request \union {Hello}) /\ toServer \in [Client -> Seq(Request \union {Hello})]
        /\ phase \in [Client -> {"new", "up", "done", "failed"}] /\ ClientTypes
        /\ \A i \in DOMAIN toServer[c] : toServer[c][i] \in Request => Kept(toServer[c][i])
    <3>1. \A i \in DOMAIN toServer[c] : toServer[c][i] \in Request => InHand(toServer[c][i])
      BY DEF RequestsInHand
    <3> HIDE DEF Kept
    <3> QED
      BY <1>1, <3>1 DEF Typed, ClientTypes, WireTypes
  <2>1. CASE toServer'[c] = toServer[c]
    BY <1>4, <2>0, <2>1
  <2>2. ASSUME NEW d \in Client, ReadHello(d) \/ ReadRequest(d) PROVE Kept(toServer'[c][j])
    <3>1. CASE c # d
      BY <2>1, <2>2, <3>1, WireRead
    <3>2. CASE c = d
      <4>1. toServer[c] # <<>> /\ toServer'[c] = Tail(toServer[c])
        BY <2>0, <2>2, <3>2 DEF ReadHello, ReadRequest
      <4>2. toServer'[c][j] = toServer[c][j + 1] /\ j + 1 \in DOMAIN toServer[c]
        BY <2>0, <4>1, TailFacts
      <4> HIDE DEF Kept
      <4> QED
        BY <1>4, <2>0, <4>2
    <3> QED
      BY <3>1, <3>2
  <2>3. ASSUME NEW d \in Client, ClientStep(d) PROVE Kept(toServer'[c][j])
    <3>1. CASE c # d
      BY <2>1, <2>3, <3>1, OthersKeep
    <3>2. ASSUME c = d, NEW r \in Choose(d), SendRequest(d, r) PROVE Kept(toServer'[c][j])
      <4>1. r \in Request /\ r.client = c /\ r \in view'[c].pending
        BY <2>0, <3>2, SendEffect
      <4>2. toServer'[c] = Append(toServer[c], r)
        BY <2>0, <3>2 DEF SendRequest
      <4>3. \/ j \in DOMAIN toServer[c] /\ toServer'[c][j] = toServer[c][j]
            \/ toServer'[c][j] = r
        BY <2>0, <4>1, <4>2, AppendFacts
      <4>4. Kept(r)
        BY <4>1
      <4> HIDE DEF Kept
      <4> QED
        BY <1>4, <2>0, <4>3, <4>4
    <3>3. CASE c = d /\ toServer' = [toServer EXCEPT ![d] = <<Hello>>]
      <4>1. toServer'[c] = <<Hello>> /\ j = 1
        BY <2>0, <3>3
      <4> QED
        BY <1>4, <4>1, RequestFacts
    <3> HIDE DEF Kept
    <3> QED
      BY <2>1, <2>3, <3>1, <3>2, <3>3, ClientSteps
  <2> HIDE DEF Kept
  <2>4. UNCHANGED toServer \/ \E d \in Client : ClientStep(d) \/ ReadHello(d) \/ ReadRequest(d)
    BY Frames DEF Changes
  <2> QED
    BY <2>1, <2>2, <2>3, <2>4
<1>5. Holding' => Kept(task'[Main]) /\ task'[Main].id <= accepted'[task'[Main].client]
  <2>1. CASE Holding
    <3>1. task[Main] \in Request /\ Taken(task[Main])
      BY <2>1 DEF Holding, RequestsInHand, Typed, HandTypes
    <3> HIDE DEF Kept
    <3> QED
      BY <1>3, <2>1, <3>1, MainLives DEF MainLife
  <2>2. CASE ~Holding /\ Holding'
    <3>1. PICK c \in Client : /\ ReadRequest(c) /\ task'[Main] = Head(toServer[c])
                              /\ Head(toServer[c]).id = accepted[c] + 1
                              /\ accepted' = [accepted EXCEPT ![c] = Head(toServer[c]).id]
      BY <2>2, MainLives DEF MainLife
    <3>2. toServer[c] \in Seq(Request \union {Hello}) /\ toServer[c] # <<>> /\ Head(toServer[c]) # Hello
      BY <3>1 DEF ReadRequest, Typed, WireTypes
    <3>3. Head(toServer[c]) \in Request /\ Head(toServer[c]) = toServer[c][1] /\ 1 \in DOMAIN toServer[c]
      BY <3>2, QueueFacts
    <3>4. InHand(Head(toServer[c])) /\ Head(toServer[c]).client = c
      BY <3>3 DEF RequestsInHand, WireOK
    <3>5. accepted'[c] = Head(toServer[c]).id /\ Head(toServer[c]).id \in Nat
      BY <1>2, <3>1 DEF Typed, TallyTypes
    <3> HIDE DEF Kept
    <3> QED
      BY <1>1, <3>1, <3>3, <3>4, <3>5
  <2> QED
    BY <2>1, <2>2
<1>6. \A j \in DOMAIN queue' : Kept(queue'[j]) /\ queue'[j].id <= accepted'[queue'[j].client]
  <2> DEFINE Good(r) == Kept(r) /\ r.id <= accepted'[r.client]
  <2>0. queue \in Seq(Request) /\ \A j \in DOMAIN queue : Good(queue[j])
    <3>1. queue \in Seq(Request) /\ \A j \in DOMAIN queue : queue[j] \in Request /\ Taken(queue[j])
      BY DEF RequestsInHand, Typed, QueueTypes
    <3> HIDE DEF Kept
    <3> QED
      BY <1>3, <3>1
  <2>1. ASSUME Holding PROVE task[Main] \in Request /\ Good(task[Main])
    <3>1. task[Main] \in Request /\ Taken(task[Main])
      BY <2>1 DEF Holding, RequestsInHand, Typed, HandTypes
    <3> HIDE DEF Kept
    <3> QED
      BY <1>3, <3>1
  <2>2. ASSUME Put PROVE queue' = queue \/ (Holding /\ queue' = Append(queue, task[Main]))
    BY <2>2 DEF Put, Holding
  <2>3. ASSUME NEW w \in Worker, TakeTask(w)
        PROVE  queue' = queue \/ (queue # <<>> /\ queue' = Tail(queue))
    BY <2>3 DEF TakeTask
  <2>4. \/ queue' = queue \/ (queue # <<>> /\ queue' = Tail(queue))
        \/ (Holding /\ queue' = Append(queue, task[Main]))
    BY <2>2, <2>3, Frames DEF Changes
  <2> HIDE DEF Good
  <2>5. CASE queue' = queue
    BY <2>0, <2>5 DEF Good
  <2>6. CASE queue # <<>> /\ queue' = Tail(queue)
    <3>1. \A j \in DOMAIN queue' : Good(queue'[j])
      BY <2>0, <2>6, TailFacts
    <3> QED
      BY <3>1 DEF Good
  <2>7. CASE Holding /\ queue' = Append(queue, task[Main])
    <3>1. \A j \in DOMAIN queue' : Good(queue'[j])
      BY <2>0, <2>1, <2>7, AppendFacts
    <3> QED
      BY <3>1 DEF Good
  <2> QED
    BY <2>4, <2>5, <2>6, <2>7
<1>7. ASSUME NEW w \in Worker, AtWork(w)'
      PROVE  Kept(task'[w]) /\ task'[w].id <= accepted'[task'[w].client]
  <2>1. CASE AtWork(w)
    <3>1. task[w] \in Request /\ Taken(task[w]) /\ task'[w] = task[w]
      BY <1>7, <2>1, WorkersLive DEF WorkerLife, AtWork, RequestsInHand, Typed, HandTypes
    <3> HIDE DEF Kept
    <3> QED
      BY <1>3, <3>1
  <2>2. CASE ~AtWork(w)
    <3>1. queue # <<>> /\ task'[w] = Head(queue) /\ queue \in Seq(Request)
      BY <1>7, <2>2, WorkersLive DEF WorkerLife, Typed, QueueTypes
    <3>2. Head(queue) \in Request /\ Taken(Head(queue))
      BY <3>1, QueueFacts DEF RequestsInHand
    <3> HIDE DEF Kept
    <3> QED
      BY <1>3, <3>1, <3>2
  <2> QED
    BY <2>1, <2>2
<1> QED
  BY <1>4, <1>5, <1>6, <1>7 DEF RequestsInHand, Holding, Taken, InHand, Unanswered, AtWork, Replying

-----------------------------------------------------------------------------
(* The seats decide on a request *)

LEMMA ReplyFacts ==
  ASSUME NEW p, NEW r, NEW x, NEW y
  PROVE  /\ Reply(p, x) = Reply(r, y) <=> p.client = r.client /\ p.id = r.id /\ x = y
         /\ Reply(p, x).client = p.client /\ Reply(p, x).request = p.id /\ Reply(p, x).status = x
BY DEF Reply

LEMMA EntryFacts ==
  ASSUME NEW p, NEW r, NEW s, NEW t
  PROVE  /\ Entry(p) = Entry(r) <=> p.client = r.client /\ p.id = r.id
         /\ Entry(p).client = p.client /\ Entry(p).request = p.id
         /\ Notice(p, s).client = p.client /\ Notice(p, s).request = p.request
         /\ Notice(p, s).seat = s
BY DEF Entry, Notice

(* What makes the request r one the seats may decide, and st its answer.   *)
Decides(r, st) ==
  /\ r \in Proper /\ r.client \in Client /\ r \in view[r.client].pending
  /\ r.id <= accepted[r.client] /\ Unanswered(r) /\ st \in Status
  /\ answers' = answers \union {Reply(r, st)} /\ UNCHANGED <<view, accepted>>
  /\ handed \subseteq handed'

(* One request more is answered, and nothing else changes what the clients *)
(* wait for, have won or have given up.                                    *)
LEMMA MarksMove ==
  ASSUME Typed, Books, NEW r \in Request, NEW st, Decides(r, st), NEW c \in Client
  PROVE  /\ Asked(c)' = Asked(c)
         /\ Open(c)' = Open(c) \union {p \in {r} : r.client = c /\ st = "WAITLISTED"}
         /\ Won(c)' = Won(c) \union
               {p \in {r} : r.client = c /\ st = "SUCCESS" /\ r.command # "CANCEL"}
         /\ GivenUp(c)' = GivenUp(c) \union
               {p \in {r} : r.client = c /\ st = "SUCCESS" /\ r.command = "CANCEL"}
         /\ r \notin Open(c) /\ r \notin Won(c) /\ r \notin GivenUp(c)
         /\ r.client = c => r \in Asked(c) /\ r \in view[c].pending /\ r.id \notin view[c].early
         /\ \A p \in Asked(c) : p # r /\ Unanswered(p) => Unanswered(p)'
         /\ \A p \in Asked(c) : \A x :
               Reply(p, x) \in answers' <=> Reply(p, x) \in answers \/ (p = r /\ x = st)
<1>1. /\ \A p \in Asked(c) : p.client = c
      /\ \A p, q \in Asked(c) : p.id = q.id => p = q
      /\ r.client = c => r \in Asked(c) /\ r \in view[c].pending
  BY DEF Books, ViewOK, Decides, Asked
<1>2. \A x : Reply(r, x) \notin answers
  BY ReplyFacts DEF Decides, Unanswered
<1>3. \A p \in Asked(c) : \A x :
        Reply(p, x) \in answers' <=> Reply(p, x) \in answers \/ (p = r /\ x = st)
  <2> TAKE p \in Asked(c)
  <2> TAKE x
  <2>1. Reply(p, x) = Reply(r, st) <=> p.client = r.client /\ p.id = r.id /\ x = st
    BY ReplyFacts
  <2>2. p.client = r.client /\ p.id = r.id <=> p = r
    BY <1>1
  <2> QED
    BY <2>1, <2>2 DEF Decides
<1>4. \A p \in Asked(c) : p # r /\ Unanswered(p) => Unanswered(p)'
  <2> SUFFICES ASSUME NEW p \in Asked(c), p # r, Unanswered(p) PROVE Unanswered(p)'
    OBVIOUS
  <2>1. ~(p.client = r.client /\ p.id = r.id)
    BY <1>1
  <2> QED
    BY <2>1, ReplyFacts DEF Unanswered, Decides
<1>5. view' = view /\ Asked(c)' = Asked(c)
  BY DEF Decides, Asked
<1>6. r.client = c => r.id \notin view[c].early
  <2>1. ASSUME r.client = c, NEW n \in handed, n.client = c, n.request = r.id PROVE FALSE
    <3>1. [client |-> c, request |-> r.id, status |-> "WAITLISTED"] \in answers
      BY <2>1 DEF Books, AnswersOnce
    <3> QED
      BY <1>2, <2>1, <3>1 DEF Reply
  <2> QED
    BY <2>1 DEF Books, ViewOK
<1>7. /\ r \notin Open(c) /\ r \notin Won(c) /\ r \notin GivenUp(c)
  BY <1>2 DEF Open, Won, GivenUp
<1>8. \A p \in view[c].pending : p \in Asked(c)
  BY DEF Asked
<1>9. r \in Asked(c) => r.client = c
  BY <1>1
<1>10. Open(c)' = Open(c) \union {p \in {r} : r.client = c /\ st = "WAITLISTED"}
  BY <1>1, <1>3, <1>5, <1>6, <1>9 DEF Open
<1>11. Won(c)' = Won(c) \union
               {p \in {r} : r.client = c /\ st = "SUCCESS" /\ r.command # "CANCEL"}
  BY <1>1, <1>3, <1>5, <1>8, <1>9 DEF Won
<1>12. GivenUp(c)' = GivenUp(c) \union
               {p \in {r} : r.client = c /\ st = "SUCCESS" /\ r.command = "CANCEL"}
  BY <1>1, <1>3, <1>5, <1>8, <1>9 DEF GivenUp
<1> QED
  BY <1>1, <1>3, <1>4, <1>5, <1>6, <1>7, <1>10, <1>11, <1>12

LEMMA ViewHandled ==
  ASSUME Typed, Books, NEW r \in Request, NEW st, Decides(r, st), NEW c \in Client,
         st = "WAITLISTED" => r.command = "RESERVE"
  PROVE  ViewOK(c)'
<1>1. /\ ViewOK(c) /\ view' = view /\ Asked(c)' = Asked(c) /\ answers \subseteq answers'
      /\ handed \subseteq handed'
  BY MarksMove DEF Books, Decides
<1>2. \A p \in Asked(c) : Reply(p, "WAITLISTED") \in answers' => p.command = "RESERVE"
  BY <1>1, MarksMove DEF ViewOK
<1> QED
  BY <1>1, <1>2 DEF ViewOK

(* An answer given once is the only one.                                   *)
LEMMA AnswersHandled ==
  ASSUME Typed, Books, NEW r \in Request, NEW st, Decides(r, st)
  PROVE  /\ \A a, b \in answers' : a.client = b.client /\ a.request = b.request => a = b
         /\ \A a \in answers' : a.request <= accepted'[a.client]
<1>1. \A a \in answers : ~(a.client = r.client /\ a.request = r.id)
  BY DEF Decides, Unanswered
<1>2. Reply(r, st).client = r.client /\ Reply(r, st).request = r.id
  BY ReplyFacts
<1>3. \A a, b \in answers' : a.client = b.client /\ a.request = b.request => a = b
  BY <1>1, <1>2 DEF Decides, Books, AnswersOnce
<1>4. \A a \in answers' : a.request <= accepted'[a.client]
  BY <1>2 DEF Decides, Books, AnswersOnce
<1> QED
  BY <1>3, <1>4

(* No notice was given for a request that is not answered.                 *)
LEMMA NotTold ==
  ASSUME Books, NEW r \in Request, Unanswered(r), NEW n \in handed, n.client = r.client
  PROVE  n.request # r.id
<1>1. [client |-> n.client, request |-> n.request, status |-> "WAITLISTED"] \in answers
  BY DEF Books, AnswersOnce
<1> QED
  BY <1>1 DEF Unanswered

(* Nobody waits for a vacant seat, or has been told of one.                *)
LEMMA OpenTaken ==
  ASSUME Typed, Books, NEW c \in Client, NEW q \in Open(c)
  PROVE  OnlySeat(q) \in Seat /\ owner[OnlySeat(q)] # Nobody /\ q.client = c
         /\ q.command = "RESERVE" /\ q \in Proper /\ SeatsOf(q) = {OnlySeat(q)}
<1>1. q \in Proper /\ q.client = c /\ q.command = "RESERVE"
  BY DEF Open, Books, ViewOK, Asked, Typed, ClientTypes, Views
<1>2. OnlySeat(q) \in Seat /\ SeatsOf(q) = {OnlySeat(q)}
  BY <1>1, ProperFacts
<1>3. CASE Notice(Entry(q), OnlySeat(q)) \in handed
  <2> DEFINE n == Notice(Entry(q), OnlySeat(q))
  <2>0. n.client = c /\ n.request = q.id /\ n.seat = OnlySeat(q) /\ n \in handed
    BY <1>1, <1>3 DEF Entry, Notice
  <2> HIDE DEF n
  <2>1. owner[OnlySeat(q)] = c
    BY <2>0 DEF Books, ClaimsOK, OpenOK
  <2> QED
    BY <1>1, <1>2, <2>1
<1>4. CASE Queued(q)
  BY <1>1, <1>2, <1>4 DEF Queued, Books, SeatsFair
<1> QED
  BY <1>1, <1>2, <1>3, <1>4 DEF Books, ClaimsOK, OpenOK

(* A pending cancellation is of a seat the client holds, and does not wait *)
(* for; the same client has nothing else pending there.                    *)
LEMMA CancelFacts ==
  ASSUME Typed, Books, NEW c \in Client, NEW r \in view[c].pending, r.command = "CANCEL"
  PROVE  /\ SeatsOf(r) = {OnlySeat(r)} /\ OnlySeat(r) \in Seat /\ r \in Proper
         /\ OnlySeat(r) \in view[c].held
         /\ \A q \in Open(c) : OnlySeat(q) # OnlySeat(r)
         /\ \A p \in view[c].pending : p # r => OnlySeat(r) \notin SeatsOf(p)
<1>1. r \in Proper
  BY DEF Typed, ClientTypes, Views
<1>2. SeatsOf(r) = {OnlySeat(r)} /\ OnlySeat(r) \in Seat
  BY <1>1, ProperFacts
<1>3. OnlySeat(r) \in view[c].held
  BY DEF Books, ClaimsOK, CancelsOK
<1>4. \A q \in Open(c) : OnlySeat(q) # OnlySeat(r)
  BY <1>3 DEF Books, ClaimsOK, OpenOK
<1>5. \A p \in view[c].pending : p # r => SeatsOf(r) \intersect SeatsOf(p) = {}
  BY DEF Books, ViewOK
<1> QED
  BY <1>1, <1>2, <1>3, <1>4, <1>5

LEMMA WaiterTypes ==
  ASSUME Typed, NEW s \in Seat
  PROVE  /\ waiting[s] \in Seq(Entries)
         /\ \A i \in DOMAIN waiting[s] :
              /\ waiting[s][i] \in Entries /\ waiting[s][i].client \in Client
              /\ waiting[s][i].request \in 1..MaxId
<1>1. waiting[s] \in Seq(Entries)
  BY DEF Typed, BookingTypes
<1>2. \A i \in DOMAIN waiting[s] : waiting[s][i] \in Entries
  BY <1>1
<1> QED
  BY <1>1, <1>2 DEF Entries

LEMMA GrantBooks ==
  ASSUME Typed, Books, NEW r \in Request, Decides(r, "SUCCESS"), Grant(r)
  PROVE  Books'
<1> DEFINE k == r.client
<1>0. /\ k \in Client /\ r \in Proper /\ r.command # "CANCEL" /\ SeatsOf(r) \subseteq Seat
      /\ r \in view[k].pending /\ Nobody \notin Client
      /\ \A s \in SeatsOf(r) : owner[s] = Nobody
      /\ UNCHANGED <<waiting, handed, view>> /\ "SUCCESS" # "WAITLISTED"
  BY ProperFacts DEF Decides, Grant, Granted, Vacant
<1>1. \A s \in Seat : owner'[s] = IF s \in SeatsOf(r) THEN k ELSE owner[s]
  BY DEF Grant
<1>2. ASSUME NEW c \in Client
      PROVE  /\ Open(c)' = Open(c) /\ GivenUp(c)' = GivenUp(c)
             /\ c # k => Won(c)' = Won(c)
             /\ c = k => Won(c)' = Won(c) \union {r}
  <2>1. /\ Open(c)' = Open(c) \union {p \in {r} : r.client = c /\ "SUCCESS" = "WAITLISTED"}
        /\ Won(c)' = Won(c) \union
              {p \in {r} : r.client = c /\ "SUCCESS" = "SUCCESS" /\ r.command # "CANCEL"}
        /\ GivenUp(c)' = GivenUp(c) \union
              {p \in {r} : r.client = c /\ "SUCCESS" = "SUCCESS" /\ r.command = "CANCEL"}
    BY MarksMove
  <2> QED
    BY <1>0, <2>1
<1>3. ASSUME NEW c \in Client, NEW s \in Seat, owner[s] = c PROVE s \notin SeatsOf(r) /\ owner'[s] = c
  BY <1>0, <1>1, <1>3
<1>4. ASSUME NEW c \in Client PROVE ClaimsOK(c)'
  <2>0. /\ view[c].held \subseteq Seat /\ view[c].pending \subseteq Proper
        /\ HeldOK(c) /\ CancelsOK(c) /\ WonOK(c) /\ OpenOK(c) /\ OwnedOK(c)
    BY DEF Books, ClaimsOK, Typed, ClientTypes, Views
  <2>1. HeldOK(c)'
    BY <1>0, <1>2, <1>3, <2>0 DEF HeldOK
  <2>2. CancelsOK(c)'
    <3> SUFFICES ASSUME NEW p \in view[c].pending, p.command = "CANCEL"
                 PROVE  Unanswered(p)' \/ (p \in GivenUp(c) /\ owner'[OnlySeat(p)] # c)
      BY <1>0, <1>2, <2>0 DEF CancelsOK
    <3>1. p # r /\ p \in Asked(c) /\ OnlySeat(p) \in Seat
      BY <1>0, CancelFacts DEF Asked
    <3>2. CASE Unanswered(p)
      BY <3>1, <3>2, MarksMove
    <3>3. CASE ~Unanswered(p)
      <4>1. p \in GivenUp(c) /\ owner[OnlySeat(p)] # c
        BY <2>0, <3>3 DEF CancelsOK
      <4>2. c = k => OnlySeat(p) \notin SeatsOf(r)
        BY <1>0, <3>1, CancelFacts
      <4> QED
        BY <1>1, <3>1, <4>1, <4>2
    <3> QED
      BY <3>2, <3>3
  <2>3. WonOK(c)'
    <3> SUFFICES ASSUME NEW p \in Won(c)', NEW s \in SeatsOf(p)
                 PROVE  owner'[s] = c /\ \A q \in Open(c) : OnlySeat(q) # s
      BY <1>2 DEF WonOK
    <3>1. CASE p \in Won(c)
      <4>1. s \in Seat
        BY <2>0, <3>1, ProperFacts DEF Won
      <4> QED
        BY <1>3, <2>0, <3>1, <4>1 DEF WonOK
    <3>2. CASE p = r /\ c = k
      BY <1>0, <1>1, <3>2, OpenTaken
    <3> QED
      BY <1>2, <3>1, <3>2
  <2>4. OpenOK(c)'
    <3> SUFFICES ASSUME NEW q \in Open(c)
                 PROVE  /\ OnlySeat(q) \notin view[c].held
                        /\ Notice(Entry(q), OnlySeat(q)) \in handed \/ Queued(q)
                        /\ \A p \in Open(c) : OnlySeat(p) = OnlySeat(q) => p = q
                        /\ \A n \in handed : n.client = c /\ n.request = q.id =>
                             n.seat = OnlySeat(q) /\ owner'[n.seat] = c
      BY <1>0, <1>2 DEF OpenOK, Queued
    <3> QED
      BY <1>3, <2>0, OpenTaken DEF OpenOK
  <2>5. OwnedOK(c)'
    <3> SUFFICES ASSUME NEW s \in Seat, owner'[s] = c
                 PROVE  \/ s \in view[c].held
                        \/ \E p \in Won(c)' : s \in SeatsOf(p)
                        \/ \E q \in Open(c) : OnlySeat(q) = s
      BY <1>0, <1>2 DEF OwnedOK
    <3> QED
      BY <1>0, <1>1, <1>2, <2>0 DEF OwnedOK
  <2> QED
    BY <2>1, <2>2, <2>3, <2>4, <2>5 DEF ClaimsOK
<1>5. SeatsFair'
  <2>1. ASSUME NEW s \in Seat, s \in SeatsOf(r) PROVE waiting[s] = <<>>
    BY <1>0, <2>1 DEF Books, SeatsFair
  <2> QED
    BY <1>0, <1>1, <2>1 DEF Books, SeatsFair
<1>6. WaitersKnown'
  BY <1>0, <1>2 DEF Books, WaitersKnown
<1>7. AnswersOnce'
  <2>1. answers \subseteq answers'
    BY DEF Decides
  <2> QED
    BY <1>0, <2>1, AnswersHandled DEF Books, AnswersOnce
<1>8. \A c \in Client : ViewOK(c)'
  BY <1>0, ViewHandled
<1> QED
  BY <1>4, <1>5, <1>6, <1>7, <1>8 DEF Books

LEMMA RefuseBooks ==
  ASSUME Typed, Books, NEW r \in Request, Decides(r, "FAIL"), Refuse(r)
  PROVE  Books'
<1> DEFINE k == r.client
<1>0. /\ k \in Client /\ r \in Proper /\ r \in view[k].pending /\ Unanswered(r)
      /\ UNCHANGED <<owner, waiting, handed, view>>
  BY DEF Decides, Refuse
<1>1. r.command # "CANCEL"
  <2> SUFFICES ASSUME r.command = "CANCEL" PROVE FALSE
    OBVIOUS
  <2>1. owner[OnlySeat(r)] # k
    BY <1>0, ProperFacts DEF Refuse, Cancelled, Owns
  <2>2. /\ OnlySeat(r) \in view[k].held
        /\ \A p \in view[k].pending : p # r => OnlySeat(r) \notin SeatsOf(p)
    BY <1>0, CancelFacts
  <2>3. PICK p \in GivenUp(k) : OnlySeat(p) = OnlySeat(r)
    BY <1>0, <2>1, <2>2 DEF Books, ClaimsOK, HeldOK
  <2>4. p \in view[k].pending /\ p.command = "CANCEL" /\ Reply(p, "SUCCESS") \in answers
    BY DEF GivenUp
  <2>5. p = r
    BY <1>0, <2>2, <2>3, <2>4, CancelFacts
  <2> QED
    BY <1>0, <2>4, <2>5, ReplyFacts DEF Unanswered
<1>2. ASSUME NEW c \in Client
      PROVE  /\ Open(c)' = Open(c) /\ GivenUp(c)' = GivenUp(c) /\ Won(c)' = Won(c)
  <2>1. /\ Open(c)' = Open(c) \union {p \in {r} : r.client = c /\ "FAIL" = "WAITLISTED"}
        /\ Won(c)' = Won(c) \union
              {p \in {r} : r.client = c /\ "FAIL" = "SUCCESS" /\ r.command # "CANCEL"}
        /\ GivenUp(c)' = GivenUp(c) \union
              {p \in {r} : r.client = c /\ "FAIL" = "SUCCESS" /\ r.command = "CANCEL"}
    BY MarksMove
  <2> QED
    BY <2>1
<1>3. ASSUME NEW c \in Client PROVE ClaimsOK(c)'
  <2>0. HeldOK(c) /\ CancelsOK(c) /\ WonOK(c) /\ OpenOK(c) /\ OwnedOK(c)
    BY DEF Books, ClaimsOK
  <2>1. CancelsOK(c)'
    <3> SUFFICES ASSUME NEW p \in view[c].pending, p.command = "CANCEL"
                 PROVE  Unanswered(p)' \/ (p \in GivenUp(c) /\ owner[OnlySeat(p)] # c)
      BY <1>0, <1>2, <2>0 DEF CancelsOK
    <3> QED
      BY <1>1, <2>0, MarksMove DEF CancelsOK, Asked
  <2> QED
    BY <1>0, <1>2, <2>0, <2>1 DEF ClaimsOK, HeldOK, WonOK, OpenOK, OwnedOK, Queued
<1>4. AnswersOnce'
  <2>1. answers \subseteq answers'
    BY DEF Decides
  <2> QED
    BY <1>0, <2>1, AnswersHandled DEF Books, AnswersOnce
<1>5. \A c \in Client : ViewOK(c)'
  BY <1>0, ViewHandled
<1> QED
  BY <1>0, <1>2, <1>3, <1>4, <1>5 DEF Books, SeatsFair, WaitersKnown

LEMMA WaitlistBooks ==
  ASSUME Typed, Books, NEW r \in Request, Decides(r, "WAITLISTED"), Waitlist(r)
  PROVE  Books'
<1> DEFINE k == r.client
           s0 == OnlySeat(r)
<1>0. /\ k \in Client /\ r \in Proper /\ r.command = "RESERVE" /\ SeatsOf(r) = {s0} /\ s0 \in Seat
      /\ r \in view[k].pending /\ Unanswered(r) /\ k # Nobody
      /\ owner[s0] # Nobody /\ owner[s0] # k /\ ~IsWaiting(waiting[s0], k)
      /\ UNCHANGED <<owner, handed, view>>
  <2>1. r.command = "RESERVE" /\ r \in Proper /\ k \in Client
    BY DEF Decides, Waitlist, Waitlisted
  <2>2. SeatsOf(r) = {s0} /\ s0 \in Seat
    BY <2>1, ProperFacts
  <2> QED
    BY <2>1, <2>2 DEF Decides, Waitlist, Waitlisted, Vacant, Owns, Waits
<1>1. /\ waiting[s0] \in Seq(Entries) /\ Entry(r) \in Entries
      /\ waiting'[s0] = Append(waiting[s0], Entry(r))
      /\ \A s \in Seat : s # s0 => waiting'[s] = waiting[s]
  BY <1>0, RequestFacts DEF Waitlist, Typed, BookingTypes
<1>2. /\ DOMAIN waiting'[s0] = DOMAIN waiting[s0] \union {Len(waiting[s0]) + 1}
      /\ \A i \in DOMAIN waiting[s0] : waiting'[s0][i] = waiting[s0][i]
      /\ waiting'[s0][Len(waiting[s0]) + 1] = Entry(r)
      /\ Len(waiting[s0]) + 1 \notin DOMAIN waiting[s0]
  BY <1>1, AppendFacts
<1>3. ASSUME NEW c \in Client
      PROVE  /\ GivenUp(c)' = GivenUp(c) /\ Won(c)' = Won(c)
             /\ c # k => Open(c)' = Open(c)
             /\ c = k => Open(c)' = Open(c) \union {r}
  <2>1. /\ Open(c)' = Open(c) \union {p \in {r} : r.client = c /\ "WAITLISTED" = "WAITLISTED"}
        /\ Won(c)' = Won(c) \union
              {p \in {r} : r.client = c /\ "WAITLISTED" = "SUCCESS" /\ r.command # "CANCEL"}
        /\ GivenUp(c)' = GivenUp(c) \union
              {p \in {r} : r.client = c /\ "WAITLISTED" = "SUCCESS" /\ r.command = "CANCEL"}
    BY MarksMove
  <2> QED
    BY <1>0, <2>1
<1>4. \A q : Queued(q) /\ OnlySeat(q) \in Seat =>
         \E i \in DOMAIN waiting'[OnlySeat(q)] : waiting'[OnlySeat(q)][i] = Entry(q)
  <2> SUFFICES ASSUME NEW q, OnlySeat(q) \in Seat, Queued(q)
               PROVE  \E i \in DOMAIN waiting'[OnlySeat(q)] : waiting'[OnlySeat(q)][i] = Entry(q)
    OBVIOUS
  <2> HIDE DEF s0
  <2> QED
    BY <1>1, <1>2 DEF Queued
<1>5. Entry(r).client = k /\ Entry(r).request = r.id
  BY EntryFacts
<1>6. ASSUME NEW c \in Client PROVE ClaimsOK(c)'
  <2>0. HeldOK(c) /\ CancelsOK(c) /\ WonOK(c) /\ OpenOK(c) /\ OwnedOK(c)
    BY DEF Books, ClaimsOK
  <2>1. CancelsOK(c)'
    <3> SUFFICES ASSUME NEW p \in view[c].pending, p.command = "CANCEL"
                 PROVE  Unanswered(p)' \/ (p \in GivenUp(c) /\ owner[OnlySeat(p)] # c)
      BY <1>0, <1>3, <2>0 DEF CancelsOK
    <3> QED
      BY <1>0, <2>0, MarksMove DEF CancelsOK, Asked
  <2>2. WonOK(c)'
    <3> SUFFICES ASSUME NEW p \in Won(c), NEW s \in SeatsOf(p), NEW q \in Open(c)'
                 PROVE  owner[s] = c /\ OnlySeat(q) # s
      BY <1>0, <1>3, <2>0 DEF WonOK
    <3> QED
      BY <1>0, <1>3, <2>0 DEF WonOK
  <2>3. \A q \in Open(c) : c = k => OnlySeat(q) # s0
    <3> SUFFICES ASSUME NEW q \in Open(c), c = k, OnlySeat(q) = s0 PROVE FALSE
      OBVIOUS
    <3>1. q.client = k
      BY <3>1, OpenTaken
    <3>2. CASE Queued(q)
      BY <1>0, <3>1, <3>2, EntryFacts DEF Queued, IsWaiting
    <3>3. CASE Notice(Entry(q), s0) \in handed
      <4>1. owner[s0] = c
        <5> DEFINE n == Notice(Entry(q), s0)
        <5>0. n.client = c /\ n.request = q.id /\ n.seat = s0 /\ n \in handed
          BY <3>1, <3>3 DEF Entry, Notice
        <5> HIDE DEF n
        <5> QED
          BY <2>0, <5>0 DEF OpenOK
      <4> QED
        BY <1>0, <4>1
    <3> QED
      BY <2>0, <3>2, <3>3 DEF OpenOK
  <2>4. c = k => s0 \notin view[c].held
    <3> SUFFICES ASSUME c = k, s0 \in view[c].held PROVE FALSE
      OBVIOUS
    <3>1. PICK p \in GivenUp(c) : OnlySeat(p) = s0
      BY <1>0, <2>0 DEF HeldOK
    <3>2. p \in view[c].pending /\ p.command = "CANCEL"
      BY DEF GivenUp
    <3> QED
      BY <1>0, <3>1, <3>2, CancelFacts
  <2>5. OpenOK(c)'
    <3> SUFFICES ASSUME NEW q \in Open(c)'
                 PROVE  /\ OnlySeat(q) \notin view[c].held
                        /\ \/ Notice(Entry(q), OnlySeat(q)) \in handed
                           \/ \E i \in DOMAIN waiting'[OnlySeat(q)] : waiting'[OnlySeat(q)][i] = Entry(q)
                        /\ \A p \in Open(c)' : OnlySeat(p) = OnlySeat(q) => p = q
                        /\ \A n \in handed : n.client = c /\ n.request = q.id =>
                             n.seat = OnlySeat(q) /\ owner[n.seat] = c
      BY <1>0 DEF OpenOK, Queued
    <3>1. CASE q \in Open(c)
      <4>1. OnlySeat(q) \in Seat
        BY <3>1, OpenTaken
      <4>2. \A p \in Open(c)' : OnlySeat(p) = OnlySeat(q) => p = q
        BY <1>3, <2>0, <2>3, <3>1 DEF OpenOK
      <4> QED
        BY <1>4, <2>0, <3>1, <4>1, <4>2 DEF OpenOK
    <3>2. CASE q = r /\ c = k
      <4>1. \A p \in Open(c)' : OnlySeat(p) = OnlySeat(q) => p = q
        BY <1>3, <2>3, <3>2
      <4>2. \E i \in DOMAIN waiting'[s0] : waiting'[s0][i] = Entry(r)
        BY <1>2
      <4>3. \A n \in handed : n.client = c => n.request # r.id
        BY <1>0, <3>2, NotTold
      <4> QED
        BY <2>4, <3>2, <4>1, <4>2, <4>3
    <3> QED
      BY <1>3, <3>1, <3>2
  <2> QED
    BY <1>0, <1>3, <2>0, <2>1, <2>2, <2>5 DEF ClaimsOK, HeldOK, OwnedOK
<1>7. SeatsFair'
  <2> SUFFICES ASSUME NEW s \in Seat
               PROVE  /\ owner[s] = Nobody => waiting'[s] = <<>>
                      /\ \A i \in DOMAIN waiting'[s] :
                           /\ waiting'[s][i].client # owner[s]
                           /\ \A j \in DOMAIN waiting'[s] :
                                i # j => waiting'[s][i].client # waiting'[s][j].client
    BY <1>0 DEF SeatsFair
  <2>1. CASE s # s0
    BY <1>1, <2>1 DEF Books, SeatsFair
  <2>2. CASE s = s0
    <3>1. \A i \in DOMAIN waiting[s0] : waiting[s0][i].client # k
      BY <1>0 DEF IsWaiting
    <3> HIDE DEF s0, k
    <3> QED
      BY <1>0, <1>2, <1>5, <2>2, <3>1 DEF Books, SeatsFair
  <2> QED
    BY <2>1, <2>2
<1>8. WaitersKnown'
  <2> SUFFICES ASSUME NEW c \in Client, NEW s \in Seat, NEW i \in DOMAIN waiting'[s],
                      waiting'[s][i].client = c
               PROVE  \E q \in Open(c)' : q.id = waiting'[s][i].request /\ OnlySeat(q) = s
    BY DEF WaitersKnown
  <2>1. CASE i \in DOMAIN waiting[s] /\ waiting'[s][i] = waiting[s][i]
    BY <1>3, <2>1 DEF Books, WaitersKnown
  <2>2. CASE s = s0 /\ waiting'[s][i] = Entry(r)
    BY <1>3, <1>5, <2>2
  <2> QED
    BY <1>1, <1>2, <2>1, <2>2
<1>9. AnswersOnce'
  <2>1. answers \subseteq answers'
    BY DEF Decides
  <2>2. ASSUME NEW n \in handed, NEW s \in Seat, NEW i \in DOMAIN waiting'[s]
        PROVE  waiting'[s][i] # [client |-> n.client, request |-> n.request]
    <3>1. CASE i \in DOMAIN waiting[s] /\ waiting'[s][i] = waiting[s][i]
      BY <3>1 DEF Books, AnswersOnce
    <3>2. CASE s = s0 /\ waiting'[s][i] = Entry(r)
      <4>1. n.client = k => n.request # r.id
        BY <1>0, NotTold
      <4> QED
        BY <3>2, <4>1 DEF Entry
    <3> QED
      BY <1>1, <1>2, <3>1, <3>2
  <2> QED
    BY <1>0, <2>1, <2>2, AnswersHandled DEF Books, AnswersOnce
<1>10. \A c \in Client : ViewOK(c)'
  BY <1>0, ViewHandled
<1> QED
  BY <1>6, <1>7, <1>8, <1>9, <1>10 DEF Books

(* A cancelled seat is nobody's success, and nobody was told of it.        *)
LEMMA CancelledFacts ==
  ASSUME Typed, Books, NEW r \in Request, Decides(r, "SUCCESS"), Cancelled(r)
  PROVE  /\ r.client \in Client /\ r.command = "CANCEL" /\ r \in view[r.client].pending
         /\ OnlySeat(r) \in Seat /\ owner[OnlySeat(r)] = r.client
         /\ r.client # Nobody /\ view' = view
         /\ \A c \in Client :
              /\ Open(c)' = Open(c) /\ Won(c)' = Won(c)
              /\ c # r.client => GivenUp(c)' = GivenUp(c)
              /\ c = r.client => GivenUp(c)' = GivenUp(c) \union {r}
              /\ \A p \in Won(c) : OnlySeat(r) \notin SeatsOf(p)
              /\ \A q \in Open(c) : \A n \in handed :
                   n.client = c /\ n.request = q.id => n.seat # OnlySeat(r)
<1> DEFINE k == r.client
           s0 == OnlySeat(r)
<1>1. /\ k \in Client /\ r.command = "CANCEL" /\ r \in view[k].pending /\ owner[s0] = k
      /\ k # Nobody /\ view' = view
  BY DEF Decides, Cancelled, Owns
<1>2. /\ SeatsOf(r) = {s0} /\ s0 \in Seat /\ \A q \in Open(k) : OnlySeat(q) # s0
      /\ \A p \in view[k].pending : p # r => s0 \notin SeatsOf(p)
  BY <1>1, CancelFacts
<1>3. ASSUME NEW c \in Client
      PROVE  /\ Open(c)' = Open(c) /\ Won(c)' = Won(c)
             /\ c # k => GivenUp(c)' = GivenUp(c)
             /\ c = k => GivenUp(c)' = GivenUp(c) \union {r}
  <2>1. /\ Open(c)' = Open(c) \union {p \in {r} : r.client = c /\ "SUCCESS" = "WAITLISTED"}
        /\ Won(c)' = Won(c) \union
              {p \in {r} : r.client = c /\ "SUCCESS" = "SUCCESS" /\ r.command # "CANCEL"}
        /\ GivenUp(c)' = GivenUp(c) \union
              {p \in {r} : r.client = c /\ "SUCCESS" = "SUCCESS" /\ r.command = "CANCEL"}
    BY MarksMove
  <2> QED
    BY <1>1, <2>1
<1>4. ASSUME NEW c \in Client, NEW p \in Won(c) PROVE s0 \notin SeatsOf(p)
  <2> SUFFICES ASSUME s0 \in SeatsOf(p) PROVE FALSE
    OBVIOUS
  <2>1. owner[s0] = c
    BY DEF Books, ClaimsOK, WonOK
  <2>2. p \in view[c].pending /\ p.command # "CANCEL"
    BY DEF Won
  <2> QED
    BY <1>1, <1>2, <2>1, <2>2
<1>5. ASSUME NEW c \in Client, NEW q \in Open(c), NEW n \in handed, n.client = c, n.request = q.id
      PROVE  n.seat # s0
  <2>1. n.seat = OnlySeat(q) /\ owner[n.seat] = c
    BY <1>5 DEF Books, ClaimsOK, OpenOK
  <2> QED
    BY <1>1, <1>2, <2>1
<1> QED
  BY <1>1, <1>2, <1>3, <1>4, <1>5

LEMMA FreeBooks ==
  ASSUME Typed, Books, NEW r \in Request, Decides(r, "SUCCESS"), Free(r)
  PROVE  Books'
<1> DEFINE k == r.client
           s0 == OnlySeat(r)
<1>0. /\ Cancelled(r) /\ waiting[s0] = <<>> /\ UNCHANGED <<waiting, handed>>
      /\ owner' = [owner EXCEPT ![s0] = Nobody]
  BY DEF Free
<1>1. /\ k \in Client /\ r.command = "CANCEL" /\ r \in view[k].pending
      /\ s0 \in Seat /\ owner[s0] = k /\ k # Nobody /\ view' = view
  BY <1>0, CancelledFacts
<1>2. ASSUME NEW c \in Client
      PROVE  /\ Open(c)' = Open(c) /\ Won(c)' = Won(c)
             /\ c # k => GivenUp(c)' = GivenUp(c)
             /\ c = k => GivenUp(c)' = GivenUp(c) \union {r}
             /\ \A p \in Won(c) : s0 \notin SeatsOf(p)
             /\ \A q \in Open(c) : \A n \in handed :
                  n.client = c /\ n.request = q.id => n.seat # s0
  BY <1>0, CancelledFacts
<1>3. \A s \in Seat : owner'[s] = IF s = s0 THEN Nobody ELSE owner[s]
  BY <1>0, <1>1 DEF Typed, BookingTypes
<1>4. ASSUME NEW c \in Client PROVE ClaimsOK(c)'
  <2>0. /\ view[c].held \subseteq Seat /\ view[c].pending \subseteq Proper /\ c # Nobody
        /\ HeldOK(c) /\ CancelsOK(c) /\ WonOK(c) /\ OpenOK(c) /\ OwnedOK(c)
    BY DEF Books, ClaimsOK, Typed, ClientTypes, Views
  <2>1. HeldOK(c)'
    <3> SUFFICES ASSUME NEW s \in view[c].held
                 PROVE  owner'[s] = c \/ \E p \in GivenUp(c)' : OnlySeat(p) = s
      BY <1>1 DEF HeldOK
    <3>1. s \in Seat
      BY <2>0
    <3>2. CASE \E p \in GivenUp(c) : OnlySeat(p) = s
      BY <1>2, <3>2
    <3>3. CASE owner[s] = c
      BY <1>1, <1>2, <1>3, <3>1, <3>3
    <3> QED
      BY <2>0, <3>2, <3>3 DEF HeldOK
  <2>2. CancelsOK(c)'
    <3> SUFFICES ASSUME NEW p \in view[c].pending, p.command = "CANCEL"
                 PROVE  /\ OnlySeat(p) \in view[c].held
                        /\ Unanswered(p)' \/ (p \in GivenUp(c)' /\ owner'[OnlySeat(p)] # c)
      BY <1>1 DEF CancelsOK
    <3>1. OnlySeat(p) \in view[c].held /\ OnlySeat(p) \in Seat /\ p \in Asked(c)
      BY CancelFacts DEF Asked
    <3>2. CASE p = r /\ c = k
      BY <1>1, <1>2, <1>3, <3>1, <3>2
    <3>3. CASE p # r
      BY <1>2, <1>3, <2>0, <3>1, <3>3, MarksMove DEF CancelsOK
    <3> QED
      BY <1>1, <3>2, <3>3 DEF Books, ViewOK, Asked
  <2>3. WonOK(c)'
    <3> SUFFICES ASSUME NEW p \in Won(c), NEW s \in SeatsOf(p)
                 PROVE  owner'[s] = c /\ \A q \in Open(c) : OnlySeat(q) # s
      BY <1>2 DEF WonOK
    <3>1. s \in Seat /\ s # s0
      BY <1>2, <2>0, ProperFacts DEF Won
    <3> QED
      BY <1>3, <2>0, <3>1 DEF WonOK
  <2>4. OpenOK(c)'
    <3> SUFFICES ASSUME NEW q \in Open(c)
                 PROVE  /\ OnlySeat(q) \notin view[c].held
                        /\ Notice(Entry(q), OnlySeat(q)) \in handed \/ Queued(q)
                        /\ \A p \in Open(c) : OnlySeat(p) = OnlySeat(q) => p = q
                        /\ \A n \in handed : n.client = c /\ n.request = q.id =>
                             n.seat = OnlySeat(q) /\ owner'[n.seat] = c
      BY <1>0, <1>1, <1>2 DEF OpenOK, Queued
    <3> QED
      BY <1>2, <1>3, <2>0, OpenTaken DEF OpenOK
  <2>5. OwnedOK(c)'
    <3> SUFFICES ASSUME NEW s \in Seat, owner'[s] = c
                 PROVE  \/ s \in view[c].held
                        \/ \E p \in Won(c) : s \in SeatsOf(p)
                        \/ \E q \in Open(c) : OnlySeat(q) = s
      BY <1>1, <1>2 DEF OwnedOK
    <3> QED
      BY <1>3, <2>0 DEF OwnedOK
  <2> QED
    BY <2>1, <2>2, <2>3, <2>4, <2>5 DEF ClaimsOK
<1>5. SeatsFair'
  <2> SUFFICES ASSUME NEW s \in Seat
               PROVE  /\ owner'[s] = Nobody => waiting[s] = <<>>
                      /\ \A i \in DOMAIN waiting[s] :
                           /\ waiting[s][i].client # owner'[s]
                           /\ \A j \in DOMAIN waiting[s] :
                                i # j => waiting[s][i].client # waiting[s][j].client
    BY <1>0 DEF SeatsFair
  <2>1. CASE s = s0
    BY <1>0, <2>1
  <2>2. CASE s # s0
    BY <1>3, <2>2 DEF Books, SeatsFair
  <2> QED
    BY <2>1, <2>2
<1>6. WaitersKnown'
  BY <1>0, <1>2 DEF Books, WaitersKnown
<1>7. AnswersOnce'
  <2>1. answers \subseteq answers'
    BY DEF Decides
  <2> QED
    BY <1>0, <2>1, AnswersHandled DEF Books, AnswersOnce
<1>8. \A c \in Client : ViewOK(c)'
  BY ViewHandled
<1> QED
  BY <1>4, <1>5, <1>6, <1>7, <1>8 DEF Books

LEMMA HandOverBooks ==
  ASSUME Typed, Books, NEW r \in Request, Decides(r, "SUCCESS"), HandOver(r)
  PROVE  Books'
<1> DEFINE k == r.client
           s0 == OnlySeat(r)
           e == Head(waiting[s0])
           j0 == e.client
           n0 == Notice(e, s0)
<1>0. /\ Cancelled(r) /\ waiting[s0] # <<>>
      /\ waiting' = [waiting EXCEPT ![s0] = Tail(@)]
      /\ owner' = [owner EXCEPT ![s0] = j0] /\ handed' = handed \union {n0}
  BY DEF HandOver
<1>1. /\ k \in Client /\ r.command = "CANCEL" /\ r \in view[k].pending
      /\ s0 \in Seat /\ owner[s0] = k /\ k # Nobody /\ view' = view
  BY <1>0, CancelledFacts
<1>2. ASSUME NEW c \in Client
      PROVE  /\ Open(c)' = Open(c) /\ Won(c)' = Won(c)
             /\ c # k => GivenUp(c)' = GivenUp(c)
             /\ c = k => GivenUp(c)' = GivenUp(c) \union {r}
             /\ \A p \in Won(c) : s0 \notin SeatsOf(p)
             /\ \A q \in Open(c) : \A n \in handed :
                  n.client = c /\ n.request = q.id => n.seat # s0
  BY <1>0, CancelledFacts
<1>3. /\ waiting[s0] \in Seq(Entries) /\ e = waiting[s0][1] /\ 1 \in DOMAIN waiting[s0]
      /\ e \in Entries /\ j0 \in Client
  BY <1>0, <1>1, WaiterTypes, QueueFacts
<1>4. /\ \A s \in Seat : owner'[s] = IF s = s0 THEN j0 ELSE owner[s]
      /\ \A s \in Seat : s # s0 => waiting'[s] = waiting[s]
      /\ waiting'[s0] = Tail(waiting[s0])
  BY <1>0, <1>1 DEF Typed, BookingTypes
<1>5. /\ \A i \in DOMAIN waiting'[s0] :
           waiting'[s0][i] = waiting[s0][i + 1] /\ i + 1 \in DOMAIN waiting[s0] /\ i + 1 # 1
           /\ i \in Nat
      /\ \A i \in DOMAIN waiting[s0] : i # 1 =>
           \E j \in DOMAIN waiting'[s0] : waiting'[s0][j] = waiting[s0][i]
  <2>1. /\ DOMAIN waiting'[s0] = 1..(Len(waiting[s0]) - 1)
        /\ \A i \in DOMAIN waiting'[s0] :
             waiting'[s0][i] = waiting[s0][i + 1] /\ i + 1 \in DOMAIN waiting[s0] /\ i \in Nat
        /\ DOMAIN waiting[s0] = 1..Len(waiting[s0]) /\ Len(waiting[s0]) \in Nat
    <3> DEFINE q == waiting[s0]
    <3>1. q \in Seq(Entries) /\ q # <<>> /\ waiting'[s0] = Tail(q)
      BY <1>0, <1>3, <1>4
    <3> HIDE DEF q
    <3>2. /\ DOMAIN waiting'[s0] = 1..(Len(q) - 1)
          /\ \A i \in DOMAIN waiting'[s0] :
               waiting'[s0][i] = q[i + 1] /\ i + 1 \in DOMAIN q /\ i \in Nat
          /\ DOMAIN q = 1..Len(q) /\ Len(q) \in Nat
      BY <3>1, TailFacts
    <3> QED
      BY <3>2 DEF q
  <2>2. ASSUME NEW i \in DOMAIN waiting[s0], i # 1
        PROVE  \E j \in DOMAIN waiting'[s0] : waiting'[s0][j] = waiting[s0][i]
    <3>1. i - 1 \in DOMAIN waiting'[s0] /\ (i - 1) + 1 = i
      BY <2>1, <2>2
    <3>2. waiting'[s0][i - 1] = waiting[s0][i]
      BY <2>1, <3>1
    <3> QED
      BY <3>1, <3>2
  <2>3. \A i \in DOMAIN waiting'[s0] : i + 1 # 1
    BY <2>1
  <2> QED
    BY <2>1, <2>2, <2>3
<1>6. PICK q0 \in Open(j0) : q0.id = e.request /\ OnlySeat(q0) = s0
  BY <1>1, <1>3 DEF Books, WaitersKnown
<1>7. q0.client = j0 /\ j0 # k /\ j0 # Nobody /\ Entry(q0) = e
  <2>1. q0.client = j0
    BY <1>3, <1>6, OpenTaken
  <2>2. j0 # k
    BY <1>1, <1>3 DEF Books, SeatsFair
  <2>3. Entry(q0) = e
    BY <1>3, <1>6, <2>1 DEF Entry, Entries
  <2> QED
    BY <1>3, <2>1, <2>2, <2>3
<1>8. n0.client = j0 /\ n0.request = q0.id /\ n0.seat = s0
  BY <1>6 DEF Notice
<1>9. [client |-> j0, request |-> q0.id, status |-> "WAITLISTED"] \in answers
  BY <1>7, <1>3, <1>6 DEF Open, Reply
<1> HIDE DEF k, s0, e, j0, n0
<1>10. ASSUME NEW c \in Client PROVE ClaimsOK(c)'
  <2>0. /\ view[c].held \subseteq Seat /\ view[c].pending \subseteq Proper /\ c # Nobody
        /\ HeldOK(c) /\ CancelsOK(c) /\ WonOK(c) /\ OpenOK(c) /\ OwnedOK(c)
    BY DEF Books, ClaimsOK, Typed, ClientTypes, Views
  <2>1. HeldOK(c)'
    <3> SUFFICES ASSUME NEW s \in view[c].held
                 PROVE  owner'[s] = c \/ \E p \in GivenUp(c)' : OnlySeat(p) = s
      BY <1>1 DEF HeldOK
    <3>1. s \in Seat
      BY <2>0
    <3>2. CASE \E p \in GivenUp(c) : OnlySeat(p) = s
      BY <1>2, <3>2
    <3>3. CASE owner[s] = c
      BY <1>1, <1>2, <1>4, <3>1, <3>3 DEF s0
    <3> QED
      BY <2>0, <3>2, <3>3 DEF HeldOK
  <2>2. CancelsOK(c)'
    <3> SUFFICES ASSUME NEW p \in view[c].pending, p.command = "CANCEL"
                 PROVE  /\ OnlySeat(p) \in view[c].held
                        /\ Unanswered(p)' \/ (p \in GivenUp(c)' /\ owner'[OnlySeat(p)] # c)
      BY <1>1 DEF CancelsOK
    <3>1. OnlySeat(p) \in view[c].held /\ OnlySeat(p) \in Seat /\ p \in Asked(c)
      BY CancelFacts DEF Asked
    <3>2. CASE p = r /\ c = k
      BY <1>1, <1>2, <1>4, <1>7, <3>1, <3>2 DEF s0
    <3>3. CASE p # r
      <4>1. c = j0 => OnlySeat(p) # s0
        BY <1>6, CancelFacts
      <4> QED
        BY <1>2, <1>4, <2>0, <3>1, <3>3, <4>1, MarksMove DEF CancelsOK
    <3> QED
      BY <1>1, <3>2, <3>3 DEF Books, ViewOK, Asked, k
  <2>3. WonOK(c)'
    <3> SUFFICES ASSUME NEW p \in Won(c), NEW s \in SeatsOf(p)
                 PROVE  owner'[s] = c /\ \A q \in Open(c) : OnlySeat(q) # s
      BY <1>2 DEF WonOK
    <3>1. s \in Seat /\ s # s0
      BY <1>2, <2>0, ProperFacts DEF Won
    <3> QED
      BY <1>4, <2>0, <3>1 DEF WonOK
  <2>4. OpenOK(c)'
    <3> SUFFICES ASSUME NEW q \in Open(c)
                 PROVE  /\ OnlySeat(q) \notin view[c].held
                        /\ \/ Notice(Entry(q), OnlySeat(q)) \in handed'
                           \/ \E i \in DOMAIN waiting'[OnlySeat(q)] : waiting'[OnlySeat(q)][i] = Entry(q)
                        /\ \A p \in Open(c) : OnlySeat(p) = OnlySeat(q) => p = q
                        /\ \A n \in handed' : n.client = c /\ n.request = q.id =>
                             n.seat = OnlySeat(q) /\ owner'[n.seat] = c
      BY <1>1, <1>2 DEF OpenOK, Queued
    <3>0. OnlySeat(q) \in Seat /\ q.client = c
      BY OpenTaken
    <3>1. \/ Notice(Entry(q), OnlySeat(q)) \in handed'
          \/ \E i \in DOMAIN waiting'[OnlySeat(q)] : waiting'[OnlySeat(q)][i] = Entry(q)
      <4>1. CASE Notice(Entry(q), OnlySeat(q)) \in handed
        BY <1>0, <4>1
      <4>2. ASSUME OnlySeat(q) = s0, NEW i \in DOMAIN waiting[s0], waiting[s0][i] = Entry(q)
            PROVE  \/ Notice(Entry(q), s0) \in handed'
                   \/ \E i2 \in DOMAIN waiting'[s0] : waiting'[s0][i2] = Entry(q)
        <5>1. CASE i = 1
          BY <1>0, <1>3, <4>2, <5>1 DEF n0
        <5>2. CASE i # 1
          BY <1>5, <4>2, <5>2
        <5> QED
          BY <5>1, <5>2
      <4>3. CASE OnlySeat(q) # s0 /\ Queued(q)
        BY <1>4, <3>0, <4>3 DEF Queued
      <4> QED
        BY <2>0, <4>1, <4>2, <4>3 DEF OpenOK, Queued
    <3>2. ASSUME NEW n \in handed', n.client = c, n.request = q.id
          PROVE  n.seat = OnlySeat(q) /\ owner'[n.seat] = c
      <4>1. CASE n \in handed
        <5>1. n.seat = OnlySeat(q) /\ owner[n.seat] = c /\ n.seat # s0
          BY <1>2, <2>0, <3>2, <4>1 DEF OpenOK
        <5> QED
          BY <1>4, <3>0, <5>1
      <4>2. CASE n = n0
        <5>1. c = j0 /\ q.id = q0.id /\ q \in Asked(c) /\ q0 \in Asked(c)
          BY <1>6, <1>8, <3>2, <4>2 DEF Open
        <5>2. q = q0
          BY <5>1 DEF Books, ViewOK
        <5> QED
          BY <1>1, <1>4, <1>6, <1>8, <4>2, <5>1, <5>2 DEF s0
      <4> QED
        BY <1>0, <3>2, <4>1, <4>2
    <3> QED
      BY <2>0, <3>1, <3>2 DEF OpenOK
  <2>5. OwnedOK(c)'
    <3> SUFFICES ASSUME NEW s \in Seat, owner'[s] = c
                 PROVE  \/ s \in view[c].held
                        \/ \E p \in Won(c) : s \in SeatsOf(p)
                        \/ \E q \in Open(c) : OnlySeat(q) = s
      BY <1>1, <1>2 DEF OwnedOK
    <3>1. CASE s = s0
      BY <1>4, <1>6, <3>1
    <3>2. CASE s # s0
      BY <1>4, <2>0, <3>2 DEF OwnedOK
    <3> QED
      BY <3>1, <3>2
  <2> QED
    BY <2>1, <2>2, <2>3, <2>4, <2>5 DEF ClaimsOK
<1>11. SeatsFair'
  <2> SUFFICES ASSUME NEW s \in Seat
               PROVE  /\ owner'[s] = Nobody => waiting'[s] = <<>>
                      /\ \A i \in DOMAIN waiting'[s] :
                           /\ waiting'[s][i].client # owner'[s]
                           /\ \A j \in DOMAIN waiting'[s] :
                                i # j => waiting'[s][i].client # waiting'[s][j].client
    BY DEF SeatsFair
  <2>1. CASE s = s0
    <3>1. \A i, j \in DOMAIN waiting[s0] : i # j => waiting[s0][i].client # waiting[s0][j].client
      BY <2>1 DEF Books, SeatsFair
    <3>2. owner'[s] = j0 /\ waiting[s0][1].client = j0 /\ 1 \in DOMAIN waiting[s0]
      BY <1>3, <1>4, <2>1 DEF j0
    <3>3. \A i \in DOMAIN waiting'[s0] : waiting'[s0][i].client # j0
      BY <1>5, <3>1, <3>2
    <3>4. \A i, j \in DOMAIN waiting'[s0] :
             i # j => waiting'[s0][i].client # waiting'[s0][j].client
      <4> SUFFICES ASSUME NEW i \in DOMAIN waiting'[s0], NEW j \in DOMAIN waiting'[s0], i # j
                   PROVE  waiting'[s0][i].client # waiting'[s0][j].client
        OBVIOUS
      <4>1. /\ waiting'[s0][i] = waiting[s0][i + 1] /\ i + 1 \in DOMAIN waiting[s0]
            /\ waiting'[s0][j] = waiting[s0][j + 1] /\ j + 1 \in DOMAIN waiting[s0]
            /\ i + 1 # j + 1
        BY <1>5
      <4> QED
        BY <3>1, <4>1
    <3> QED
      BY <1>7, <2>1, <3>2, <3>3, <3>4
  <2>2. CASE s # s0
    BY <1>4, <2>2 DEF Books, SeatsFair
  <2> QED
    BY <2>1, <2>2
<1>12. WaitersKnown'
  <2> SUFFICES ASSUME NEW c \in Client, NEW s \in Seat, NEW i \in DOMAIN waiting'[s],
                      waiting'[s][i].client = c
               PROVE  \E q \in Open(c) : q.id = waiting'[s][i].request /\ OnlySeat(q) = s
    BY <1>2 DEF WaitersKnown
  <2>1. CASE s # s0
    BY <1>4, <2>1 DEF Books, WaitersKnown
  <2>2. CASE s = s0
    BY <1>5, <2>2 DEF Books, WaitersKnown
  <2> QED
    BY <2>1, <2>2
<1>13. AnswersOnce'
  <2>1. answers \subseteq answers'
    BY DEF Decides
  <2>2. ASSUME NEW p \in handed PROVE ~(p.client = j0 /\ p.request = q0.id)
    BY <1>1, <1>3, <1>7, <2>2 DEF Books, AnswersOnce, Entry
  <2>3. ASSUME NEW s \in Seat, NEW i \in DOMAIN waiting'[s]
        PROVE  /\ waiting'[s][i] # [client |-> j0, request |-> q0.id]
               /\ \A n \in handed : waiting'[s][i] # [client |-> n.client, request |-> n.request]
    <3>1. CASE s = s0
      <4>1. PICK i1 \in DOMAIN waiting[s0] : i1 # 1 /\ waiting'[s][i] = waiting[s0][i1]
        BY <1>5, <3>1
      <4>2. waiting[s0][i1].client # waiting[s0][1].client
        BY <1>3, <3>1, <4>1 DEF Books, SeatsFair
      <4>3. waiting'[s][i].client # j0
        BY <1>3, <4>1, <4>2 DEF j0
      <4> QED
        BY <3>1, <4>1, <4>3 DEF Books, AnswersOnce
    <3>2. CASE s # s0
      <4>1. waiting'[s] = waiting[s]
        BY <1>4, <3>2
      <4>2. ASSUME waiting[s][i] = [client |-> j0, request |-> q0.id] PROVE FALSE
        <5>1. PICK q \in Open(j0) : q.id = q0.id /\ OnlySeat(q) = s
          BY <1>3, <4>1, <4>2 DEF Books, WaitersKnown
        <5>2. q = q0
          BY <1>3, <5>1 DEF Books, ViewOK, Open
        <5> QED
          BY <1>6, <3>2, <5>1, <5>2
      <4> QED
        BY <4>1, <4>2 DEF Books, AnswersOnce
    <3> QED
      BY <3>1, <3>2
  <2>4. ASSUME NEW n \in handed'
        PROVE  [client |-> n.client, request |-> n.request, status |-> "WAITLISTED"] \in answers'
    <3>1. CASE n \in handed
      BY <2>1, <3>1 DEF Books, AnswersOnce
    <3>2. CASE n = n0
      BY <1>8, <1>9, <2>1, <3>2
    <3> QED
      BY <1>0, <3>1, <3>2
  <2>5. \A n, p \in handed' : n.client = p.client /\ n.request = p.request => n = p
    BY <1>0, <1>8, <2>2 DEF Books, AnswersOnce
  <2>6. \A n \in handed' : \A s \in Seat : \A i \in DOMAIN waiting'[s] :
           waiting'[s][i] # [client |-> n.client, request |-> n.request]
    BY <1>0, <1>8, <2>3
  <2> QED
    BY <2>4, <2>5, <2>6, AnswersHandled DEF AnswersOnce
<1>14. \A c \in Client : ViewOK(c)'
  BY ViewHandled
<1> QED
  BY <1>10, <1>11, <1>12, <1>13, <1>14 DEF Books

-----------------------------------------------------------------------------
(* A client asks, hears an answer, or learns that it has a seat *)

(* A client's step leaves the seats alone, and the other clients' views.   *)
LEMMA OtherBooks ==
  ASSUME Typed, Books, UNCHANGED bookingVars, NEW c \in Client, view'[c] = view[c]
  PROVE  /\ ViewOK(c)' /\ ClaimsOK(c)' /\ Open(c)' = Open(c)
<1>1. owner' = owner /\ waiting' = waiting /\ answers' = answers /\ handed' = handed
  BY DEF bookingVars
<1>2. /\ Asked(c)' = Asked(c) /\ Open(c)' = Open(c) /\ Won(c)' = Won(c)
      /\ GivenUp(c)' = GivenUp(c)
  BY <1>1 DEF Asked, Open, Won, GivenUp
<1>3. ViewOK(c)'
  BY <1>1, <1>2 DEF Books, ViewOK
<1> QED
  BY <1>1, <1>2, <1>3 DEF Books, ClaimsOK, HeldOK, CancelsOK, WonOK, OpenOK, OwnedOK, Queued,
     Unanswered

(* One element more or less in a finite set.                               *)
LEMMA OneMore ==
  ASSUME NEW S, IsFiniteSet(S), NEW x, x \notin S
  PROVE  IsFiniteSet(S \union {x}) /\ Cardinality(S \union {x}) = Cardinality(S) + 1
         /\ Cardinality(S) \in Nat
BY FS_AddElement, FS_CardinalityType

LEMMA OneLess ==
  ASSUME NEW S, IsFiniteSet(S), NEW x \in S
  PROVE  IsFiniteSet(S \ {x}) /\ Cardinality(S \ {x}) = Cardinality(S) - 1
         /\ Cardinality(S) \in Nat
BY FS_RemoveElement, FS_CardinalityType

LEMMA AsksBooks ==
  ASSUME Typed, Books, UNCHANGED bookingVars, NEW c \in Client, NEW r \in Request, Asks(c, r),
         accepted[c] <= view[c].sent
  PROVE  ViewOK(c)' /\ ClaimsOK(c)' /\ Open(c)' = Open(c)
<1>0. owner' = owner /\ waiting' = waiting /\ answers' = answers /\ handed' = handed
  BY DEF bookingVars
<1>1. /\ view'[c].held = view[c].held /\ view'[c].pending = view[c].pending \union {r}
      /\ view'[c].early = view[c].early /\ view'[c].waits = view[c].waits
      /\ view'[c].sent = r.id /\ view'[c].answered = view[c].answered
      /\ r \in Proper /\ r.client = c /\ r.id = view[c].sent + 1
      /\ SeatsOf(r) \intersect Busy(c) = {}
      /\ r.command = "CANCEL" => OnlySeat(r) \in view[c].held
  BY DEF Asks
<1>2. view[c].sent \in Nat /\ view[c].answered \in Nat /\ accepted[c] \in Nat
      /\ view[c].pending \subseteq Proper /\ view[c].waits \subseteq Proper
  BY DEF Typed, ClientTypes, Views, TallyTypes
<1>3. \A p \in Asked(c) : p.id <= view[c].sent /\ p.client = c /\ p.id \in Nat
  BY <1>2, RequestFacts DEF Books, ViewOK, Asked, Proper
<1>4. r \notin Asked(c) /\ r.id \notin {p.id : p \in Asked(c)}
  BY <1>1, <1>2, <1>3
<1>5. Unanswered(r) /\ \A x : Reply(r, x) \notin answers
  <2>1. \A a \in answers : a.request <= accepted[a.client] /\ a.request \in Nat
    BY DEF Books, AnswersOnce, Typed, BookingTypes, Replies
  <2>2. Unanswered(r)
    BY <1>1, <1>2, <2>1 DEF Unanswered
  <2> QED
    BY <2>2, ReplyFacts DEF Unanswered
<1>6. Asked(c)' = Asked(c) \union {r}
  BY <1>1 DEF Asked
<1>7. Open(c)' = Open(c) /\ Won(c)' = Won(c) /\ GivenUp(c)' = GivenUp(c)
  BY <1>0, <1>1, <1>5, <1>6 DEF Open, Won, GivenUp
<1>8. ViewOK(c)'
  <2>1. \A p \in Asked(c)' : p.client = c /\ p.id <= view'[c].sent
    BY <1>1, <1>2, <1>3, <1>6
  <2>2. \A p, q \in Asked(c)' : p.id = q.id => p = q
    BY <1>4, <1>6 DEF Books, ViewOK
  <2>3. \A p, q \in view'[c].pending : p # q => SeatsOf(p) \intersect SeatsOf(q) = {}
    <3>1. \A p \in view[c].pending : SeatsOf(p) \intersect SeatsOf(r) = {}
      BY <1>1 DEF Busy
    <3>2. \A p, q \in view[c].pending : p # q => SeatsOf(p) \intersect SeatsOf(q) = {}
      BY DEF Books, ViewOK
    <3> QED
      BY <1>1, <3>1, <3>2
  <2>4. \A p \in view'[c].waits :
          p \notin view'[c].pending /\ Reply(p, "WAITLISTED") \in answers' /\ p.id \notin view'[c].early
    BY <1>0, <1>1, <1>4 DEF Books, ViewOK, Asked
  <2>5. \A p \in Asked(c)' : Reply(p, "WAITLISTED") \in answers' => p.command = "RESERVE"
    BY <1>0, <1>5, <1>6 DEF Books, ViewOK
  <2>6. \A i \in view'[c].early : \E n \in handed' : n.client = c /\ n.request = i
    BY <1>0, <1>1 DEF Books, ViewOK
  <2>7. /\ IsFiniteSet(view'[c].pending)
        /\ view'[c].answered + Cardinality(view'[c].pending) = view'[c].sent
    <3>1. r \notin view[c].pending /\ IsFiniteSet(view[c].pending)
          /\ view[c].answered + Cardinality(view[c].pending) = view[c].sent
      BY <1>4 DEF Asked, Books, ViewOK
    <3>2. /\ IsFiniteSet(view[c].pending \union {r})
          /\ Cardinality(view[c].pending \union {r}) = Cardinality(view[c].pending) + 1
          /\ Cardinality(view[c].pending) \in Nat
      BY <3>1, OneMore, Zenon
    <3>3. view'[c].pending = view[c].pending \union {r} /\ view'[c].sent = view[c].sent + 1
          /\ view'[c].answered = view[c].answered
      BY <1>1
    <3> QED
      BY <1>2, <3>1, <3>2, <3>3
  <2> QED
    BY <2>1, <2>2, <2>3, <2>4, <2>5, <2>6, <2>7 DEF ViewOK
<1>9. HeldOK(c)' /\ WonOK(c)' /\ OpenOK(c)' /\ OwnedOK(c)'
  BY <1>0, <1>1, <1>7 DEF Books, ClaimsOK, HeldOK, WonOK, OpenOK, OwnedOK, Queued
<1>10. CancelsOK(c)'
  BY <1>0, <1>1, <1>5, <1>7 DEF Books, ClaimsOK, CancelsOK, Unanswered
<1> QED
  BY <1>7, <1>8, <1>9, <1>10 DEF ClaimsOK

LEMMA LearnsBooks ==
  ASSUME Typed, Books, ResultsTrue, UNCHANGED bookingVars, NEW c \in Client,
         NEW m \in Lines, NEW r \in Request, Learns(c, m, r)
  PROVE  /\ ViewOK(c)' /\ ClaimsOK(c)' /\ Open(c)' = Open(c) \ {r}
         /\ r \in Open(c) /\ Notice(Entry(r), OnlySeat(r)) \in handed
<1> DEFINE s0 == OnlySeat(r)
           n0 == Notice(Entry(r), s0)
<1>0. owner' = owner /\ waiting' = waiting /\ answers' = answers /\ handed' = handed
  BY DEF bookingVars
<1>1. /\ view'[c].held = view[c].held \union {s0}
      /\ view'[c].waits = view[c].waits \ {r}
      /\ view'[c].early = IF r \in view[c].pending THEN view[c].early \union {r.id}
                          ELSE view[c].early
      /\ view'[c].pending = view[c].pending
      /\ view'[c].answered = view[c].answered /\ view'[c].sent = view[c].sent
      /\ r \in view[c].waits \union view[c].pending
      /\ r \in view[c].waits \/ (r.id \notin view[c].early /\ r.command = "RESERVE")
  BY DEF Learns, NotifyView
<1>2. ViewOK(c) /\ n0 \in handed /\ r.client = c
  BY LearnedTrue DEF Books
<1>3. n0.client = c /\ n0.request = r.id /\ n0.seat = s0
  BY <1>2, EntryFacts
<1> HIDE DEF n0
<1>4. Reply(r, "WAITLISTED") \in answers
  BY <1>2, <1>3 DEF Books, AnswersOnce, Reply
<1>5. r \in Open(c) /\ r \in Asked(c)
  BY <1>1, <1>2, <1>4 DEF Open, Asked, ViewOK
<1>6. \A p, q \in Asked(c) : p.id = q.id => p = q
  BY <1>2 DEF ViewOK
<1>7. \A p \in view[c].waits : p \notin view[c].pending
  BY <1>2 DEF ViewOK
<1>8. Asked(c)' \subseteq Asked(c)
  BY <1>1 DEF Asked
<1>9. Open(c)' = Open(c) \ {r}
  <2>1. ASSUME NEW p \in Open(c)' PROVE p \in Open(c) /\ p # r
    <3>1. p \in Asked(c) /\ Reply(p, "WAITLISTED") \in answers /\ p.id \notin view'[c].early
          /\ p \in view'[c].waits \union view'[c].pending
      BY <1>0, <1>8, <2>1 DEF Open, Asked
    <3> QED
      BY <1>1, <1>7, <3>1 DEF Open
  <2>2. ASSUME NEW p \in Open(c), p # r PROVE p \in Open(c)'
    <3>1. p \in Asked(c) /\ Reply(p, "WAITLISTED") \in answers' /\ p.id \notin view[c].early
      BY <1>0 DEF Open
    <3>2. p \in view'[c].waits \union view'[c].pending /\ p.id # r.id
      BY <1>1, <1>5, <1>6, <2>2, <3>1 DEF Asked
    <3> QED
      BY <1>1, <3>1, <3>2 DEF Open, Asked
  <2> QED
    BY <2>1, <2>2
<1>10. Won(c)' = Won(c) /\ GivenUp(c)' = GivenUp(c)
  BY <1>0, <1>1 DEF Won, GivenUp
<1>11. ViewOK(c)'
  <2>1. \A p \in Asked(c)' : p.client = c /\ p.id <= view'[c].sent
    BY <1>1, <1>2, <1>8 DEF ViewOK
  <2>2. \A p, q \in Asked(c)' : p.id = q.id => p = q
    BY <1>6, <1>8
  <2>3. \A p, q \in view'[c].pending : p # q => SeatsOf(p) \intersect SeatsOf(q) = {}
    BY <1>1, <1>2 DEF ViewOK
  <2>4. ASSUME NEW p \in view'[c].waits
        PROVE  p \notin view'[c].pending /\ Reply(p, "WAITLISTED") \in answers' /\ p.id \notin view'[c].early
    <3>1. p \in view[c].waits /\ p # r /\ p \in Asked(c)
      BY <1>1, <2>4 DEF Asked
    <3>2. p.id # r.id
      BY <1>5, <1>6, <3>1
    <3> QED
      BY <1>0, <1>1, <1>2, <3>1, <3>2 DEF ViewOK
  <2>5. \A p \in Asked(c)' : Reply(p, "WAITLISTED") \in answers' => p.command = "RESERVE"
    BY <1>0, <1>2, <1>8 DEF ViewOK
  <2>6. \A i \in view'[c].early : \E n \in handed' : n.client = c /\ n.request = i
    BY <1>0, <1>1, <1>2, <1>3 DEF ViewOK
  <2>7. /\ IsFiniteSet(view'[c].pending)
        /\ view'[c].answered + Cardinality(view'[c].pending) = view'[c].sent
    BY <1>1, <1>2 DEF ViewOK
  <2> QED
    BY <2>1, <2>2, <2>3, <2>4, <2>5, <2>6, <2>7 DEF ViewOK
<1>12. ClaimsOK(c)'
  <2>0. HeldOK(c) /\ CancelsOK(c) /\ WonOK(c) /\ OpenOK(c) /\ OwnedOK(c)
    BY DEF Books, ClaimsOK
  <2>1. owner[s0] = c
    BY <1>2, <1>3, <1>5, <2>0 DEF OpenOK
  <2>2. HeldOK(c)'
    BY <1>0, <1>1, <1>10, <2>0, <2>1 DEF HeldOK
  <2>3. CancelsOK(c)'
    BY <1>0, <1>1, <1>10, <2>0 DEF CancelsOK, Unanswered
  <2>4. WonOK(c)'
    BY <1>0, <1>9, <1>10, <2>0 DEF WonOK
  <2>5. OpenOK(c)'
    BY <1>0, <1>1, <1>5, <1>9, <2>0 DEF OpenOK, Queued
  <2>6. OwnedOK(c)'
    BY <1>0, <1>1, <1>9, <1>10, <2>0 DEF OwnedOK
  <2> QED
    BY <2>2, <2>3, <2>4, <2>5, <2>6 DEF ClaimsOK
<1> QED
  BY <1>2, <1>5, <1>9, <1>11, <1>12 DEF n0

LEMMA HearsBooks ==
  ASSUME Typed, Books, ResultsTrue, UNCHANGED bookingVars, NEW c \in Client,
         NEW m \in Lines, NEW r \in Request, Hears(c, m, r)
  PROVE  /\ ViewOK(c)' /\ ClaimsOK(c)' /\ Open(c)' = Open(c)
<1> DEFINE st == m.status
<1>0. owner' = owner /\ waiting' = waiting /\ answers' = answers /\ handed' = handed
  BY DEF bookingVars
<1>1. /\ r \in view[c].pending /\ r \in Proper
      /\ r.id \in view[c].early => st = "WAITLISTED"
      /\ st = "WAITLISTED" => r.command = "RESERVE"
      /\ view'[c].held = IF st = "SUCCESS"
                         THEN IF r.command = "CANCEL" THEN view[c].held \ SeatsOf(r)
                              ELSE view[c].held \union SeatsOf(r)
                         ELSE view[c].held
      /\ view'[c].waits = IF st = "WAITLISTED" /\ r.id \notin view[c].early
                          THEN view[c].waits \union {r} ELSE view[c].waits
      /\ view'[c].pending = view[c].pending \ {r} /\ view'[c].early = view[c].early \ {r.id}
      /\ view'[c].answered = view[c].answered + 1
      /\ view'[c].sent = view[c].sent
  BY DEF Hears, RespView
<1>2. ViewOK(c) /\ Reply(r, st) \in answers /\ r.client = c /\ st \in Status
  BY HeardTrue DEF Books
<1> HIDE DEF st
<1>3. \A x : Reply(r, x) \in answers => x = st
  <2> SUFFICES ASSUME NEW x, Reply(r, x) \in answers PROVE x = st
    OBVIOUS
  <2>1. Reply(r, x) = Reply(r, st)
    BY <1>2, ReplyFacts DEF Books, AnswersOnce
  <2> QED
    BY <2>1, ReplyFacts
<1>4. /\ \A p, q \in Asked(c) : p.id = q.id => p = q
      /\ \A p \in view[c].waits : p \notin view[c].pending /\ p.id \notin view[c].early
      /\ r \in Asked(c) /\ r \notin view[c].waits
  BY <1>1, <1>2 DEF ViewOK, Asked
<1>5. Asked(c)' = Asked(c) \ {p \in {r} : st # "WAITLISTED" \/ r.id \in view[c].early}
  BY <1>1, <1>4 DEF Asked
<1>6. Open(c)' = Open(c)
  <2>1. ASSUME NEW p \in Asked(c), p # r
        PROVE  p \in Asked(c)' /\ (p.id \in view'[c].early <=> p.id \in view[c].early)
    BY <1>1, <1>4, <1>5, <2>1
  <2>3. r \in Open(c) => r \in Open(c)'
    BY <1>0, <1>1, <1>3, <1>5 DEF Open
  <2>4. r \in Open(c)' => r \in Open(c)
    BY <1>0, <1>1, <1>3, <1>5 DEF Open
  <2>5. \A p \in Open(c)' \union Open(c) : p \in Asked(c)
    BY <1>5 DEF Open
  <2>6. \A p \in Asked(c) : p # r => (p \in Open(c)' <=> p \in Open(c))
    BY <1>0, <2>1 DEF Open
  <2>7. ASSUME NEW p \in Open(c)' PROVE p \in Open(c)
    BY <2>4, <2>5, <2>6, <2>7
  <2>8. ASSUME NEW p \in Open(c) PROVE p \in Open(c)'
    BY <2>3, <2>5, <2>6, <2>8
  <2> QED
    BY <2>7, <2>8
<1>7. Won(c)' = Won(c) \ {r} /\ GivenUp(c)' = GivenUp(c) \ {r}
  BY <1>0, <1>1 DEF Won, GivenUp
<1>8. ViewOK(c)'
  <2>1. \A p \in Asked(c)' : p.client = c /\ p.id <= view'[c].sent
    BY <1>1, <1>2, <1>5 DEF ViewOK
  <2>2. \A p, q \in Asked(c)' : p.id = q.id => p = q
    BY <1>4, <1>5
  <2>3. \A p, q \in view'[c].pending : p # q => SeatsOf(p) \intersect SeatsOf(q) = {}
    BY <1>1, <1>2 DEF ViewOK
  <2>4. ASSUME NEW p \in view'[c].waits
        PROVE  p \notin view'[c].pending /\ Reply(p, "WAITLISTED") \in answers' /\ p.id \notin view'[c].early
    <3>1. CASE p = r
      BY <1>0, <1>1, <1>2, <1>4, <2>4, <3>1
    <3>2. CASE p \in view[c].waits
      BY <1>0, <1>1, <1>2, <1>4, <3>2 DEF ViewOK
    <3> QED
      BY <1>1, <2>4, <3>1, <3>2
  <2>5. \A p \in Asked(c)' : Reply(p, "WAITLISTED") \in answers' => p.command = "RESERVE"
    BY <1>0, <1>2, <1>5 DEF ViewOK
  <2>6. \A i \in view'[c].early : \E n \in handed' : n.client = c /\ n.request = i
    BY <1>0, <1>1, <1>2 DEF ViewOK
  <2>7. /\ IsFiniteSet(view'[c].pending)
        /\ view'[c].answered + Cardinality(view'[c].pending) = view'[c].sent
    <3>1. view[c].answered \in Nat
      BY DEF Typed, ClientTypes, Views
    <3>2. r \in view[c].pending /\ IsFiniteSet(view[c].pending)
          /\ view[c].answered + Cardinality(view[c].pending) = view[c].sent
      BY <1>1, <1>2 DEF ViewOK
    <3>3. /\ IsFiniteSet(view[c].pending \ {r})
          /\ Cardinality(view[c].pending \ {r}) = Cardinality(view[c].pending) - 1
          /\ Cardinality(view[c].pending) \in Nat
      BY <3>2, OneLess, Zenon
    <3>4. view'[c].pending = view[c].pending \ {r} /\ view'[c].sent = view[c].sent
          /\ view'[c].answered = view[c].answered + 1
      BY <1>1
    <3> QED
      BY <3>1, <3>2, <3>3, <3>4
  <2> QED
    BY <2>1, <2>2, <2>3, <2>4, <2>5, <2>6, <2>7 DEF ViewOK
<1>9. ClaimsOK(c)'
  <2>0. HeldOK(c) /\ CancelsOK(c) /\ WonOK(c) /\ OpenOK(c) /\ OwnedOK(c)
    BY DEF Books, ClaimsOK
  <2>1. CASE st = "SUCCESS" /\ r.command # "CANCEL"
    <3>1. r \in Won(c) /\ r \notin GivenUp(c)
      BY <1>1, <1>2, <2>1 DEF Won, GivenUp
    <3>2. view'[c].held = view[c].held \union SeatsOf(r) /\ GivenUp(c)' = GivenUp(c)
      BY <1>1, <1>7, <2>1, <3>1
    <3>3. HeldOK(c)'
      BY <1>0, <2>0, <3>1, <3>2 DEF HeldOK, WonOK
    <3>4. CancelsOK(c)'
      BY <1>0, <1>1, <2>0, <3>2 DEF CancelsOK, Unanswered
    <3>5. WonOK(c)'
      BY <1>0, <1>6, <1>7, <2>0 DEF WonOK
    <3>6. OpenOK(c)'
      BY <1>0, <1>6, <2>0, <3>1, <3>2 DEF OpenOK, WonOK, Queued
    <3>7. OwnedOK(c)'
      BY <1>0, <1>6, <1>7, <2>0, <3>2 DEF OwnedOK
    <3> QED
      BY <3>3, <3>4, <3>5, <3>6, <3>7 DEF ClaimsOK
  <2>2. CASE st = "SUCCESS" /\ r.command = "CANCEL"
    <3>1. r \in GivenUp(c) /\ r \notin Won(c) /\ ~Unanswered(r)
      BY <1>1, <1>2, <2>2, ReplyFacts DEF Won, GivenUp, Unanswered
    <3>2. /\ SeatsOf(r) = {OnlySeat(r)} /\ OnlySeat(r) \in Seat
          /\ \A p \in view[c].pending : p # r => OnlySeat(r) \notin SeatsOf(p)
      BY <1>1, <2>2, CancelFacts
    <3>3. view'[c].held = view[c].held \ {OnlySeat(r)} /\ Won(c)' = Won(c)
      BY <1>1, <1>7, <2>2, <3>1, <3>2
    <3>4. owner[OnlySeat(r)] # c
      BY <1>1, <2>0, <2>2, <3>1 DEF CancelsOK
    <3>5. HeldOK(c)'
      BY <1>0, <1>7, <2>0, <3>3 DEF HeldOK
    <3>6. CancelsOK(c)'
      <4> SUFFICES ASSUME NEW p \in view[c].pending, p # r, p.command = "CANCEL"
                   PROVE  /\ OnlySeat(p) \in view'[c].held
                          /\ Unanswered(p) \/ (p \in GivenUp(c)' /\ owner[OnlySeat(p)] # c)
        BY <1>0, <1>1 DEF CancelsOK, Unanswered
      <4>1. SeatsOf(p) = {OnlySeat(p)}
        BY CancelFacts
      <4> QED
        BY <1>7, <2>0, <3>2, <3>3, <4>1 DEF CancelsOK
    <3>7. WonOK(c)'
      BY <1>0, <1>6, <2>0, <3>3 DEF WonOK
    <3>8. OpenOK(c)'
      BY <1>0, <1>6, <2>0, <3>3 DEF OpenOK, Queued
    <3>9. OwnedOK(c)'
      BY <1>0, <1>6, <2>0, <3>3, <3>4 DEF OwnedOK
    <3> QED
      BY <3>5, <3>6, <3>7, <3>8, <3>9 DEF ClaimsOK
  <2>3. CASE st # "SUCCESS"
    <3>1. r \notin GivenUp(c) /\ r \notin Won(c)
      BY <1>3, <2>3 DEF Won, GivenUp
    <3>2. view'[c].held = view[c].held /\ Won(c)' = Won(c) /\ GivenUp(c)' = GivenUp(c)
      BY <1>1, <1>7, <2>3, <3>1
    <3>3. CancelsOK(c)'
      BY <1>0, <1>1, <2>0, <3>2 DEF CancelsOK, Unanswered
    <3> QED
      BY <1>0, <1>6, <2>0, <3>2, <3>3 DEF ClaimsOK, HeldOK, WonOK, OpenOK, OwnedOK, Queued
  <2> QED
    BY <2>1, <2>2, <2>3
<1> QED
  BY <1>6, <1>8, <1>9

(* The seats are as before: what the clients know makes the books.          *)
LEMMA SeatsAlone ==
  ASSUME Typed, Books, [ServerNext]_serverVars, UNCHANGED bookingVars,
         \A c \in Client : ViewOK(c)' /\ ClaimsOK(c)',
         \A c \in Client : \A s \in Seat : \A i \in DOMAIN waiting[s] :
           waiting[s][i].client = c =>
             \E q \in Open(c)' : q.id = waiting[s][i].request /\ OnlySeat(q) = s
  PROVE  Books'
<1>1. owner' = owner /\ waiting' = waiting /\ answers' = answers /\ handed' = handed
  BY DEF bookingVars
<1>2. \A a \in answers : a.request <= accepted'[a.client]
  <2> TAKE a \in answers
  <2>1. a.client \in Client /\ a.request \in Nat
    BY DEF Typed, BookingTypes, Replies
  <2>2. accepted[a.client] \in Nat /\ accepted'[a.client] \in Nat
    BY <2>1, TypedStep DEF Typed, TallyTypes
  <2>3. a.request <= accepted[a.client] /\ accepted[a.client] <= accepted'[a.client]
    BY <2>1, Grows DEF Books, AnswersOnce
  <2> QED
    BY <2>1, <2>2, <2>3
<1>3. AnswersOnce'
  BY <1>1, <1>2 DEF Books, AnswersOnce
<1>4. SeatsFair'
  BY <1>1 DEF Books, SeatsFair
<1>5. WaitersKnown'
  BY <1>1 DEF WaitersKnown
<1> QED
  BY <1>3, <1>4, <1>5 DEF Books

(* A client's step keeps the books. *)
LEMMA ClientBooks ==
  ASSUME Typed, ResultsTrue, Books, \A c \in Client : WireOK(c), [ServerNext]_serverVars,
         NEW c \in Client, ClientStep(c)
  PROVE  Books'
<1>1. UNCHANGED bookingVars
  BY DEF ClientStep
<1>2. ASSUME NEW d \in Client, d # c PROVE ViewOK(d)' /\ ClaimsOK(d)' /\ Open(d)' = Open(d)
  <2>1. view'[d] = view[d]
    BY <1>2, OthersKeep
  <2> QED
    BY <1>1, <2>1, OtherBooks
<1> DEFINE Told1 ==
      \A s \in Seat : \A i \in DOMAIN waiting[s] :
        waiting[s][i].client = c =>
          \E q \in Open(c)' : q.id = waiting[s][i].request /\ OnlySeat(q) = s
<1>3. SUFFICES ViewOK(c)' /\ ClaimsOK(c)' /\ Told1
  <2>1. \A d \in Client : ViewOK(d)' /\ ClaimsOK(d)'
    BY <1>2, <1>3
  <2>2. ASSUME NEW d \in Client, NEW s \in Seat, NEW i \in DOMAIN waiting[s],
               waiting[s][i].client = d
        PROVE  \E q \in Open(d)' : q.id = waiting[s][i].request /\ OnlySeat(q) = s
    <3>1. CASE d = c
      BY <1>3, <2>2, <3>1
    <3>2. CASE d # c
      BY <1>2, <2>2, <3>2 DEF Books, WaitersKnown
    <3> QED
      BY <3>1, <3>2
  <2> QED
    BY <1>1, <2>1, <2>2, SeatsAlone
<1>4. Open(c)' = Open(c) => Told1
  BY DEF Books, WaitersKnown
<1>5. CASE UNCHANGED view
  BY <1>1, <1>4, <1>5, OtherBooks
<1>6. ASSUME NEW r \in Request, Asks(c, r) PROVE ViewOK(c)' /\ ClaimsOK(c)' /\ Told1
  <2>1. /\ view[c].sent \in Nat /\ accepted[c] \in Nat /\ Len(toServer[c]) \in Nat
    BY DEF Typed, ClientTypes, Views, TallyTypes, WireTypes
  <2>2. accepted[c] <= view[c].sent
    BY <2>1 DEF WireOK
  <2> HIDE DEF Told1
  <2> QED
    BY <1>1, <1>4, <1>6, <2>2, AsksBooks
<1>7. ASSUME NEW m \in Lines, NEW r \in Request, Hears(c, m, r)
      PROVE  ViewOK(c)' /\ ClaimsOK(c)' /\ Told1
  <2> HIDE DEF Told1
  <2> QED
    BY <1>1, <1>4, <1>7, HearsBooks
<1>8. ASSUME NEW m \in Lines, NEW r \in Request, Learns(c, m, r)
      PROVE  ViewOK(c)' /\ ClaimsOK(c)' /\ Told1
  <2> DEFINE n0 == Notice(Entry(r), OnlySeat(r))
  <2>1. /\ ViewOK(c)' /\ ClaimsOK(c)' /\ Open(c)' = Open(c) \ {r}
        /\ r \in Open(c) /\ n0 \in handed
    BY <1>1, <1>8, LearnsBooks
  <2>2. r.client = c
    BY <1>8, LearnedTrue DEF Books
  <2>3. n0.client = c /\ n0.request = r.id
    BY <2>2, EntryFacts
  <2> HIDE DEF n0
  <2>4. ASSUME NEW s \in Seat, NEW i \in DOMAIN waiting[s], waiting[s][i].client = c
        PROVE  \E q \in Open(c)' : q.id = waiting[s][i].request /\ OnlySeat(q) = s
    <3>1. PICK q \in Open(c) : q.id = waiting[s][i].request /\ OnlySeat(q) = s
      BY <2>4 DEF Books, WaitersKnown
    <3>2. waiting[s][i] # [client |-> n0.client, request |-> n0.request]
      BY <2>1 DEF Books, AnswersOnce
    <3>3. waiting[s][i] = [client |-> waiting[s][i].client, request |-> waiting[s][i].request]
      BY WaiterTypes DEF Entries
    <3>4. q # r
      BY <2>3, <2>4, <3>1, <3>2, <3>3
    <3> QED
      BY <2>1, <3>1, <3>4
  <2> QED
    BY <2>1, <2>4
<1> QED
  BY <1>5, <1>6, <1>7, <1>8, ClientMoves

(* So does a worker that hands its request to the seats. *)
LEMMA HandledBooks ==
  ASSUME Typed, RequestsInHand, Books, [ServerNext]_serverVars, NEW w \in Worker, HandleTask(w)
  PROVE  Books'
<1>1. PICK r \in Request : r = task[w]
  BY DEF HandleTask, Typed, HandTypes
<1>2. Handle(r) /\ UNCHANGED <<view, accepted>> /\ AtWork(w)
  BY <1>1 DEF HandleTask, clientVars, tallyVars, AtWork
<1>3. r.client \in Client /\ r \in view[r.client].pending /\ r.id <= accepted[r.client]
      /\ Unanswered(r)
  BY <1>1, <1>2, RequestFacts DEF RequestsInHand, Taken, InHand, Handle
<1>4. r \in Proper
  BY <1>3 DEF Typed, ClientTypes, Views
<1>5. \A st \in Status : answers' = answers \union {Reply(r, st)} => Decides(r, st)
  BY <1>2, <1>3, <1>4, Grows DEF Decides
<1>6. CASE Grant(r)
  BY <1>5, <1>6, GrantBooks DEF Grant, Status
<1>7. CASE Waitlist(r)
  BY <1>5, <1>7, WaitlistBooks DEF Waitlist, Status
<1>8. CASE Free(r)
  BY <1>5, <1>8, FreeBooks DEF Free, Status
<1>9. CASE HandOver(r)
  BY <1>5, <1>9, HandOverBooks DEF HandOver, Status
<1>10. CASE Refuse(r)
  BY <1>5, <1>10, RefuseBooks DEF Refuse, Status
<1> QED
  BY <1>2, <1>6, <1>7, <1>8, <1>9, <1>10 DEF Handle

LEMMA BooksStep ==
  ASSUME Typed, RequestsInHand, ResultsTrue, Books, \A c \in Client : WireOK(c),
         [ServerNext]_serverVars
  PROVE  Books'
<1>1. ASSUME UNCHANGED bookingVars, UNCHANGED view PROVE Books'
  <2>1. \A c \in Client : ViewOK(c)' /\ ClaimsOK(c)' /\ Open(c)' = Open(c)
    BY <1>1, OtherBooks
  <2> QED
    BY <1>1, <2>1, SeatsAlone DEF Books, WaitersKnown
<1>2. \/ UNCHANGED bookingVars /\ UNCHANGED view
      \/ \E c \in Client : ClientStep(c)
      \/ \E w \in Worker : HandleTask(w)
  BY Frames DEF Changes
<1> QED
  BY <1>1, <1>2, ClientBooks, HandledBooks

-----------------------------------------------------------------------------
(* Recorded answers *)

AnswerIds(c) == {a.request : a \in {b \in answers : b.client = c}}
OutIds(c) == {task[w].id : w \in {v \in Replying : task[v].client = c}}

(* A set of numbers up to n has at most n members.                         *)
LEMMA NumbersFacts ==
  ASSUME NEW n \in Nat, NEW S, S \subseteq 1..n
  PROVE  IsFiniteSet(S) /\ Cardinality(S) \in Nat /\ Cardinality(S) <= n
<1>1. IsFiniteSet(1..n) /\ Cardinality(1..n) = n
  <2>1. IsFiniteSet(1..n) /\ Cardinality(1..n) = IF 1 > n THEN 0 ELSE n - 1 + 1
    BY FS_Interval
  <2> QED
    BY <2>1
<1>2. S \in SUBSET (1..n)
  OBVIOUS
<1>3. IsFiniteSet(S) /\ Cardinality(S) <= Cardinality(1..n)
  BY <1>1, <1>2, FS_Subset
<1>4. Cardinality(S) \in Nat
  BY <1>3, FS_CardinalityType
<1> QED
  BY <1>1, <1>3, <1>4

LEMMA RecordedFacts ==
  ASSUME Typed, AnswersOnce, NEW c \in Client
  PROVE  /\ Recorded(c) = AnswerIds(c) \ OutIds(c)
         /\ AnswerIds(c) \subseteq 1..accepted[c] /\ accepted[c] \in Nat
         /\ IsFiniteSet(Recorded(c)) /\ Cardinality(Recorded(c)) \in Nat
         /\ Cardinality(Recorded(c)) <= accepted[c]
<1>1. Recorded(c) = AnswerIds(c) \ OutIds(c)
  BY DEF Recorded, AnswerIds, OutIds
<1>2. accepted[c] \in Nat
  BY DEF Typed, TallyTypes
<1>3. AnswerIds(c) \subseteq 1..accepted[c]
  BY <1>2 DEF AnswerIds, AnswersOnce, Typed, BookingTypes, Replies
<1>5. Recorded(c) \subseteq 1..accepted[c]
  BY <1>1, <1>3
<1> QED
  BY <1>1, <1>2, <1>3, <1>5, NumbersFacts

LEMMA RecordedNext ==
  ASSUME Typed', AnswersOnce', NEW c \in Client
  PROVE  IsFiniteSet(Recorded(c)') /\ Cardinality(Recorded(c)') \in Nat
<1>1. accepted'[c] \in Nat
  BY DEF Typed, TallyTypes
<1>2. AnswerIds(c)' \subseteq 1..accepted'[c]
  BY <1>1 DEF AnswerIds, AnswersOnce, Typed, BookingTypes, Replies
<1>3. Recorded(c)' \subseteq 1..accepted'[c]
  BY <1>2 DEF Recorded, AnswerIds
<1> QED
  BY <1>1, <1>3, NumbersFacts

LEMMA CountKept ==
  ASSUME Typed, Books, NEW c \in Client, CountOK(c), Typed', Books', responses'[c] = responses[c],
         Recorded(c) \subseteq Recorded(c)',
         \A w, v \in Replying' : w # v => task'[w].client # task'[v].client \/ task'[w].id # task'[v].id
  PROVE  CountOK(c)'
<1>1. IsFiniteSet(Recorded(c)') /\ Cardinality(Recorded(c)') \in Nat /\ Cardinality(Recorded(c)) \in Nat
  BY RecordedFacts, RecordedNext DEF Books
<1>2. Cardinality(Recorded(c)) <= Cardinality(Recorded(c)')
  BY <1>1, FS_Subset
<1>3. responses[c] \in Nat
  BY DEF Typed, TallyTypes
<1> QED
  BY <1>1, <1>2, <1>3 DEF CountOK

LEMMA CountStep ==
  ASSUME Typed, RequestsInHand, ResultsTrue, Books, \A c \in Client : WireOK(c) /\ CountOK(c),
         [ServerNext]_serverVars
  PROVE  \A c \in Client : CountOK(c)'
<1> SUFFICES ASSUME NEW c \in Client PROVE CountOK(c)'
  OBVIOUS
<1> DEFINE Apart(v, w) == task[w].client # task[v].client \/ task[w].id # task[v].id
<1>0. Typed' /\ Books'
  BY TypedStep, BooksStep
<1>1. CountOK(c) /\ \A w, v \in Replying : w # v => Apart(v, w)
  BY DEF CountOK
<1>2. ASSUME NEW w \in Worker, HandleTask(w) PROVE CountOK(c)'
  <2>1. PICK r \in Request : r = task[w]
    BY <1>2 DEF HandleTask, Typed, HandTypes
  <2>2. PICK st \in Status : answers' = answers \union {Reply(r, st)}
    BY <1>2, <2>1 DEF HandleTask
  <2>3. UNCHANGED <<task, responses>> /\ Unanswered(r)
    BY <1>2, <2>1 DEF HandleTask, tallyVars, Handle
  <2>4. Replying' = Replying \union {w} /\ w \notin Replying
    <3>1. pc' = [pc EXCEPT ![w] = IF handed' = handed THEN "send" ELSE "submit"] /\ pc[w] = "handle"
      BY <1>2 DEF HandleTask, Goes
    <3>2. w \in Thread /\ Worker \subseteq Thread /\ DOMAIN pc = Thread
      BY DEF Thread, Typed, PcTypes
    <3> QED
      BY <3>1, <3>2 DEF Replying
  <2>5. \A v \in Replying : Reply(task[v], reply[v]) \in answers
    BY DEF ResultsTrue
  <2>6. \A v \in Replying : task[v].client # r.client \/ task[v].id # r.id
    BY <2>3, <2>5, ReplyFacts DEF Unanswered
  <2>7. \A u, v \in Replying' : u # v => task'[u].client # task'[v].client \/ task'[u].id # task'[v].id
    BY <1>1, <2>1, <2>3, <2>4, <2>6
  <2>8. AnswerIds(c)' = AnswerIds(c) \union {i \in {r.id} : r.client = c}
    BY <2>2, ReplyFacts DEF AnswerIds
  <2>9. OutIds(c)' = OutIds(c) \union {i \in {r.id} : r.client = c}
    BY <2>1, <2>3, <2>4 DEF OutIds
  <2>10. r.client = c => r.id \notin AnswerIds(c)
    BY <2>3 DEF Unanswered, AnswerIds
  <2>11. Recorded(c) \subseteq Recorded(c)'
    BY <2>8, <2>9, <2>10 DEF Recorded, AnswerIds, OutIds
  <2> QED
    BY <1>0, <1>1, <2>3, <2>7, <2>11, CountKept
<1>3. ASSUME NEW w \in Worker, RecordResponse(w) PROVE CountOK(c)'
  <2>1. PICK r \in Request : r = task[w]
    BY <1>3 DEF RecordResponse, Typed, HandTypes, Replying
  <2>2. /\ answers' = answers /\ w \in Replying /\ task' = [task EXCEPT ![w] = NoTask]
        /\ DOMAIN task = Thread /\ w \in Thread
    BY <1>3 DEF RecordResponse, bookingVars, Replying, Thread, Typed, HandTypes
  <2>4. w \notin Replying'
    <3>1. pc' = [pc EXCEPT ![w] = pc'[w]] /\ pc'[w] \in {"ended", "report", "stop", "take"}
      BY <1>3, <2>2 DEF RecordResponse, Fail, Goes, Typed, PcTypes
    <3> QED
      BY <3>1 DEF Replying
  <2>5. Replying' = Replying \ {w}
    <3>1. \A v \in Worker : v # w => pc'[v] = pc[v]
      BY <1>3, <2>2 DEF RecordResponse, Fail, Goes, Typed, PcTypes, Thread
    <3> QED
      BY <2>2, <2>4, <3>1 DEF Replying
  <2>6. \A v \in Replying' : task'[v] = task[v] /\ v \in Replying /\ v # w
    BY <2>2, <2>5 DEF Replying, Thread
  <2>7. \A u, v \in Replying' : u # v => task'[u].client # task'[v].client \/ task'[u].id # task'[v].id
    BY <1>1, <2>6
  <2>8. AnswerIds(c)' = AnswerIds(c)
    BY <2>2 DEF AnswerIds
  <2>9. OutIds(c)' \subseteq OutIds(c)
    BY <2>6 DEF OutIds
  <2>10. CASE r.client # c
    <3>1. responses'[c] = responses[c]
      BY <1>3, <2>1, <2>10 DEF RecordResponse, Typed, TallyTypes
    <3>2. Recorded(c) \subseteq Recorded(c)'
      BY <2>8, <2>9 DEF Recorded, AnswerIds, OutIds
    <3> QED
      BY <1>0, <1>1, <2>7, <3>1, <3>2, CountKept
  <2>11. CASE r.client = c
    <3>1. Reply(r, reply[w]) \in answers
      BY <2>1, <2>2 DEF ResultsTrue
    <3>2. r.id \in AnswerIds(c)
      BY <2>11, <3>1, ReplyFacts DEF AnswerIds
    <3>3. r.id \in OutIds(c)
      BY <2>1, <2>2, <2>11 DEF OutIds
    <3>4. r.id \notin OutIds(c)'
      BY <1>1, <2>1, <2>2, <2>6, <2>11 DEF OutIds
    <3>5. Recorded(c) = AnswerIds(c) \ OutIds(c) /\ Recorded(c)' = AnswerIds(c)' \ OutIds(c)'
      BY DEF Recorded, AnswerIds, OutIds
    <3>6. Recorded(c) \union {r.id} \subseteq Recorded(c)' /\ r.id \notin Recorded(c)
      BY <2>8, <2>9, <3>2, <3>3, <3>4, <3>5
    <3>7. /\ IsFiniteSet(Recorded(c)') /\ Cardinality(Recorded(c)') \in Nat
          /\ IsFiniteSet(Recorded(c)) /\ Cardinality(Recorded(c)) \in Nat
      BY <1>0, RecordedFacts, RecordedNext DEF Books
    <3>8. Cardinality(Recorded(c) \union {r.id}) = Cardinality(Recorded(c)) + 1
      BY <3>6, <3>7, OneMore
    <3>9. Cardinality(Recorded(c) \union {r.id}) <= Cardinality(Recorded(c)')
      BY <3>6, <3>7, FS_Subset
    <3>10. /\ responses'[c] = responses[c] \/ (responses'[c] = responses[c] + 1 /\ responses[c] < RequestsPerClient)
           /\ responses[c] \in Nat
      BY <1>3, <2>1, <2>11 DEF RecordResponse, Typed, TallyTypes
    <3>11. responses[c] <= Cardinality(Recorded(c)) /\ responses[c] <= RequestsPerClient
      BY <1>1 DEF CountOK
    <3>12. responses'[c] <= Cardinality(Recorded(c)') /\ responses'[c] <= RequestsPerClient
      BY <3>7, <3>8, <3>9, <3>10, <3>11
    <3> QED
      BY <2>7, <3>12 DEF CountOK
  <2> QED
    BY <2>10, <2>11
<1>4. ASSUME \A w \in Worker : ~HandleTask(w) /\ ~RecordResponse(w) PROVE CountOK(c)'
  <2>1. answers' = answers /\ responses' = responses
    BY <1>4, Frames DEF Changes, bookingVars
  <2>2. \A v \in Replying' : v \in Replying /\ task'[v] = task[v] /\ v \in Worker
    BY <1>4, WorkersLive DEF WorkerLife, AtWork, Replying
  <2>3. \A u, v \in Replying' : u # v => task'[u].client # task'[v].client \/ task'[u].id # task'[v].id
    BY <1>1, <2>2
  <2>4. AnswerIds(c)' = AnswerIds(c) /\ OutIds(c)' \subseteq OutIds(c)
    BY <2>1, <2>2 DEF AnswerIds, OutIds
  <2>5. Recorded(c) \subseteq Recorded(c)'
    BY <2>4 DEF Recorded, AnswerIds, OutIds
  <2> QED
    BY <1>0, <1>1, <2>1, <2>3, <2>5, CountKept
<1> QED
  BY <1>2, <1>3, <1>4

(* The first inductive invariant. *)
LEMMA BooksInit == ServerInit => BooksInv
<1> SUFFICES ASSUME ServerInit PROVE BooksInv
  OBVIOUS
<1>1. Typed
  BY TypedInit
<1>2. /\ answers = {} /\ handed = {} /\ owner = [s \in Seat |-> Nobody] /\ queue = <<>> /\ notices = <<>>
      /\ waiting = [s \in Seat |-> <<>>] /\ registered = {} /\ accepted = [c \in Client |-> 0]
      /\ responses = [c \in Client |-> 0] /\ phase = [c \in Client |-> "new"]
      /\ toServer = [c \in Client |-> <<>>] /\ toClient = [c \in Client |-> <<>>]
      /\ notice = [w \in Worker |-> {}]
  BY DEF ServerInit, BookingInit
<1>3. \A c \in Client : /\ view[c].held = {} /\ view[c].pending = {} /\ view[c].early = {}
                        /\ view[c].waits = {} /\ view[c].sent = 0 /\ view[c].answered = 0
  BY DEF ServerInit
<1>4. Replying = {} /\ (\A w \in Worker : ~AtWork(w)) /\ ~Holding /\ ~Carrying
  BY DEF ServerInit, Replying, AtWork, Holding, Carrying, Thread, Main
<1>5. \A c \in Client : WireOK(c)
  BY <1>2, <1>3 DEF WireOK
<1>6. RequestsInHand /\ ResultsTrue
  BY <1>2, <1>4 DEF RequestsInHand, ResultsTrue
<1>7. AnswersOnce /\ SeatsFair /\ WaitersKnown
  BY <1>2 DEF AnswersOnce, SeatsFair, WaitersKnown
<1>8. ASSUME NEW c \in Client PROVE ViewOK(c) /\ ClaimsOK(c) /\ CountOK(c)
  <2>1. Asked(c) = {} /\ Open(c) = {} /\ Won(c) = {} /\ GivenUp(c) = {}
    BY <1>3 DEF Asked, Open, Won, GivenUp
  <2>2. ViewOK(c)
    <3>1. IsFiniteSet({}) /\ 0 + Cardinality({}) = 0
      BY FS_EmptySet
    <3>2. Asked(c) = {} /\ view[c].waits = {} /\ view[c].early = {} /\ view[c].pending = {}
          /\ view[c].sent = 0 /\ view[c].answered = 0
      BY <1>3, <2>1
    <3> QED
      BY <3>1, <3>2 DEF ViewOK
  <2>3. ClaimsOK(c)
    BY <1>2, <1>3, <2>1 DEF ClaimsOK, HeldOK, CancelsOK, WonOK, OpenOK, OwnedOK
  <2>4. CountOK(c)
    <3>1. Cardinality(Recorded(c)) \in Nat
      BY <1>1, <1>7, RecordedFacts
    <3> QED
      BY <1>2, <1>4, <3>1 DEF CountOK
  <2> QED
    BY <2>2, <2>3, <2>4
<1> QED
  BY <1>1, <1>5, <1>6, <1>7, <1>8 DEF BooksInv, Books

LEMMA BooksInvStep == BooksInv /\ [ServerNext]_serverVars => BooksInv'
<1> SUFFICES ASSUME BooksInv, [ServerNext]_serverVars PROVE BooksInv'
  OBVIOUS
<1>1. /\ Typed /\ RequestsInHand /\ ResultsTrue /\ Books
      /\ (\A c \in Client : WireOK(c) /\ CountOK(c)) /\ \A c \in Client : ViewOK(c) /\ WireOK(c)
  BY DEF BooksInv, Books
<1>2. Typed' /\ (\A c \in Client : WireOK(c)')
  BY <1>1, TypedStep, WireStep
<1>3. ResultsTrue' /\ RequestsInHand'
  BY <1>1, ResultsStep, InHandStep
<1>4. Books' /\ \A c \in Client : CountOK(c)'
  BY <1>1, BooksStep, CountStep
<1> QED
  BY <1>2, <1>3, <1>4 DEF BooksInv

LEMMA BooksKept == ServerSpec => []BooksInv
BY BooksInit, BooksInvStep, PTL DEF ServerSpec

(* ServerTypeOK: every variable keeps its type; no queue outgrows its      *)
(* bound; main accepts no request that was not sent and the workers record *)
(* no more first responses than there are accepted requests.               *)
THEOREM ServerTyping == ServerSpec => []ServerTypeOK
<1>1. BooksInv => ServerTypeOK
  <2> SUFFICES ASSUME BooksInv PROVE ServerTypeOK
    OBVIOUS
  <2>0. Typed /\ Books /\ \A c \in Client : WireOK(c) /\ CountOK(c) /\ ViewOK(c)
    BY DEF BooksInv, Books
  <2>1. ASSUME NEW c \in Client
        PROVE  /\ view[c].held \subseteq Seat /\ view[c].pending \subseteq Request
               /\ view[c].waits \subseteq Request /\ view[c].early \subseteq 1..MaxId
               /\ view[c].sent \in 0..RequestsPerClient /\ view[c].answered \in 0..view[c].sent
               /\ accepted[c] \in 0..view[c].sent /\ responses[c] \in 0..accepted[c]
               /\ Len(toServer[c]) <= SocketRoom /\ Len(toClient[c]) <= SocketRoom
    <3>1. view[c] \in Views
      BY <2>0 DEF Typed, ClientTypes
    <3>2. /\ view[c].held \subseteq Seat /\ view[c].pending \subseteq Request
          /\ view[c].waits \subseteq Request /\ view[c].early \subseteq 1..MaxId
          /\ view[c].sent \in 0..RequestsPerClient /\ view[c].answered \in Nat
      BY <3>1, ViewTypes DEF Proper
    <3>3. /\ accepted[c] \in Nat /\ responses[c] \in Nat /\ Len(toServer[c]) \in Nat
          /\ Len(toServer[c]) <= SocketRoom /\ Len(toClient[c]) <= SocketRoom
      BY <2>0 DEF Typed, TallyTypes, WireTypes
    <3>4. accepted[c] <= view[c].sent
      BY <2>0, <3>2, <3>3 DEF WireOK
    <3>5. responses[c] <= accepted[c]
      <4>1. /\ Cardinality(Recorded(c)) <= accepted[c] /\ Cardinality(Recorded(c)) \in Nat
        BY <2>0, RecordedFacts DEF Books
      <4> QED
        BY <2>0, <3>3, <4>1 DEF CountOK
    <3>6. view[c].answered <= view[c].sent
      <4>1. IsFiniteSet(view[c].pending) /\ view[c].answered + Cardinality(view[c].pending) = view[c].sent
        BY <2>0 DEF ViewOK
      <4>2. Cardinality(view[c].pending) \in Nat
        BY <4>1, FS_CardinalityType
      <4> QED
        BY <3>2, <4>1, <4>2
    <3> QED
      BY <3>2, <3>3, <3>4, <3>5, <3>6
  <2>2. pc \in [Thread -> {"listen", "put", "leave", "shutdown", "joinWorkers", "joinNotifier",
                        "bye", "stopMonitor", "joinMonitor", "close", "take", "asleep", "handle",
                        "submit", "send", "record", "stop", "count", "watch", "report", "ended"}]
    BY <2>0 DEF Typed, PcTypes, MainAt, WorkerAt, NotifierAt, MonitorAt
  <2>3. /\ phase \in [Client -> {"new", "up", "done", "failed"}]
        /\ reply \in [Worker -> Status \union {None}] /\ notice \in [Worker -> SUBSET Notices]
        /\ queue \in Seq(Request) /\ Len(queue) <= Capacity
        /\ notices \in Seq(Notices) /\ notifyCount \in Nat
        /\ registered \subseteq Client /\ closed \subseteq Client /\ farewells \subseteq registered
        /\ inputStopped \in BOOLEAN /\ noticesFinished \in BOOLEAN /\ noticesAborted \in BOOLEAN
        /\ monitorStopping \in BOOLEAN /\ interrupted \subseteq Thread
        /\ reporter \in Thread \union {None} /\ faults \in 0..MaxFaults
    BY <2>0 DEF Typed, ClientTypes, HandTypes, QueueTypes, TallyTypes, ReporterTypes, Thread
  <2> QED
    BY <2>1, <2>2, <2>3 DEF ServerTypeOK
<1> QED
  BY <1>1, BooksKept, PTL

(* HeldIsOwned: a client never believes it holds a seat it does not own,   *)
(* unless a cancellation of that seat of its own is unanswered, however    *)
(* responses and notices overtake each other and whatever fails.           *)
THEOREM HeldSeatsOwned == ServerSpec => []HeldIsOwned
<1>1. BooksInv => HeldIsOwned
  <2> SUFFICES ASSUME BooksInv, NEW c \in Client, NEW s \in view[c].held, owner[s] # c
               PROVE  \E r \in view[c].pending : r.command = "CANCEL" /\ s \in SeatsOf(r)
    BY DEF HeldIsOwned
  <2>1. PICK p \in GivenUp(c) : OnlySeat(p) = s
    BY DEF BooksInv, Books, ClaimsOK, HeldOK
  <2>2. p \in view[c].pending /\ p.command = "CANCEL"
    BY DEF GivenUp
  <2>3. s \in SeatsOf(p)
    BY <2>1, <2>2, CancelFacts DEF BooksInv
  <2> QED
    BY <2>2, <2>3
<1> QED
  BY <1>1, BooksKept, PTL

-----------------------------------------------------------------------------
(* The end of a run *)

(* Where main is, or will be once it has reported a failure.               *)
MainNext == IF pc[Main] = "report" THEN after ELSE pc[Main]
Joined == {"bye", "stopMonitor", "joinMonitor", "close", "ended"}

(* BYE is being sent; nothing has failed, or it has been sent.             *)
Closing == pc[Main] = "bye" \/ farewells # {}
Fine == reporter = None \/ Closing

(* How main comes to the end, and that a report is not taken back.         *)
EndMoves ==
  /\ MainNext' \in Joined => MainNext \in Joined \/ JoinNotifier
  /\ MainNext' \in Joined \union {"joinNotifier"} =>
       MainNext \in Joined \union {"joinNotifier"} \/ JoinWorkers
  /\ MainNext \in Joined => MainNext' \in Joined
  /\ farewells' # farewells => MainNext \in Joined
  /\ pc'[Main] = "bye" => pc[Main] = "bye" \/ (JoinNotifier /\ reporter = None)
  /\ reporter # None => reporter' = reporter

(* In every step the end comes as above. *)
LEMMA EndsMove ==
  ASSUME Typed, [ServerNext]_serverVars
  PROVE  EndMoves
<1> USE DEF Typed, PcTypes, Thread, Main, ReporterTypes, MainNext, Joined, EndMoves,
        clientVars, wireVars, callVars, inputVars, tallyVars, noticeVars, failVars, endVars
<1>1. ASSUME NEW c \in Client, ClientStep(c) PROVE EndMoves
  BY <1>1 DEF ClientStep
<1>2. ASSUME NEW c \in Client, ReadHello(c) PROVE EndMoves
  BY <1>2 DEF ReadHello, RefuseLine, Fail, Goes
<1>3. ASSUME NEW c \in Client, ReadRequest(c) PROVE EndMoves
  BY <1>3 DEF ReadRequest, RefuseLine, Fail, Goes
<1>4. ASSUME NEW c \in Client, ReadEnd(c) PROVE EndMoves
  BY <1>4 DEF ReadEnd, Fail, Goes
<1>5. ASSUME NEW c \in Client, SayBye(c) PROVE EndMoves
  BY <1>5 DEF SayBye, Deliver, Fail, Goes
<1>6. ASSUME NEW w \in Worker, TakeTask(w) PROVE EndMoves
  BY <1>6 DEF TakeTask
<1>7. ASSUME NEW w \in Worker, WorkerAborted(w) PROVE EndMoves
  BY <1>7 DEF WorkerAborted, Goes
<1>8. ASSUME NEW w \in Worker, HandleTask(w) PROVE EndMoves
  BY <1>8 DEF HandleTask, Goes
<1>9. ASSUME NEW w \in Worker, SubmitNotice(w) PROVE EndMoves
  BY <1>9 DEF SubmitNotice, Fail, Goes, WakeNotifier
<1>10. ASSUME NEW w \in Worker, SendResponse(w) PROVE EndMoves
  BY <1>10 DEF SendResponse, Deliver, Fail, Goes
<1>11. ASSUME NEW w \in Worker, RecordResponse(w) PROVE EndMoves
  BY <1>11 DEF RecordResponse, Fail, Goes
<1>12. ASSUME NEW w \in Worker, StopAfterLast(w) PROVE EndMoves
  BY <1>12 DEF StopAfterLast, StopInput, WakeAll
<1>13. ASSUME NEW t \in Thread, ReportFailure(t) PROVE EndMoves
  BY <1>13 DEF ReportFailure, StopInput, WakeAll, WakeNotifier
<1>14. CASE Put
  BY <1>14 DEF Put, RefuseLine, Fail, Goes, WakeWorker
<1>15. CASE StopListening
  BY <1>15 DEF StopListening, Goes
<1>16. CASE LeaveListener
  BY <1>16 DEF LeaveListener, Fail, Goes
<1>17. CASE Shutdown
  BY <1>17 DEF Shutdown, StopInput, WakeAll
<1>18. CASE JoinWorkers
  BY <1>18 DEF JoinWorkers, WakeNotifier
<1>19. CASE JoinNotifier
  BY <1>19 DEF JoinNotifier, Fail, Goes
<1>20. CASE StopMonitor
  BY <1>20 DEF StopMonitor, Goes
<1>21. CASE JoinMonitor
  BY <1>21 DEF JoinMonitor, Fail, Goes
<1>22. CASE CloseConnections
  BY <1>22 DEF CloseConnections, Goes
<1>23. CASE TakeNotice
  BY <1>23 DEF TakeNotice, Goes
<1>24. CASE SendNotice
  BY <1>24 DEF SendNotice, Deliver, Fail, Goes
<1>25. CASE CountNotice
  BY <1>25 DEF CountNotice, Goes
<1>26. CASE MonitorEnds
  BY <1>26 DEF MonitorEnds, Goes
<1>27. CASE Fault
  BY <1>27 DEF Fault, Fail, Goes, ClientFails
<1>28. CASE UNCHANGED serverVars
  BY <1>28 DEF serverVars
<1> HIDE DEF Typed, PcTypes, Thread, Main, ReporterTypes, MainNext, Joined, EndMoves
<1> QED
  BY <1>1, <1>2, <1>3, <1>4, <1>5, <1>6, <1>7, <1>8, <1>9, <1>10, <1>11, <1>12, <1>13,
     <1>14, <1>15, <1>16, <1>17, <1>18, <1>19, <1>20, <1>21, <1>22, <1>23, <1>24, <1>25,
     <1>26, <1>27, <1>28, Steps

(* What the notifier does, and who makes it end.                           *)
NoticeMoves ==
  /\ (pc["notifier"] = "send")' => pc["notifier"] = "send" \/ TakeNotice
  /\ pc["notifier"] = "send" => pc'["notifier"] = "send" \/ SendNotice
  /\ pc'["notifier"] = "ended" =>
       \/ pc["notifier"] = "ended" \/ reporter' # None
       \/ TakeNotice /\ (noticesAborted \/ (notices = <<>> /\ noticesFinished))
  /\ noticesAborted' \/ interrupted' # {} => noticesAborted \/ interrupted # {} \/ reporter # None
  /\ noticesFinished' =>
       noticesFinished \/ reporter # None \/ \A w \in Worker : pc[w] = "ended"
  /\ noticesFinished => noticesFinished'

(* In every step the notifier moves as above. *)
LEMMA NoticesMove ==
  ASSUME Typed, [ServerNext]_serverVars
  PROVE  NoticeMoves
<1> USE DEF Typed, PcTypes, Thread, Main, ReporterTypes, NoticeMoves, WorkerAt, NotifierAt,
        clientVars, wireVars, callVars, inputVars, tallyVars, noticeVars, failVars, endVars
<1>1. ASSUME NEW c \in Client, ClientStep(c) PROVE NoticeMoves
  BY <1>1 DEF ClientStep
<1>2. ASSUME NEW c \in Client, ReadHello(c) PROVE NoticeMoves
  BY <1>2 DEF ReadHello, RefuseLine, Fail, Goes
<1>3. ASSUME NEW c \in Client, ReadRequest(c) PROVE NoticeMoves
  BY <1>3 DEF ReadRequest, RefuseLine, Fail, Goes
<1>4. ASSUME NEW c \in Client, ReadEnd(c) PROVE NoticeMoves
  BY <1>4 DEF ReadEnd, Fail, Goes
<1>5. ASSUME NEW c \in Client, SayBye(c) PROVE NoticeMoves
  BY <1>5 DEF SayBye, Deliver, Fail, Goes
<1>6. ASSUME NEW w \in Worker, TakeTask(w) PROVE NoticeMoves
  BY <1>6 DEF TakeTask
<1>7. ASSUME NEW w \in Worker, WorkerAborted(w) PROVE NoticeMoves
  BY <1>7 DEF WorkerAborted, Goes
<1>8. ASSUME NEW w \in Worker, HandleTask(w) PROVE NoticeMoves
  BY <1>8 DEF HandleTask, Goes
<1>9. ASSUME NEW w \in Worker, SubmitNotice(w) PROVE NoticeMoves
  BY <1>9 DEF SubmitNotice, Fail, Goes, WakeNotifier
<1>10. ASSUME NEW w \in Worker, SendResponse(w) PROVE NoticeMoves
  BY <1>10 DEF SendResponse, Deliver, Fail, Goes
<1>11. ASSUME NEW w \in Worker, RecordResponse(w) PROVE NoticeMoves
  BY <1>11 DEF RecordResponse, Fail, Goes
<1>12. ASSUME NEW w \in Worker, StopAfterLast(w) PROVE NoticeMoves
  BY <1>12 DEF StopAfterLast, StopInput, WakeAll
<1>13. ASSUME NEW t \in Thread, ReportFailure(t) PROVE NoticeMoves
  BY <1>13 DEF ReportFailure, StopInput, WakeAll, WakeNotifier
<1>14. CASE Put
  BY <1>14 DEF Put, RefuseLine, Fail, Goes, WakeWorker
<1>15. CASE StopListening
  BY <1>15 DEF StopListening, Goes
<1>16. CASE LeaveListener
  BY <1>16 DEF LeaveListener, Fail, Goes
<1>17. CASE Shutdown
  BY <1>17 DEF Shutdown, StopInput, WakeAll
<1>18. CASE JoinWorkers
  BY <1>18 DEF JoinWorkers, WakeNotifier
<1>19. CASE JoinNotifier
  BY <1>19 DEF JoinNotifier, Fail, Goes
<1>20. CASE StopMonitor
  BY <1>20 DEF StopMonitor, Goes
<1>21. CASE JoinMonitor
  BY <1>21 DEF JoinMonitor, Fail, Goes
<1>22. CASE CloseConnections
  BY <1>22 DEF CloseConnections, Goes
<1>23. CASE TakeNotice
  BY <1>23 DEF TakeNotice, Goes
<1>24. CASE SendNotice
  BY <1>24 DEF SendNotice, Deliver, Fail, Goes
<1>25. CASE CountNotice
  BY <1>25 DEF CountNotice, Goes
<1>26. CASE MonitorEnds
  BY <1>26 DEF MonitorEnds, Goes
<1>27. CASE Fault
  BY <1>27 DEF Fault, Fail, Goes, ClientFails
<1>28. CASE UNCHANGED serverVars
  BY <1>28 DEF serverVars
<1> HIDE DEF Typed, PcTypes, Thread, Main, ReporterTypes, NoticeMoves, WorkerAt, NotifierAt
<1> QED
  BY <1>1, <1>2, <1>3, <1>4, <1>5, <1>6, <1>7, <1>8, <1>9, <1>10, <1>11, <1>12, <1>13,
     <1>14, <1>15, <1>16, <1>17, <1>18, <1>19, <1>20, <1>21, <1>22, <1>23, <1>24, <1>25,
     <1>26, <1>27, <1>28, Steps

(* A worker goes on from where it has a notice to submit, or a response to *)
(* send, only by doing so.                                                 *)
SendMoves ==
  \A v \in Worker : /\ pc[v] = "submit" => pc'[v] = "submit" \/ SubmitNotice(v)
                    /\ pc[v] = "send" => pc'[v] = "send" \/ SendResponse(v)
                    /\ pc[v] = "record" => pc'[v] = "record" \/ RecordResponse(v)
                    /\ pc'[v] = "send" => pc[v] = "send" \/ HandleTask(v) \/ SubmitNotice(v)
                    /\ pc'[v] = "submit" => pc[v] = "submit" \/ HandleTask(v)
                    /\ pc'[v] = "record" => pc[v] = "record" \/ SendResponse(v)
                    /\ pc'[v] = "handle" => pc[v] = "handle" \/ TakeTask(v)
                    /\ pc'[v] = "stop" => pc[v] = "stop" \/ RecordResponse(v)

(* In every step the workers send as above. *)
LEMMA SendsMove ==
  ASSUME Typed, [ServerNext]_serverVars
  PROVE  SendMoves
<1> USE DEF Typed, PcTypes, Thread, Main, ReporterTypes, SendMoves,
        clientVars, wireVars, callVars, inputVars, tallyVars, noticeVars, failVars, endVars
<1>1. ASSUME NEW c \in Client, ClientStep(c) PROVE SendMoves
  BY <1>1 DEF ClientStep
<1>2. ASSUME NEW c \in Client, ReadHello(c) PROVE SendMoves
  BY <1>2 DEF ReadHello, RefuseLine, Fail, Goes
<1>3. ASSUME NEW c \in Client, ReadRequest(c) PROVE SendMoves
  BY <1>3 DEF ReadRequest, RefuseLine, Fail, Goes
<1>4. ASSUME NEW c \in Client, ReadEnd(c) PROVE SendMoves
  BY <1>4 DEF ReadEnd, Fail, Goes
<1>5. ASSUME NEW c \in Client, SayBye(c) PROVE SendMoves
  BY <1>5 DEF SayBye, Deliver, Fail, Goes
<1>6. ASSUME NEW w \in Worker, TakeTask(w) PROVE SendMoves
  BY <1>6 DEF TakeTask
<1>7. ASSUME NEW w \in Worker, WorkerAborted(w) PROVE SendMoves
  BY <1>7 DEF WorkerAborted, Goes
<1>8. ASSUME NEW w \in Worker, HandleTask(w) PROVE SendMoves
  BY <1>8 DEF HandleTask, Goes
<1>9. ASSUME NEW w \in Worker, SubmitNotice(w) PROVE SendMoves
  <2>1. /\ pc[w] = "submit" /\ pc'[w] \in {"send", "report", "ended"}
        /\ \A v \in Worker : v # w => pc'[v] = pc[v]
    BY <1>9 DEF SubmitNotice, Fail, Goes, WakeNotifier
  <2> QED
    BY <1>9, <2>1
<1>10. ASSUME NEW w \in Worker, SendResponse(w) PROVE SendMoves
  BY <1>10 DEF SendResponse, Deliver, Fail, Goes
<1>11. ASSUME NEW w \in Worker, RecordResponse(w) PROVE SendMoves
  <2>1. /\ pc[w] = "record" /\ pc'[w] \in {"take", "stop", "report", "ended"}
        /\ \A v \in Worker : v # w => pc'[v] = pc[v]
    BY <1>11 DEF RecordResponse, Fail, Goes
  <2> QED
    BY <1>11, <2>1
<1>12. ASSUME NEW w \in Worker, StopAfterLast(w) PROVE SendMoves
  BY <1>12 DEF StopAfterLast, StopInput, WakeAll
<1>13. ASSUME NEW t \in Thread, ReportFailure(t) PROVE SendMoves
  BY <1>13 DEF ReportFailure, StopInput, WakeAll, WakeNotifier
<1>14. CASE Put
  BY <1>14 DEF Put, RefuseLine, Fail, Goes, WakeWorker
<1>15. CASE StopListening
  BY <1>15 DEF StopListening, Goes
<1>16. CASE LeaveListener
  BY <1>16 DEF LeaveListener, Fail, Goes
<1>17. CASE Shutdown
  BY <1>17 DEF Shutdown, StopInput, WakeAll
<1>18. CASE JoinWorkers
  BY <1>18 DEF JoinWorkers, WakeNotifier
<1>19. CASE JoinNotifier
  BY <1>19 DEF JoinNotifier, Fail, Goes
<1>20. CASE StopMonitor
  BY <1>20 DEF StopMonitor, Goes
<1>21. CASE JoinMonitor
  BY <1>21 DEF JoinMonitor, Fail, Goes
<1>22. CASE CloseConnections
  BY <1>22 DEF CloseConnections, Goes
<1>23. CASE TakeNotice
  BY <1>23 DEF TakeNotice, Goes
<1>24. CASE SendNotice
  BY <1>24 DEF SendNotice, Deliver, Fail, Goes
<1>25. CASE CountNotice
  BY <1>25 DEF CountNotice, Goes
<1>26. CASE MonitorEnds
  BY <1>26 DEF MonitorEnds, Goes
<1>27. CASE Fault
  BY <1>27 DEF Fault, Fail, Goes, ClientFails
<1>28. CASE UNCHANGED serverVars
  BY <1>28 DEF serverVars
<1> HIDE DEF Typed, PcTypes, Thread, Main, ReporterTypes, SendMoves
<1> QED
  BY <1>1, <1>2, <1>3, <1>4, <1>5, <1>6, <1>7, <1>8, <1>9, <1>10, <1>11, <1>12, <1>13,
     <1>14, <1>15, <1>16, <1>17, <1>18, <1>19, <1>20, <1>21, <1>22, <1>23, <1>24, <1>25,
     <1>26, <1>27, <1>28, Steps

(* Main closes when all workers and the notifier have ended, in this       *)
(* order, and the notifier ends well only when no notice is left.          *)
ThreadsJoined ==
  /\ MainNext \in Joined \union {"joinNotifier"} => \A w \in Worker : pc[w] = "ended"
  /\ MainNext \in Joined => pc["notifier"] = "ended"
  /\ farewells # {} => MainNext \in Joined
  /\ \A w \in Worker : notice[w] # {} => pc[w] = "submit"
  /\ \A w \in Worker : \A n, p \in notice[w] : n = p
  /\ noticesAborted \/ interrupted # {} => reporter # None
  /\ reporter = None /\ noticesFinished => \A w \in Worker : pc[w] = "ended"
  /\ reporter = None /\ pc["notifier"] = "ended" => noticesFinished /\ notices = <<>>
  /\ Closing => notices = <<>>

(* What a worker has to submit: the notices of one HandOver.               *)
LEMMA NoticeInHand ==
  ASSUME Typed, ThreadsJoined, [ServerNext]_serverVars, NEW w \in Worker
  PROVE  /\ notice'[w] # {} => pc'[w] = "submit"
         /\ \A n, p \in notice'[w] : n = p
<1>0. notice \in [Worker -> SUBSET Notices] /\ DOMAIN pc = Thread /\ Worker \subseteq Thread
  BY DEF Typed, HandTypes, PcTypes, Thread
<1>1. ASSUME notice'[w] = {} PROVE /\ notice'[w] # {} => pc'[w] = "submit"
                                   /\ \A n, p \in notice'[w] : n = p
  BY <1>1
<1>2. ASSUME NEW v \in Worker, HandleTask(v) PROVE /\ notice'[w] # {} => pc'[w] = "submit"
                                                   /\ \A n, p \in notice'[w] : n = p
  <2>1. /\ notice' = [notice EXCEPT ![v] = handed' \ handed]
        /\ pc' = [pc EXCEPT ![v] = IF handed' = handed THEN "send" ELSE "submit"]
        /\ pc[v] = "handle"
    BY <1>2 DEF HandleTask, Goes
  <2>2. \E x : handed' \subseteq handed \union {x}
    BY <1>2 DEF HandleTask, Handle, Grant, Waitlist, Free, HandOver, Refuse
  <2>3. CASE v = w
    BY <1>0, <2>1, <2>2, <2>3
  <2>4. CASE v # w
    <3>1. notice'[w] = notice[w] /\ pc'[w] = pc[w]
      BY <1>0, <2>1, <2>4
    <3> QED
      BY <3>1 DEF ThreadsJoined
  <2> QED
    BY <2>3, <2>4
<1>3. ASSUME NEW v \in Worker, SubmitNotice(v) PROVE /\ notice'[w] # {} => pc'[w] = "submit"
                                                     /\ \A n, p \in notice'[w] : n = p
  <2>1. notice' = [notice EXCEPT ![v] = {}]
    BY <1>3 DEF SubmitNotice
  <2>2. CASE v = w
    BY <1>0, <2>1, <2>2
  <2>3. CASE v # w
    <3>1. notice'[w] = notice[w] /\ pc'[w] = pc[w]
      BY <1>0, <1>3, <2>1, <2>3 DEF SubmitNotice, Fail, Goes, WakeNotifier, ThreadAssumption
    <3> QED
      BY <3>1 DEF ThreadsJoined
  <2> QED
    BY <2>2, <2>3
<1>4. ASSUME UNCHANGED notice, \A v \in Worker : ~SubmitNotice(v)
      PROVE  /\ notice'[w] # {} => pc'[w] = "submit"
             /\ \A n, p \in notice'[w] : n = p
  <2>1. pc[w] = "submit" => pc'[w] = "submit"
    BY <1>4, SendsMove DEF SendMoves
  <2> QED
    BY <1>4, <2>1 DEF ThreadsJoined
<1>5. UNCHANGED notice \/ \E v \in Worker : HandleTask(v) \/ SubmitNotice(v)
  BY Frames DEF Changes
<1> QED
  BY <1>2, <1>3, <1>4, <1>5

LEMMA JoinedStep ==
  ASSUME Typed, ThreadsJoined, [ServerNext]_serverVars
  PROVE  ThreadsJoined'
<1>1. (\A w \in Worker : pc[w] = "ended") => \A w \in Worker : pc'[w] = "ended"
  BY WorkersLive DEF WorkerLife
<1>2. EndMoves /\ NoticeMoves
  BY EndsMove, NoticesMove
<1>3. pc["notifier"] = "ended" => pc'["notifier"] = "ended"
  BY NotifierLives DEF NotifierLife
<1>4. MainNext' \in Joined \union {"joinNotifier"} => \A w \in Worker : pc'[w] = "ended"
  BY <1>1, <1>2 DEF EndMoves, ThreadsJoined, JoinWorkers
<1>5. MainNext' \in Joined => pc'["notifier"] = "ended"
  BY <1>2, <1>3 DEF EndMoves, ThreadsJoined, JoinNotifier, NotifierJoined
<1>6. farewells' # {} => MainNext' \in Joined
  BY <1>2 DEF EndMoves, ThreadsJoined
<1>7. reporter' = None => reporter = None
  BY <1>2 DEF EndMoves, ReporterTypes, Typed
<1>8. noticesAborted' \/ interrupted' # {} => reporter' # None
  BY <1>2, <1>7 DEF NoticeMoves, ThreadsJoined
<1>9. reporter' = None /\ noticesFinished' => \A w \in Worker : pc'[w] = "ended"
  BY <1>1, <1>2, <1>7 DEF NoticeMoves, ThreadsJoined
<1>10. ASSUME \A w \in Worker : pc[w] = "ended", pc["notifier"] = "ended"
       PROVE  notices' = notices
  BY <1>10, Frames DEF Changes, TakeNotice, SubmitNotice
<1>11. ASSUME reporter' = None, pc'["notifier"] = "ended"
       PROVE  noticesFinished' /\ notices' = <<>>
  <2>1. CASE pc["notifier"] = "ended"
    <3>1. noticesFinished /\ notices = <<>>
      BY <1>7, <1>11, <2>1 DEF ThreadsJoined
    <3>2. \A w \in Worker : pc[w] = "ended"
      BY <1>7, <1>11, <3>1 DEF ThreadsJoined
    <3> QED
      BY <1>2, <1>10, <2>1, <3>1, <3>2 DEF NoticeMoves
  <2>2. CASE pc["notifier"] # "ended"
    <3>1. TakeNotice /\ (noticesAborted \/ (notices = <<>> /\ noticesFinished))
      BY <1>2, <1>11, <2>2 DEF NoticeMoves
    <3>2. notices = <<>> /\ noticesFinished
      BY <1>7, <1>11, <3>1 DEF ThreadsJoined
    <3>3. notices' = notices
      BY <3>1, <3>2 DEF TakeNotice
    <3> QED
      BY <1>2, <3>2, <3>3 DEF NoticeMoves
  <2> QED
    BY <2>1, <2>2
<1>12. Closing' => notices' = <<>>
  <2>1. CASE JoinNotifier /\ reporter = None
    BY <2>1 DEF JoinNotifier, NotifierJoined, ThreadsJoined, noticeVars
  <2>2. ASSUME Closing', ~(JoinNotifier /\ reporter = None) PROVE Closing /\ MainNext \in Joined
    <3>1. CASE pc'[Main] = "bye"
      <4>1. pc[Main] = "bye"
        BY <1>2, <2>2, <3>1 DEF EndMoves
      <4> QED
        BY <4>1 DEF Closing, MainNext, Joined
    <3>2. CASE farewells' # {} /\ pc'[Main] # "bye"
      <4>1. CASE farewells # {}
        BY <4>1 DEF Closing, ThreadsJoined
      <4>2. CASE farewells = {}
        <5>1. \E c \in Client : SayBye(c)
          BY <3>2, <4>2, Frames DEF Changes
        <5>2. pc[Main] = "bye"
          BY <5>1 DEF SayBye
        <5> QED
          BY <5>2 DEF Closing, MainNext, Joined
      <4> QED
        BY <4>1, <4>2
    <3> QED
      BY <2>2, <3>1, <3>2 DEF Closing
  <2>3. Closing /\ MainNext \in Joined => notices' = <<>>
    BY <1>10 DEF ThreadsJoined
  <2> QED
    BY <2>1, <2>2, <2>3
<1>13. /\ \A w \in Worker : notice'[w] # {} => pc'[w] = "submit"
       /\ \A w \in Worker : \A n, p \in notice'[w] : n = p
  BY NoticeInHand
<1> QED
  BY <1>4, <1>5, <1>6, <1>8, <1>9, <1>11, <1>12, <1>13 DEF ThreadsJoined

-----------------------------------------------------------------------------
(* Every notice reaches its client *)

OnWire(n) == \E j \in DOMAIN toClient[n.client] : toClient[n.client][j] = Notify(n)
OnWay(n) ==
  \/ \E w \in Worker : n \in notice[w]
  \/ \E j \in DOMAIN notices : notices[j] = n
  \/ pc["notifier"] = "send" /\ task["notifier"] = n
  \/ OnWire(n)

(* While nothing has failed, a notice is on its way until its client knows.*)
NoticesKept ==
  \A n \in handed : Fine /\ phase[n.client] # "failed" =>
     OnWay(n) \/ \A r \in Open(n.client) : r.id # n.request

(* BYE is the last line of a client, and the client that ends with it has  *)
(* nothing unanswered.                                                     *)
ByeLast(c) ==
  /\ \A j \in DOMAIN toClient[c] :
       toClient[c][j] = Bye => j = Len(toClient[c]) /\ c \in farewells
  /\ phase[c] = "done" => c \in farewells /\ toClient[c] = <<>> /\ view[c].pending = {}

(* How a client's open requests change.                                    *)
LEMMA OpenMoves ==
  ASSUME BooksInv, [ServerNext]_serverVars, NEW c \in Client
  PROVE  \/ Open(c)' = Open(c)
         \/ \E m \in Lines, r \in Request :
              Learns(c, m, r) /\ Open(c)' = Open(c) \ {r} /\ r \in Open(c)
         \/ view' = view /\ \E w \in Worker : HandleTask(w)
<1> DEFINE Goal == \/ Open(c)' = Open(c)
                   \/ \E m \in Lines, r \in Request :
                        Learns(c, m, r) /\ Open(c)' = Open(c) \ {r} /\ r \in Open(c)
                   \/ view' = view /\ \E w \in Worker : HandleTask(w)
<1>0. Typed /\ ResultsTrue /\ Books /\ WireOK(c)
  BY DEF BooksInv
<1>1. ASSUME NEW d \in Client, ClientStep(d), d # c PROVE Goal
  <2>1. view'[c] = view[c] /\ UNCHANGED bookingVars
    BY <1>0, <1>1, OthersKeep DEF ClientStep
  <2> QED
    BY <1>0, <2>1, OtherBooks
<1>2. ASSUME ClientStep(c) PROVE Goal
  <2>0. UNCHANGED bookingVars
    BY <1>2 DEF ClientStep
  <2>1. CASE UNCHANGED view
    BY <1>0, <2>0, <2>1, OtherBooks
  <2>2. ASSUME NEW r \in Request, Asks(c, r) PROVE Goal
    <3>1. /\ view[c].sent \in Nat /\ accepted[c] \in Nat /\ Len(toServer[c]) \in Nat
      BY <1>0 DEF Typed, ClientTypes, Views, TallyTypes, WireTypes
    <3>2. accepted[c] <= view[c].sent
      BY <1>0, <3>1 DEF WireOK
    <3> QED
      BY <1>0, <2>0, <2>2, <3>2, AsksBooks
  <2>3. ASSUME NEW m \in Lines, NEW r \in Request, Hears(c, m, r) PROVE Goal
    BY <1>0, <2>0, <2>3, HearsBooks
  <2>4. ASSUME NEW m \in Lines, NEW r \in Request, Learns(c, m, r) PROVE Goal
    BY <1>0, <2>0, <2>4, LearnsBooks
  <2> HIDE DEF Goal
  <2> QED
    BY <1>0, <1>2, <2>1, <2>2, <2>3, <2>4, ClientMoves
<1>3. ASSUME UNCHANGED view, UNCHANGED bookingVars PROVE Goal
  BY <1>0, <1>3, OtherBooks
<1>4. ASSUME UNCHANGED view, NEW w \in Worker, HandleTask(w) PROVE Goal
  BY <1>4
<1>5. \A w \in Worker : HandleTask(w) => UNCHANGED view
  BY DEF HandleTask, clientVars
<1> HIDE DEF Goal
<1>6. Goal
  BY <1>1, <1>2, <1>3, <1>4, <1>5, Frames DEF Changes
<1> QED
  BY <1>6 DEF Goal

(* Nobody starts to wait under the number of a notice. *)
LEMMA OpenBefore ==
  ASSUME BooksInv, [ServerNext]_serverVars, NEW n \in handed, NEW c \in Client, n.client = c,
         NEW r, r \in Open(c)', r.id = n.request
  PROVE  r \in Open(c)
<1>1. CASE view' = view
  <2>1. r \in Asked(c) /\ r.id \notin view[c].early
    BY <1>1 DEF Open, Asked
  <2>2. r.client = c
    BY <2>1 DEF BooksInv, Books, ViewOK
  <2>3. Reply(r, "WAITLISTED") \in answers
    BY <2>2 DEF BooksInv, Books, AnswersOnce, Reply
  <2> QED
    BY <2>1, <2>3 DEF Open
<1>2. CASE Open(c)' \subseteq Open(c)
  BY <1>2
<1> QED
  BY <1>1, <1>2, OpenMoves

LEMMA NotifyIsNotBye ==
  ASSUME NEW n
  PROVE  Notify(n) # Bye /\ Notify(n).type = "NOTIFY" /\ Bye.type = "BYE"
BY DEF Notify, Bye

LEMMA RespIsNotBye ==
  ASSUME NEW r, NEW st
  PROVE  Resp(r, st) # Bye /\ Resp(r, st).type = "RESP"
BY DEF Resp, Bye

(* A client that ends well has read BYE, which was its last line. *)
LEMMA DoneMoves ==
  ASSUME Typed, [ServerNext]_serverVars, NEW c \in Client, phase'[c] = "done", phase[c] # "done"
  PROVE  /\ toClient[c] # <<>> /\ Head(toClient[c]) = Bye /\ toClient'[c] = <<>>
         /\ view[c].pending = {} /\ UNCHANGED view /\ phase[c] = "up" /\ InBalance(c)
<1>0. phase \in [Client -> {"new", "up", "done", "failed"}] /\ toClient \in [Client -> Seq(Lines)]
  BY DEF Typed, ClientTypes, WireTypes
<1>1. ASSUME NEW d \in Client, ClientFails(d) PROVE FALSE
  BY <1>0, <1>1 DEF ClientFails
<1>2. ~Fault
  BY <1>0, <1>1 DEF Fault, clientVars
<1>3. PICK d \in Client : ClientStep(d)
  BY <1>0, <1>2, Frames DEF Changes
<1>4. d = c
  BY <1>3, OthersKeep
<1>5. ReceiveLine(c)
  BY <1>0, <1>1, <1>3, <1>4 DEF ClientStep, Connect, ReceiveEnd, AbortClient, SendRequest
<1> DEFINE m == Head(toClient[c])
<1>6. m.type = "BYE" /\ InBalance(c) /\ phase' = [phase EXCEPT ![c] = "done"]
      /\ toClient' = [toClient EXCEPT ![c] = <<>>] /\ UNCHANGED view
  BY <1>0, <1>1, <1>5 DEF ReceiveLine
<1>7. m \in Lines /\ toClient[c] # <<>> /\ phase[c] = "up"
  BY <1>0, <1>5, QueueFacts DEF ReceiveLine
<1>8. m = Bye
  BY <1>6, <1>7, LineFacts
<1> QED
  BY <1>0, <1>6, <1>7, <1>8 DEF InBalance

LEMMA ByeStep ==
  ASSUME BooksInv, ThreadsJoined, \A c \in Client : ByeLast(c), [ServerNext]_serverVars
  PROVE  \A c \in Client : ByeLast(c)'
<1> SUFFICES ASSUME NEW c \in Client PROVE ByeLast(c)'
  OBVIOUS
<1>0. /\ Typed /\ ByeLast(c) /\ toClient[c] \in Seq(Lines) /\ farewells \subseteq farewells'
      /\ phase[c] \in {"new", "up", "done", "failed"}
  BY Grows DEF BooksInv, Typed, WireTypes, ClientTypes
<1> DEFINE ByeEnds(q) == \A j \in DOMAIN q : q[j] = Bye => j = Len(q) /\ c \in farewells'
<1>1. ByeEnds(toClient'[c])
  <2>1. CASE toClient'[c] = toClient[c]
    BY <1>0, <2>1 DEF ByeLast
  <2>2. CASE toClient'[c] = <<>>
    BY <2>2
  <2>3. CASE LineRead(c)
    <3> DEFINE q == toClient[c]
    <3>1. toClient'[c] = Tail(q) /\ q # <<>> /\ q \in Seq(Lines)
      BY <1>0, <2>3 DEF LineRead
    <3>2. ByeEnds(Tail(q))
      <4> SUFFICES ASSUME NEW j \in DOMAIN Tail(q), Tail(q)[j] = Bye
                   PROVE  j = Len(Tail(q)) /\ c \in farewells'
        OBVIOUS
      <4>1. j + 1 \in DOMAIN q /\ q[j + 1] = Bye /\ j \in Nat
        BY <3>1, TailFacts
      <4>2. j + 1 = Len(q) /\ c \in farewells
        BY <1>0, <4>1 DEF ByeLast
      <4>3. Len(Tail(q)) = Len(q) - 1 /\ Len(q) \in Nat
        BY <3>1, QueueFacts
      <4> QED
        BY <1>0, <4>1, <4>2, <4>3
    <3> HIDE DEF ByeEnds
    <3> QED
      BY <3>1, <3>2
  <2>4. ASSUME NEW m \in Lines, LineAdded(c, m) PROVE ByeEnds(toClient'[c])
    <3> DEFINE q == toClient[c]
    <3>1. toClient'[c] = Append(q, m) /\ q \in Seq(Lines)
      BY <1>0, <2>4 DEF LineAdded
    <3>2. \A j \in DOMAIN q : q[j] # Bye
      <4>1. CASE \E d \in Client : SayBye(d) /\ d = c
        BY <1>0, <4>1 DEF ByeLast, SayBye
      <4>2. CASE ~\E d \in Client : SayBye(d) /\ d = c
        <5>1. pc["notifier"] # "ended" \/ ~\A w \in Worker : pc[w] = "ended"
          BY <2>4, <4>2 DEF LineAdded
        <5>2. farewells = {}
          BY <5>1 DEF ThreadsJoined
        <5> QED
          BY <1>0, <5>2 DEF ByeLast
      <4> QED
        BY <4>1, <4>2
    <3>3. m = Bye => c \in farewells'
      <4>1. SayBye(c) => c \in farewells'
        BY DEF SayBye
      <4>2. \A w \in Worker : m = Resp(task[w], reply[w]) => m # Bye
        BY RespIsNotBye
      <4>3. m = Notify(task["notifier"]) => m # Bye
        BY NotifyIsNotBye
      <4> QED
        BY <2>4, <4>1, <4>2, <4>3 DEF LineAdded
    <3>4. ByeEnds(Append(q, m))
      <4> SUFFICES ASSUME NEW j \in DOMAIN Append(q, m), Append(q, m)[j] = Bye
                   PROVE  j = Len(Append(q, m)) /\ c \in farewells'
        OBVIOUS
      <4>1. j \notin DOMAIN q
        BY <3>1, <3>2, AppendFacts
      <4>2. j = Len(q) + 1 /\ m = Bye
        BY <3>1, <4>1, AppendFacts
      <4>3. Len(Append(q, m)) = Len(q) + 1
        BY <3>1, QueueFacts
      <4> QED
        BY <3>3, <4>2, <4>3
    <3> HIDE DEF ByeEnds
    <3> QED
      BY <3>1, <3>4
  <2> HIDE DEF ByeEnds
  <2> QED
    BY <1>0, <2>1, <2>2, <2>3, <2>4, LinesMove
<1>2. phase'[c] = "done" => c \in farewells' /\ toClient'[c] = <<>> /\ view'[c].pending = {}
  <2>1. CASE phase[c] # "done"
    <3> SUFFICES ASSUME phase'[c] = "done"
                 PROVE  c \in farewells' /\ toClient'[c] = <<>> /\ view'[c].pending = {}
      OBVIOUS
    <3>1. /\ toClient[c] # <<>> /\ Head(toClient[c]) = Bye /\ toClient'[c] = <<>>
          /\ view[c].pending = {} /\ UNCHANGED view
      BY <1>0, <2>1, DoneMoves
    <3>2. c \in farewells
      BY <1>0, <3>1, QueueFacts DEF ByeLast
    <3> QED
      BY <1>0, <3>1, <3>2
  <2>2. CASE phase[c] = "done"
    <3>0. c \in farewells /\ toClient[c] = <<>> /\ view[c].pending = {} /\ Gone(c)
      BY <1>0, <2>2 DEF ByeLast, Gone
    <3>1. toClient'[c] = <<>>
      BY <1>0, <3>0, <2>2, LinesMove DEF LineRead, LineAdded
    <3>2. view'[c] = view[c]
      <4>1. ASSUME ClientStep(c) PROVE view'[c] = view[c]
        BY <1>0, <2>2, <4>1, ClientMoves DEF Asks, Hears, Learns, SendRequest
      <4>2. ASSUME NEW d \in Client, ClientStep(d), d # c PROVE view'[c] = view[c]
        BY <1>0, <4>2, OthersKeep
      <4> QED
        BY <4>1, <4>2, Frames DEF Changes
    <3> QED
      BY <1>0, <3>0, <3>1, <3>2
  <2> QED
    BY <2>1, <2>2
<1> QED
  BY <1>1, <1>2 DEF ByeLast

(* A client that has failed stays so; nothing gets fine again; a closing   *)
(* server has no thread left that would send a notice or a response.       *)
LEMMA PhaseStays ==
  ASSUME Typed, [ServerNext]_serverVars, NEW c \in Client
  PROVE  /\ phase[c] = "failed" => phase'[c] = "failed"
         /\ phase[c] = "done" => phase'[c] = "done"
         /\ phase'[c] # "new" \/ phase[c] = "new"
<1>0. phase \in [Client -> {"new", "up", "done", "failed"}]
  BY DEF Typed, ClientTypes
<1> DEFINE Goal == /\ phase[c] = "failed" => phase'[c] = "failed"
                   /\ phase[c] = "done" => phase'[c] = "done"
                   /\ phase'[c] # "new" \/ phase[c] = "new"
<1>1. ASSUME NEW d \in Client, ClientStep(d) PROVE Goal
  <2>1. CASE d # c
    BY <1>0, <1>1, <2>1, OthersKeep
  <2>2. CASE d = c
    BY <1>0, <1>1, <2>2, ClientReads DEF Asks, SendRequest, Hears, Learns
  <2> QED
    BY <2>1, <2>2
<1>2. ASSUME Fault PROVE Goal
  BY <1>0, <1>2 DEF Fault, ClientFails, clientVars
<1>3. ASSUME UNCHANGED phase PROVE Goal
  BY <1>3
<1> HIDE DEF Goal
<1>4. Goal
  BY <1>1, <1>2, <1>3, Frames DEF Changes
<1> QED
  BY <1>4 DEF Goal

LEMMA FineBefore ==
  ASSUME Typed, ThreadsJoined, [ServerNext]_serverVars
  PROVE  /\ Fine' => Fine
         /\ Closing => MainNext \in Joined /\ pc["notifier"] = "ended"
                       /\ \A w \in Worker : pc[w] = "ended"
<1>1. EndMoves
  BY EndsMove
<1>2. reporter' = None => reporter = None
  BY <1>1 DEF EndMoves
<1>3. farewells' # {} => farewells # {} \/ pc[Main] = "bye"
  BY Frames DEF Changes, SayBye
<1>4. Closing' => Closing \/ reporter = None
  BY <1>1, <1>3 DEF EndMoves, Closing
<1>5. Closing => MainNext \in Joined
  BY DEF Closing, ThreadsJoined, MainNext, Joined
<1> QED
  BY <1>2, <1>4, <1>5 DEF Fine, ThreadsJoined

LEMMA TailDiffers ==
  ASSUME NEW S, NEW q \in Seq(S), q # <<>>
  PROVE  Tail(q) # q
<1> DEFINE n == Len(q)
           z == Tail(q)
<1>1. Len(z) = n - 1 /\ n \in Nat /\ n = Len(q)
  OBVIOUS
<1> HIDE DEF n, z
<1>2. z = q => Len(z) = n
  BY <1>1
<1>3. z # q
  BY <1>1, <1>2
<1> QED
  BY <1>3 DEF z

(* A notice on its way is still so after a step, or its client has read it.*)
LEMMA NoticeTravels ==
  ASSUME BooksInv, ThreadsJoined, \A c \in Client : ByeLast(c), [ServerNext]_serverVars,
         NEW n \in handed, OnWay(n), Fine', phase'[n.client] # "failed"
  PROVE  \/ OnWay(n)'
         \/ \E r \in Request : Learns(n.client, Notify(n), r)
<1> DEFINE c == n.client
<1>0. /\ Typed /\ c \in Client /\ n \in Notices /\ toClient[c] \in Seq(Lines)
      /\ notices \in Seq(Notices) /\ notice \in [Worker -> SUBSET Notices]
      /\ task \in [Thread -> Request \union Notices \union {NoTask}] /\ "notifier" \in Thread
      /\ Fine /\ (Closing => pc["notifier"] = "ended" /\ \A w \in Worker : pc[w] = "ended")
  BY FineBefore DEF BooksInv, Typed, BookingTypes, Notices, WireTypes, QueueTypes, HandTypes, Thread
<1>1. ASSUME NEW w \in Worker, n \in notice[w] PROVE OnWay(n)'
  <2>1. pc[w] = "submit" /\ \A p \in notice[w] : p = n
    BY <1>1 DEF ThreadsJoined
  <2>2. reporter = None /\ ~noticesFinished
    BY <1>0, <2>1 DEF Fine, ThreadsJoined
  <2>3. CASE SubmitNotice(w)
    <3>1. notices' = Append(notices, n)
      BY <2>1, <2>2, <2>3 DEF SubmitNotice
    <3>2. notices'[Len(notices) + 1] = n /\ Len(notices) + 1 \in DOMAIN notices'
      BY <1>0, <3>1, AppendFacts
    <3> QED
      BY <3>2 DEF OnWay
  <2>4. CASE ~SubmitNotice(w)
    <3>1. ASSUME NEW v \in Worker, HandleTask(v) \/ SubmitNotice(v) PROVE notice'[w] = notice[w]
      BY <1>0, <2>1, <2>4, <3>1 DEF HandleTask, SubmitNotice
    <3>2. notice'[w] = notice[w]
      BY <3>1, Frames DEF Changes
    <3> QED
      BY <1>1, <3>2 DEF OnWay
  <2> QED
    BY <2>3, <2>4
<1>2. ASSUME NEW j \in DOMAIN notices, notices[j] = n PROVE OnWay(n)'
  <2>1. CASE UNCHANGED notices
    BY <1>2, <2>1 DEF OnWay
  <2>2. ASSUME NEW p \in Notices, notices' = Append(notices, p) PROVE OnWay(n)'
    <3>1. notices'[j] = n /\ j \in DOMAIN notices'
      BY <1>0, <1>2, <2>2, AppendFacts
    <3> QED
      BY <3>1 DEF OnWay
  <2>3. CASE /\ notices' = Tail(notices) /\ task'["notifier"] = Head(notices)
             /\ pc'["notifier"] = "send"
    <3>1. notices # <<>> /\ j \in 1..Len(notices) /\ Head(notices) = notices[1]
      BY <1>0, <1>2
    <3>2. CASE j = 1
      BY <1>2, <2>3, <3>1, <3>2 DEF OnWay
    <3>3. CASE j # 1
      <4>1. j - 1 \in DOMAIN Tail(notices) /\ Tail(notices)[j - 1] = notices[j]
        BY <1>0, <3>1, <3>3
      <4> QED
        BY <1>2, <2>3, <4>1 DEF OnWay
    <3> QED
      BY <3>2, <3>3
  <2>4. ASSUME NEW w \in Worker, SubmitNotice(w)
        PROVE  UNCHANGED notices \/ \E p \in Notices : notices' = Append(notices, p)
    BY <1>0, <2>4 DEF SubmitNotice
  <2>5. ASSUME TakeNotice
        PROVE  \/ UNCHANGED notices
               \/ /\ notices' = Tail(notices) /\ task'["notifier"] = Head(notices)
                  /\ pc'["notifier"] = "send"
    BY <1>0, <2>5 DEF TakeNotice, Goes, Typed, PcTypes
  <2> QED
    BY <2>1, <2>2, <2>3, <2>4, <2>5, Frames DEF Changes
<1>3. ASSUME pc["notifier"] = "send", task["notifier"] = n PROVE OnWay(n)'
  <2>1. reporter = None /\ ~Closing
    BY <1>0, <1>3 DEF Fine
  <2>2. CASE pc'["notifier"] = "send"
    <3>1. task'["notifier"] = task["notifier"]
      BY <1>0, <1>3, <2>2, NotifierLives DEF NotifierLife, Carrying
    <3> QED
      BY <1>3, <2>2, <3>1 DEF OnWay
  <2>3. CASE SendNotice
    <3>1. \A next : ~Fail("notifier", next)
      <4> SUFFICES ASSUME NEW next, Fail("notifier", next) PROVE FALSE
        OBVIOUS
      <4>1. reporter' = "notifier" /\ pc'[Main] = pc[Main]
        BY <1>0, <2>1 DEF Fail, Main, Thread, Typed, PcTypes
      <4>2. farewells' = farewells
        BY <2>3 DEF SendNotice, endVars
      <4> QED
        BY <2>1, <4>1, <4>2, <1>0 DEF Fine, Closing, Thread
    <3>2. \/ c \notin closed /\ Gone(c)
          \/ toClient' = [toClient EXCEPT ![c] = Append(@, Notify(n))]
      BY <1>3, <2>3, <3>1 DEF SendNotice, Deliver
    <3>3. ~Gone(c)
      <4>1. phase[c] # "failed"
        BY <1>0, PhaseStays
      <4>2. phase[c] # "done"
        BY <1>0, <2>1 DEF ByeLast, Closing
      <4> QED
        BY <4>1, <4>2 DEF Gone
    <3>4. toClient'[c] = Append(toClient[c], Notify(n)) /\ Notify(n) \in Lines
      BY <1>0, <3>2, <3>3, NoticeFacts DEF Typed, WireTypes
    <3>5. toClient'[c][Len(toClient[c]) + 1] = Notify(n) /\ Len(toClient[c]) + 1 \in DOMAIN toClient'[c]
      BY <1>0, <3>4, AppendFacts
    <3> QED
      BY <3>5 DEF OnWay, OnWire
  <2> QED
    BY <1>0, <1>3, <2>2, <2>3, NoticesMove DEF NoticeMoves
<1>4. ASSUME NEW j \in DOMAIN toClient[c], toClient[c][j] = Notify(n)
      PROVE  OnWay(n)' \/ \E r \in Request : Learns(c, Notify(n), r)
  <2> DEFINE q == toClient[c]
  <2>0. q \in Seq(Lines) /\ j \in 1..Len(q) /\ Len(q) \in Nat /\ q # <<>> /\ q[j] = Notify(n)
    BY <1>0, <1>4
  <2>1. CASE toClient'[c] = q
    BY <1>4, <2>1 DEF OnWay, OnWire
  <2>2. ASSUME NEW m \in Lines, LineAdded(c, m) PROVE OnWay(n)'
    <3>1. toClient'[c] = Append(q, m)
      BY <2>2 DEF LineAdded
    <3>2. toClient'[c][j] = Notify(n) /\ j \in DOMAIN toClient'[c]
      BY <2>0, <3>1, AppendFacts
    <3> QED
      BY <3>2 DEF OnWay, OnWire
  <2>3. CASE toClient'[c] = <<>> /\ phase'[c] \in {"done", "failed"}
    <3>1. CASE phase[c] = "done"
      BY <1>0, <1>4, <3>1 DEF ByeLast
    <3>2. CASE phase[c] # "done"
      <4>1. Head(q) = Bye
        BY <1>0, <2>3, <3>2, DoneMoves
      <4>2. Head(q) = q[1] /\ 1 \in DOMAIN q
        BY <2>0, QueueFacts
      <4>3. Len(q) = 1
        BY <1>0, <4>1, <4>2 DEF ByeLast
      <4> QED
        BY <2>0, <4>1, <4>2, <4>3, NotifyIsNotBye
    <3> QED
      BY <3>1, <3>2
  <2>4. CASE LineRead(c)
    <3>1. toClient'[c] = Tail(q) /\ ClientStep(c)
      BY <2>4 DEF LineRead
    <3>2. CASE j # 1
      <4>1. j - 1 \in DOMAIN Tail(q) /\ Tail(q)[j - 1] = q[j]
        BY <2>0, <3>2
      <4> QED
        BY <2>0, <3>1, <4>1 DEF OnWay, OnWire
    <3>3. CASE j = 1
      <4>1. Head(q) = Notify(n) /\ Len(Tail(q)) = Len(q) - 1
        BY <2>0, <3>3, QueueFacts
      <4>2. toClient' # toClient /\ phase'[c] # "failed" /\ Head(q).type = "NOTIFY"
        <5>1. Tail(q) # q
          BY <2>0, TailDiffers
        <5>2. Head(q).type = "NOTIFY"
          BY <4>1, NotifyIsNotBye
        <5> QED
          BY <3>1, <5>1, <5>2
      <4>3. ASSUME NEW r \in Request, Asks(c, r) PROVE FALSE
        BY <4>2, <4>3 DEF Asks, SendRequest
      <4>4. ASSUME NEW m \in Lines, NEW r \in Request, Hears(c, m, r) PROVE FALSE
        BY <4>2, <4>4 DEF Hears
      <4>5. ASSUME NEW m \in Lines, NEW r \in Request, Learns(c, m, r) PROVE Learns(c, Notify(n), r)
        BY <4>1, <4>5 DEF Learns
      <4>6. phase' # [phase EXCEPT ![c] = "failed"]
        BY <1>0, <4>2 DEF Typed, ClientTypes
      <4> HIDE DEF q
      <4> QED
        BY <1>0, <3>1, <4>2, <4>3, <4>4, <4>5, <4>6, ClientReads DEF q
    <3> QED
      BY <3>2, <3>3
  <2> QED
    BY <1>0, <2>1, <2>2, <2>3, <2>4, LinesMove
<1> QED
  BY <1>1, <1>2, <1>3, <1>4 DEF OnWay, OnWire

LEMMA NoticesStep ==
  ASSUME BooksInv, ThreadsJoined, \A c \in Client : ByeLast(c), NoticesKept, [ServerNext]_serverVars
  PROVE  NoticesKept'
<1> SUFFICES ASSUME NEW n \in handed', Fine', phase'[n.client] # "failed",
                    NEW r \in Open(n.client)', r.id = n.request
             PROVE  OnWay(n)'
  BY DEF NoticesKept
<1> DEFINE c == n.client
<1>0. Typed /\ Typed'
  BY TypedStep DEF BooksInv
<1>1. CASE n \notin handed
  <2>1. PICK w \in Worker : HandleTask(w)
    BY <1>1, Frames DEF Changes, bookingVars
  <2>2. notice'[w] = handed' \ handed
    BY <1>0, <2>1 DEF HandleTask, Typed, HandTypes
  <2> QED
    BY <1>1, <2>2 DEF OnWay
<1>2. CASE n \in handed
  <2>0. c \in Client
    BY <1>0, <1>2 DEF Typed, BookingTypes, Notices
  <2>1. r \in Open(c)
    BY <1>2, <2>0, OpenBefore
  <2>2. phase[c] # "failed" /\ Fine
    BY <1>0, <2>0, PhaseStays, FineBefore
  <2>3. OnWay(n)
    BY <1>2, <2>1, <2>2 DEF NoticesKept
  <2>4. ASSUME NEW p \in Request, Learns(c, Notify(n), p) PROVE FALSE
    <3>1. p.id = n.request /\ p \in Asked(c)
      BY <2>4 DEF Learns, NotifyView, Notify, Asked
    <3>2. p = r
      BY <2>0, <2>1, <3>1 DEF BooksInv, Books, ViewOK, Open
    <3>3. UNCHANGED bookingVars /\ Notify(n) \in Lines
      BY <2>4 DEF Learns, ClientStep
    <3>4. Open(c)' = Open(c) \ {p}
      BY <2>0, <2>4, <3>3, LearnsBooks DEF BooksInv
    <3> QED
      BY <3>2, <3>4
  <2> QED
    BY <1>2, <2>3, <2>4, NoticeTravels
<1> QED
  BY <1>1, <1>2

EndInv == BooksInv /\ ThreadsJoined /\ NoticesKept /\ \A c \in Client : ByeLast(c)

LEMMA EndInit == ServerInit => EndInv
<1> SUFFICES ASSUME ServerInit PROVE EndInv
  OBVIOUS
<1>1. BooksInv
  BY BooksInit
<1>2. ThreadsJoined
  BY DEF ServerInit, ThreadsJoined, MainNext, Joined, Closing, Thread, Main, ThreadAssumption
<1>3. NoticesKept /\ \A c \in Client : ByeLast(c)
  BY DEF ServerInit, BookingInit, NoticesKept, ByeLast
<1> QED
  BY <1>1, <1>2, <1>3 DEF EndInv

LEMMA EndStep == EndInv /\ [ServerNext]_serverVars => EndInv'
<1> SUFFICES ASSUME EndInv, [ServerNext]_serverVars PROVE EndInv'
  OBVIOUS
<1>1. BooksInv' /\ Typed
  BY BooksInvStep DEF EndInv, BooksInv
<1>2. ThreadsJoined'
  BY <1>1, JoinedStep DEF EndInv
<1>3. NoticesKept' /\ \A c \in Client : ByeLast(c)'
  BY NoticesStep, ByeStep DEF EndInv
<1> QED
  BY <1>1, <1>2, <1>3 DEF EndInv

LEMMA EndKept == ServerSpec => []EndInv
BY EndInit, EndStep, PTL DEF ServerSpec

(* EndsInAgreement: a client that has read its BYE holds exactly the seats *)
(* it owns and waits exactly where the seat manager has it waiting: every  *)
(* notice came before the BYE, in every run, the failed ones included.     *)
THEOREM AgreementAtEnd == ServerSpec => []EndsInAgreement
<1>1. EndInv => EndsInAgreement
  <2> SUFFICES ASSUME EndInv, NEW c \in Client, phase[c] = "done"
               PROVE  /\ view[c].held = {s \in Seat : owner[s] = c}
                      /\ {OnlySeat(r) : r \in view[c].waits} = {s \in Seat : IsWaiting(waiting[s], c)}
    BY DEF EndsInAgreement
  <2>0. /\ Typed /\ Books /\ ViewOK(c) /\ ClaimsOK(c) /\ BooksInv /\ ThreadsJoined /\ NoticesKept
    BY DEF EndInv, BooksInv, Books
  <2>1. c \in farewells /\ toClient[c] = <<>> /\ view[c].pending = {}
    BY DEF EndInv, ByeLast
  <2>2. Closing /\ MainNext \in Joined
    BY <2>0, <2>1 DEF Closing, ThreadsJoined
  <2>3. /\ notices = <<>> /\ pc["notifier"] = "ended" /\ \A w \in Worker : notice[w] = {}
    BY <2>0, <2>2 DEF ThreadsJoined
  <2>4. Won(c) = {} /\ GivenUp(c) = {} /\ Open(c) = view[c].waits
    BY <2>0, <2>1 DEF Won, GivenUp, Open, ViewOK, Asked
  <2>5. view[c].held \subseteq Seat
    BY <2>0 DEF Typed, ClientTypes, Views
  <2>6. ASSUME NEW r \in Open(c) PROVE Queued(r) /\ r.client = c /\ OnlySeat(r) \in Seat
    <3>1. r.client = c /\ OnlySeat(r) \in Seat
      BY <2>0, OpenTaken
    <3> DEFINE n0 == Notice(Entry(r), OnlySeat(r))
    <3>2. n0.client = c /\ n0.request = r.id
      BY <3>1, EntryFacts
    <3> HIDE DEF n0
    <3>3. ~OnWay(n0)
      BY <2>1, <2>3, <3>2 DEF OnWay, OnWire
    <3>4. n0 \notin handed
      BY <2>0, <2>2, <3>2, <3>3 DEF NoticesKept, Fine
    <3> QED
      BY <2>0, <3>1, <3>4 DEF n0, ClaimsOK, OpenOK
  <2>7. ASSUME NEW r \in Open(c) PROVE owner[OnlySeat(r)] # c /\ IsWaiting(waiting[OnlySeat(r)], c)
    <3>1. PICK i \in DOMAIN waiting[OnlySeat(r)] : waiting[OnlySeat(r)][i] = Entry(r)
      BY <2>6 DEF Queued
    <3>2. waiting[OnlySeat(r)][i].client = c
      BY <2>6, <3>1, EntryFacts
    <3> QED
      BY <2>0, <2>6, <3>2 DEF Books, SeatsFair, IsWaiting
  <2>8. view[c].held = {s \in Seat : owner[s] = c}
    BY <2>0, <2>4, <2>5, <2>7 DEF ClaimsOK, HeldOK, OwnedOK
  <2>9. ASSUME NEW s \in Seat, IsWaiting(waiting[s], c) PROVE \E r \in Open(c) : OnlySeat(r) = s
    BY <2>0, <2>9 DEF IsWaiting, Books, WaitersKnown
  <2>10. {OnlySeat(r) : r \in Open(c)} = {s \in Seat : IsWaiting(waiting[s], c)}
    BY <2>6, <2>7, <2>9
  <2> QED
    BY <2>4, <2>8, <2>10
<1> QED
  BY <1>1, EndKept, PTL

-----------------------------------------------------------------------------
(***************************************************************************)
(* No false alarm: as long as there is no I/O error, no client finds a     *)
(* line unexpected, no thread of the server hits one of its checks, and    *)
(* the tallies of both sides balance in the end.                           *)
(***************************************************************************)

(* Workers that have a response to send.                                   *)
Sending == {w \in Worker : pc[w] \in {"submit", "send"}}

(* A response on its way is to a pending request, and no other response to *)
(* it is on its way.                                                       *)
RespOnce(c) ==
  LET q == toClient[c] IN
  /\ \A j \in DOMAIN q : q[j].type = "RESP" =>
       /\ \E r \in view[c].pending : r.id = q[j].id /\ r.seats = q[j].seats
       /\ \A k \in DOMAIN q : q[k].type = "RESP" /\ k # j => q[k].id # q[j].id
       /\ \A w \in Sending : task[w].client = c => task[w].id # q[j].id
  /\ \A w \in Sending : task[w].client = c => task[w] \in view[c].pending

(* A notice is in one place at a time, and its client still waits for it.  *)
InQueue == {notices[j] : j \in DOMAIN notices}
Carried == {n \in {task["notifier"]} : Carrying}
NoticesApart ==
  /\ \A w \in Worker : \A n \in notice[w] :
       /\ \A v \in Worker : v # w => n \notin notice[v]
       /\ n \notin InQueue /\ n \notin Carried /\ ~OnWire(n)
  /\ \A j \in DOMAIN notices :
       /\ \A k \in DOMAIN notices : k # j => notices[k] # notices[j]
       /\ notices[j] \notin Carried /\ ~OnWire(notices[j])
  /\ pc["notifier"] = "send" => ~OnWire(task["notifier"])
  /\ \A c \in Client : \A j, k \in DOMAIN toClient[c] :
       toClient[c][j].type = "NOTIFY" /\ k # j => toClient[c][k] # toClient[c][j]
NoticesOpen == \A n \in handed : OnWay(n) => \E r \in Open(n.client) : r.id = n.request

(* The request main has in hand is the last one it has accepted.           *)
LastAccepted ==
  Holding =>
    LET r == task[Main] IN
    /\ r.id = accepted[r.client] /\ Unanswered(r)
    /\ \A j \in DOMAIN queue : queue[j].client = r.client => queue[j].id # r.id
    /\ \A w \in Worker : pc[w] = "handle" /\ task[w].client = r.client => task[w].id # r.id

(* A client's tally of what it waits for.                                  *)
ListOK(c) ==
  LET v == view[c] IN
  /\ IsFiniteSet(v.waits) /\ v.listed + Cardinality(v.early) = v.told + Cardinality(v.waits)
  /\ \A i \in v.early : \E p \in v.pending : p.id = i

(* The server's tallies: of first responses, and of waiting clients.       *)
Counted == {p \in Client \X (1..RequestsPerClient) : p[2] <= responses[p[1]]}
CompletedCounts == completed = Cardinality(Counted)

Uncounted == (UNION {notice[w] : w \in Worker}) \union InQueue \union Carried
Places(lists) == UNION {{s} \X DOMAIN lists[s] : s \in Seat}
Listed == {a \in answers : a.status = "WAITLISTED"}
WaitTally ==
  /\ IsFiniteSet(Listed) /\ IsFiniteSet(handed) /\ IsFiniteSet(Places(waiting))
  /\ Cardinality(Listed) = Cardinality(handed) + Cardinality(Places(waiting))

-----------------------------------------------------------------------------
(* As long as nothing has failed *)

Calm == reporter = None /\ \A c \in Client : phase[c] # "failed"

(* No connection is closed before the end; the input stops only when all   *)
(* requests have had their first response, and then BYE goes to everyone.  *)
ClosedLast == closed # {} => pc[Main] = "ended"
StoppedLast ==
  inputStopped \/ (\E w \in Worker : pc[w] = "stop") \/ pc[Main] \notin {"listen", "put", "asleep"}
    => completed = Expected
ByeToAll ==
  /\ pc[Main] \in Joined \ {"bye"} => farewells = Client
  /\ \A c \in farewells : phase[c] # "done" =>
       toClient[c] # <<>> /\ toClient[c][Len(toClient[c])] = Bye

(* Each answer is recorded, and reaches its client.                        *)
AllRecorded == \A c \in Client : responses[c] = Cardinality(Recorded(c))
AllReplied ==
  \A c \in Client : \A r \in view[c].pending : ~Unanswered(r) =>
    \/ \E w \in Sending : task[w] = r
    \/ \E j \in DOMAIN toClient[c] : toClient[c][j].type = "RESP" /\ toClient[c][j].id = r.id
AllCounted == notifyCount + Cardinality(Uncounted) = Cardinality(handed)

Good == ClosedLast /\ StoppedLast /\ ByeToAll /\ AllRecorded /\ AllReplied /\ AllCounted

(* What holds whether or not something has failed, and the whole.          *)
BaseInv ==
  /\ EndInv /\ (\A c \in Client : RespOnce(c) /\ ListOK(c))
  /\ NoticesApart /\ NoticesOpen /\ LastAccepted /\ CompletedCounts /\ WaitTally
CalmInv == BaseInv /\ (faults = 0 => Calm) /\ (Calm => Good)

-----------------------------------------------------------------------------
(* The tally of a client *)

LEMMA SmallSets ==
  ASSUME Typed, NEW c \in Client
  PROVE  /\ view[c].early \subseteq 1..MaxId /\ IsFiniteSet(view[c].early)
         /\ Cardinality(view[c].early) \in Nat
         /\ view[c].listed \in Nat /\ view[c].told \in Nat
<1>1. view[c].early \subseteq 1..MaxId /\ view[c].listed \in Nat /\ view[c].told \in Nat
  BY DEF Typed, ClientTypes, Views
<1> QED
  BY <1>1, NumbersFacts

LEMMA ListStep ==
  ASSUME BooksInv, \A c \in Client : ListOK(c), [ServerNext]_serverVars
  PROVE  \A c \in Client : ListOK(c)'
<1> SUFFICES ASSUME NEW c \in Client PROVE ListOK(c)'
  OBVIOUS
<1>0. /\ Typed /\ ListOK(c) /\ ViewOK(c) /\ IsFiniteSet(view[c].waits)
      /\ Cardinality(view[c].waits) \in Nat
  BY FS_CardinalityType DEF BooksInv, Books, ListOK
<1>1. /\ IsFiniteSet(view[c].early) /\ Cardinality(view[c].early) \in Nat
      /\ view[c].listed \in Nat /\ view[c].told \in Nat
  BY <1>0, SmallSets
<1>2. ASSUME view'[c] = view[c] PROVE ListOK(c)'
  BY <1>0, <1>2 DEF ListOK
<1>3. ASSUME NEW r \in Request, Asks(c, r) PROVE ListOK(c)'
  BY <1>0, <1>3 DEF Asks, ListOK
<1>4. ASSUME NEW m \in Lines, NEW r \in Request, Hears(c, m, r) PROVE ListOK(c)'
  <2>1. /\ view'[c].pending = view[c].pending \ {r} /\ view'[c].early = view[c].early \ {r.id}
        /\ view'[c].told = view[c].told /\ r \in view[c].pending
        /\ r.id \in view[c].early => m.status = "WAITLISTED"
        /\ view'[c].waits = IF m.status = "WAITLISTED" /\ r.id \notin view[c].early
                            THEN view[c].waits \union {r} ELSE view[c].waits
        /\ view'[c].listed = IF m.status = "WAITLISTED" THEN view[c].listed + 1
                             ELSE view[c].listed
    BY <1>4 DEF Hears, RespView
  <2>2. \A i \in view'[c].early : \E p \in view'[c].pending : p.id = i
    BY <1>0, <2>1 DEF ListOK
  <2>3. view[c].listed + Cardinality(view[c].early) = view[c].told + Cardinality(view[c].waits)
    BY <1>0 DEF ListOK
  <2>4. CASE r.id \in view[c].early
    <3>1. view'[c].waits = view[c].waits /\ view'[c].listed = view[c].listed + 1
      BY <2>1, <2>4
    <3>2. Cardinality(view'[c].early) = Cardinality(view[c].early) - 1
      BY <1>1, <2>1, <2>4, OneLess, Zenon
    <3> DEFINE u == view[c].listed  x == Cardinality(view[c].early)  y == view[c].told
               z == Cardinality(view[c].waits)
    <3>7. u \in Nat /\ x \in Nat /\ y \in Nat /\ z \in Nat /\ u + x = y + z
      BY <1>0, <1>1, <2>3
    <3>8. /\ view'[c].listed = u + 1 /\ Cardinality(view'[c].early) = x - 1 /\ view'[c].told = y
          /\ Cardinality(view'[c].waits) = z
      BY <2>1, <3>1, <3>2
    <3> HIDE DEF u, x, y, z
    <3>3. view'[c].listed + Cardinality(view'[c].early) = view'[c].told + Cardinality(view'[c].waits)
      BY <3>7, <3>8
    <3> QED
      BY <1>0, <2>2, <3>1, <3>3 DEF ListOK
  <2>5. CASE r.id \notin view[c].early /\ m.status = "WAITLISTED"
    <3>1. r \notin view[c].waits
      BY <1>0, <2>1 DEF ViewOK
    <3>2. view'[c].waits = view[c].waits \union {r} /\ view'[c].listed = view[c].listed + 1
          /\ view'[c].early = view[c].early
      BY <2>1, <2>5
    <3>3. /\ IsFiniteSet(view[c].waits \union {r})
          /\ Cardinality(view[c].waits \union {r}) = Cardinality(view[c].waits) + 1
      BY <1>0, <3>1, OneMore, Zenon
    <3>5. /\ IsFiniteSet(view'[c].waits)
          /\ Cardinality(view'[c].waits) = Cardinality(view[c].waits) + 1
      BY <3>2, <3>3
    <3>6. view'[c].told = view[c].told
      BY <2>1
    <3> DEFINE u == view[c].listed  x == Cardinality(view[c].early)  y == view[c].told
               z == Cardinality(view[c].waits)
    <3>7. u \in Nat /\ x \in Nat /\ y \in Nat /\ z \in Nat /\ u + x = y + z
      BY <1>0, <1>1, <2>3
    <3>8. /\ view'[c].listed = u + 1 /\ Cardinality(view'[c].early) = x /\ view'[c].told = y
          /\ Cardinality(view'[c].waits) = z + 1
      BY <3>2, <3>5, <3>6
    <3> HIDE DEF u, x, y, z
    <3>4. view'[c].listed + Cardinality(view'[c].early) = view'[c].told + Cardinality(view'[c].waits)
      BY <3>7, <3>8
    <3> QED
      BY <2>2, <3>5, <3>4 DEF ListOK
  <2>6. CASE r.id \notin view[c].early /\ m.status # "WAITLISTED"
    <3>1. view'[c].waits = view[c].waits /\ view'[c].listed = view[c].listed
          /\ view'[c].early = view[c].early
      BY <2>1, <2>6
    <3> QED
      BY <1>0, <2>1, <2>2, <2>3, <3>1 DEF ListOK
  <2> QED
    BY <2>4, <2>5, <2>6
<1>5. ASSUME NEW m \in Lines, NEW r \in Request, Learns(c, m, r) PROVE ListOK(c)'
  <2>1. /\ view'[c].pending = view[c].pending /\ view'[c].listed = view[c].listed
        /\ view'[c].waits = view[c].waits \ {r} /\ view'[c].told = view[c].told + 1
        /\ view'[c].early = IF r \in view[c].pending THEN view[c].early \union {r.id}
                            ELSE view[c].early
        /\ r \in view[c].waits \union view[c].pending
        /\ r \in view[c].waits \/ r.id \notin view[c].early
    BY <1>5 DEF Learns, NotifyView
  <2>2. \A i \in view'[c].early : \E p \in view'[c].pending : p.id = i
    BY <1>0, <2>1 DEF ListOK
  <2>3. view[c].listed + Cardinality(view[c].early) = view[c].told + Cardinality(view[c].waits)
    BY <1>0 DEF ListOK
  <2>4. CASE r \in view[c].waits
    <3>1. r \notin view[c].pending
      BY <1>0, <2>4 DEF ViewOK
    <3>2. view'[c].early = view[c].early
      BY <2>1, <3>1
    <3>3. /\ IsFiniteSet(view[c].waits \ {r})
          /\ Cardinality(view[c].waits \ {r}) = Cardinality(view[c].waits) - 1
      BY <1>0, <2>4, OneLess, Zenon
    <3>5. /\ IsFiniteSet(view'[c].waits)
          /\ Cardinality(view'[c].waits) = Cardinality(view[c].waits) - 1
      BY <2>1, <3>3
    <3> DEFINE u == view[c].listed  x == Cardinality(view[c].early)  y == view[c].told
               z == Cardinality(view[c].waits)
    <3>7. u \in Nat /\ x \in Nat /\ y \in Nat /\ z \in Nat /\ u + x = y + z
      BY <1>0, <1>1, <2>3
    <3>8. /\ view'[c].listed = u /\ Cardinality(view'[c].early) = x /\ view'[c].told = y + 1
          /\ Cardinality(view'[c].waits) = z - 1
      BY <2>1, <3>2, <3>5
    <3> HIDE DEF u, x, y, z
    <3>4. view'[c].listed + Cardinality(view'[c].early) = view'[c].told + Cardinality(view'[c].waits)
      BY <3>7, <3>8
    <3> QED
      BY <2>2, <3>5, <3>4 DEF ListOK
  <2>5. CASE r \notin view[c].waits
    <3>1. view'[c].waits = view[c].waits /\ r.id \notin view[c].early
          /\ view'[c].early = view[c].early \union {r.id}
      BY <2>1, <2>5
    <3>2. Cardinality(view'[c].early) = Cardinality(view[c].early) + 1
      BY <1>1, <3>1, OneMore, Zenon
    <3> DEFINE u == view[c].listed  x == Cardinality(view[c].early)  y == view[c].told
               z == Cardinality(view[c].waits)
    <3>7. u \in Nat /\ x \in Nat /\ y \in Nat /\ z \in Nat /\ u + x = y + z
      BY <1>0, <1>1, <2>3
    <3>8. /\ view'[c].listed = u /\ Cardinality(view'[c].early) = x + 1 /\ view'[c].told = y + 1
          /\ Cardinality(view'[c].waits) = z
      BY <2>1, <3>1, <3>2
    <3> HIDE DEF u, x, y, z
    <3>3. view'[c].listed + Cardinality(view'[c].early) = view'[c].told + Cardinality(view'[c].waits)
      BY <3>7, <3>8
    <3> QED
      BY <1>0, <2>2, <3>1, <3>3 DEF ListOK
  <2> QED
    BY <2>4, <2>5
<1>6. ASSUME NEW d \in Client, ClientStep(d), d # c PROVE view'[c] = view[c]
  BY <1>0, <1>6, OthersKeep
<1> QED
  BY <1>0, <1>2, <1>3, <1>4, <1>5, <1>6, ClientMoves, Frames DEF Changes

-----------------------------------------------------------------------------
(* The tallies of the server *)

LEMMA CountedFacts ==
  ASSUME Typed
  PROVE  /\ IsFiniteSet(Client \X (1..RequestsPerClient))
         /\ Cardinality(Client \X (1..RequestsPerClient)) = Expected
         /\ IsFiniteSet(Counted) /\ Cardinality(Counted) \in Nat /\ Expected \in Nat
<1>1. IsFiniteSet(1..RequestsPerClient) /\ Cardinality(1..RequestsPerClient) = RequestsPerClient
  <2>1. IsFiniteSet(1..RequestsPerClient)
        /\ Cardinality(1..RequestsPerClient)
             = IF 1 > RequestsPerClient THEN 0 ELSE RequestsPerClient - 1 + 1
    BY FS_Interval
  <2> QED
    BY <2>1
<1>2. Cardinality(Client) \in Nat
  BY FS_CardinalityType
<1>3. /\ IsFiniteSet(Client \X (1..RequestsPerClient))
      /\ Cardinality(Client \X (1..RequestsPerClient)) = Cardinality(Client) * RequestsPerClient
  BY <1>1, FS_Product
<1>4. Expected \in Nat /\ Cardinality(Client) * RequestsPerClient = Expected
  BY <1>2 DEF Expected
<1>5. Counted \subseteq Client \X (1..RequestsPerClient)
  BY DEF Counted
<1>6. IsFiniteSet(Counted)
  BY <1>3, <1>5, FS_Subset
<1> QED
  BY <1>3, <1>4, <1>6, FS_CardinalityType

LEMMA CompletedStep ==
  ASSUME BooksInv, CompletedCounts, [ServerNext]_serverVars
  PROVE  CompletedCounts'
<1>0. Typed /\ responses \in [Client -> Nat] /\ completed \in Nat
  BY DEF BooksInv, Typed, TallyTypes
<1>1. CASE UNCHANGED <<responses, completed>>
  BY <1>1 DEF CompletedCounts, Counted
<1>2. ASSUME NEW w \in Worker, RecordResponse(w) PROVE CompletedCounts'
  <2>1. PICK c \in Client : c = task[w].client
    BY <1>0, <1>2, RequestFacts DEF RecordResponse, Typed, HandTypes, Replying
  <2>2. CASE /\ responses' = [responses EXCEPT ![c] = @ + 1] /\ completed' = completed + 1
             /\ responses[c] < RequestsPerClient
    <3> DEFINE p0 == <<c, responses[c] + 1>>
    <3>0. responses[c] \in Nat /\ RequestsPerClient \in Nat
      BY <1>0
    <3>1. p0 \in Client \X (1..RequestsPerClient) /\ p0[1] = c /\ p0[2] = responses[c] + 1
      BY <2>2, <3>0
    <3>2. p0 \notin Counted
      BY <3>0, <3>1 DEF Counted
    <3>3. Counted' = Counted \union {p0}
      <4>1. ASSUME NEW p \in Client \X (1..RequestsPerClient)
            PROVE  p[2] <= responses'[p[1]] <=> p[2] <= responses[p[1]] \/ p = p0
        <5>1. p[1] \in Client /\ p[2] \in Nat /\ p = <<p[1], p[2]>>
          OBVIOUS
        <5>2. CASE p[1] = c
          BY <1>0, <2>2, <3>0, <3>1, <5>1, <5>2
        <5>3. CASE p[1] # c
          BY <1>0, <2>2, <3>1, <5>1, <5>3
        <5> QED
          BY <5>2, <5>3
      <4> HIDE DEF p0
      <4> QED
        BY <3>1, <4>1 DEF Counted
    <3> HIDE DEF p0
    <3>4. Cardinality(Counted') = Cardinality(Counted) + 1
      BY <1>0, <3>2, <3>3, CountedFacts, OneMore, Zenon
    <3> QED
      BY <2>2, <3>4 DEF CompletedCounts
  <2> QED
    BY <1>0, <1>1, <1>2, <2>1, <2>2 DEF RecordResponse
<1> QED
  BY <1>1, <1>2, Frames DEF Changes

LEMMA InPlaces ==
  ASSUME NEW lists, NEW x
  PROVE  x \in Places(lists) <=> \E s \in Seat : \E i \in DOMAIN lists[s] : x = <<s, i>>
BY DEF Places

LEMMA PlaceAdded ==
  ASSUME NEW lists \in [Seat -> Seq(Entries)], NEW s \in Seat, NEW e \in Entries
  PROVE  LET more == [lists EXCEPT ![s] = Append(@, e)]
             new == <<s, Len(lists[s]) + 1>>
         IN  Places(more) = Places(lists) \union {new} /\ new \notin Places(lists)
<1> DEFINE more == [lists EXCEPT ![s] = Append(@, e)]
           new == <<s, Len(lists[s]) + 1>>
<1>1. /\ \A t \in Seat \ {s} : DOMAIN more[t] = DOMAIN lists[t]
      /\ DOMAIN lists[s] = 1..Len(lists[s]) /\ Len(lists[s]) \in Nat
      /\ DOMAIN more[s] = 1..(Len(lists[s]) + 1)
  OBVIOUS
<1>2. new \notin Places(lists)
  BY <1>1, InPlaces
<1>3. DOMAIN more[s] = DOMAIN lists[s] \union {Len(lists[s]) + 1}
  BY <1>1
<1>4. ASSUME NEW x PROVE x \in Places(more) <=> x \in Places(lists) \/ x = new
  <2>1. x \in Places(more) <=> \E t \in Seat : \E i \in DOMAIN more[t] : x = <<t, i>>
    BY InPlaces, Zenon
  <2>2. x \in Places(lists) <=> \E t \in Seat : \E i \in DOMAIN lists[t] : x = <<t, i>>
    BY InPlaces
  <2> HIDE DEF more
  <2> QED
    BY <1>1, <1>3, <2>1, <2>2, Zenon
<1> QED
  BY <1>2, <1>4

LEMMA PlaceRemoved ==
  ASSUME NEW lists \in [Seat -> Seq(Entries)], NEW s \in Seat, lists[s] # <<>>
  PROVE  LET fewer == [lists EXCEPT ![s] = Tail(@)]
             last == <<s, Len(lists[s])>>
         IN  Places(fewer) = Places(lists) \ {last} /\ last \in Places(lists)
<1> DEFINE fewer == [lists EXCEPT ![s] = Tail(@)]
           last == <<s, Len(lists[s])>>
<1>1. /\ \A t \in Seat \ {s} : DOMAIN fewer[t] = DOMAIN lists[t]
      /\ DOMAIN lists[s] = 1..Len(lists[s]) /\ Len(lists[s]) \in Nat \ {0}
      /\ DOMAIN fewer[s] = 1..(Len(lists[s]) - 1)
  OBVIOUS
<1>2. last \in Places(lists)
  BY <1>1, InPlaces
<1>3. DOMAIN fewer[s] = DOMAIN lists[s] \ {Len(lists[s])}
  BY <1>1
<1>4. ASSUME NEW x PROVE x \in Places(fewer) <=> x \in Places(lists) /\ x # last
  <2>1. x \in Places(fewer) <=> \E t \in Seat : \E i \in DOMAIN fewer[t] : x = <<t, i>>
    BY InPlaces
  <2>2. x \in Places(lists) <=> \E t \in Seat : \E i \in DOMAIN lists[t] : x = <<t, i>>
    BY InPlaces
  <2> HIDE DEF fewer
  <2> QED
    BY <1>1, <1>3, <2>1, <2>2
<1> QED
  BY <1>2, <1>4

(* Whoever was waitlisted was handed a seat or has a place in a waitlist.  *)
LEMMA WaitTallyStep ==
  ASSUME BooksInv, WaitTally, [ServerNext]_serverVars
  PROVE  WaitTally'
<1>0. /\ Typed /\ RequestsInHand /\ AnswersOnce /\ waiting \in [Seat -> Seq(Entries)]
  BY DEF BooksInv, Books, Typed, BookingTypes
<1>1. CASE UNCHANGED bookingVars
  BY <1>1 DEF WaitTally, Listed, bookingVars
<1>2. ASSUME NEW w \in Worker, HandleTask(w) PROVE WaitTally'
  <2>1. PICK r \in Request : r = task[w]
    BY <1>0, <1>2 DEF HandleTask, Typed, HandTypes
  <2>2. Handle(r) /\ Unanswered(r) /\ r.id <= accepted[r.client] /\ r.client \in Client
    BY <1>0, <1>2, <2>1, RequestFacts DEF HandleTask, AtWork, RequestsInHand, Taken, Handle
  <2>3. ASSUME NEW st, answers' = answers \union {Reply(r, st)}, st # "WAITLISTED"
        PROVE  Listed' = Listed
    BY <2>3, ReplyFacts DEF Listed
  <2>4. CASE Grant(r)
    BY <2>3, <2>4 DEF Grant, WaitTally
  <2>5. CASE Free(r)
    <3>1. Places(waiting') = Places(waiting) /\ handed' = handed /\ Listed' = Listed
      BY <2>3, <2>5 DEF Free
    <3> QED
      BY <3>1 DEF WaitTally
  <2>6. CASE Refuse(r)
    BY <2>3, <2>6 DEF Refuse, WaitTally
  <2>7. CASE Waitlist(r)
    <3> DEFINE s == OnlySeat(r)
               new == <<s, Len(waiting[s]) + 1>>
               a == Reply(r, "WAITLISTED")
    <3>1. s \in Seat /\ Entry(r) \in Entries
      BY <2>7, RequestFacts, ProperFacts DEF Waitlist, Waitlisted, Proper
    <3>2. /\ waiting' = [waiting EXCEPT ![s] = Append(@, Entry(r))] /\ handed' = handed
          /\ answers' = answers \union {a}
      BY <2>7 DEF Waitlist
    <3>3. Places(waiting') = Places(waiting) \union {new} /\ new \notin Places(waiting)
      BY <1>0, <3>1, <3>2, PlaceAdded
    <3>4. a \notin Listed /\ a.status = "WAITLISTED"
      BY <2>2, ReplyFacts DEF Listed, Unanswered
    <3> HIDE DEF new, a, s
    <3>5. Listed' = Listed \union {a}
      BY <3>2, <3>4 DEF Listed
    <3>6. /\ IsFiniteSet(Listed \union {a})
          /\ Cardinality(Listed \union {a}) = Cardinality(Listed) + 1
      BY <3>4, OneMore, Zenon DEF WaitTally
    <3>7. /\ IsFiniteSet(Places(waiting) \union {new})
          /\ Cardinality(Places(waiting) \union {new}) = Cardinality(Places(waiting)) + 1
      BY <3>3, OneMore, Zenon DEF WaitTally
    <3>8. Cardinality(Places(waiting)) \in Nat /\ Cardinality(handed) \in Nat
      BY FS_CardinalityType DEF WaitTally
    <3>9. /\ IsFiniteSet(Listed') /\ IsFiniteSet(handed') /\ IsFiniteSet(Places(waiting'))
          /\ Cardinality(Listed') = Cardinality(Listed) + 1
          /\ Cardinality(Places(waiting')) = Cardinality(Places(waiting)) + 1
      BY <3>2, <3>3, <3>5, <3>6, <3>7 DEF WaitTally
    <3> QED
      BY <3>2, <3>8, <3>9 DEF WaitTally
  <2>8. CASE HandOver(r)
    <3> DEFINE s == OnlySeat(r)
               last == <<s, Len(waiting[s])>>
               n == Notice(Head(waiting[s]), s)
    <3>1. s \in Seat /\ waiting[s] # <<>>
      BY <2>8, ProperFacts DEF HandOver, Cancelled, Proper
    <3>2. /\ waiting' = [waiting EXCEPT ![s] = Tail(@)] /\ handed' = handed \union {n}
          /\ Listed' = Listed
      BY <2>3, <2>8 DEF HandOver
    <3>3. Places(waiting') = Places(waiting) \ {last} /\ last \in Places(waiting)
      BY <1>0, <3>1, <3>2, PlaceRemoved
    <3>4. n \notin handed
      <4>1. Head(waiting[s]) = waiting[s][1] /\ 1 \in DOMAIN waiting[s] /\ waiting[s][1] \in Entries
        BY <1>0, <3>1
      <4>2. waiting[s][1] = [client |-> waiting[s][1].client, request |-> waiting[s][1].request]
        BY <4>1 DEF Entries
      <4>3. n.client = waiting[s][1].client /\ n.request = waiting[s][1].request
        BY <4>1 DEF Notice
      <4> HIDE DEF n, s
      <4> QED
        BY <1>0, <3>1, <4>1, <4>2, <4>3 DEF AnswersOnce
    <3> HIDE DEF last, n, s
    <3>6. /\ IsFiniteSet(handed \union {n})
          /\ Cardinality(handed \union {n}) = Cardinality(handed) + 1
      BY <3>4, OneMore, Zenon DEF WaitTally
    <3>7. /\ IsFiniteSet(Places(waiting) \ {last})
          /\ Cardinality(Places(waiting) \ {last}) = Cardinality(Places(waiting)) - 1
      BY <3>3, OneLess, Zenon DEF WaitTally
    <3>8. Cardinality(Places(waiting)) \in Nat /\ Cardinality(handed) \in Nat
      BY FS_CardinalityType DEF WaitTally
    <3>9. /\ IsFiniteSet(Listed') /\ IsFiniteSet(handed') /\ IsFiniteSet(Places(waiting'))
          /\ Cardinality(handed') = Cardinality(handed) + 1
          /\ Cardinality(Places(waiting')) = Cardinality(Places(waiting)) - 1
      BY <3>2, <3>3, <3>6, <3>7 DEF WaitTally
    <3> QED
      BY <3>2, <3>8, <3>9 DEF WaitTally
  <2> QED
    BY <2>2, <2>4, <2>5, <2>6, <2>7, <2>8 DEF Handle
<1> QED
  BY <1>1, <1>2, Frames DEF Changes

(* What main has read is new to the seats, the queue and the workers.      *)
LEMMA LastStep ==
  ASSUME BooksInv, LastAccepted, [ServerNext]_serverVars
  PROVE  LastAccepted'
<1>0. /\ Typed /\ RequestsInHand /\ AnswersOnce /\ accepted \in [Client -> Nat]
      /\ queue \in Seq(Request) /\ Main \in Thread /\ Worker \subseteq Thread
      /\ pc \in [Thread -> MainAt \union WorkerAt \union NotifierAt \union MonitorAt]
  BY DEF BooksInv, Books, Typed, TallyTypes, QueueTypes, PcTypes, Thread
<1> DEFINE Alone(r) == /\ \A j \in DOMAIN queue : queue[j].client = r.client => queue[j].id # r.id
                       /\ \A w \in Worker : pc[w] = "handle" /\ task[w].client = r.client
                                             => task[w].id # r.id
<1>1. ASSUME NEW r, Alone(r), UNCHANGED queue \/ \E w \in Worker : TakeTask(w)
      PROVE  Alone(r)'
  <2>1. ASSUME NEW w \in Worker, TakeTask(w), UNCHANGED queue PROVE queue = <<>>
    <3>1. queue # <<>> => Len(Tail(queue)) = Len(queue) - 1 /\ Len(queue) \in Nat
      BY <1>0
    <3>2. queue # <<>> => queue' = Tail(queue)
      BY <2>1 DEF TakeTask
    <3>3. queue # <<>> => Tail(queue) # queue
      BY <1>0, TailDiffers
    <3> QED
      BY <2>1, <3>2, <3>3
  <2>2. \A j \in DOMAIN queue' : \E k \in DOMAIN queue : queue'[j] = queue[k]
    <3>1. CASE UNCHANGED queue
      BY <3>1
    <3>2. ASSUME queue # <<>>, queue' = Tail(queue)
          PROVE  \A j \in DOMAIN queue' : \E k \in DOMAIN queue : queue'[j] = queue[k]
      BY <1>0, <3>2, TailFacts
    <3> QED
      BY <1>1, <3>1, <3>2 DEF TakeTask
  <2>3. \A j \in DOMAIN queue' : queue'[j].client = r.client => queue'[j].id # r.id
    BY <1>1, <2>2
  <2>4. ASSUME NEW w \in Worker, pc'[w] = "handle", task'[w].client = r.client
        PROVE  task'[w].id # r.id
    <3>1. CASE pc[w] = "handle"
      <4>1. task'[w] = task[w]
        BY <1>0, <2>4, <3>1, WorkersLive DEF WorkerLife, AtWork
      <4> QED
        BY <1>1, <2>4, <3>1, <4>1
    <3>2. CASE pc[w] # "handle"
      <4>1. TakeTask(w)
        BY <1>0, <2>4, <3>2, SendsMove DEF SendMoves
      <4>2. queue # <<>> /\ task' = [task EXCEPT ![w] = Head(queue)]
        BY <1>0, <2>4, <3>2, <4>1 DEF TakeTask
      <4>3. Head(queue) = queue[1] /\ 1 \in DOMAIN queue
        BY <1>0, <4>2, QueueFacts
      <4>4. task'[w] = queue[1]
        BY <1>0, <4>2, <4>3 DEF Typed, HandTypes
      <4> QED
        BY <1>1, <2>4, <4>3, <4>4
    <3> QED
      BY <3>1, <3>2
  <2> QED
    BY <2>3, <2>4
<1>2. ASSUME Holding', Holding PROVE LastAccepted'
  <2>0. PICK r \in Request : r = task[Main]
    BY <1>0, <1>2 DEF Typed, HandTypes, Holding
  <2>1. task'[Main] = r /\ r.client \in Client
    BY <1>0, <1>2, <2>0, MainLives, RequestFacts DEF MainLife
  <2>2. r.id = accepted[r.client] /\ Unanswered(r) /\ Alone(r)
    BY <1>2, <2>0 DEF LastAccepted
  <2>3. pc[Main] # "listen"
    BY <1>2 DEF Holding
  <2>4. accepted' = accepted
    BY <2>3, Frames DEF Changes, ReadRequest
  <2>5. ASSUME Put PROVE UNCHANGED queue
    <3>1. ASSUME NEW q \in WakeWorker([pc EXCEPT ![Main] = "listen"]), pc' = q PROVE FALSE
      <4>1. q[Main] = "listen"
        BY <1>0, <3>1 DEF WakeWorker, Main, ThreadAssumption
      <4> QED
        BY <1>2, <3>1, <4>1 DEF Holding
    <3> QED
      BY <2>5, <3>1 DEF Put
  <2>6. UNCHANGED queue \/ \E w \in Worker : TakeTask(w)
    BY <2>5, Frames DEF Changes
  <2>7. Unanswered(r)'
    <3>1. CASE UNCHANGED bookingVars
      BY <2>2, <3>1 DEF Unanswered, bookingVars
    <3>2. ASSUME NEW w \in Worker, HandleTask(w) PROVE Unanswered(r)'
      <4>1. /\ pc[w] = "handle"
            /\ \E st \in Status : answers' = answers \union {Reply(task[w], st)}
        BY <3>2 DEF HandleTask
      <4>2. task[w].client = r.client => task[w].id # r.id
        BY <2>2, <4>1
      <4> QED
        BY <2>1, <2>2, <4>1, <4>2, ReplyFacts DEF Unanswered
    <3> QED
      BY <3>1, <3>2, Frames DEF Changes
  <2>8. Alone(r)'
    BY <1>1, <2>2, <2>6
  <2> QED
    BY <2>1, <2>2, <2>4, <2>7, <2>8 DEF LastAccepted
<1>3. ASSUME Holding', ~Holding PROVE LastAccepted'
  <2>1. PICK c \in Client :
          /\ ReadRequest(c) /\ task'[Main] = Head(toServer[c])
          /\ Head(toServer[c]).id = accepted[c] + 1
          /\ accepted' = [accepted EXCEPT ![c] = Head(toServer[c]).id]
    BY <1>0, <1>3, MainLives DEF MainLife
  <2>11. PICK r : r = Head(toServer[c])
    OBVIOUS
  <2>2. toServer[c] \in Seq(Request \union {Hello}) /\ toServer[c] # <<>> /\ r # Hello
    BY <1>0, <2>1, <2>11 DEF ReadRequest, Typed, WireTypes
  <2>3. r \in Request /\ r = toServer[c][1] /\ 1 \in DOMAIN toServer[c]
    BY <2>2, <2>11, QueueFacts
  <2>4. r.client = c
    BY <2>3 DEF BooksInv, WireOK
  <2>5. /\ UNCHANGED <<answers, queue>> /\ \A w \in Worker : pc'[w] = pc[w] /\ task'[w] = task[w]
    BY <1>0, <2>1 DEF ReadRequest, Goes, RefuseLine, Fail, bookingVars, inputVars, Main,
       ThreadAssumption, Typed, HandTypes
  <2>6. accepted'[c] = r.id /\ r.id = accepted[c] + 1 /\ accepted[c] \in Nat
    BY <1>0, <2>1, <2>11
  <2>7. Unanswered(r)'
    BY <1>0, <2>4, <2>5, <2>6 DEF Unanswered, AnswersOnce, Typed, BookingTypes, Replies
  <2>8. \A j \in DOMAIN queue : queue[j].client = c => queue[j].id # r.id
    <3>1. \A j \in DOMAIN queue : queue[j] \in Request /\ queue[j].id <= accepted[queue[j].client]
      BY <1>0 DEF RequestsInHand, Taken
    <3> QED
      BY <2>6, <3>1, RequestFacts
  <2>9. \A w \in Worker : pc[w] = "handle" /\ task[w].client = c => task[w].id # r.id
    <3>1. \A w \in Worker : pc[w] = "handle" =>
            task[w] \in Request /\ task[w].id <= accepted[task[w].client]
      BY <1>0 DEF RequestsInHand, Taken, AtWork, Typed, HandTypes
    <3> QED
      BY <2>6, <3>1, RequestFacts
  <2>10. task'[Main] = r
    BY <2>1, <2>11
  <2> QED
    BY <2>4, <2>5, <2>6, <2>7, <2>8, <2>9, <2>10 DEF LastAccepted
<1> QED
  BY <1>2, <1>3 DEF LastAccepted

-----------------------------------------------------------------------------
(* Responses on their way *)

(* A line of a client was there before, nearer to the end by one if the    *)
(* client has read a line, or has just been added.                         *)
LEMMA LinesShift ==
  ASSUME Typed, [ServerNext]_serverVars, NEW c \in Client
  PROVE  \E d \in {0, 1} :
           /\ LineRead(c) => d = 1
           /\ \A j \in DOMAIN toClient'[c] :
                \/ j \in Nat /\ j + d \in DOMAIN toClient[c] /\ toClient'[c][j] = toClient[c][j + d]
                \/ /\ d = 0 /\ j = Len(toClient[c]) + 1
                   /\ \E m \in Lines : LineAdded(c, m) /\ toClient'[c][j] = m
<1> DEFINE Shift(d) == \A j \in DOMAIN toClient'[c] :
                \/ j \in Nat /\ j + d \in DOMAIN toClient[c] /\ toClient'[c][j] = toClient[c][j + d]
                \/ /\ d = 0 /\ j = Len(toClient[c]) + 1
                   /\ \E m \in Lines : LineAdded(c, m) /\ toClient'[c][j] = m
<1>0. toClient[c] \in Seq(Lines)
  BY DEF Typed, WireTypes
<1>1. CASE LineRead(c)
  <2>1. toClient'[c] = Tail(toClient[c]) /\ toClient[c] # <<>>
    BY <1>1 DEF LineRead
  <2>2. Shift(1)
    BY <1>0, <2>1, TailFacts
  <2> HIDE DEF Shift
  <2> QED
    BY <2>2 DEF Shift
<1>2. CASE ~LineRead(c) /\ toClient'[c] = toClient[c]
  <2>1. Shift(0)
    BY <1>0, <1>2
  <2> HIDE DEF Shift
  <2> QED
    BY <1>2, <2>1 DEF Shift
<1>3. CASE toClient'[c] = <<>>
  <2>1. Shift(1)
    BY <1>3
  <2> HIDE DEF Shift
  <2> QED
    BY <2>1 DEF Shift
<1>4. ASSUME ~LineRead(c), NEW m \in Lines, LineAdded(c, m) PROVE \E d \in {0} : Shift(d)
  <2>1. toClient'[c] = Append(toClient[c], m)
    BY <1>4 DEF LineAdded
  <2>2. Shift(0)
    BY <1>0, <1>4, <2>1, AppendFacts
  <2> HIDE DEF Shift
  <2> QED
    BY <2>2
<1> HIDE DEF Shift
<1>5. CASE ~LineRead(c) /\ \E m \in Lines : LineAdded(c, m)
  BY <1>4, <1>5 DEF Shift
<1> QED
  BY <1>1, <1>2, <1>3, <1>5, LinesMove DEF Shift

(* A worker that has a response to send keeps it until it sends it.        *)
LEMMA SendingMoves ==
  ASSUME Typed, [ServerNext]_serverVars, NEW w \in Sending'
  PROVE  w \in Worker /\ task'[w] = task[w] /\ (w \in Sending \/ HandleTask(w))
<1>1. w \in Worker /\ pc'[w] \in {"submit", "send"}
  BY DEF Sending
<1>2. WorkerLife(w)
  BY <1>1, WorkersLive
<1>3. CASE w \in Sending
  BY <1>1, <1>2, <1>3 DEF WorkerLife, AtWork, Replying, Sending
<1>4. CASE w \notin Sending
  <2>1. HandleTask(w)
    BY <1>1, <1>2, <1>4 DEF WorkerLife, Sending
  <2> QED
    BY <1>1, <2>1 DEF HandleTask
<1> QED
  BY <1>3, <1>4

(* A request is pending until its response is read.                        *)
LEMMA PendingKept ==
  ASSUME Typed, [ServerNext]_serverVars, NEW c \in Client, NEW p \in view[c].pending
  PROVE  p \in view'[c].pending \/ \E m \in Lines : Hears(c, m, p)
<1> DEFINE Goal == p \in view'[c].pending \/ \E m \in Lines : Hears(c, m, p)
<1>1. ASSUME UNCHANGED view PROVE Goal
  BY <1>1
<1>2. ASSUME NEW d \in Client, ClientStep(d), d # c PROVE Goal
  BY <1>2, OthersKeep
<1>3. ASSUME ClientStep(c) PROVE Goal
  <2>1. ASSUME NEW r \in Request, Asks(c, r) PROVE Goal
    BY <2>1 DEF Asks
  <2>2. ASSUME NEW m \in Lines, NEW r \in Request, Hears(c, m, r) PROVE Goal
    <3>1. CASE p = r
      BY <2>2, <3>1
    <3>2. CASE p # r
      BY <2>2, <3>2 DEF Hears, RespView
    <3> QED
      BY <3>1, <3>2
  <2>3. ASSUME NEW m \in Lines, NEW r \in Request, Learns(c, m, r) PROVE Goal
    BY <2>3 DEF Learns, NotifyView
  <2> HIDE DEF Goal
  <2> QED
    BY <1>1, <1>3, <2>1, <2>2, <2>3, ClientMoves
<1> HIDE DEF Goal
<1> QED
  BY <1>1, <1>2, <1>3, Frames DEF Goal, Changes

(* A request that the seats decide is pending.                             *)
LEMMA HandledPending ==
  ASSUME BooksInv, NEW w \in Worker, HandleTask(w)
  PROVE  /\ task[w] \in Request /\ Unanswered(task[w]) /\ task[w].client \in Client
         /\ task[w] \in view[task[w].client].pending /\ UNCHANGED <<view, toClient, task>>
<1>1. Typed /\ RequestsInHand /\ AtWork(w) /\ Unanswered(task[w])
  BY DEF BooksInv, HandleTask, AtWork, Handle
<1>2. task[w] \in Request
  BY <1>1 DEF Typed, HandTypes, AtWork
<1>3. UNCHANGED <<view, toClient, task>>
  BY DEF HandleTask, clientVars, wireVars
<1> QED
  BY <1>1, <1>2, <1>3, RequestFacts DEF RequestsInHand, Taken, InHand

LEMMA RespAdded ==
  ASSUME Typed, NEW c \in Client, NEW m \in Lines, LineAdded(c, m), m.type = "RESP"
  PROVE  \E w \in Sending : /\ task[w].client = c /\ m.id = task[w].id /\ m.seats = task[w].seats
                            /\ pc'[w] = "record" /\ w \in Replying
<1>1. m # Bye /\ \A n : m # Notify(n)
  BY NotifyIsNotBye
<1> QED
  BY <1>1 DEF LineAdded, Sending, Replying, Resp

LEMMA RespOnceStep ==
  ASSUME BooksInv, \A c \in Client : RespOnce(c), [ServerNext]_serverVars
  PROVE  \A c \in Client : RespOnce(c)'
<1> SUFFICES ASSUME NEW c \in Client PROVE RespOnce(c)'
  OBVIOUS
<1> DEFINE q == toClient[c]
<1>0. /\ Typed /\ RequestsInHand /\ ResultsTrue /\ CountOK(c) /\ ViewOK(c) /\ AnswersOnce
      /\ q \in Seq(Lines) /\ RespOnce(c)
  BY DEF BooksInv, Books, Typed, WireTypes
<1>1. ASSUME NEW m \in Lines, NEW r, Hears(c, m, r)
      PROVE  /\ LineRead(c) /\ r.id = q[1].id
             /\ \A w \in Sending : task[w].client = c => task[w].id # r.id
             /\ \A k \in DOMAIN q : q[k].type = "RESP" /\ k # 1 => q[k].id # r.id
  <2>1. /\ LineRead(c) /\ q # <<>> /\ m = Head(q) /\ m.type = "RESP" /\ r.id = m.id
    BY <1>0, <1>1 DEF Hears, RespView, LineRead, Typed, WireTypes
  <2>2. 1 \in DOMAIN q /\ q[1] = m
    BY <1>0, <2>1, QueueFacts
  <2> QED
    BY <1>0, <2>1, <2>2 DEF RespOnce
<1>2. ASSUME NEW w \in Worker, HandleTask(w), NEW v \in Replying
      PROVE  task[w].client = task[v].client => task[w].id # task[v].id
  <2>1. Unanswered(task[w])
    BY <1>2 DEF HandleTask, Handle
  <2>2. Reply(task[v], reply[v]) \in answers
    BY <1>0 DEF ResultsTrue
  <2> QED
    BY <2>1, <2>2, ReplyFacts DEF Unanswered
<1>3. ASSUME NEW w \in Worker, HandleTask(w), NEW j \in DOMAIN q, q[j].type = "RESP"
      PROVE  task[w].client = c => task[w].id # q[j].id
  <2>1. Unanswered(task[w])
    BY <1>3 DEF HandleTask, Handle
  <2>2. [client |-> c, request |-> q[j].id, status |-> q[j].status] \in answers
    BY <1>0, <1>3 DEF ResultsTrue, LineTrue
  <2> QED
    BY <2>1, <2>2 DEF Unanswered
<1>4. ASSUME NEW w \in Sending', task'[w].client = c PROVE task'[w] \in view'[c].pending
  <2>1. w \in Worker /\ task'[w] = task[w] /\ (w \in Sending \/ HandleTask(w))
    BY <1>0, SendingMoves
  <2>2. CASE w \in Sending
    <3>1. task[w] \in view[c].pending
      BY <1>0, <1>4, <2>1, <2>2 DEF RespOnce
    <3>2. \A m \in Lines : ~Hears(c, m, task[w])
      BY <1>1, <1>4, <2>1, <2>2
    <3> QED
      BY <1>0, <2>1, <3>1, <3>2, PendingKept
  <2>3. CASE HandleTask(w)
    BY <1>4, <2>1, <2>3, HandledPending
  <2> QED
    BY <2>1, <2>2, <2>3
<1>5. PICK d \in {0, 1} :
        /\ LineRead(c) => d = 1
        /\ \A j \in DOMAIN toClient'[c] :
             \/ j \in Nat /\ j + d \in DOMAIN q /\ toClient'[c][j] = q[j + d]
             \/ d = 0 /\ j = Len(q) + 1 /\ \E m \in Lines : LineAdded(c, m) /\ toClient'[c][j] = m
  BY <1>0, LinesShift
<1> HIDE DEF q
<1>6. ASSUME NEW j \in DOMAIN toClient'[c], toClient'[c][j].type = "RESP",
             j + d \in DOMAIN q, toClient'[c][j] = q[j + d], j \in Nat
      PROVE  /\ \E r \in view'[c].pending : r.id = q[j + d].id /\ r.seats = q[j + d].seats
             /\ \A k \in DOMAIN toClient'[c] :
                  toClient'[c][k].type = "RESP" /\ k # j => toClient'[c][k].id # q[j + d].id
             /\ \A w \in Sending' : task'[w].client = c => task'[w].id # q[j + d].id
  <2>0. q[j + d].type = "RESP"
    BY <1>6
  <2>1. PICK r \in view[c].pending : r.id = q[j + d].id /\ r.seats = q[j + d].seats
    BY <1>0, <1>6, <2>0 DEF RespOnce, q
  <2>2. ASSUME NEW m \in Lines, Hears(c, m, r) PROVE FALSE
    <3>1. d = 1 /\ j + d # 1
      <4>1. d = 1
        BY <1>1, <1>5, <2>2
      <4>2. j # 0
        BY <1>6, TypedStep, <1>0 DEF Typed, WireTypes
      <4> QED
        BY <1>6, <4>1, <4>2
    <3> QED
      BY <1>1, <1>6, <2>0, <2>1, <2>2, <3>1
  <2>3. r \in view'[c].pending
    BY <1>0, <2>2, PendingKept
  <2>4. ASSUME NEW k \in DOMAIN toClient'[c], toClient'[c][k].type = "RESP", k # j
        PROVE  toClient'[c][k].id # q[j + d].id
    <3>1. CASE k \in Nat /\ k + d \in DOMAIN q /\ toClient'[c][k] = q[k + d]
      <4>1. k + d # j + d
        BY <1>6, <2>4, <3>1
      <4> QED
        BY <1>0, <1>6, <2>0, <2>4, <3>1, <4>1 DEF RespOnce, q
    <3>2. ASSUME NEW m \in Lines, LineAdded(c, m), toClient'[c][k] = m
          PROVE  toClient'[c][k].id # q[j + d].id
      <4>1. PICK v \in Sending : task[v].client = c /\ m.id = task[v].id
        BY <1>0, <2>4, <3>2, RespAdded
      <4> QED
        BY <1>0, <1>6, <2>0, <3>2, <4>1 DEF RespOnce, q
    <3> QED
      BY <1>5, <3>1, <3>2
  <2>5. ASSUME NEW w \in Sending', task'[w].client = c PROVE task'[w].id # q[j + d].id
    <3>1. w \in Worker /\ task'[w] = task[w] /\ (w \in Sending \/ HandleTask(w))
      BY <1>0, SendingMoves
    <3> QED
      BY <1>0, <1>3, <1>6, <2>0, <2>5, <3>1 DEF RespOnce, q
  <2> QED
    BY <2>1, <2>3, <2>4, <2>5
<1>7. ASSUME NEW j \in DOMAIN toClient'[c], toClient'[c][j].type = "RESP", d = 0,
             j = Len(q) + 1, NEW m \in Lines, LineAdded(c, m), toClient'[c][j] = m
      PROVE  /\ \E r \in view'[c].pending : r.id = m.id /\ r.seats = m.seats
             /\ \A k \in DOMAIN toClient'[c] :
                  toClient'[c][k].type = "RESP" /\ k # j => toClient'[c][k].id # m.id
             /\ \A w \in Sending' : task'[w].client = c => task'[w].id # m.id
  <2>1. PICK v \in Sending : /\ task[v].client = c /\ m.id = task[v].id /\ m.seats = task[v].seats
                             /\ pc'[v] = "record" /\ v \in Replying
    BY <1>0, <1>7, RespAdded
  <2>2. task[v] \in view[c].pending
    BY <1>0, <2>1 DEF RespOnce
  <2>3. task[v] \in view'[c].pending
    <3>1. \A l \in Lines : ~Hears(c, l, task[v])
      BY <1>1, <2>1
    <3> QED
      BY <1>0, <2>2, <3>1, PendingKept
  <2>4. ASSUME NEW k \in DOMAIN toClient'[c], toClient'[c][k].type = "RESP", k # j
        PROVE  toClient'[c][k].id # m.id
    <3>1. k + d \in DOMAIN q /\ toClient'[c][k] = q[k + d]
      BY <1>5, <1>7, <2>4
    <3> QED
      BY <1>0, <2>1, <2>4, <3>1 DEF RespOnce, q
  <2>5. ASSUME NEW w \in Sending', task'[w].client = c PROVE task'[w].id # m.id
    <3>1. w \in Worker /\ task'[w] = task[w] /\ (w \in Sending \/ HandleTask(w))
      BY <1>0, SendingMoves
    <3>2. w # v
      BY <2>1, <2>5 DEF Sending
    <3>3. CASE w \in Sending
      <4>1. w \in Replying
        BY <3>3 DEF Sending, Replying
      <4> QED
        BY <1>0, <2>1, <2>5, <3>1, <3>2, <4>1 DEF CountOK
    <3>4. CASE HandleTask(w)
      BY <1>2, <2>1, <2>5, <3>1, <3>4
    <3> QED
      BY <3>1, <3>3, <3>4
  <2> QED
    BY <2>1, <2>3, <2>4, <2>5
<1>8. ASSUME NEW j \in DOMAIN toClient'[c], toClient'[c][j].type = "RESP"
      PROVE  LET l == toClient'[c][j] IN
             /\ \E r \in view'[c].pending : r.id = l.id /\ r.seats = l.seats
             /\ \A k \in DOMAIN toClient'[c] :
                  toClient'[c][k].type = "RESP" /\ k # j => toClient'[c][k].id # l.id
             /\ \A w \in Sending' : task'[w].client = c => task'[w].id # l.id
  <2>1. CASE j \in Nat /\ j + d \in DOMAIN q /\ toClient'[c][j] = q[j + d]
    BY <1>6, <1>8, <2>1
  <2>2. CASE d = 0 /\ j = Len(q) + 1 /\ \E m \in Lines : LineAdded(c, m) /\ toClient'[c][j] = m
    BY <1>7, <1>8, <2>2
  <2> QED
    BY <1>5, <2>1, <2>2
<1> QED
  BY <1>4, <1>8 DEF RespOnce

-----------------------------------------------------------------------------
(* Notices on their way *)

LEMMA NotifyInjective ==
  ASSUME NEW n \in Notices, NEW p \in Notices, n.client = p.client, Notify(n) = Notify(p)
  PROVE  n = p
<1>1. n.request = p.request /\ <<n.seat>> = <<p.seat>>
  BY DEF Notify
<1>2. n.seat = p.seat
  BY <1>1
<1> QED
  BY <1>1, <1>2 DEF Notices

LEMMA NoticeAdded ==
  ASSUME Typed, NEW c \in Client, NEW m \in Lines, LineAdded(c, m), m.type = "NOTIFY"
  PROVE  /\ pc["notifier"] = "send" /\ pc'["notifier"] = "count"
         /\ task["notifier"].client = c /\ m = Notify(task["notifier"])
         /\ task["notifier"] \in Notices
<1>1. m # Bye /\ \A r, st : m # Resp(r, st)
  BY NotifyIsNotBye, RespIsNotBye
<1> QED
  BY <1>1 DEF LineAdded, Typed, HandTypes

(* A notice on the wire was there before, or the notifier has just sent it.*)
LEMMA OnWireBefore ==
  ASSUME Typed, [ServerNext]_serverVars, NEW n \in Notices, OnWire(n)'
  PROVE  \/ OnWire(n)
         \/ pc["notifier"] = "send" /\ pc'["notifier"] = "count" /\ task["notifier"] = n
<1> DEFINE c == n.client
<1>0. c \in Client
  BY NoticeFacts
<1>1. PICK j \in DOMAIN toClient'[c] : toClient'[c][j] = Notify(n)
  BY DEF OnWire
<1>2. CASE \E m \in Lines : LineAdded(c, m) /\ toClient'[c][j] = m
  <2>1. Notify(n).type = "NOTIFY"
    BY NotifyIsNotBye
  <2> QED
    BY <1>0, <1>1, <1>2, <2>1, NoticeAdded, NotifyInjective
<1>3. CASE \E d \in {0, 1} : j + d \in DOMAIN toClient[c] /\ toClient'[c][j] = toClient[c][j + d]
  BY <1>1, <1>3 DEF OnWire
<1> QED
  BY <1>0, <1>2, <1>3, LinesShift

(* The notifier carries a notice it has carried before or has just taken.  *)
LEMMA CarriedBefore ==
  ASSUME Typed, [ServerNext]_serverVars, Carrying'
  PROVE  \/ Carrying /\ task'["notifier"] = task["notifier"]
         \/ /\ ~Carrying /\ notices # <<>> /\ notices' = Tail(notices)
            /\ task'["notifier"] = Head(notices) /\ pc["notifier"] = "take"
<1>1. NotifierLife
  BY NotifierLives
<1>2. TakeNotice => pc["notifier"] = "take"
  BY DEF TakeNotice
<1> QED
  BY <1>1, <1>2 DEF NotifierLife

(* A worker has a notice in hand from before, or that it has just made.    *)
LEMMA InHandBefore ==
  ASSUME Typed, [ServerNext]_serverVars, NEW w \in Worker, NEW n \in notice'[w]
  PROVE  \/ n \in notice[w]
         \/ HandleTask(w) /\ n \in handed' /\ n \notin handed
<1>0. notice \in [Worker -> SUBSET Notices]
  BY DEF Typed, HandTypes
<1>1. ASSUME NEW v \in Worker, HandleTask(v) PROVE n \in notice[w] \/ (v = w /\ n \in handed' \ handed)
  BY <1>0, <1>1 DEF HandleTask
<1>2. ASSUME NEW v \in Worker, SubmitNotice(v) PROVE n \in notice[w]
  BY <1>0, <1>2 DEF SubmitNotice
<1> QED
  BY <1>1, <1>2, Frames DEF Changes

(* A notice in the queue was there before, nearer to its end by one if the *)
(* notifier has taken one, or a worker has just submitted it.              *)
LEMMA NoticesShift ==
  ASSUME Typed, [ServerNext]_serverVars
  PROVE  \E d \in {0, 1} :
           /\ Carrying' /\ ~Carrying => d = 1
           /\ \A j \in DOMAIN notices' :
                \/ j \in Nat \ {0} /\ j + d \in DOMAIN notices /\ notices'[j] = notices[j + d]
                \/ /\ d = 0 /\ j = Len(notices) + 1
                   /\ \E w \in Worker : notices'[j] \in notice[w] /\ notice'[w] = {}
<1> DEFINE Shift(d) == \A j \in DOMAIN notices' :
                \/ j \in Nat \ {0} /\ j + d \in DOMAIN notices /\ notices'[j] = notices[j + d]
                \/ /\ d = 0 /\ j = Len(notices) + 1
                   /\ \E w \in Worker : notices'[j] \in notice[w] /\ notice'[w] = {}
<1>0. notices \in Seq(Notices) /\ notice \in [Worker -> SUBSET Notices]
  BY DEF Typed, QueueTypes, HandTypes
<1>1. ASSUME notices # <<>>, notices' = Tail(notices) PROVE Shift(1)
  BY <1>0, <1>1, TailFacts
<1>2. ASSUME UNCHANGED notices PROVE Shift(0)
  BY <1>0, <1>2
<1>3. ASSUME NEW w \in Worker, SubmitNotice(w) PROVE Shift(0)
  <2>1. CASE UNCHANGED notices
    BY <1>2, <2>1
  <2>2. ASSUME NEW n \in notice[w], notices' = Append(notices, n) PROVE Shift(0)
    <3>1. notice'[w] = {} /\ n \in Notices
      BY <1>0, <1>3 DEF SubmitNotice
    <3> QED
      BY <1>0, <2>2, <3>1, AppendFacts
  <2> HIDE DEF Shift
  <2> QED
    BY <1>3, <2>1, <2>2 DEF SubmitNotice
<1> HIDE DEF Shift
<1>4. CASE Carrying' /\ ~Carrying
  <2>1. notices # <<>> /\ notices' = Tail(notices)
    BY <1>4, CarriedBefore
  <2> QED
    BY <1>1, <2>1 DEF Shift
<1>5. TakeNotice => UNCHANGED notices \/ (notices # <<>> /\ notices' = Tail(notices))
  BY DEF TakeNotice
<1>6. CASE ~(Carrying' /\ ~Carrying)
  <2>1. Shift(0) \/ Shift(1)
    BY <1>1, <1>2, <1>3, <1>5, Frames DEF Changes
  <2> QED
    BY <1>6, <2>1 DEF Shift
<1> QED
  BY <1>4, <1>6

(* What a worker has just made is nowhere else.                            *)
LEMMA NewNotice ==
  ASSUME BooksInv, NEW w \in Worker, HandleTask(w), NEW n \in Notices, n \notin handed
  PROVE  /\ \A v \in Worker : n \notin notice[v]
         /\ \A v \in Worker : v # w => notice'[v] = notice[v]
         /\ n \notin InQueue' /\ n \notin Carried' /\ ~OnWire(n)'
<1>0. ResultsTrue /\ Typed
  BY DEF BooksInv
<1>1. UNCHANGED <<notices, toClient, task>> /\ pc'["notifier"] = pc["notifier"]
  BY <1>0 DEF HandleTask, Goes, noticeVars, wireVars, Typed, PcTypes, Thread
<1>2. \A v \in Worker : n \notin notice[v]
  BY <1>0 DEF ResultsTrue
<1>3. \A v \in Worker : v # w => notice'[v] = notice[v]
  BY <1>0 DEF HandleTask, Typed, HandTypes
<1>4. n \notin InQueue'
  BY <1>0, <1>1 DEF ResultsTrue, InQueue
<1>5. n \notin Carried'
  BY <1>0, <1>1 DEF ResultsTrue, Carried, Carrying
<1>6. ~OnWire(n)
  <2> SUFFICES ASSUME NEW j \in DOMAIN toClient[n.client], toClient[n.client][j] = Notify(n)
               PROVE  FALSE
    BY DEF OnWire
  <2>1. n.client \in Client /\ Notify(n).type = "NOTIFY"
    BY NoticeFacts, NotifyIsNotBye
  <2>2. LineTrue(n.client, Notify(n))
    BY <1>0, <2>1 DEF ResultsTrue
  <2>3. PICK p \in handed : p.client = n.client /\ Notify(n) = Notify(p)
    BY <2>1, <2>2 DEF LineTrue
  <2>4. p = n
    BY <1>0, <2>3, NotifyInjective DEF Typed, BookingTypes
  <2> QED
    BY <2>3, <2>4
<1>7. ~OnWire(n)'
  BY <1>1, <1>6 DEF OnWire
<1> QED
  BY <1>2, <1>3, <1>4, <1>5, <1>7

LEMMA NoticesApartStep ==
  ASSUME BooksInv, NoticesApart, [ServerNext]_serverVars
  PROVE  NoticesApart'
<1>0. /\ Typed /\ Typed' /\ ResultsTrue /\ handed \subseteq Notices /\ notices \in Seq(Notices)
      /\ handed' \subseteq Notices /\ ResultsTrue'
  BY TypedStep, BooksInvStep DEF BooksInv, Typed, BookingTypes, QueueTypes
<1>1. PICK d \in {0, 1} :
        /\ Carrying' /\ ~Carrying => d = 1
        /\ \A j \in DOMAIN notices' :
             \/ j \in Nat \ {0} /\ j + d \in DOMAIN notices /\ notices'[j] = notices[j + d]
             \/ /\ d = 0 /\ j = Len(notices) + 1
                /\ \E w \in Worker : notices'[j] \in notice[w] /\ notice'[w] = {}
  BY <1>0, NoticesShift
<1>2. ASSUME NEW n \in Carried'
      PROVE  n \in Carried \/ (d = 1 /\ notices # <<>> /\ n = notices[1] /\ 1 \in DOMAIN notices)
  <2>1. Carrying' /\ n = task'["notifier"]
    BY <1>2 DEF Carried
  <2>2. CASE Carrying /\ task'["notifier"] = task["notifier"]
    BY <2>1, <2>2 DEF Carried
  <2>3. CASE ~Carrying /\ notices # <<>> /\ task'["notifier"] = Head(notices)
    BY <1>0, <1>1, <2>1, <2>3, QueueFacts
  <2> QED
    BY <1>0, <2>1, <2>2, <2>3, CarriedBefore
<1>3. ASSUME NEW n \in Notices, OnWire(n)' PROVE OnWire(n) \/ n \in Carried
  BY <1>0, <1>3, OnWireBefore DEF Carried, Carrying
<1>4. ASSUME NEW w \in Worker, NEW n \in notice'[w]
      PROVE  /\ \A v \in Worker : v # w => n \notin notice'[v]
             /\ n \notin InQueue' /\ n \notin Carried' /\ ~OnWire(n)'
  <2>0. n \in Notices
    BY <1>0, <1>4 DEF Typed, HandTypes
  <2>1. CASE n \in notice[w]
    <3>1. n \in handed
      BY <1>0, <2>1 DEF ResultsTrue
    <3>2. /\ \A v \in Worker : v # w => n \notin notice[v]
          /\ n \notin InQueue /\ n \notin Carried /\ ~OnWire(n)
      BY <2>1 DEF NoticesApart
    <3>3. \A v \in Worker : v # w => n \notin notice'[v]
      BY <1>0, <3>1, <3>2, InHandBefore
    <3>4. ASSUME NEW j \in DOMAIN notices', notices'[j] = n PROVE FALSE
      BY <1>1, <1>4, <3>2, <3>4 DEF InQueue
    <3>5. n \notin Carried'
      BY <1>2, <3>2 DEF InQueue
    <3> QED
      BY <1>3, <2>0, <3>2, <3>3, <3>4, <3>5 DEF InQueue
  <2>2. CASE HandleTask(w) /\ n \notin handed
    BY <2>0, <2>2, NewNotice
  <2> QED
    BY <1>0, <2>1, <2>2, InHandBefore
<1>5. ASSUME NEW j \in DOMAIN notices'
      PROVE  /\ \A k \in DOMAIN notices' : k # j => notices'[k] # notices'[j]
             /\ notices'[j] \notin Carried' /\ ~OnWire(notices[j])'
  <2> DEFINE n == notices'[j]
  <2>0. n \in Notices /\ j \in Nat
    BY <1>0 DEF Typed, QueueTypes
  <2>1. ASSUME NEW p, p = n, j + d \in DOMAIN notices, p = notices[j + d], j \in Nat \ {0}
        PROVE  /\ \A k \in DOMAIN notices' : k # j => notices'[k] # p
               /\ p \notin Carried' /\ ~OnWire(p)'
    <3>1. /\ \A k \in DOMAIN notices : k # j + d => notices[k] # p
          /\ p \notin Carried /\ ~OnWire(p) /\ p \in InQueue
      BY <2>1 DEF NoticesApart, InQueue
    <3>2. \A v \in Worker : p \notin notice[v]
      BY <3>1 DEF NoticesApart
    <3>3. ASSUME NEW k \in DOMAIN notices', k # j PROVE notices'[k] # p
      <4>1. CASE k \in Nat \ {0} /\ k + d \in DOMAIN notices /\ notices'[k] = notices[k + d]
        <5>1. k + d # j + d
          BY <2>1, <3>3, <4>1
        <5> QED
          BY <3>1, <4>1, <5>1
      <4>2. CASE \E w \in Worker : notices'[k] \in notice[w]
        BY <3>2, <4>2
      <4> QED
        BY <1>1, <4>1, <4>2
    <3>4. p \notin Carried'
      <4>1. d = 1 => j + d # 1
        BY <2>1
      <4> QED
        BY <1>2, <3>1, <4>1
    <3>5. ~OnWire(p)'
      BY <1>3, <2>0, <2>1, <3>1
    <3> QED
      BY <3>3, <3>4, <3>5
  <2>2. ASSUME NEW p, p = n, d = 0, j = Len(notices) + 1, NEW w \in Worker, p \in notice[w]
        PROVE  /\ \A k \in DOMAIN notices' : k # j => notices'[k] # p
               /\ p \notin Carried' /\ ~OnWire(p)'
    <3>1. p \notin InQueue /\ p \notin Carried /\ ~OnWire(p)
      BY <2>2 DEF NoticesApart
    <3>2. ASSUME NEW k \in DOMAIN notices', k # j PROVE notices'[k] # p
      <4>1. k + d \in DOMAIN notices /\ notices'[k] = notices[k + d]
        BY <1>1, <2>2, <3>2
      <4> QED
        BY <3>1, <4>1 DEF InQueue
    <3>3. p \notin Carried'
      BY <1>2, <2>2, <3>1
    <3>4. ~OnWire(p)'
      BY <1>3, <2>0, <2>2, <3>1
    <3> QED
      BY <3>2, <3>3, <3>4
  <2>3. PICK p : p = n
    OBVIOUS
  <2>4. /\ \A k \in DOMAIN notices' : k # j => notices'[k] # p
        /\ p \notin Carried' /\ ~OnWire(p)'
    <3> HIDE DEF n
    <3>1. n = notices'[j]
      BY DEF n
    <3> QED
      BY <1>1, <2>1, <2>2, <2>3, <3>1
  <2> QED
    BY <2>3, <2>4 DEF OnWire
<1>6. ASSUME (pc["notifier"] = "send")' PROVE ~OnWire(task["notifier"])'
  <2>1. PICK n : n = task'["notifier"]
    OBVIOUS
  <2>2. n \in Notices /\ Carrying'
    BY <1>0, <1>6, <2>1 DEF Typed, HandTypes, Carrying
  <2>3. ~OnWire(n)'
    <3>1. CASE Carrying /\ n = task["notifier"]
      <4>1. pc["notifier"] = "send"
        BY <1>0, <1>6, <3>1, NoticesMove DEF NoticeMoves, Carrying, TakeNotice
      <4>2. ~OnWire(n)
        BY <3>1, <4>1 DEF NoticesApart
      <4> QED
        BY <1>0, <1>6, <2>2, <4>2, OnWireBefore
    <3>2. CASE ~Carrying /\ notices # <<>> /\ n = Head(notices)
      <4>1. 1 \in DOMAIN notices /\ n = notices[1]
        BY <1>0, <3>2, QueueFacts
      <4>2. ~OnWire(n)
        BY <4>1 DEF NoticesApart
      <4> QED
        BY <1>0, <2>2, <3>2, <4>2, OnWireBefore DEF Carrying
    <3> QED
      BY <1>0, <2>1, <2>2, <3>1, <3>2, CarriedBefore
  <2> QED
    BY <2>1, <2>3 DEF OnWire
<1>7. ASSUME NEW c \in Client, NEW j \in DOMAIN toClient'[c], NEW k \in DOMAIN toClient'[c],
             toClient'[c][j].type = "NOTIFY", k # j
      PROVE  toClient'[c][k] # toClient'[c][j]
  <2> SUFFICES ASSUME toClient'[c][k] = toClient'[c][j] PROVE FALSE
    OBVIOUS
  <2>1. PICK e \in {0, 1} :
          \A i \in DOMAIN toClient'[c] :
            \/ i \in Nat /\ i + e \in DOMAIN toClient[c] /\ toClient'[c][i] = toClient[c][i + e]
            \/ /\ e = 0 /\ i = Len(toClient[c]) + 1
               /\ \E m \in Lines : LineAdded(c, m) /\ toClient'[c][i] = m
    BY <1>0, LinesShift
  <2>2. ASSUME NEW i, i + e \in DOMAIN toClient[c], toClient[c][i + e] = toClient'[c][j],
               NEW m \in Lines, LineAdded(c, m), toClient'[c][j] = m
        PROVE  FALSE
    <3>1. /\ pc["notifier"] = "send" /\ task["notifier"].client = c /\ m = Notify(task["notifier"])
      BY <1>0, <1>7, <2>2, NoticeAdded
    <3>2. OnWire(task["notifier"])
      BY <2>2, <3>1 DEF OnWire
    <3> QED
      BY <3>1, <3>2 DEF NoticesApart
  <2>3. ASSUME j \in Nat, k \in Nat, j + e \in DOMAIN toClient[c], k + e \in DOMAIN toClient[c],
               toClient[c][j + e] = toClient'[c][j], toClient[c][k + e] = toClient'[c][k]
        PROVE  FALSE
    <3>1. j + e # k + e
      BY <1>7, <2>3
    <3> QED
      BY <1>7, <2>3, <3>1 DEF NoticesApart
  <2> QED
    BY <1>7, <2>1, <2>2, <2>3
<1> QED
  BY <1>4, <1>5, <1>6, <1>7 DEF NoticesApart

(* A notice on its way was on it before, or has just been made.            *)
LEMMA OnWayBefore ==
  ASSUME Typed, [ServerNext]_serverVars, NEW n \in Notices, OnWay(n)'
  PROVE  \/ OnWay(n)
         \/ \E w \in Worker : HandleTask(w) /\ n \in handed' /\ n \notin handed
<1> DEFINE Goal == \/ OnWay(n)
                   \/ \E w \in Worker : HandleTask(w) /\ n \in handed' /\ n \notin handed
<1>0. notices \in Seq(Notices)
  BY DEF Typed, QueueTypes
<1>1. ASSUME NEW w \in Worker, n \in notice'[w] PROVE Goal
  BY <1>1, InHandBefore DEF OnWay
<1>2. ASSUME NEW j \in DOMAIN notices', notices'[j] = n PROVE Goal
  <2>1. \/ \E i \in DOMAIN notices : notices[i] = n
        \/ \E w \in Worker : n \in notice[w]
    BY <1>2, NoticesShift
  <2> QED
    BY <2>1 DEF OnWay
<1>3. ASSUME (pc["notifier"] = "send")', task'["notifier"] = n PROVE Goal
  <2>0. Carrying'
    BY <1>3 DEF Carrying
  <2>1. CASE Carrying /\ task'["notifier"] = task["notifier"]
    <3>1. pc["notifier"] = "send"
      BY <1>3, <2>1, NoticesMove DEF NoticeMoves, Carrying, TakeNotice
    <3> QED
      BY <1>3, <2>1, <3>1 DEF OnWay
  <2>2. CASE notices # <<>> /\ task'["notifier"] = Head(notices)
    <3>1. 1 \in DOMAIN notices /\ n = notices[1]
      BY <1>0, <1>3, <2>2, QueueFacts
    <3> QED
      BY <3>1 DEF OnWay
  <2> QED
    BY <2>0, <2>1, <2>2, CarriedBefore
<1>4. ASSUME OnWire(n)' PROVE Goal
  BY <1>4, OnWireBefore DEF OnWay
<1> HIDE DEF Goal
<1> QED
  BY <1>1, <1>2, <1>3, <1>4 DEF OnWay, Goal

(* Who is handed a seat has asked for it.                                  *)
LEMMA HandedAsked ==
  ASSUME BooksInv, NEW w \in Worker, HandleTask(w), NEW n \in handed', n \notin handed
  PROVE  \E r \in Open(n.client) : r.id = n.request
<1>0. Typed /\ WaitersKnown
  BY DEF BooksInv, Books
<1>1. PICK r : r = task[w]
  OBVIOUS
<1>2. HandOver(r) /\ r \in Request
  BY <1>1, HandledPending DEF HandleTask, Handle, Grant, Waitlist, Free, Refuse
<1>3. PICK s : s = OnlySeat(r)
  OBVIOUS
<1>4. /\ Cancelled(r) /\ waiting[s] # <<>> /\ handed' = handed \union {Notice(Head(waiting[s]), s)}
  BY <1>2, <1>3 DEF HandOver
<1>5. s \in Seat
  <2>1. ~Malformed(r) /\ r.command = "CANCEL"
    BY <1>4 DEF Cancelled
  <2>2. r \in Proper
    BY <1>2, <2>1 DEF Proper
  <2> QED
    BY <1>3, <2>1, <2>2, ProperFacts
<1>6. waiting[s] \in Seq(Entries) /\ 1 \in DOMAIN waiting[s] /\ Head(waiting[s]) = waiting[s][1]
  BY <1>0, <1>4, <1>5, WaiterTypes, QueueFacts
<1>7. PICK e \in Entries : e = waiting[s][1]
  BY <1>6, <1>4, QueueFacts
<1>8. n.client = e.client /\ n.request = e.request /\ e.client \in Client
  BY <1>4, <1>6, <1>7, EntryFacts DEF Entries
<1> QED
  BY <1>0, <1>5, <1>6, <1>7, <1>8 DEF WaitersKnown

LEMMA NoticesOpenStep ==
  ASSUME BooksInv, ThreadsJoined, NoticesApart, NoticesOpen, [ServerNext]_serverVars
  PROVE  NoticesOpen'
<1> SUFFICES ASSUME NEW n \in handed', OnWay(n)'
             PROVE  \E r \in Open(n.client)' : r.id = n.request
  BY DEF NoticesOpen
<1> DEFINE c == n.client
           q == toClient[c]
<1>0. /\ Typed /\ Typed' /\ ResultsTrue /\ AnswersOnce /\ n \in Notices /\ c \in Client
      /\ q \in Seq(Lines)
  BY TypedStep, NoticeFacts DEF BooksInv, Typed, BookingTypes, WireTypes, Books
<1>1. PICK r \in Open(c) : r.id = n.request
  <2>1. CASE n \notin handed
    <3>1. PICK w \in Worker : HandleTask(w)
      BY <2>1, Frames DEF Changes, bookingVars
    <3> QED
      BY <2>1, <3>1, HandedAsked
  <2>2. CASE n \in handed
    <3>1. OnWay(n)
      BY <1>0, <2>2, OnWayBefore
    <3> QED
      BY <2>2, <3>1 DEF NoticesOpen
  <2> QED
    BY <2>1, <2>2
<1>2. CASE view' = view
  <2>1. answers \subseteq answers'
    BY <1>0, Grows
  <2>2. r \in Open(c)'
    BY <1>2, <2>1 DEF Open, Asked
  <2> QED
    BY <1>1, <2>2
<1>3. CASE Open(c)' = Open(c)
  BY <1>1, <1>3
<1>4. ASSUME NEW m \in Lines, NEW p \in Request, Learns(c, m, p), Open(c)' = Open(c) \ {p}
      PROVE  \E x \in Open(c)' : x.id = n.request
  <2>1. CASE p # r
    BY <1>1, <1>4, <2>1
  <2>2. CASE p = r
    <3>1. /\ q # <<>> /\ m = Head(q) /\ m.type = "NOTIFY" /\ p.id = m.id
          /\ ClientStep(c) /\ toClient' = [toClient EXCEPT ![c] = Tail(@)]
      BY <1>4 DEF Learns, NotifyView
    <3>2. 1 \in DOMAIN q /\ q[1] = m
      BY <1>0, <3>1, QueueFacts
    <3>3. LineTrue(c, m)
      BY <1>0, <3>2 DEF ResultsTrue
    <3>4. PICK x \in handed : x.client = c /\ m = Notify(x)
      BY <3>1, <3>3 DEF LineTrue
    <3>5. n \in handed
      BY <3>1 DEF ClientStep, bookingVars
    <3>6. x = n
      <4>1. m.id = x.request
        BY <3>4 DEF Notify
      <4>2. x.request = n.request
        BY <1>1, <2>2, <3>1, <4>1
      <4> QED
        BY <1>0, <3>4, <3>5, <4>2 DEF AnswersOnce
    <3>7. OnWire(n) /\ q[1] = Notify(n)
      BY <3>2, <3>4, <3>6 DEF OnWire
    <3>8. UNCHANGED <<notice, notices, task, pc>>
      BY <3>1 DEF ClientStep, callVars, noticeVars
    <3>9. /\ \A w \in Worker : n \notin notice'[w]
          /\ \A j \in DOMAIN notices' : notices'[j] # n
          /\ ~((pc["notifier"] = "send")' /\ task'["notifier"] = n)
      BY <3>7, <3>8 DEF NoticesApart
    <3>10. ~OnWire(n)'
      <4> SUFFICES ASSUME NEW j \in DOMAIN toClient'[c], toClient'[c][j] = Notify(n) PROVE FALSE
        BY DEF OnWire
      <4>1. toClient'[c] = Tail(q)
        BY <1>0, <3>1 DEF Typed, WireTypes
      <4>2. j \in DOMAIN Tail(q) /\ Tail(q)[j] = Notify(n)
        BY <4>1
      <4> HIDE DEF q
      <4>4. j + 1 \in DOMAIN q /\ q[j + 1] = Notify(n) /\ j \in 1..(Len(q) - 1) /\ Len(q) \in Nat
        BY <1>0, <3>1, <4>2, TailFacts
      <4>5. j + 1 # 1
        BY <4>4
      <4>3. q[1].type = "NOTIFY"
        BY <3>1, <3>2
      <4> QED
        BY <1>0, <3>2, <3>7, <4>3, <4>4, <4>5 DEF NoticesApart, q
    <3> QED
      BY <3>9, <3>10 DEF OnWay
  <2> QED
    BY <2>1, <2>2
<1> QED
  BY <1>0, <1>2, <1>3, <1>4, OpenMoves

-----------------------------------------------------------------------------
(* The steps of a server in which nothing fails *)

Listening == {"listen", "put", "asleep"}

(* How main ends when no failure is reported.                              *)
CalmMoves ==
  reporter' = None =>
    /\ reporter = None
    /\ inputStopped' =>
         inputStopped \/ pc[Main] = "shutdown" \/ \E w \in Worker : pc[w] = "stop"
    /\ pc'[Main] \notin Listening => pc[Main] \notin Listening \/ inputStopped
    /\ closed' # closed =>
         \/ pc[Main] = "leave" /\ closed' = closed \union (Client \ registered)
         \/ pc'[Main] = "ended"
    /\ pc[Main] = "ended" => pc'[Main] = "ended"
    /\ pc'[Main] \in Joined \ {"bye"} =>
         pc[Main] \in Joined \ {"bye"} \/ \E c \in Client : SayBye(c) /\ farewells' = registered

(* In every step without a failure main moves as above. *)
LEMMA MovesCalm ==
  ASSUME Typed, [ServerNext]_serverVars
  PROVE  CalmMoves
<1> USE DEF Typed, PcTypes, ReporterTypes, Thread, Main, Listening, Joined, CalmMoves,
        clientVars, wireVars, callVars, inputVars, tallyVars, noticeVars, failVars, endVars
<1>1. ASSUME NEW c \in Client, ClientStep(c) PROVE CalmMoves
  BY <1>1 DEF ClientStep
<1>2. ASSUME NEW c \in Client, ReadHello(c) PROVE CalmMoves
  BY <1>2 DEF ReadHello, RefuseLine, Fail, Goes
<1>3. ASSUME NEW c \in Client, ReadRequest(c) PROVE CalmMoves
  BY <1>3 DEF ReadRequest, RefuseLine, Fail, Goes
<1>4. ASSUME NEW c \in Client, ReadEnd(c) PROVE CalmMoves
  BY <1>4 DEF ReadEnd, Fail, Goes
<1>5. ASSUME NEW c \in Client, SayBye(c) PROVE CalmMoves
  BY <1>5 DEF SayBye, Deliver, Fail, Goes
<1>6. ASSUME NEW w \in Worker, TakeTask(w) PROVE CalmMoves
  BY <1>6 DEF TakeTask
<1>7. ASSUME NEW w \in Worker, WorkerAborted(w) PROVE CalmMoves
  BY <1>7 DEF WorkerAborted, Goes
<1>8. ASSUME NEW w \in Worker, HandleTask(w) PROVE CalmMoves
  BY <1>8 DEF HandleTask, Goes
<1>9. ASSUME NEW w \in Worker, SubmitNotice(w) PROVE CalmMoves
  BY <1>9 DEF SubmitNotice, Fail, Goes, WakeNotifier
<1>10. ASSUME NEW w \in Worker, SendResponse(w) PROVE CalmMoves
  BY <1>10 DEF SendResponse, Deliver, Fail, Goes
<1>11. ASSUME NEW w \in Worker, RecordResponse(w) PROVE CalmMoves
  BY <1>11 DEF RecordResponse, Fail, Goes
<1>12. ASSUME NEW w \in Worker, StopAfterLast(w) PROVE CalmMoves
  BY <1>12 DEF StopAfterLast, StopInput, WakeAll
<1>13. ASSUME NEW t \in Thread, ReportFailure(t) PROVE CalmMoves
  BY <1>13 DEF ReportFailure, StopInput, WakeAll, WakeNotifier
<1>14. CASE Put
  BY <1>14 DEF Put, RefuseLine, Fail, Goes, WakeWorker
<1>15. CASE StopListening
  BY <1>15 DEF StopListening, Goes
<1>16. CASE LeaveListener
  BY <1>16 DEF LeaveListener, Fail, Goes
<1>17. CASE Shutdown
  BY <1>17 DEF Shutdown, StopInput, WakeAll
<1>18. CASE JoinWorkers
  BY <1>18 DEF JoinWorkers, WakeNotifier
<1>19. CASE JoinNotifier
  BY <1>19 DEF JoinNotifier, Fail, Goes
<1>20. CASE StopMonitor
  BY <1>20 DEF StopMonitor, Goes
<1>21. CASE JoinMonitor
  BY <1>21 DEF JoinMonitor, Fail, Goes
<1>22. CASE CloseConnections
  BY <1>22 DEF CloseConnections, Goes
<1>23. CASE TakeNotice
  BY <1>23 DEF TakeNotice, Goes
<1>24. CASE SendNotice
  BY <1>24 DEF SendNotice, Deliver, Fail, Goes
<1>25. CASE CountNotice
  BY <1>25 DEF CountNotice, Goes
<1>26. CASE MonitorEnds
  BY <1>26 DEF MonitorEnds, Goes
<1>27. CASE Fault
  BY <1>27 DEF Fault, Fail, Goes, ClientFails
<1>28. CASE UNCHANGED serverVars
  BY <1>28 DEF serverVars
<1> HIDE DEF Typed, PcTypes, ReporterTypes, Thread, Main, Listening, Joined, CalmMoves
<1> QED
  BY <1>1, <1>2, <1>3, <1>4, <1>5, <1>6, <1>7, <1>8, <1>9, <1>10, <1>11, <1>12, <1>13,
     <1>14, <1>15, <1>16, <1>17, <1>18, <1>19, <1>20, <1>21, <1>22, <1>23, <1>24, <1>25,
     <1>26, <1>27, <1>28, Steps

LEMMA AcceptedSent ==
  ASSUME Typed, NEW c \in Client, WireOK(c)
  PROVE  /\ accepted[c] \in Nat /\ view[c].sent \in 0..RequestsPerClient
         /\ accepted[c] <= view[c].sent
         /\ accepted[c] = view[c].sent /\ c \in registered => toServer[c] = <<>>
<1>1. /\ accepted[c] \in Nat /\ view[c].sent \in 0..RequestsPerClient /\ Len(toServer[c]) \in Nat
      /\ Len(toServer[c]) = 0 => toServer[c] = <<>>
  BY DEF Typed, ClientTypes, Views, TallyTypes, WireTypes
<1> QED
  BY <1>1 DEF WireOK

(* When all first responses are out, every request has been answered.      *)
LEMMA AllAnswered ==
  ASSUME BooksInv, CompletedCounts, completed = Expected, NEW c \in Client
  PROVE  /\ c \in registered /\ responses[c] = RequestsPerClient
         /\ accepted[c] = RequestsPerClient /\ view[c].sent = RequestsPerClient
         /\ toServer[c] = <<>>
         /\ \A r \in Request : r.client = c => ~Unanswered(r)
         /\ \A w \in Replying : task[w].client # c
<1>0. Typed /\ AnswersOnce /\ WireOK(c) /\ CountOK(c) /\ responses[c] \in Nat /\ ResultsTrue
  BY DEF BooksInv, Books, Typed, TallyTypes
<1>1. Counted = Client \X (1..RequestsPerClient)
  <2> DEFINE S == Client \X (1..RequestsPerClient)
  <2>1. Counted \subseteq S
    BY DEF Counted
  <2>2. IsFiniteSet(S) /\ Cardinality(S) = Cardinality(Counted)
    BY <1>0, CountedFacts DEF CompletedCounts
  <2> HIDE DEF S
  <2>3. Counted = S
    BY <2>1, <2>2, FS_Subset
  <2> QED
    BY <2>3 DEF S
<1>2. responses[c] = RequestsPerClient
  <2>1. <<c, RequestsPerClient>> \in Counted
    BY <1>1
  <2>2. RequestsPerClient <= responses[c]
    BY <2>1 DEF Counted
  <2> QED
    BY <1>0, <2>2 DEF CountOK
<1>3. c \in registered
  BY <1>0, <1>2 DEF WireOK
<1>4. /\ Recorded(c) = AnswerIds(c) \ OutIds(c) /\ AnswerIds(c) \subseteq 1..accepted[c]
      /\ Cardinality(Recorded(c)) \in Nat /\ Cardinality(Recorded(c)) <= accepted[c]
  BY <1>0, RecordedFacts
<1>5. /\ accepted[c] = RequestsPerClient /\ view[c].sent = RequestsPerClient
      /\ Cardinality(Recorded(c)) = RequestsPerClient
  <2>1. accepted[c] \in Nat /\ view[c].sent \in 0..RequestsPerClient /\ accepted[c] <= view[c].sent
    BY <1>0, AcceptedSent
  <2>2. RequestsPerClient <= Cardinality(Recorded(c))
    BY <1>0, <1>2 DEF CountOK
  <2> QED
    BY <1>4, <2>1, <2>2
<1>6. Recorded(c) = 1..RequestsPerClient
  <2>1. Recorded(c) \subseteq 1..RequestsPerClient
    BY <1>4, <1>5
  <2>2. IsFiniteSet(1..RequestsPerClient) /\ Cardinality(1..RequestsPerClient) = RequestsPerClient
    <3>1. IsFiniteSet(1..RequestsPerClient)
          /\ Cardinality(1..RequestsPerClient)
               = IF 1 > RequestsPerClient THEN 0 ELSE RequestsPerClient - 1 + 1
      BY FS_Interval
    <3> QED
      BY <3>1
  <2> QED
    BY <1>5, <2>1, <2>2, FS_Subset
<1>7. ASSUME NEW r \in Request, r.client = c PROVE ~Unanswered(r)
  <2>1. r.id \in AnswerIds(c)
    BY <1>4, <1>6, RequestFacts
  <2> QED
    BY <1>7, <2>1 DEF AnswerIds, Unanswered
<1>8. ASSUME NEW w \in Replying PROVE task[w].client # c
  <2>1. task[w] \in Request
    BY <1>0 DEF Typed, HandTypes, Replying
  <2>2. task[w].id \in 1..RequestsPerClient
    BY <2>1, RequestFacts
  <2> QED
    BY <1>4, <1>6, <2>2 DEF OutIds
<1> QED
  BY <1>0, <1>2, <1>3, <1>5, <1>7, <1>8, AcceptedSent

LEMMA NoneLeft ==
  ASSUME BooksInv, CompletedCounts, LastAccepted, completed = Expected
  PROVE  Replying = {} /\ ~Holding /\ registered = Client
<1>0. Typed
  BY DEF BooksInv
<1>1. \A w \in Replying : w \in Worker /\ task[w] \in Request
  BY <1>0 DEF Typed, HandTypes, Replying
<1>2. Replying = {}
  BY <1>1, AllAnswered, RequestFacts
<1>3. ~Holding
  <2> SUFFICES ASSUME Holding PROVE FALSE
    OBVIOUS
  <2>1. task[Main] \in Request
    BY <1>0 DEF Typed, HandTypes, Holding
  <2> QED
    BY <2>1, AllAnswered, RequestFacts DEF LastAccepted
<1>4. registered = Client
  BY <1>0, AllAnswered DEF Typed, TallyTypes
<1> QED
  BY <1>2, <1>3, <1>4

LEMMA DoneStays ==
  ASSUME BooksInv, CompletedCounts, LastAccepted, [ServerNext]_serverVars, completed = Expected
  PROVE  completed' = Expected
<1>1. \A w \in Worker : ~RecordResponse(w)
  BY NoneLeft DEF RecordResponse, Replying
<1> QED
  BY <1>1, Frames DEF Changes

(* Without a failure a worker lets go of a response only to record it.     *)
LEMMA RecordsCalm ==
  ASSUME Typed, [ServerNext]_serverVars, reporter' = None, NEW w \in Replying
  PROVE  w \in Worker /\ (w \in Replying' \/ RecordResponse(w))
<1>0. w \in Worker /\ pc[w] \in {"submit", "send", "record"} /\ w \in Thread /\ w # None
      /\ DOMAIN pc = Thread
  BY DEF Replying, Thread, Typed, PcTypes
<1>1. SubmitNotice(w) => pc'[w] = "send"
  BY <1>0 DEF SubmitNotice, Fail, Goes, WakeNotifier, Thread, failVars
<1>2. SendResponse(w) => pc'[w] = "record"
  BY <1>0 DEF SendResponse, Deliver, Fail, Goes, failVars
<1> QED
  BY <1>0, <1>1, <1>2, SendsMove DEF SendMoves, Replying

-----------------------------------------------------------------------------
(* As long as nothing fails, what has been handed out is accounted for *)

LEMMA BaseStep ==
  ASSUME BaseInv, [ServerNext]_serverVars
  PROVE  BaseInv'
<1>1. BooksInv /\ ThreadsJoined
  BY DEF BaseInv, EndInv
<1>2. EndInv'
  BY EndStep DEF BaseInv
<1>3. (\A c \in Client : RespOnce(c)') /\ (\A c \in Client : ListOK(c)')
  BY <1>1, RespOnceStep, ListStep DEF BaseInv
<1>4. NoticesApart' /\ NoticesOpen' /\ LastAccepted' /\ CompletedCounts' /\ WaitTally'
  BY <1>1, NoticesApartStep, NoticesOpenStep, LastStep, CompletedStep, WaitTallyStep DEF BaseInv
<1> QED
  BY <1>2, <1>3, <1>4 DEF BaseInv

LEMMA CalmBefore ==
  ASSUME Typed, Calm', [ServerNext]_serverVars
  PROVE  Calm
<1>1. reporter = None
  BY MovesCalm DEF CalmMoves, Calm
<1>2. \A c \in Client : phase[c] # "failed"
  BY PhaseStays DEF Calm
<1> QED
  BY <1>1, <1>2 DEF Calm

LEMMA ClosedStep ==
  ASSUME BaseInv, Good, Calm', [ServerNext]_serverVars
  PROVE  ClosedLast'
<1>0. BooksInv /\ Typed /\ CompletedCounts /\ LastAccepted /\ ClosedLast /\ StoppedLast
  BY DEF BaseInv, EndInv, BooksInv, Good
<1>1. CalmMoves /\ reporter' = None
  BY <1>0, MovesCalm DEF Calm
<1>2. ASSUME pc[Main] = "leave" PROVE Client \ registered = {}
  BY <1>0, <1>2, NoneLeft DEF StoppedLast
<1> QED
  BY <1>0, <1>1, <1>2 DEF CalmMoves, ClosedLast

LEMMA StoppedStep ==
  ASSUME BaseInv, Good, Calm', [ServerNext]_serverVars
  PROVE  StoppedLast'
<1>0. BooksInv /\ Typed /\ CompletedCounts /\ LastAccepted /\ StoppedLast
  BY DEF BaseInv, EndInv, BooksInv, Good
<1>1. CalmMoves /\ reporter' = None
  BY <1>0, MovesCalm DEF Calm
<1>2. ASSUME NEW w \in Worker, pc'[w] = "stop", pc[w] # "stop" PROVE completed' = Expected
  <2>1. RecordResponse(w)
    BY <1>0, <1>2, SendsMove DEF SendMoves
  <2>2. w \in Thread /\ DOMAIN pc = Thread /\ w # None
    BY <1>0 DEF Typed, PcTypes, Thread
  <2> QED
    BY <1>2, <2>1, <2>2 DEF RecordResponse, Fail, Goes
<1>3. completed = Expected => completed' = Expected
  BY <1>0, DoneStays
<1>4. ASSUME inputStopped' \/ (\E w \in Worker : pc'[w] = "stop") \/ pc'[Main] \notin Listening
      PROVE  completed' = Expected
  BY <1>0, <1>1, <1>2, <1>3, <1>4 DEF CalmMoves, StoppedLast, Listening
<1> QED
  BY <1>4 DEF StoppedLast, Listening

LEMMA EndQuiet ==
  ASSUME BaseInv, farewells # {}
  PROVE  /\ MainNext \in Joined /\ pc["notifier"] = "ended" /\ \A w \in Worker : pc[w] = "ended"
BY DEF BaseInv, EndInv, ThreadsJoined

LEMMA LastFacts ==
  ASSUME NEW S, NEW q \in Seq(S), q # <<>>
  PROVE  /\ Len(q) \in Nat \ {0} /\ Len(q) \in DOMAIN q
         /\ Len(q) # 1 => Tail(q) # <<>> /\ Tail(q)[Len(Tail(q))] = q[Len(q)]
         /\ Len(q) = 1 => Head(q) = q[Len(q)]
<1>1. DOMAIN q = 1..Len(q) /\ Len(q) \in Nat \ {0} /\ Head(q) = q[1]
  OBVIOUS
<1>2. ASSUME Len(q) # 1 PROVE Tail(q) # <<>> /\ Tail(q)[Len(Tail(q))] = q[Len(q)]
  <2>1. Len(Tail(q)) = Len(q) - 1 /\ DOMAIN Tail(q) = 1..(Len(q) - 1)
    BY <1>1, QueueFacts
  <2>2. Len(q) - 1 \in DOMAIN Tail(q) /\ Len(q) - 1 + 1 = Len(q)
    BY <1>1, <1>2, <2>1
  <2>3. Tail(q)[Len(q) - 1] = q[Len(q) - 1 + 1]
    BY <2>2, TailFacts
  <2> QED
    BY <1>1, <1>2, <2>1, <2>2, <2>3
<1> QED
  BY <1>1, <1>2

LEMMA ByeToAllStep ==
  ASSUME BaseInv, Calm, Good, Calm', [ServerNext]_serverVars
  PROVE  ByeToAll'
<1>0. /\ BooksInv /\ Typed /\ Typed' /\ CompletedCounts /\ LastAccepted /\ StoppedLast /\ ByeToAll
      /\ \A c \in Client : ByeLast(c) /\ toClient[c] \in Seq(Lines)
  BY TypedStep DEF BaseInv, EndInv, BooksInv, Good, Typed, WireTypes
<1>1. CalmMoves /\ reporter' = None /\ reporter = None
  BY <1>0, MovesCalm DEF Calm
<1>2. farewells \subseteq farewells' /\ farewells' \subseteq Client
  BY <1>0, Grows DEF Typed, TallyTypes
<1>3. ASSUME pc'[Main] \in Joined \ {"bye"} PROVE farewells' = Client
  <2>1. ASSUME NEW c \in Client, SayBye(c), farewells' = registered PROVE farewells' = Client
    <3>1. completed = Expected
      BY <1>0, <2>1 DEF SayBye, StoppedLast
    <3> QED
      BY <1>0, <2>1, <3>1, NoneLeft
  <2> QED
    BY <1>0, <1>1, <1>2, <1>3, <2>1 DEF CalmMoves, ByeToAll
<1>4. ASSUME NEW c \in Client, c \in farewells, phase'[c] # "done"
      PROVE  toClient'[c] # <<>> /\ toClient'[c][Len(toClient'[c])] = Bye
  <2> DEFINE q == toClient[c]
  <2>1. q # <<>> /\ q[Len(q)] = Bye /\ q \in Seq(Lines)
    BY <1>0, <1>4, PhaseStays DEF ByeToAll
  <2>2. pc["notifier"] = "ended" /\ \A w \in Worker : pc[w] = "ended"
    BY <1>4, EndQuiet
  <2>3. \A m \in Lines : ~LineAdded(c, m)
    BY <1>4, <2>2 DEF LineAdded, SayBye
  <2>4. phase'[c] # "failed"
    BY DEF Calm
  <2>5. ASSUME LineRead(c) PROVE Len(q) # 1
    <3> SUFFICES ASSUME Len(q) = 1 PROVE FALSE
      OBVIOUS
    <3>1. Head(q) = Bye /\ Bye.type = "BYE" /\ toClient'[c] = Tail(q) /\ Tail(q) # q /\ ClientStep(c)
      BY <2>1, <2>5, LastFacts, ByeIsLine, TailDiffers DEF LineRead
    <3>2. ASSUME NEW r \in Request, Asks(c, r) PROVE FALSE
      BY <3>1, <3>2 DEF Asks, SendRequest
    <3>3. ASSUME NEW m \in Lines, NEW r \in Request, Hears(c, m, r) \/ Learns(c, m, r) PROVE FALSE
      BY <3>1, <3>3 DEF Hears, Learns
    <3>4. phase' # [phase EXCEPT ![c] = "done"] /\ phase' # [phase EXCEPT ![c] = "failed"]
      BY <1>0, <1>4, <2>4 DEF Typed, ClientTypes
    <3> HIDE DEF q
    <3> QED
      BY <1>0, <3>1, <3>2, <3>3, <3>4, ClientReads DEF q
  <2>6. CASE LineRead(c)
    BY <2>1, <2>5, <2>6, LastFacts DEF LineRead
  <2> QED
    BY <1>0, <1>4, <2>1, <2>3, <2>4, <2>6, LinesMove
<1>5. ASSUME NEW c \in Client, c \in farewells', c \notin farewells, phase'[c] # "done"
      PROVE  toClient'[c] # <<>> /\ toClient'[c][Len(toClient'[c])] = Bye
  <2>1. PICK d \in Client : SayBye(d)
    BY <1>5, Frames DEF Changes
  <2>2. d = c
    BY <1>5, <2>1 DEF SayBye
  <2>3. UNCHANGED phase
    BY <2>1 DEF SayBye, clientVars
  <2>4. ~Gone(c)
    BY <1>5, <2>3 DEF Calm, Gone
  <2>5. \A next : ~Fail(Main, next)
    BY <1>1 DEF Fail, Thread
  <2>6. toClient' = [toClient EXCEPT ![c] = Append(@, Bye)]
    BY <2>1, <2>2, <2>4, <2>5 DEF SayBye, Deliver
  <2>7. toClient'[c] = Append(toClient[c], Bye)
    BY <1>0, <2>6 DEF Typed, WireTypes
  <2> QED
    BY <1>0, <2>7, ByeIsLine, AppendFacts
<1> QED
  BY <1>2, <1>3, <1>4, <1>5 DEF ByeToAll

LEMMA AllRecordedStep ==
  ASSUME BaseInv, Good, Calm', [ServerNext]_serverVars
  PROVE  AllRecorded'
<1> SUFFICES ASSUME NEW c \in Client PROVE responses'[c] = Cardinality(Recorded(c)')
  BY DEF AllRecorded, Recorded
<1> DEFINE Apart(v, w) == task[w].client # task[v].client \/ task[w].id # task[v].id
<1>0. /\ Typed /\ Typed' /\ ResultsTrue /\ responses[c] = Cardinality(Recorded(c))
      /\ reporter' = None /\ AnswersOnce
  BY TypedStep DEF BaseInv, EndInv, BooksInv, Books, Good, AllRecorded, Calm
<1>1. \A w, v \in Replying : w # v => Apart(v, w)
  BY DEF BaseInv, EndInv, BooksInv, CountOK
<1>2. Recorded(c) = AnswerIds(c) \ OutIds(c) /\ Recorded(c)' = AnswerIds(c)' \ OutIds(c)'
  BY DEF Recorded, AnswerIds, OutIds
<1>3. ASSUME NEW w \in Worker, HandleTask(w) PROVE responses'[c] = Cardinality(Recorded(c)')
  <2>1. PICK r \in Request : r = task[w]
    BY <1>0, <1>3 DEF HandleTask, Typed, HandTypes
  <2>2. PICK st \in Status : answers' = answers \union {Reply(r, st)}
    BY <1>3, <2>1 DEF HandleTask
  <2>3. UNCHANGED <<task, responses>> /\ Unanswered(r)
    BY <1>3, <2>1 DEF HandleTask, tallyVars, Handle
  <2>4. Replying' = Replying \union {w}
    <3>1. pc' = [pc EXCEPT ![w] = IF handed' = handed THEN "send" ELSE "submit"] /\ pc[w] = "handle"
      BY <1>3 DEF HandleTask, Goes
    <3>2. w \in Thread /\ Worker \subseteq Thread /\ DOMAIN pc = Thread
      BY <1>0 DEF Thread, Typed, PcTypes
    <3> QED
      BY <3>1, <3>2 DEF Replying
  <2>8. AnswerIds(c)' = AnswerIds(c) \union {i \in {r.id} : r.client = c}
    BY <2>2, ReplyFacts DEF AnswerIds
  <2>9. OutIds(c)' = OutIds(c) \union {i \in {r.id} : r.client = c}
    BY <2>1, <2>3, <2>4 DEF OutIds
  <2>10. r.client = c => r.id \notin AnswerIds(c)
    BY <2>3 DEF Unanswered, AnswerIds
  <2>11. Recorded(c)' = Recorded(c)
    BY <1>2, <2>8, <2>9, <2>10
  <2> QED
    BY <1>0, <2>3, <2>11
<1>4. ASSUME NEW w \in Worker, RecordResponse(w) PROVE responses'[c] = Cardinality(Recorded(c)')
  <2>1. PICK r \in Request : r = task[w]
    BY <1>0, <1>4 DEF RecordResponse, Typed, HandTypes, Replying
  <2>2. /\ answers' = answers /\ w \in Replying /\ task' = [task EXCEPT ![w] = NoTask]
        /\ DOMAIN task = Thread /\ w \in Thread /\ DOMAIN pc = Thread /\ w # None
    BY <1>0, <1>4 DEF RecordResponse, bookingVars, Replying, Thread, Typed, HandTypes, PcTypes
  <2>3. /\ responses' = [responses EXCEPT ![r.client] = @ + 1]
        /\ pc' = [pc EXCEPT ![w] = pc'[w]] /\ pc'[w] \in {"stop", "take"}
    BY <1>0, <1>4, <2>1, <2>2 DEF RecordResponse, Fail, Goes, failVars
  <2>5. Replying' = Replying \ {w}
    <3>1. \A v \in Worker : v # w => pc'[v] = pc[v]
      BY <2>2, <2>3 DEF Thread
    <3> QED
      BY <2>2, <2>3, <3>1 DEF Replying
  <2>6. \A v \in Replying' : task'[v] = task[v] /\ v \in Replying /\ v # w
    BY <2>2, <2>5 DEF Replying, Thread
  <2>7. \A v \in Replying : v # w => v \in Replying' /\ task'[v] = task[v]
    BY <2>2, <2>5 DEF Replying, Thread
  <2>8. AnswerIds(c)' = AnswerIds(c)
    BY <2>2 DEF AnswerIds
  <2>10. CASE r.client # c
    <3>1. responses'[c] = responses[c]
      BY <1>0, <2>3, <2>10 DEF Typed, TallyTypes
    <3>2. OutIds(c)' = OutIds(c)
      <4>1. OutIds(c)' \subseteq OutIds(c)
        BY <2>6 DEF OutIds
      <4>2. ASSUME NEW v \in Replying, task[v].client = c
            PROVE  v \in Replying' /\ task'[v].client = c /\ task'[v].id = task[v].id
        BY <2>1, <2>7, <2>10, <4>2
      <4>3. OutIds(c) \subseteq OutIds(c)'
        BY <4>2 DEF OutIds
      <4> QED
        BY <4>1, <4>3
    <3> QED
      BY <1>0, <1>2, <2>8, <3>1, <3>2
  <2>11. CASE r.client = c
    <3>1. Reply(r, reply[w]) \in answers
      BY <1>0, <2>1, <2>2 DEF ResultsTrue
    <3>2. r.id \in AnswerIds(c)
      BY <2>11, <3>1, ReplyFacts DEF AnswerIds
    <3>3. r.id \in OutIds(c)
      BY <2>1, <2>2, <2>11 DEF OutIds
    <3>4. OutIds(c)' = OutIds(c) \ {r.id}
      <4>1. OutIds(c)' \subseteq OutIds(c)
        BY <2>6 DEF OutIds
      <4>2. r.id \notin OutIds(c)'
        BY <1>1, <2>1, <2>2, <2>6, <2>11 DEF OutIds
      <4>3. \A i \in OutIds(c) : i # r.id => i \in OutIds(c)'
        BY <2>1, <2>7 DEF OutIds
      <4> QED
        BY <4>1, <4>2, <4>3
    <3>5. Recorded(c)' = Recorded(c) \union {r.id} /\ r.id \notin Recorded(c)
      BY <1>2, <2>8, <3>2, <3>3, <3>4
    <3>6. IsFiniteSet(Recorded(c)) /\ Cardinality(Recorded(c)) \in Nat
      BY <1>0, RecordedFacts
    <3>7. Cardinality(Recorded(c) \union {r.id}) = Cardinality(Recorded(c)) + 1
      BY <3>5, <3>6, OneMore, Zenon
    <3>8. responses'[c] = responses[c] + 1
      BY <1>0, <2>3, <2>11 DEF Typed, TallyTypes
    <3> QED
      BY <1>0, <3>5, <3>7, <3>8
  <2> QED
    BY <2>10, <2>11
<1>5. ASSUME \A w \in Worker : ~HandleTask(w) /\ ~RecordResponse(w)
      PROVE  responses'[c] = Cardinality(Recorded(c)')
  <2>1. answers' = answers /\ responses' = responses
    BY <1>5, Frames DEF Changes, bookingVars
  <2>2. \A v \in Replying' : v \in Replying /\ task'[v] = task[v]
    BY <1>0, <1>5, WorkersLive DEF WorkerLife, AtWork, Replying
  <2>3. \A v \in Replying : v \in Replying'
    BY <1>0, <1>5, RecordsCalm
  <2>4. AnswerIds(c)' = AnswerIds(c)
    BY <2>1 DEF AnswerIds
  <2>5. OutIds(c)' = OutIds(c)
    <3>1. OutIds(c)' \subseteq OutIds(c)
      BY <2>2 DEF OutIds
    <3>2. OutIds(c) \subseteq OutIds(c)'
      BY <2>2, <2>3 DEF OutIds
    <3> QED
      BY <3>1, <3>2
  <2> QED
    BY <1>0, <1>2, <2>1, <2>4, <2>5
<1> QED
  BY <1>3, <1>4, <1>5

(* A pending request was pending before, or has just been sent.            *)
LEMMA PendingBefore ==
  ASSUME Typed, [ServerNext]_serverVars, NEW c \in Client, NEW p \in view'[c].pending
  PROVE  p \in view[c].pending \/ \E r \in Request : Asks(c, r) /\ p = r
<1> DEFINE Goal == p \in view[c].pending \/ \E r \in Request : Asks(c, r) /\ p = r
<1>1. ASSUME UNCHANGED view PROVE Goal
  BY <1>1
<1>2. ASSUME NEW d \in Client, ClientStep(d), d # c PROVE Goal
  BY <1>2, OthersKeep
<1>3. ASSUME ClientStep(c) PROVE Goal
  <2>1. ASSUME NEW r \in Request, Asks(c, r) PROVE Goal
    <3>1. CASE p = r
      BY <2>1, <3>1
    <3>2. CASE p # r
      BY <2>1, <3>2 DEF Asks
    <3> QED
      BY <3>1, <3>2
  <2>2. ASSUME NEW m \in Lines, NEW r \in Request, Hears(c, m, r) PROVE Goal
    BY <2>2 DEF Hears, RespView
  <2>3. ASSUME NEW m \in Lines, NEW r \in Request, Learns(c, m, r) PROVE Goal
    BY <2>3 DEF Learns, NotifyView
  <2> HIDE DEF Goal
  <2> QED
    BY <1>1, <1>3, <2>1, <2>2, <2>3, ClientMoves
<1> HIDE DEF Goal
<1> QED
  BY <1>1, <1>2, <1>3, Frames DEF Goal, Changes

LEMMA AllRepliedStep ==
  ASSUME BaseInv, Calm, Good, Calm', [ServerNext]_serverVars
  PROVE  AllReplied'
<1> SUFFICES ASSUME NEW c \in Client, NEW r \in view'[c].pending, ~Unanswered(r)'
             PROVE  \/ \E w \in Sending' : task'[w] = r
                    \/ \E j \in DOMAIN toClient'[c] :
                         toClient'[c][j].type = "RESP" /\ toClient'[c][j].id = r.id
  BY DEF AllReplied
<1> DEFINE q == toClient[c]
           Goal == \/ \E w \in Sending' : task'[w] = r
                   \/ \E j \in DOMAIN toClient'[c] :
                        toClient'[c][j].type = "RESP" /\ toClient'[c][j].id = r.id
<1>0. /\ BooksInv /\ Typed /\ ResultsTrue /\ AnswersOnce /\ ViewOK(c) /\ WireOK(c)
      /\ AllReplied /\ q \in Seq(Lines) /\ reporter = None /\ reporter' = None /\ ByeLast(c)
  BY DEF BaseInv, EndInv, BooksInv, Books, Good, Typed, WireTypes, Calm
<1>1. r \in view[c].pending /\ r.client = c
  <2>1. ASSUME NEW p \in Request, Asks(c, p), p = r PROVE FALSE
    <3>1. r.id = view[c].sent + 1 /\ r.client = c /\ UNCHANGED <<answers, accepted>>
      BY <2>1 DEF Asks, ClientStep, bookingVars, tallyVars
    <3>2. PICK a \in answers : a.client = c /\ a.request = r.id
      BY <3>1 DEF Unanswered
    <3>3. a.request <= accepted[c]
      BY <1>0, <3>2 DEF AnswersOnce
    <3>4. accepted[c] <= view[c].sent /\ view[c].sent \in 0..RequestsPerClient /\ accepted[c] \in Nat
      BY <1>0, AcceptedSent
    <3> QED
      BY <3>1, <3>2, <3>3, <3>4
  <2>2. r \in view[c].pending
    BY <1>0, <2>1, PendingBefore
  <2> QED
    BY <1>0, <2>2 DEF ViewOK, Asked
<1>2. CASE Unanswered(r)
  <2>1. PICK w \in Worker : HandleTask(w)
    BY <1>2, Frames DEF Changes, bookingVars, Unanswered
  <2>2. PICK st \in Status : answers' = answers \union {Reply(task[w], st)}
    BY <2>1 DEF HandleTask
  <2>3. task[w].client = r.client /\ task[w].id = r.id
    BY <1>2, <2>2, ReplyFacts DEF Unanswered
  <2>4. task[w] \in view[c].pending /\ task'[w] = task[w]
    BY <1>0, <1>1, <2>1, <2>3, HandledPending
  <2>5. task[w] = r
    BY <1>0, <1>1, <2>3, <2>4 DEF ViewOK, Asked
  <2>6. w \in Sending'
    BY <1>0, <2>1 DEF HandleTask, Goes, Sending, Typed, PcTypes, Thread
  <2> QED
    BY <2>4, <2>5, <2>6
<1>3. ASSUME NEW w \in Sending, task[w] = r PROVE Goal
  <2>0. w \in Worker /\ pc[w] \in {"submit", "send"} /\ w \in Thread /\ w # None /\ w # "notifier"
        /\ DOMAIN pc = Thread
    BY <1>0 DEF Sending, Thread, Typed, PcTypes
  <2>1. CASE w \in Sending'
    BY <1>0, <1>3, <2>1, SendingMoves
  <2>2. CASE w \notin Sending'
    <3>1. SubmitNotice(w) => pc'[w] = "send"
      BY <1>0, <2>0 DEF SubmitNotice, Fail, Goes, WakeNotifier, failVars
    <3>2. SendResponse(w) /\ pc[w] = "send"
      BY <1>0, <2>0, <2>2, <3>1, SendsMove DEF SendMoves, Sending
    <3>3. \A next : ~Fail(w, next)
      BY <1>0, <2>0 DEF Fail
    <3>4. phase[c] # "done" /\ phase[c] # "failed"
      BY <1>0, <1>1 DEF ByeLast, Calm
    <3>5. toClient' = [toClient EXCEPT ![c] = Append(@, Resp(r, reply[w]))]
      BY <1>1, <1>3, <3>2, <3>3, <3>4 DEF SendResponse, Deliver, Gone
    <3>6. Resp(r, reply[w]) \in Lines
      BY <1>0, <1>3, <2>0, RequestFacts DEF Typed, HandTypes, Replying
    <3>7. toClient'[c] = Append(q, Resp(r, reply[w]))
      BY <1>0, <3>5 DEF Typed, WireTypes
    <3>8. Resp(r, reply[w]).type = "RESP" /\ Resp(r, reply[w]).id = r.id
      BY DEF Resp
    <3> HIDE DEF q
    <3>9. Len(q) + 1 \in DOMAIN toClient'[c] /\ toClient'[c][Len(q) + 1] = Resp(r, reply[w])
      BY <1>0, <3>6, <3>7, AppendFacts
    <3> QED
      BY <3>8, <3>9
  <2> QED
    BY <2>1, <2>2
<1>4. ASSUME NEW j \in DOMAIN q, q[j].type = "RESP", q[j].id = r.id PROVE Goal
  <2>1. CASE toClient'[c] = q
    BY <1>4, <2>1
  <2>2. ASSUME NEW m \in Lines, LineAdded(c, m) PROVE Goal
    <3>1. toClient'[c] = Append(q, m)
      BY <2>2 DEF LineAdded
    <3> HIDE DEF q
    <3>2. j \in DOMAIN toClient'[c] /\ toClient'[c][j] = q[j]
      BY <1>0, <1>4, <3>1, AppendFacts
    <3> QED
      BY <1>4, <3>2
  <2>3. CASE toClient'[c] = <<>> /\ phase'[c] \in {"done", "failed"}
    <3>1. phase'[c] = "done" /\ phase[c] # "done"
      BY <1>0, <1>4, <2>3 DEF ByeLast, Calm
    <3> QED
      BY <1>0, <1>1, <3>1, DoneMoves
  <2>4. CASE LineRead(c)
    <3>1. /\ toClient'[c] = Tail(q) /\ q # <<>> /\ ClientStep(c) /\ Tail(q) # q
      BY <1>0, <2>4, TailDiffers DEF LineRead
    <3>2. j \in Nat /\ j \in 1..Len(q) /\ Len(q) \in Nat
      BY <1>0, <1>4
    <3>3. CASE j # 1
      <4>1. j - 1 \in DOMAIN Tail(q) /\ Tail(q)[j - 1] = q[j]
        BY <1>0, <3>1, <3>2, <3>3
      <4> QED
        BY <1>4, <3>1, <4>1
    <3>4. CASE j = 1
      <4>1. Head(q).type = "RESP" /\ Head(q).id = r.id
        BY <1>0, <1>4, <3>4, <3>1, QueueFacts
      <4>2. ASSUME NEW p \in Request, Asks(c, p) PROVE FALSE
        BY <3>1, <4>2 DEF Asks, SendRequest
      <4>3. ASSUME NEW m \in Lines, NEW p \in Request, Hears(c, m, p) PROVE FALSE
        <5>1. p \in view[c].pending /\ p.id = r.id /\ view'[c].pending = view[c].pending \ {p}
          BY <4>1, <4>3 DEF Hears, RespView
        <5>2. p = r
          BY <1>0, <1>1, <5>1 DEF ViewOK, Asked
        <5> QED
          BY <5>1, <5>2
      <4>4. ASSUME NEW m \in Lines, NEW p \in Request, Learns(c, m, p) PROVE FALSE
        BY <4>1, <4>4 DEF Learns
      <4>5. phase' # [phase EXCEPT ![c] = "failed"]
        BY <1>0 DEF Typed, ClientTypes, Calm
      <4> HIDE DEF q, Goal
      <4>6. Head(toClient[c]).type # "BYE" /\ toClient'[c] # toClient[c]
        BY <3>1, <4>1 DEF q
      <4> QED
        BY <1>0, <3>1, <4>2, <4>3, <4>4, <4>5, <4>6, ClientReads
    <3> QED
      BY <3>3, <3>4
  <2> HIDE DEF Goal
  <2> QED
    BY <1>0, <2>1, <2>2, <2>3, <2>4, LinesMove
<1>5. CASE ~Unanswered(r)
  <2>1. \/ \E w \in Sending : task[w] = r
        \/ \E j \in DOMAIN q : q[j].type = "RESP" /\ q[j].id = r.id
    BY <1>0, <1>1, <1>5 DEF AllReplied
  <2> HIDE DEF Goal, q
  <2> QED
    BY <1>3, <1>4, <2>1 DEF Goal
<1> QED
  BY <1>2, <1>5

(* How the notifier lets go of a notice when no failure is reported.       *)
CarryMoves ==
  reporter' = None =>
    /\ pc["notifier"] = "send" => pc'["notifier"] \in {"send", "count"}
    /\ pc["notifier"] = "count" => pc'["notifier"] = "count" \/ CountNotice

(* In every step without a failure the notifier moves as above. *)
LEMMA NotifierCarries ==
  ASSUME Typed, [ServerNext]_serverVars
  PROVE  CarryMoves
<1> USE DEF Typed, PcTypes, ReporterTypes, Thread, Main, CarryMoves,
        clientVars, wireVars, callVars, inputVars, tallyVars, noticeVars, failVars, endVars
<1>1. ASSUME NEW c \in Client, ClientStep(c) PROVE CarryMoves
  BY <1>1 DEF ClientStep
<1>2. ASSUME NEW c \in Client, ReadHello(c) PROVE CarryMoves
  BY <1>2 DEF ReadHello, RefuseLine, Fail, Goes
<1>3. ASSUME NEW c \in Client, ReadRequest(c) PROVE CarryMoves
  BY <1>3 DEF ReadRequest, RefuseLine, Fail, Goes
<1>4. ASSUME NEW c \in Client, ReadEnd(c) PROVE CarryMoves
  BY <1>4 DEF ReadEnd, Fail, Goes
<1>5. ASSUME NEW c \in Client, SayBye(c) PROVE CarryMoves
  BY <1>5 DEF SayBye, Deliver, Fail, Goes
<1>6. ASSUME NEW w \in Worker, TakeTask(w) PROVE CarryMoves
  BY <1>6 DEF TakeTask
<1>7. ASSUME NEW w \in Worker, WorkerAborted(w) PROVE CarryMoves
  BY <1>7 DEF WorkerAborted, Goes
<1>8. ASSUME NEW w \in Worker, HandleTask(w) PROVE CarryMoves
  BY <1>8 DEF HandleTask, Goes
<1>9. ASSUME NEW w \in Worker, SubmitNotice(w) PROVE CarryMoves
  BY <1>9 DEF SubmitNotice, Fail, Goes, WakeNotifier
<1>10. ASSUME NEW w \in Worker, SendResponse(w) PROVE CarryMoves
  BY <1>10 DEF SendResponse, Deliver, Fail, Goes
<1>11. ASSUME NEW w \in Worker, RecordResponse(w) PROVE CarryMoves
  BY <1>11 DEF RecordResponse, Fail, Goes
<1>12. ASSUME NEW w \in Worker, StopAfterLast(w) PROVE CarryMoves
  BY <1>12 DEF StopAfterLast, StopInput, WakeAll
<1>13. ASSUME NEW t \in Thread, ReportFailure(t) PROVE CarryMoves
  BY <1>13 DEF ReportFailure, StopInput, WakeAll, WakeNotifier
<1>14. CASE Put
  BY <1>14 DEF Put, RefuseLine, Fail, Goes, WakeWorker
<1>15. CASE StopListening
  BY <1>15 DEF StopListening, Goes
<1>16. CASE LeaveListener
  BY <1>16 DEF LeaveListener, Fail, Goes
<1>17. CASE Shutdown
  BY <1>17 DEF Shutdown, StopInput, WakeAll
<1>18. CASE JoinWorkers
  BY <1>18 DEF JoinWorkers, WakeNotifier
<1>19. CASE JoinNotifier
  BY <1>19 DEF JoinNotifier, Fail, Goes
<1>20. CASE StopMonitor
  BY <1>20 DEF StopMonitor, Goes
<1>21. CASE JoinMonitor
  BY <1>21 DEF JoinMonitor, Fail, Goes
<1>22. CASE CloseConnections
  BY <1>22 DEF CloseConnections, Goes
<1>23. CASE TakeNotice
  BY <1>23 DEF TakeNotice, Goes
<1>24. CASE SendNotice
  BY <1>24 DEF SendNotice, Deliver, Fail, Goes
<1>25. CASE CountNotice
  BY <1>25 DEF CountNotice, Goes
<1>26. CASE MonitorEnds
  BY <1>26 DEF MonitorEnds, Goes
<1>27. CASE Fault
  BY <1>27 DEF Fault, Fail, Goes, ClientFails
<1>28. CASE UNCHANGED serverVars
  BY <1>28 DEF serverVars
<1> HIDE DEF Typed, PcTypes, ReporterTypes, Thread, Main, CarryMoves
<1> QED
  BY <1>1, <1>2, <1>3, <1>4, <1>5, <1>6, <1>7, <1>8, <1>9, <1>10, <1>11, <1>12, <1>13,
     <1>14, <1>15, <1>16, <1>17, <1>18, <1>19, <1>20, <1>21, <1>22, <1>23, <1>24, <1>25,
     <1>26, <1>27, <1>28, Steps

LEMMA UncountedFacts ==
  ASSUME Typed, ResultsTrue, IsFiniteSet(handed)
  PROVE  /\ Uncounted \subseteq handed /\ IsFiniteSet(Uncounted) /\ Cardinality(Uncounted) \in Nat
         /\ Cardinality(handed) \in Nat
<1>1. Uncounted \subseteq handed
  BY DEF Uncounted, InQueue, Carried, ResultsTrue
<1> QED
  BY <1>1, FS_Subset, FS_CardinalityType

LEMMA AllCountedStep ==
  ASSUME BaseInv, Good, Calm', [ServerNext]_serverVars
  PROVE  AllCounted'
<1> DEFINE Goal == notifyCount' + Cardinality(Uncounted') = Cardinality(handed')
<1>0. /\ BooksInv /\ Typed /\ ResultsTrue /\ IsFiniteSet(handed) /\ NoticesApart /\ ThreadsJoined
      /\ reporter' = None /\ reporter = None /\ CarryMoves
      /\ notices \in Seq(Notices) /\ notice \in [Worker -> SUBSET Notices]
      /\ DOMAIN pc = Thread /\ Worker \subseteq Thread /\ "notifier" \in Thread
      /\ "notifier" \notin Worker
    <2>1. Typed
      BY DEF BaseInv, EndInv, BooksInv
    <2>2. reporter = None /\ CarryMoves
      BY <2>1, MovesCalm, NotifierCarries DEF CalmMoves, Calm
    <2> QED
      BY <2>1, <2>2 DEF BaseInv, EndInv, BooksInv, Calm, WaitTally, Typed, QueueTypes, HandTypes,
                        PcTypes, Thread
<1>1. /\ notifyCount + Cardinality(Uncounted) = Cardinality(handed) /\ notifyCount \in Nat
      /\ Uncounted \subseteq handed /\ IsFiniteSet(Uncounted) /\ Cardinality(Uncounted) \in Nat
      /\ Cardinality(handed) \in Nat
  BY <1>0, UncountedFacts DEF Good, AllCounted, Typed, TallyTypes
<1>2. ASSUME Uncounted' = Uncounted, UNCHANGED <<notifyCount, handed>> PROVE Goal
  BY <1>1, <1>2
<1>3. ASSUME NEW w \in Worker, HandleTask(w) PROVE Goal
  <2>1. /\ UNCHANGED <<notices, task, notifyCount>> /\ pc'["notifier"] = pc["notifier"]
        /\ notice' = [notice EXCEPT ![w] = handed' \ handed] /\ pc[w] = "handle"
    BY <1>0, <1>3 DEF HandleTask, Goes, noticeVars
  <2>2. notice[w] = {}
    BY <1>0, <2>1 DEF ThreadsJoined
  <2>3. Uncounted' = Uncounted \union (handed' \ handed)
    <3>1. /\ notice'[w] = handed' \ handed
          /\ \A v \in Worker : v # w => notice'[v] = notice[v]
      BY <1>0, <2>1
    <3>2. \A x : (\E v \in Worker : x \in notice'[v])
                   <=> (\E v \in Worker : x \in notice[v]) \/ x \in handed' \ handed
      BY <2>2, <3>1
    <3>3. InQueue' = InQueue /\ Carried' = Carried
      BY <2>1 DEF InQueue, Carried, Carrying
    <3> QED
      BY <3>2, <3>3 DEF Uncounted
  <2>4. PICK x : handed' \subseteq handed \union {x}
    BY <1>3 DEF HandleTask, Handle, Grant, Waitlist, Free, HandOver, Refuse
  <2>5. handed \subseteq handed'
    BY <1>0, Grows
  <2>6. CASE handed' = handed
    <3>1. Uncounted' = Uncounted
      BY <2>3, <2>6
    <3> QED
      BY <1>2, <2>1, <2>6, <3>1
  <2>7. CASE handed' # handed
    <3>1. handed' = handed \union {x} /\ x \notin handed /\ Uncounted' = Uncounted \union {x}
          /\ x \notin Uncounted
      BY <1>1, <2>3, <2>4, <2>5, <2>7
    <3>2. Cardinality(handed \union {x}) = Cardinality(handed) + 1
      BY <1>0, <3>1, OneMore, Zenon
    <3>3. Cardinality(Uncounted \union {x}) = Cardinality(Uncounted) + 1
      BY <1>1, <3>1, OneMore, Zenon
    <3>4. Cardinality(handed') = Cardinality(handed) + 1
          /\ Cardinality(Uncounted') = Cardinality(Uncounted) + 1
      BY <3>1, <3>2, <3>3
    <3> QED
      BY <1>1, <2>1, <3>4
  <2> QED
    BY <2>6, <2>7
<1>4. ASSUME NEW w \in Worker, SubmitNotice(w) PROVE Goal
  <2>1. /\ UNCHANGED <<task, notifyCount, handed>> /\ notice' = [notice EXCEPT ![w] = {}]
        /\ pc[w] = "submit"
    BY <1>4 DEF SubmitNotice, bookingVars
  <2>2. ~noticesFinished
    BY <1>0, <2>1 DEF ThreadsJoined
  <2>3. /\ \E n \in notice[w] : notices' = Append(notices, n)
        /\ pc' = WakeNotifier([pc EXCEPT ![w] = "send"])
    BY <1>4, <2>2 DEF SubmitNotice
  <2>4. PICK n \in notice[w] : notices' = Append(notices, n)
    BY <2>3
  <2>5. notice[w] = {n} /\ n \in Notices
    BY <1>0 DEF ThreadsJoined
  <2>6. Carried' = Carried
    <3>1. Carrying' <=> Carrying
      BY <1>0, <2>3 DEF Carrying, WakeNotifier
    <3> QED
      BY <2>1, <3>1 DEF Carried
  <2>7. InQueue' = InQueue \union {n}
    <3>1. /\ DOMAIN notices' = DOMAIN notices \union {Len(notices) + 1}
          /\ \A j \in DOMAIN notices : notices'[j] = notices[j]
          /\ notices'[Len(notices) + 1] = n
      BY <1>0, <2>4, <2>5, AppendFacts
    <3> QED
      BY <3>1 DEF InQueue
  <2>8. \A v \in Worker : notice'[v] = IF v = w THEN {} ELSE notice[v]
    BY <1>0, <2>1
  <2>9. \A x : (\E v \in Worker : x \in notice[v])
                 <=> (\E v \in Worker : x \in notice'[v]) \/ x = n
    BY <2>5, <2>8
  <2>10. Uncounted' = Uncounted
    BY <2>6, <2>7, <2>9 DEF Uncounted
  <2> QED
    BY <1>2, <2>1, <2>10
<1>5. ASSUME TakeNotice PROVE Goal
  <2>1. /\ UNCHANGED <<notice, notifyCount, handed>> /\ pc["notifier"] = "take"
    BY <1>5 DEF TakeNotice, bookingVars
  <2>2. ~noticesAborted /\ Carried = {}
    BY <1>0, <2>1 DEF ThreadsJoined, Carried, Carrying
  <2>3. CASE notices = <<>>
    <3>1. UNCHANGED notices /\ pc'["notifier"] \in {"ended", "asleep"}
      BY <1>0, <1>5, <2>3 DEF TakeNotice, Goes
    <3>2. Uncounted' = Uncounted
      BY <2>1, <2>2, <3>1 DEF Uncounted, InQueue, Carried, Carrying
    <3> QED
      BY <1>2, <2>1, <3>2
  <2>4. CASE notices # <<>>
    <3>1. /\ notices' = Tail(notices) /\ task'["notifier"] = Head(notices)
          /\ pc'["notifier"] = "send"
      BY <1>0, <1>5, <2>2, <2>4 DEF TakeNotice, Goes, Typed, HandTypes
    <3>2. Carried' = {Head(notices)}
      BY <3>1 DEF Carried, Carrying
    <3>3. InQueue = InQueue' \union {Head(notices)}
      <4>1. /\ DOMAIN notices = 1..Len(notices) /\ Len(notices) \in Nat \ {0}
            /\ Head(notices) = notices[1] /\ DOMAIN notices' = 1..(Len(notices) - 1)
            /\ \A j \in DOMAIN notices' : notices'[j] = notices[j + 1]
        BY <1>0, <2>4, <3>1, TailFacts, QueueFacts
      <4>2. \A x \in InQueue' : x \in InQueue
        BY <4>1 DEF InQueue
      <4>3. ASSUME NEW j \in DOMAIN notices, j # 1 PROVE notices[j] \in InQueue'
        <5>1. j - 1 \in DOMAIN notices' /\ j - 1 + 1 = j
          BY <4>1, <4>3
        <5>2. notices'[j - 1] = notices[j]
          BY <4>1, <5>1
        <5> QED
          BY <5>1, <5>2 DEF InQueue
      <4>4. 1 \in DOMAIN notices
        BY <4>1
      <4> QED
        BY <4>1, <4>2, <4>3, <4>4 DEF InQueue
    <3>4. Uncounted' = Uncounted
      BY <2>1, <2>2, <3>2, <3>3 DEF Uncounted
    <3> QED
      BY <1>2, <2>1, <3>4
  <2> QED
    BY <2>3, <2>4
<1>6. ASSUME CountNotice PROVE Goal
  <2>1. /\ UNCHANGED <<notice, notices, handed>> /\ pc["notifier"] = "count"
        /\ notifyCount' = notifyCount + 1 /\ pc'["notifier"] = "take"
    BY <1>0, <1>6 DEF CountNotice, Goes, bookingVars
  <2> DEFINE n == task["notifier"]
  <2>2. Carried = {n} /\ Carried' = {}
    BY <2>1 DEF Carried, Carrying
  <2>3. n \notin InQueue /\ \A w \in Worker : n \notin notice[w]
    BY <1>0, <2>2 DEF NoticesApart, InQueue
  <2> HIDE DEF n
  <2>4. InQueue' = InQueue
    BY <2>1 DEF InQueue
  <2>5. Uncounted' = Uncounted \ {n} /\ n \in Uncounted
    BY <2>1, <2>2, <2>3, <2>4 DEF Uncounted
  <2>6. Cardinality(Uncounted \ {n}) = Cardinality(Uncounted) - 1
    BY <1>1, <2>5, OneLess, Zenon
  <2>7. Cardinality(Uncounted') = Cardinality(Uncounted) - 1
    BY <2>5, <2>6
  <2> QED
    BY <1>1, <2>1, <2>7
<1>7. ASSUME ~TakeNotice, ~CountNotice, \A w \in Worker : ~HandleTask(w) /\ ~SubmitNotice(w) PROVE Goal
  <2>1. UNCHANGED <<notice, notices, handed, notifyCount>>
    BY <1>7, Frames DEF Changes, bookingVars
  <2>2. (Carrying' <=> Carrying) /\ (Carrying => task'["notifier"] = task["notifier"])
    BY <1>0, <1>7, NotifierLives DEF NotifierLife, CarryMoves, Carrying
  <2>3. Uncounted' = Uncounted
    BY <2>1, <2>2 DEF Uncounted, InQueue, Carried
  <2> QED
    BY <1>2, <2>1, <2>3
<1> QED
  BY <1>3, <1>4, <1>5, <1>6, <1>7 DEF AllCounted

-----------------------------------------------------------------------------
(* Nothing fails without an I/O error: the clients *)

LEMMA RespWelcome ==
  ASSUME BaseInv, NEW c \in Client, toClient[c] # <<>>, Head(toClient[c]).type = "RESP"
  PROVE  Answered(c, Head(toClient[c])) # {}
<1> DEFINE q == toClient[c]
<1>0. /\ ResultsTrue /\ AnswersOnce /\ ViewOK(c) /\ q \in Seq(Lines) /\ RespOnce(c)
      /\ view[c].pending \subseteq Request
  BY DEF BaseInv, EndInv, BooksInv, Books, Typed, WireTypes, ClientTypes, Views, Proper
<1>1. PICK m \in Lines : m = Head(q) /\ m = q[1] /\ 1 \in DOMAIN q /\ m.type = "RESP"
  BY <1>0, QueueFacts
<1>2. PICK r \in view[c].pending : r.id = m.id /\ r.seats = m.seats
  BY <1>0, <1>1 DEF RespOnce
<1>3. [client |-> c, request |-> m.id, status |-> m.status] \in answers /\ r.client = c
  BY <1>0, <1>1, <1>2 DEF ResultsTrue, LineTrue, ViewOK, Asked
<1>4. Reply(r, m.status) \in answers
  BY <1>2, <1>3 DEF Reply
<1>5. ASSUME r.id \in view[c].early PROVE m.status = "WAITLISTED"
  <2>1. PICK n \in handed : n.client = c /\ n.request = r.id
    BY <1>0, <1>5 DEF ViewOK
  <2>2. PICK a \in answers : a = [client |-> n.client, request |-> n.request, status |-> "WAITLISTED"]
    BY <1>0 DEF AnswersOnce
  <2>3. PICK b \in answers : b = [client |-> c, request |-> m.id, status |-> m.status]
    BY <1>3
  <2>4. a = b
    BY <1>0, <1>2, <2>1, <2>2, <2>3 DEF AnswersOnce
  <2> QED
    BY <2>2, <2>3, <2>4
<1>6. m.status = "WAITLISTED" => r.command = "RESERVE"
  BY <1>0, <1>2, <1>4 DEF ViewOK, Asked
<1>7. r \in Answered(c, m)
  BY <1>2, <1>5, <1>6 DEF Answered
<1> QED
  BY <1>1, <1>7

LEMMA NotifyWelcome ==
  ASSUME BaseInv, NEW c \in Client, toClient[c] # <<>>, Head(toClient[c]).type = "NOTIFY"
  PROVE  Told(c, Head(toClient[c])) # {}
<1> DEFINE q == toClient[c]
<1>0. /\ ResultsTrue /\ Books /\ Typed /\ ViewOK(c) /\ OpenOK(c) /\ q \in Seq(Lines) /\ NoticesOpen
  BY DEF BaseInv, EndInv, BooksInv, Books, Typed, WireTypes, ClaimsOK
<1>1. PICK m \in Lines : m = Head(q) /\ m = q[1] /\ 1 \in DOMAIN q /\ m.type = "NOTIFY"
  BY <1>0, QueueFacts
<1>2. PICK n \in handed : n.client = c /\ m = Notify(n)
  <2>1. LineTrue(c, m)
    BY <1>0, <1>1 DEF ResultsTrue
  <2> HIDE DEF q
  <2> QED
    BY <1>1, <2>1 DEF LineTrue
<1>3. OnWay(n)
  BY <1>1, <1>2 DEF OnWay, OnWire
<1>4. PICK r \in Open(c) : r.id = n.request
  BY <1>0, <1>2, <1>3 DEF NoticesOpen
<1>5. n.seat = OnlySeat(r)
  BY <1>0, <1>2, <1>4 DEF OpenOK
<1>6. r \in Proper /\ r.command = "RESERVE"
  BY <1>0, OpenTaken
<1>7. r.seats = <<OnlySeat(r)>>
  BY <1>6, ProperFacts
<1>8. r.id = m.id /\ r.seats = m.seats
  BY <1>2, <1>4, <1>5, <1>7 DEF Notify
<1>9. r \in view[c].waits \/ (r \in view[c].pending /\ r.id \notin view[c].early)
  BY <1>4 DEF Open, Asked
<1>10. r \in Told(c, m)
  BY <1>6, <1>8, <1>9 DEF Told
<1> QED
  BY <1>1, <1>10

LEMMA ByeWelcome ==
  ASSUME BaseInv, Calm, Good, NEW c \in Client, toClient[c] # <<>>, Head(toClient[c]).type = "BYE"
  PROVE  InBalance(c)
<1> DEFINE q == toClient[c]
<1>0. /\ BooksInv /\ Typed /\ ViewOK(c) /\ q \in Seq(Lines) /\ ListOK(c) /\ CompletedCounts
      /\ LastAccepted /\ StoppedLast /\ AllReplied /\ ByeLast(c)
  BY DEF BaseInv, EndInv, BooksInv, Books, Typed, WireTypes, Good
<1>1. q[1] = Bye /\ 1 \in DOMAIN q /\ Head(q) \in Lines
  BY <1>0, QueueFacts, LineFacts
<1>2. c \in farewells /\ Len(q) = 1
  BY <1>0, <1>1 DEF ByeLast
<1>3. MainNext \in Joined /\ \A w \in Worker : pc[w] = "ended"
  BY <1>2, EndQuiet
<1>4. pc[Main] \notin Listening
  <2>1. pc[Main] # "report"
    BY <1>0 DEF Typed, ReporterTypes, Calm, Thread
  <2> QED
    BY <1>3, <2>1 DEF MainNext, Joined, Listening
<1>5. completed = Expected
  BY <1>0, <1>4 DEF StoppedLast, Listening
<1>6. view[c].sent = RequestsPerClient /\ \A r \in Request : r.client = c => ~Unanswered(r)
  BY <1>0, <1>5, AllAnswered
<1>7. view[c].pending = {}
  <2> SUFFICES ASSUME NEW r \in view[c].pending PROVE FALSE
    OBVIOUS
  <2>1. r \in Request /\ r.client = c
    BY <1>0 DEF Typed, ClientTypes, Views, Proper, ViewOK, Asked
  <2>2. ~Unanswered(r)
    BY <1>6, <2>1
  <2>3. \A w \in Sending : FALSE
    BY <1>3 DEF Sending
  <2>4. PICK j \in DOMAIN q : q[j].type = "RESP"
    BY <1>0, <2>2, <2>3 DEF AllReplied
  <2>5. j = 1
    BY <1>0, <1>2
  <2> QED
    BY <1>1, <2>4, <2>5, ByeIsLine
<1>8. view[c].answered = RequestsPerClient
  <2>1. Cardinality(view[c].pending) = 0
    BY <1>7, FS_EmptySet
  <2>2. view[c].answered + Cardinality(view[c].pending) = view[c].sent /\ view[c].answered \in Nat
    BY <1>0 DEF ViewOK, Typed, ClientTypes, Views
  <2> QED
    BY <1>6, <2>1, <2>2
<1>9. view[c].listed = view[c].told + Cardinality(view[c].waits)
  <2>1. view[c].early = {}
    BY <1>0, <1>7 DEF ListOK
  <2>2. Cardinality(view[c].early) = 0
    BY <2>1, FS_EmptySet
  <2>3. view[c].listed + Cardinality(view[c].early) = view[c].told + Cardinality(view[c].waits)
        /\ view[c].listed \in Nat
    BY <1>0 DEF ListOK, Typed, ClientTypes, Views
  <2> QED
    BY <2>2, <2>3
<1> QED
  BY <1>6, <1>7, <1>8, <1>9 DEF InBalance

(* Who is left without a connection has been told so before.               *)
LEMMA ClosedFacts ==
  ASSUME BaseInv, Calm, Good, closed # {}
  PROVE  /\ farewells = Client /\ registered = Client /\ pc[Main] = "ended"
         /\ pc["notifier"] = "ended" /\ \A w \in Worker : pc[w] = "ended"
<1>1. pc[Main] = "ended" /\ farewells = Client
  BY DEF Good, ClosedLast, ByeToAll, Joined
<1>2. farewells # {} /\ registered = Client
  BY <1>1 DEF BaseInv, EndInv, BooksInv, Typed, TallyTypes
<1> QED
  BY <1>1, <1>2, EndQuiet

LEMMA ClientsCalm ==
  ASSUME BaseInv, Calm, Good, [ServerNext]_serverVars, faults' = 0, NEW c \in Client
  PROVE  phase'[c] # "failed"
<1> SUFFICES ASSUME phase'[c] = "failed" PROVE FALSE
  OBVIOUS
<1>0. /\ Typed /\ WireOK(c) /\ phase[c] # "failed" /\ reporter = None /\ ByeToAll
      /\ toClient[c] \in Seq(Lines)
  BY DEF BaseInv, EndInv, BooksInv, Calm, Good, Typed, WireTypes
<1>1. ~Fault
  BY <1>0 DEF Fault, Typed, TallyTypes
<1>2. ClientStep(c)
  BY <1>0, <1>1, OthersKeep, Frames DEF Changes
<1>3. phase \in [Client -> {"new", "up", "done", "failed"}]
  BY <1>0 DEF Typed, ClientTypes
<1>4. CASE Connect(c)
  <2>1. c \in closed /\ phase[c] = "new"
    BY <1>3, <1>4 DEF Connect
  <2> QED
    BY <1>0, <2>1, ClosedFacts DEF WireOK
<1>5. CASE ReceiveEnd(c)
  <2>1. c \in closed /\ phase[c] = "up" /\ toClient[c] = <<>>
    BY <1>0, <1>5 DEF ReceiveEnd
  <2> QED
    BY <1>0, <2>1, ClosedFacts DEF ByeToAll
<1>6. CASE AbortClient(c)
  BY <1>6 DEF AbortClient, Calm
<1>7. CASE \E r \in Choose(c) : SendRequest(c, r)
  BY <1>0, <1>7 DEF SendRequest
<1>8. CASE ReceiveLine(c)
  <2>1. toClient[c] # <<>> /\ Head(toClient[c]) \in Lines
    BY <1>0, <1>8, QueueFacts DEF ReceiveLine
  <2>2. CASE Head(toClient[c]).type = "RESP"
    BY <1>0, <1>3, <1>8, <2>1, <2>2, RespWelcome DEF ReceiveLine
  <2>3. CASE Head(toClient[c]).type = "NOTIFY"
    BY <1>0, <1>3, <1>8, <2>1, <2>3, NotifyWelcome DEF ReceiveLine
  <2>4. CASE Head(toClient[c]).type = "BYE"
    BY <1>0, <1>3, <1>8, <2>1, <2>4, ByeWelcome DEF ReceiveLine
  <2> QED
    BY <2>1, <2>2, <2>3, <2>4, LineFacts
<1> QED
  BY <1>2, <1>4, <1>5, <1>6, <1>7, <1>8 DEF ClientStep

-----------------------------------------------------------------------------
(* Nothing fails without an I/O error: the threads of the server *)

(* Where a first failure may come from.                                    *)
Unheard(t, c) == c \in closed \/ Gone(c) \/ t \in interrupted
FailSites ==
  reporter = None /\ reporter' # None =>
    \/ \E c \in Client : \/ ReadHello(c) /\ inputStopped
                         \/ ReadRequest(c) /\ Head(toServer[c]).id # accepted[c] + 1
                         \/ ReadEnd(c)
                         \/ SayBye(c) /\ Unheard(Main, c)
    \/ Put /\ inputStopped
    \/ (LeaveListener \/ JoinNotifier) /\ completed # Expected
    \/ JoinMonitor /\ ~ServerInBalance
    \/ \E w \in Worker : \/ SubmitNotice(w) /\ noticesFinished
                         \/ SendResponse(w) /\ Unheard(w, task[w].client)
                         \/ /\ RecordResponse(w)
                            /\ \/ task[w].client \notin registered
                               \/ responses[task[w].client] >= RequestsPerClient
    \/ /\ SendNotice
       /\ \/ task["notifier"].client \notin registered
          \/ Unheard("notifier", task["notifier"].client)
    \/ Fault

(* In every step a first failure comes from there. *)
LEMMA FailuresCome ==
  ASSUME Typed, [ServerNext]_serverVars
  PROVE  FailSites
<1> USE DEF Typed, PcTypes, ReporterTypes, Thread, Main, Unheard, FailSites,
        clientVars, wireVars, callVars, inputVars, tallyVars, noticeVars, failVars, endVars
<1>1. ASSUME NEW c \in Client, ClientStep(c) PROVE FailSites
  BY <1>1 DEF ClientStep
<1>2. ASSUME NEW c \in Client, ReadHello(c) PROVE FailSites
  BY <1>2 DEF ReadHello, RefuseLine, Fail, Goes
<1>3. ASSUME NEW c \in Client, ReadRequest(c) PROVE FailSites
  BY <1>3 DEF ReadRequest, RefuseLine, Fail, Goes
<1>4. ASSUME NEW c \in Client, ReadEnd(c) PROVE FailSites
  BY <1>4 DEF ReadEnd, Fail, Goes
<1>5. ASSUME NEW c \in Client, SayBye(c) PROVE FailSites
  BY <1>5 DEF SayBye, Deliver, Fail, Goes
<1>6. ASSUME NEW w \in Worker, TakeTask(w) PROVE FailSites
  BY <1>6 DEF TakeTask
<1>7. ASSUME NEW w \in Worker, WorkerAborted(w) PROVE FailSites
  BY <1>7 DEF WorkerAborted, Goes
<1>8. ASSUME NEW w \in Worker, HandleTask(w) PROVE FailSites
  BY <1>8 DEF HandleTask, Goes
<1>9. ASSUME NEW w \in Worker, SubmitNotice(w) PROVE FailSites
  BY <1>9 DEF SubmitNotice, Fail, Goes, WakeNotifier
<1>10. ASSUME NEW w \in Worker, SendResponse(w) PROVE FailSites
  BY <1>10 DEF SendResponse, Deliver, Fail, Goes
<1>11. ASSUME NEW w \in Worker, RecordResponse(w) PROVE FailSites
  BY <1>11 DEF RecordResponse, Fail, Goes
<1>12. ASSUME NEW w \in Worker, StopAfterLast(w) PROVE FailSites
  BY <1>12 DEF StopAfterLast, StopInput, WakeAll
<1>13. ASSUME NEW t \in Thread, ReportFailure(t) PROVE FailSites
  BY <1>13 DEF ReportFailure, StopInput, WakeAll, WakeNotifier
<1>14. CASE Put
  BY <1>14 DEF Put, RefuseLine, Fail, Goes, WakeWorker
<1>15. CASE StopListening
  BY <1>15 DEF StopListening, Goes
<1>16. CASE LeaveListener
  BY <1>16 DEF LeaveListener, Fail, Goes
<1>17. CASE Shutdown
  BY <1>17 DEF Shutdown, StopInput, WakeAll
<1>18. CASE JoinWorkers
  BY <1>18 DEF JoinWorkers, WakeNotifier
<1>19. CASE JoinNotifier
  BY <1>19 DEF JoinNotifier, Fail, Goes
<1>20. CASE StopMonitor
  BY <1>20 DEF StopMonitor, Goes
<1>21. CASE JoinMonitor
  BY <1>21 DEF JoinMonitor, Fail, Goes
<1>22. CASE CloseConnections
  BY <1>22 DEF CloseConnections, Goes
<1>23. CASE TakeNotice
  BY <1>23 DEF TakeNotice, Goes
<1>24. CASE SendNotice
  BY <1>24 DEF SendNotice, Deliver, Fail, Goes
<1>25. CASE CountNotice
  BY <1>25 DEF CountNotice, Goes
<1>26. CASE MonitorEnds
  BY <1>26 DEF MonitorEnds, Goes
<1>27. CASE Fault
  BY <1>27 DEF Fault, Fail, Goes, ClientFails
<1>28. CASE UNCHANGED serverVars
  BY <1>28 DEF serverVars
<1> HIDE DEF Typed, PcTypes, ReporterTypes, Thread, Main, Unheard, FailSites
<1> QED
  BY <1>1, <1>2, <1>3, <1>4, <1>5, <1>6, <1>7, <1>8, <1>9, <1>10, <1>11, <1>12, <1>13,
     <1>14, <1>15, <1>16, <1>17, <1>18, <1>19, <1>20, <1>21, <1>22, <1>23, <1>24, <1>25,
     <1>26, <1>27, <1>28, Steps

(* Whoever is answered or handed a seat has said HELLO.                    *)
LEMMA AnsweredRegistered ==
  ASSUME BooksInv, NEW a \in answers
  PROVE  a.client \in Client /\ a.client \in registered
<1>1. Typed /\ a \in Replies /\ a.request <= accepted[a.client] /\ a.request \in 1..MaxId
  BY DEF BooksInv, Books, AnswersOnce, Typed, BookingTypes, Replies
<1>2. a.client \in Client /\ WireOK(a.client)
  BY <1>1 DEF Replies, BooksInv
<1>3. accepted[a.client] # 0
  BY <1>1, <1>2 DEF Typed, TallyTypes
<1> QED
  BY <1>2, <1>3 DEF WireOK

(* A worker that records a response finds room in the tally of its client. *)
LEMMA RoomToRecord ==
  ASSUME BooksInv, NEW w \in Replying
  PROVE  /\ task[w].client \in Client /\ task[w].client \in registered
         /\ ~(responses[task[w].client] >= RequestsPerClient)
<1>0. Typed /\ ResultsTrue /\ AnswersOnce /\ w \in Worker
  BY DEF BooksInv, Books, Replying
<1>1. PICK r \in Request : r = task[w]
  BY <1>0 DEF Typed, HandTypes
<1>2. Reply(r, reply[w]) \in answers /\ r.id \in 1..RequestsPerClient
  BY <1>0, <1>1, RequestFacts DEF ResultsTrue
<1>3. PICK c \in Client : c = r.client
  BY RequestFacts
<1>4. c \in registered
  BY <1>2, <1>3, AnsweredRegistered, ReplyFacts
<1>5. CountOK(c) /\ WireOK(c) /\ responses[c] \in Nat
  BY <1>0 DEF BooksInv, Typed, TallyTypes
<1>6. Recorded(c) \subseteq (1..RequestsPerClient) \ {r.id}
  <2>1. /\ Recorded(c) = AnswerIds(c) \ OutIds(c) /\ AnswerIds(c) \subseteq 1..accepted[c]
    BY <1>0, RecordedFacts
  <2>2. accepted[c] \in Nat /\ accepted[c] <= RequestsPerClient
    BY <1>0, <1>5, AcceptedSent
  <2>3. r.id \in OutIds(c)
    BY <1>1, <1>3 DEF OutIds
  <2> QED
    BY <2>1, <2>2, <2>3
<1>7. Cardinality(Recorded(c)) <= RequestsPerClient - 1
  <2> DEFINE S == 1..RequestsPerClient
  <2>1. IsFiniteSet(S) /\ Cardinality(S) = RequestsPerClient
    <3>1. IsFiniteSet(1..RequestsPerClient)
          /\ Cardinality(1..RequestsPerClient)
               = IF 1 > RequestsPerClient THEN 0 ELSE RequestsPerClient - 1 + 1
      BY FS_Interval
    <3> QED
      BY <3>1
  <2>2. r.id \in S /\ Recorded(c) \subseteq S \ {r.id}
    BY <1>2, <1>6
  <2> HIDE DEF S
  <2>3. IsFiniteSet(S \ {r.id}) /\ Cardinality(S \ {r.id}) = Cardinality(S) - 1
    BY <2>1, <2>2, OneLess, Zenon
  <2>4. Cardinality(Recorded(c)) <= Cardinality(S \ {r.id})
    BY <2>2, <2>3, FS_Subset
  <2> QED
    BY <2>1, <2>3, <2>4
<1>8. Cardinality(Recorded(c)) \in Nat
  BY <1>0, RecordedFacts
<1>9. ~(responses[c] >= RequestsPerClient)
  BY <1>5, <1>7, <1>8 DEF CountOK
<1> QED
  BY <1>1, <1>3, <1>4, <1>9

(* As long as a thread has something to send, its client is there.         *)
LEMMA Heard ==
  ASSUME BaseInv, Calm, Good, NEW t, NEW c \in Client,
         \/ t \in Worker \union {"notifier"} /\ pc[t] # "ended"
         \/ pc[Main] = "bye" /\ c \notin farewells
  PROVE  ~Unheard(t, c)
<1>1. c \notin closed
  BY ClosedFacts
<1>2. phase[c] # "failed" /\ t \notin interrupted
  BY DEF Calm, BaseInv, EndInv, ThreadsJoined
<1>3. phase[c] # "done"
  <2>1. phase[c] = "done" => c \in farewells
    BY DEF BaseInv, EndInv, ByeLast
  <2> QED
    BY <2>1, EndQuiet
<1> QED
  BY <1>1, <1>2, <1>3 DEF Unheard, Gone

LEMMA ServerCalm ==
  ASSUME BaseInv, Calm, Good, [ServerNext]_serverVars, faults' = 0
  PROVE  reporter' = None
<1> SUFFICES ASSUME reporter' # None PROVE FALSE
  OBVIOUS
<1>0. /\ BooksInv /\ Typed /\ ThreadsJoined /\ CompletedCounts /\ LastAccepted /\ StoppedLast
      /\ ResultsTrue /\ AnswersOnce /\ reporter = None
  BY DEF BaseInv, EndInv, BooksInv, Books, Good, Calm
<1>1. ~Fault
  BY <1>0 DEF Fault, Typed, TallyTypes
<1>2. FailSites
  BY <1>0, FailuresCome
<1>3. ASSUME NEW c \in Client, ReadHello(c), inputStopped PROVE FALSE
  <2>1. toServer[c] = <<>>
    BY <1>0, <1>3, AllAnswered DEF StoppedLast
  <2> QED
    BY <1>3, <2>1 DEF ReadHello
<1>4. ASSUME NEW c \in Client, ReadRequest(c), Head(toServer[c]).id # accepted[c] + 1 PROVE FALSE
  <2>1. c \notin closed /\ toServer[c] # <<>> /\ Head(toServer[c]) # Hello
    BY <1>4 DEF ReadRequest
  <2>2. 1 \in DOMAIN toServer[c] /\ Head(toServer[c]) = toServer[c][1]
    BY <1>0, <2>1, QueueFacts DEF Typed, WireTypes
  <2>3. WireOK(c)
    BY <1>0 DEF BooksInv
  <2> QED
    BY <1>4, <2>1, <2>2, <2>3 DEF WireOK
<1>5. ASSUME NEW c \in Client, ReadEnd(c) PROVE FALSE
  <2>1. pc[Main] = "listen" /\ phase[c] = "done"
    BY <1>5 DEF ReadEnd, Gone, Calm
  <2>2. c \in farewells
    BY <2>1 DEF BaseInv, EndInv, ByeLast
  <2> QED
    BY <2>1, <2>2, EndQuiet DEF MainNext, Joined
<1>6. ASSUME NEW c \in Client, SayBye(c), Unheard(Main, c) PROVE FALSE
  BY <1>6, Heard DEF SayBye
<1>7. ASSUME Put, inputStopped PROVE FALSE
  BY <1>0, <1>7, NoneLeft DEF Put, Holding, StoppedLast
<1>8. ASSUME LeaveListener \/ JoinNotifier, completed # Expected PROVE FALSE
  BY <1>0, <1>8 DEF LeaveListener, JoinNotifier, StoppedLast
<1>9. ASSUME JoinMonitor, ~ServerInBalance PROVE FALSE
  <2>1. MainNext \in Joined
    BY <1>9 DEF JoinMonitor, MainNext, Joined
  <2>2. /\ notices = <<>> /\ pc["notifier"] = "ended" /\ \A w \in Worker : notice[w] = {}
    BY <1>0, <2>1 DEF ThreadsJoined
  <2>3. Uncounted = {}
    BY <2>2 DEF Uncounted, InQueue, Carried, Carrying
  <2>4. Cardinality(Uncounted) = 0
    BY <2>3, FS_EmptySet
  <2>5. notifyCount + Cardinality(Uncounted) = Cardinality(handed) /\ notifyCount \in Nat
    BY <1>0 DEF Good, AllCounted, Typed, TallyTypes
  <2>6. Cardinality(Listed) = Cardinality(handed) + Cardinality(Places(waiting))
    BY DEF BaseInv, WaitTally
  <2>7. notifyCount = Cardinality(handed)
    BY <2>4, <2>5
  <2> QED
    BY <1>9, <2>6, <2>7 DEF ServerInBalance, Listed, Places
<1>10. ASSUME NEW w \in Worker, SubmitNotice(w), noticesFinished PROVE FALSE
  BY <1>0, <1>10 DEF SubmitNotice, ThreadsJoined
<1>11. ASSUME NEW w \in Worker, SendResponse(w), Unheard(w, task[w].client) PROVE FALSE
  <2>1. w \in Replying /\ pc[w] # "ended"
    BY <1>11 DEF SendResponse, Replying
  <2> QED
    <3>1. PICK c \in Client : c = task[w].client
      BY <1>0, <2>1, RoomToRecord
    <3>2. ~Unheard(w, c)
      BY <2>1, Heard DEF Replying
    <3> QED
      BY <1>11, <3>1, <3>2
<1>12. ASSUME NEW w \in Worker, RecordResponse(w),
              task[w].client \notin registered \/ responses[task[w].client] >= RequestsPerClient
       PROVE  FALSE
  <2>1. w \in Replying
    BY <1>12 DEF RecordResponse, Replying
  <2> QED
    BY <1>0, <1>12, <2>1, RoomToRecord
<1>13. ASSUME SendNotice, \/ task["notifier"].client \notin registered
                          \/ Unheard("notifier", task["notifier"].client)
       PROVE  FALSE
  <2>1. pc["notifier"] = "send" /\ Carrying
    BY <1>13 DEF SendNotice, Carrying
  <2>2. PICK n \in handed : n = task["notifier"]
    BY <1>0, <2>1 DEF ResultsTrue
  <2>3. n.client \in Client /\ n.client \in registered
    <3>1. PICK a \in answers :
            a = [client |-> n.client, request |-> n.request, status |-> "WAITLISTED"]
      BY <1>0 DEF AnswersOnce
    <3> QED
      BY <1>0, <3>1, AnsweredRegistered
  <2> QED
    <3>1. PICK c \in Client : c = n.client
      BY <2>3
    <3>2. pc["notifier"] # "ended" /\ "notifier" \in Worker \union {"notifier"}
      BY <2>1
    <3>3. ~Unheard("notifier", c)
      BY <3>2, Heard
    <3> QED
      BY <1>13, <2>2, <2>3, <3>1, <3>3
<1> QED
  BY <1>0, <1>1, <1>2, <1>3, <1>4, <1>5, <1>6, <1>7, <1>8, <1>9, <1>10, <1>11, <1>12, <1>13
     DEF FailSites

-----------------------------------------------------------------------------
(* The whole *)

LEMMA CalmInit == ServerInit => CalmInv
<1> SUFFICES ASSUME ServerInit PROVE CalmInv
  OBVIOUS
<1>1. EndInv
  BY EndInit
<1>2. /\ answers = {} /\ handed = {} /\ notices = <<>> /\ completed = 0 /\ notifyCount = 0
      /\ closed = {} /\ farewells = {} /\ ~inputStopped /\ reporter = None
      /\ pc[Main] = "listen" /\ pc["notifier"] = "take"
      /\ \A w \in Worker : notice[w] = {} /\ pc[w] = "take"
      /\ \A c \in Client : responses[c] = 0 /\ toClient[c] = <<>> /\ phase[c] = "new"
  BY DEF ServerInit, BookingInit, Thread, Main
<1>3. \A c \in Client : /\ view[c].pending = {} /\ view[c].early = {} /\ view[c].waits = {}
                        /\ view[c].listed = 0 /\ view[c].told = 0
  BY DEF ServerInit
<1>4. \A c \in Client : RespOnce(c)
  BY <1>2, <1>3 DEF RespOnce, Sending
<1>5. \A c \in Client : ListOK(c)
  BY <1>3, FS_EmptySet DEF ListOK
<1>6. NoticesApart /\ NoticesOpen /\ LastAccepted
  BY <1>2 DEF NoticesApart, NoticesOpen, LastAccepted, Holding
<1>7. CompletedCounts
  <2>1. Counted = {}
    BY <1>2 DEF Counted
  <2> QED
    BY <1>2, <2>1, FS_EmptySet DEF CompletedCounts
<1>8. WaitTally
  <2>1. Listed = {}
    BY <1>2 DEF Listed
  <2>2. Places(waiting) = {}
    <3>1. \A s \in Seat : DOMAIN waiting[s] = {}
      BY DEF ServerInit, BookingInit
    <3> QED
      BY <3>1 DEF Places
  <2> QED
    BY <1>2, <2>1, <2>2, FS_EmptySet DEF WaitTally
<1>9. Calm /\ ClosedLast /\ StoppedLast /\ ByeToAll /\ AllReplied
  BY <1>2, <1>3 DEF Calm, ClosedLast, StoppedLast, ByeToAll, AllReplied, Joined
<1>10. AllRecorded
  <2>1. \A c \in Client : Recorded(c) = {}
    BY <1>2 DEF Recorded
  <2> QED
    BY <1>2, <2>1, FS_EmptySet DEF AllRecorded
<1>11. AllCounted
  <2>1. Uncounted = {}
    BY <1>2 DEF Uncounted, InQueue, Carried, Carrying
  <2> QED
    BY <1>2, <2>1, FS_EmptySet DEF AllCounted
<1> QED
  BY <1>1, <1>4, <1>5, <1>6, <1>7, <1>8, <1>9, <1>10, <1>11 DEF CalmInv, BaseInv, Good

LEMMA CalmStep == CalmInv /\ [ServerNext]_serverVars => CalmInv'
<1> SUFFICES ASSUME CalmInv, [ServerNext]_serverVars PROVE CalmInv'
  OBVIOUS
<1>0. BaseInv /\ Typed
  BY DEF CalmInv, BaseInv, EndInv, BooksInv
<1>1. BaseInv'
  BY <1>0, BaseStep
<1>2. ASSUME faults' = 0 PROVE Calm'
  <2>1. faults = 0
    <3>1. Fault => faults' = faults + 1
      BY DEF Fault
    <3> QED
      BY <1>0, <1>2, <3>1, Frames DEF Changes, Typed, TallyTypes
  <2>2. Calm /\ Good
    BY <2>1 DEF CalmInv
  <2> QED
    BY <1>0, <1>2, <2>2, ServerCalm, ClientsCalm DEF Calm
<1>3. ASSUME Calm' PROVE Good'
  <2>1. Calm /\ Good
    BY <1>0, <1>3, CalmBefore DEF CalmInv
  <2> QED
    BY <1>0, <1>3, <2>1, ClosedStep, StoppedStep, ByeToAllStep, AllRecordedStep, AllRepliedStep,
       AllCountedStep DEF Good
<1> QED
  BY <1>1, <1>2, <1>3 DEF CalmInv

(* NoFalseAlarm: in every run without I/O errors, whatever the order in    *)
(* which requests, responses and notices arrive, every line is expected by *)
(* the client that reads it, no thread's check fires, no connection is     *)
(* closed under a client, and both sides' tallies balance in the end.      *)
THEOREM NoFalseAlarms == ServerSpec => []NoFalseAlarm
<1>1. CalmInv => NoFalseAlarm
  BY DEF CalmInv, Calm, NoFalseAlarm
<1> QED
  BY <1>1, CalmInit, CalmStep, PTL DEF ServerSpec
=============================================================================
