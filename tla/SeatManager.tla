----------------------------- MODULE SeatManager -----------------------------
(***************************************************************************)
(* HW2 server, SeatManager.java: the worker threads inside handle.         *)
(*                                                                         *)
(* One lock per seat.  A request for one seat is judged under its lock; a  *)
(* reservation of several seats takes their locks one by one in ascending  *)
(* order, judges them together, assigns them one by one and unlocks in     *)
(* descending order.  A cancellation is two steps under its lock, since    *)
(* the seat is vacant before it is handed on.  tryLock followed by lock    *)
(* differs from lock by the contention metric only.                        *)
(***************************************************************************)
EXTENDS SeatRequests

CONSTANTS
  Worker,     \* worker threads
  None

ASSUME ManagerAssumption ==
  /\ None \notin Worker /\ None \notin Status \union {"ERROR"}

VARIABLES
  owner,
  waiting,
  lock,           \* the worker that holds the lock of a seat, or None
  asked,          \* requests the clients have made, by client
  pc,             \* where a worker is inside handle
  request,        \* the request it handles
  todo,           \* seats it has still to lock, to hand on or to assign
  status,         \* its verdict, None before
  notice,         \* the notice it returns, if any
  assignments, releases, waitlisted, doubleBookings,
  answers,        \* replies returned to the callers
  handed          \* notices returned to the callers

seatVars == <<owner, waiting, assignments, releases, waitlisted, doubleBookings>>
callVars == <<pc, request, todo, status, notice>>
doneVars == <<answers, handed>>
managerVars == <<seatVars, lock, asked, callVars, doneVars>>

NoRequest == [client |-> Nobody]

ManagerInit ==
  /\ owner = [s \in Seat |-> Nobody]
  /\ waiting = [s \in Seat |-> <<>>]
  /\ lock = [s \in Seat |-> None]
  /\ asked = [c \in Client |-> 0]
  /\ pc = [w \in Worker |-> "idle"]
  /\ request = [w \in Worker |-> NoRequest]
  /\ todo = [w \in Worker |-> {}]
  /\ status = [w \in Worker |-> None]
  /\ notice = [w \in Worker |-> {}]
  /\ assignments = 0 /\ releases = 0 /\ waitlisted = 0 /\ doubleBookings = 0
  /\ answers = {} /\ handed = {}

Held(w) == {s \in Seat : lock[s] = w}
Lowest(S) == CHOOSE s \in S : \A t \in S : s <= t
Highest(S) == CHOOSE s \in S : \A t \in S : t <= s

(* Mutant: the waitlist is served from its end. *)
LastOf(q) == q[Len(q)]

HeadOf(q) == Head(q)

-----------------------------------------------------------------------------
(* The caller *)

(* Worker.run takes the next request from the queue; a client numbers its  *)
(* requests in order.                                                      *)
Take(w, r) ==
  /\ pc[w] = "idle"
  /\ r.id = asked[r.client] + 1
  /\ asked' = [asked EXCEPT ![r.client] = @ + 1]
  /\ request' = [request EXCEPT ![w] = r]

(* BAD_MULTI, BAD_SEAT: refused without a lock. *)
RejectCall(w, r) ==
  /\ Take(w, r) /\ Malformed(r)
  /\ pc' = [pc EXCEPT ![w] = "return"]
  /\ status' = [status EXCEPT ![w] = "FAIL"]
  /\ UNCHANGED <<seatVars, lock, todo, notice, doneVars>>

StartCall(w, r) ==
  /\ Take(w, r) /\ ~Malformed(r)
  /\ pc' = [pc EXCEPT ![w] = "acquire"]
  /\ todo' = [todo EXCEPT ![w] = SeatsOf(r)]
  /\ UNCHANGED <<seatVars, lock, status, notice, doneVars>>

(* The Result goes back to the worker loop. *)
Return(w) ==
  /\ pc[w] = "return"
  /\ answers' = answers \union
       (IF status[w] \in Status THEN {Reply(request[w], status[w])} ELSE {})
  /\ handed' = handed \union notice[w]
  /\ pc' = [pc EXCEPT ![w] = "idle"]
  /\ request' = [request EXCEPT ![w] = NoRequest]
  /\ status' = [status EXCEPT ![w] = None]
  /\ notice' = [notice EXCEPT ![w] = {}]
  /\ UNCHANGED <<seatVars, lock, asked, todo>>

-----------------------------------------------------------------------------
(* Locks *)

(* Mutant: the seats of a request are locked in the order it lists them. *)
NextToLockListed(w) ==
  request[w].seats[CHOOSE i \in DOMAIN request[w].seats :
    /\ request[w].seats[i] \in todo[w]
    /\ \A j \in DOMAIN request[w].seats : request[w].seats[j] \in todo[w] => i <= j]

NextToLock(w) == Lowest(todo[w])

Acquire(w) ==
  LET s == NextToLock(w) IN
  /\ pc[w] = "acquire"
  /\ lock[s] = None
  /\ lock' = [lock EXCEPT ![s] = w]
  /\ todo' = [todo EXCEPT ![w] = @ \ {s}]
  /\ pc' = [pc EXCEPT ![w] = IF todo[w] = {s} THEN "judge" ELSE @]
  /\ UNCHANGED <<seatVars, asked, request, status, notice, doneVars>>

Unlock(w) ==
  LET s == Highest(Held(w)) IN
  /\ pc[w] = "unlock"
  /\ lock' = [lock EXCEPT ![s] = None]
  /\ pc' = [pc EXCEPT ![w] = IF Held(w) = {s} THEN "return" ELSE @]
  /\ UNCHANGED <<seatVars, asked, request, todo, status, notice, doneVars>>

(* The verdict is known and the finally block comes next. *)
Decide(w, st) ==
  /\ status' = [status EXCEPT ![w] = st]
  /\ pc' = [pc EXCEPT ![w] = "unlock"]

(* assign: a seat that is taken already is counted, and the call throws.   *)
Assign(s, c) ==
  IF owner[s] = Nobody
  THEN /\ owner' = [owner EXCEPT ![s] = c]
       /\ assignments' = assignments + 1
       /\ UNCHANGED doubleBookings
  ELSE /\ doubleBookings' = doubleBookings + 1
       /\ UNCHANGED <<owner, assignments>>

-----------------------------------------------------------------------------
(* RESERVE *)

Judging(w, command) == pc[w] = "judge" /\ request[w].command = command

GrantSeat(w) ==
  LET s == OnlySeat(request[w]) IN
  /\ Judging(w, "RESERVE") /\ owner[s] = Nobody
  /\ Assign(s, request[w].client)
  /\ Decide(w, "SUCCESS")
  /\ UNCHANGED <<waiting, releases, waitlisted, lock, asked, request, todo, notice, doneVars>>

(* ALREADY_OWNER, ALREADY_WAITING *)
RefuseSeat(w) ==
  LET s == OnlySeat(request[w])
      c == request[w].client
  IN
  /\ Judging(w, "RESERVE") /\ owner[s] # Nobody
  /\ owner[s] = c \/ IsWaiting(waiting[s], c)
  /\ Decide(w, "FAIL")
  /\ UNCHANGED <<seatVars, lock, asked, request, todo, notice, doneVars>>

JoinWaitlist(w) ==
  LET s == OnlySeat(request[w])
      c == request[w].client
  IN
  /\ Judging(w, "RESERVE") /\ owner[s] \notin {Nobody, c}
  /\ ~IsWaiting(waiting[s], c)
  /\ waiting' = [waiting EXCEPT ![s] = Append(@, Entry(request[w]))]
  /\ waitlisted' = waitlisted + 1
  /\ Decide(w, "WAITLISTED")
  /\ UNCHANGED <<owner, assignments, releases, doubleBookings, lock, asked,
                 request, todo, notice, doneVars>>

-----------------------------------------------------------------------------
(* CANCEL *)

(* NOT_OWNER *)
RefuseCancel(w) ==
  /\ Judging(w, "CANCEL") /\ owner[OnlySeat(request[w])] # request[w].client
  /\ Decide(w, "FAIL")
  /\ UNCHANGED <<seatVars, lock, asked, request, todo, notice, doneVars>>

ReleaseSeat(w) ==
  LET s == OnlySeat(request[w]) IN
  /\ Judging(w, "CANCEL") /\ owner[s] = request[w].client
  /\ owner' = [owner EXCEPT ![s] = Nobody]
  /\ releases' = releases + 1
  /\ todo' = [todo EXCEPT ![w] = {s}]
  /\ pc' = [pc EXCEPT ![w] = "handoff"]
  /\ UNCHANGED <<waiting, assignments, waitlisted, doubleBookings, lock, asked,
                 request, status, notice, doneVars>>

(* Mutant: a single waiting client is overlooked. *)
LastOneWaits(s) == Len(waiting[s]) <= 1

NobodyWaits(s) == waiting[s] = <<>>

(* pollFirst on the waitlist; the head becomes the owner. *)
HandOff(w) ==
  LET s == OnlySeat(request[w])
      e == HeadOf(waiting[s])
  IN
  /\ pc[w] = "handoff"
  /\ todo' = [todo EXCEPT ![w] = {}]
  /\ IF NobodyWaits(s)
     THEN /\ Decide(w, "SUCCESS")
          /\ UNCHANGED <<owner, waiting, assignments, doubleBookings, notice>>
     ELSE /\ waiting' = [waiting EXCEPT ![s] = Tail(@)]
          /\ Assign(s, e.client)
          /\ Decide(w, IF owner[s] = Nobody THEN "SUCCESS" ELSE "ERROR")
          /\ notice' = [notice EXCEPT ![w] = IF owner[s] = Nobody THEN {Notice(e, s)} ELSE @]
  /\ UNCHANGED <<releases, waitlisted, lock, asked, request, doneVars>>

-----------------------------------------------------------------------------
(* RESERVE_MULTI *)

(* Mutant: the highest seat of the request is not looked at. *)
AllEmptyButLast(w) ==
  \A s \in SeatsOf(request[w]) \ {Highest(SeatsOf(request[w]))} : owner[s] = Nobody

AllEmpty(w) == \A s \in SeatsOf(request[w]) : owner[s] = Nobody

(* TAKEN *)
RefuseMulti(w) ==
  /\ Judging(w, "RESERVE_MULTI") /\ ~AllEmpty(w)
  /\ Decide(w, "FAIL")
  /\ UNCHANGED <<seatVars, lock, asked, request, todo, notice, doneVars>>

AcceptMulti(w) ==
  /\ Judging(w, "RESERVE_MULTI") /\ AllEmpty(w)
  /\ status' = [status EXCEPT ![w] = "SUCCESS"]
  /\ todo' = [todo EXCEPT ![w] = SeatsOf(request[w])]
  /\ pc' = [pc EXCEPT ![w] = "assign"]
  /\ UNCHANGED <<seatVars, lock, asked, request, notice, doneVars>>

AssignNext(w) ==
  LET s == Lowest(todo[w]) IN
  /\ pc[w] = "assign"
  /\ Assign(s, request[w].client)
  /\ todo' = [todo EXCEPT ![w] = IF owner[s] = Nobody THEN @ \ {s} ELSE {}]
  /\ pc' = [pc EXCEPT ![w] = IF owner[s] = Nobody /\ todo[w] # {s} THEN @ ELSE "unlock"]
  /\ status' = [status EXCEPT ![w] = IF owner[s] = Nobody THEN @ ELSE "ERROR"]
  /\ UNCHANGED <<waiting, releases, waitlisted, lock, asked, request, notice, doneVars>>

-----------------------------------------------------------------------------

WorkerCalls(w) ==
  \E r \in Request : RejectCall(w, r) \/ StartCall(w, r)

WorkerHandles(w) ==
  \/ Acquire(w) \/ Unlock(w) \/ Return(w)
  \/ GrantSeat(w) \/ RefuseSeat(w) \/ JoinWaitlist(w)
  \/ RefuseCancel(w) \/ ReleaseSeat(w) \/ HandOff(w)
  \/ RefuseMulti(w) \/ AcceptMulti(w) \/ AssignNext(w)

ManagerNext == \E w \in Worker : WorkerCalls(w) \/ WorkerHandles(w)

ManagerSpec == ManagerInit /\ [][ManagerNext]_managerVars
-----------------------------------------------------------------------------
(* Properties *)

SeatTypeOK ==
  /\ owner \in [Seat -> Client \union {Nobody}]
  /\ waiting \in [Seat -> Seq(Entries)]
  /\ lock \in [Seat -> Worker \union {None}]
  /\ asked \in [Client -> 0..MaxId]
  /\ pc \in [Worker -> {"idle", "acquire", "judge", "handoff", "assign", "unlock", "return"}]
  /\ request \in [Worker -> Request \union {NoRequest}]
  /\ todo \in [Worker -> SUBSET Seat]
  /\ status \in [Worker -> Status \union {None, "ERROR"}]
  /\ notice \in [Worker -> SUBSET Notices]
  /\ assignments \in Nat /\ releases \in Nat /\ waitlisted \in Nat /\ doubleBookings \in Nat
  /\ answers \subseteq Replies /\ handed \subseteq Notices

(* Worker w waits for a lock that v holds. *)
BlockedBy(w, v) == pc[w] = "acquire" /\ lock[NextToLock(w)] = v

(* Overlapping reservations and cancellations never end up waiting for     *)
(* each other: no group of workers is blocked on itself (reserveMulti).    *)
NoCircularWait ==
  \A W \in (SUBSET Worker) \ {{}} : \E w \in W : \A v \in W : ~BlockedBy(w, v)

(* A client has one claim on a seat: it owns it, or it waits for it once.  *)
(* RESERVE_MULTI does not look at the waitlists, and a hand-over does not  *)
(* look for the new owner further down the list.                           *)
OneClaim ==
  \A s \in Seat : \A i \in DOMAIN waiting[s] :
    /\ waiting[s][i].client # owner[s]
    /\ \A j \in DOMAIN waiting[s] : i # j => waiting[s][i].client # waiting[s][j].client

(* Whoever gets the lock of a seat, the monitor's snapshot included, never *)
(* finds it vacant with clients waiting for it.                            *)
NoVacantQueue ==
  \A s \in Seat : lock[s] = None /\ owner[s] = Nobody => waiting[s] = <<>>

Quiet == \A w \in Worker : pc[w] = "idle"

(* The balance Server.writeFinalState asks for once the workers have       *)
(* stopped: every assignment not released is a reserved seat, and every    *)
(* client ever waitlisted was handed a seat or is still in a list.         *)
Balanced ==
  Quiet =>
    /\ doubleBookings = 0
    /\ assignments - releases = Cardinality({s \in Seat : owner[s] # Nobody})
    /\ waitlisted = Cardinality(handed)
                      + Cardinality(UNION {{s} \X DOMAIN waiting[s] : s \in Seat})

(* The caller sees an assignment or a hand-over under way as done: the     *)
(* request was decided when its worker found the seats empty, respectively *)
(* owned by the canceller until the hand-over.                             *)
UnderWay(s) ==
  lock[s] # None /\ pc[lock[s]] \in {"handoff", "assign"} /\ s \in todo[lock[s]]

SeenOwner ==
  [s \in Seat |-> IF UnderWay(s) THEN request[lock[s]].client ELSE owner[s]]
Decided == {w \in Worker : status[w] \in Status}
SeenAnswers == answers \union {Reply(request[w], status[w]) : w \in Decided}
SeenHanded == handed \union UNION {notice[w] : w \in Worker}

Booking == INSTANCE SeatBooking
             WITH owner <- SeenOwner, answers <- SeenAnswers, handed <- SeenHanded

(* With its locks SeatManager judges and answers every request atomically. *)
ImplementsBooking == Booking!BookingSpec
=============================================================================
