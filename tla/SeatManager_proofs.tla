-------------------------- MODULE SeatManager_proofs --------------------------
(***************************************************************************)
(* Proofs about SeatManager, for every number of seats, clients, workers   *)
(* and requests and for whatever lists of seats the requests carry.        *)
(***************************************************************************)
EXTENDS SeatManager, FiniteSetTheorems, TLAPS

USE RequestsAssumption, ManagerAssumption

-----------------------------------------------------------------------------
(* Lemmas about seats and requests *)

(* A nonempty set of seats has a lowest and a highest one.                  *)
LEMMA Extremes ==
  ASSUME NEW N \in Nat, NEW S, S \subseteq 1..N, S # {}
  PROVE  /\ \E x \in S : \A y \in S : x <= y
         /\ \E x \in S : \A y \in S : y <= x
<1> DEFINE Below == {1..s : s \in S}
           Above == {s..N : s \in S}
<1>1. IsWellFoundedOn(StrictSubsetOrdering(1..N), SUBSET (1..N))
  <2>1. IsFiniteSet(1..N)
    BY FS_Interval
  <2>2. FiniteSubsetsOf(1..N) = SUBSET (1..N)
    BY <2>1, FS_FiniteSubsetsOfFinite
  <2>3. IsWellFoundedOn(StrictSubsetOrdering(1..N), FiniteSubsetsOf(1..N))
    BY FS_StrictSubsetOrderingWellFounded
  <2> QED
    BY <2>2, <2>3
<1>2. \E x \in S : \A y \in S : x <= y
  <2>1. Below \subseteq SUBSET (1..N) /\ Below # {}
    <3>1. \A s \in S : 1..s \in Below /\ 1..s \in SUBSET (1..N)
      OBVIOUS
    <3> QED
      BY <3>1
  <2>2. PICK X \in Below : \A Y \in Below : <<Y, X>> \notin StrictSubsetOrdering(1..N)
    BY <1>1, <2>1, WFMin, Zenon
  <2>3. PICK x \in S : X = 1..x
    BY <2>2
  <2>4. ASSUME NEW y \in S, y < x PROVE FALSE
    <3>1. 1..y \in Below /\ 1..y \subseteq X /\ 1..y # X /\ x \in X /\ x \notin 1..y
      BY <2>3, <2>4
    <3> QED
      BY <2>1, <2>2, <3>1 DEF StrictSubsetOrdering
  <2> QED
    BY <2>4
<1>3. \E x \in S : \A y \in S : y <= x
  <2>1. Above \subseteq SUBSET (1..N) /\ Above # {}
    <3>1. \A s \in S : s..N \in Above /\ s..N \in SUBSET (1..N)
      OBVIOUS
    <3> QED
      BY <3>1
  <2>2. PICK X \in Above : \A Y \in Above : <<Y, X>> \notin StrictSubsetOrdering(1..N)
    BY <1>1, <2>1, WFMin, Zenon
  <2>3. PICK x \in S : X = x..N
    BY <2>2
  <2>4. ASSUME NEW y \in S, x < y PROVE FALSE
    <3>1. y..N \in Above /\ y..N \subseteq X /\ y..N # X
      <4>1. x \in X /\ x \notin y..N
        BY <2>3, <2>4
      <4> QED
        BY <2>3, <2>4, <4>1
    <3> QED
      BY <2>1, <2>2, <3>1 DEF StrictSubsetOrdering
  <2> QED
    BY <2>4
<1> QED
  BY <1>2, <1>3

LEMMA LowestIsLowest ==
  ASSUME NEW S, S \subseteq Seat, S # {}
  PROVE  Lowest(S) \in S /\ \A t \in S : Lowest(S) <= t
BY Extremes DEF Lowest, Seat

LEMMA HighestIsHighest ==
  ASSUME NEW S, S \subseteq Seat, S # {}
  PROVE  Highest(S) \in S /\ \A t \in S : t <= Highest(S)
BY Extremes DEF Highest, Seat

(* What handle knows of a request it has not refused at once.               *)
LEMMA WellFormedSeats ==
  ASSUME NEW r \in Request, ~Malformed(r)
  PROVE  /\ SeatsOf(r) \subseteq Seat /\ SeatsOf(r) # {}
         /\ r.command # "RESERVE_MULTI" => SeatsOf(r) = {OnlySeat(r)}
<1>1. r.seats \in Seq(Int) /\ r.command \in Command
  BY DEF Request
<1>2. SeatsOf(r) \subseteq Seat
  BY DEF Malformed, BadSeat, SeatsOf
<1>3. CASE r.command = "RESERVE_MULTI"
  <2>1. Len(r.seats) \in MinMulti..MaxMulti
    BY <1>3 DEF Malformed, BadMulti
  <2>2. 1 \in DOMAIN r.seats
    BY <1>1, <2>1
  <2> QED
    BY <1>2, <1>3, <2>2 DEF SeatsOf
<1>4. CASE r.command # "RESERVE_MULTI"
  <2>1. DOMAIN r.seats = {1}
    BY <1>1, <1>4 DEF Request
  <2> QED
    BY <1>2, <1>4, <2>1 DEF SeatsOf, OnlySeat
<1> QED
  BY <1>3, <1>4

-----------------------------------------------------------------------------
(* The inductive invariant *)

(* Where worker w stands in handle, and what it has locked by then.         *)
InCall(w) ==
  /\ pc[w] # "idle" => request[w] \in Request
  /\ pc[w] \notin {"idle", "return"} => ~Malformed(request[w])
  /\ pc[w] \in {"idle", "return"} => Held(w) = {}
  /\ pc[w] = "acquire" =>
       /\ todo[w] # {} /\ todo[w] \union Held(w) = SeatsOf(request[w])
       /\ \A h \in Held(w), t \in todo[w] : h < t
  /\ pc[w] \in {"judge", "handoff", "assign"} => Held(w) = SeatsOf(request[w])
  /\ pc[w] = "unlock" => Held(w) # {}
  /\ pc[w] = "handoff" =>
       request[w].command = "CANCEL" /\ todo[w] = {OnlySeat(request[w])}
  /\ pc[w] = "assign" =>
       /\ request[w].command = "RESERVE_MULTI" /\ status[w] = "SUCCESS"
       /\ todo[w] # {} /\ todo[w] \subseteq Held(w)
  /\ pc[w] \in {"handoff", "assign"} => \A s \in todo[w] : owner[s] = Nobody
  /\ status[w] \in Status <=> pc[w] \in {"assign", "unlock", "return"}
  /\ status[w] # "ERROR"
  /\ pc[w] \notin {"unlock", "return"} => notice[w] = {}

Calls == \A w \in Worker : InCall(w)

(* Clients wait only for seats that have an owner, but for the moment       *)
(* between the release of a seat and its hand-over.                         *)
Vacancy ==
  \A s \in Seat :
    owner[s] = Nobody /\ ~(lock[s] # None /\ pc[lock[s]] = "handoff") => waiting[s] = <<>>

(* No two requests under one number are in the hands of the workers or      *)
(* answered.                                                                *)
Numbered ==
  /\ \A a \in answers : a.request <= asked[a.client]
  /\ \A w \in Worker : pc[w] # "idle" =>
       /\ request[w].id <= asked[request[w].client]
       /\ \A a \in answers : a.client = request[w].client => a.request # request[w].id
       /\ \A v \in Worker : v # w /\ pc[v] # "idle" /\ request[v].client = request[w].client =>
            request[v].id # request[w].id

ManagerInv ==
  SeatTypeOK /\ Calls /\ Vacancy /\ OneClaim /\ Numbered /\ doubleBookings = 0

LEMMA ManagerInitInv == ManagerInit => ManagerInv
<1> SUFFICES ASSUME ManagerInit PROVE ManagerInv
  OBVIOUS
<1>1. SeatTypeOK
  BY DEF ManagerInit, SeatTypeOK
<1>2. Calls
  BY DEF ManagerInit, Calls, InCall, Held, Status
<1>3. Vacancy /\ OneClaim /\ Numbered
  BY DEF ManagerInit, Vacancy, OneClaim, Numbered
<1> QED
  BY <1>1, <1>2, <1>3 DEF ManagerInit, ManagerInv

-----------------------------------------------------------------------------
(* Type correctness of one step *)

LEMMA StartType ==
  ASSUME SeatTypeOK, NEW w \in Worker, WorkerCalls(w)
  PROVE  SeatTypeOK'
<1> USE DEF SeatTypeOK, seatVars, doneVars
<1> PICK r \in Request : RejectCall(w, r) \/ StartCall(w, r)
  BY DEF WorkerCalls
<1>1. asked' \in [Client -> 0..MaxId] /\ request' \in [Worker -> Request \union {NoRequest}]
  <2>1. r.client \in Client /\ r.id \in 1..MaxId /\ r.id = asked[r.client] + 1
    BY DEF Request, RejectCall, StartCall, Take
  <2>2. Take(w, r)
    BY DEF RejectCall, StartCall
  <2> QED
    BY <2>1, <2>2 DEF Take
<1>2. CASE RejectCall(w, r)
  BY <1>1, <1>2 DEF RejectCall, Status
<1>3. CASE StartCall(w, r)
  <2>1. SeatsOf(r) \in SUBSET Seat
    BY <1>3, WellFormedSeats DEF StartCall
  <2> QED
    BY <1>1, <1>3, <2>1 DEF StartCall
<1> QED
  BY <1>2, <1>3

LEMMA AssignType ==
  ASSUME SeatTypeOK, NEW s \in Seat, NEW c \in Client, Assign(s, c)
  PROVE  /\ owner' \in [Seat -> Client \union {Nobody}]
         /\ assignments' \in Nat /\ doubleBookings' \in Nat
<1>1. CASE owner[s] = Nobody
  <2>1. /\ owner' = [owner EXCEPT ![s] = c]
        /\ assignments' = assignments + 1 /\ doubleBookings' = doubleBookings
    BY <1>1 DEF Assign
  <2> QED
    BY <2>1 DEF SeatTypeOK
<1>2. CASE owner[s] # Nobody
  BY <1>2 DEF SeatTypeOK, Assign
<1> QED
  BY <1>1, <1>2

LEMMA HandleType ==
  ASSUME SeatTypeOK, Calls, NEW w \in Worker, WorkerHandles(w)
  PROVE  SeatTypeOK'
<1> USE DEF SeatTypeOK, seatVars, doneVars
<1> DEFINE r == request[w]
           s == OnlySeat(r)
<1>1. InCall(w)
  BY DEF Calls
<1>2. pc[w] # "idle" => r \in Request /\ r.client \in Client /\ r.id \in 1..MaxId
  BY <1>1 DEF InCall, Request
<1>3. pc[w] \in {"judge", "handoff"} /\ r.command # "RESERVE_MULTI" => s \in Seat
  BY <1>1, WellFormedSeats DEF InCall
<1>4. CASE Acquire(w)
  <2>1. NextToLock(w) \in Seat
    BY <1>1, <1>4, LowestIsLowest DEF Acquire, InCall, NextToLock
  <2> QED
    BY <1>4, <2>1 DEF Acquire
<1>5. CASE Unlock(w)
  BY <1>5 DEF Unlock
<1>6. CASE Return(w)
  <2>1. status[w] \in Status => Reply(r, status[w]) \in Replies
    BY <1>2, <1>6 DEF Return, Reply, Replies
  <2> QED
    BY <1>6, <2>1 DEF Return
<1>7. CASE GrantSeat(w)
  <2>1. Assign(s, r.client) /\ s \in Seat /\ r.client \in Client
    BY <1>2, <1>3, <1>7 DEF GrantSeat, Judging
  <2> QED
    BY <1>7, <2>1, AssignType DEF GrantSeat, Decide, Status
<1>8. CASE RefuseSeat(w)
  BY <1>8 DEF RefuseSeat, Decide, Status
<1>9. CASE JoinWaitlist(w)
  <2>1. Entry(r) \in Entries /\ s \in Seat
    BY <1>2, <1>3, <1>9 DEF JoinWaitlist, Judging, Entry, Entries
  <2>2. waiting' \in [Seat -> Seq(Entries)]
    BY <1>9, <2>1 DEF JoinWaitlist
  <2> QED
    BY <1>9, <2>2 DEF JoinWaitlist, Decide, Status
<1>10. CASE RefuseCancel(w)
  BY <1>10 DEF RefuseCancel, Decide, Status
<1>11. CASE ReleaseSeat(w)
  BY <1>3, <1>11 DEF ReleaseSeat, Judging
<1>12. CASE HandOff(w)
  <2>1. s \in Seat
    BY <1>1, <1>3, <1>12 DEF HandOff, InCall
  <2>2. CASE NobodyWaits(s)
    BY <1>12, <2>2 DEF HandOff, Decide, Status
  <2>3. CASE ~NobodyWaits(s)
    <3> waiting[s] \in Seq(Entries) /\ waiting[s] # <<>>
      BY <2>1, <2>3 DEF NobodyWaits
    <3>0. Head(waiting[s]) \in Entries /\ Tail(waiting[s]) \in Seq(Entries)
      OBVIOUS
    <3>1. Head(waiting[s]).client \in Client
      BY <3>0 DEF Entries
    <3>2. Notice(Head(waiting[s]), s) \in Notices
      BY <2>1, <3>0 DEF Notice, Notices, Entries
    <3>3. waiting' = [waiting EXCEPT ![s] = Tail(@)]
      BY <1>12, <2>3 DEF HandOff
    <3>4. waiting' \in [Seat -> Seq(Entries)]
      BY <2>1, <3>0, <3>3
    <3>5. owner' \in [Seat -> Client \union {Nobody}] /\ assignments' \in Nat /\ doubleBookings' \in Nat
      <4>1. Assign(s, Head(waiting[s]).client)
        BY <1>12, <2>3 DEF HandOff, HeadOf
      <4> QED
        BY <2>1, <3>1, <4>1, AssignType
    <3>6. notice' \in [Worker -> SUBSET Notices]
      <4>1. notice' = [notice EXCEPT ![w] =
                         IF owner[s] = Nobody THEN {Notice(Head(waiting[s]), s)} ELSE @]
        BY <1>12, <2>3 DEF HandOff, HeadOf
      <4> QED
        BY <3>2, <4>1
    <3> QED
      BY <1>12, <2>3, <3>4, <3>5, <3>6 DEF HandOff, Decide, Status
  <2> QED
    BY <2>2, <2>3
<1>13. CASE RefuseMulti(w)
  BY <1>13 DEF RefuseMulti, Decide, Status
<1>14. CASE AcceptMulti(w)
  <2>1. SeatsOf(r) \in SUBSET Seat
    BY <1>1, <1>14 DEF AcceptMulti, Judging, InCall, Held
  <2> QED
    BY <1>14, <2>1 DEF AcceptMulti, Status
<1>15. CASE AssignNext(w)
  <2>1. Lowest(todo[w]) \in Seat
    BY <1>1, <1>15, LowestIsLowest DEF AssignNext, InCall
  <2> QED
    BY <1>2, <1>15, <2>1, AssignType DEF AssignNext
<1> QED
  BY <1>4, <1>5, <1>6, <1>7, <1>8, <1>9, <1>10, <1>11, <1>12, <1>13, <1>14, <1>15
  DEF WorkerHandles

-----------------------------------------------------------------------------
(* A step of one worker and the calls of the others *)

(* What a step of w leaves alone: the calls of the other workers, the locks *)
(* they hold and the seats under those locks.                               *)
OthersKept(w) ==
  \A v \in Worker \ {w} :
    /\ pc'[v] = pc[v] /\ request'[v] = request[v] /\ todo'[v] = todo[v]
    /\ status'[v] = status[v] /\ notice'[v] = notice[v]
    /\ \A s \in Seat : lock'[s] = v <=> lock[s] = v
    /\ \A s \in Held(v) : owner'[s] = owner[s]

LEMMA CallsOfOthers ==
  ASSUME SeatTypeOK, Calls, NEW w \in Worker, OthersKept(w)
  PROVE  \A v \in Worker \ {w} : InCall(v)'
<1> SUFFICES ASSUME NEW v \in Worker \ {w} PROVE InCall(v)'
  OBVIOUS
<1>1. InCall(v)
  BY DEF Calls
<1>2. Held(v)' = Held(v)
  BY DEF OthersKept, Held
<1>3. /\ pc'[v] = pc[v] /\ request'[v] = request[v] /\ todo'[v] = todo[v]
      /\ status'[v] = status[v] /\ notice'[v] = notice[v]
      /\ \A s \in Held(v) : owner'[s] = owner[s]
  BY DEF OthersKept
<1>4. pc[v] \in {"handoff", "assign"} => todo[v] \subseteq Held(v)
  <2>1. CASE pc[v] = "handoff"
    BY <1>1, <2>1, WellFormedSeats DEF InCall
  <2>2. CASE pc[v] = "assign"
    BY <1>1, <2>2 DEF InCall
  <2> QED
    BY <2>1, <2>2
<1> QED
  BY <1>1, <1>2, <1>3, <1>4 DEF InCall

(* A worker changes the owners of seats it has locked, and no others.       *)
LEMMA Locality ==
  ASSUME SeatTypeOK, Calls, NEW w \in Worker, WorkerCalls(w) \/ WorkerHandles(w)
  PROVE  OthersKept(w)
<1> USE DEF SeatTypeOK, seatVars, doneVars, OthersKept
<1> DEFINE r == request[w]
           s == OnlySeat(r)
<1>1. InCall(w)
  BY DEF Calls
<1>2. pc[w] \in {"judge", "handoff"} /\ r.command # "RESERVE_MULTI" => lock[s] = w
  BY <1>1, WellFormedSeats DEF InCall, Held
<1>3. ASSUME NEW q \in Request, RejectCall(w, q) \/ StartCall(w, q)
      PROVE  OthersKept(w)
  BY <1>3 DEF RejectCall, StartCall, Take
<1>4. CASE Acquire(w)
  <2>1. NextToLock(w) \in Seat
    BY <1>1, <1>4, LowestIsLowest DEF Acquire, InCall, NextToLock
  <2> QED
    BY <1>4, <2>1 DEF Acquire
<1>5. CASE Unlock(w)
  <2>1. Highest(Held(w)) \in Held(w)
    BY <1>1, <1>5, HighestIsHighest DEF Unlock, InCall, Held
  <2> QED
    BY <1>5, <2>1 DEF Unlock, Held
<1>6. CASE Return(w)
  BY <1>6 DEF Return
<1>7. CASE GrantSeat(w)
  BY <1>2, <1>7 DEF GrantSeat, Judging, Assign, Decide, Held
<1>8. CASE RefuseSeat(w)
  BY <1>8 DEF RefuseSeat, Decide
<1>9. CASE JoinWaitlist(w)
  BY <1>9 DEF JoinWaitlist, Decide
<1>10. CASE RefuseCancel(w)
  BY <1>10 DEF RefuseCancel, Decide
<1>11. CASE ReleaseSeat(w)
  BY <1>2, <1>11 DEF ReleaseSeat, Judging, Held
<1>12. CASE HandOff(w)
  <2>1. lock[s] = w
    BY <1>1, <1>2, <1>12 DEF HandOff, InCall
  <2>2. \A t \in Seat : t # s => owner'[t] = owner[t]
    BY <1>12 DEF HandOff, Assign
  <2> QED
    BY <1>12, <2>1, <2>2 DEF HandOff, Decide, Held
<1>13. CASE RefuseMulti(w)
  BY <1>13 DEF RefuseMulti, Decide
<1>14. CASE AcceptMulti(w)
  BY <1>14 DEF AcceptMulti
<1>15. CASE AssignNext(w)
  <2>1. lock[Lowest(todo[w])] = w
    BY <1>1, <1>15, LowestIsLowest DEF AssignNext, InCall, Held
  <2>2. \A t \in Seat : t # Lowest(todo[w]) => owner'[t] = owner[t]
    BY <1>15 DEF AssignNext, Assign
  <2> QED
    BY <1>15, <2>1, <2>2 DEF AssignNext, Held
<1> QED
  BY <1>3, <1>4, <1>5, <1>6, <1>7, <1>8, <1>9, <1>10, <1>11, <1>12, <1>13, <1>14, <1>15
  DEF WorkerHandles, WorkerCalls

-----------------------------------------------------------------------------
(* A step of one worker and its own call *)

LEMMA OwnCall ==
  ASSUME SeatTypeOK, Calls, NEW w \in Worker, WorkerCalls(w) \/ WorkerHandles(w)
  PROVE  InCall(w)' /\ doubleBookings' = doubleBookings
<1> USE DEF SeatTypeOK, seatVars, doneVars
<1> DEFINE r == request[w]
           s == OnlySeat(r)
           Goal == InCall(w)' /\ doubleBookings' = doubleBookings
<1>1. InCall(w)
  BY DEF Calls
<1>2. pc[w] \in {"judge", "handoff"} /\ r.command # "RESERVE_MULTI" =>
        SeatsOf(r) = {s} /\ Held(w) = {s} /\ s \in Seat
  BY <1>1, WellFormedSeats DEF InCall
<1>3. ASSUME NEW q \in Request, RejectCall(w, q) PROVE Goal
  BY <1>1, <1>3 DEF RejectCall, Take, InCall, Held, Status
<1>4. ASSUME NEW q \in Request, StartCall(w, q) PROVE Goal
  <2>1. /\ SeatsOf(q) \subseteq Seat /\ SeatsOf(q) # {} /\ Held(w) = {} /\ Held(w)' = {}
        /\ ~Malformed(q) /\ status[w] \notin Status /\ notice[w] = {}
    BY <1>1, <1>4, WellFormedSeats DEF StartCall, Take, InCall, Held
  <2> QED
    BY <1>1, <1>4, <2>1 DEF StartCall, Take, InCall
<1>5. CASE Acquire(w)
  <2> DEFINE l == Lowest(todo[w])
  <2>1. /\ todo[w] # {} /\ todo[w] \union Held(w) = SeatsOf(r) /\ pc[w] = "acquire"
        /\ \A h \in Held(w), t \in todo[w] : h < t
    BY <1>1, <1>5 DEF Acquire, InCall
  <2>2. l \in todo[w] /\ l \in Seat /\ \A t \in todo[w] : l <= t
    BY <2>1, LowestIsLowest
  <2>3. Held(w)' = Held(w) \union {l}
    BY <1>5, <2>2 DEF Acquire, NextToLock, Held
  <2>4. todo'[w] = todo[w] \ {l} /\ request' = request /\ status' = status /\ notice' = notice
    BY <1>5 DEF Acquire, NextToLock
  <2>5. \A h \in Held(w)', t \in todo'[w] : h < t
    BY <2>1, <2>2, <2>3, <2>4 DEF Held, Seat
  <2>6. todo'[w] \union Held(w)' = SeatsOf(r)
    BY <2>1, <2>2, <2>3, <2>4
  <2>7. CASE todo[w] = {l}
    <3>1. pc'[w] = "judge" /\ Held(w)' = SeatsOf(r)
      BY <1>5, <2>1, <2>3, <2>7 DEF Acquire, NextToLock
    <3> QED
      BY <1>1, <1>5, <2>1, <2>4, <3>1 DEF Acquire, InCall
  <2>8. CASE todo[w] # {l}
    <3>1. pc'[w] = "acquire" /\ todo'[w] # {}
      BY <1>5, <2>1, <2>2, <2>4, <2>8 DEF Acquire, NextToLock
    <3> QED
      BY <1>1, <1>5, <2>1, <2>4, <2>5, <2>6, <3>1 DEF Acquire, InCall
  <2> QED
    BY <2>7, <2>8
<1>6. CASE Unlock(w)
  <2> DEFINE h == Highest(Held(w))
  <2>0. Held(w) # {} /\ Held(w) \subseteq Seat
    BY <1>1, <1>6 DEF Unlock, InCall, Held
  <2>1. h \in Held(w) /\ h \in Seat
    BY <2>0, HighestIsHighest
  <2>2. Held(w)' = Held(w) \ {h}
    BY <1>6, <2>1 DEF Unlock, Held
  <2>3. CASE Held(w) = {h}
    <3>1. pc'[w] = "return" /\ Held(w)' = {}
      BY <1>6, <2>2, <2>3 DEF Unlock
    <3> QED
      BY <1>1, <1>6, <3>1 DEF Unlock, InCall
  <2>4. CASE Held(w) # {h}
    <3>1. pc'[w] = "unlock" /\ Held(w)' # {}
      BY <1>6, <2>1, <2>2, <2>4 DEF Unlock
    <3> QED
      BY <1>1, <1>6, <3>1 DEF Unlock, InCall
  <2> QED
    BY <1>6, <2>3, <2>4 DEF Unlock
<1>7. CASE Return(w)
  <2>1. Held(w)' = {} /\ pc'[w] = "idle" /\ status'[w] = None /\ notice'[w] = {}
    BY <1>1, <1>7 DEF Return, InCall, Held
  <2> QED
    BY <1>7, <2>1 DEF Return, InCall
<1>8. ASSUME NEW st \in Status, pc[w] = "judge", Decide(w, st), UNCHANGED <<lock, request, todo, notice>>
      PROVE  InCall(w)'
  <2>1. Held(w) # {} /\ Held(w)' = Held(w)
    BY <1>1, <1>8, WellFormedSeats DEF InCall, Held
  <2>2. pc'[w] = "unlock" /\ status'[w] = st /\ st # "ERROR"
    BY <1>8 DEF Decide, Status
  <2> QED
    BY <1>1, <1>8, <2>1, <2>2 DEF InCall
<1>9. CASE GrantSeat(w)
  BY <1>8, <1>9 DEF GrantSeat, Judging, Assign, Status
<1>10. CASE RefuseSeat(w) \/ RefuseCancel(w) \/ RefuseMulti(w)
  BY <1>8, <1>10 DEF RefuseSeat, RefuseCancel, RefuseMulti, Judging, Status
<1>11. CASE JoinWaitlist(w)
  BY <1>8, <1>11 DEF JoinWaitlist, Judging, Status
<1>12. CASE ReleaseSeat(w)
  <2>1. /\ SeatsOf(r) = {s} /\ Held(w) = {s} /\ Held(w)' = {s} /\ s \in Seat
        /\ r.command = "CANCEL" /\ r \in Request /\ ~Malformed(r)
    BY <1>1, <1>2, <1>12 DEF ReleaseSeat, Judging, InCall, Held
  <2>2. /\ pc'[w] = "handoff" /\ todo'[w] = {s} /\ owner'[s] = Nobody
        /\ request' = request /\ status' = status /\ notice' = notice
        /\ doubleBookings' = doubleBookings /\ pc[w] = "judge"
    BY <1>12, <2>1 DEF ReleaseSeat, Judging
  <2> QED
    BY <1>1, <2>1, <2>2 DEF InCall
<1>13. CASE HandOff(w)
  <2>1. owner[s] = Nobody /\ Held(w) # {} /\ Held(w)' = Held(w)
    BY <1>1, <1>2, <1>13 DEF HandOff, InCall, Held
  <2>2. /\ Decide(w, "SUCCESS") /\ todo'[w] = {} /\ request' = request
        /\ doubleBookings' = doubleBookings
    BY <1>13, <2>1 DEF HandOff, Assign
  <2>3. pc'[w] = "unlock" /\ status'[w] = "SUCCESS"
    BY <2>2 DEF Decide
  <2>4. r \in Request /\ ~Malformed(r)
    BY <1>1, <1>13 DEF InCall, HandOff
  <2> QED
    BY <2>1, <2>2, <2>3, <2>4 DEF InCall, Status
<1>14. CASE AcceptMulti(w)
  <2>1. Held(w)' = Held(w) /\ Held(w) = SeatsOf(r) /\ SeatsOf(r) # {}
    BY <1>1, <1>14, WellFormedSeats DEF AcceptMulti, Judging, InCall, Held
  <2>2. /\ pc'[w] = "assign" /\ todo'[w] = SeatsOf(r) /\ status'[w] = "SUCCESS"
        /\ \A t \in SeatsOf(r) : owner'[t] = Nobody
    BY <1>14 DEF AcceptMulti, AllEmpty
  <2> QED
    BY <1>1, <1>14, <2>1, <2>2 DEF InCall, AcceptMulti, Judging, Status
<1>15. CASE AssignNext(w)
  <2> DEFINE l == Lowest(todo[w])
  <2>1. /\ l \in todo[w] /\ l \in Held(w) /\ l \in Seat /\ owner[l] = Nobody
        /\ todo[w] \subseteq Held(w) /\ Held(w)' = Held(w)
    BY <1>1, <1>15, LowestIsLowest DEF AssignNext, InCall, Held
  <2>2. /\ Assign(l, r.client) /\ todo'[w] = todo[w] \ {l} /\ status'[w] = status[w]
        /\ pc'[w] = (IF todo[w] # {l} THEN "assign" ELSE "unlock")
        /\ request' = request /\ notice' = notice
    BY <1>15, <2>1 DEF AssignNext
  <2>3. owner' = [owner EXCEPT ![l] = r.client] /\ doubleBookings' = doubleBookings
    BY <2>1, <2>2 DEF Assign
  <2>4. CASE todo[w] # {l}
    <3>1. /\ todo'[w] # {} /\ todo'[w] \subseteq Held(w)' /\ pc'[w] = "assign"
          /\ \A t \in todo'[w] : owner'[t] = owner[t]
      BY <2>1, <2>2, <2>3, <2>4
    <3> QED
      BY <1>1, <1>15, <2>1, <2>2, <2>3, <3>1 DEF InCall, AssignNext
  <2>5. CASE todo[w] = {l}
    <3>1. pc'[w] = "unlock" /\ todo'[w] = {}
      BY <2>2, <2>5
    <3> QED
      BY <1>1, <1>15, <2>1, <2>2, <2>3, <3>1 DEF InCall, AssignNext
  <2> QED
    BY <2>4, <2>5
<1> QED
  BY <1>3, <1>4, <1>5, <1>6, <1>7, <1>9, <1>10, <1>11, <1>12, <1>13, <1>14, <1>15
  DEF WorkerHandles, WorkerCalls

-----------------------------------------------------------------------------
(* Waitlists *)

(* What the worker that holds a seat may rely on. *)
LEMMA SeatInHand ==
  ASSUME SeatTypeOK, Calls, NEW w \in Worker, pc[w] \in {"judge", "handoff"},
         request[w].command # "RESERVE_MULTI"
  PROVE  /\ OnlySeat(request[w]) \in Seat /\ Held(w) = {OnlySeat(request[w])}
         /\ request[w].client \in Client
<1>1. InCall(w)
  BY DEF Calls
<1>2. request[w] \in Request /\ ~Malformed(request[w])
  BY <1>1 DEF InCall
<1> QED
  BY <1>1, <1>2, WellFormedSeats DEF InCall, Request

LEMMA NextInHand ==
  ASSUME SeatTypeOK, Calls, NEW w \in Worker, AssignNext(w)
  PROVE  LET l == Lowest(todo[w]) IN
         /\ l \in Seat /\ lock[l] = w /\ owner[l] = Nobody /\ request[w].client \in Client
         /\ owner' = [owner EXCEPT ![l] = request[w].client]
<1> DEFINE l == Lowest(todo[w])
<1>1. InCall(w) /\ pc[w] = "assign"
  BY DEF Calls, AssignNext
<1>2. /\ todo[w] # {} /\ todo[w] \subseteq Held(w) /\ Held(w) \subseteq Seat
      /\ \A s \in todo[w] : owner[s] = Nobody
      /\ request[w] \in Request
  BY <1>1 DEF InCall, Held
<1>3. l \in todo[w]
  BY <1>2, LowestIsLowest
<1>4. Assign(l, request[w].client)
  BY DEF AssignNext
<1> QED
  BY <1>2, <1>3, <1>4 DEF Assign, Held, Request

LEMMA HandOffCases ==
  ASSUME SeatTypeOK, Calls, NEW w \in Worker, HandOff(w)
  PROVE  LET s == OnlySeat(request[w]) IN
         /\ s \in Seat /\ Held(w) = {s} /\ owner[s] = Nobody /\ Decide(w, "SUCCESS")
         /\ request[w] \in Request /\ request[w].command = "CANCEL" /\ ~Malformed(request[w])
         /\ \/ /\ waiting[s] = <<>>
               /\ UNCHANGED <<owner, waiting, notice>>
            \/ /\ waiting[s] # <<>> /\ waiting[s] \in Seq(Entries)
               /\ Head(waiting[s]).client \in Client
               /\ owner' = [owner EXCEPT ![s] = Head(waiting[s]).client]
               /\ waiting' = [waiting EXCEPT ![s] = Tail(@)]
               /\ notice' = [notice EXCEPT ![w] = {Notice(Head(waiting[s]), s)}]
<1> DEFINE s == OnlySeat(request[w])
<1>1. InCall(w) /\ pc[w] = "handoff"
  BY DEF Calls, HandOff
<1>2. s \in Seat /\ Held(w) = {s}
  BY <1>1, SeatInHand DEF InCall
<1>3. /\ owner[s] = Nobody /\ request[w] \in Request
      /\ request[w].command = "CANCEL" /\ ~Malformed(request[w])
  BY <1>1 DEF InCall
<1>4. CASE NobodyWaits(s)
  BY <1>2, <1>3, <1>4 DEF HandOff, NobodyWaits
<1>5. CASE ~NobodyWaits(s)
  <2>1. waiting[s] \in Seq(Entries) /\ waiting[s] # <<>>
    BY <1>2, <1>5 DEF SeatTypeOK, NobodyWaits
  <2>2. Head(waiting[s]) \in Entries
    BY <2>1
  <2>3. /\ Assign(s, Head(waiting[s]).client) /\ Decide(w, "SUCCESS")
        /\ waiting' = [waiting EXCEPT ![s] = Tail(@)]
        /\ notice' = [notice EXCEPT ![w] = {Notice(Head(waiting[s]), s)}]
    BY <1>3, <1>5 DEF HandOff, HeadOf
  <2>4. owner' = [owner EXCEPT ![s] = Head(waiting[s]).client]
    BY <1>3, <2>3 DEF Assign
  <2> QED
    BY <1>2, <1>3, <2>1, <2>2, <2>3, <2>4 DEF Entries
<1> QED
  BY <1>4, <1>5

LEMMA VacancyStep ==
  ASSUME SeatTypeOK, Calls, Vacancy, NEW w \in Worker, WorkerCalls(w) \/ WorkerHandles(w)
  PROVE  Vacancy'
<1> USE DEF SeatTypeOK, seatVars, doneVars
<1> DEFINE s == OnlySeat(request[w])
           Kept(t) == owner'[t] = Nobody /\ ~(lock'[t] # None /\ pc'[lock'[t]] = "handoff")
                        => waiting'[t] = <<>>
<1>1. InCall(w) /\ OthersKept(w)
  BY Locality DEF Calls
<1>2. ASSUME NEW t \in Seat, pc[w] # "handoff" \/ lock[t] # w,
             owner'[t] = owner[t], waiting'[t] = waiting[t]
      PROVE  Kept(t)
  <2>1. CASE lock[t] # None /\ pc[lock[t]] = "handoff"
    <3>1. lock[t] \in Worker \ {w}
      BY <1>2, <2>1
    <3>2. lock'[t] = lock[t] /\ pc'[lock[t]] = pc[lock[t]]
      BY <1>1, <3>1 DEF OthersKept
    <3> QED
      BY <2>1, <3>2
  <2>2. CASE ~(lock[t] # None /\ pc[lock[t]] = "handoff")
    BY <1>2, <2>2 DEF Vacancy
  <2> QED
    BY <2>1, <2>2
<1>3. CASE pc[w] # "handoff" /\ UNCHANGED <<owner, waiting>>
  BY <1>2, <1>3 DEF Vacancy
<1>4. CASE GrantSeat(w)
  <2>1. s \in Seat /\ owner' = [owner EXCEPT ![s] = request[w].client] /\ request[w].client # Nobody
    BY <1>4, SeatInHand DEF GrantSeat, Judging, Assign
  <2>2. ASSUME NEW t \in Seat PROVE Kept(t)
    BY <1>2, <1>4, <2>1 DEF GrantSeat, Judging
  <2> QED
    BY <2>2 DEF Vacancy
<1>5. CASE JoinWaitlist(w)
  <2>1. owner' = owner /\ owner[s] # Nobody /\ pc[w] # "handoff"
        /\ \A t \in Seat \ {s} : waiting'[t] = waiting[t]
    BY <1>5 DEF JoinWaitlist, Judging
  <2>2. ASSUME NEW t \in Seat PROVE Kept(t)
    BY <1>2, <2>1
  <2> QED
    BY <2>2 DEF Vacancy
<1>6. CASE ReleaseSeat(w)
  <2>1. s \in Seat /\ Held(w) = {s} /\ pc[w] = "judge"
    BY <1>6, SeatInHand DEF ReleaseSeat, Judging
  <2>2. /\ lock'[s] = w /\ pc'[w] = "handoff" /\ w # None
        /\ waiting' = waiting /\ \A t \in Seat \ {s} : owner'[t] = owner[t]
    BY <1>6, <2>1 DEF ReleaseSeat, Held
  <2>3. ASSUME NEW t \in Seat PROVE Kept(t)
    BY <1>2, <2>1, <2>2
  <2> QED
    BY <2>3 DEF Vacancy
<1>7. CASE HandOff(w)
  <2>1. s \in Seat /\ Held(w) = {s} /\ \A t \in Seat \ {s} : owner'[t] = owner[t] /\ waiting'[t] = waiting[t]
    BY <1>7, HandOffCases
  <2>2. waiting'[s] = <<>> \/ owner'[s] # Nobody
    <3>1. CASE UNCHANGED <<owner, waiting, notice>> /\ waiting[s] = <<>>
      BY <3>1
    <3>2. CASE owner' = [owner EXCEPT ![s] = Head(waiting[s]).client]
                 /\ Head(waiting[s]).client \in Client
      BY <2>1, <3>2
    <3> QED
      BY <1>7, <3>1, <3>2, HandOffCases
  <2>3. ASSUME NEW t \in Seat PROVE Kept(t)
    <3>1. CASE t = s
      BY <2>2, <3>1
    <3>2. CASE t # s
      BY <1>2, <2>1, <3>2 DEF Held
    <3> QED
      BY <3>1, <3>2
  <2> QED
    BY <2>3 DEF Vacancy
<1>8. CASE AssignNext(w)
  <2>1. ASSUME NEW t \in Seat PROVE Kept(t)
    BY <1>2, <1>8, NextInHand DEF AssignNext
  <2> QED
    BY <2>1 DEF Vacancy
<1> QED
  BY <1>3, <1>4, <1>5, <1>6, <1>7, <1>8
  DEF WorkerCalls, WorkerHandles, RejectCall, StartCall, Take, Acquire, Unlock, Return,
      RefuseSeat, RefuseCancel, RefuseMulti, AcceptMulti, Judging

(* No client has two claims on a seat with owner o and waitlist q.          *)
Claims(o, q) ==
  \A i \in DOMAIN q :
    /\ q[i].client # o
    /\ \A j \in DOMAIN q : i # j => q[i].client # q[j].client

LEMMA OneClaimStep ==
  ASSUME SeatTypeOK, Calls, Vacancy, OneClaim, NEW w \in Worker,
         WorkerCalls(w) \/ WorkerHandles(w)
  PROVE  OneClaim'
<1> USE DEF SeatTypeOK, seatVars, doneVars
<1> DEFINE s == OnlySeat(request[w])
           c == request[w].client
<1>1. ASSUME NEW t \in Seat, owner'[t] = owner[t], waiting'[t] = waiting[t]
      PROVE  Claims(owner'[t], waiting'[t])
  BY <1>1 DEF OneClaim, Claims
<1>2. CASE UNCHANGED <<owner, waiting>>
  BY <1>1, <1>2 DEF OneClaim, Claims
<1>3. CASE GrantSeat(w)
  <2>1. /\ s \in Seat /\ owner' = [owner EXCEPT ![s] = c] /\ waiting' = waiting
        /\ owner[s] = Nobody /\ lock[s] = w /\ pc[w] = "judge"
    BY <1>3, SeatInHand DEF GrantSeat, Judging, Assign, Held
  <2>2. waiting'[s] = <<>>
    BY <2>1 DEF Vacancy
  <2>3. ASSUME NEW t \in Seat PROVE Claims(owner'[t], waiting'[t])
    <3>1. CASE t = s
      BY <2>2, <3>1 DEF Claims
    <3>2. CASE t # s
      BY <1>1, <2>1, <3>2
    <3> QED
      BY <3>1, <3>2
  <2> QED
    BY <2>3 DEF OneClaim, Claims
<1>4. CASE JoinWaitlist(w)
  <2>1. /\ s \in Seat /\ owner' = owner /\ owner[s] # c
        /\ waiting' = [waiting EXCEPT ![s] = Append(@, Entry(request[w]))]
        /\ \A i \in DOMAIN waiting[s] : waiting[s][i].client # c
    BY <1>4, SeatInHand DEF JoinWaitlist, Judging, IsWaiting
  <2>2. /\ waiting[s] \in Seq(Entries) /\ Entry(request[w]).client = c
        /\ waiting'[s] = Append(waiting[s], Entry(request[w]))
    BY <2>1 DEF Entry
  <2>3. Claims(owner[s], waiting[s])
    BY <2>1 DEF OneClaim, Claims
  <2>4. /\ DOMAIN waiting'[s] = DOMAIN waiting[s] \union {Len(waiting[s]) + 1}
        /\ waiting'[s][Len(waiting[s]) + 1].client = c
        /\ \A i \in DOMAIN waiting[s] :
             waiting'[s][i] = waiting[s][i] /\ i # Len(waiting[s]) + 1
    BY <2>2
  <2>5. Claims(owner'[s], waiting'[s])
    BY <2>1, <2>3, <2>4 DEF Claims
  <2>6. ASSUME NEW t \in Seat PROVE Claims(owner'[t], waiting'[t])
    BY <1>1, <2>1, <2>5
  <2> QED
    BY <2>6 DEF OneClaim, Claims
<1>5. CASE ReleaseSeat(w)
  <2>1. /\ s \in Seat /\ owner' = [owner EXCEPT ![s] = Nobody] /\ waiting' = waiting
    BY <1>5, SeatInHand DEF ReleaseSeat, Judging
  <2>2. \A i \in DOMAIN waiting[s] : waiting[s][i].client # Nobody
    <3>1. waiting[s] \in Seq(Entries)
      BY <2>1
    <3>2. \A i \in DOMAIN waiting[s] : waiting[s][i] \in Entries
      BY <3>1
    <3> QED
      BY <3>2 DEF Entries
  <2>3. Claims(owner'[s], waiting'[s])
    BY <2>1, <2>2 DEF OneClaim, Claims
  <2>4. ASSUME NEW t \in Seat PROVE Claims(owner'[t], waiting'[t])
    BY <1>1, <2>1, <2>3
  <2> QED
    BY <2>4 DEF OneClaim, Claims
<1>6. CASE HandOff(w)
  <2> DEFINE q == waiting[s]
  <2>1. CASE UNCHANGED <<owner, waiting>>
    BY <1>2, <2>1
  <2>2. CASE /\ s \in Seat /\ q # <<>> /\ q \in Seq(Entries)
             /\ owner' = [owner EXCEPT ![s] = Head(q).client]
             /\ waiting' = [waiting EXCEPT ![s] = Tail(@)]
    <3>1. /\ 1 \in DOMAIN q /\ Head(q) = q[1]
          /\ \A i \in DOMAIN Tail(q) :
               i + 1 \in DOMAIN q /\ Tail(q)[i] = q[i + 1] /\ i + 1 # 1 /\ i \in Nat
      BY <2>2
    <3>2. waiting'[s] = Tail(q) /\ owner'[s] = q[1].client
      BY <2>2, <3>1
    <3>3. \A i, j \in DOMAIN q : i # j => q[i].client # q[j].client
      BY <2>2 DEF OneClaim
    <3>4. \A i \in DOMAIN Tail(q) : Tail(q)[i].client # q[1].client
      BY <3>1, <3>3
    <3>5. \A i, j \in DOMAIN Tail(q) : i # j => Tail(q)[i].client # Tail(q)[j].client
      <4> TAKE i, j \in DOMAIN Tail(q)
      <4> HAVE i # j
      <4>1. i + 1 # j + 1
        BY <3>1
      <4> QED
        BY <3>1, <3>3, <4>1
    <3>6. Claims(owner'[s], waiting'[s])
      BY <3>2, <3>4, <3>5 DEF Claims
    <3>7. ASSUME NEW t \in Seat PROVE Claims(owner'[t], waiting'[t])
      BY <1>1, <2>2, <3>6
    <3> QED
      BY <3>7 DEF OneClaim, Claims
  <2> QED
    BY <1>6, <2>1, <2>2, HandOffCases
<1>7. CASE AssignNext(w)
  <2> DEFINE l == Lowest(todo[w])
  <2>1. /\ l \in Seat /\ lock[l] = w /\ owner[l] = Nobody /\ pc[w] = "assign"
        /\ owner' = [owner EXCEPT ![l] = c] /\ waiting' = waiting
    BY <1>7, NextInHand DEF AssignNext
  <2>2. waiting'[l] = <<>>
    BY <2>1 DEF Vacancy
  <2>3. ASSUME NEW t \in Seat PROVE Claims(owner'[t], waiting'[t])
    <3>1. CASE t = l
      BY <2>2, <3>1 DEF Claims
    <3>2. CASE t # l
      BY <1>1, <2>1, <3>2
    <3> QED
      BY <3>1, <3>2
  <2> QED
    BY <2>3 DEF OneClaim, Claims
<1> QED
  BY <1>2, <1>3, <1>4, <1>5, <1>6, <1>7
  DEF WorkerCalls, WorkerHandles, RejectCall, StartCall, Take, Acquire, Unlock, Return,
      RefuseSeat, RefuseCancel, RefuseMulti, AcceptMulti

LEMMA NumberedStep ==
  ASSUME SeatTypeOK, Calls, Numbered, NEW w \in Worker, WorkerCalls(w) \/ WorkerHandles(w)
  PROVE  Numbered'
<1> USE DEF SeatTypeOK, seatVars, doneVars
<1>1. ASSUME NEW r \in Request, RejectCall(w, r) \/ StartCall(w, r) PROVE Numbered'
  <2>1. /\ pc[w] = "idle" /\ pc'[w] # "idle" /\ answers' = answers
        /\ r.client \in Client /\ r.id = asked[r.client] + 1
        /\ asked' = [asked EXCEPT ![r.client] = @ + 1]
        /\ request' = [request EXCEPT ![w] = r]
        /\ \A v \in Worker \ {w} : pc'[v] = pc[v] /\ request'[v] = request[v]
    BY <1>1 DEF RejectCall, StartCall, Take, Request
  <2>2. \A c \in Client : asked[c] \in Int /\ asked[c] <= asked'[c]
    BY <2>1
  <2>3. request'[w] = r /\ asked'[r.client] = r.id
    BY <2>1
  <2>4. \A a \in answers : a.client \in Client /\ a.request \in Int
    BY DEF Replies
  <2>5. \A v \in Worker : pc[v] # "idle" => request[v].client \in Client /\ request[v].id \in Int
    BY DEF Calls, InCall, Request
  <2>6. \A a \in answers' : a.request <= asked'[a.client]
    BY <2>1, <2>2, <2>4 DEF Numbered
  <2>7. \A a \in answers : a.client = r.client => a.request # r.id
    BY <2>1, <2>4 DEF Numbered
  <2>8. \A v \in Worker \ {w} : pc[v] # "idle" /\ request[v].client = r.client =>
          request[v].id # r.id
    BY <2>1, <2>5 DEF Numbered
  <2>9. ASSUME NEW v \in Worker \ {w}, pc[v] # "idle"
        PROVE  request[v].id <= asked'[request[v].client]
    <3>1. request[v].client \in Client /\ request[v].id \in Int
      BY <2>5, <2>9
    <3>2. request[v].id <= asked[request[v].client]
      BY <2>9 DEF Numbered
    <3>3. asked'[request[v].client] \in Int
      BY <2>1, <3>1
    <3> QED
      BY <2>2, <3>1, <3>2, <3>3
  <2> QED
    BY <2>1, <2>3, <2>6, <2>7, <2>8, <2>9 DEF Numbered
<1>2. CASE Return(w)
  <2>1. /\ pc[w] = "return" /\ pc'[w] = "idle" /\ asked' = asked
        /\ answers' \subseteq answers \union {Reply(request[w], status[w])}
        /\ \A v \in Worker \ {w} : pc'[v] = pc[v] /\ request'[v] = request[v]
    BY <1>2 DEF Return
  <2>2. /\ request[w].id <= asked[request[w].client]
        /\ \A v \in Worker : v # w /\ pc[v] # "idle" /\ request[v].client = request[w].client =>
             request[v].id # request[w].id
    BY <2>1 DEF Numbered
  <2>3. /\ Reply(request[w], status[w]).client = request[w].client
        /\ Reply(request[w], status[w]).request = request[w].id
    BY DEF Reply
  <2>4. \A a \in answers' : a.request <= asked'[a.client]
    BY <2>1, <2>2, <2>3 DEF Numbered
  <2>5. ASSUME NEW v \in Worker, pc'[v] # "idle"
        PROVE  /\ request'[v].id <= asked'[request'[v].client]
               /\ \A a \in answers' : a.client = request'[v].client => a.request # request'[v].id
               /\ \A u \in Worker : u # v /\ pc'[u] # "idle" /\ request'[u].client = request'[v].client =>
                    request'[u].id # request'[v].id
    <3>1. v # w /\ pc'[v] = pc[v] /\ request'[v] = request[v]
      BY <2>1, <2>5
    <3>2. pc[v] # "idle"
      BY <2>5, <3>1
    <3>3. request'[v].id <= asked'[request'[v].client]
      BY <2>1, <3>1, <3>2 DEF Numbered
    <3>4. \A a \in answers : a.client = request[v].client => a.request # request[v].id
      BY <3>2 DEF Numbered
    <3>5. \A a \in answers' : a.client = request[v].client => a.request # request[v].id
      BY <2>1, <2>2, <2>3, <3>1, <3>2, <3>4
    <3>6. ASSUME NEW u \in Worker, u # v, pc'[u] # "idle", request'[u].client = request'[v].client
          PROVE  request'[u].id # request'[v].id
      <4>1. u # w /\ pc[u] # "idle" /\ request'[u] = request[u]
        BY <2>1, <3>6
      <4> QED
        BY <3>1, <3>2, <3>6, <4>1 DEF Numbered
    <3> QED
      BY <3>1, <3>3, <3>5, <3>6
  <2> QED
    BY <2>4, <2>5 DEF Numbered
<1>3. CASE /\ pc[w] # "idle" /\ pc'[w] # "idle" /\ UNCHANGED <<asked, request, answers>>
           /\ \A v \in Worker \ {w} : pc'[v] = pc[v]
  BY <1>3 DEF Numbered
<1>4. ASSUME pc[w] # "idle", ~Return(w)
      PROVE  /\ pc'[w] # "idle" /\ UNCHANGED <<asked, request, answers>>
             /\ \A v \in Worker \ {w} : pc'[v] = pc[v]
  <2>1. UNCHANGED <<asked, request, answers>> /\ \A v \in Worker \ {w} : pc'[v] = pc[v]
    BY <1>4, Locality DEF OthersKept, WorkerCalls, WorkerHandles, RejectCall, StartCall, Take,
       Acquire, Unlock, GrantSeat, RefuseSeat, JoinWaitlist, RefuseCancel, ReleaseSeat,
       HandOff, RefuseMulti, AcceptMulti, AssignNext
  <2>2. pc'[w] # "idle"
    BY <1>4 DEF WorkerCalls, WorkerHandles, RejectCall, StartCall, Take, Acquire, Unlock,
       GrantSeat, RefuseSeat, JoinWaitlist, RefuseCancel, ReleaseSeat, HandOff, RefuseMulti,
       AcceptMulti, AssignNext, Decide
  <2> QED
    BY <2>1, <2>2
<1>5. pc[w] = "idle" => \E r \in Request : RejectCall(w, r) \/ StartCall(w, r)
  BY DEF WorkerCalls, WorkerHandles, Acquire, Unlock, Return, GrantSeat, RefuseSeat,
     JoinWaitlist, RefuseCancel, ReleaseSeat, HandOff, RefuseMulti, AcceptMulti, AssignNext,
     Judging
<1> QED
  BY <1>1, <1>2, <1>3, <1>4, <1>5

LEMMA StepInv == ManagerInv /\ [ManagerNext]_managerVars => ManagerInv'
<1> SUFFICES ASSUME ManagerInv, [ManagerNext]_managerVars PROVE ManagerInv'
  OBVIOUS
<1> USE DEF ManagerInv
<1>1. CASE UNCHANGED managerVars
  <2>1. SeatTypeOK' /\ doubleBookings' = 0
    BY <1>1 DEF SeatTypeOK, managerVars, seatVars, callVars, doneVars
  <2>2. Calls'
    BY <1>1 DEF Calls, InCall, Held, managerVars, seatVars, callVars, doneVars
  <2>3. Vacancy' /\ OneClaim' /\ Numbered'
    BY <1>1 DEF Vacancy, OneClaim, Numbered, managerVars, seatVars, callVars, doneVars
  <2> QED
    BY <2>1, <2>2, <2>3
<1>2. ASSUME NEW w \in Worker, WorkerCalls(w) \/ WorkerHandles(w) PROVE ManagerInv'
  <2>1. SeatTypeOK'
    BY <1>2, StartType, HandleType
  <2>2. Calls' /\ doubleBookings' = 0
    BY <1>2, Locality, CallsOfOthers, OwnCall DEF Calls
  <2>3. Vacancy' /\ OneClaim' /\ Numbered'
    BY <1>2, VacancyStep, OneClaimStep, NumberedStep
  <2> QED
    BY <2>1, <2>2, <2>3
<1> QED
  BY <1>1, <1>2 DEF ManagerNext

(* ManagerInv holds in every reachable state.                               *)
THEOREM ManagerInvariant == ManagerSpec => []ManagerInv
BY ManagerInitInv, StepInv, PTL DEF ManagerSpec

-----------------------------------------------------------------------------
(* The invariants the runs check *)

(* Types, for every number of seats, clients and workers.                   *)
THEOREM SeatTyping == ManagerSpec => []SeatTypeOK
<1>1. ManagerInv => SeatTypeOK
  BY DEF ManagerInv
<1> QED
  BY <1>1, ManagerInvariant, PTL

(* handle never leaves a client with two claims on one seat.                *)
THEOREM SingleClaim == ManagerSpec => []OneClaim
<1>1. ManagerInv => OneClaim
  BY DEF ManagerInv
<1> QED
  BY <1>1, ManagerInvariant, PTL

(* A free lock shows no vacant seat that clients wait for.                  *)
THEOREM NoVacantSeatWaitedFor == ManagerSpec => []NoVacantQueue
<1>1. ManagerInv => NoVacantQueue
  BY DEF ManagerInv, Vacancy, NoVacantQueue
<1> QED
  BY <1>1, ManagerInvariant, PTL

(* Any group of workers contains one that waits for none of the group: the  *)
(* one whose next seat is the highest, since whoever holds that seat would  *)
(* be about to lock a higher one (reserveMulti).                            *)
LEMMA OrderedLocking == ManagerInv => NoCircularWait
<1> SUFFICES ASSUME ManagerInv, NEW W \in (SUBSET Worker) \ {{}}
             PROVE  \E w \in W : \A v \in W : ~BlockedBy(w, v)
  BY DEF NoCircularWait
<1>1. CASE \E w \in W : pc[w] # "acquire"
  BY <1>1 DEF BlockedBy
<1>2. CASE \A w \in W : pc[w] = "acquire"
  <2> DEFINE Next(w) == Lowest(todo[w])
             T == {Next(w) : w \in W}
  <2>1. ASSUME NEW w \in W
        PROVE  Next(w) \in todo[w] /\ Next(w) \in Seat /\ \A h \in Held(w) : h < Next(w)
    <3>1. /\ todo[w] # {} /\ todo[w] \subseteq Seat
          /\ \A h \in Held(w), t \in todo[w] : h < t
      BY <1>2 DEF ManagerInv, SeatTypeOK, Calls, InCall
    <3>2. Next(w) \in todo[w]
      BY <3>1, LowestIsLowest
    <3> QED
      BY <3>1, <3>2
  <2>2. T \subseteq Seat /\ T # {}
    BY <2>1
  <2>3. \A S : S \subseteq Seat /\ S # {} => Highest(S) \in S /\ \A t \in S : t <= Highest(S)
    BY HighestIsHighest
  <2>4. Highest(T) \in T /\ \A t \in T : t <= Highest(T)
    <3> HIDE DEF T
    <3> QED
      BY <2>2, <2>3
  <2>5. PICK w \in W : Next(w) = Highest(T)
    BY <2>4
  <2>6. \A v \in W : Next(v) <= Next(w)
    BY <2>4, <2>5
  <2>7. ASSUME NEW v \in W, BlockedBy(w, v) PROVE FALSE
    <3>1. Next(w) \in Held(v)
      BY <2>1, <2>7 DEF BlockedBy, NextToLock, Held
    <3>2. Next(w) < Next(v) /\ Next(v) <= Next(w) /\ Next(v) \in Seat /\ Next(w) \in Seat
      BY <2>1, <2>6, <3>1
    <3> QED
      BY <3>2 DEF Seat
  <2> QED
    BY <2>7
<1> QED
  BY <1>1, <1>2

THEOREM NoDeadlockOfLocks == ManagerSpec => []NoCircularWait
BY OrderedLocking, ManagerInvariant, PTL

-----------------------------------------------------------------------------
(* The locks make every request atomic *)

LEMMA SameRequests ==
  /\ Booking!Seat = Seat /\ Booking!Request = Request
  /\ \A r : /\ Booking!SeatsOf(r) = SeatsOf(r) /\ Booking!OnlySeat(r) = OnlySeat(r)
            /\ Booking!Malformed(r) <=> Malformed(r)
            /\ Booking!Entry(r) = Entry(r)
  /\ \A r, st : Booking!Reply(r, st) = Reply(r, st)
  /\ \A e, s : Booking!Notice(e, s) = Notice(e, s)
  /\ \A q, c : Booking!IsWaiting(q, c) <=> IsWaiting(q, c)
BY DEF Booking!Seat, Seat, Booking!Request, Request, Booking!Command, Command,
   Booking!SeatsOf, SeatsOf, Booking!OnlySeat, OnlySeat, Booking!Malformed, Malformed,
   Booking!BadMulti, BadMulti, Booking!BadSeat, BadSeat, Booking!Entry, Entry,
   Booking!Reply, Reply, Booking!Notice, Notice, Booking!IsWaiting, IsWaiting

(* The owner a caller sees, for the seats a worker has locked.              *)
LEMMA SeenInHand ==
  ASSUME SeatTypeOK, NEW w \in Worker, NEW t \in Held(w)
  PROVE  SeenOwner[t] =
           IF pc[w] \in {"handoff", "assign"} /\ t \in todo[w]
           THEN request[w].client ELSE owner[t]
BY DEF SeenOwner, UnderWay, Held

LEMMA SeenInHandNext ==
  ASSUME SeatTypeOK', NEW w \in Worker, NEW t \in Seat, lock'[t] = w
  PROVE  SeenOwner'[t] =
           IF pc'[w] \in {"handoff", "assign"} /\ t \in todo'[w]
           THEN request'[w].client ELSE owner'[t]
BY DEF SeenOwner, UnderWay

(* A seat that w neither locks nor unlocks nor has locked.                  *)
LEMMA SeenElsewhere ==
  ASSUME SeatTypeOK, SeatTypeOK', NEW w \in Worker, OthersKept(w),
         NEW t \in Seat, lock[t] # w, lock'[t] # w, owner'[t] = owner[t]
  PROVE  SeenOwner'[t] = SeenOwner[t]
<1>1. CASE lock[t] = None
  <2>1. lock'[t] = None
    BY <1>1 DEF OthersKept, SeatTypeOK
  <2> QED
    BY <1>1, <2>1 DEF SeenOwner, UnderWay
<1>2. CASE lock[t] # None
  <2>1. lock[t] \in Worker \ {w} /\ lock'[t] = lock[t]
    BY <1>2 DEF OthersKept, SeatTypeOK
  <2>2. /\ pc'[lock[t]] = pc[lock[t]] /\ todo'[lock[t]] = todo[lock[t]]
        /\ request'[lock[t]] = request[lock[t]]
    BY <2>1 DEF OthersKept
  <2> QED
    BY <2>1, <2>2 DEF SeenOwner, UnderWay
<1> QED
  BY <1>1, <1>2

LEMMA SeenIsFunction ==
  /\ SeenOwner = [t \in Seat |-> SeenOwner[t]]
  /\ SeenOwner' = [t \in Seat |-> SeenOwner'[t]]
BY DEF SeenOwner

(* What the callers have got once w has, or has not, reached a verdict.     *)
LEMMA AnswerKept ==
  ASSUME NEW w \in Worker, OthersKept(w), answers' = answers, status'[w] = status[w],
         status[w] \in Status => request'[w] = request[w]
  PROVE  SeenAnswers' = SeenAnswers
<1>1. Decided' = Decided
  BY DEF OthersKept, Decided
<1>2. \A v \in Decided : Reply(request'[v], status'[v]) = Reply(request[v], status[v])
  BY DEF OthersKept, Decided
<1>3. SeenAnswers' = answers' \union {Reply(request'[v], status'[v]) : v \in Decided'}
  BY DEF SeenAnswers
<1> QED
  BY <1>1, <1>2, <1>3 DEF SeenAnswers

LEMMA AnswerGiven ==
  ASSUME NEW w \in Worker, OthersKept(w), answers' = answers, status[w] \notin Status,
         status'[w] \in Status
  PROVE  SeenAnswers' = SeenAnswers \union {Reply(request'[w], status'[w])}
<1>1. Decided' = Decided \union {w} /\ w \notin Decided
  BY DEF OthersKept, Decided
<1>2. \A v \in Decided : Reply(request'[v], status'[v]) = Reply(request[v], status[v])
  BY <1>1 DEF OthersKept, Decided
<1>3. SeenAnswers' = answers' \union {Reply(request'[v], status'[v]) : v \in Decided'}
  BY DEF SeenAnswers
<1> QED
  BY <1>1, <1>2, <1>3 DEF SeenAnswers

LEMMA NoticesKept ==
  ASSUME NEW w \in Worker, OthersKept(w), handed' = handed, notice'[w] = notice[w]
  PROVE  SeenHanded' = SeenHanded
<1>1. \A v \in Worker : notice'[v] = notice[v]
  BY DEF OthersKept
<1>2. SeenHanded' = handed' \union UNION {notice'[v] : v \in Worker}
  BY DEF SeenHanded
<1> QED
  BY <1>1, <1>2 DEF SeenHanded

(* A request is answered once. *)
LEMMA FirstAnswer ==
  ASSUME SeatTypeOK, Calls, Numbered, NEW w \in Worker,
         pc[w] \in {"judge", "handoff"}
  PROVE  Booking!Unanswered(request[w])
<1>1. \A a \in answers : a.client = request[w].client => a.request # request[w].id
  BY DEF Numbered
<1>2. ASSUME NEW v \in Decided, request[v].client = request[w].client
      PROVE  request[v].id # request[w].id
  <2>1. v \in Worker /\ v # w /\ pc[v] # "idle"
    BY <1>2 DEF Decided, Calls, InCall
  <2> QED
    BY <1>2, <2>1 DEF Numbered
<1> QED
  BY <1>1, <1>2 DEF Booking!Unanswered, SeenAnswers, Reply

LEMMA FirstAnswerTaken ==
  ASSUME SeatTypeOK, Calls, Numbered, NEW w \in Worker, NEW r \in Request, Take(w, r)
  PROVE  Booking!Unanswered(r)
<1>0. r.client \in Client /\ r.id = asked[r.client] + 1 /\ asked[r.client] \in Int
  BY DEF Take, Request, SeatTypeOK
<1>1. \A a \in answers : a.client = r.client => a.request # r.id
  <2>1. \A a \in answers : a.request \in Int
    BY DEF SeatTypeOK, Replies
  <2> QED
    BY <1>0, <2>1 DEF Numbered
<1>2. ASSUME NEW v \in Decided, request[v].client = r.client
      PROVE  request[v].id # r.id
  <2>1. v \in Worker /\ pc[v] # "idle" /\ request[v] \in Request
    BY DEF Decided, Calls, InCall
  <2>2. request[v].id <= asked[r.client] /\ request[v].id \in Int
    BY <1>2, <2>1 DEF Numbered, Request
  <2> QED
    BY <1>0, <2>2
<1> QED
  BY <1>1, <1>2 DEF Booking!Unanswered, SeenAnswers, Reply

LEMMA SeenOutOfHand ==
  ASSUME SeatTypeOK, SeatTypeOK', NEW w \in Worker, OthersKept(w), lock' = lock,
         \A t \in Seat \ Held(w) : owner'[t] = owner[t]
  PROVE  \A t \in Seat \ Held(w) : SeenOwner'[t] = SeenOwner[t]
BY SeenElsewhere DEF Held

(* Steps that decide nothing are invisible to the callers.                  *)
LEMMA Invisible ==
  ASSUME ManagerInv, ManagerInv', NEW w \in Worker, OthersKept(w),
         \/ \E r \in Request : StartCall(w, r)
         \/ Acquire(w) \/ Unlock(w) \/ Return(w) \/ ReleaseSeat(w) \/ AssignNext(w)
  PROVE  UNCHANGED <<SeenOwner, waiting, SeenAnswers, SeenHanded>>
<1> USE DEF ManagerInv, seatVars, doneVars
<1>1. InCall(w)
  BY DEF Calls
<1>2. SeenOwner' = SeenOwner
  <2> SUFFICES ASSUME NEW t \in Seat PROVE SeenOwner'[t] = SeenOwner[t]
    BY SeenIsFunction
  <2>1. ASSUME NEW r \in Request, StartCall(w, r) PROVE SeenOwner'[t] = SeenOwner[t]
    <3>1. lock[t] # w /\ lock' = lock /\ owner' = owner
      BY <1>1, <2>1 DEF StartCall, Take, InCall, Held
    <3> QED
      BY <3>1, SeenElsewhere
  <2>2. CASE Acquire(w)
    <3>1. /\ NextToLock(w) \in Seat /\ lock[NextToLock(w)] = None
          /\ lock' = [lock EXCEPT ![NextToLock(w)] = w] /\ owner' = owner
          /\ pc[w] = "acquire" /\ pc'[w] \in {"acquire", "judge"}
      BY <1>1, <2>2, LowestIsLowest DEF Acquire, InCall, NextToLock, SeatTypeOK
    <3>2. CASE t = NextToLock(w)
      <4>1. SeenOwner[t] = owner[t]
        BY <3>1, <3>2 DEF SeenOwner, UnderWay
      <4>2. SeenOwner'[t] = owner'[t]
        BY <3>1, <3>2, SeenInHandNext DEF SeatTypeOK
      <4> QED
        BY <3>1, <4>1, <4>2
    <3>3. CASE t # NextToLock(w) /\ lock[t] = w
      <4>1. SeenOwner[t] = owner[t]
        BY <3>1, <3>3, SeenInHand DEF Held
      <4>2. SeenOwner'[t] = owner'[t]
        BY <3>1, <3>3, SeenInHandNext
      <4> QED
        BY <3>1, <4>1, <4>2
    <3>4. CASE t # NextToLock(w) /\ lock[t] # w
      BY <3>1, <3>4, SeenElsewhere
    <3> QED
      BY <3>2, <3>3, <3>4
  <2>3. CASE Unlock(w)
    <3>1. /\ lock' = [lock EXCEPT ![Highest(Held(w))] = None] /\ owner' = owner
          /\ pc[w] = "unlock" /\ pc'[w] \in {"unlock", "return"}
      BY <2>3 DEF Unlock, SeatTypeOK
    <3>2. CASE lock[t] = w
      <4>1. SeenOwner[t] = owner[t]
        BY <3>1, <3>2, SeenInHand DEF Held
      <4>2. CASE lock'[t] = w
        BY <3>1, <4>1, <4>2, SeenInHandNext
      <4>3. CASE lock'[t] # w
        <5>1. lock'[t] = None
          BY <3>1, <3>2, <4>3 DEF SeatTypeOK
        <5> QED
          BY <3>1, <4>1, <5>1 DEF SeenOwner, UnderWay
      <4> QED
        BY <4>2, <4>3
    <3>3. CASE lock[t] # w
      <4>1. lock'[t] # w
        BY <3>1, <3>3 DEF SeatTypeOK
      <4> QED
        BY <3>1, <3>3, <4>1, SeenElsewhere
    <3> QED
      BY <3>2, <3>3
  <2>4. CASE Return(w)
    <3>1. lock[t] # w /\ lock' = lock /\ owner' = owner
      BY <1>1, <2>4 DEF Return, InCall, Held
    <3> QED
      BY <3>1, SeenElsewhere
  <2>5. CASE ReleaseSeat(w)
    <3> DEFINE s == OnlySeat(request[w])
    <3>1. /\ s \in Seat /\ Held(w) = {s} /\ lock' = lock /\ pc[w] = "judge"
          /\ owner[s] = request[w].client /\ owner' = [owner EXCEPT ![s] = Nobody]
          /\ pc'[w] = "handoff" /\ todo'[w] = {s} /\ request' = request
      BY <2>5, SeatInHand DEF ReleaseSeat, Judging, SeatTypeOK
    <3>2. CASE t = s
      <4>1. SeenOwner[t] = owner[t]
        BY <3>1, <3>2, SeenInHand
      <4>2. SeenOwner'[t] = request[w].client
        BY <3>1, <3>2, SeenInHandNext DEF Held
      <4> QED
        BY <3>1, <3>2, <4>1, <4>2
    <3>3. CASE t # s
      BY <3>1, <3>3, SeenElsewhere DEF Held, SeatTypeOK
    <3> QED
      BY <3>2, <3>3
  <2>6. CASE AssignNext(w)
    <3> DEFINE l == Lowest(todo[w])
    <3>1. /\ l \in Seat /\ lock[l] = w /\ lock' = lock /\ pc[w] = "assign" /\ request' = request
          /\ owner' = [owner EXCEPT ![l] = request[w].client]
      BY <2>6, NextInHand DEF AssignNext
    <3>2. todo[w] \subseteq Held(w) /\ l \in todo[w]
      BY <1>1, <3>1, LowestIsLowest DEF InCall, Held
    <3>3. todo'[w] = todo[w] \ {l} /\ pc'[w] = (IF todo[w] # {l} THEN "assign" ELSE "unlock")
      <4>1. owner[l] = Nobody
        BY <2>6, NextInHand
      <4> QED
        BY <2>6, <4>1 DEF AssignNext, SeatTypeOK
    <3>4. CASE t = l
      <4>1. SeenOwner[t] = request[w].client
        BY <3>1, <3>2, <3>4, SeenInHand
      <4>2. SeenOwner'[t] = owner'[t]
        BY <3>1, <3>3, <3>4, SeenInHandNext
      <4> QED
        BY <3>1, <3>4, <4>1, <4>2 DEF SeatTypeOK
    <3>5. CASE t # l /\ t \in Held(w)
      <4>1. SeenOwner[t] = IF t \in todo[w] THEN request[w].client ELSE owner[t]
        BY <3>1, <3>5, SeenInHand
      <4>2. SeenOwner'[t] = IF t \in todo[w] THEN request[w].client ELSE owner[t]
        <5>1. lock'[t] = w /\ owner'[t] = owner[t]
          BY <3>1, <3>5 DEF Held, SeatTypeOK
        <5>2. CASE todo[w] = {l}
          BY <3>3, <3>5, <5>1, <5>2, SeenInHandNext
        <5>3. CASE todo[w] # {l}
          BY <3>1, <3>3, <3>5, <5>1, <5>3, SeenInHandNext
        <5> QED
          BY <5>2, <5>3
      <4> QED
        BY <4>1, <4>2
    <3>6. CASE t # l /\ t \notin Held(w)
      BY <3>1, <3>6, SeenElsewhere DEF Held, SeatTypeOK
    <3> QED
      BY <3>4, <3>5, <3>6
  <2> QED
    BY <2>1, <2>2, <2>3, <2>4, <2>5, <2>6
<1>3. CASE ~Return(w)
  <2>1. /\ answers' = answers /\ handed' = handed /\ waiting' = waiting
        /\ notice' = notice
    BY <1>3 DEF StartCall, Acquire, Unlock, ReleaseSeat, AssignNext
  <2>2. status'[w] = status[w] /\ (status[w] \in Status => request'[w] = request[w])
    <3>1. ASSUME NEW r \in Request, StartCall(w, r) PROVE status' = status /\ status[w] \notin Status
      BY <1>1, <3>1 DEF StartCall, Take, InCall
    <3>2. CASE Acquire(w) \/ Unlock(w) \/ ReleaseSeat(w)
      BY <3>2 DEF Acquire, Unlock, ReleaseSeat
    <3>3. CASE AssignNext(w)
      <4>1. owner[Lowest(todo[w])] = Nobody /\ request' = request
        BY <3>3, NextInHand DEF AssignNext
      <4> QED
        BY <3>3, <4>1 DEF AssignNext, SeatTypeOK
    <3> QED
      BY <1>3, <3>1, <3>2, <3>3
  <2> QED
    BY <1>2, <2>1, <2>2, AnswerKept, NoticesKept
<1>4. CASE Return(w)
  <2>1. /\ status[w] \in Status /\ answers' = answers \union {Reply(request[w], status[w])}
        /\ handed' = handed \union notice[w] /\ waiting' = waiting
        /\ status'[w] \notin Status /\ notice'[w] = {}
    BY <1>1, <1>4 DEF Return, InCall, SeatTypeOK
  <2>2. Decided = Decided' \union {w} /\ w \notin Decided'
    BY <2>1 DEF OthersKept, Decided
  <2>3. \A v \in Decided' : Reply(request'[v], status'[v]) = Reply(request[v], status[v])
    BY <2>2 DEF OthersKept, Decided
  <2>4. SeenAnswers' = answers' \union {Reply(request'[v], status'[v]) : v \in Decided'}
    BY DEF SeenAnswers
  <2>5. SeenAnswers' = SeenAnswers
    BY <2>1, <2>2, <2>3, <2>4 DEF SeenAnswers
  <2>6. \A v \in Worker : v # w => notice'[v] = notice[v]
    BY DEF OthersKept
  <2>7. SeenHanded' = handed' \union UNION {notice'[v] : v \in Worker}
    BY DEF SeenHanded
  <2>8. SeenHanded' = SeenHanded
    BY <2>1, <2>6, <2>7 DEF SeenHanded
  <2> QED
    BY <1>2, <2>1, <2>5, <2>8
<1> QED
  BY <1>3, <1>4

(* What SeatBooking asks, in terms of the owners the callers see.           *)
LEMMA BookingGuards ==
  ASSUME NEW r
  PROVE  /\ Booking!Vacant(r) <=> \A s \in SeatsOf(r) : SeenOwner[s] = Nobody
         /\ Booking!Owns(r) <=> SeenOwner[OnlySeat(r)] = r.client
         /\ Booking!Waits(r) <=> IsWaiting(waiting[OnlySeat(r)], r.client)
BY SameRequests DEF Booking!Vacant, Booking!Owns, Booking!Waits

(* A request that cannot be granted, waitlisted or honoured is refused.     *)
LEMMA RefusedLate ==
  ASSUME ManagerInv, ManagerInv', NEW w \in Worker, OthersKept(w),
         RefuseSeat(w) \/ RefuseCancel(w) \/ RefuseMulti(w)
  PROVE  Booking!BookingNext
<1> USE DEF ManagerInv, seatVars, doneVars
<1> DEFINE r == request[w]
           s == OnlySeat(r)
<1>1. /\ InCall(w) /\ pc[w] = "judge" /\ Decide(w, "FAIL") /\ lock' = lock /\ owner' = owner
      /\ waiting' = waiting /\ answers' = answers /\ handed' = handed /\ notice' = notice
      /\ request' = request
  BY DEF Calls, RefuseSeat, RefuseCancel, RefuseMulti, Judging
<1>2. /\ r \in Request /\ ~Malformed(r) /\ Held(w) = SeatsOf(r) /\ Held(w) \subseteq Seat
      /\ status[w] \notin Status /\ pc'[w] = "unlock" /\ status'[w] = "FAIL"
  BY <1>1 DEF InCall, Held, Decide, SeatTypeOK
<1>3. SeenOwner' = SeenOwner
  <2>1. \A t \in Held(w) : SeenOwner'[t] = SeenOwner[t]
    BY <1>1, <1>2, SeenInHand, SeenInHandNext DEF Held
  <2> QED
    BY <1>1, <2>1, SeenOutOfHand, SeenIsFunction
<1>4. SeenAnswers' = SeenAnswers \union {Reply(r, "FAIL")} /\ SeenHanded' = SeenHanded
  <2>1. "FAIL" \in Status
    BY DEF Status
  <2> QED
    BY <1>1, <1>2, <2>1, AnswerGiven, NoticesKept
<1>5. \A t \in SeatsOf(r) : SeenOwner[t] = owner[t]
  BY <1>1, <1>2, SeenInHand
<1>6. ~Booking!Granted(r) /\ ~Booking!Waitlisted(r) /\ ~Booking!Cancelled(r)
  <2>1. CASE RefuseMulti(w)
    <3>1. r.command = "RESERVE_MULTI" /\ ~Booking!Vacant(r)
      BY <1>5, <2>1, BookingGuards DEF RefuseMulti, Judging, AllEmpty
    <3> QED
      BY <3>1 DEF Booking!Granted, Booking!Waitlisted, Booking!Cancelled
  <2>2. CASE RefuseCancel(w)
    <3>1. r.command = "CANCEL" /\ s \in SeatsOf(r) /\ owner[s] # r.client
      BY <1>2, <2>2, WellFormedSeats DEF RefuseCancel, Judging
    <3>2. ~Booking!Owns(r)
      BY <1>5, <3>1, BookingGuards
    <3> QED
      BY <3>1, <3>2 DEF Booking!Granted, Booking!Waitlisted, Booking!Cancelled
  <2>3. CASE RefuseSeat(w)
    <3>1. /\ r.command = "RESERVE" /\ s \in SeatsOf(r) /\ owner[s] # Nobody
          /\ owner[s] = r.client \/ IsWaiting(waiting[s], r.client)
      BY <1>2, <2>3, WellFormedSeats DEF RefuseSeat, Judging
    <3>2. ~Booking!Vacant(r) /\ (Booking!Owns(r) \/ Booking!Waits(r))
      BY <1>5, <3>1, BookingGuards
    <3> QED
      BY <3>1, <3>2 DEF Booking!Granted, Booking!Waitlisted, Booking!Cancelled
  <2> QED
    BY <2>1, <2>2, <2>3
<1>7. Booking!Refuse(r)
  BY <1>1, <1>3, <1>4, <1>6, SameRequests DEF Booking!Refuse
<1> QED
  BY <1>1, <1>2, <1>7, FirstAnswer, SameRequests DEF Booking!BookingNext, Booking!Handle

LEMMA RefusedAtOnce ==
  ASSUME ManagerInv, ManagerInv', NEW w \in Worker, OthersKept(w),
         NEW r \in Request, RejectCall(w, r)
  PROVE  Booking!BookingNext
<1> USE DEF ManagerInv, seatVars, doneVars
<1>1. /\ InCall(w) /\ pc[w] = "idle" /\ lock' = lock /\ owner' = owner /\ waiting' = waiting
      /\ answers' = answers /\ handed' = handed /\ notice' = notice
      /\ request'[w] = r /\ status'[w] = "FAIL" /\ Malformed(r)
  BY DEF Calls, RejectCall, Take, SeatTypeOK
<1>2. Held(w) = {} /\ status[w] \notin Status
  BY <1>1 DEF InCall
<1>3. SeenOwner' = SeenOwner
  BY <1>1, <1>2, SeenOutOfHand, SeenIsFunction
<1>4. SeenAnswers' = SeenAnswers \union {Reply(r, "FAIL")} /\ SeenHanded' = SeenHanded
  <2>1. "FAIL" \in Status
    BY DEF Status
  <2> QED
    BY <1>1, <1>2, <2>1, AnswerGiven, NoticesKept
<1>5. Booking!Refuse(r)
  BY <1>1, <1>3, <1>4, SameRequests
  DEF Booking!Refuse, Booking!Granted, Booking!Waitlisted, Booking!Cancelled
<1>6. Booking!Unanswered(r)
  BY FirstAnswerTaken DEF RejectCall
<1> QED
  BY <1>5, <1>6, SameRequests DEF Booking!BookingNext, Booking!Handle

LEMMA GrantedOnce ==
  ASSUME ManagerInv, ManagerInv', NEW w \in Worker, OthersKept(w),
         GrantSeat(w) \/ AcceptMulti(w)
  PROVE  Booking!BookingNext
<1> USE DEF ManagerInv, seatVars, doneVars
<1> DEFINE r == request[w]
           s == OnlySeat(r)
<1>1. /\ InCall(w) /\ pc[w] = "judge" /\ lock' = lock /\ request' = request
      /\ waiting' = waiting /\ answers' = answers /\ handed' = handed /\ notice' = notice
      /\ status'[w] = "SUCCESS" /\ r.command # "CANCEL"
  BY DEF Calls, GrantSeat, AcceptMulti, Judging, Decide, SeatTypeOK
<1>2. /\ r \in Request /\ ~Malformed(r) /\ Held(w) = SeatsOf(r) /\ Held(w) \subseteq Seat
      /\ status[w] \notin Status
  BY <1>1 DEF InCall, Held
<1>3. \A t \in SeatsOf(r) : SeenOwner[t] = owner[t]
  BY <1>1, <1>2, SeenInHand
<1>4. /\ \A t \in SeatsOf(r) : owner[t] = Nobody /\ SeenOwner'[t] = r.client
      /\ \A t \in Seat \ SeatsOf(r) : SeenOwner'[t] = SeenOwner[t]
  <2>1. CASE GrantSeat(w)
    <3>1. SeatsOf(r) = {s} /\ s \in Seat
      BY <1>2, <2>1, WellFormedSeats DEF GrantSeat, Judging
    <3>2. owner[s] = Nobody /\ owner' = [owner EXCEPT ![s] = r.client] /\ pc'[w] = "unlock"
      BY <2>1 DEF GrantSeat, Assign, Decide, SeatTypeOK
    <3>3. lock'[s] = w /\ owner'[s] = r.client
      BY <1>1, <1>2, <3>1, <3>2 DEF Held, SeatTypeOK
    <3>4. SeenOwner'[s] = r.client
      BY <3>1, <3>2, <3>3, SeenInHandNext
    <3> QED
      BY <1>1, <1>2, <3>1, <3>2, <3>4, SeenOutOfHand
  <2>2. CASE AcceptMulti(w)
    <3>1. /\ \A t \in SeatsOf(r) : owner[t] = Nobody
          /\ owner' = owner /\ pc'[w] = "assign" /\ todo'[w] = SeatsOf(r)
      BY <2>2 DEF AcceptMulti, AllEmpty, SeatTypeOK
    <3>2. \A t \in SeatsOf(r) : SeenOwner'[t] = r.client
      BY <1>1, <1>2, <3>1, SeenInHandNext DEF Held
    <3> QED
      BY <1>1, <1>2, <3>1, <3>2, SeenOutOfHand
  <2> QED
    BY <2>1, <2>2
<1>5. SeenOwner' = [t \in Seat |-> IF t \in SeatsOf(r) THEN r.client ELSE SeenOwner[t]]
  BY <1>4, SeenIsFunction
<1>6. SeenAnswers' = SeenAnswers \union {Reply(r, "SUCCESS")} /\ SeenHanded' = SeenHanded
  <2>1. "SUCCESS" \in Status
    BY DEF Status
  <2> QED
    BY <1>1, <1>2, <2>1, AnswerGiven, NoticesKept
<1>7. Booking!Granted(r)
  BY <1>1, <1>2, <1>3, <1>4, BookingGuards, SameRequests DEF Booking!Granted
<1>8. Booking!Grant(r)
  BY <1>1, <1>5, <1>6, <1>7, SameRequests DEF Booking!Grant
<1> QED
  BY <1>1, <1>2, <1>8, FirstAnswer, SameRequests DEF Booking!BookingNext, Booking!Handle

LEMMA WaitlistedOnce ==
  ASSUME ManagerInv, ManagerInv', NEW w \in Worker, OthersKept(w), JoinWaitlist(w)
  PROVE  Booking!BookingNext
<1> USE DEF ManagerInv, seatVars, doneVars
<1> DEFINE r == request[w]
           s == OnlySeat(r)
<1>1. /\ InCall(w) /\ pc[w] = "judge" /\ lock' = lock /\ request' = request /\ owner' = owner
      /\ answers' = answers /\ handed' = handed /\ notice' = notice
      /\ pc'[w] = "unlock" /\ status'[w] = "WAITLISTED" /\ r.command = "RESERVE"
      /\ waiting' = [waiting EXCEPT ![s] = Append(@, Entry(r))]
      /\ owner[s] # Nobody /\ owner[s] # r.client /\ ~IsWaiting(waiting[s], r.client)
  BY DEF Calls, JoinWaitlist, Judging, Decide, SeatTypeOK
<1>2. /\ r \in Request /\ ~Malformed(r) /\ Held(w) = SeatsOf(r) /\ Held(w) \subseteq Seat
      /\ status[w] \notin Status /\ SeatsOf(r) = {s}
  BY <1>1, WellFormedSeats DEF InCall, Held
<1>3. SeenOwner[s] = owner[s]
  BY <1>1, <1>2, SeenInHand
<1>4. SeenOwner' = SeenOwner
  <2>1. \A t \in Held(w) : SeenOwner'[t] = SeenOwner[t]
    BY <1>1, <1>2, SeenInHand, SeenInHandNext DEF Held
  <2> QED
    BY <1>1, <2>1, SeenOutOfHand, SeenIsFunction
<1>5. SeenAnswers' = SeenAnswers \union {Reply(r, "WAITLISTED")} /\ SeenHanded' = SeenHanded
  <2>1. "WAITLISTED" \in Status
    BY DEF Status
  <2> QED
    BY <1>1, <1>2, <2>1, AnswerGiven, NoticesKept
<1>6. ~Booking!Vacant(r) /\ ~Booking!Owns(r) /\ ~Booking!Waits(r)
  BY <1>1, <1>2, <1>3, BookingGuards
<1>7. Booking!Waitlist(r)
  BY <1>1, <1>2, <1>4, <1>5, <1>6, SameRequests DEF Booking!Waitlist, Booking!Waitlisted
<1> QED
  BY <1>1, <1>2, <1>7, FirstAnswer, SameRequests DEF Booking!BookingNext, Booking!Handle

LEMMA HandedOn ==
  ASSUME ManagerInv, ManagerInv', NEW w \in Worker, OthersKept(w), HandOff(w)
  PROVE  Booking!BookingNext
<1> USE DEF ManagerInv, seatVars, doneVars
<1> DEFINE r == request[w]
           s == OnlySeat(r)
           q == waiting[s]
<1>1. /\ InCall(w) /\ pc[w] = "handoff" /\ todo[w] = {s} /\ lock' = lock /\ request' = request
      /\ answers' = answers /\ handed' = handed
  BY DEF Calls, HandOff, InCall
<1>2. /\ r \in Request /\ ~Malformed(r) /\ Held(w) = {s} /\ s \in Seat /\ SeatsOf(r) = {s}
      /\ r.command = "CANCEL" /\ owner[s] = Nobody
  BY <1>1, HandOffCases, WellFormedSeats DEF InCall
<1>3. status[w] \notin Status /\ notice[w] = {} /\ pc'[w] = "unlock" /\ status'[w] = "SUCCESS"
  <2>1. Decide(w, "SUCCESS")
    BY HandOffCases
  <2> QED
    BY <1>1, <2>1 DEF InCall, Decide, SeatTypeOK
<1>4. SeenOwner[s] = r.client
  BY <1>1, <1>2, SeenInHand
<1>5. SeenOwner'[s] = owner'[s]
  BY <1>1, <1>2, <1>3, SeenInHandNext DEF Held
<1>6. SeenAnswers' = SeenAnswers \union {Reply(r, "SUCCESS")}
  <2>1. "SUCCESS" \in Status
    BY DEF Status
  <2> QED
    BY <1>1, <1>3, <2>1, AnswerGiven
<1>7. Booking!Cancelled(r)
  BY <1>2, <1>4, BookingGuards, SameRequests DEF Booking!Cancelled
<1>8. CASE q = <<>> /\ UNCHANGED <<owner, waiting, notice>>
  <2>1. SeenOwner' = [SeenOwner EXCEPT ![s] = Nobody]
    <3>1. \A t \in Seat \ {s} : SeenOwner'[t] = SeenOwner[t]
      BY <1>1, <1>2, <1>8, SeenOutOfHand
    <3> QED
      BY <1>2, <1>5, <1>8, <3>1, SeenIsFunction
  <2>2. SeenHanded' = SeenHanded
    BY <1>1, <1>8, NoticesKept
  <2>3. Booking!Free(r)
    BY <1>6, <1>7, <1>8, <2>1, <2>2, SameRequests DEF Booking!Free
  <2> QED
    BY <1>1, <1>2, <2>3, FirstAnswer, SameRequests DEF Booking!BookingNext, Booking!Handle
<1>9. CASE /\ q # <<>> /\ q \in Seq(Entries)
           /\ owner' = [owner EXCEPT ![s] = Head(q).client]
           /\ waiting' = [waiting EXCEPT ![s] = Tail(@)]
           /\ notice' = [notice EXCEPT ![w] = {Notice(Head(q), s)}]
  <2>1. SeenOwner' = [SeenOwner EXCEPT ![s] = Head(q).client]
    <3>1. \A t \in Seat \ {s} : SeenOwner'[t] = SeenOwner[t]
      BY <1>1, <1>2, <1>9, SeenOutOfHand
    <3>2. owner'[s] = Head(q).client
      BY <1>2, <1>9 DEF SeatTypeOK
    <3> QED
      BY <1>2, <1>5, <3>1, <3>2, SeenIsFunction
  <2>2. SeenHanded' = SeenHanded \union {Notice(Head(q), s)}
    <3>1. notice'[w] = {Notice(Head(q), s)} /\ \A v \in Worker \ {w} : notice'[v] = notice[v]
      BY <1>9 DEF SeatTypeOK
    <3>2. SeenHanded' = handed' \union UNION {notice'[v] : v \in Worker}
      BY DEF SeenHanded
    <3>3. \A x : (\E v \in Worker : x \in notice'[v]) <=>
                   (x = Notice(Head(q), s) \/ \E v \in Worker : x \in notice[v])
      BY <1>3, <3>1
    <3> QED
      BY <1>1, <3>2, <3>3 DEF SeenHanded
  <2>3. Booking!HandOver(r)
    BY <1>6, <1>7, <1>9, <2>1, <2>2, SameRequests DEF Booking!HandOver
  <2> QED
    BY <1>1, <1>2, <2>3, FirstAnswer, SameRequests DEF Booking!BookingNext, Booking!Handle
<1> QED
  BY <1>8, <1>9, HandOffCases

-----------------------------------------------------------------------------
(* Every step of a worker is a step of SeatBooking or invisible in it.      *)
LEMMA BookingStep ==
  ManagerInv /\ ManagerInv' /\ [ManagerNext]_managerVars =>
    [Booking!BookingNext]_Booking!bookingVars
<1> SUFFICES ASSUME ManagerInv, ManagerInv', [ManagerNext]_managerVars
             PROVE  [Booking!BookingNext]_Booking!bookingVars
  OBVIOUS
<1>1. CASE UNCHANGED managerVars
  BY <1>1 DEF managerVars, seatVars, callVars, doneVars, Booking!bookingVars, SeenOwner,
     UnderWay, SeenAnswers, Decided, SeenHanded
<1>2. ASSUME NEW w \in Worker, WorkerCalls(w) \/ WorkerHandles(w)
      PROVE  [Booking!BookingNext]_Booking!bookingVars
  <2>1. OthersKept(w)
    BY <1>2, Locality DEF ManagerInv
  <2>2. CASE \/ \E r \in Request : StartCall(w, r)
             \/ Acquire(w) \/ Unlock(w) \/ Return(w) \/ ReleaseSeat(w) \/ AssignNext(w)
    BY <2>1, <2>2, Invisible DEF Booking!bookingVars
  <2>3. CASE \E r \in Request : RejectCall(w, r)
    BY <2>1, <2>3, RefusedAtOnce
  <2>4. CASE RefuseSeat(w) \/ RefuseCancel(w) \/ RefuseMulti(w)
    BY <2>1, <2>4, RefusedLate
  <2>5. CASE GrantSeat(w) \/ AcceptMulti(w)
    BY <2>1, <2>5, GrantedOnce
  <2>6. CASE JoinWaitlist(w)
    BY <2>1, <2>6, WaitlistedOnce
  <2>7. CASE HandOff(w)
    BY <2>1, <2>7, HandedOn
  <2> QED
    BY <1>2, <2>2, <2>3, <2>4, <2>5, <2>6, <2>7 DEF WorkerCalls, WorkerHandles
<1> QED
  BY <1>1, <1>2 DEF ManagerNext

(* Every step of a worker is a step of SeatBooking or invisible in it: a    *)
(* request, several seats or one, is judged and answered at one moment.     *)
THEOREM LocksMakeRequestsAtomic == ManagerSpec => ImplementsBooking
<1>1. ManagerInit => Booking!BookingInit
  <2> SUFFICES ASSUME ManagerInit PROVE Booking!BookingInit
    OBVIOUS
  <2>1. SeenOwner = [s \in Seat |-> Nobody]
    BY DEF ManagerInit, SeenOwner, UnderWay
  <2>2. Decided = {} /\ SeenAnswers = {}
    BY DEF ManagerInit, Decided, SeenAnswers, Status
  <2>3. SeenHanded = {}
    BY DEF ManagerInit, SeenHanded
  <2> QED
    BY <2>1, <2>2, <2>3, SameRequests DEF ManagerInit, Booking!BookingInit
<1> QED
  BY <1>1, BookingStep, ManagerInvariant, PTL DEF ManagerSpec, ImplementsBooking, Booking!BookingSpec

-----------------------------------------------------------------------------
(* The balance of the counters *)

(* The places of all waitlists. *)
Places(lists) == UNION {{s} \X DOMAIN lists[s] : s \in Seat}
Taken(owners) == {s \in Seat : owners[s] # Nobody}

Answered(given, e) == \E a \in given : a.client = e.client /\ a.request = e.request

(* Whoever waits or was told of a seat has been answered, and nobody waits  *)
(* on with an entry whose seat he was told of.                              *)
EntryKnown ==
  /\ \A s \in Seat : \A i \in DOMAIN waiting[s] :
       Answered(SeenAnswers, waiting[s][i]) /\ Notice(waiting[s][i], s) \notin SeenHanded
  /\ \A n \in SeenHanded : Answered(SeenAnswers, n)

Tally ==
  /\ IsFiniteSet(Places(waiting)) /\ IsFiniteSet(SeenHanded)
  /\ assignments - releases = Cardinality(Taken(owner))
  /\ waitlisted = Cardinality(SeenHanded) + Cardinality(Places(waiting))

TallyInv == ManagerInv /\ EntryKnown /\ Tally

LEMMA OneMore ==
  ASSUME NEW S, IsFiniteSet(S), NEW x, x \notin S, NEW T, T = S \union {x}
  PROVE  IsFiniteSet(T) /\ Cardinality(T) = Cardinality(S) + 1
BY FS_AddElement

LEMMA OneLess ==
  ASSUME NEW S, IsFiniteSet(S), NEW x, x \in S, NEW T, T = S \ {x}
  PROVE  IsFiniteSet(T) /\ Cardinality(T) = Cardinality(S) - 1
BY FS_RemoveElement

LEMMA InPlaces ==
  ASSUME NEW lists, NEW x
  PROVE  x \in Places(lists) <=> \E s \in Seat : \E i \in DOMAIN lists[s] : x = <<s, i>>
BY DEF Places

LEMMA PlaceAdded ==
  ASSUME NEW lists \in [Seat -> Seq(Entries)], NEW s \in Seat, NEW e \in Entries
  PROVE  LET more == [lists EXCEPT ![s] = Append(@, e)]
             new == <<s, Len(lists[s]) + 1>>
         IN  Places(more) = Places(lists) \union {new} /\ new \notin Places(lists)
<1> DEFINE more == [lists EXCEPT ![s] = Append(@, e)]
           new == <<s, Len(lists[s]) + 1>>
<1>1. /\ \A t \in Seat \ {s} : DOMAIN more[t] = DOMAIN lists[t]
      /\ DOMAIN lists[s] = 1..Len(lists[s]) /\ Len(lists[s]) \in Nat
      /\ DOMAIN more[s] = 1..(Len(lists[s]) + 1)
  OBVIOUS
<1>2. new \notin Places(lists)
  BY <1>1, InPlaces
<1>3. DOMAIN more[s] = DOMAIN lists[s] \union {Len(lists[s]) + 1}
  BY <1>1
<1>4. ASSUME NEW x PROVE x \in Places(more) <=> x \in Places(lists) \/ x = new
  <2>1. x \in Places(more) <=> \E t \in Seat : \E i \in DOMAIN more[t] : x = <<t, i>>
    BY InPlaces
  <2>2. x \in Places(lists) <=> \E t \in Seat : \E i \in DOMAIN lists[t] : x = <<t, i>>
    BY InPlaces
  <2> HIDE DEF more
  <2> QED
    BY <1>1, <1>3, <2>1, <2>2, Zenon
<1> QED
  BY <1>2, <1>4

LEMMA PlaceRemoved ==
  ASSUME NEW lists \in [Seat -> Seq(Entries)], NEW s \in Seat, lists[s] # <<>>
  PROVE  LET fewer == [lists EXCEPT ![s] = Tail(@)]
             last == <<s, Len(lists[s])>>
         IN  Places(fewer) = Places(lists) \ {last} /\ last \in Places(lists)
<1> DEFINE fewer == [lists EXCEPT ![s] = Tail(@)]
           last == <<s, Len(lists[s])>>
<1>1. /\ \A t \in Seat \ {s} : DOMAIN fewer[t] = DOMAIN lists[t]
      /\ DOMAIN lists[s] = 1..Len(lists[s]) /\ Len(lists[s]) \in Nat \ {0}
      /\ DOMAIN fewer[s] = 1..(Len(lists[s]) - 1)
  OBVIOUS
<1>2. last \in Places(lists)
  BY <1>1, InPlaces
<1>3. DOMAIN fewer[s] = DOMAIN lists[s] \ {Len(lists[s])}
  BY <1>1
<1>4. ASSUME NEW x PROVE x \in Places(fewer) <=> x \in Places(lists) /\ x # last
  <2>1. x \in Places(fewer) <=> \E t \in Seat : \E i \in DOMAIN fewer[t] : x = <<t, i>>
    BY InPlaces
  <2>2. x \in Places(lists) <=> \E t \in Seat : \E i \in DOMAIN lists[t] : x = <<t, i>>
    BY InPlaces
  <2> HIDE DEF fewer
  <2> QED
    BY <1>1, <1>3, <2>1, <2>2
<1> QED
  BY <1>2, <1>4

(* Entries and answers, as the callers see them. *)
LEMMA EntryKnownStep ==
  ASSUME ManagerInv, ManagerInv', EntryKnown, [ManagerNext]_managerVars
  PROVE  EntryKnown'
<1> USE DEF ManagerInv
<1>1. [Booking!BookingNext]_Booking!bookingVars
  BY BookingStep
<1>2. CASE UNCHANGED Booking!bookingVars
  BY <1>2 DEF Booking!bookingVars, EntryKnown, Answered
<1>3. ASSUME NEW r \in Request, Booking!Handle(r) PROVE EntryKnown'
  <2> DEFINE s == OnlySeat(r)
  <2>1. PICK st : SeenAnswers' = SeenAnswers \union {Reply(r, st)}
    BY <1>3, SameRequests, Zenon DEF Booking!Handle, Booking!Grant, Booking!Waitlist, Booking!Free,
       Booking!HandOver, Booking!Refuse
  <2>2. \A e : Answered(SeenAnswers, e) => Answered(SeenAnswers', e)
    BY <2>1 DEF Answered
  <2>3. CASE UNCHANGED <<waiting, SeenHanded>>
    BY <2>2, <2>3 DEF EntryKnown
  <2>4. CASE Booking!Waitlist(r)
    <3>1. /\ waiting' = [waiting EXCEPT ![s] = Append(@, Entry(r))] /\ SeenHanded' = SeenHanded
      BY <2>4, SameRequests DEF Booking!Waitlist
    <3>2. Answered(SeenAnswers', Entry(r))
      <4>1. Reply(r, st) \in SeenAnswers'
        BY <2>1
      <4>2. Reply(r, st).client = Entry(r).client /\ Reply(r, st).request = Entry(r).request
        BY DEF Entry, Reply
      <4> QED
        BY <4>1, <4>2 DEF Answered
    <3>3. \A t \in Seat : Notice(Entry(r), t) \notin SeenHanded
      BY <1>3 DEF Booking!Handle, Booking!Unanswered, EntryKnown, Answered, Notice, Entry
    <3>4. ASSUME NEW t \in Seat, NEW i \in DOMAIN waiting'[t]
          PROVE  Answered(SeenAnswers', waiting'[t][i]) /\ Notice(waiting'[t][i], t) \notin SeenHanded'
      <4>1. waiting[t] \in Seq(Entries)
        BY DEF SeatTypeOK
      <4>2. CASE waiting'[t] = waiting[t]
        <5>1. Answered(SeenAnswers, waiting[t][i]) /\ Notice(waiting[t][i], t) \notin SeenHanded
          BY <4>2 DEF EntryKnown
        <5>2. waiting'[t][i] = waiting[t][i]
          BY <4>2
        <5> QED
          BY <2>2, <3>1, <5>1, <5>2
      <4>3. CASE waiting'[t] = Append(waiting[t], Entry(r))
        <5>1. \/ i \in DOMAIN waiting[t] /\ waiting'[t][i] = waiting[t][i]
              \/ waiting'[t][i] = Entry(r)
          BY <4>1, <4>3
        <5> QED
          BY <2>2, <3>1, <3>2, <3>3, <5>1 DEF EntryKnown
      <4> QED
        BY <3>1, <4>2, <4>3 DEF SeatTypeOK
    <3> QED
      BY <2>2, <3>1, <3>4 DEF EntryKnown
  <2>5. CASE Booking!HandOver(r)
    <3> DEFINE n == Notice(Head(waiting[s]), s)
    <3>1. /\ waiting[s] # <<>> /\ waiting' = [waiting EXCEPT ![s] = Tail(@)]
          /\ SeenHanded' = SeenHanded \union {n}
      BY <2>5, SameRequests DEF Booking!HandOver
    <3>2. s \in Seat
      BY <2>5, SameRequests, WellFormedSeats DEF Booking!HandOver, Booking!Cancelled
    <3>3. waiting[s] \in Seq(Entries) /\ Head(waiting[s]) = waiting[s][1] /\ 1 \in DOMAIN waiting[s]
      BY <3>1, <3>2 DEF SeatTypeOK
    <3>4. Answered(SeenAnswers', n)
      <4>1. Answered(SeenAnswers', waiting[s][1])
        BY <2>2, <3>2, <3>3 DEF EntryKnown
      <4>2. n.client = waiting[s][1].client /\ n.request = waiting[s][1].request
        BY <3>3 DEF Notice
      <4> QED
        BY <4>1, <4>2 DEF Answered
    <3>5. ASSUME NEW t \in Seat, NEW i \in DOMAIN waiting'[t]
          PROVE  Answered(SeenAnswers', waiting'[t][i]) /\ Notice(waiting'[t][i], t) \notin SeenHanded'
      <4>1. CASE t # s
        <5>1. waiting'[t] = waiting[t]
          BY <3>1, <4>1 DEF SeatTypeOK
        <5> QED
          BY <2>2, <3>1, <4>1, <5>1 DEF EntryKnown, Notice
      <4>2. CASE t = s
        <5>1. i + 1 \in DOMAIN waiting[s] /\ waiting'[t][i] = waiting[s][i + 1] /\ i + 1 # 1
          BY <3>1, <3>2, <3>3, <4>2 DEF SeatTypeOK
        <5>2. waiting[s][i + 1].client # waiting[s][1].client
          BY <3>2, <3>3, <5>1 DEF OneClaim
        <5> QED
          BY <2>2, <3>1, <3>2, <3>3, <4>2, <5>1, <5>2 DEF EntryKnown, Notice
      <4> QED
        BY <4>1, <4>2
    <3> QED
      BY <2>2, <3>1, <3>4, <3>5 DEF EntryKnown
  <2> QED
    BY <1>3, <2>3, <2>4, <2>5 DEF Booking!Handle, Booking!Grant, Booking!Free, Booking!Refuse
<1> QED
  BY <1>1, <1>2, <1>3, SameRequests DEF Booking!BookingNext

LEMMA TakenChanges ==
  ASSUME NEW s \in Seat, NEW c \in Client, owner \in [Seat -> Client \union {Nobody}]
  PROVE  /\ owner[s] = Nobody =>
              Cardinality(Taken([owner EXCEPT ![s] = c])) = Cardinality(Taken(owner)) + 1
         /\ owner[s] # Nobody =>
              Cardinality(Taken([owner EXCEPT ![s] = Nobody])) = Cardinality(Taken(owner)) - 1
<1>1. IsFiniteSet(Taken(owner)) /\ Cardinality(Taken(owner)) \in Nat
  <2>1. IsFiniteSet(Seat)
    BY FS_Interval DEF Seat
  <2> QED
    BY <2>1, FS_Subset, FS_CardinalityType DEF Taken
<1>2. owner[s] = Nobody =>
        Taken([owner EXCEPT ![s] = c]) = Taken(owner) \union {s} /\ s \notin Taken(owner)
  BY DEF Taken
<1>3. owner[s] # Nobody =>
        Taken([owner EXCEPT ![s] = Nobody]) = Taken(owner) \ {s} /\ s \in Taken(owner)
  BY DEF Taken
<1> QED
  BY <1>1, <1>2, <1>3, OneMore, OneLess

LEMMA TallyStep ==
  ASSUME ManagerInv, ManagerInv', EntryKnown, Tally, NEW w \in Worker,
         WorkerCalls(w) \/ WorkerHandles(w)
  PROVE  Tally'
<1> USE DEF ManagerInv, seatVars, doneVars, Tally
<1> DEFINE r == request[w]
           s == OnlySeat(r)
<1>1. /\ OthersKept(w) /\ InCall(w) /\ doubleBookings' = doubleBookings
      /\ owner \in [Seat -> Client \union {Nobody}] /\ waiting \in [Seat -> Seq(Entries)]
      /\ assignments \in Nat /\ releases \in Nat /\ waitlisted \in Nat
      /\ Cardinality(Places(waiting)) \in Nat /\ Cardinality(SeenHanded) \in Nat
  BY Locality, OwnCall, FS_CardinalityType DEF Calls, SeatTypeOK
<1>2. CASE \/ \E q \in Request : StartCall(w, q) \/ RejectCall(w, q)
           \/ Acquire(w) \/ Unlock(w) \/ Return(w)
           \/ RefuseSeat(w) \/ RefuseCancel(w) \/ RefuseMulti(w) \/ AcceptMulti(w)
  <2>1. UNCHANGED <<owner, waiting, assignments, releases, waitlisted>>
    BY <1>2 DEF StartCall, RejectCall, Acquire, Unlock, Return, RefuseSeat, RefuseCancel,
       RefuseMulti, AcceptMulti
  <2>2. SeenHanded' = SeenHanded
    <3>1. CASE \/ \E q \in Request : StartCall(w, q)
               \/ Acquire(w) \/ Unlock(w) \/ Return(w)
      BY <1>1, <3>1, Invisible
    <3>2. CASE \/ \E q \in Request : RejectCall(w, q)
               \/ RefuseSeat(w) \/ RefuseCancel(w) \/ RefuseMulti(w) \/ AcceptMulti(w)
      BY <1>1, <3>2, NoticesKept DEF RejectCall, RefuseSeat, RefuseCancel, RefuseMulti, AcceptMulti
    <3> QED
      BY <1>2, <3>1, <3>2
  <2> QED
    BY <2>1, <2>2
<1>3. CASE GrantSeat(w)
  <2>1. s \in Seat /\ r.client \in Client
    BY <1>3, SeatInHand DEF GrantSeat, Judging
  <2>2. /\ owner[s] = Nobody /\ owner' = [owner EXCEPT ![s] = r.client]
        /\ assignments' = assignments + 1 /\ UNCHANGED <<waiting, releases, waitlisted, handed, notice>>
    BY <1>3 DEF GrantSeat, Assign
  <2>3. SeenHanded' = SeenHanded
    BY <1>1, <2>2, NoticesKept
  <2>4. Cardinality(Taken(owner')) = Cardinality(Taken(owner)) + 1
    BY <1>1, <2>1, <2>2, TakenChanges
  <2> QED
    BY <1>1, <2>2, <2>3, <2>4
<1>4. CASE JoinWaitlist(w)
  <2>1. s \in Seat /\ Entry(r) \in Entries
    BY <1>1, <1>4, SeatInHand DEF JoinWaitlist, Judging, Entry, Entries, InCall, Request
  <2>2. /\ waiting' = [waiting EXCEPT ![s] = Append(@, Entry(r))] /\ waitlisted' = waitlisted + 1
        /\ UNCHANGED <<owner, assignments, releases, handed, notice>>
    BY <1>4 DEF JoinWaitlist
  <2>3. SeenHanded' = SeenHanded
    BY <1>1, <2>2, NoticesKept
  <2>4. /\ IsFiniteSet(Places(waiting'))
        /\ Cardinality(Places(waiting')) = Cardinality(Places(waiting)) + 1
    <3> DEFINE new == <<s, Len(waiting[s]) + 1>>
    <3>1. Places(waiting') = Places(waiting) \union {new} /\ new \notin Places(waiting)
      BY <1>1, <2>1, <2>2, PlaceAdded
    <3> HIDE DEF new
    <3> QED
      BY <3>1, OneMore
  <2> QED
    BY <1>1, <2>2, <2>3, <2>4
<1>5. CASE ReleaseSeat(w)
  <2>1. s \in Seat /\ r.client \in Client
    BY <1>5, SeatInHand DEF ReleaseSeat, Judging
  <2>2. /\ owner[s] = r.client /\ owner' = [owner EXCEPT ![s] = Nobody]
        /\ releases' = releases + 1 /\ UNCHANGED <<waiting, assignments, waitlisted, handed, notice>>
    BY <1>5 DEF ReleaseSeat
  <2>3. SeenHanded' = SeenHanded
    BY <1>1, <2>2, NoticesKept
  <2>4. Cardinality(Taken(owner')) = Cardinality(Taken(owner)) - 1
    BY <1>1, <2>1, <2>2, TakenChanges
  <2> QED
    BY <1>1, <2>2, <2>3, <2>4
<1>6. CASE HandOff(w)
  <2>1. s \in Seat /\ owner[s] = Nobody /\ UNCHANGED <<releases, waitlisted, handed>>
    BY <1>6, HandOffCases DEF HandOff
  <2>2. CASE NobodyWaits(s)
    <3>1. UNCHANGED <<owner, waiting, assignments, notice>>
      BY <1>6, <2>2 DEF HandOff
    <3> QED
      BY <1>1, <2>1, <3>1, NoticesKept
  <2>3. CASE ~NobodyWaits(s)
    <3> DEFINE n == Notice(Head(waiting[s]), s)
    <3>1. /\ waiting[s] # <<>> /\ Head(waiting[s]) \in Entries /\ Head(waiting[s]) = waiting[s][1]
          /\ 1 \in DOMAIN waiting[s]
      BY <1>1, <2>1, <2>3 DEF NobodyWaits
    <3>2. /\ waiting' = [waiting EXCEPT ![s] = Tail(@)]
          /\ owner' = [owner EXCEPT ![s] = Head(waiting[s]).client]
          /\ assignments' = assignments + 1
          /\ notice' = [notice EXCEPT ![w] = {n}]
      BY <1>6, <2>1, <2>3 DEF HandOff, Assign, HeadOf
    <3>3. notice[w] = {}
      BY <1>1, <1>6 DEF InCall, HandOff
    <3>4. SeenHanded' = SeenHanded \union {n}
      <4>1. notice'[w] = {n} /\ \A v \in Worker \ {w} : notice'[v] = notice[v]
        BY <3>2 DEF SeatTypeOK
      <4>2. SeenHanded' = handed' \union UNION {notice'[v] : v \in Worker}
        BY DEF SeenHanded
      <4>3. \A x : (\E v \in Worker : x \in notice'[v]) <=>
                     (x = n \/ \E v \in Worker : x \in notice[v])
        BY <3>3, <4>1
      <4> QED
        BY <2>1, <4>2, <4>3 DEF SeenHanded
    <3>5. n \notin SeenHanded
      BY <2>1, <3>1 DEF EntryKnown
    <3>6. /\ IsFiniteSet(SeenHanded') /\ Cardinality(SeenHanded') = Cardinality(SeenHanded) + 1
      BY <3>4, <3>5, OneMore
    <3>7. /\ IsFiniteSet(Places(waiting'))
          /\ Cardinality(Places(waiting')) = Cardinality(Places(waiting)) - 1
      <4> DEFINE last == <<s, Len(waiting[s])>>
      <4>1. Places(waiting') = Places(waiting) \ {last} /\ last \in Places(waiting)
        BY <1>1, <2>1, <3>1, <3>2, PlaceRemoved
      <4> HIDE DEF last
      <4> QED
        BY <4>1, OneLess
    <3>8. Cardinality(Taken(owner')) = Cardinality(Taken(owner)) + 1
      BY <1>1, <2>1, <3>1, <3>2, TakenChanges DEF Entries
    <3> QED
      <4>1. assignments' = assignments + 1 /\ releases' = releases /\ waitlisted' = waitlisted
        BY <2>1, <3>2
      <4> QED
        BY <1>1, <3>6, <3>7, <3>8, <4>1
  <2> QED
    BY <2>2, <2>3
<1>7. CASE AssignNext(w)
  <2> DEFINE l == Lowest(todo[w])
  <2>1. /\ l \in Seat /\ owner[l] = Nobody /\ r.client \in Client
        /\ owner' = [owner EXCEPT ![l] = r.client]
    BY <1>7, NextInHand
  <2>2. assignments' = assignments + 1 /\ UNCHANGED <<waiting, releases, waitlisted, handed, notice>>
    BY <1>7, <2>1 DEF AssignNext, Assign
  <2>3. SeenHanded' = SeenHanded
    BY <1>1, <2>2, NoticesKept
  <2>4. Cardinality(Taken(owner')) = Cardinality(Taken(owner)) + 1
    BY <1>1, <2>1, <2>2, TakenChanges
  <2> QED
    BY <1>1, <2>2, <2>3, <2>4
<1> QED
  BY <1>2, <1>3, <1>4, <1>5, <1>6, <1>7 DEF WorkerCalls, WorkerHandles

LEMMA TallyInit == ManagerInit => EntryKnown /\ Tally
<1> SUFFICES ASSUME ManagerInit PROVE EntryKnown /\ Tally
  OBVIOUS
<1>1. SeenHanded = {}
  BY DEF ManagerInit, SeenHanded
<1>2. Places(waiting) = {} /\ Taken(owner) = {}
  BY DEF ManagerInit, Places, Taken
<1> QED
  <2>1. IsFiniteSet({}) /\ Cardinality({}) = 0
    BY FS_EmptySet
  <2>2. /\ assignments = 0 /\ releases = 0 /\ waitlisted = 0
        /\ \A s \in Seat : DOMAIN waiting[s] = {}
    BY DEF ManagerInit
  <2> QED
    BY <1>1, <1>2, <2>1, <2>2 DEF EntryKnown, Tally

(* The balance at the end of a run: every assignment that was not released  *)
(* is a taken seat, and whoever was waitlisted was handed a seat or waits.  *)
THEOREM CountersBalance == ManagerSpec => []Balanced
<1>1. TallyInv /\ ManagerInv' /\ [ManagerNext]_managerVars => TallyInv'
  <2> SUFFICES ASSUME TallyInv, ManagerInv', [ManagerNext]_managerVars PROVE TallyInv'
    OBVIOUS
  <2>1. EntryKnown'
    BY EntryKnownStep DEF TallyInv
  <2>2. CASE UNCHANGED managerVars
    BY <2>1, <2>2 DEF TallyInv, Tally, managerVars, seatVars, callVars, doneVars, SeenHanded
  <2>3. CASE ManagerNext
    BY <2>1, <2>3, TallyStep DEF TallyInv, ManagerNext
  <2> QED
    BY <2>2, <2>3
<1>2. TallyInv => Balanced
  <2> SUFFICES ASSUME TallyInv, Quiet PROVE Balanced
    BY DEF Balanced
  <2>1. \A w \in Worker : notice[w] = {}
    BY DEF TallyInv, ManagerInv, Calls, InCall, Quiet
  <2>2. SeenHanded = handed
    BY <2>1 DEF SeenHanded
  <2> QED
    BY <2>2 DEF TallyInv, ManagerInv, Tally, Balanced, Places, Taken
<1> QED
  BY <1>1, <1>2, TallyInit, ManagerInitInv, ManagerInvariant, PTL DEF ManagerSpec, TallyInv
=============================================================================
