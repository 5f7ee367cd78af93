---------------------------- MODULE SeatRequests ----------------------------
(***************************************************************************)
(* HW2 requests as SeatManager.handle receives them: who asks, under which *)
(* number, for what, and the list of seat numbers as the client wrote it,  *)
(* which the decoder passes on unchecked.                                  *)
(***************************************************************************)
EXTENDS Integers, Sequences, FiniteSets

CONSTANTS
  Client,       \* clients 1..CLIENT_COUNT
  SeatCount,    \* SEAT_COUNT
  MinMulti,     \* MIN_MULTI_SEATS
  MaxMulti,     \* MAX_MULTI_SEATS
  Nobody,       \* the code's owner 0
  SeatLists,    \* lists of seat numbers a request may carry
  MaxId         \* bound: requests of one client

ASSUME RequestsAssumption ==
  /\ SeatCount \in Nat \ {0}
  /\ MinMulti \in Nat \ {0, 1} /\ MaxMulti \in Nat
  /\ Nobody \notin Client
  /\ SeatLists \subseteq Seq(Int)
  /\ MaxId \in Nat

Seat == 1..SeatCount
Command == {"RESERVE", "RESERVE_MULTI", "CANCEL"}
Status == {"SUCCESS", "FAIL", "WAITLISTED"}

(* decodeRequest has refused single commands without exactly one seat.     *)
Request ==
  {r \in [client : Client, id : 1..MaxId, command : Command, seats : SeatLists] :
     r.command # "RESERVE_MULTI" => Len(r.seats) = 1}

SeatsOf(r) == {r.seats[i] : i \in DOMAIN r.seats}
OnlySeat(r) == r.seats[1]

BadMulti(r) ==
  /\ r.command = "RESERVE_MULTI"
  /\ \/ Len(r.seats) \notin MinMulti..MaxMulti
     \/ \E i, j \in DOMAIN r.seats : i # j /\ r.seats[i] = r.seats[j]

(* Mutant: the range check lets one number too many through. *)
BadSeatLate(r) == \E i \in DOMAIN r.seats : r.seats[i] \notin 1..(SeatCount + 1)

BadSeat(r) == \E i \in DOMAIN r.seats : r.seats[i] \notin Seat

Malformed(r) == BadMulti(r) \/ BadSeat(r)

(* An entry of a waitlist, and the notice of a seat handed to it.          *)
Entry(r) == [client |-> r.client, request |-> r.id]
Notice(e, s) == [client |-> e.client, request |-> e.request, seat |-> s]
Reply(r, st) == [client |-> r.client, request |-> r.id, status |-> st]

(* isWaiting *)
(* Mutant: only the head of the waitlist is compared. *)
IsWaitingFirst(q, c) == q # <<>> /\ q[1].client = c

IsWaiting(q, c) == \E i \in DOMAIN q : q[i].client = c

Entries == [client : Client, request : 1..MaxId]
Notices == [client : Client, request : 1..MaxId, seat : Seat]
Replies == [client : Client, request : 1..MaxId, status : Status]
=============================================================================
