----------------------------- MODULE SeatBooking -----------------------------
(***************************************************************************)
(* What the HW2 seat manager promises to its callers: every request is     *)
(* judged against one state of all the seats, at one moment, and answered  *)
(* once.  A reservation of several seats takes all of them or none, and a  *)
(* cancelled seat goes to the client that has waited for it longest.       *)
(* SeatManager, with one lock per seat, is shown to implement this.        *)
(***************************************************************************)
EXTENDS SeatRequests

VARIABLES
  owner,      \* the client a seat is assigned to, or Nobody
  waiting,    \* the waitlist of a seat
  answers,    \* replies given
  handed      \* notices of the seats handed to a waiting client

bookingVars == <<owner, waiting, answers, handed>>

BookingInit ==
  /\ owner = [s \in Seat |-> Nobody]
  /\ waiting = [s \in Seat |-> <<>>]
  /\ answers = {} /\ handed = {}

Vacant(r) == \A s \in SeatsOf(r) : owner[s] = Nobody
Owns(r) == owner[OnlySeat(r)] = r.client
Waits(r) == IsWaiting(waiting[OnlySeat(r)], r.client)

Granted(r) ==
  ~Malformed(r) /\ r.command # "CANCEL" /\ Vacant(r)
Waitlisted(r) ==
  ~Malformed(r) /\ r.command = "RESERVE" /\ ~Vacant(r) /\ ~Owns(r) /\ ~Waits(r)
Cancelled(r) ==
  ~Malformed(r) /\ r.command = "CANCEL" /\ Owns(r)

Grant(r) ==
  /\ Granted(r)
  /\ owner' = [s \in Seat |-> IF s \in SeatsOf(r) THEN r.client ELSE owner[s]]
  /\ answers' = answers \union {Reply(r, "SUCCESS")}
  /\ UNCHANGED <<waiting, handed>>

Waitlist(r) ==
  /\ Waitlisted(r)
  /\ waiting' = [waiting EXCEPT ![OnlySeat(r)] = Append(@, Entry(r))]
  /\ answers' = answers \union {Reply(r, "WAITLISTED")}
  /\ UNCHANGED <<owner, handed>>

Free(r) ==
  LET s == OnlySeat(r) IN
  /\ Cancelled(r) /\ waiting[s] = <<>>
  /\ owner' = [owner EXCEPT ![s] = Nobody]
  /\ answers' = answers \union {Reply(r, "SUCCESS")}
  /\ UNCHANGED <<waiting, handed>>

HandOver(r) ==
  LET s == OnlySeat(r) IN
  /\ Cancelled(r) /\ waiting[s] # <<>>
  /\ owner' = [owner EXCEPT ![s] = Head(waiting[s]).client]
  /\ waiting' = [waiting EXCEPT ![s] = Tail(@)]
  /\ handed' = handed \union {Notice(Head(waiting[s]), s)}
  /\ answers' = answers \union {Reply(r, "SUCCESS")}

Refuse(r) ==
  /\ ~Granted(r) /\ ~Waitlisted(r) /\ ~Cancelled(r)
  /\ answers' = answers \union {Reply(r, "FAIL")}
  /\ UNCHANGED <<owner, waiting, handed>>

Unanswered(r) ==
  \A a \in answers : a.client = r.client => a.request # r.id

Handle(r) ==
  /\ Unanswered(r)
  /\ Grant(r) \/ Waitlist(r) \/ Free(r) \/ HandOver(r) \/ Refuse(r)

BookingNext == \E r \in Request : Handle(r)

BookingSpec == BookingInit /\ [][BookingNext]_bookingVars
=============================================================================
