-------------------------- MODULE MCBookingServer --------------------------
(* Small instances of BookingServer for TLC. *)
EXTENDS BookingServer, TLC

OneSeat == {<<1>>}
TwoSeats == {<<1>>, <<2>>, <<1, 2>>}
Symmetric == Permutations(Client) \union Permutations(Worker)
=============================================================================
