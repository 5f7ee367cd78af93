--------------------------- MODULE MCSeatManager ---------------------------
(* Small instances of SeatManager for TLC. *)
EXTENDS SeatManager, FiniteSetsExt, TLC

MCSeatLists == {<<1>>, <<2, 1>>, <<1, 2>>, <<1, 1>>, <<3>>}
CONSTANT MaxRequests    \* bound: requests in a run
FewRequests == MapThenSumSet(LAMBDA c : asked[c], Client) <= MaxRequests
Symmetric == Permutations(Client) \union Permutations(Worker)
=============================================================================
