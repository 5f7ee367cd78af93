--------------------------- MODULE LifeReference ---------------------------
(***************************************************************************)
(* HW4: what a run promises, the computation of worker/reference.py: one   *)
(* board, one rule after the other, a snapshot of every Full-th state.     *)
(* A run may stop at any point; what it has saved by then is a prefix.     *)
(***************************************************************************)
EXTENDS LifeBoard

VARIABLES state,   \* number of rounds played
          board,
          saved    \* snapshots, in the order they were saved

refVars == <<state, board, saved>>

Snapshot(s, rows) == [state |-> s, rows |-> rows]

(* The snapshot of the current state is due and not yet saved. *)
Due == state = Full * Len(saved)

RefInit == state = 0 /\ board = Canvas[0] /\ saved = <<>>

Save ==
  /\ Due
  /\ saved' = Append(saved, Snapshot(state, board))
  /\ UNCHANGED <<state, board>>

Step ==
  /\ ~Due
  /\ state < Rounds
  /\ state' = state + 1
  /\ board' = WholeStep(state, board)
  /\ UNCHANGED saved

RefNext == Save \/ Step

RefSpec == RefInit /\ [][RefNext]_refVars
=============================================================================
