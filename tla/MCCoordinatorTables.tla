------------------------ MODULE MCCoordinatorTables -------------------------
(* Small instances of CoordinatorTables for TLC. *)
EXTENDS CoordinatorTables
=============================================================================
