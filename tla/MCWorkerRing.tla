---------------------------- MODULE MCWorkerRing ----------------------------
(* Small instances of WorkerRing for TLC. *)
EXTENDS WorkerRing

MCValue == UNION {[1..n -> 1..Steps] : n \in 0..Steps}
(* Workers are alike up to a rotation of the ring, so the first grant of    *)
(* task 1 may be taken to go to worker 1.                                   *)
FirstToOne == epoch[1] = 1 => owner[1] = 1
=============================================================================
