---------------------------- MODULE MCTaskQueue ----------------------------
(* The queue on its own, for TLC. *)
EXTENDS TaskQueue

CONSTANTS j1, w1, w2

MCWorkers == {w1, w2}
=============================================================================
