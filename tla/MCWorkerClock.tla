--------------------------- MODULE MCWorkerClock ---------------------------
(* WorkerClock for TLC: the durations are those of the code and of its       *)
(* default configuration, in seconds.                                       *)
EXTENDS WorkerClock
=============================================================================
