---------------------------- MODULE MCJobService ----------------------------
(* The control plane with small sets, for TLC. *)
EXTENDS JobService, TLC

CONSTANTS j1, w1

AllTypes == {"RECONSTRUCT", "RENDER", "DATASET"}
=============================================================================
