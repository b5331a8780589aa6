----------------------------- MODULE MCWorkers -----------------------------
(* The whole program with small sets, for TLC. *)
EXTENDS Workers

CONSTANTS j1, w1, w2

AllTypes  == {"RECONSTRUCT", "RENDER", "DATASET"}
MCWorkers == {w1, w2}

\* No property of the run looks at backgrounds, which the job runs upload.
NoBackground == \A j \in DOMAIN jobs : ~jobs[j].background
=============================================================================
