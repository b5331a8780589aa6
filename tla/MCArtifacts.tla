---------------------------- MODULE MCArtifacts ----------------------------
(* The files of one job with small sets, for TLC. *)
EXTENDS Artifacts, TLC

CONSTANTS j1, w1, w2, v1, v2, e1, e2, b1, b2

AllTypes      == {"RECONSTRUCT", "RENDER", "DATASET"}
TwoViews      == {v1, v2}
TwoEdits      == {e1, e2}
TwoUploads    == {b1, b2}

\* Nothing is promised once two tasks met, and nothing follows a second task that
\* does not succeed.  The second worker only gives up what
\* the first let expire, a dataset after tasks that succeeded; an interrupted
\* replacement is followed up with two tasks, one of the backgrounds also with a
\* dataset that is built again; and a reconstruction stands alone.
Done(t)    == tasks[t].state = "SUCCEEDED"
Failed(t)  == tasks[t].state \in {"FAILED", "CANCELLED"}
GivenUp(t) == tasks[t].state = "FAILED" /\ tasks[t].lease = "expired"

Bound == /\ solo
         /\ \A t \in DOMAIN tasks : tasks[t].owner # w2
         /\ \A t \in DOMAIN tasks : GivenUp(t) => tasks[t].type = "DATASET" /\ \A u \in 1 .. t - 1 : Done(u)
         /\ Cardinality({t \in DOMAIN tasks : Failed(t)}) <= 1
         /\ Cardinality(backups) <= 1
         /\ backups # {} /\ Cardinality(DOMAIN tasks) = 3 =>
              /\ <<j1, 0>> \in backups
              /\ tasks[2].type = "DATASET" /\ Done(2) /\ tasks[3].type = "DATASET"
         /\ \A t, u \in DOMAIN tasks : tasks[t].type = "RECONSTRUCT" => u = t

Symmetry == Permutations(TwoViews) \cup Permutations(TwoEdits) \cup Permutations(TwoUploads)
=============================================================================
