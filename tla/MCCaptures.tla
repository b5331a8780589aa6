----------------------------- MODULE MCCaptures -----------------------------
EXTENDS Captures

CONSTANTS r1, r2

MCRequests == {r1, r2}

\* Too few, a small share, a good share of few frames, a tenth of many, a hundred.
MCRegistrations ==
  {[registered |-> 10, extracted |-> 60], [registered |-> 30, extracted |-> 600],
   [registered |-> 26, extracted |-> 60], [registered |-> 60, extracted |-> 600],
   [registered |-> 100, extracted |-> 1200]}
=============================================================================
