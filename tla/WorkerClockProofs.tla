------------------------- MODULE WorkerClockProofs -------------------------
(***************************************************************************)
(* Proofs about WorkerClock, for every choice of the durations.  Three     *)
(* inductive invariants: LeaseInv follows the lease through the guard's    *)
(* phases, StatusInv the two reports of a worker between tasks.            *)
(***************************************************************************)
EXTENDS WorkerClock, TLAPS

\* Guard thread and lease.  The guard's silence is bounded by its place and
\* age, and the lease of a worker that works is hardly older than the silence.
GuardStarts ==
  /\ guard.at = "off" => silence = 0 /\ misses = 0
  /\ main.at \in {"accepting", "working"} => guard.at # "off"
  /\ guard.at # "off" => main.at \in {"accepting", "working", "concluding"}

Silent ==
  /\ guard.at = "waiting" =>
       /\ guard.age <= Interval /\ silence <= Grace + guard.age
       /\ misses = 0 => silence <= guard.age
       /\ misses = 1 => silence <= Interval + Timeout + guard.age
  /\ guard.at = "asking" =>
       /\ guard.age <= Timeout /\ silence <= Grace + Interval + guard.age
       /\ misses = 0 => silence <= Interval + guard.age
       /\ misses = 1 => silence <= 2 * Interval + Timeout + guard.age

AnswerIsFresh ==
  /\ main.at = "accepting" /\ main.heard = "ok" => held <= main.age
  /\ guard.at = "asking" /\ guard.heard = "ok" => held <= guard.age

LeaseIsYoung ==
  main.at = "working" =>
    /\ guard.at \in {"waiting", "asking"} => held <= silence + Latency
    /\ guard.at = "stopping" =>
         /\ held <= Latency + Grace + Interval + Timeout + guard.age
         /\ guard.age <= StopTime \/ held <= Latency

TakenIsOverdue ==
  taken => held > Lease /\ main.at \in AtTask \cup {"concluding"}

LeaseInv == GuardStarts /\ Silent /\ AnswerIsFresh /\ LeaseIsYoung /\ TakenIsOverdue

\* Main thread: how old the health file and the monitor's LastSeen can be at
\* each place of a pass.
MaxNap == IF Poll < 2 THEN 2 ELSE Poll

Touched ==
  /\ main.at \in {"reporting", "polling"} => main.age <= Timeout
  /\ main.at = "sleeping"  => main.age <= Nap
  /\ main.at = "reporting" => touched <= main.age
  /\ main.at = "polling"   => touched <= Timeout + main.age
  /\ main.at = "sleeping"  => touched <= 2 * Timeout + main.age

Seen ==
  /\ main.at = "down" => ~clear
  /\ clear =>
       /\ main.at \in Reporting /\ main.heard # Unheard => seen <= main.age
       /\ main.at \in {"top", "polling", "sleeping"} => seen <= due + Latency
       /\ main.at = "top"       => seen < Interval + 2 * Latency + MaxNap
       /\ main.at = "reporting" => seen < Interval + 2 * Latency + MaxNap + main.age
       /\ main.at = "polling"   => seen < Interval + Latency + main.age
       /\ main.at = "sleeping"  => seen < Interval + 2 * Latency + main.age

----------------------------------------------------------------------------

(* Every step keeps the types. *)
LEMMA TypeStep ==
  ASSUME TypeOK, [Next]_vars
  PROVE  TypeOK'
<1> USE ClockAssumption DEF TypeOK, Idle, AtTask, Reporting, Thread, Unheard, vars, leaseVars, statusVars
<1>1. CASE Tick
  BY <1>1 DEF Tick, MainMayWait, GuardMayWait, MainTicks, GuardTicks, Held, UpTo, Nap
<1>2. CASE HandleReport
  BY <1>2 DEF HandleReport
<1>3. CASE HandlePoll
  BY <1>3 DEF HandlePoll
<1>4. CASE HandleAccept
  BY <1>4 DEF HandleAccept, Judged, Renewed
<1>5. CASE HandleBeat
  BY <1>5 DEF HandleBeat, Judged, Renewed
<1>6. CASE HandleLateBeat
  BY <1>6 DEF HandleLateBeat, Renewed
<1>7. CASE TakeAway
  BY <1>7 DEF TakeAway
<1>8. CASE RestartApp
  <2>1. taken' \in BOOLEAN /\ late' \in BOOLEAN /\ clear' \in BOOLEAN
    BY <1>8, ZenonT(20) DEF RestartApp
  <2> QED BY <2>1, <1>8 DEF RestartApp
<1>9. CASE Boot
  BY <1>9 DEF Boot
<1>10. CASE Crash
  <2>1. taken' \in BOOLEAN /\ late' \in BOOLEAN /\ clear' \in BOOLEAN
    BY <1>10, ZenonT(20) DEF Crash, Forget
  <2> QED BY <2>1, <1>10 DEF Crash, Forget
<1>11. CASE Top
  BY <1>11 DEF Top, AfterReport, IsDue
<1>12. CASE ReportAnswered
  BY <1>12 DEF ReportAnswered, EndReport, AfterReport, UpTo
<1>13. CASE ReportFails
  BY <1>13 DEF ReportFails, EndReport, AfterReport
<1>14. CASE PollAnswered
  BY <1>14 DEF PollAnswered
<1>15. CASE PollFails
  <2>1. taken' \in BOOLEAN /\ late' \in BOOLEAN /\ clear' \in BOOLEAN
    BY <1>15, ZenonT(20) DEF PollFails, Forget
  <2> QED BY <2>1, <1>15 DEF PollFails, Forget
<1>16. CASE WakeUp
  BY <1>16 DEF WakeUp, Nap
<1>17. CASE AcceptAnswered
  BY <1>17 DEF AcceptAnswered
<1>18. CASE AcceptFails
  BY <1>18 DEF AcceptFails
<1>19. CASE EndWork
  BY <1>19 DEF EndWork
<1>20. CASE Conclude
  <2>1. taken' \in BOOLEAN /\ late' \in BOOLEAN /\ clear' \in BOOLEAN
    BY <1>20, ZenonT(20) DEF Conclude, Forget
  <2> QED BY <2>1, <1>20 DEF Conclude, Forget
<1>21. CASE GuardAsks
  BY <1>21 DEF GuardAsks
<1>22. CASE BeatAnswered
  BY <1>22 DEF BeatAnswered
<1>23. CASE BeatFails
  <2>1. taken' \in BOOLEAN /\ late' \in BOOLEAN /\ clear' \in BOOLEAN
    BY <1>23, ZenonT(20) DEF BeatFails, GivesUp, UpTo
  <2> QED BY <2>1, <1>23 DEF BeatFails, GivesUp, UpTo
<1>24. CASE UNCHANGED vars
  BY <1>24
<1> QED
  BY <1>1, <1>2, <1>3, <1>4, <1>5, <1>6, <1>7, <1>8, <1>9, <1>10, <1>11, <1>12,
     <1>13, <1>14, <1>15, <1>16, <1>17, <1>18, <1>19, <1>20, <1>21, <1>22, <1>23, <1>24 DEF Next

(* Every step keeps the bounds on the guard's silence and the lease's age. *)
LEMMA LeaseStep ==
  ASSUME TypeOK, LeaseInv, [Next]_vars
  PROVE  LeaseInv'
<1> USE ClockAssumption DEF TypeOK, Idle, AtTask, Reporting, Thread, Unheard, vars, leaseVars, statusVars,
          LeaseInv, GuardStarts, Silent, AnswerIsFresh, LeaseIsYoung, TakenIsOverdue
<1>1. CASE Tick
  <2> USE <1>1 DEF Tick, GuardTicks
  <2>1. guard'.at = guard.at /\ guard'.heard = guard.heard /\ main'.at = main.at /\ main'.heard = main.heard
    OBVIOUS
  <2>2. main.at = "accepting" => main'.age = main.age + 1
    BY DEF MainTicks
  <2>3. held' = held \/ held' = held + 1
    BY DEF Held
  <2>4. main.at \in AtTask /\ guard.at # "off" => guard'.age = guard.age + 1
    OBVIOUS
  <2>5. ~(main.at \in AtTask /\ guard.at # "off") => guard' = guard /\ silence' = silence
    OBVIOUS
  <2>6. GuardStarts'
    BY <2>1, <2>5
  <2>7. Silent'
    BY <2>1, <2>4, <2>5 DEF GuardMayWait
  <2>8. AnswerIsFresh'
    <3>1. guard.at = "asking" /\ guard.heard = "ok" => held' <= guard'.age
      BY <2>4, <2>5, <2>3 DEF Held
    <3> QED BY <3>1, <2>1, <2>2, <2>3
  <2>9. LeaseIsYoung'
    BY <2>1, <2>3, <2>4 DEF MainMayWait
  <2>10. TakenIsOverdue'
    BY <2>1, <2>3
  <2> QED BY <2>6, <2>7, <2>8, <2>9, <2>10
<1>2. CASE HandleReport
  BY <1>2 DEF HandleReport
<1>3. CASE HandlePoll
  BY <1>3 DEF HandlePoll
<1>4. CASE HandleAccept
  BY <1>4 DEF HandleAccept, Judged, Renewed
<1>5. CASE HandleBeat
  BY <1>5 DEF HandleBeat, Judged, Renewed
<1>6. CASE HandleLateBeat
  BY <1>6 DEF HandleLateBeat, Renewed
<1>7. CASE TakeAway
  BY <1>7 DEF TakeAway
<1>8. CASE RestartApp
  BY <1>8 DEF RestartApp
<1>9. CASE Boot
  BY <1>9 DEF Boot
<1>10. CASE Crash
  BY <1>10 DEF Crash, Forget
<1>11. CASE Top
  BY <1>11 DEF Top, AfterReport, IsDue
<1>12. CASE ReportAnswered
  <2>1. CASE main.at = "announcing"
    BY <1>12, <2>1 DEF ReportAnswered, EndReport, AfterReport, UpTo
  <2>2. CASE main.at # "announcing"
    <3>1. guard' = guard /\ main.at \in {"reporting", "resuming"} /\ main'.at \notin {"accepting", "working"}
      BY <1>12, <2>2 DEF ReportAnswered, EndReport, AfterReport, UpTo
    <3>2. UNCHANGED leaseVars
      BY <1>12 DEF ReportAnswered, EndReport, AfterReport, UpTo
    <3> QED BY <3>1, <3>2
  <2> QED BY <2>1, <2>2
<1>13. CASE ReportFails
  <2>1. CASE main.at = "announcing"
    BY <1>13, <2>1 DEF ReportFails, EndReport, AfterReport
  <2>2. CASE main.at # "announcing"
    <3>1. guard' = guard /\ main.at \in {"reporting", "resuming"} /\ main'.at \notin {"accepting", "working"}
      BY <1>13, <2>2 DEF ReportFails, EndReport, AfterReport
    <3>2. UNCHANGED leaseVars
      BY <1>13 DEF ReportFails, EndReport, AfterReport
    <3> QED BY <3>1, <3>2
  <2> QED BY <2>1, <2>2
<1>14. CASE PollAnswered
  BY <1>14 DEF PollAnswered
<1>15. CASE PollFails
  BY <1>15 DEF PollFails, Forget
<1>16. CASE WakeUp
  BY <1>16 DEF WakeUp, Nap
<1>17. CASE AcceptAnswered
  BY <1>17 DEF AcceptAnswered
<1>18. CASE AcceptFails
  BY <1>18 DEF AcceptFails
<1>19. CASE EndWork
  BY <1>19 DEF EndWork
<1>20. CASE Conclude
  BY <1>20 DEF Conclude, Forget
<1>21. CASE GuardAsks
  BY <1>21 DEF GuardAsks
<1>22. CASE BeatAnswered
  BY <1>22 DEF BeatAnswered
<1>23. CASE BeatFails
  BY <1>23 DEF BeatFails, GivesUp, UpTo
<1>24. CASE UNCHANGED vars
  BY <1>24
<1> QED
  BY <1>1, <1>2, <1>3, <1>4, <1>5, <1>6, <1>7, <1>8, <1>9, <1>10, <1>11, <1>12,
     <1>13, <1>14, <1>15, <1>16, <1>17, <1>18, <1>19, <1>20, <1>21, <1>22, <1>23, <1>24 DEF Next

(* Every step keeps the bounds on the age of the health file. *)
LEMMA TouchedStep ==
  ASSUME TypeOK, Touched, [Next]_vars
  PROVE  Touched'
<1> USE ClockAssumption DEF TypeOK, Idle, AtTask, Reporting, Thread, Unheard, vars, leaseVars, statusVars, Touched, Nap, MaxNap
<1>1. CASE Tick
  BY <1>1 DEF Tick, MainMayWait, GuardMayWait, MainTicks, GuardTicks, Held, UpTo, Nap
<1>2. CASE HandleReport
  BY <1>2 DEF HandleReport
<1>3. CASE HandlePoll
  BY <1>3 DEF HandlePoll
<1>4. CASE HandleAccept
  BY <1>4 DEF HandleAccept, Judged, Renewed
<1>5. CASE HandleBeat
  BY <1>5 DEF HandleBeat, Judged, Renewed
<1>6. CASE HandleLateBeat
  BY <1>6 DEF HandleLateBeat, Renewed
<1>7. CASE TakeAway
  BY <1>7 DEF TakeAway
<1>8. CASE RestartApp
  BY <1>8 DEF RestartApp
<1>9. CASE Boot
  BY <1>9 DEF Boot
<1>10. CASE Crash
  BY <1>10 DEF Crash, Forget
<1>11. CASE Top
  BY <1>11 DEF Top, AfterReport, IsDue
<1>12. CASE ReportAnswered
  BY <1>12 DEF ReportAnswered, EndReport, AfterReport, UpTo
<1>13. CASE ReportFails
  BY <1>13 DEF ReportFails, EndReport, AfterReport
<1>14. CASE PollAnswered
  BY <1>14 DEF PollAnswered
<1>15. CASE PollFails
  BY <1>15 DEF PollFails, Forget
<1>16. CASE WakeUp
  BY <1>16 DEF WakeUp, Nap
<1>17. CASE AcceptAnswered
  BY <1>17 DEF AcceptAnswered
<1>18. CASE AcceptFails
  BY <1>18 DEF AcceptFails
<1>19. CASE EndWork
  BY <1>19 DEF EndWork
<1>20. CASE Conclude
  BY <1>20 DEF Conclude, Forget
<1>21. CASE GuardAsks
  BY <1>21 DEF GuardAsks
<1>22. CASE BeatAnswered
  BY <1>22 DEF BeatAnswered
<1>23. CASE BeatFails
  BY <1>23 DEF BeatFails, GivesUp, UpTo
<1>24. CASE UNCHANGED vars
  BY <1>24
<1> QED
  BY <1>1, <1>2, <1>3, <1>4, <1>5, <1>6, <1>7, <1>8, <1>9, <1>10, <1>11, <1>12,
     <1>13, <1>14, <1>15, <1>16, <1>17, <1>18, <1>19, <1>20, <1>21, <1>22, <1>23, <1>24 DEF Next

(* Every step keeps the bounds on the age of the last report. *)
LEMMA SeenStep ==
  ASSUME TypeOK, Touched, Seen, [Next]_vars
  PROVE  Seen'
<1> USE ClockAssumption DEF TypeOK, Idle, AtTask, Reporting, Thread, Unheard, vars, leaseVars, statusVars, Touched, Seen, Nap, MaxNap
<1>1. CASE Tick
  BY <1>1 DEF Tick, MainMayWait, GuardMayWait, MainTicks, GuardTicks, Held, UpTo, Nap
<1>2. CASE HandleReport
  BY <1>2 DEF HandleReport
<1>3. CASE HandlePoll
  BY <1>3 DEF HandlePoll
<1>4. CASE HandleAccept
  BY <1>4 DEF HandleAccept, Judged, Renewed
<1>5. CASE HandleBeat
  BY <1>5 DEF HandleBeat, Judged, Renewed
<1>6. CASE HandleLateBeat
  BY <1>6 DEF HandleLateBeat, Renewed
<1>7. CASE TakeAway
  BY <1>7 DEF TakeAway
<1>8. CASE RestartApp
  BY <1>8 DEF RestartApp
<1>9. CASE Boot
  BY <1>9 DEF Boot
<1>10. CASE Crash
  BY <1>10 DEF Crash, Forget
<1>11. CASE Top
  BY <1>11 DEF Top, AfterReport, IsDue
<1>12. CASE ReportAnswered
  BY <1>12 DEF ReportAnswered, EndReport, AfterReport, UpTo
<1>13. CASE ReportFails
  BY <1>13 DEF ReportFails, EndReport, AfterReport
<1>14. CASE PollAnswered
  BY <1>14 DEF PollAnswered
<1>15. CASE PollFails
  BY <1>15 DEF PollFails, Forget
<1>16. CASE WakeUp
  BY <1>16 DEF WakeUp, Nap
<1>17. CASE AcceptAnswered
  BY <1>17 DEF AcceptAnswered
<1>18. CASE AcceptFails
  BY <1>18 DEF AcceptFails
<1>19. CASE EndWork
  BY <1>19 DEF EndWork
<1>20. CASE Conclude
  BY <1>20 DEF Conclude, Forget
<1>21. CASE GuardAsks
  BY <1>21 DEF GuardAsks
<1>22. CASE BeatAnswered
  BY <1>22 DEF BeatAnswered
<1>23. CASE BeatFails
  BY <1>23 DEF BeatFails, GivesUp, UpTo
<1>24. CASE UNCHANGED vars
  BY <1>24
<1> QED
  BY <1>1, <1>2, <1>3, <1>4, <1>5, <1>6, <1>7, <1>8, <1>9, <1>10, <1>11, <1>12,
     <1>13, <1>14, <1>15, <1>16, <1>17, <1>18, <1>19, <1>20, <1>21, <1>22, <1>23, <1>24 DEF Next

----------------------------------------------------------------------------

(* The invariants hold in every reachable state. *)
LEMMA Invariants == Spec => [](TypeOK /\ LeaseInv /\ Touched /\ Seen)
<1>1. Init => TypeOK /\ LeaseInv /\ Touched /\ Seen
  <2> SUFFICES ASSUME Init PROVE TypeOK /\ LeaseInv /\ Touched /\ Seen
    OBVIOUS
  <2> USE ClockAssumption DEF Init, NoLease, Thread, Unheard, Idle, AtTask, Reporting
  <2>1. TypeOK
    <3>1. healthy \in BOOLEAN /\ taken \in BOOLEAN /\ late \in BOOLEAN /\ clear \in BOOLEAN
      BY Zenon
    <3> QED BY <3>1 DEF TypeOK
  <2>2. LeaseInv
    BY DEF LeaseInv, GuardStarts, Silent, AnswerIsFresh, LeaseIsYoung, TakenIsOverdue
  <2>3. Touched /\ Seen
    BY DEF Touched, Seen
  <2> QED BY <2>1, <2>2, <2>3
<1>2. TypeOK /\ LeaseInv /\ Touched /\ Seen /\ [Next]_vars => (TypeOK /\ LeaseInv /\ Touched /\ Seen)'
  BY TypeStep, LeaseStep, TouchedStep, SeenStep
<1> QED BY <1>1, <1>2, PTL DEF Spec

(* All clocks and threads keep their types. *)
THEOREM TypeCorrect == Spec => []TypeOK
BY Invariants, PTL

(* For every choice of the durations, work ends within Latency + Grace +       *)
(* Interval + Timeout + StopTime of the last renewal of its lease.             *)
THEOREM OverlapBounded == Spec => []OverlapIsBounded
<1>1. TypeOK /\ LeaseInv => OverlapIsBounded
  BY ClockAssumption DEF TypeOK, LeaseInv, GuardStarts, Silent, LeaseIsYoung, OverlapIsBounded
<1> QED BY <1>1, Invariants, PTL

(* What lease.py:19-21 promises holds when the lease is long enough.  With the *)
(* durations of the code that is 56 s and the slowest answer; Lease is 45 s.   *)
THEOREM LongLeaseIsSafe ==
  ASSUME Lease >= Latency + Grace + Interval + Timeout + StopTime
  PROVE  Spec => []OneAtWork
<1>1. TypeOK /\ LeaseInv => OneAtWork
  <2>1. TypeOK /\ LeaseInv => OverlapIsBounded
    BY ClockAssumption DEF TypeOK, LeaseInv, GuardStarts, Silent, LeaseIsYoung, OverlapIsBounded
  <2> QED BY <2>1, ClockAssumption DEF TypeOK, LeaseInv, TakenIsOverdue, OverlapIsBounded, OneAtWork
<1> QED BY <1>1, Invariants, PTL

(* A worker whose guard has missed at most one heartbeat still has its lease. *)
THEOREM OneMissKeepsLease == Spec => []OneMissIsNoLoss
<1>1. TypeOK /\ LeaseInv => OneMissIsNoLoss
  <2> SUFFICES ASSUME TypeOK, LeaseInv, Lease >= Latency + 2 * (Interval + Timeout),
                      main.at = "working", guard.at \in {"waiting", "asking"}, misses <= 1
               PROVE  held <= Lease /\ ~taken
    BY DEF OneMissIsNoLoss
  <2>1. held <= silence + Latency
    BY DEF LeaseInv, LeaseIsYoung
  <2>2. misses = 0 \/ misses = 1
    BY DEF TypeOK
  <2>3. silence <= 2 * (Interval + Timeout)
    BY <2>2, ClockAssumption DEF TypeOK, LeaseInv, Silent
  <2>4. held <= Lease
    BY <2>1, <2>3, ClockAssumption DEF TypeOK
  <2> QED BY <2>4, ClockAssumption DEF TypeOK, LeaseInv, TakenIsOverdue
<1> QED BY <1>1, Invariants, PTL

(* A worker between tasks passes the health check, whatever becomes of its calls. *)
THEOREM IdleHealthy == Spec => []IdleWorkerIsHealthy
<1>1. TypeOK /\ Touched => IdleWorkerIsHealthy
  BY ClockAssumption DEF TypeOK, Touched, IdleWorkerIsHealthy, Idle, Nap
<1> QED BY <1>1, Invariants, PTL

(* A worker between tasks whose calls are answered is shown as online. *)
THEOREM IdleOnline == Spec => []IdleWorkerIsOnline
<1>1. TypeOK /\ Touched /\ Seen => IdleWorkerIsOnline
  BY ClockAssumption
     DEF TypeOK, Touched, Seen, IdleWorkerIsOnline, Answered, Idle, Reporting, Nap, MaxNap, Unheard
<1> QED BY <1>1, Invariants, PTL
=============================================================================
