---------------------------- MODULE WorkerClock ----------------------------
(***************************************************************************)
(* Time: one worker process, the lease it holds, and what others see of    *)
(* it.  Workers says in which order things may happen; here the clocks say *)
(* when.  The main thread polls, rests and reports itself to the app's     *)
(* WorkerMonitor (worker_main.py); for a task it starts a LeaseGuard,      *)
(* which renews the lease every Interval and gives up when nothing was     *)
(* answered for Grace (lease.py).  The app forgets the lease Lease seconds *)
(* after it was last renewed (tasks/repository.go).                        *)
(*                                                                         *)
(* One unit of time is a second, all clocks run at the same rate, and a    *)
(* thread that is due goes on within the second.  A call is handled at     *)
(* some moment after it is made, or not at all; it is answered within      *)
(* Latency, or it fails, at any moment until Timeout.  How the outcome of  *)
(* work is reported takes any time and is left to Workers.  Work means     *)
(* commands and loops that look at the guard every half second, or as often *)
(* as StopTime says: inspecting a video, moving results and zipping a      *)
(* dataset do not look at it at all.                                       *)
(***************************************************************************)
EXTENDS Integers

CONSTANTS Interval,    \* WORKER_HEARTBEAT_SECONDS: guard and main thread report this often
          Timeout,     \* ControlPlane.timeout: a call fails after this long
          Latency,     \* the slowest answer that still arrives
          Grace,       \* LeaseGuard.network_grace
          Lease,       \* TASK_LEASE_SECONDS
          StopTime,    \* from the guard's event until a command has ended
          Poll,        \* WORKER_POLL_SECONDS
          OnlineFor,   \* the monitor's window, worker_status.go:38
          HealthyFor   \* the container's health check, compose.yaml:52

ASSUME ClockAssumption ==
  /\ Interval \in Nat \ {0} /\ Timeout \in Nat \ {0} /\ Poll \in Nat \ {0}
  /\ Latency \in Nat /\ Latency <= Timeout
  /\ Grace \in Nat /\ Lease \in Nat /\ StopTime \in Nat
  /\ OnlineFor \in Nat /\ Interval <= OnlineFor /\ HealthyFor \in Nat

VARIABLES
  healthy,   \* what preflight found when the process started
  main,      \* main thread: where it is, since when, what its call met in the app
  guard,     \* guard thread: the same
  held,      \* time since the app last set the deadline of the worker's lease
  taken,     \* another worker has claimed the task, or a sweep has ended it
  silence,   \* time since the guard's _last_success
  misses,    \* history: heartbeats of the guard that failed in a row (2 for more)
  late,      \* a heartbeat its guard has given up is still under way
  due,       \* time since last_worker_heartbeat
  seen,      \* time since the monitor's LastSeen
  touched,   \* age of the health file
  clear      \* history: no call of the main thread has failed since it was last seen

vars == <<healthy, main, guard, held, taken, silence, misses, late, due, seen, touched, clear>>
leaseVars == <<held, taken, silence, misses, late>>
statusVars == <<due, seen, touched, clear>>

Idle   == {"reporting", "polling", "sleeping"}
AtTask == {"announcing", "accepting", "working"}
Reporting == {"reporting", "announcing", "resuming"}  \* a call of worker_heartbeat

\* A call of a thread, with what the app made of it so far.
Unheard == "no"
Thread(at) == [at |-> at, age |-> 0, heard |-> Unheard]

\* Where clocks stop that are only compared with these.
UpTo(limit, n) == IF n < limit THEN n ELSE limit

TypeOK ==
  /\ healthy \in BOOLEAN
  /\ main \in [at    : {"down", "top", "concluding", "resuming"} \cup Idle \cup AtTask,
               age   : Nat,
               heard : {Unheard, "ok", "task", "none", "stop"}]
  /\ guard \in [at    : {"off", "waiting", "asking", "stopping"},
                age   : Nat,
                heard : {Unheard, "ok", "stop"}]
  /\ held \in Nat /\ silence \in Nat /\ misses \in 0 .. 2
  /\ taken \in BOOLEAN /\ late \in BOOLEAN /\ clear \in BOOLEAN
  /\ due \in 0 .. OnlineFor /\ seen \in 0 .. OnlineFor /\ touched \in 0 .. HealthyFor

NoLease == held = 0 /\ taken = FALSE /\ silence = 0 /\ misses = 0 /\ late = FALSE

\* Nothing runs yet; the monitor knows nothing and there is no health file.
Init == /\ healthy = FALSE
        /\ main = Thread("down") /\ guard = Thread("off")
        /\ NoLease
        /\ due = OnlineFor /\ seen = OnlineFor /\ touched = HealthyFor /\ clear = FALSE

----------------------------------------------------------------------------
(* The app. *)

\* LastSeen of WorkerMonitor.Update.
HandleReport ==
  /\ main.at \in Reporting /\ main.heard = Unheard
  /\ main' = [main EXCEPT !.heard = "ok"]
  /\ seen' = 0 /\ clear' = TRUE
  /\ UNCHANGED <<healthy, guard, leaseVars, due, touched>>

\* Claim of a task, or of none; the lease starts.
HandlePoll ==
  /\ main.at = "polling" /\ main.heard = Unheard
  /\ \E found \in {"task", "none"} : main' = [main EXCEPT !.heard = found]
  /\ held' = 0
  /\ UNCHANGED <<healthy, guard, taken, silence, misses, late, statusVars>>

\* The service's TaskHeartbeat: 409, or a new deadline and perhaps the word
\* that the user has cancelled.
Judged == IF taken THEN {"stop"} ELSE {"ok", "stop"}

MutRenewed == held
Renewed == IF taken THEN held ELSE 0

HandleAccept ==
  /\ main.at = "accepting" /\ main.heard = Unheard
  /\ \E answer \in Judged : main' = [main EXCEPT !.heard = answer]
  /\ held' = Renewed
  /\ UNCHANGED <<healthy, guard, taken, silence, misses, late, statusVars>>

HandleBeat ==
  /\ guard.at = "asking" /\ guard.heard = Unheard
  /\ \E answer \in Judged : guard' = [guard EXCEPT !.heard = answer]
  /\ held' = Renewed
  /\ UNCHANGED <<healthy, main, taken, silence, misses, late, statusVars>>

HandleLateBeat ==
  /\ late /\ late' \in BOOLEAN /\ held' = Renewed
  /\ UNCHANGED <<healthy, main, guard, taken, silence, misses, statusVars>>

\* Claim hands the task to somebody else: now.After(LeaseUntil).
TakeAway ==
  /\ main.at \in AtTask /\ ~taken /\ held > Lease
  /\ taken' = TRUE
  /\ UNCHANGED <<healthy, main, guard, held, silence, misses, late, statusVars>>

\* The monitor lives in the app's memory.
RestartApp ==
  /\ seen' = OnlineFor /\ clear' = FALSE
  /\ UNCHANGED <<healthy, main, guard, leaseVars, due, touched>>

----------------------------------------------------------------------------
(* The main thread. *)

Forget == held' = 0 /\ taken' = FALSE /\ silence' = 0 /\ misses' = 0 /\ late' = FALSE

\* The container starts the process, which finds out whether the GPU works.
Boot ==
  /\ main.at = "down" /\ main' = Thread("top")
  /\ healthy' \in BOOLEAN
  /\ UNCHANGED <<guard, leaseVars, statusVars>>

\* The process dies; the health file stays behind.
Crash ==
  /\ main' = Thread("down") /\ guard' = Thread("off") /\ Forget
  /\ due' = OnlineFor /\ clear' = FALSE
  /\ UNCHANGED <<healthy, seen, touched>>

\* Where a pass goes on when the report is made, or not due.
AfterReport == Thread(IF healthy THEN "polling" ELSE "sleeping")

MutIsDue == due >= OnlineFor
IsDue == due >= Interval

MutTop ==
  /\ main.at = "top"
  /\ main' = IF IsDue THEN Thread("reporting") ELSE AfterReport
  /\ touched' = IF IsDue THEN touched ELSE 0
  /\ UNCHANGED <<healthy, guard, leaseVars, due, seen, clear>>
Top ==
  /\ main.at = "top"
  /\ main' = IF IsDue THEN Thread("reporting") ELSE AfterReport
  /\ touched' = 0
  /\ UNCHANGED <<healthy, guard, leaseVars, due, seen, clear>>

\* TaskRunner.run follows the announcement and starts the guard.
EndReport ==
  /\ main' = CASE main.at = "reporting"  -> AfterReport
               [] main.at = "announcing" -> Thread("accepting")
               [] main.at = "resuming"   -> Thread("top")
  /\ guard' = IF main.at = "announcing" THEN Thread("waiting") ELSE guard

\* last_worker_heartbeat is the moment before the call, or after the task.
MutReportAnswered ==
  /\ main.at \in Reporting /\ main.heard = "ok" /\ main.age <= Latency
  /\ EndReport
  /\ due' = IF main.at = "announcing" THEN due ELSE main.age - Interval
  /\ UNCHANGED <<healthy, leaseVars, seen, touched, clear>>
ReportAnswered ==
  /\ main.at \in Reporting /\ main.heard = "ok" /\ main.age <= Latency
  /\ EndReport
  /\ due' = CASE main.at = "reporting"  -> UpTo(OnlineFor, main.age)
              [] main.at = "announcing" -> due
              [] main.at = "resuming"   -> 0
  /\ UNCHANGED <<healthy, leaseVars, seen, touched, clear>>

ReportFails ==
  /\ main.at \in Reporting
  /\ EndReport
  /\ clear' = FALSE
  /\ UNCHANGED <<healthy, leaseVars, due, seen, touched>>

PollAnswered ==
  /\ main.at = "polling" /\ main.heard # Unheard /\ main.age <= Latency
  /\ main' = Thread(IF main.heard = "task" THEN "announcing" ELSE "sleeping")
  /\ UNCHANGED <<healthy, guard, leaseVars, statusVars>>

\* A task that the app has handed out all the same waits for its lease to end.
PollFails ==
  /\ main.at = "polling"
  /\ main' = Thread("sleeping") /\ Forget
  /\ clear' = FALSE
  /\ UNCHANGED <<healthy, guard, due, seen, touched>>

\* time.sleep: poll_seconds, or min(max(poll_seconds, 2), 10) without a GPU.
Nap == IF healthy \/ Poll \in 2 .. 10 THEN Poll ELSE IF Poll < 2 THEN 2 ELSE 10

WakeUp ==
  /\ main.at = "sleeping" /\ main.age = Nap
  /\ main' = Thread("top")
  /\ UNCHANGED <<healthy, guard, leaseVars, statusVars>>

AcceptAnswered ==
  /\ main.at = "accepting" /\ main.heard # Unheard /\ main.age <= Latency
  /\ main' = Thread(IF main.heard = "ok" THEN "working" ELSE "concluding")
  /\ UNCHANGED <<healthy, guard, leaseVars, statusVars>>

AcceptFails ==
  /\ main.at = "accepting"
  /\ main' = Thread("concluding")
  /\ UNCHANGED <<healthy, guard, leaseVars, statusVars>>

\* Done, broken, or stopped by guard.check().
EndWork ==
  /\ main.at = "working"
  /\ main' = Thread("concluding")
  /\ UNCHANGED <<healthy, guard, leaseVars, statusVars>>

\* The outcome is reported and the guard closed.
Conclude ==
  /\ main.at = "concluding"
  /\ main' = Thread("resuming") /\ guard' = Thread("off") /\ Forget
  /\ UNCHANGED <<healthy, statusVars>>

----------------------------------------------------------------------------
(* The guard thread. *)

GuardAsks ==
  /\ guard.at = "waiting" /\ guard.age = Interval
  /\ guard' = Thread("asking")
  /\ UNCHANGED <<healthy, main, leaseVars, statusVars>>

BeatAnswered ==
  /\ guard.at = "asking" /\ guard.heard # Unheard /\ guard.age <= Latency
  /\ IF guard.heard = "ok"
       THEN guard' = Thread("waiting") /\ silence' = 0 /\ misses' = 0
       ELSE guard' = Thread("stopping") /\ UNCHANGED <<silence, misses>>
  /\ UNCHANGED <<healthy, main, held, taken, late, statusVars>>

MutGivesUp == guard.age > Grace
GivesUp == silence > Grace

BeatFails ==
  /\ guard.at = "asking"
  /\ guard' = Thread(IF GivesUp THEN "stopping" ELSE "waiting")
  /\ misses' = UpTo(2, misses + 1)
  /\ \/ UNCHANGED late
     \/ guard.heard = Unheard /\ late' = TRUE
  /\ UNCHANGED <<healthy, main, held, taken, silence, statusVars>>

----------------------------------------------------------------------------

\* Nobody lets a second pass who is due in this one.
MainMayWait ==
  CASE main.at \in Reporting \cup {"polling", "accepting"} -> main.age < Timeout
    [] main.at = "sleeping" -> main.age < Nap
    [] main.at = "top"      -> FALSE
    [] main.at = "working"  -> guard.at = "stopping" => guard.age < StopTime
    [] OTHER                -> TRUE

GuardMayWait ==
  CASE main.at = "concluding" -> TRUE
    [] guard.at = "waiting"   -> guard.age < Interval
    [] guard.at = "asking"    -> guard.age < Timeout
    [] OTHER                  -> TRUE

\* The threads whose age matters, and the clocks that run.
MainTicks  == main.at \in Reporting \cup {"polling", "accepting", "sleeping"}
GuardTicks == main.at \in AtTask /\ guard.at # "off"
Held       == main.at \in AtTask \/ (main.at = "polling" /\ main.heard = "task")

Tick ==
  /\ MainMayWait /\ GuardMayWait
  /\ main'  = IF MainTicks THEN [main EXCEPT !.age = @ + 1] ELSE main
  /\ guard' = IF GuardTicks THEN [guard EXCEPT !.age = @ + 1] ELSE guard
  /\ held'  = IF Held THEN held + 1 ELSE held
  /\ silence' = IF GuardTicks /\ guard.at # "stopping" THEN silence + 1 ELSE silence
  /\ due' = UpTo(OnlineFor, due + 1)
  /\ seen' = UpTo(OnlineFor, seen + 1)
  /\ touched' = UpTo(HealthyFor, touched + 1)
  /\ UNCHANGED <<healthy, taken, misses, late, clear>>

Next ==
  \/ Tick
  \/ HandleReport \/ HandlePoll \/ HandleAccept \/ HandleBeat \/ HandleLateBeat
  \/ TakeAway \/ RestartApp
  \/ Boot \/ Crash \/ Top \/ ReportAnswered \/ ReportFails
  \/ PollAnswered \/ PollFails \/ WakeUp
  \/ AcceptAnswered \/ AcceptFails \/ EndWork \/ Conclude
  \/ GuardAsks \/ BeatAnswered \/ BeatFails

Spec == Init /\ [][Next]_vars

----------------------------------------------------------------------------
(* Properties. *)

\* However the network behaves, the commands of a task end within a bounded time
\* after its lease was last renewed: the guard notices silence only after a
\* heartbeat that may itself block (lease.py:78), and the commands take time
\* to die.  What exceeds Lease is the time two workers may be at one task.
OverlapIsBounded ==
  main.at = "working" => held <= Latency + Grace + Interval + Timeout + StopTime

\* A single heartbeat that is lost costs nothing: until the guard has missed
\* two in a row, the lease of a worker that works has not run out.
OneMissIsNoLoss ==
  Lease >= Latency + 2 * (Interval + Timeout) =>
    (main.at = "working" /\ guard.at \in {"waiting", "asking"} /\ misses <= 1
       => held <= Lease /\ ~taken)

\* The app has answered the main thread since it was last seen, and if a call
\* is under way its answer may still arrive.
Answered == clear /\ (main.at = "sleeping" \/ main.age <= Latency)

\* A worker between tasks whose calls are answered is always shown as online,
\* although it reports itself only when a pass of its loop begins
\* (worker_main.py:46, worker_status.go:38).
IdleWorkerIsOnline ==
  3 * Latency + Interval + (IF Poll < 2 THEN 2 ELSE Poll) < OnlineFor =>
    (main.at \in Idle /\ Answered => seen < OnlineFor)

\* A worker between tasks never fails the container's health check, even if
\* the app is out of reach and every call runs into its timeout
\* (worker_main.py:44, compose.yaml:52).
IdleWorkerIsHealthy ==
  2 * Timeout + (IF Poll < 2 THEN 2 ELSE Poll) < HealthyFor =>
    (main.at \in Idle => touched < HealthyFor)

\* "The worker aborts if ... the control plane is unreachable for long enough
\* that a second worker may legitimately reclaim the task" (lease.py:19-21):
\* nobody works at a task that has been taken away.
OneAtWork == ~(main.at = "working" /\ taken)
=============================================================================
