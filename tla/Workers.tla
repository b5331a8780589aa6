------------------------------ MODULE Workers ------------------------------
(***************************************************************************)
(* The whole program: the control plane of JobService with the worker      *)
(* processes of worker/prodsplat and the HTTP connection between them.     *)
(* A worker has two threads.  The main one polls, runs a task and reports  *)
(* (worker_main.py, runner.py); the guard renews the lease and notices     *)
(* cancellation and loss (lease.py).  Both call the handlers of            *)
(* api/handler.go.  A call is answered, or leaves its caller with an       *)
(* exception although the handler ran, or without the handler running, or  *)
(* the handler runs later, when the caller has long given up.  Reading an  *)
(* answer is local to the caller, so handler and answer are one step.      *)
(*                                                                         *)
(* A worker that restarts comes back under its old identity (WORKER_ID);   *)
(* one that comes back under a new random identity is one worker that      *)
(* stays away and another that starts to poll.                             *)
(***************************************************************************)
EXTENDS JobService

CONSTANTS Grace,    \* bound: calls the guard may miss in a row (30 s without an answer)
          MaxLate   \* bound: calls under way whose caller has given up

ASSUME WorkersAssumption == Grace \in Nat \ {0} /\ MaxLate \in Nat

VARIABLES worker,   \* worker[w]: where the process w is
          late,     \* calls that the control plane may still handle
          ended     \* history: how the work itself ended, by task and worker

system == <<jobs, tasks, worker, late, ended>>

Calls == {"claim", "heartbeat", "complete", "fail", "cancelled"}

LateCall == [op : Calls, task : TaskIds \cup {NoTask}, worker : WorkerIds]

Ending == [task : TaskIds, worker : WorkerIds, how : {"done", "broken"}]

Worker == [pc     : {"idle", "accepting", "working", "finishing", "failing", "acking"},
           task   : TaskIds \cup {NoTask},
           guard  : {"off", "beating", "cancel", "lost"},  \* running, or the event it set
           misses : 0 .. Grace]

Idling == [pc |-> "idle", task |-> NoTask, guard |-> "off", misses |-> 0]

Accepting(t) == [pc |-> "accepting", task |-> t, guard |-> "beating", misses |-> 0]

WorkersTypeOK == /\ TypeOK
                 /\ worker \in [WorkerIds -> Worker]
                 /\ late \in SUBSET LateCall
                 /\ ended \in SUBSET Ending

SystemInit == /\ Init
              /\ worker = [w \in WorkerIds |-> Idling]
              /\ late = {} /\ ended = {}

----------------------------------------------------------------------------
(* The connection. *)

\* The handler of a call for task t: the service's method, or 409 "lease lost".
Handled(op, t, w, saved) ==
  IF t \in DOMAIN tasks /\ HoldsLease(t, w)
    THEN \/ op = "heartbeat" /\ TaskHeartbeat(t, w)
         \/ op = "complete"  /\ CompleteTask(t, w, saved)
         \/ op = "fail"      /\ FailTask(t, w, saved)
         \/ op = "cancelled" /\ CancelTask(t, w, saved)
    ELSE UNCHANGED vars

\* What an answered heartbeat tells its caller.
CancelAsked(t) == jobs[tasks[t].job].cancel \/ tasks[t].cancel

Answer(t, w) ==
  CASE ~(t \in DOMAIN tasks /\ HoldsLease(t, w)) -> "lost"
    [] t \in DOMAIN tasks /\ HoldsLease(t, w) /\ CancelAsked(t) -> "cancel"
    [] OTHER -> "ok"

\* The call arrives only after its caller has given up.
Delayed(op, t, w) ==
  /\ Cardinality(late) < MaxLate
  /\ late' = late \cup {[op |-> op, task |-> t, worker |-> w]}
  /\ UNCHANGED vars

\* The two ways a call for a task ends for its caller: with an answer, or
\* with an exception, whatever the control plane did.
Heard(op, t, w) == Handled(op, t, w, TRUE) /\ UNCHANGED late

Unheard(op, t, w) ==
  \/ \E saved \in Saves : Handled(op, t, w, saved) /\ UNCHANGED late
  \/ UNCHANGED <<jobs, tasks, late>>
  \/ Delayed(op, t, w)

\* A call whose caller has given up is handled, or lost after all.
LateCallEnds(call) ==
  /\ call \in late /\ late' = late \ {call}
  /\ \/ call.op = "claim" /\ ClaimTask(call.worker)
     \/ call.op # "claim" /\ \E saved \in Saves : Handled(call.op, call.task, call.worker, saved)
     \/ UNCHANGED vars
  /\ UNCHANGED <<worker, ended>>

----------------------------------------------------------------------------
(* The worker's main thread. *)

\* What the step delivers: the task whose deliveries it counts up.
Delivered == {t \in DOMAIN tasks : tasks'[t].count # tasks[t].count}

PollAnswered(w) ==
  /\ worker[w].pc = "idle"
  /\ ClaimTask(w)
  /\ \/ Delivered = {} /\ UNCHANGED worker
     \/ \E t \in Delivered : worker' = [worker EXCEPT ![w] = Accepting(t)]
  /\ UNCHANGED <<late, ended>>

PollUnanswered(w) ==
  /\ worker[w].pc = "idle"
  /\ \/ ClaimTask(w) /\ UNCHANGED late
     \/ Delayed("claim", NoTask, w)
  /\ UNCHANGED <<worker, ended>>

\* TaskRunner.run begins with a heartbeat of its own.  No answer to it counts
\* as a failure of the task.
Accept(w) ==
  LET t == worker[w].task IN
  /\ worker[w].pc = "accepting"
  /\ \/ /\ Heard("heartbeat", t, w)
        /\ worker' = [worker EXCEPT ![w] =
             CASE Answer(t, w) = "ok"     -> [@ EXCEPT !.pc = "working"]
               [] Answer(t, w) = "cancel" -> [@ EXCEPT !.pc = "acking"]
               [] Answer(t, w) = "lost"   -> Idling]
     \/ /\ Unheard("heartbeat", t, w)
        /\ worker' = [worker EXCEPT ![w].pc = "failing"]
  /\ UNCHANGED ended

\* The work is done, and the last guard.check() finds no event.
WorkSucceeds(w) ==
  /\ worker[w].pc = "working" /\ worker[w].guard = "beating"
  /\ worker' = [worker EXCEPT ![w].pc = "finishing"]
  /\ ended' = ended \cup {[task |-> worker[w].task, worker |-> w, how |-> "done"]}
  /\ UNCHANGED <<jobs, tasks, late>>

\* A command fails; its exit code is looked at before the guard's events.
WorkFails(w) ==
  /\ worker[w].pc = "working"
  /\ worker' = [worker EXCEPT ![w].pc = "failing"]
  /\ ended' = ended \cup {[task |-> worker[w].task, worker |-> w, how |-> "broken"]}
  /\ UNCHANGED <<jobs, tasks, late>>

\* guard.check() between and during the commands; their process group dies.
MutStopWork(w) ==
  /\ worker[w].pc = "working" /\ worker[w].guard = "lost"
  /\ worker' = [worker EXCEPT ![w] = Idling]
  /\ UNCHANGED <<jobs, tasks, late, ended>>
StopWork(w) ==
  /\ worker[w].pc = "working"
  /\ \/ worker[w].guard = "cancel" /\ worker' = [worker EXCEPT ![w].pc = "acking"]
     \/ worker[w].guard = "lost"   /\ worker' = [worker EXCEPT ![w] = Idling]
  /\ UNCHANGED <<jobs, tasks, late, ended>>

\* complete(): no answer counts as a failure of the task, too.
ReportSuccess(w) ==
  LET t == worker[w].task IN
  /\ worker[w].pc = "finishing"
  /\ \/ Heard("complete", t, w) /\ worker' = [worker EXCEPT ![w] = Idling]
     \/ Unheard("complete", t, w) /\ worker' = [worker EXCEPT ![w].pc = "failing"]
  /\ UNCHANGED ended

\* fail() and cancelled() are tried once; run() ends and closes the guard.
ReportStop(w) ==
  LET t == worker[w].task IN
  /\ \/ /\ worker[w].pc = "failing"
        /\ Heard("fail", t, w) \/ Unheard("fail", t, w)
     \/ /\ worker[w].pc = "acking"
        /\ Heard("cancelled", t, w) \/ Unheard("cancelled", t, w)
  /\ worker' = [worker EXCEPT ![w] = Idling]
  /\ UNCHANGED ended

\* The process dies, at work or not, and is started again.
CrashWorker(w) ==
  /\ worker[w].pc # "idle"
  /\ worker' = [worker EXCEPT ![w] = Idling]
  /\ UNCHANGED <<jobs, tasks, late, ended>>

----------------------------------------------------------------------------
(* The worker's guard thread, LeaseGuard._loop: it ends with its first event. *)

\* No answer for the grace period sets the event; how many calls that takes
\* depends on how long each one waits.
Missed(w, g) ==
  LET n == worker[w].misses + 1 IN
  \/ n < Grace /\ g = [worker[w] EXCEPT !.misses = n]
  \/ g = [worker[w] EXCEPT !.guard = "lost", !.misses = 0]

GuardBeats(w) ==
  LET t == worker[w].task IN
  /\ worker[w].guard = "beating"
  /\ \/ /\ Heard("heartbeat", t, w)
        /\ worker' = [worker EXCEPT ![w].misses = 0,
             ![w].guard = IF Answer(t, w) = "ok" THEN @ ELSE Answer(t, w)]
     \/ /\ Unheard("heartbeat", t, w)
        /\ \E g \in Worker : Missed(w, g) /\ worker' = [worker EXCEPT ![w] = g]
  /\ UNCHANGED ended

----------------------------------------------------------------------------

WorkerStep(w) ==
  \/ PollAnswered(w) \/ PollUnanswered(w)
  \/ Accept(w) \/ WorkSucceeds(w) \/ WorkFails(w) \/ StopWork(w)
  \/ ReportSuccess(w) \/ ReportStop(w)
  \/ GuardBeats(w) \/ CrashWorker(w)

ControlPlaneStep == (UserNext \/ TimerNext) /\ UNCHANGED <<worker, late, ended>>

SystemNext == \/ ControlPlaneStep
              \/ \E w \in WorkerIds : WorkerStep(w)
              \/ \E call \in LateCall : LateCallEnds(call)

System == SystemInit /\ [][SystemNext]_system

\* Nobody keeps the lease of t alive.
Abandoned(t) == \A w \in WorkerIds : worker[w].task = t => worker[w].guard # "beating"

\* A worker that is alive goes on, but nothing says that work ever ends.  Of
\* the polls of an idle worker some get through.  An abandoned lease runs out.
SystemFairness ==
  /\ \A w \in WorkerIds :
       /\ WF_system(PollAnswered(w))
       /\ WF_system(Accept(w))
       /\ WF_system(StopWork(w))
       /\ WF_system(ReportSuccess(w))
       /\ WF_system(ReportStop(w))
       /\ WF_system(GuardBeats(w))
  /\ \A t \in TaskIds :
       WF_system(Abandoned(t) /\ LeaseExpires(t) /\ UNCHANGED <<jobs, worker, late, ended>>)

FairSystem == System /\ SystemFairness

----------------------------------------------------------------------------
(* Properties. *)

\* The work of a task that succeeded was done to its end by the worker that
\* owns it: no lost, late or repeated call of another worker concludes it
\* (the owner test of tasks/repository.go:209).
SuccessIsEarned ==
  \A t \in DOMAIN tasks : tasks[t].state = "SUCCEEDED" =>
    [task |-> t, worker |-> tasks[t].owner, how |-> "done"] \in ended

\* A worker stops a task for the user only if the user asked to cancel that
\* very task: the flag of the job, which a heartbeat also reports, never
\* outlives the task it was meant for (jobs/service.go:437).
OnlyCancelledByUser ==
  /\ \A w \in WorkerIds : worker[w].guard = "cancel" \/ worker[w].pc = "acking" =>
       tasks[worker[w].task].cancel
  /\ \A t \in DOMAIN tasks : tasks[t].state = "CANCELLED" => tasks[t].cancel

\* "user cancellation reaches a running GPU subprocess": a worker at a
\* cancelled task leaves it, even if the work would go on for ever.
StopsWhenCancelled ==
  \A w \in WorkerIds, t \in TaskIds :
    (worker[w].task = t /\ tasks[t].cancel) ~> (worker[w].task # t)

\* If no work goes on for ever, every task gets an outcome, whatever is lost.
WorkEnds == \A w \in WorkerIds : []<>(worker[w].pc # "working")
EveryTaskEnds == WorkEnds => \A t \in TaskIds : (t \in DOMAIN tasks) ~> (t \in DOMAIN tasks /\ Over(t))

\* "tasks survive app and worker restarts": a task fails only because its work
\* did, or because its deliveries are used up (README.md:84).
SurvivesRestarts ==
  \A t \in DOMAIN tasks : tasks[t].state = "FAILED" =>
    \/ tasks[t].count = MaxAttempts
    \/ \E w \in WorkerIds : [task |-> t, worker |-> w, how |-> "broken"] \in ended
=============================================================================
