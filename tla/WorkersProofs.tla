---------------------------- MODULE WorkersProofs ----------------------------
(***************************************************************************)
(* Theorems about the whole program, for every value of the constants,     *)
(* with and without faults, however many calls are lost or late: workers   *)
(* reach the control plane through its methods only, so every theorem of   *)
(* JobServiceProofs and JobHistoryProofs holds of the whole; a success is  *)
(* always earned; and, without faults, only the user cancels.              *)
(***************************************************************************)
EXTENDS Workers, JobHistoryProofs

----------------------------------------------------------------------------
(* The whole program implements the control plane's specification. *)

\* What the handler of any call does is a step of the control plane, or none.
LEMMA HandledIsServiceStep ==
  ASSUME Inv, NEW op, NEW t, NEW w \in WorkerIds, NEW saved \in Saves, Handled(op, t, w, saved)
  PROVE  [Next]_vars
<1>1. CASE t \in DOMAIN tasks /\ HoldsLease(t, w)
  <2>1. t \in TaskIds
    BY <1>1 DEF Inv, IInv
  <2>2. \/ TaskHeartbeat(t, w) \/ CompleteTask(t, w, saved)
        \/ FailTask(t, w, saved) \/ CancelTask(t, w, saved)
    BY <1>1 DEF Handled
  <2> QED
    BY <2>1, <2>2 DEF WorkerNext, Next
<1>2. CASE ~(t \in DOMAIN tasks /\ HoldsLease(t, w))
  BY <1>2, Zenon DEF Handled
<1> QED
  BY <1>1, <1>2

LEMMA TrueIsASave == TRUE \in Saves
BY DEF Saves

\* A call, heard or not, is one of those.
LEMMA CallIsServiceStep ==
  ASSUME Inv, NEW op, NEW t, NEW w \in WorkerIds, Heard(op, t, w) \/ Unheard(op, t, w)
  PROVE  [Next]_vars
<1>1. CASE Heard(op, t, w)
  BY <1>1, TrueIsASave, HandledIsServiceStep DEF Heard
<1>2. CASE Unheard(op, t, w)
  <2>1. CASE \E saved \in Saves : Handled(op, t, w, saved)
    BY <2>1, HandledIsServiceStep
  <2>2. CASE UNCHANGED vars
    BY <2>2
  <2> QED
    BY <1>2, <2>1, <2>2 DEF Unheard, Delayed, vars
<1> QED
  BY <1>1, <1>2

LEMMA WorkerIsServiceStep ==
  ASSUME Inv, NEW w \in WorkerIds, WorkerStep(w)
  PROVE  [Next]_vars
<1>1. CASE PollAnswered(w) \/ PollUnanswered(w)
  <2>1. ClaimTask(w) \/ UNCHANGED vars
    BY <1>1 DEF PollAnswered, PollUnanswered, Delayed
  <2> QED
    BY <2>1 DEF WorkerNext, Next
<1>2. CASE Accept(w)
  BY <1>2, CallIsServiceStep, Zenon DEF Accept
<1>3. CASE ReportSuccess(w)
  BY <1>3, CallIsServiceStep, Zenon DEF ReportSuccess
<1>4. CASE ReportStop(w)
  BY <1>4, CallIsServiceStep, Zenon DEF ReportStop
<1>5. CASE GuardBeats(w)
  BY <1>5, CallIsServiceStep, Zenon DEF GuardBeats
<1>6. CASE WorkSucceeds(w) \/ WorkFails(w) \/ StopWork(w) \/ CrashWorker(w)
  BY <1>6 DEF WorkSucceeds, WorkFails, StopWork, CrashWorker, vars
<1> QED
  BY <1>1, <1>2, <1>3, <1>4, <1>5, <1>6 DEF WorkerStep

LEMMA SystemStepIsServiceStep == Inv /\ [SystemNext]_system => [Next]_vars
<1> SUFFICES ASSUME Inv, [SystemNext]_system PROVE [Next]_vars
  OBVIOUS
<1>1. CASE ControlPlaneStep
  BY <1>1 DEF ControlPlaneStep, Next
<1>2. CASE \E w \in WorkerIds : WorkerStep(w)
  BY <1>2, WorkerIsServiceStep
<1>3. ASSUME NEW call \in LateCall, LateCallEnds(call) PROVE [Next]_vars
  <2>1. call.worker \in WorkerIds
    BY DEF LateCall
  <2>2. \/ ClaimTask(call.worker)
        \/ \E saved \in Saves : Handled(call.op, call.task, call.worker, saved)
        \/ UNCHANGED vars
    BY <1>3 DEF LateCallEnds
  <2>3. ASSUME ClaimTask(call.worker) PROVE [Next]_vars
    BY <2>1, <2>3 DEF WorkerNext, Next
  <2>4. ASSUME NEW saved \in Saves, Handled(call.op, call.task, call.worker, saved)
        PROVE  [Next]_vars
    BY <2>1, <2>4, HandledIsServiceStep
  <2> QED
    BY <2>2, <2>3, <2>4
<1>4. CASE UNCHANGED system
  BY <1>4 DEF system, vars
<1> QED
  BY <1>1, <1>2, <1>3, <1>4 DEF SystemNext

\* The invariant of the control plane holds of the whole program.
THEOREM SystemInvariant == System => []Inv
<1>1. SystemInit => Inv
  BY InitInv DEF SystemInit
<1>2. Inv /\ [SystemNext]_system => Inv'
  BY SystemStepIsServiceStep, StepInv
<1> QED
  BY <1>1, <1>2, PTL DEF System

\* Workers, their threads and a lossy connection do nothing to the job and
\* task files that the control plane on its own could not do.
THEOREM SystemImplementsService == System => Spec
<1>1. SystemInit => Init
  BY DEF SystemInit
<1>2. Inv /\ [SystemNext]_system => [Next]_vars
  BY SystemStepIsServiceStep
<1> QED
  BY <1>1, <1>2, SystemInvariant, PTL DEF System, Spec

\* So no task of the running program is ever delivered more than MaxAttempts
\* times, and each keeps the contract of one task.
THEOREM SystemImplementsLifecycle == System => ImplementsLifecycle
BY SystemImplementsService, ServiceImplementsLifecycle, PTL

----------------------------------------------------------------------------
(* A success is earned.  The argument follows the worker: it reports a      *)
(* success only after the work is done (WorkerOK), the calls that are late  *)
(* say nothing else (CallOK), and only such a report makes a task succeed,  *)
(* as the success of the worker that owns it.                               *)

Done(t, w) == [task |-> t, worker |-> w, how |-> "done"]

WorkerOK(w, r, E) ==
  /\ r \in Worker
  /\ r.pc # "idle" => r.task \in TaskIds
  /\ r.pc = "finishing" => Done(r.task, w) \in E

CallOK(call, E) ==
  call \in LateCall /\ (call.op = "complete" => Done(call.task, call.worker) \in E)

\* The inductive invariant of the workers and the calls under way.
EInv == /\ worker \in [WorkerIds -> Worker]
        /\ \A w \in WorkerIds : WorkerOK(w, worker[w], ended)
        /\ \A call \in late : CallOK(call, ended)
        /\ ended \in SUBSET Ending
        /\ SuccessIsEarned

\* No task succeeds in this step.
NoNewSuccess ==
  \A t \in DOMAIN tasks' : tasks'[t].state = "SUCCEEDED" =>
    t \in DOMAIN tasks /\ tasks[t].state = "SUCCEEDED" /\ tasks'[t].owner = tasks[t].owner

LEMMA NoNewSuccessKeeps ==
  ASSUME SuccessIsEarned, NoNewSuccess, ended \subseteq ended'
  PROVE  SuccessIsEarned'
BY DEF SuccessIsEarned, NoNewSuccess

LEMMA UnchangedNoNewSuccess == ASSUME UNCHANGED tasks PROVE NoNewSuccess
BY DEF NoNewSuccess

LEMMA UserNoNewSuccess == ASSUME Inv, UserNext PROVE NoNewSuccess
<1>1. ASSUME NEW t \in TaskIds, NEW j, NEW n, NEW type, Create(t, j, n, type) PROVE NoNewSuccess
  BY <1>1 DEF Create, Fresh, NewTask, NoNewSuccess
<1>2. ASSUME NEW j, NEW stopped, CancelByJob(j, stopped) PROVE NoNewSuccess
  <2>1. ASSUME NEW t \in DOMAIN tasks
        PROVE  /\ StoppedTask(t).owner = tasks[t].owner
               /\ StoppedTask(t).state = "SUCCEEDED" => tasks[t].state = "SUCCEEDED"
    <3>1. tasks[t] \in Task
      BY DEF Inv, IInv, RowOK
    <3> QED
      BY <3>1 DEF StoppedTask, Task
  <2> QED
    BY <1>2, <2>1 DEF CancelByJob, NoNewSuccess
<1>3. \/ UNCHANGED tasks
      \/ \E t \in TaskIds, j \in JobIds : \E n, type : Create(t, j, n, type)
      \/ \E j \in JobIds : \E stopped : CancelByJob(j, stopped)
  BY Zenon DEF UserNext, CreateJob, AddVideo, AddExistingPLY, ActivateAttempt, SaveCleaned, StartRender,
         SetBackgroundDir, StartDataset, Cancel
<1> QED
  BY <1>1, <1>2, <1>3, UnchangedNoNewSuccess

LEMMA TimerNoNewSuccess == ASSUME Inv, TimerNext PROVE NoNewSuccess
<1>1. ASSUME NEW t \in TaskIds, LeaseExpires(t) PROVE NoNewSuccess
  BY <1>1 DEF LeaseExpires, NoNewSuccess, Inv, IInv, RowOK, Task
<1> QED
  BY <1>1, UnchangedNoNewSuccess DEF TimerNext, TimePasses, ReconcileUpTo

\* A poll finishes tasks, but none with success.
LEMMA SweepNoNewSuccess ==
  ASSUME Inv, NEW lost, NEW t \in DOMAIN tasks
  PROVE  LET new == AfterSweep(lost)[t] IN
           new.owner = tasks[t].owner /\ (new.state = "SUCCEEDED" => tasks[t].state = "SUCCEEDED")
<1>1. tasks[t] \in Task
  BY DEF Inv, IInv, RowOK
<1>2. /\ SweptTask(t).owner = tasks[t].owner
      /\ SweptTask(t).state \in {"CANCELLED", "FAILED"}
  BY <1>1 DEF SweptTask, Task
<1> QED
  BY <1>2 DEF AfterSweep

LEMMA ClaimNoNewSuccess == ASSUME Inv, NEW w \in WorkerIds, ClaimTask(w) PROVE NoNewSuccess
<1>1. ASSUME NEW lost, tasks' = AfterSweep(lost) PROVE NoNewSuccess
  <2>1. DOMAIN tasks' = DOMAIN tasks
    BY <1>1 DEF AfterSweep
  <2> QED
    BY <1>1, <2>1, SweepNoNewSuccess DEF NoNewSuccess
<1>2. ASSUME NEW lost, NEW t \in TaskIds, ClaimDelivers(t, w, lost) PROVE NoNewSuccess
  <2>1. /\ t \in DOMAIN tasks /\ DOMAIN tasks' = DOMAIN tasks
        /\ tasks'[t] = ClaimedTask(t, w)
        /\ \A u \in DOMAIN tasks \ {t} : tasks'[u] = AfterSweep(lost)[u]
    BY <1>2 DEF ClaimDelivers, AfterSweep
  <2>2. ClaimedTask(t, w).state = "RUNNING"
    BY <2>1 DEF ClaimedTask, Inv, IInv, RowOK, Task
  <2> QED
    BY <2>1, <2>2, SweepNoNewSuccess DEF NoNewSuccess
<1> QED
  BY <1>1, <1>2 DEF ClaimTask, ClaimFindsNone, ClaimAborts

\* The handler of a call makes a task succeed only for complete(), and then
\* as the success of the worker that calls.
LEMMA HandledEarns ==
  ASSUME Inv, SuccessIsEarned, ended \subseteq ended',
         NEW op, NEW t, NEW w, NEW saved, Handled(op, t, w, saved),
         op = "complete" => Done(t, w) \in ended
  PROVE  SuccessIsEarned'
<1>1. CASE ~(t \in DOMAIN tasks /\ HoldsLease(t, w))
  <2>1. UNCHANGED tasks
    BY <1>1, Zenon DEF Handled, vars
  <2> QED
    BY <2>1, UnchangedNoNewSuccess, NoNewSuccessKeeps
<1>2. CASE t \in DOMAIN tasks /\ HoldsLease(t, w)
  <2>0. tasks[t] \in Task /\ tasks[t].owner = w
    BY <1>2 DEF Inv, IInv, RowOK, HoldsLease
  <2>1. CASE op = "complete" /\ CompleteTask(t, w, saved)
    <3>1. tasks' = [tasks EXCEPT ![t] = Finished(t, "SUCCEEDED")]
      BY <2>1 DEF CompleteTask, Complete
    <3>2. DOMAIN tasks' = DOMAIN tasks /\ \A u \in DOMAIN tasks \ {t} : tasks'[u] = tasks[u]
      BY <3>1 DEF Inv, IInv
    <3>3. tasks'[t].owner = w
      BY <1>2, <2>0, <3>1 DEF Finished, Task, Inv, IInv
    <3>4. Done(t, tasks'[t].owner) \in ended'
      BY <2>1, <3>3
    <3> QED
      BY <3>2, <3>4 DEF SuccessIsEarned, Done
  <2>2. CASE \/ TaskHeartbeat(t, w) \/ FailTask(t, w, saved) \/ CancelTask(t, w, saved)
    <3>1. \/ tasks' = [tasks EXCEPT ![t].lease = "live"]
          \/ \E o \in {"FAILED", "CANCELLED"} : tasks' = [tasks EXCEPT ![t] = Finished(t, o)]
      BY <2>2 DEF TaskHeartbeat, Heartbeat, FailTask, Fail, CancelTask, AcknowledgeCancel
    <3>2. NoNewSuccess
      BY <1>2, <2>0, <3>1 DEF NoNewSuccess, Finished, Task, Inv, IInv, HoldsLease
    <3> QED
      BY <3>2, NoNewSuccessKeeps
  <2> QED
    BY <1>2, <2>1, <2>2 DEF Handled
<1> QED
  BY <1>1, <1>2

\* Calls under way stay in order; so does the one a caller gives up.
LEMMA CallsKept ==
  ASSUME \A call \in late : CallOK(call, ended), late' \subseteq late, ended \subseteq ended'
  PROVE  \A call \in late' : CallOK(call, ended')
BY DEF CallOK

LEMMA DelayedOK ==
  ASSUME \A call \in late : CallOK(call, ended), ended \subseteq ended',
         NEW op \in Calls, NEW t \in TaskIds \cup {NoTask}, NEW w \in WorkerIds,
         Delayed(op, t, w), op = "complete" => Done(t, w) \in ended
  PROVE  \A call \in late' : CallOK(call, ended')
<1> DEFINE new == [op |-> op, task |-> t, worker |-> w]
<1>1. CallOK(new, ended')
  BY DEF CallOK, LateCall
<1>2. late' = late \cup {new}
  BY DEF Delayed
<1> QED
  BY <1>1, <1>2 DEF CallOK

\* What a thread's call does to the files and to the connection.
LEMMA CallKeeps ==
  ASSUME Inv, EInv, ended' = ended,
         NEW op \in Calls, NEW t \in TaskIds \cup {NoTask}, NEW w \in WorkerIds,
         Heard(op, t, w) \/ Unheard(op, t, w),
         op = "complete" => Done(t, w) \in ended
  PROVE  SuccessIsEarned' /\ \A call \in late' : CallOK(call, ended')
<1>1. CASE \E saved : Handled(op, t, w, saved) /\ UNCHANGED late
  BY <1>1, HandledEarns, CallsKept DEF EInv
<1>2. CASE UNCHANGED <<jobs, tasks, late>>
  BY <1>2, UnchangedNoNewSuccess, NoNewSuccessKeeps, CallsKept DEF EInv
<1>3. CASE Delayed(op, t, w)
  <2>1. UNCHANGED tasks
    BY <1>3 DEF Delayed, vars
  <2>2. SuccessIsEarned'
    BY <2>1, UnchangedNoNewSuccess, NoNewSuccessKeeps DEF EInv
  <2>3. \A call \in late' : CallOK(call, ended')
    BY <1>3, DelayedOK DEF EInv
  <2> QED
    BY <2>2, <2>3
<1> QED
  BY <1>1, <1>2, <1>3 DEF Heard, Unheard

\* A step that moves one worker, to a place in order, keeps all in order.
LEMMA OneWorkerMoves ==
  ASSUME EInv, NEW w \in WorkerIds, NEW r, WorkerOK(w, r, ended'),
         worker' = [worker EXCEPT ![w] = r], ended \subseteq ended'
  PROVE  /\ worker' \in [WorkerIds -> Worker]
         /\ \A v \in WorkerIds : WorkerOK(v, worker'[v], ended')
<1>1. r \in Worker
  BY DEF WorkerOK
<1>2. worker'[w] = r /\ \A v \in WorkerIds \ {w} : worker'[v] = worker[v]
  BY DEF EInv
<1>3. ASSUME NEW v \in WorkerIds PROVE WorkerOK(v, worker'[v], ended')
  BY <1>2 DEF EInv, WorkerOK
<1> QED
  BY <1>1, <1>3 DEF EInv

LEMMA IdlingOK == ASSUME NEW w \in WorkerIds, NEW E PROVE WorkerOK(w, Idling, E)
BY WorkersAssumption DEF WorkerOK, Idling, Worker

\* A worker record with one field replaced.
LEMMA FieldsReplaced ==
  ASSUME NEW r \in Worker
  PROVE  /\ \A p \in {"idle", "accepting", "working", "finishing", "failing", "acking"} :
              /\ [r EXCEPT !.pc = p] \in Worker
              /\ [r EXCEPT !.pc = p].pc = p /\ [r EXCEPT !.pc = p].task = r.task
         /\ \A g \in {"off", "beating", "cancel", "lost"} :
              /\ [r EXCEPT !.guard = g] \in Worker
              /\ [r EXCEPT !.guard = g].pc = r.pc
              /\ [r EXCEPT !.guard = g].task = r.task
         /\ \A n \in 0 .. Grace :
              /\ [r EXCEPT !.misses = n] \in Worker
              /\ [r EXCEPT !.misses = n].pc = r.pc
              /\ [r EXCEPT !.misses = n].task = r.task
BY DEF Worker

\* The main thread goes on to another place of the same task.
LEMMA GoesOn ==
  ASSUME EInv, NEW w \in WorkerIds, worker[w].pc # "idle", ended \subseteq ended',
         NEW p \in {"working", "finishing", "failing", "acking"},
         p = "finishing" => Done(worker[w].task, w) \in ended'
  PROVE  WorkerOK(w, [worker[w] EXCEPT !.pc = p], ended')
<1>1. worker[w] \in Worker /\ worker[w].task \in TaskIds
  BY DEF EInv, WorkerOK
<1>2. /\ [worker[w] EXCEPT !.pc = p] \in Worker
      /\ [worker[w] EXCEPT !.pc = p].pc = p
      /\ [worker[w] EXCEPT !.pc = p].task = worker[w].task
  <2>1. p \in {"idle", "accepting", "working", "finishing", "failing", "acking"}
    OBVIOUS
  <2> QED
    BY <1>1, <2>1, FieldsReplaced, Zenon
<1> QED
  BY <1>1, <1>2, Zenon DEF WorkerOK

\* What remains of EInv when the worker's move and the call are dealt with.
LEMMA EInvFrom ==
  ASSUME worker' \in [WorkerIds -> Worker],
         \A v \in WorkerIds : WorkerOK(v, worker'[v], ended'),
         \A call \in late' : CallOK(call, ended'),
         ended' \in SUBSET Ending, SuccessIsEarned'
  PROVE  EInv'
BY DEF EInv

LEMMA PollKeeps ==
  ASSUME Inv, EInv, NEW w \in WorkerIds, PollAnswered(w) \/ PollUnanswered(w)
  PROVE  EInv'
<1>0. ended' = ended
  BY DEF PollAnswered, PollUnanswered
<1>1. SuccessIsEarned' /\ \A call \in late' : CallOK(call, ended')
  <2>1. CASE ClaimTask(w) /\ UNCHANGED late
    BY <1>0, <2>1, ClaimNoNewSuccess, NoNewSuccessKeeps, CallsKept DEF EInv
  <2>2. CASE Delayed("claim", NoTask, w)
    <3>1. UNCHANGED tasks
      BY <2>2 DEF Delayed, vars
    <3>2. \A call \in late' : CallOK(call, ended')
      BY <1>0, <2>2, DelayedOK DEF EInv, Calls
    <3> QED
      BY <1>0, <3>1, <3>2, UnchangedNoNewSuccess, NoNewSuccessKeeps DEF EInv
  <2> QED
    BY <2>1, <2>2 DEF PollAnswered, PollUnanswered
<1>2. worker' \in [WorkerIds -> Worker] /\ \A v \in WorkerIds : WorkerOK(v, worker'[v], ended')
  <2>1. CASE UNCHANGED worker
    BY <1>0, <2>1 DEF EInv
  <2>2. ASSUME NEW t \in Delivered, worker' = [worker EXCEPT ![w] = Accepting(t)]
        PROVE  /\ worker' \in [WorkerIds -> Worker]
               /\ \A v \in WorkerIds : WorkerOK(v, worker'[v], ended')
    <3>1. t \in TaskIds
      BY DEF Delivered, Inv, IInv
    <3>2. WorkerOK(w, Accepting(t), ended')
      BY <3>1, WorkersAssumption DEF WorkerOK, Accepting, Worker
    <3> QED
      BY <1>0, <2>2, <3>2, OneWorkerMoves
  <2> QED
    BY <2>1, <2>2 DEF PollAnswered, PollUnanswered
<1> QED
  BY <1>0, <1>1, <1>2, EInvFrom DEF EInv

LEMMA AcceptKeeps == ASSUME Inv, EInv, NEW w \in WorkerIds, Accept(w) PROVE EInv'
<1> DEFINE t == worker[w].task
<1>0. /\ ended' = ended /\ worker[w].pc = "accepting"
      /\ Heard("heartbeat", t, w) \/ Unheard("heartbeat", t, w)
      /\ t \in TaskIds \cup {NoTask}
  BY DEF Accept, EInv, WorkerOK, Worker
<1>1. SuccessIsEarned' /\ \A call \in late' : CallOK(call, ended')
  BY <1>0, CallKeeps DEF Calls
<1>2. \/ worker' = [worker EXCEPT ![w] = Idling]
      \/ \E p \in {"working", "acking", "failing"} :
           worker' = [worker EXCEPT ![w] = [worker[w] EXCEPT !.pc = p]]
  BY DEF Accept, Answer
<1>3. worker' \in [WorkerIds -> Worker] /\ \A v \in WorkerIds : WorkerOK(v, worker'[v], ended')
  BY <1>0, <1>2, IdlingOK, GoesOn, OneWorkerMoves
<1> QED
  BY <1>0, <1>1, <1>3, EInvFrom DEF EInv

LEMMA ReportSuccessKeeps == ASSUME Inv, EInv, NEW w \in WorkerIds, ReportSuccess(w) PROVE EInv'
<1> DEFINE t == worker[w].task
<1>0. /\ ended' = ended /\ worker[w].pc = "finishing"
      /\ Heard("complete", t, w) \/ Unheard("complete", t, w)
      /\ t \in TaskIds \cup {NoTask} /\ Done(t, w) \in ended
  BY DEF ReportSuccess, EInv, WorkerOK, Worker
<1>1. SuccessIsEarned' /\ \A call \in late' : CallOK(call, ended')
  BY <1>0, CallKeeps DEF Calls
<1>2. \/ worker' = [worker EXCEPT ![w] = Idling]
      \/ worker' = [worker EXCEPT ![w] = [worker[w] EXCEPT !.pc = "failing"]]
  BY Zenon DEF ReportSuccess
<1>3. worker' \in [WorkerIds -> Worker] /\ \A v \in WorkerIds : WorkerOK(v, worker'[v], ended')
  BY <1>0, <1>2, IdlingOK, GoesOn, OneWorkerMoves
<1> QED
  BY <1>0, <1>1, <1>3, EInvFrom DEF EInv

LEMMA ReportStopKeeps == ASSUME Inv, EInv, NEW w \in WorkerIds, ReportStop(w) PROVE EInv'
<1> DEFINE t == worker[w].task
<1>0. /\ ended' = ended /\ worker' = [worker EXCEPT ![w] = Idling]
      /\ \E op \in {"fail", "cancelled"} : Heard(op, t, w) \/ Unheard(op, t, w)
      /\ t \in TaskIds \cup {NoTask}
  BY DEF ReportStop, EInv, WorkerOK, Worker
<1>1. SuccessIsEarned' /\ \A call \in late' : CallOK(call, ended')
  BY <1>0, CallKeeps DEF Calls
<1>2. worker' \in [WorkerIds -> Worker] /\ \A v \in WorkerIds : WorkerOK(v, worker'[v], ended')
  BY <1>0, IdlingOK, OneWorkerMoves
<1> QED
  BY <1>0, <1>1, <1>2, EInvFrom DEF EInv

\* The work itself: it ends, one way or the other, or is stopped.
LEMMA WorkKeeps ==
  ASSUME Inv, EInv, NEW w \in WorkerIds,
         WorkSucceeds(w) \/ WorkFails(w) \/ StopWork(w) \/ CrashWorker(w)
  PROVE  EInv'
<1>1. UNCHANGED <<jobs, tasks, late>>
  BY DEF WorkSucceeds, WorkFails, StopWork, CrashWorker
<1>2. worker[w].pc # "idle" /\ worker[w].task \in TaskIds
  BY DEF WorkSucceeds, WorkFails, StopWork, CrashWorker, EInv, WorkerOK
<1>3. ended \subseteq ended' /\ ended' \in SUBSET Ending
  BY <1>2 DEF WorkSucceeds, WorkFails, StopWork, CrashWorker, EInv, Ending
<1>4. SuccessIsEarned' /\ \A call \in late' : CallOK(call, ended')
  BY <1>1, <1>3, UnchangedNoNewSuccess, NoNewSuccessKeeps, CallsKept DEF EInv
<1>5. \/ worker' = [worker EXCEPT ![w] = Idling]
      \/ \E p \in {"failing", "acking"} :
           worker' = [worker EXCEPT ![w] = [worker[w] EXCEPT !.pc = p]]
      \/ /\ worker' = [worker EXCEPT ![w] = [worker[w] EXCEPT !.pc = "finishing"]]
         /\ Done(worker[w].task, w) \in ended'
  <2>1. CASE WorkSucceeds(w)
    <3>1. Done(worker[w].task, w) \in ended'
      BY <2>1 DEF WorkSucceeds, Done
    <3> QED
      BY <2>1, <3>1, Zenon DEF WorkSucceeds
  <2>2. CASE WorkFails(w)
    BY <2>2, Zenon DEF WorkFails
  <2>3. CASE StopWork(w)
    BY <2>3, Zenon DEF StopWork
  <2>4. CASE CrashWorker(w)
    BY <2>4, Zenon DEF CrashWorker
  <2> QED
    BY <2>1, <2>2, <2>3, <2>4
<1>6. worker' \in [WorkerIds -> Worker] /\ \A v \in WorkerIds : WorkerOK(v, worker'[v], ended')
  BY <1>2, <1>3, <1>5, IdlingOK, GoesOn, OneWorkerMoves
<1> QED
  BY <1>3, <1>4, <1>6, EInvFrom

\* The guard changes its own fields only.
LEMMA GuardOK ==
  ASSUME EInv, NEW w \in WorkerIds, NEW g \in Worker,
         g.pc = worker[w].pc, g.task = worker[w].task
  PROVE  WorkerOK(w, g, ended)
BY DEF EInv, WorkerOK

LEMMA GuardKeeps == ASSUME Inv, EInv, NEW w \in WorkerIds, GuardBeats(w) PROVE EInv'
<1> DEFINE t == worker[w].task
<1>0. /\ ended' = ended
      /\ Heard("heartbeat", t, w) \/ Unheard("heartbeat", t, w)
      /\ worker[w] \in Worker /\ t \in TaskIds \cup {NoTask}
  BY DEF GuardBeats, EInv, WorkerOK, Worker
<1>1. SuccessIsEarned' /\ \A call \in late' : CallOK(call, ended')
  BY <1>0, CallKeeps DEF Calls
<1>2. PICK g \in Worker : /\ worker' = [worker EXCEPT ![w] = g]
                          /\ g.pc = worker[w].pc /\ g.task = worker[w].task
  <2>1. CASE \E g \in Worker : Missed(w, g) /\ worker' = [worker EXCEPT ![w] = g]
    <3>1. PICK g \in Worker : Missed(w, g) /\ worker' = [worker EXCEPT ![w] = g]
      BY <2>1
    <3>2. g.pc = worker[w].pc /\ g.task = worker[w].task
      BY <1>0, <3>1 DEF Missed, Worker
    <3> QED
      BY <3>1, <3>2
  <2>2. CASE worker' = [worker EXCEPT ![w].misses = 0,
                          ![w].guard = IF Answer(t, w) = "ok" THEN @ ELSE Answer(t, w)]
    <3> DEFINE e == IF Answer(t, w) = "ok" THEN worker[w].guard ELSE Answer(t, w)
               r == [worker[w] EXCEPT !.misses = 0]
               g == [r EXCEPT !.guard = e]
    <3>1. e \in {"off", "beating", "cancel", "lost"}
      BY <1>0 DEF Answer, Worker
    <3>2. g \in Worker /\ g.pc = worker[w].pc /\ g.task = worker[w].task
      <4>1. r \in Worker /\ r.pc = worker[w].pc /\ r.task = worker[w].task
        <5>1. 0 \in 0 .. Grace
          BY WorkersAssumption
        <5> QED
          BY <1>0, <5>1, FieldsReplaced, Zenon
      <4>2. \A q \in Worker : /\ [q EXCEPT !.guard = e] \in Worker
                              /\ [q EXCEPT !.guard = e].pc = q.pc
                              /\ [q EXCEPT !.guard = e].task = q.task
        <5> HIDE DEF e
        <5> QED
          BY <3>1, FieldsReplaced, Zenon
      <4> QED
        BY <4>1, <4>2, Zenon
    <3>3. worker' = [worker EXCEPT ![w] = g]
      BY <1>0, <2>2 DEF EInv
    <3> QED
      BY <3>2, <3>3
  <2> QED
    BY <2>1, <2>2 DEF GuardBeats
<1>3. WorkerOK(w, g, ended')
  BY <1>0, <1>2, GuardOK
<1>4. worker' \in [WorkerIds -> Worker] /\ \A v \in WorkerIds : WorkerOK(v, worker'[v], ended')
  BY <1>0, <1>2, <1>3, OneWorkerMoves
<1> QED
  BY <1>0, <1>1, <1>4, EInvFrom DEF EInv

LEMMA LateCallKeeps == ASSUME Inv, EInv, NEW call \in LateCall, LateCallEnds(call) PROVE EInv'
<1>1. /\ call \in late /\ call.worker \in WorkerIds /\ ended' = ended
      /\ worker' = worker /\ late' \subseteq late /\ CallOK(call, ended)
  BY DEF LateCallEnds, LateCall, EInv
<1>2. SuccessIsEarned'
  <2>1. CASE ClaimTask(call.worker)
    BY <1>1, <2>1, ClaimNoNewSuccess, NoNewSuccessKeeps DEF EInv
  <2>2. ASSUME NEW saved, Handled(call.op, call.task, call.worker, saved)
        PROVE  SuccessIsEarned'
    BY <1>1, <2>2, HandledEarns DEF EInv, CallOK
  <2>3. CASE UNCHANGED vars
    BY <1>1, <2>3, UnchangedNoNewSuccess, NoNewSuccessKeeps DEF EInv, vars
  <2> QED
    BY <2>1, <2>2, <2>3 DEF LateCallEnds
<1>3. \A c \in late' : CallOK(c, ended')
  BY <1>1, CallsKept DEF EInv
<1> QED
  BY <1>1, <1>2, <1>3, EInvFrom DEF EInv

LEMMA EInvStep == Inv /\ EInv /\ [SystemNext]_system => EInv'
<1> SUFFICES ASSUME Inv, EInv, [SystemNext]_system PROVE EInv'
  OBVIOUS
<1>1. ASSUME NEW w \in WorkerIds, WorkerStep(w) PROVE EInv'
  BY <1>1, PollKeeps, AcceptKeeps, ReportSuccessKeeps, ReportStopKeeps, WorkKeeps, GuardKeeps
     DEF WorkerStep
<1>2. CASE ControlPlaneStep
  <2>1. NoNewSuccess /\ UNCHANGED <<worker, late, ended>>
    BY <1>2, UserNoNewSuccess, TimerNoNewSuccess DEF ControlPlaneStep
  <2>2. SuccessIsEarned'
    BY <2>1, NoNewSuccessKeeps DEF EInv
  <2> QED
    BY <2>1, <2>2, EInvFrom DEF EInv
<1>3. CASE UNCHANGED system
  <2>1. SuccessIsEarned'
    BY <1>3, UnchangedNoNewSuccess, NoNewSuccessKeeps DEF EInv, system
  <2> QED
    BY <1>3, <2>1, EInvFrom DEF EInv, system
<1> QED
  BY <1>1, <1>2, <1>3, LateCallKeeps DEF SystemNext

\* The invariants of control plane and workers together.
THEOREM SystemInductive == System => [](Inv /\ EInv)
<1>1. SystemInit => Inv /\ EInv
  <2>1. SystemInit => Inv
    BY InitInv DEF SystemInit
  <2>2. SystemInit => EInv
    <3> SUFFICES ASSUME SystemInit PROVE EInv
      OBVIOUS
    <3>1. \A w \in WorkerIds : Idling \in Worker /\ WorkerOK(w, Idling, ended)
      BY IdlingOK DEF WorkerOK
    <3>2. worker \in [WorkerIds -> Worker] /\ \A w \in WorkerIds : WorkerOK(w, worker[w], ended)
      BY <3>1 DEF SystemInit
    <3>3. SuccessIsEarned
      BY DEF SystemInit, Init, QueueInit, SuccessIsEarned
    <3> QED
      BY <3>2, <3>3 DEF SystemInit, EInv
  <2> QED
    BY <2>1, <2>2
<1>2. Inv /\ EInv /\ [SystemNext]_system => (Inv /\ EInv)'
  BY EInvStep, SystemStepIsServiceStep, StepInv
<1> QED
  BY <1>1, <1>2, PTL DEF System

\* The files, the workers and the calls under way always hold what they may.
THEOREM SystemTypeCorrect == System => []WorkersTypeOK
<1>1. Inv /\ EInv => WorkersTypeOK
  BY JobInvariantImplies DEF EInv, CallOK, WorkersTypeOK
<1> QED
  BY <1>1, SystemInductive, PTL

\* Whatever is lost, late, restarted or delivered again: a task that succeeded
\* was worked to its end by the worker that owns it.
THEOREM SystemSuccessIsEarned == System => []SuccessIsEarned
BY SystemInductive, PTL DEF EInv

----------------------------------------------------------------------------
(* Only the user cancels.  A job shows a cancellation only while every      *)
(* unfinished task of it has been cancelled (CancelsAll), so that whichever *)
(* task a heartbeat is about, the answer "cancel" is meant for it; and the  *)
(* request stays with the task until the worker has acknowledged it.        *)
(* With faults a task whose job was not saved may belong to a job that      *)
(* shows an older cancellation.                                             *)

Asked(t) == t \in DOMAIN tasks /\ tasks[t].cancel

AllAsked(j) == \A t \in DOMAIN tasks : tasks[t].job = j => Asked(t) \/ Over(t)

CancelsAll == \A j \in DOMAIN jobs : jobs[j].cancel => AllAsked(j)

\* The tasks that this step creates work for j.
OnlyNewOf(j) == \A t \in DOMAIN tasks' \ DOMAIN tasks : tasks'[t].job = j

LEMMA AskedStays ==
  ASSUME Inv, QueueStep, NEW t, Asked(t)
  PROVE  Asked(t)'
<1>1. t \in DOMAIN tasks /\ t \in DOMAIN tasks'
  BY DEF Asked, QueueStep
<1> QED
  BY <1>1, TaskFrame DEF Asked, QueueStep, Inv

LEMMA AllAskedStays ==
  ASSUME Inv, QueueStep, NEW j, AllAsked(j),
         \A t \in DOMAIN tasks' \ DOMAIN tasks : tasks'[t].job # j
  PROVE  AllAsked(j)'
<1> SUFFICES ASSUME NEW t \in DOMAIN tasks', tasks'[t].job = j
             PROVE  Asked(t)' \/ Over(t)'
  BY DEF AllAsked
<1>1. t \in DOMAIN tasks
  OBVIOUS
<1>2. /\ tasks'[t].job = tasks[t].job
      /\ tasks[t].state \in Terminal => tasks'[t].state = tasks[t].state
  BY <1>1, TaskFrame DEF QueueStep, Inv
<1> QED
  BY <1>1, <1>2, AskedStays DEF AllAsked, Over

\* Saving one job.
LEMMA SaveOneCancels ==
  ASSUME Inv, QueueStep, CancelsAll, NEW j \in DOMAIN jobs, NEW new,
         jobs' = JobsWith(j, new), OnlyNewOf(j), new.cancel => AllAsked(j)'
  PROVE  CancelsAll'
<1>1. DOMAIN jobs' = DOMAIN jobs /\ jobs'[j] = new
      /\ \A k \in DOMAIN jobs : k # j => jobs'[k] = jobs[k]
  BY DEF JobsWith
<1>2. ASSUME NEW k \in DOMAIN jobs, k # j, jobs[k].cancel PROVE AllAsked(k)'
  BY <1>2, AllAskedStays DEF CancelsAll, OnlyNewOf
<1> QED
  BY <1>1, <1>2 DEF CancelsAll

\* Jobs that show no new cancellation, beside tasks that all existed before.
LEMMA NoneCancels ==
  ASSUME Inv, QueueStep, CancelsAll, DOMAIN tasks' = DOMAIN tasks,
         \A k \in DOMAIN jobs' : jobs'[k].cancel => k \in DOMAIN jobs /\ jobs[k].cancel
  PROVE  CancelsAll'
BY AllAskedStays DEF CancelsAll

LEMMA CreatesCancelNone ==
  ASSUME Inv, QueueStep, CancelsAll, NEW j \in JobIds, NEW t \in TaskIds, NEW saved \in Saves,
         saved, AddVideo(j, t, saved) \/ StartRender(j, t, saved) \/ StartDataset(j, t, saved)
  PROVE  CancelsAll'
<1>1. j \in DOMAIN jobs /\ jobs[j] \in Job
  BY DEF AddVideo, StartRender, StartDataset, Inv, JInv, JobOK
<1>2. \E n, type : Create(t, j, n, type)
  BY DEF AddVideo, StartRender, StartDataset
<1>3. OnlyNewOf(j)
  BY <1>2 DEF OnlyNewOf, Create, NewTask
<1>4. \E new : jobs' = JobsWith(j, new) /\ new.cancel = FALSE
  <2>1. CASE AddVideo(j, t, saved)
    <3>1. PICK n : jobs' = JobsWith(j, OnNewAttempt(Started(jobs[j], t, "RECONSTRUCTING"), n,
                                                    NewAttempt("RECONSTRUCTING", FALSE)))
      BY <2>1 DEF AddVideo
    <3>2. \A a : OnNewAttempt(Started(jobs[j], t, "RECONSTRUCTING"), n, a).cancel = FALSE
      BY <1>1 DEF OnNewAttempt, Started, Job
    <3> QED
      BY <3>1, <3>2
  <2>2. CASE StartRender(j, t, saved)
    <3> DEFINE x == [Started(jobs[j], t, "RENDERING") EXCEPT !.renderDir = jobs[j].active,
                                                             !.datasetZip = NoPath]
    <3>1. \/ jobs' = JobsWith(j, x)
          \/ \E a : jobs' = JobsWith(j, WithActive(x, a))
      BY <2>2 DEF StartRender
    <3>2. x.cancel = FALSE /\ \A a : WithActive(x, a).cancel = FALSE
      BY <1>1 DEF Started, WithActive, Job
    <3> QED
      BY <3>1, <3>2
  <2>3. CASE StartDataset(j, t, saved)
    <3>1. jobs' = JobsWith(j, Started(jobs[j], t, "DATASET_BUILDING"))
      BY <2>3 DEF StartDataset
    <3>2. Started(jobs[j], t, "DATASET_BUILDING").cancel = FALSE
      BY <1>1 DEF Started, Job
    <3> QED
      BY <3>1, <3>2
  <2> QED
    BY <2>1, <2>2, <2>3
<1> QED
  BY <1>1, <1>3, <1>4, SaveOneCancels

\* The methods that leave the task files alone and request nothing.
LEMMA EditsCancelNone ==
  ASSUME Inv, QueueStep, CancelsAll, NEW j \in JobIds,
         \/ CreateJob(j) \/ AddExistingPLY(j) \/ (\E n \in Versions : ActivateAttempt(j, n))
         \/ SaveCleaned(j) \/ SetBackgroundDir(j)
  PROVE  CancelsAll'
<1>1. tasks' = tasks
  BY DEF CreateJob, AddExistingPLY, ActivateAttempt, SaveCleaned, SetBackgroundDir
<1>2. CASE CreateJob(j)
  <2>1. \A k \in DOMAIN jobs' : jobs'[k].cancel => k \in DOMAIN jobs /\ jobs[k].cancel
    BY <1>2 DEF CreateJob, NewJob
  <2> QED
    BY <1>1, <2>1, NoneCancels
<1>3. CASE ~CreateJob(j)
  <2>1. j \in DOMAIN jobs /\ jobs[j] \in Job
    BY <1>3 DEF AddExistingPLY, ActivateAttempt, SaveCleaned, SetBackgroundDir, Inv, JInv, JobOK
  <2>2. \E new : jobs' = JobsWith(j, new) /\ (new.cancel => jobs[j].cancel)
    <3>1. CASE AddExistingPLY(j)
      <4>1. PICK n, a : jobs' = JobsWith(j, OnNewAttempt(
              [jobs[j] EXCEPT !.state = "REVIEW_READY", !.current = NoTask, !.cancel = FALSE], n, a))
        BY <3>1 DEF AddExistingPLY
      <4>2. OnNewAttempt([jobs[j] EXCEPT !.state = "REVIEW_READY", !.current = NoTask,
                                         !.cancel = FALSE], n, a).cancel = FALSE
        BY <2>1 DEF OnNewAttempt, Job
      <4> QED
        BY <4>1, <4>2
    <3>2. ASSUME NEW n \in Versions, ActivateAttempt(j, n)
          PROVE  \E new : jobs' = JobsWith(j, new) /\ (new.cancel => jobs[j].cancel)
      <4>1. PICK cleaned, renderDir, datasetZip, state :
              jobs' = JobsWith(j, [jobs[j] EXCEPT !.active = n, !.cleaned = cleaned,
                        !.renderDir = renderDir, !.datasetZip = datasetZip, !.state = state])
        BY <3>2 DEF ActivateAttempt
      <4>2. [jobs[j] EXCEPT !.active = n, !.cleaned = cleaned, !.renderDir = renderDir,
               !.datasetZip = datasetZip, !.state = state].cancel = jobs[j].cancel
        BY <2>1 DEF Job
      <4> QED
        BY <4>1, <4>2
    <3>3. CASE SaveCleaned(j)
      <4> DEFINE x == [jobs[j] EXCEPT !.cleaned = jobs[j].active, !.renderDir = NoPath,
                         !.datasetZip = NoPath, !.state = "EDITING", !.cancel = FALSE]
      <4>1. \E a : jobs' = JobsWith(j, WithActive(x, a))
        BY <3>3 DEF SaveCleaned
      <4>2. \A a : WithActive(x, a).cancel = FALSE
        BY <2>1 DEF WithActive, Job
      <4> QED
        BY <4>1, <4>2
    <3>4. CASE SetBackgroundDir(j)
      <4> DEFINE s == IF jobs[j].renderDir # NoPath THEN "RENDER_READY" ELSE jobs[j].state
                 x == [jobs[j] EXCEPT !.background = TRUE, !.datasetZip = NoPath, !.state = s]
      <4>1. \/ jobs' = JobsWith(j, x)
            \/ \E a : jobs' = JobsWith(j, WithActive(x, a))
        BY <3>4 DEF SetBackgroundDir
      <4>2. x.cancel = jobs[j].cancel /\ \A a : WithActive(x, a).cancel = jobs[j].cancel
        BY <2>1 DEF WithActive, Job
      <4> HIDE DEF x
      <4> QED
        BY <4>1, <4>2
    <3> QED
      BY <1>3, <3>1, <3>2, <3>3, <3>4
  <2> QED
    BY <1>1, <2>1, <2>2, NoneCancels DEF JobsWith
<1> QED
  BY <1>2, <1>3

LEMMA CancelCancelsAll ==
  ASSUME Inv, QueueStep, CancelsAll, NEW j \in JobIds, NEW stopped \in SUBSET Stoppable(j),
         NEW saved \in Saves, saved, Cancel(j, stopped, saved)
  PROVE  CancelsAll'
<1>1. /\ j \in DOMAIN jobs /\ stopped = Stoppable(j) /\ CancelByJob(j, stopped)
      /\ \E new : jobs' = JobsWith(j, new)
  BY DEF Cancel
<1>2. DOMAIN tasks' = DOMAIN tasks
  BY <1>1 DEF CancelByJob
<1>3. AllAsked(j)'
  <2> SUFFICES ASSUME NEW t \in DOMAIN tasks, tasks'[t].job = j
               PROVE  tasks'[t].cancel \/ tasks'[t].state \in Terminal
    BY <1>2 DEF AllAsked, Asked, Over
  <2>1. tasks[t] \in Task /\ tasks[t].job = j
    BY <1>2, TaskFrame DEF QueueStep, Inv, IInv, RowOK
  <2>2. CASE Over(t)
    <3>1. t \notin Stoppable(j)
      BY <2>2 DEF Stoppable
    <3> QED
      BY <1>1, <2>2, <3>1, StopsTheStoppable DEF Over
  <2>3. CASE ~Over(t)
    <3>1. t \in Stoppable(j)
      BY <2>1, <2>3 DEF Stoppable
    <3>2. tasks'[t] = StoppedTask(t)
      BY <1>1, <3>1, StopsTheStoppable
    <3> QED
      BY <2>1, <3>2 DEF StoppedTask, Task
  <2> QED
    BY <2>2, <2>3
<1> QED
  BY <1>1, <1>2, <1>3, SaveOneCancels DEF OnlyNewOf

\* An outcome requests nothing.
LEMMA OutcomeCancelsNone ==
  ASSUME NEW job, JobOK(job), HasActive(job), NEW task \in Task, task.state \in Terminal
  PROVE  Outcome(job, task).cancel => job.cancel
<1>0. job \in Job /\ task.type \in {"RECONSTRUCT", "RENDER", "DATASET"}
  BY ServiceAssumption DEF JobOK, Task
<1>1. CASE task.state = "SUCCEEDED"
  <2> DEFINE freed == [job EXCEPT !.current = NoTask, !.cancel = FALSE]
  <2>1. Outcome(job, task) = OutcomeSucceeded(job, task)
    BY <1>1 DEF Outcome
  <2>2. OutcomeSucceeded(job, task).cancel = FALSE
    <3>1. CASE task.type = "RECONSTRUCT"
      <4> DEFINE done == [freed EXCEPT !.state = "REVIEW_READY"]
      <4>1. \/ OutcomeSucceeded(job, task) = done
            \/ \E a : OutcomeSucceeded(job, task) = WithActive(done, a)
        BY <3>1, Zenon DEF OutcomeSucceeded
      <4>2. done.cancel = FALSE /\ \A a : WithActive(done, a).cancel = FALSE
        BY <1>0 DEF WithActive, Job
      <4> HIDE DEF done
      <4> QED
        BY <4>1, <4>2
    <3>2. CASE task.type = "RENDER"
      <4> DEFINE done == [freed EXCEPT !.state = "RENDER_READY", !.renderDir = task.attempt]
      <4>1. \/ OutcomeSucceeded(job, task) = done
            \/ \E a : OutcomeSucceeded(job, task) = WithActive(done, a)
        BY <3>2, Zenon DEF OutcomeSucceeded
      <4>2. done.cancel = FALSE /\ \A a : WithActive(done, a).cancel = FALSE
        BY <1>0 DEF WithActive, Job
      <4> HIDE DEF done
      <4> QED
        BY <4>1, <4>2
    <3>3. CASE task.type = "DATASET"
      <4> DEFINE done == [freed EXCEPT !.state = "COMPLETED", !.datasetZip = task.attempt]
      <4>1. \/ OutcomeSucceeded(job, task) = done
            \/ \E a : OutcomeSucceeded(job, task) = WithActive(done, a)
        BY <3>3, Zenon DEF OutcomeSucceeded
      <4>2. done.cancel = FALSE /\ \A a : WithActive(done, a).cancel = FALSE
        BY <1>0 DEF WithActive, Job
      <4> HIDE DEF done
      <4> QED
        BY <4>1, <4>2
    <3> QED
      BY <1>0, <3>1, <3>2, <3>3
  <2> QED
    BY <2>1, <2>2
<1>2. CASE task.state = "FAILED"
  <2>1. Outcome(job, task) = OutcomeStopped(job, task, "FAILED")
    BY <1>2 DEF Outcome, OutcomeFailed
  <2>2. OutcomeStopped(job, task, "FAILED").cancel = job.cancel
    BY <1>0 DEF OutcomeStopped, WithActive, Job
  <2> QED
    BY <2>1, <2>2
<1>3. CASE task.state = "CANCELLED"
  <2> DEFINE stopped == OutcomeStopped(job, task, "CANCELLED")
  <2>1. Outcome(job, task) = [stopped EXCEPT !.cancel = FALSE]
    BY <1>3 DEF Outcome, OutcomeCancelled
  <2>2. stopped \in Job
    BY StoppedOK DEF JobOK
  <2> HIDE DEF stopped
  <2> QED
    BY <2>1, <2>2 DEF Job
<1> QED
  BY <1>1, <1>2, <1>3 DEF Terminal

LEMMA AppliedCancelsNone ==
  ASSUME Inv, QueueStep, CancelsAll, DOMAIN tasks' = DOMAIN tasks,
         NEW S, NEW ts, jobs' = Applied(S, ts),
         \A t \in S : t \in DOMAIN tasks /\ ts[t] \in Task /\ ts[t].state \in Terminal
  PROVE  CancelsAll'
<1>1. DOMAIN jobs' = DOMAIN jobs
  BY DEF Applied
<1>2. ASSUME NEW j \in DOMAIN jobs PROVE jobs'[j].cancel => jobs[j].cancel
  <2>1. CASE \E t \in S : ts[t].job = j /\ IsCurrent(j, t)
    <3> DEFINE t == CHOOSE t \in S : ts[t].job = j /\ IsCurrent(j, t)
    <3>1. t \in S /\ jobs[j].current = t
      BY <2>1 DEF IsCurrent
    <3>2. jobs'[j] = Outcome(jobs[j], ts[t])
      BY <2>1 DEF Applied
    <3> HIDE DEF t
    <3>3. jobs[j].current # NoTask
      BY <3>1, NoTaskIsNoTask DEF Inv, IInv
    <3>4. JobOK(jobs[j]) /\ HasActive(jobs[j])
      BY <3>3 DEF Inv, JInv, Linked
    <3> QED
      BY <3>1, <3>2, <3>4, OutcomeCancelsNone
  <2>2. CASE ~\E t \in S : ts[t].job = j /\ IsCurrent(j, t)
    BY <2>2 DEF Applied
  <2> QED
    BY <2>1, <2>2
<1> QED
  BY <1>1, <1>2, NoneCancels

LEMMA ClaimCancelsNone ==
  ASSUME Inv, QueueStep, CancelsAll, NEW w \in WorkerIds, ClaimTask(w)
  PROVE  CancelsAll'
<1> DEFINE ts == [t \in Swept |-> SweptTask(t)]
<1>1. PICK applied \in SUBSET Swept : jobs' = Applied(applied, ts) \/ UNCHANGED jobs
  BY DEF ClaimTask
<1>2. DOMAIN tasks' = DOMAIN tasks
  BY DEF ClaimTask, ClaimDelivers, ClaimFindsNone, ClaimAborts, AfterSweep
<1>3. ASSUME NEW t \in applied
      PROVE  t \in DOMAIN tasks /\ ts[t] \in Task /\ ts[t].state \in Terminal
  <2>1. t \in Swept /\ ts[t] = SweptTask(t)
    OBVIOUS
  <2>2. t \in DOMAIN tasks /\ tasks[t] \in Task
    BY <2>1 DEF Swept, Inv, IInv, RowOK
  <2> HIDE DEF ts
  <2>3. SweptTask(t) \in Task /\ SweptTask(t).state \in Terminal
    BY <2>2 DEF SweptTask, Task, Terminal
  <2> QED
    BY <2>1, <2>2, <2>3
<1> HIDE DEF ts
<1> QED
  BY <1>1, <1>2, <1>3, AppliedCancelsNone, NoneCancels

LEMMA ReportCancelsNone ==
  ASSUME Inv, QueueStep, CancelsAll, NEW t \in TaskIds, NEW w \in WorkerIds, NEW saved \in Saves,
         CompleteTask(t, w, saved) \/ FailTask(t, w, saved) \/ CancelTask(t, w, saved)
  PROVE  CancelsAll'
<1>1. (Complete(t, w) \/ Fail(t, w) \/ AcknowledgeCancel(t, w)) /\ Report(t, saved)
  BY DEF CompleteTask, FailTask, CancelTask
<1>2. PICK o \in Terminal :
        t \in DOMAIN tasks /\ tasks' = [tasks EXCEPT ![t] = Finished(t, o)]
  BY <1>1 DEF Complete, Fail, AcknowledgeCancel, Terminal
<1>3. tasks[t] \in Task /\ tasks'[t] = Finished(t, o) /\ DOMAIN tasks' = DOMAIN tasks
  BY <1>2 DEF Inv, IInv, RowOK
<1>4. tasks'[t] \in Task /\ tasks'[t].state \in Terminal
  BY <1>3 DEF Finished, Task, Terminal
<1>5. CASE jobs' = jobs
  BY <1>3, <1>5, NoneCancels
<1>6. CASE jobs' = Applied({t}, tasks')
  <2> DEFINE S  == {t}
             ts == tasks'
  <2>1. /\ jobs' = Applied(S, ts)
        /\ \A u \in S : u \in DOMAIN tasks /\ ts[u] \in Task /\ ts[u].state \in Terminal
    BY <1>2, <1>4, <1>6
  <2> HIDE DEF S, ts
  <2> QED
    BY <1>3, <2>1, AppliedCancelsNone
<1> QED
  BY <1>1, <1>5, <1>6 DEF Report

LEMMA TimerCancelsNone ==
  ASSUME Inv, QueueStep, CancelsAll, TimerNext PROVE CancelsAll'
<1>1. CASE TimePasses
  <2>1. DOMAIN tasks' = DOMAIN tasks /\ jobs' = jobs
    BY <1>1 DEF TimePasses, LeaseExpires
  <2> QED
    BY <2>1, NoneCancels
<1>2. ASSUME NEW repaired \in SUBSET Unreconciled, ReconcileUpTo(repaired)
      PROVE  CancelsAll'
  <2>1. jobs' = Applied(repaired, tasks) /\ tasks' = tasks
    BY <1>2 DEF ReconcileUpTo
  <2>2. \A t \in repaired : t \in DOMAIN tasks /\ tasks[t] \in Task /\ tasks[t].state \in Terminal
    BY DEF Unreconciled, Over, Inv, IInv, RowOK
  <2> QED
    BY <2>1, <2>2, AppliedCancelsNone
<1> QED
  BY <1>1, <1>2 DEF TimerNext

\* Without faults every step of the control plane keeps it.
LEMMA CancelsAllStep ==
  ASSUME ~Faults, Inv, CancelsAll, [Next]_vars
  PROVE  CancelsAll'
<1>0. Saves = {TRUE}
  BY DEF Saves
<1>1. CASE UNCHANGED vars
  BY <1>1 DEF CancelsAll, AllAsked, Asked, Over, vars
<1>2. CASE UserNext
  <2>1. QueueStep
    BY <1>2, UserNextInv
  <2>2. PICK j \in JobIds :
        \/ CreateJob(j) \/ AddExistingPLY(j) \/ (\E n \in Versions : ActivateAttempt(j, n))
             \/ SaveCleaned(j) \/ SetBackgroundDir(j)
        \/ \E stopped \in SUBSET Stoppable(j), saved \in Saves : Cancel(j, stopped, saved)
        \/ \E t \in TaskIds, saved \in Saves :
             AddVideo(j, t, saved) \/ StartRender(j, t, saved) \/ StartDataset(j, t, saved)
    BY <1>2 DEF UserNext
  <2>3. CASE \/ CreateJob(j) \/ AddExistingPLY(j) \/ (\E n \in Versions : ActivateAttempt(j, n))
             \/ SaveCleaned(j) \/ SetBackgroundDir(j)
    BY <2>1, <2>3, EditsCancelNone
  <2>4. CASE \E stopped \in SUBSET Stoppable(j), saved \in Saves : Cancel(j, stopped, saved)
    BY <1>0, <2>1, <2>4, CancelCancelsAll
  <2>5. CASE \E t \in TaskIds, saved \in Saves :
               AddVideo(j, t, saved) \/ StartRender(j, t, saved) \/ StartDataset(j, t, saved)
    BY <1>0, <2>1, <2>5, CreatesCancelNone
  <2> QED
    BY <2>2, <2>3, <2>4, <2>5
<1>3. CASE WorkerNext
  <2>1. QueueStep
    BY <1>3, WorkerNextInv
  <2>2. ASSUME NEW w \in WorkerIds, NEW t \in TaskIds, TaskHeartbeat(t, w) PROVE CancelsAll'
    <3>1. DOMAIN tasks' = DOMAIN tasks /\ jobs' = jobs
      BY <2>2 DEF TaskHeartbeat, Heartbeat
    <3> QED
      BY <2>1, <3>1, NoneCancels
  <2> QED
    BY <1>3, <2>1, <2>2, ClaimCancelsNone, ReportCancelsNone DEF WorkerNext
<1>4. CASE TimerNext
  BY <1>4, TimerNextInv, TimerCancelsNone
<1> QED
  BY <1>1, <1>2, <1>3, <1>4 DEF Next

\* What a worker and a call under way know of a cancellation is true.
Meant(r) == r.guard = "cancel" \/ r.pc = "acking" => Asked(r.task)

WorkersMeant == \A w \in WorkerIds : Meant(worker[w])

CallsMeant == \A call \in late : call.op = "cancelled" => Asked(call.task)

CancelledAsked == \A t \in DOMAIN tasks : tasks[t].state = "CANCELLED" => tasks[t].cancel

\* The inductive invariant, beside Inv, HistoryInv and EInv.
UInv == CancelsAll /\ WorkersMeant /\ CallsMeant /\ CancelledAsked

\* This step ends no work as cancelled but what it was asked to.
EndsAsked ==
  \A t \in DOMAIN tasks :
    tasks[t].state = "RUNNING" /\ tasks'[t].state = "CANCELLED" => tasks[t].cancel

LEMMA CancelledStays ==
  ASSUME Inv, QueueStep, CancelledAsked, EndsAsked
  PROVE  CancelledAsked'
<1>1. CASE UNCHANGED tasks
  BY <1>1 DEF CancelledAsked
<1>2. CASE QueueNext
  <2>1. StepShape
    BY <1>2, EveryStepShape DEF Inv
  <2>2. ASSUME NEW t \in DOMAIN tasks' \ DOMAIN tasks PROVE tasks'[t].state = "READY"
    BY <2>1 DEF StepShape, RowNew, NewTask
  <2>3. ASSUME NEW t \in DOMAIN tasks, t \in DOMAIN tasks', tasks'[t].state = "CANCELLED"
        PROVE  tasks'[t].cancel
    <3>1. /\ RowNext(t) /\ tasks[t] \in Task
          /\ tasks[t].state = "CANCELLED" => tasks[t].cancel
          /\ tasks[t].state = "RUNNING" => tasks[t].cancel
          /\ tasks[t].cancel => tasks'[t].cancel
      BY <1>2, <2>1, <2>3, TaskFrame DEF StepShape, CancelledAsked, EndsAsked, Inv, IInv, RowOK
    <3>2. CASE tasks[t].state \notin {"CANCELLED", "RUNNING"}
      BY <2>3, <3>1, <3>2 DEF RowNext, Swept, SweptTask, CancelledBySweep, ExhaustedBySweep,
                              Expired, ClaimedTask, StoppedTask, Task
    <3> QED
      BY <3>1, <3>2
  <2> QED
    BY <2>2, <2>3 DEF CancelledAsked
<1> QED
  BY <1>1, <1>2 DEF QueueStep

LEMMA UnchangedEndsAsked == ASSUME UNCHANGED tasks PROVE EndsAsked
BY DEF EndsAsked

LEMMA UserEndsAsked == ASSUME Inv, UserNext PROVE EndsAsked
<1>1. ASSUME NEW t \in TaskIds, NEW j, NEW n, NEW type, Create(t, j, n, type) PROVE EndsAsked
  <2>1. tasks'[t].state = "READY" /\ \A u \in DOMAIN tasks : u # t => tasks'[u] = tasks[u]
    BY <1>1 DEF Create, NewTask
  <2> QED
    BY <2>1 DEF EndsAsked
<1>2. ASSUME NEW j, NEW stopped, CancelByJob(j, stopped) PROVE EndsAsked
  <2>1. ASSUME NEW t \in DOMAIN tasks, tasks[t].state = "RUNNING"
        PROVE  StoppedTask(t).state = "RUNNING"
    BY <2>1 DEF StoppedTask, Task, Inv, IInv, RowOK
  <2> QED
    BY <1>2, <2>1 DEF CancelByJob, EndsAsked
<1>3. \/ UNCHANGED tasks
      \/ \E t \in TaskIds, j \in JobIds : \E n, type : Create(t, j, n, type)
      \/ \E j \in JobIds : \E stopped : CancelByJob(j, stopped)
  BY Zenon DEF UserNext, CreateJob, AddVideo, AddExistingPLY, ActivateAttempt, SaveCleaned, StartRender,
         SetBackgroundDir, StartDataset, Cancel
<1> QED
  BY <1>1, <1>2, <1>3, UnchangedEndsAsked

LEMMA TimerEndsAsked == ASSUME Inv, TimerNext PROVE EndsAsked
<1>1. ASSUME NEW t \in TaskIds, LeaseExpires(t) PROVE EndsAsked
  BY <1>1 DEF LeaseExpires, EndsAsked, Inv, IInv, RowOK, Task
<1> QED
  BY <1>1, UnchangedEndsAsked DEF TimerNext, TimePasses, ReconcileUpTo

\* A poll ends as cancelled only what it was asked to.
LEMMA SweepEndsAsked ==
  ASSUME Inv, NEW lost, NEW t \in DOMAIN tasks,
         tasks[t].state = "RUNNING", AfterSweep(lost)[t].state = "CANCELLED"
  PROVE  tasks[t].cancel
<1>1. t \in Swept /\ SweptTask(t).state = "CANCELLED"
  BY DEF AfterSweep
<1>2. CancelledBySweep(t)
  BY <1>1 DEF SweptTask, Inv, IInv, RowOK, Task
<1> QED
  BY <1>2 DEF CancelledBySweep

LEMMA ClaimEndsAsked == ASSUME Inv, NEW w \in WorkerIds, ClaimTask(w) PROVE EndsAsked
<1>1. ASSUME NEW lost, tasks' = AfterSweep(lost) PROVE EndsAsked
  BY <1>1, SweepEndsAsked DEF EndsAsked
<1>2. ASSUME NEW lost, NEW t \in TaskIds, ClaimDelivers(t, w, lost) PROVE EndsAsked
  <2>1. /\ t \in DOMAIN tasks /\ tasks'[t] = ClaimedTask(t, w)
        /\ \A u \in DOMAIN tasks \ {t} : tasks'[u] = AfterSweep(lost)[u]
    BY <1>2 DEF ClaimDelivers, AfterSweep
  <2>2. ClaimedTask(t, w).state = "RUNNING"
    BY <2>1 DEF ClaimedTask, Inv, IInv, RowOK, Task
  <2> QED
    BY <2>1, <2>2, SweepEndsAsked DEF EndsAsked
<1> QED
  BY <1>1, <1>2 DEF ClaimTask, ClaimFindsNone, ClaimAborts

\* The handler of a call ends work as cancelled only for cancelled().
LEMMA HandledEndsAsked ==
  ASSUME Inv, NEW op, NEW t, NEW w, NEW saved, Handled(op, t, w, saved),
         op = "cancelled" => Asked(t)
  PROVE  EndsAsked
<1>1. CASE ~(t \in DOMAIN tasks /\ HoldsLease(t, w))
  <2>1. UNCHANGED tasks
    BY <1>1, Zenon DEF Handled, vars
  <2> QED
    BY <2>1, UnchangedEndsAsked
<1>2. CASE t \in DOMAIN tasks /\ HoldsLease(t, w)
  <2>0. tasks[t] \in Task
    BY <1>2 DEF Inv, IInv, RowOK
  <2>1. CASE op = "cancelled" /\ CancelTask(t, w, saved)
    <3>1. tasks' = [tasks EXCEPT ![t] = Finished(t, "CANCELLED")]
      BY <2>1 DEF CancelTask, AcknowledgeCancel
    <3>2. \A u \in DOMAIN tasks \ {t} : tasks'[u] = tasks[u]
      BY <3>1 DEF Inv, IInv
    <3> QED
      BY <2>1, <3>2 DEF EndsAsked, Asked
  <2>2. CASE TaskHeartbeat(t, w) \/ CompleteTask(t, w, saved) \/ FailTask(t, w, saved)
    <3>1. \/ tasks' = [tasks EXCEPT ![t].lease = "live"]
          \/ \E o \in {"SUCCEEDED", "FAILED"} : tasks' = [tasks EXCEPT ![t] = Finished(t, o)]
      BY <2>2 DEF TaskHeartbeat, Heartbeat, FailTask, Fail, CompleteTask, Complete
    <3>2. \A u \in DOMAIN tasks \ {t} : tasks'[u] = tasks[u]
      BY <3>1 DEF Inv, IInv
    <3>3. tasks'[t].state # "CANCELLED"
      BY <1>2, <2>0, <3>1 DEF Finished, Task, HoldsLease, Inv, IInv
    <3> QED
      BY <3>2, <3>3 DEF EndsAsked
  <2> QED
    BY <1>2, <2>1, <2>2 DEF Handled
<1> QED
  BY <1>1, <1>2

\* The answer "cancel" is meant for the task of the call.
LEMMA AnswerMeant ==
  ASSUME HistoryInv, CancelsAll, NEW t, NEW w, Answer(t, w) = "cancel"
  PROVE  Asked(t)
<1>1. t \in DOMAIN tasks /\ HoldsLease(t, w) /\ CancelAsked(t)
  BY DEF Answer
<1>2. tasks[t].job \in DOMAIN jobs /\ ~Over(t)
  BY <1>1 DEF HistoryInv, HasInputs, HoldsLease, Over, Terminal
<1> QED
  BY <1>1, <1>2 DEF CancelAsked, CancelsAll, AllAsked, Asked

LEMMA CallsStayMeant ==
  ASSUME Inv, QueueStep, CallsMeant, late' \subseteq late
  PROVE  CallsMeant'
BY AskedStays DEF CallsMeant

LEMMA CallMeant ==
  ASSUME Inv, QueueStep, CallsMeant, NEW op, NEW t, NEW w,
         Heard(op, t, w) \/ Unheard(op, t, w), op = "cancelled" => Asked(t)
  PROVE  CallsMeant' /\ EndsAsked
<1>1. CASE \E saved : Handled(op, t, w, saved) /\ UNCHANGED late
  BY <1>1, HandledEndsAsked, CallsStayMeant
<1>2. CASE UNCHANGED <<jobs, tasks, late>>
  BY <1>2, UnchangedEndsAsked, CallsStayMeant
<1>3. CASE Delayed(op, t, w)
  <2>1. UNCHANGED tasks /\ late' = late \cup {[op |-> op, task |-> t, worker |-> w]}
    BY <1>3 DEF Delayed, vars
  <2>2. CallsMeant'
    BY <2>1 DEF CallsMeant, Asked
  <2> QED
    BY <2>1, <2>2, UnchangedEndsAsked
<1> QED
  BY <1>1, <1>2, <1>3 DEF Heard, Unheard

LEMMA WorkersStayMeant ==
  ASSUME Inv, QueueStep, WorkersMeant, UNCHANGED worker
  PROVE  WorkersMeant'
BY AskedStays DEF WorkersMeant, Meant

LEMMA OneMovesMeant ==
  ASSUME Inv, QueueStep, EInv, WorkersMeant, NEW w \in WorkerIds, NEW r,
         worker' = [worker EXCEPT ![w] = r], Meant(r)
  PROVE  WorkersMeant'
<1>1. worker'[w] = r /\ \A v \in WorkerIds \ {w} : worker'[v] = worker[v]
  BY DEF EInv
<1> QED
  BY <1>1, AskedStays DEF WorkersMeant, Meant

LEMMA IdlingMeant == Meant(Idling)
BY DEF Meant, Idling

\* The main thread goes on at its task; to acknowledge, it must have been asked.
LEMMA GoesOnMeant ==
  ASSUME EInv, WorkersMeant, NEW w \in WorkerIds,
         NEW p \in {"working", "finishing", "failing", "acking"},
         p = "acking" => Asked(worker[w].task)
  PROVE  Meant([worker[w] EXCEPT !.pc = p])
<1>1. worker[w] \in Worker /\ Meant(worker[w])
  BY DEF EInv, WorkersMeant
<1>2. /\ [worker[w] EXCEPT !.pc = p].pc = p
      /\ [worker[w] EXCEPT !.pc = p].task = worker[w].task
      /\ [worker[w] EXCEPT !.pc = p].guard = worker[w].guard
  BY <1>1 DEF Worker
<1> QED
  BY <1>1, <1>2, Zenon DEF Meant

LEMMA PollMeant ==
  ASSUME Inv, QueueStep, EInv, UInv, NEW w \in WorkerIds, PollAnswered(w) \/ PollUnanswered(w)
  PROVE  WorkersMeant' /\ CallsMeant' /\ EndsAsked
<1>1. CASE ClaimTask(w) /\ UNCHANGED late
  <2>1. EndsAsked /\ CallsMeant'
    BY <1>1, ClaimEndsAsked, CallsStayMeant DEF UInv
  <2>2. UNCHANGED worker \/ \E t : worker' = [worker EXCEPT ![w] = Accepting(t)]
    BY DEF PollAnswered, PollUnanswered
  <2>3. \A t : Meant(Accepting(t))
    BY DEF Meant, Accepting
  <2> QED
    BY <2>1, <2>2, <2>3, WorkersStayMeant, OneMovesMeant DEF UInv
<1>2. CASE Delayed("claim", NoTask, w) /\ UNCHANGED worker
  <2>1. Unheard("claim", NoTask, w)
    BY <1>2 DEF Unheard
  <2> QED
    BY <1>2, <2>1, CallMeant, WorkersStayMeant DEF UInv
<1> QED
  BY <1>1, <1>2 DEF PollAnswered, PollUnanswered

LEMMA AcceptMeant ==
  ASSUME Inv, HistoryInv, QueueStep, EInv, UInv, NEW w \in WorkerIds, Accept(w)
  PROVE  WorkersMeant' /\ CallsMeant' /\ EndsAsked
<1> DEFINE t == worker[w].task
<1>1. CallsMeant' /\ EndsAsked
  BY CallMeant DEF Accept, UInv
<1>2. \/ worker' = [worker EXCEPT ![w] = Idling]
      \/ \E p \in {"working", "failing"} :
           worker' = [worker EXCEPT ![w] = [worker[w] EXCEPT !.pc = p]]
      \/ /\ worker' = [worker EXCEPT ![w] = [worker[w] EXCEPT !.pc = "acking"]]
         /\ Answer(t, w) = "cancel"
  BY DEF Accept, Answer
<1>3. Answer(t, w) = "cancel" => Asked(t)
  BY AnswerMeant DEF UInv
<1> HIDE DEF t
<1>4. WorkersMeant'
  BY <1>2, <1>3, IdlingMeant, GoesOnMeant, OneMovesMeant DEF t, UInv
<1> QED
  BY <1>1, <1>4

LEMMA ReportMeant ==
  ASSUME Inv, QueueStep, EInv, UInv, NEW w \in WorkerIds, ReportSuccess(w) \/ ReportStop(w)
  PROVE  WorkersMeant' /\ CallsMeant' /\ EndsAsked
<1>1. worker[w].pc = "acking" => Asked(worker[w].task)
  BY DEF UInv, WorkersMeant, Meant
<1>2. CallsMeant' /\ EndsAsked
  <2>1. CASE ReportSuccess(w)
    BY <2>1, CallMeant DEF ReportSuccess, UInv
  <2>2. CASE ReportStop(w)
    <3>1. \E op : /\ Heard(op, worker[w].task, w) \/ Unheard(op, worker[w].task, w)
                  /\ op = "cancelled" => Asked(worker[w].task)
      BY <1>1, <2>2 DEF ReportStop
    <3> QED
      BY <3>1, CallMeant DEF UInv
  <2> QED
    BY <2>1, <2>2
<1>3. \/ worker' = [worker EXCEPT ![w] = Idling]
      \/ worker' = [worker EXCEPT ![w] = [worker[w] EXCEPT !.pc = "failing"]]
  BY Zenon DEF ReportSuccess, ReportStop
<1>4. WorkersMeant'
  BY <1>3, IdlingMeant, GoesOnMeant, OneMovesMeant DEF UInv
<1> QED
  BY <1>2, <1>4

LEMMA WorkMeant ==
  ASSUME Inv, QueueStep, EInv, UInv, NEW w \in WorkerIds,
         WorkSucceeds(w) \/ WorkFails(w) \/ StopWork(w) \/ CrashWorker(w)
  PROVE  WorkersMeant' /\ CallsMeant' /\ EndsAsked
<1>1. UNCHANGED <<tasks, late>>
  BY DEF WorkSucceeds, WorkFails, StopWork, CrashWorker
<1>2. CallsMeant' /\ EndsAsked
  BY <1>1, UnchangedEndsAsked, CallsStayMeant DEF UInv
<1>3. \/ worker' = [worker EXCEPT ![w] = Idling]
      \/ \E p \in {"finishing", "failing"} :
           worker' = [worker EXCEPT ![w] = [worker[w] EXCEPT !.pc = p]]
      \/ /\ worker' = [worker EXCEPT ![w] = [worker[w] EXCEPT !.pc = "acking"]]
         /\ worker[w].guard = "cancel"
  BY Zenon DEF WorkSucceeds, WorkFails, StopWork, CrashWorker
<1>4. worker[w].guard = "cancel" => Asked(worker[w].task)
  BY DEF UInv, WorkersMeant, Meant
<1>5. WorkersMeant'
  BY <1>3, <1>4, IdlingMeant, GoesOnMeant, OneMovesMeant DEF UInv
<1> QED
  BY <1>2, <1>5

\* The guard sets its event for a cancellation only when it is told of one.
LEMMA GuardMeant ==
  ASSUME Inv, HistoryInv, QueueStep, EInv, UInv, NEW w \in WorkerIds, GuardBeats(w)
  PROVE  WorkersMeant' /\ CallsMeant' /\ EndsAsked
<1> DEFINE t == worker[w].task
<1>1. CallsMeant' /\ EndsAsked
  BY CallMeant DEF GuardBeats, UInv
<1>2. worker[w] \in Worker /\ Meant(worker[w]) /\ worker[w].guard = "beating"
  BY DEF GuardBeats, EInv, UInv, WorkersMeant
<1>3. PICK g : worker' = [worker EXCEPT ![w] = g] /\ Meant(g)
  <2>1. CASE \E g \in Worker : Missed(w, g) /\ worker' = [worker EXCEPT ![w] = g]
    <3>1. PICK g \in Worker : Missed(w, g) /\ worker' = [worker EXCEPT ![w] = g]
      BY <2>1
    <3>2. /\ g.pc = worker[w].pc /\ g.task = worker[w].task
          /\ g.guard = "cancel" => worker[w].guard = "cancel"
      BY <1>2, <3>1 DEF Missed, Worker
    <3> QED
      BY <1>2, <3>1, <3>2 DEF Meant
  <2>2. CASE worker' = [worker EXCEPT ![w].misses = 0,
                          ![w].guard = IF Answer(t, w) = "ok" THEN @ ELSE Answer(t, w)]
    <3> DEFINE e == IF Answer(t, w) = "ok" THEN worker[w].guard ELSE Answer(t, w)
               g == [worker[w] EXCEPT !.misses = 0, !.guard = e]
    <3>1. e = "cancel" => Asked(t)
      BY <1>2, AnswerMeant DEF UInv
    <3>2. worker' = [worker EXCEPT ![w] = g]
      BY <2>2 DEF EInv
    <3> HIDE DEF e
    <3>3. g.pc = worker[w].pc /\ g.task = t /\ g.guard = e
      BY <1>2 DEF Worker
    <3>4. Meant(g)
      <4> HIDE DEF g
      <4> QED
        BY <1>2, <3>1, <3>3 DEF Meant
    <3> QED
      BY <3>2, <3>4
  <2> QED
    BY <2>1, <2>2 DEF GuardBeats
<1> QED
  BY <1>1, <1>3, OneMovesMeant DEF UInv

LEMMA LateCallMeant ==
  ASSUME Inv, QueueStep, UInv, NEW call \in LateCall, LateCallEnds(call)
  PROVE  WorkersMeant' /\ CallsMeant' /\ EndsAsked
<1>1. /\ call \in late /\ late' \subseteq late /\ UNCHANGED worker /\ call.worker \in WorkerIds
      /\ call.op = "cancelled" => Asked(call.task)
  BY DEF LateCallEnds, LateCall, UInv, CallsMeant
<1>2. EndsAsked
  <2>1. CASE ClaimTask(call.worker)
    BY <1>1, <2>1, ClaimEndsAsked
  <2>2. ASSUME NEW saved, Handled(call.op, call.task, call.worker, saved) PROVE EndsAsked
    BY <1>1, <2>2, HandledEndsAsked
  <2>3. CASE UNCHANGED vars
    BY <2>3, UnchangedEndsAsked DEF vars
  <2> QED
    BY <2>1, <2>2, <2>3 DEF LateCallEnds
<1> QED
  BY <1>1, <1>2, WorkersStayMeant, CallsStayMeant DEF UInv

LEMMA UInvStep ==
  ASSUME ~Faults, Inv, HistoryInv, EInv, UInv, [SystemNext]_system
  PROVE  UInv'
<1>1. QueueStep /\ CancelsAll'
  BY SystemStepIsServiceStep, ServiceQueueStep, CancelsAllStep DEF UInv
<1>2. WorkersMeant' /\ CallsMeant' /\ EndsAsked
  <2>1. ASSUME NEW w \in WorkerIds, WorkerStep(w) PROVE WorkersMeant' /\ CallsMeant' /\ EndsAsked
    BY <1>1, <2>1, PollMeant, AcceptMeant, ReportMeant, WorkMeant, GuardMeant DEF WorkerStep
  <2>2. CASE ControlPlaneStep
    BY <1>1, <2>2, UserEndsAsked, TimerEndsAsked, WorkersStayMeant, CallsStayMeant
       DEF ControlPlaneStep, UInv
  <2>3. CASE UNCHANGED system
    BY <1>1, <2>3, UnchangedEndsAsked, WorkersStayMeant, CallsStayMeant DEF system, UInv
  <2> QED
    BY <1>1, <2>1, <2>2, <2>3, LateCallMeant DEF SystemNext
<1>3. CancelledAsked'
  BY <1>1, <1>2, CancelledStays DEF UInv
<1> QED
  BY <1>1, <1>2, <1>3 DEF UInv

\* As long as no save fails and the control plane does not die inside a
\* method, whatever happens to workers and calls: a worker stops a task for
\* the user, and a task ends as cancelled, only if the user cancelled it.
THEOREM SystemOnlyCancelledByUser ==
  ASSUME Faults = FALSE
  PROVE  System => []OnlyCancelledByUser
<1>1. System => [](Inv /\ HistoryInv)
  BY SystemImplementsService, HistoryInvariant, PTL
<1>2. SystemInit => UInv
  BY DEF SystemInit, Init, QueueInit, UInv, CancelsAll, WorkersMeant, Meant, Idling, CallsMeant,
         CancelledAsked
<1>3. Inv /\ HistoryInv /\ EInv /\ UInv /\ [SystemNext]_system => UInv'
  BY UInvStep
<1>4. UInv => OnlyCancelledByUser
  BY DEF UInv, WorkersMeant, Meant, Asked, CancelledAsked, OnlyCancelledByUser
<1> QED
  BY <1>1, <1>2, <1>3, <1>4, SystemInductive, PTL DEF System
=============================================================================
