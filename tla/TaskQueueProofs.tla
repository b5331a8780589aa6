-------------------------- MODULE TaskQueueProofs --------------------------
(***************************************************************************)
(* Theorems about the task queue, for every value of the constants: its    *)
(* type and delivery bound are invariant, leases protect their holders,    *)
(* and the queue implements the contract TaskLifecycle.                    *)
(*                                                                         *)
(* Every method changes the task files one by one, so the proofs go        *)
(* through one lemma about a single task: RowStep lists what a step may    *)
(* make of it, and RowOK is what every task satisfies.                     *)
(***************************************************************************)
EXTENDS TaskQueue, TLAPS

\* The invariant of one task, inductive together with its type.
RowOK(task) ==
  /\ task \in Task
  /\ task.state = "RUNNING" =>
       task.count >= 1 /\ task.owner # NoWorker /\ task.lease # "none"
  /\ task.state = "READY" =>
       task.count = 0 /\ task.owner = NoWorker /\ ~task.cancel
  /\ task.state \in {"SUCCEEDED", "FAILED"} => task.count >= 1

IInv == /\ DOMAIN tasks \in SUBSET TaskIds
        /\ tasks = [t \in DOMAIN tasks |-> tasks[t]]
        /\ \A t \in DOMAIN tasks : RowOK(tasks[t])

\* What one step may make of an existing task.
RowNext(t) ==
  \/ tasks'[t] = tasks[t]
  \/ t \in Swept /\ tasks'[t] = SweptTask(t)
  \/ OldestClaimable(t) /\ \E w \in WorkerIds : tasks'[t] = ClaimedTask(t, w)
  \/ tasks[t].state = "RUNNING" /\ tasks'[t] = [tasks[t] EXCEPT !.lease = "live"]
  \/ tasks[t].state = "RUNNING" /\ \E o \in Terminal : tasks'[t] = Finished(t, o)
  \/ ~Over(t) /\ tasks'[t] = StoppedTask(t)
  \/ tasks[t].state = "RUNNING" /\ tasks'[t] = [tasks[t] EXCEPT !.lease = "expired"]

\* A task that did not exist before is a new one.
RowNew(t) == \E j \in JobIds, n \in Versions, type \in Types : tasks'[t] = NewTask(j, n, type)

\* The invariant implies the two invariants the runs check.
LEMMA InvariantImplies == IInv => QueueTypeOK /\ DeliveryBound
<1> SUFFICES ASSUME IInv PROVE QueueTypeOK /\ DeliveryBound
  OBVIOUS
<1>1. QueueTypeOK
  BY DEF IInv, QueueTypeOK, RowOK
<1>2. DeliveryBound
  BY QueueAssumption DEF IInv, DeliveryBound, RowOK, Task
<1> QED
  BY <1>1, <1>2

\* Handing a task to a worker keeps it in order while the count allows it.
LEMMA DeliveredRow ==
  ASSUME NEW task \in Task, NEW w \in WorkerIds, NEW c \in 1 .. MaxAttempts
  PROVE  RowOK([task EXCEPT !.state = "RUNNING", !.count = c, !.owner = w, !.lease = "live"])
<1> DEFINE given == [task EXCEPT !.state = "RUNNING", !.count = c, !.owner = w, !.lease = "live"]
<1>1. given \in Task
  <2>1. /\ "RUNNING" \in {"READY", "RUNNING"} \cup Terminal /\ c \in 0 .. MaxAttempts
        /\ w \in WorkerIds \cup {NoWorker} /\ "live" \in {"none", "live", "expired"}
    BY QueueAssumption
  <2> QED
    BY <2>1, Zenon DEF Task
<1>2. given.state = "RUNNING" /\ given.count = c /\ given.owner = w /\ given.lease = "live"
  BY DEF Task
<1> QED
  BY <1>1, <1>2, QueueAssumption DEF RowOK

\* Whatever a step makes of a task that is in order is in order.
LEMMA RowPreserved ==
  ASSUME IInv, NEW t \in DOMAIN tasks, RowNext(t)
  PROVE  RowOK(tasks'[t])
<1>0. RowOK(tasks[t])
  BY DEF IInv
<1>3. CASE OldestClaimable(t) /\ \E w \in WorkerIds : tasks'[t] = ClaimedTask(t, w)
  <2>1. PICK w \in WorkerIds : tasks'[t] = ClaimedTask(t, w)
    BY <1>3
  <2>2. tasks[t] \in Task /\ tasks[t].count + 1 \in 1 .. MaxAttempts
    BY <1>0, <1>3, QueueAssumption DEF OldestClaimable, Claimable, Expired, RowOK, Task
  <2>3. RowOK([tasks[t] EXCEPT !.state = "RUNNING", !.count = tasks[t].count + 1,
                               !.owner = w, !.lease = "live"])
    BY <2>2, DeliveredRow, Zenon
  <2> QED
    BY <2>1, <2>3, Zenon DEF ClaimedTask
<1> USE QueueAssumption DEF RowOK, Task, Terminal
<1>1. CASE tasks'[t] = tasks[t]
  BY <1>0, <1>1
<1>2. CASE t \in Swept /\ tasks'[t] = SweptTask(t)
  BY <1>0, <1>2 DEF Swept, SweptTask, CancelledBySweep, ExhaustedBySweep, Expired
<1>4. CASE tasks[t].state = "RUNNING" /\ tasks'[t] = [tasks[t] EXCEPT !.lease = "live"]
  BY <1>0, <1>4
<1>5. CASE tasks[t].state = "RUNNING" /\ \E o \in Terminal : tasks'[t] = Finished(t, o)
  BY <1>0, <1>5 DEF Finished
<1>6. CASE ~Over(t) /\ tasks'[t] = StoppedTask(t)
  BY <1>0, <1>6 DEF Over, StoppedTask
<1>7. CASE tasks[t].state = "RUNNING" /\ tasks'[t] = [tasks[t] EXCEPT !.lease = "expired"]
  BY <1>0, <1>7
<1> QED
  BY <1>1, <1>2, <1>3, <1>4, <1>5, <1>6, <1>7 DEF RowNext

\* A new task is in order.
LEMMA NewRowOK ==
  ASSUME NEW j \in JobIds, NEW n \in Versions, NEW type \in Types
  PROVE  RowOK(NewTask(j, n, type))
BY QueueAssumption DEF RowOK, NewTask, Task, Terminal

\* What a step is made of: existing tasks change as RowNext says, new ones are
\* new, and only a task waiting in the queue disappears.
StepShape ==
  /\ DOMAIN tasks' \in SUBSET TaskIds
  /\ tasks' = [t \in DOMAIN tasks' |-> tasks'[t]]
  /\ \A t \in DOMAIN tasks : IF t \in DOMAIN tasks' THEN RowNext(t)
                                                     ELSE tasks[t].state = "READY"
  /\ \A t \in DOMAIN tasks' \ DOMAIN tasks : RowNew(t)

\* The sweep alone, and the sweep with a delivery.
LEMMA SweepShape ==
  ASSUME IInv, NEW lost, tasks' = AfterSweep(lost)
  PROVE  StepShape
<1>1. DOMAIN tasks' = DOMAIN tasks /\ tasks' = [t \in DOMAIN tasks |-> tasks'[t]]
  BY DEF AfterSweep
<1>2. ASSUME NEW t \in DOMAIN tasks PROVE RowNext(t)
  BY DEF AfterSweep, RowNext
<1> QED
  BY <1>1, <1>2 DEF StepShape, IInv

LEMMA DeliveryShape ==
  ASSUME IInv, NEW t \in TaskIds, NEW w \in WorkerIds, NEW lost, ClaimDelivers(t, w, lost)
  PROVE  StepShape
<1>1. /\ t \in DOMAIN tasks /\ OldestClaimable(t)
      /\ tasks' = [AfterSweep(lost) EXCEPT ![t] = ClaimedTask(t, w)]
  BY DEF ClaimDelivers
<1>2. DOMAIN tasks' = DOMAIN tasks /\ tasks' = [u \in DOMAIN tasks |-> tasks'[u]]
  BY <1>1 DEF AfterSweep
<1>3. ASSUME NEW u \in DOMAIN tasks PROVE RowNext(u)
  <2>1. CASE u = t
    BY <1>1, <2>1 DEF AfterSweep, RowNext
  <2>2. CASE u # t
    BY <1>1, <2>2 DEF AfterSweep, RowNext
  <2> QED
    BY <2>1, <2>2
<1> QED
  BY <1>2, <1>3 DEF StepShape, IInv

\* A step that replaces the file of one task by an allowed successor.
LEMMA OneRowShape ==
  ASSUME IInv, NEW t \in DOMAIN tasks, NEW row,
         tasks' = [tasks EXCEPT ![t] = row], tasks'[t] = row => RowNext(t)
  PROVE  StepShape
<1>1. DOMAIN tasks' = DOMAIN tasks /\ tasks' = [u \in DOMAIN tasks |-> tasks'[u]]
  BY DEF IInv
<1>2. tasks'[t] = row /\ \A u \in DOMAIN tasks : u # t => tasks'[u] = tasks[u]
  BY DEF IInv
<1>3. ASSUME NEW u \in DOMAIN tasks PROVE RowNext(u)
  BY <1>2 DEF RowNext
<1> QED
  BY <1>1, <1>3 DEF StepShape, IInv

\* Every step of the queue has the shape, one case per method.
LEMMA EveryStepShape == ASSUME IInv, QueueNext PROVE StepShape
<1>1. ASSUME NEW t \in TaskIds, NEW j \in JobIds, NEW n \in Versions, NEW type \in Types,
             Create(t, j, n, type)
      PROVE  StepShape
  <2>1. /\ DOMAIN tasks' = DOMAIN tasks \cup {t} /\ t \notin DOMAIN tasks
        /\ tasks' = [u \in DOMAIN tasks' |-> tasks'[u]]
    BY <1>1 DEF Create, Fresh, TaskIds
  <2>2. ASSUME NEW u \in DOMAIN tasks PROVE RowNext(u)
    BY <1>1, <2>1 DEF Create, RowNext
  <2>3. RowNew(t)
    BY <1>1 DEF Create, RowNew
  <2> QED
    BY <2>1, <2>2, <2>3 DEF StepShape, IInv
<1>2. ASSUME NEW t \in TaskIds, Delete(t) PROVE StepShape
  <2>1. DOMAIN tasks' = DOMAIN tasks \ {t} /\ tasks' = [u \in DOMAIN tasks' |-> tasks'[u]]
    BY <1>2 DEF Delete
  <2>2. ASSUME NEW u \in DOMAIN tasks'  PROVE RowNext(u)
    BY <1>2, <2>1 DEF Delete, RowNext
  <2> QED
    BY <1>2, <2>1, <2>2 DEF StepShape, IInv, Delete
<1>3. ASSUME NEW w \in WorkerIds, Claim(w) PROVE StepShape
  BY <1>3, SweepShape, DeliveryShape DEF Claim, ClaimFindsNone, ClaimAborts
<1>4. ASSUME NEW t \in TaskIds, NEW w \in WorkerIds, Heartbeat(t, w) PROVE StepShape
  BY <1>4, OneRowShape DEF Heartbeat, HoldsLease, RowNext
<1>5. ASSUME NEW t \in TaskIds, NEW w \in WorkerIds,
             Complete(t, w) \/ Fail(t, w) \/ AcknowledgeCancel(t, w)
      PROVE  StepShape
  <2>1. PICK o \in Terminal :
          /\ t \in DOMAIN tasks /\ tasks[t].state = "RUNNING"
          /\ tasks' = [tasks EXCEPT ![t] = Finished(t, o)]
    BY <1>5 DEF Complete, Fail, AcknowledgeCancel, HoldsLease, Terminal
  <2>2. tasks'[t] = Finished(t, o) => RowNext(t)
    BY <2>1 DEF RowNext
  <2> QED
    BY <2>1, <2>2, OneRowShape
<1>6. ASSUME NEW j \in JobIds, NEW stopped, CancelByJob(j, stopped) PROVE StepShape
  <2>1. DOMAIN tasks' = DOMAIN tasks /\ tasks' = [t \in DOMAIN tasks |-> tasks'[t]]
    BY <1>6 DEF CancelByJob
  <2>2. ASSUME NEW t \in DOMAIN tasks PROVE RowNext(t)
    BY <1>6 DEF CancelByJob, PassOver, Stoppable, RowNext
  <2> QED
    BY <2>1, <2>2 DEF StepShape, IInv
<1>7. ASSUME NEW t \in TaskIds, LeaseExpires(t) PROVE StepShape
  BY <1>7, OneRowShape DEF LeaseExpires, RowNext
<1> QED
  BY <1>1, <1>2, <1>3, <1>4, <1>5, <1>6, <1>7 DEF QueueNext

----------------------------------------------------------------------------
(* The theorems. *)

LEMMA InitInvariant == QueueInit => IInv
BY DEF QueueInit, IInv, RowOK

LEMMA StepInvariant == IInv /\ [QueueNext]_tasks => IInv'
<1> SUFFICES ASSUME IInv, [QueueNext]_tasks PROVE IInv'
  OBVIOUS
<1>1. CASE QueueNext
  <2>1. StepShape
    BY <1>1, EveryStepShape
  <2>2. ASSUME NEW t \in DOMAIN tasks' PROVE RowOK(tasks'[t])
    BY <2>1, RowPreserved, NewRowOK DEF StepShape, RowNew
  <2> QED
    BY <2>1, <2>2 DEF StepShape, IInv
<1>2. CASE UNCHANGED tasks
  BY <1>2 DEF IInv
<1> QED
  BY <1>1, <1>2

\* The inductive invariant holds in every reachable state of the queue.
THEOREM QueueInvariant == QueueSpec => []IInv
<1>1. QueueInit => IInv
  BY InitInvariant
<1>2. IInv /\ [QueueNext]_tasks => IInv'
  BY StepInvariant
<1> QED
  BY <1>1, <1>2, PTL DEF QueueSpec

\* Every file always holds a task of the type the code's struct allows.
THEOREM QueueTypeCorrect == QueueSpec => []QueueTypeOK
BY QueueInvariant, InvariantImplies, PTL

\* No task is ever delivered more often than MaxAttempts, whichever workers
\* poll, die or come back, and whichever saves fail.
THEOREM QueueDeliveryBound == QueueSpec => []DeliveryBound
BY QueueInvariant, InvariantImplies, PTL

\* A step leaves a running task whose lease is live with its worker.
LEMMA StepProtectsHolder ==
  ASSUME IInv, [QueueNext]_tasks, NEW t \in DOMAIN tasks,
         tasks[t].state = "RUNNING", tasks[t].lease = "live"
  PROVE  tasks'[t].owner = tasks[t].owner /\ tasks'[t].count = tasks[t].count
<1>1. CASE QueueNext
  <2>1. RowNext(t)
    BY <1>1, EveryStepShape DEF StepShape
  <2>2. tasks[t] \in Task
    BY DEF IInv, RowOK
  <2>3. ~Expired(t) /\ t \notin Swept /\ ~OldestClaimable(t)
    BY DEF Expired, Swept, CancelledBySweep, ExhaustedBySweep, OldestClaimable, Claimable
  <2> QED
    BY <2>1, <2>2, <2>3 DEF RowNext, Finished, StoppedTask, Task
<1>2. CASE UNCHANGED tasks
  BY <1>2
<1> QED
  BY <1>1, <1>2

\* A worker that keeps its lease keeps its task.
THEOREM LeaseProtectsHolderHolds == QueueSpec => LeaseProtectsHolder
<1>1. IInv /\ [QueueNext]_tasks =>
        [\A t \in DOMAIN tasks :
           tasks[t].state = "RUNNING" /\ tasks[t].lease = "live"
             => tasks'[t].owner = tasks[t].owner /\ tasks'[t].count = tasks[t].count]_tasks
  BY StepProtectsHolder
<1> QED
  BY <1>1, QueueInvariant, PTL DEF QueueSpec, LeaseProtectsHolder

----------------------------------------------------------------------------
(* The queue implements the contract of one task. *)

LEMMA LifecycleInit == QueueInit => Lifecycle!Init
<1> SUFFICES ASSUME QueueInit PROVE Lifecycle!Init
  OBVIOUS
<1>1. DOMAIN tasks = {}
  BY DEF QueueInit
<1>2. \A t \in TaskIds : PhaseOf(t) = "none"
  BY <1>1 DEF PhaseOf
<1>4. {t \in DOMAIN tasks : tasks[t].cancel} = {}
  BY <1>1
<1>5. [t \in TaskIds |-> IF t \in DOMAIN tasks THEN tasks[t].count ELSE 0] = [t \in TaskIds |-> 0]
  BY <1>1
<1>6. [t \in TaskIds |-> PhaseOf(t)] = [t \in TaskIds |-> "none"]
  BY <1>2, Zenon
<1> QED
  BY <1>4, <1>5, <1>6, Zenon DEF Lifecycle!Init

LEMMA LifecycleTypeOK == IInv => Lifecycle!TypeOK
BY QueueAssumption DEF IInv, RowOK, Task, Terminal, PhaseOf, PhaseName, Lifecycle!TypeOK, Lifecycle!Phases, Lifecycle!Outcomes

\* The actions of the contract that a task may take, one by one.
LEMMA LifecycleStep ==
  ASSUME IInv, StepShape, NEW t \in TaskIds
  PROVE  Lifecycle!Step(t)
<1> USE DEF PhaseOf, PhaseName
<1>1. CASE t \notin DOMAIN tasks /\ t \notin DOMAIN tasks'
  BY <1>1 DEF Lifecycle!Step, Lifecycle!Idle
<1>2. CASE t \notin DOMAIN tasks /\ t \in DOMAIN tasks'
  <2>1. tasks'[t].state = "READY" /\ tasks'[t].count = 0 /\ tasks'[t].cancel = FALSE
    BY <1>2 DEF StepShape, RowNew, NewTask
  <2> QED
    BY <1>2, <2>1 DEF Lifecycle!Step, Lifecycle!Submit
<1>3. CASE t \in DOMAIN tasks /\ t \notin DOMAIN tasks'
  <2>1. tasks[t].state = "READY"
    BY <1>3 DEF StepShape
  <2> QED
    BY <1>3, <2>1 DEF Lifecycle!Step, Lifecycle!Withdraw
<1>4. CASE t \in DOMAIN tasks /\ t \in DOMAIN tasks'
  <2> USE <1>4
  <2>0. RowNext(t) /\ RowOK(tasks[t])
    BY DEF StepShape, IInv
  <2>a. tasks[t] \in Task
    BY <2>0 DEF RowOK
  <2>1. CASE tasks'[t] = tasks[t]
    BY <2>1 DEF Lifecycle!Step, Lifecycle!Idle
  <2>2. CASE t \in Swept /\ tasks'[t] = SweptTask(t)
    <3>1. /\ tasks[t].state = "RUNNING" /\ tasks'[t].state \in {"CANCELLED", "FAILED"}
          /\ tasks'[t].count = tasks[t].count /\ tasks'[t].cancel = tasks[t].cancel
      BY <2>0, <2>2, <2>a DEF Swept, SweptTask, CancelledBySweep, ExhaustedBySweep, Expired, RowOK, Task
    <3> QED
      BY <3>1 DEF Lifecycle!Step, Lifecycle!Conclude, Lifecycle!Outcomes
  <2>3. CASE OldestClaimable(t) /\ \E w \in WorkerIds : tasks'[t] = ClaimedTask(t, w)
    <3>1. /\ tasks[t].state \in {"READY", "RUNNING"} /\ tasks'[t].state = "RUNNING"
          /\ tasks'[t].count = tasks[t].count + 1
          /\ tasks[t].cancel = FALSE /\ tasks'[t].cancel = FALSE
      BY <2>3, <2>a DEF OldestClaimable, Claimable, ClaimedTask, Expired, Task
    <3> QED
      BY <3>1 DEF Lifecycle!Step, Lifecycle!Deliver
  <2>4. CASE \/ tasks[t].state = "RUNNING" /\ tasks'[t] = [tasks[t] EXCEPT !.lease = "live"]
             \/ tasks[t].state = "RUNNING" /\ tasks'[t] = [tasks[t] EXCEPT !.lease = "expired"]
    <3>1. /\ tasks'[t].state = tasks[t].state
          /\ tasks'[t].count = tasks[t].count /\ tasks'[t].cancel = tasks[t].cancel
      BY <2>4, <2>a DEF Task
    <3> QED
      BY <3>1 DEF Lifecycle!Step, Lifecycle!Idle
  <2>5. CASE tasks[t].state = "RUNNING" /\ \E o \in Terminal : tasks'[t] = Finished(t, o)
    <3>1. /\ tasks'[t].state \in Terminal
          /\ tasks'[t].count = tasks[t].count /\ tasks'[t].cancel = tasks[t].cancel
      BY <2>5, <2>a DEF Finished, Task
    <3> QED
      BY <2>5, <3>1 DEF Lifecycle!Step, Lifecycle!Conclude, Lifecycle!Outcomes, Terminal
  <2>6. CASE ~Over(t) /\ tasks'[t] = StoppedTask(t)
    <3>1. /\ tasks[t].state \in {"READY", "RUNNING"}
          /\ tasks'[t].state = IF tasks[t].state = "READY" THEN "CANCELLED" ELSE "RUNNING"
          /\ tasks'[t].count = tasks[t].count /\ tasks'[t].cancel = TRUE
      BY <2>6, <2>a DEF Over, StoppedTask, Task
    <3> QED
      BY <3>1 DEF Lifecycle!Step, Lifecycle!RequestCancel
  <2> QED
    BY <2>0, <2>1, <2>2, <2>3, <2>4, <2>5, <2>6 DEF RowNext
<1> QED
  BY <1>1, <1>2, <1>3, <1>4

\* Only the oldest claimable task is delivered, and there is only one.
LEMMA OneDelivery ==
  ASSUME IInv, StepShape
  PROVE  Lifecycle!AtMostOneDelivery
<1> DEFINE Count(t)  == IF t \in DOMAIN tasks THEN tasks[t].count ELSE 0
           CountP(t) == IF t \in DOMAIN tasks' THEN tasks'[t].count ELSE 0
<1>1. ASSUME NEW t \in TaskIds, CountP(t) > Count(t)
      PROVE  t \in DOMAIN tasks /\ OldestClaimable(t)
  <2>1. t \in DOMAIN tasks'
    <3>1. CASE t \in DOMAIN tasks
      BY <1>1, <3>1, QueueAssumption DEF IInv, RowOK, Task
    <3>2. CASE t \notin DOMAIN tasks
      BY <1>1, <3>2
    <3> QED
      BY <3>1, <3>2
  <2>2. t \in DOMAIN tasks
    BY <1>1, <2>1 DEF StepShape, RowNew, NewTask
  <2>3. RowNext(t) /\ tasks[t] \in Task /\ tasks'[t].count > tasks[t].count
    BY <1>1, <2>1, <2>2 DEF StepShape, IInv, RowOK
  <2>4. /\ SweptTask(t).count = tasks[t].count /\ StoppedTask(t).count = tasks[t].count
        /\ \A o \in Terminal : Finished(t, o).count = tasks[t].count
    BY <2>3 DEF SweptTask, StoppedTask, Finished, Task
  <2>5. /\ [tasks[t] EXCEPT !.lease = "live"].count = tasks[t].count
        /\ [tasks[t] EXCEPT !.lease = "expired"].count = tasks[t].count
    BY <2>3 DEF Task
  <2>6. tasks'[t].count # tasks[t].count
    BY <2>3, QueueAssumption DEF Task
  <2> QED
    BY <2>2, <2>3, <2>4, <2>5, <2>6, Zenon DEF RowNext
<1>2. ASSUME NEW t \in TaskIds, NEW u \in TaskIds, CountP(t) > Count(t), CountP(u) > Count(u)
      PROVE  t = u
  <2>1. t <= u /\ u <= t
    BY <1>1, <1>2 DEF OldestClaimable
  <2> QED
    BY <2>1, QueueAssumption DEF TaskIds
<1> QED
  BY <1>2 DEF Lifecycle!AtMostOneDelivery

LEMMA LifecycleNext == IInv /\ IInv' /\ [QueueNext]_tasks => [Lifecycle!Next]_(Lifecycle!vars)
<1> SUFFICES ASSUME IInv, IInv', [QueueNext]_tasks PROVE [Lifecycle!Next]_(Lifecycle!vars)
  OBVIOUS
<1>1. CASE QueueNext
  <2>1. StepShape
    BY <1>1, EveryStepShape
  <2>2. Lifecycle!TypeOK'
    BY LifecycleTypeOK, PTL
  <2> QED
    BY <2>1, <2>2, LifecycleStep, OneDelivery DEF Lifecycle!Next
<1>2. CASE UNCHANGED tasks
  BY <1>2 DEF Lifecycle!vars, PhaseOf
<1> QED
  BY <1>1, <1>2

\* FileRepository implements the contract of one durable task: at most
\* MaxAttempts deliveries, one outcome, no delivery once cancellation is asked.
THEOREM QueueImplementsLifecycle == QueueSpec => ImplementsLifecycle
<1>1. QueueSpec => []IInv
  BY QueueInvariant
<1>2. QueueInit => Lifecycle!Init
  BY LifecycleInit
<1>3. IInv /\ IInv' /\ [QueueNext]_tasks => [Lifecycle!Next]_(Lifecycle!vars)
  BY LifecycleNext
<1> QED
  BY <1>1, <1>2, <1>3, PTL DEF QueueSpec, ImplementsLifecycle, Lifecycle!Spec
=============================================================================
