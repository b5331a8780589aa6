----------------------------- MODULE TaskQueue -----------------------------
(***************************************************************************)
(* The durable task queue of app/internal/tasks: FileRepository, one JSON  *)
(* file per task, one action per method.  Every method runs under the      *)
(* repository's mutex (and, in this program, under Service.mu), so it is   *)
(* one step.  A file is replaced by a rename, so a failed save leaves the  *)
(* previous task in place.                                                 *)
(*                                                                         *)
(* DOMAIN tasks is the set of files in the directory.  Task identities are *)
(* handed out in creation order, so "oldest CreatedAt first" is "lowest    *)
(* identity first".  A lease deadline is abstracted to what Claim asks of  *)
(* it: zero ("none"), in the future ("live") or passed ("expired").        *)
(* Payload, result, message, progress and timestamps are left out.         *)
(*                                                                         *)
(* A definition named Mut... is the definition below it with a bug in it;  *)
(* nothing uses it but the mutation runs of PROJECT.json.                  *)
(***************************************************************************)
EXTENDS Integers, FiniteSets

CONSTANTS JobIds,      \* jobs that tasks belong to
          WorkerIds,   \* worker identities (WORKER_ID)
          NoWorker,    \* the empty leaseOwner
          Types,       \* kinds of task in use; the queue never looks at them
          MaxTasks,    \* bound: tasks ever created
          MaxVersions, \* bound: capture attempts of one job
          MaxAttempts, \* Task.MaxAttempts, 2 in jobs/service.go
          Faults       \* may a save fail or the process die inside a handler?

ASSUME QueueAssumption ==
  /\ MaxTasks \in Nat /\ MaxVersions \in Nat /\ MaxAttempts \in Nat \ {0}
  /\ NoWorker \notin WorkerIds
  /\ Types \subseteq {"RECONSTRUCT", "RENDER", "DATASET"}
  /\ Faults \in BOOLEAN

VARIABLE tasks

TaskIds  == 1 .. MaxTasks
Versions == 1 .. MaxVersions
NoTask   == 0                            \* Job.CurrentTaskID = ""

Terminal == {"SUCCEEDED", "FAILED", "CANCELLED"}

Task == [job     : JobIds,
         attempt : Versions,
         type    : Types,
         state   : {"READY", "RUNNING"} \cup Terminal,
         count   : 0 .. MaxAttempts,
         owner   : WorkerIds \cup {NoWorker},
         lease   : {"none", "live", "expired"},
         cancel  : BOOLEAN]

NewTask(j, n, type) ==
  [job |-> j, attempt |-> n, type |-> type, state |-> "READY", count |-> 0,
   owner |-> NoWorker, lease |-> "none", cancel |-> FALSE]

QueueTypeOK == /\ DOMAIN tasks \in SUBSET TaskIds
               /\ tasks \in [DOMAIN tasks -> Task]

QueueInit == tasks = <<>>                \* an empty directory

----------------------------------------------------------------------------
(* Helpers. *)

\* t is the identity of the next file: newer than every existing task.
Fresh(t) == t \in TaskIds /\ \A u \in TaskIds : u \in DOMAIN tasks <=> u < t

Over(t) == tasks[t].state \in Terminal

\* RUNNING, a deadline is set, and the deadline has passed.
MutExpired(t) == tasks[t].state = "RUNNING"
Expired(t) == tasks[t].state = "RUNNING" /\ tasks[t].lease = "expired"

\* First loop of Claim: what a poll finishes off before it delivers.
CancelledBySweep(t) == tasks[t].cancel /\ (tasks[t].state = "READY" \/ Expired(t))
MutOnceMore(t) == Expired(t) /\ ~tasks[t].cancel /\ tasks[t].count > MaxAttempts
ExhaustedBySweep(t) == Expired(t) /\ ~tasks[t].cancel /\ tasks[t].count >= MaxAttempts
Swept == {t \in DOMAIN tasks : CancelledBySweep(t) \/ ExhaustedBySweep(t)}

SweptTask(t) ==
  IF CancelledBySweep(t)
    THEN [tasks[t] EXCEPT !.state = "CANCELLED", !.lease = "none"]
    ELSE [tasks[t] EXCEPT !.state = "FAILED"]        \* the lease is not cleared

\* Second loop of Claim: READY, or RUNNING past its lease with a delivery left.
\* What the sweep finished is no longer either, saved or not.
Claimable(t) ==
  /\ t \notin Swept /\ ~tasks[t].cancel
  /\ \/ tasks[t].state = "READY"
     \/ Expired(t) /\ tasks[t].count < MaxAttempts

MutOldestUnbounded(t) ==
  /\ Expired(t) \/ tasks[t].state = "READY"
  /\ \A u \in DOMAIN tasks : Claimable(u) => t <= u
MutHeadOfLine(t) == Claimable(t) /\ \A u \in DOMAIN tasks : ~Over(u) => t <= u
OldestClaimable(t) ==
  Claimable(t) /\ \A u \in DOMAIN tasks : Claimable(u) => t <= u

MutUncounted(t, w) ==
  [tasks[t] EXCEPT !.state = "RUNNING", !.owner = w, !.lease = "live"]
ClaimedTask(t, w) ==
  [tasks[t] EXCEPT !.state = "RUNNING", !.count = @ + 1, !.owner = w, !.lease = "live"]

\* Heartbeat, Complete, Fail and AcknowledgeCancel: else ErrLeaseOwner.
MutAnyState(t, w) == tasks[t].owner = w
MutAnyOwner(t, w) == tasks[t].state = "RUNNING"
HoldsLease(t, w) == tasks[t].state = "RUNNING" /\ tasks[t].owner = w

Finished(t, outcome) == [tasks[t] EXCEPT !.state = outcome, !.lease = "none"]

\* CancelByJob works through the unfinished tasks of the job in list order.
Stoppable(j) == {t \in DOMAIN tasks : tasks[t].job = j /\ ~Over(t)}

StoppedTask(t) ==
  [tasks[t] EXCEPT !.cancel = TRUE,
                   !.state  = IF @ = "READY" THEN "CANCELLED" ELSE @]

\* S is what a pass over the set T in list order did before it stopped.
PassOver(S, T) ==
  /\ S \subseteq T
  /\ \A t \in T, u \in S : t < u => t \in S
  /\ Faults \/ S = T

\* The saves of the sweep that fail are ignored: `lost' are those tasks.
MayLose(lost) == lost \subseteq Swept /\ (Faults \/ lost = {})

AfterSweep(lost) ==
  [t \in DOMAIN tasks |-> IF t \in Swept \ lost THEN SweptTask(t) ELSE tasks[t]]

----------------------------------------------------------------------------
(* One action per method. *)

Create(t, j, n, type) ==
  /\ Fresh(t)
  /\ tasks' = [u \in DOMAIN tasks \cup {t} |-> IF u = t THEN NewTask(j, n, type) ELSE tasks[u]]

\* Only the rollback of a creation deletes, before anything else can run.
Delete(t) ==
  /\ t \in DOMAIN tasks /\ tasks[t].state = "READY"
  /\ \A u \in DOMAIN tasks : u <= t
  /\ tasks' = [u \in DOMAIN tasks \ {t} |-> tasks[u]]

\* Claim, in its three endings: it hands out the oldest claimable task; it
\* finds none; or the save of the claimed task fails (or the process dies
\* before it), and only the sweep has happened.
ClaimDelivers(t, w, lost) ==
  /\ MayLose(lost)
  /\ t \in DOMAIN tasks /\ OldestClaimable(t)
  /\ tasks' = [AfterSweep(lost) EXCEPT ![t] = ClaimedTask(t, w)]

ClaimFindsNone(lost) ==
  /\ MayLose(lost)
  /\ \A t \in DOMAIN tasks : ~Claimable(t)
  /\ tasks' = AfterSweep(lost)

ClaimAborts(lost) ==
  /\ Faults /\ MayLose(lost)
  /\ tasks' = AfterSweep(lost)

\* An expired lease that nobody reclaimed is revived: no deadline is checked.
Heartbeat(t, w) ==
  /\ t \in DOMAIN tasks /\ HoldsLease(t, w)
  /\ tasks' = [tasks EXCEPT ![t].lease = "live"]

Complete(t, w) ==
  /\ t \in DOMAIN tasks /\ HoldsLease(t, w)
  /\ tasks' = [tasks EXCEPT ![t] = Finished(t, "SUCCEEDED")]

Fail(t, w) ==
  /\ t \in DOMAIN tasks /\ HoldsLease(t, w)
  /\ tasks' = [tasks EXCEPT ![t] = Finished(t, "FAILED")]

AcknowledgeCancel(t, w) ==
  /\ t \in DOMAIN tasks /\ HoldsLease(t, w)
  /\ tasks' = [tasks EXCEPT ![t] = Finished(t, "CANCELLED")]

\* The saves happen one by one; a failing one (or a crash) ends the pass.
CancelByJob(j, stopped) ==
  /\ PassOver(stopped, Stoppable(j))
  /\ tasks' = [t \in DOMAIN tasks |-> IF t \in stopped THEN StoppedTask(t) ELSE tasks[t]]

\* Time: the deadline of a running task passes.
LeaseExpires(t) ==
  /\ t \in DOMAIN tasks
  /\ tasks[t].state = "RUNNING" /\ tasks[t].lease = "live"
  /\ tasks' = [tasks EXCEPT ![t].lease = "expired"]

Claim(w) ==
  \E lost \in SUBSET Swept :
    \/ \E t \in TaskIds : ClaimDelivers(t, w, lost)
    \/ ClaimFindsNone(lost)
    \/ ClaimAborts(lost)

QueueNext ==
  \/ \E t \in TaskIds, j \in JobIds, n \in Versions, type \in Types : Create(t, j, n, type)
  \/ \E t \in TaskIds : Delete(t)
  \/ \E w \in WorkerIds : Claim(w)
  \/ \E t \in TaskIds, w \in WorkerIds : Heartbeat(t, w)
  \/ \E t \in TaskIds, w \in WorkerIds : Complete(t, w)
  \/ \E t \in TaskIds, w \in WorkerIds : Fail(t, w)
  \/ \E t \in TaskIds, w \in WorkerIds : AcknowledgeCancel(t, w)
  \/ \E j \in JobIds, stopped \in SUBSET TaskIds : CancelByJob(j, stopped)
  \/ \E t \in TaskIds : LeaseExpires(t)

QueueSpec == QueueInit /\ [][QueueNext]_tasks

\* Idle workers poll every few seconds, for ever.
QueueFairness == WF_tasks(\E w \in WorkerIds : Claim(w))
FairQueueSpec == QueueSpec /\ QueueFairness

----------------------------------------------------------------------------
(* Properties. *)

\* A task is handed out at most MaxAttempts times; whoever runs it is
\* recorded as its owner with a deadline; and a task waiting in the queue has
\* never been handed out (FileRepository.Claim, "at-least-once delivery").
DeliveryBound ==
  \A t \in DOMAIN tasks :
    /\ tasks[t].state = "RUNNING" =>
         tasks[t].count \in 1 .. MaxAttempts /\ tasks[t].owner # NoWorker /\ tasks[t].lease # "none"
    /\ tasks[t].state = "READY" =>
         tasks[t].count = 0 /\ tasks[t].owner = NoWorker /\ ~tasks[t].cancel
    /\ tasks[t].state \in {"SUCCEEDED", "FAILED"} => tasks[t].count >= 1

\* A worker that keeps its lease keeps its task: a delivery takes a running
\* task only once its deadline has passed, and the poll that delivers leaves
\* every other running task with its owner (FileRepository.Claim).
LeaseProtectsHolder ==
  [][\A t \in DOMAIN tasks :
       tasks[t].state = "RUNNING" /\ tasks[t].lease = "live"
         => tasks'[t].owner = tasks[t].owner /\ tasks'[t].count = tasks[t].count]_tasks

\* A task that waits in the queue, or whose worker is gone, does not wait for
\* ever: some poll hands it out or finishes it off, or its worker comes back
\* (the order of FileRepository.Claim starves no task).
Waiting(t) == t \in DOMAIN tasks /\ (tasks[t].state = "READY" \/ Expired(t))
NothingStarves == \A t \in TaskIds : Waiting(t) ~> ~Waiting(t)

\* The queue implements the contract of one durable task: bounded deliveries,
\* one outcome, nothing delivered after its cancellation was requested.
PhaseName == [READY     |-> "queued",
              RUNNING   |-> "delivered",
              SUCCEEDED |-> "succeeded",
              FAILED    |-> "failed",
              CANCELLED |-> "cancelled"]

PhaseOf(t) == IF t \in DOMAIN tasks THEN PhaseName[tasks[t].state] ELSE "none"

Lifecycle == INSTANCE TaskLifecycle WITH
  MaxDeliveries <- MaxAttempts,
  phase         <- [t \in TaskIds |-> PhaseOf(t)],
  deliveries    <- [t \in TaskIds |-> IF t \in DOMAIN tasks THEN tasks[t].count ELSE 0],
  stopping      <- {t \in DOMAIN tasks : tasks[t].cancel}

ImplementsLifecycle == Lifecycle!Spec
=============================================================================
