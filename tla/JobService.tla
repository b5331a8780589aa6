----------------------------- MODULE JobService -----------------------------
(***************************************************************************)
(* The control plane of app/internal/jobs: Service, one action per method, *)
(* over the job files (jobs) and the task queue (tasks, from TaskQueue).   *)
(* Service.mu is held through a method, so without faults it is one step.  *)
(* A method that changes both files writes the task first and the job      *)
(* second: with Faults, `saved' = FALSE is the step in which the process   *)
(* died, or the save and its rollback failed, between the two.  A failed   *)
(* save that is rolled back changes nothing and is a stuttering step.      *)
(*                                                                         *)
(* DOMAIN jobs is the set of job directories.  A path to cleaned.ply, to   *)
(* renders or to dataset.zip is the number of the attempt whose directory  *)
(* it lies in, NoPath when empty.  Names, messages, error texts, progress, *)
(* revision and timestamps are left out.                                   *)
(***************************************************************************)
EXTENDS TaskQueue

ASSUME ServiceAssumption == Types = {"RECONSTRUCT", "RENDER", "DATASET"}

VARIABLE jobs

vars == <<jobs, tasks>>

NoPath     == 0
Path       == 0 .. MaxVersions
Processing == {"RECONSTRUCTING", "RENDERING", "DATASET_BUILDING"}
JobStates  == {"CREATED", "REVIEW_READY", "EDITING", "RENDER_READY", "COMPLETED",
               "FAILED", "CANCELLED"} \cup Processing

Attempt == [state      : {"RECONSTRUCTING", "REVIEW_READY", "FAILED", "CANCELLED"},
            splat      : BOOLEAN,             \* splatPath is set
            cleaned    : Path,
            renderDir  : Path,
            datasetZip : Path]

NewAttempt(state, splat) ==
  [state |-> state, splat |-> splat,
   cleaned |-> NoPath, renderDir |-> NoPath, datasetZip |-> NoPath]

\* The attempts of a job by number.
Attempts == UNION {[D -> Attempt] : D \in SUBSET Versions}

Job == [state      : JobStates,
        active     : 0 .. MaxVersions,
        attempts   : Attempts,
        cleaned    : Path,
        renderDir  : Path,
        datasetZip : Path,
        background : BOOLEAN,                 \* backgroundDir is set
        current    : TaskIds \cup {NoTask},
        cancel     : BOOLEAN]

NewJob == [state |-> "CREATED", active |-> 0, attempts |-> <<>>,
           cleaned |-> NoPath, renderDir |-> NoPath, datasetZip |-> NoPath,
           background |-> FALSE, current |-> NoTask, cancel |-> FALSE]

JobTypeOK == /\ DOMAIN jobs \in SUBSET JobIds
             /\ jobs \in [DOMAIN jobs -> Job]

TypeOK == QueueTypeOK /\ JobTypeOK

Init == QueueInit /\ jobs = <<>>              \* an empty workspace

----------------------------------------------------------------------------
(* Helpers. *)

\* The second of two saves: it happens, or with Faults it may not.
Saves == IF Faults THEN BOOLEAN ELSE {TRUE}

JobsWith(j, job) == [jobs EXCEPT ![j] = job]

\* NextAttemptNumber: one more than the highest number in the list.
MutNextAttempt(job, n) == n \in Versions /\ n = job.active + 1
NextAttempt(job, n) ==
  n \in Versions /\ \A m \in Versions : m \in DOMAIN job.attempts <=> m < n

MutZeroBased(job, n, attempt) ==
  [m \in DOMAIN job.attempts \cup {n - 1} |-> IF m = n - 1 THEN attempt ELSE job.attempts[m]]
AppendAttempt(job, n, attempt) ==
  [m \in DOMAIN job.attempts \cup {n} |-> IF m = n THEN attempt ELSE job.attempts[m]]

\* job moved on to its new attempt n, which has none of the old artifacts.
MutCleanedStays(job, n, attempt) ==
  [job EXCEPT !.active = n, !.renderDir = NoPath, !.datasetZip = NoPath,
              !.attempts = AppendAttempt(job, n, attempt)]
OnNewAttempt(job, n, attempt) ==
  [job EXCEPT !.active = n, !.cleaned = NoPath, !.renderDir = NoPath, !.datasetZip = NoPath,
              !.attempts = AppendAttempt(job, n, attempt)]

HasActive(job) == job.active \in DOMAIN job.attempts   \* ActiveAttemptRef() # nil
ActiveOf(job)  == job.attempts[job.active]

\* job with its active attempt replaced by a.
MutUnmirrored(job, a) == job
WithActive(job, a) == [job EXCEPT !.attempts[job.active] = a]

\* "job already has an active processing task"
MutBusy(job) == job.current # NoTask /\ job.state \in {"RENDERING", "DATASET_BUILDING"}
Busy(job) == job.current # NoTask /\ job.state \in Processing

\* ActivateAttempt and SaveCleaned ask for more: no current task at all.
MutIdle(job) == ~Busy(job)
Idle(job) == job.current = NoTask

\* The job fields that every method which creates a task sets.
MutKeepsCancel(job, t, state) == [job EXCEPT !.state = state, !.current = t]
Started(job, t, state) ==
  [job EXCEPT !.state = state, !.current = t, !.cancel = FALSE]

----------------------------------------------------------------------------
(* What a task's outcome does to its job: applyTask...                      *)

OutcomeSucceeded(job, task) ==
  LET freed == [job EXCEPT !.current = NoTask, !.cancel = FALSE]
      mine  == HasActive(job) /\ job.active = task.attempt
  IN CASE task.type = "RECONSTRUCT" ->
            LET done == [freed EXCEPT !.state = "REVIEW_READY"] IN
            IF mine THEN WithActive(done, [ActiveOf(job) EXCEPT !.state = "REVIEW_READY",
                                                                !.splat = TRUE])
                    ELSE done
       [] task.type = "RENDER" ->
            LET done == [freed EXCEPT !.state = "RENDER_READY", !.renderDir = task.attempt] IN
            IF mine THEN WithActive(done, [ActiveOf(job) EXCEPT !.renderDir = task.attempt])
                    ELSE done
       [] task.type = "DATASET" ->
            LET done == [freed EXCEPT !.state = "COMPLETED", !.datasetZip = task.attempt] IN
            IF mine THEN WithActive(done, [ActiveOf(job) EXCEPT !.datasetZip = task.attempt])
                    ELSE done

\* A failed or cancelled reconstruction marks its attempt as well.
MutStillCurrent(job, task, state) == [job EXCEPT !.state = state]
OutcomeStopped(job, task, state) ==
  LET freed == [job EXCEPT !.state = state, !.current = NoTask]
  IN IF task.type = "RECONSTRUCT" /\ HasActive(job) /\ job.active = task.attempt
       THEN WithActive(freed, [ActiveOf(job) EXCEPT !.state = state])
       ELSE freed

OutcomeCancelled(job, task) == [OutcomeStopped(job, task, "CANCELLED") EXCEPT !.cancel = FALSE]
OutcomeFailed(job, task)    == OutcomeStopped(job, task, "FAILED")   \* cancel stays

Outcome(job, task) ==
  CASE task.state = "SUCCEEDED" -> OutcomeSucceeded(job, task)
    [] task.state = "CANCELLED" -> OutcomeCancelled(job, task)
    [] task.state = "FAILED"    -> OutcomeFailed(job, task)

\* A task that is not its job's current one is stale and changes nothing.
MutIsCurrent(j, t) == TRUE
IsCurrent(j, t) == jobs[j].current = t

\* The jobs after the outcomes of the tasks in S, as found in ts, are applied.
Applied(S, ts) ==
  [j \in DOMAIN jobs |->
     IF \E t \in S : ts[t].job = j /\ IsCurrent(j, t)
       THEN Outcome(jobs[j], ts[CHOOSE t \in S : ts[t].job = j /\ IsCurrent(j, t)])
       ELSE jobs[j]]

----------------------------------------------------------------------------
(* Methods called for the user. *)

CreateJob(j) ==
  /\ j \in JobIds \ DOMAIN jobs
  /\ jobs' = [k \in DOMAIN jobs \cup {j} |-> IF k = j THEN NewJob ELSE jobs[k]]
  /\ UNCHANGED tasks

AddVideo(j, t, saved) ==
  /\ j \in DOMAIN jobs /\ ~Busy(jobs[j])
  /\ \E n \in Versions :
       /\ NextAttempt(jobs[j], n)
       /\ Create(t, j, n, "RECONSTRUCT")
       /\ jobs' = IF ~saved THEN jobs ELSE JobsWith(j,
            OnNewAttempt(Started(jobs[j], t, "RECONSTRUCTING"), n,
                         NewAttempt("RECONSTRUCTING", FALSE)))

\* It drops the current task of a job that is not Busy.
AddExistingPLY(j) ==
  /\ j \in DOMAIN jobs /\ ~Busy(jobs[j])
  /\ \E n \in Versions :
       /\ NextAttempt(jobs[j], n)
       /\ jobs' = JobsWith(j,
            OnNewAttempt([jobs[j] EXCEPT !.state = "REVIEW_READY", !.current = NoTask,
                                         !.cancel = FALSE],
                         n, NewAttempt("REVIEW_READY", TRUE)))
  /\ UNCHANGED tasks

\* No attempt is ever put in EDITING, RENDER_READY or COMPLETED, which the
\* method would accept too.
ActivateAttempt(j, n) ==
  /\ j \in DOMAIN jobs /\ Idle(jobs[j])
  /\ n \in DOMAIN jobs[j].attempts
  /\ LET a == jobs[j].attempts[n] IN
       /\ a.splat /\ a.state = "REVIEW_READY"
       /\ jobs' = JobsWith(j,
            [jobs[j] EXCEPT
               !.active = n,
               !.cleaned = a.cleaned, !.renderDir = a.renderDir, !.datasetZip = a.datasetZip,
               !.state = CASE a.datasetZip # NoPath -> "COMPLETED"
                           [] a.datasetZip = NoPath /\ a.renderDir # NoPath -> "RENDER_READY"
                           [] a.datasetZip = NoPath /\ a.renderDir = NoPath
                                /\ a.cleaned # NoPath -> "EDITING"
                           [] OTHER -> "REVIEW_READY"])
  /\ UNCHANGED tasks

SaveCleaned(j) ==
  /\ j \in DOMAIN jobs /\ HasActive(jobs[j]) /\ Idle(jobs[j])
  /\ LET n == jobs[j].active
         a == [ActiveOf(jobs[j]) EXCEPT !.cleaned = n, !.renderDir = NoPath, !.datasetZip = NoPath]
     IN jobs' = JobsWith(j,
          WithActive([jobs[j] EXCEPT !.cleaned = n, !.renderDir = NoPath, !.datasetZip = NoPath,
                                     !.state = "EDITING", !.cancel = FALSE], a))
  /\ UNCHANGED tasks

\* The job names the render directory before anything is rendered into it.
StartRender(j, t, saved) ==
  /\ j \in DOMAIN jobs /\ jobs[j].cleaned # NoPath /\ ~Busy(jobs[j])
  /\ LET n   == jobs[j].active
         job == [Started(jobs[j], t, "RENDERING") EXCEPT !.renderDir = n, !.datasetZip = NoPath]
     IN /\ Create(t, j, n, "RENDER")
        /\ jobs' = IF ~saved THEN jobs ELSE JobsWith(j,
             IF HasActive(job) THEN WithActive(job, [ActiveOf(job) EXCEPT !.datasetZip = NoPath])
                               ELSE job)

\* Whatever is running, a job with a render directory becomes RENDER_READY.
SetBackgroundDir(j) ==
  /\ j \in DOMAIN jobs
  /\ ~(jobs[j].current # NoTask /\ jobs[j].state = "DATASET_BUILDING")
  /\ LET job == [jobs[j] EXCEPT !.background = TRUE, !.datasetZip = NoPath,
                   !.state = IF jobs[j].renderDir # NoPath THEN "RENDER_READY" ELSE @]
     IN jobs' = JobsWith(j,
          IF HasActive(job) THEN WithActive(job, [ActiveOf(job) EXCEPT !.datasetZip = NoPath])
                            ELSE job)
  /\ UNCHANGED tasks

StartDataset(j, t, saved) ==
  /\ j \in DOMAIN jobs /\ jobs[j].renderDir # NoPath /\ jobs[j].background /\ ~Busy(jobs[j])
  /\ Create(t, j, jobs[j].active, "DATASET")
  /\ jobs' = IF ~saved THEN jobs
             ELSE JobsWith(j, Started(jobs[j], t, "DATASET_BUILDING"))

\* The job is saved only after every unfinished task of it has been stopped.
Cancel(j, stopped, saved) ==
  /\ j \in DOMAIN jobs
  /\ CancelByJob(j, stopped)
  /\ saved => stopped = Stoppable(j)
  /\ jobs' = IF ~saved THEN jobs ELSE JobsWith(j,
       [jobs[j] EXCEPT !.cancel = TRUE,
                       !.state = IF jobs[j].current = NoTask THEN "CANCELLED" ELSE @])

----------------------------------------------------------------------------
(* Methods called for a worker. *)

\* The outcomes of the sweep are applied one by one and their errors ignored;
\* a Claim that returned an error applies none.
ClaimTask(w) ==
  \E lost \in SUBSET Swept, applied \in SUBSET Swept :
    \/ /\ \/ \E t \in TaskIds : ClaimDelivers(t, w, lost)
          \/ ClaimFindsNone(lost)
       /\ Faults \/ applied = Swept
       /\ jobs' = Applied(applied, [t \in Swept |-> SweptTask(t)])
    \/ ClaimAborts(lost) /\ applied = {} /\ UNCHANGED jobs

\* Of the job, only progress and message are written.
TaskHeartbeat(t, w) == Heartbeat(t, w) /\ UNCHANGED jobs

\* What the report of a worker does to the jobs once its task is saved.
Report(t, saved) == jobs' = IF saved THEN Applied({t}, tasks') ELSE jobs

CompleteTask(t, w, saved) == Complete(t, w) /\ Report(t, saved)
FailTask(t, w, saved)     == Fail(t, w) /\ Report(t, saved)
CancelTask(t, w, saved)   == AcknowledgeCancel(t, w) /\ Report(t, saved)

----------------------------------------------------------------------------
(* Timers. *)

\* A job whose current task is over but was not told.
MutForgetsCancelled ==
  {t \in DOMAIN tasks : /\ tasks[t].state \in {"SUCCEEDED", "FAILED"}
                        /\ tasks[t].job \in DOMAIN jobs /\ IsCurrent(tasks[t].job, t)}
Unreconciled ==
  {t \in DOMAIN tasks : /\ Over(t)
                        /\ tasks[t].job \in DOMAIN jobs /\ IsCurrent(tasks[t].job, t)}

\* At startup and every 30 seconds; the first error ends the pass.
ReconcileUpTo(repaired) ==
  /\ PassOver(repaired, Unreconciled)
  /\ jobs' = Applied(repaired, tasks)
  /\ UNCHANGED tasks

Reconcile == ReconcileUpTo(Unreconciled)

TimePasses == (\E t \in TaskIds : LeaseExpires(t)) /\ UNCHANGED jobs

----------------------------------------------------------------------------

UserNext ==
  \E j \in JobIds :
    \/ CreateJob(j)
    \/ \E t \in TaskIds, saved \in Saves : AddVideo(j, t, saved)
    \/ AddExistingPLY(j)
    \/ \E n \in Versions : ActivateAttempt(j, n)
    \/ SaveCleaned(j)
    \/ \E t \in TaskIds, saved \in Saves : StartRender(j, t, saved)
    \/ SetBackgroundDir(j)
    \/ \E t \in TaskIds, saved \in Saves : StartDataset(j, t, saved)
    \/ \E stopped \in SUBSET Stoppable(j), saved \in Saves : Cancel(j, stopped, saved)

WorkerNext ==
  \E w \in WorkerIds :
    \/ ClaimTask(w)
    \/ \E t \in TaskIds : TaskHeartbeat(t, w)
    \/ \E t \in TaskIds, saved \in Saves :
         CompleteTask(t, w, saved) \/ FailTask(t, w, saved) \/ CancelTask(t, w, saved)

TimerNext ==
  \/ \E repaired \in SUBSET Unreconciled : ReconcileUpTo(repaired)
  \/ TimePasses

Next == UserNext \/ WorkerNext \/ TimerNext

Spec == Init /\ [][Next]_vars

\* The process keeps running its timer, and a pass is not interrupted for ever.
Fairness == WF_vars(Reconcile)

FairSpec == Spec /\ Fairness

----------------------------------------------------------------------------
(* Properties. *)

\* The current task of a job exists, works for that job, and for the attempt
\* that is active: no method switches attempts or drops a task file under a
\* running task (the tests of CurrentTaskID in jobs/service.go).
CurrentTaskIsOurs ==
  \A j \in DOMAIN jobs : jobs[j].current # NoTask =>
    LET t == jobs[j].current IN
      /\ t \in DOMAIN tasks /\ tasks[t].job = j
      /\ HasActive(jobs[j]) /\ tasks[t].attempt = jobs[j].active

ArtifactsOK(job) ==
  /\ ~HasActive(job) =>
       job.cleaned = NoPath /\ job.renderDir = NoPath /\ job.datasetZip = NoPath
  /\ HasActive(job) =>
       /\ job.cleaned = ActiveOf(job).cleaned /\ job.datasetZip = ActiveOf(job).datasetZip
       /\ ActiveOf(job).renderDir # NoPath => job.renderDir = ActiveOf(job).renderDir
       /\ job.renderDir \in {NoPath, job.active}
  /\ \A n \in DOMAIN job.attempts :
       /\ job.attempts[n].cleaned \in {NoPath, n}
       /\ job.attempts[n].renderDir \in {NoPath, n}
       /\ job.attempts[n].datasetZip \in {NoPath, n}

\* What the job shows as its edited asset, renders and dataset is what its
\* active attempt owns, so that nothing is lost when another attempt is
\* activated and this one later again.  The one exception is the render
\* directory, which the job names from StartRender on and the attempt only
\* once the render has succeeded (ActivateAttempt, SaveCleaned, applyTaskSuccess).
ArtifactsAreTheActiveAttempts == \A j \in DOMAIN jobs : ArtifactsOK(jobs[j])

\* A job that says it is processing has a current task doing just that, so it
\* is never stuck with nothing to wait for; and a job with a current task says
\* so, unless a background upload overtook its render (SetBackgroundDir).
ProcessingStateOf(type) ==
  CASE type = "RECONSTRUCT" -> "RECONSTRUCTING"
    [] type = "RENDER"      -> "RENDERING"
    [] type = "DATASET"     -> "DATASET_BUILDING"

StateMatchesTask ==
  \A j \in DOMAIN jobs :
    /\ jobs[j].state \in Processing => jobs[j].current # NoTask
    /\ jobs[j].current # NoTask =>
         LET type == tasks[jobs[j].current].type IN
           \/ jobs[j].state = ProcessingStateOf(type)
           \/ jobs[j].state = "RENDER_READY" /\ type = "RENDER"

\* A cancellation the user sees as requested is recorded in the unfinished
\* current task too, so that another worker that reclaims it cannot run it.
CancelReachesTask ==
  \A j \in DOMAIN jobs :
    jobs[j].cancel /\ jobs[j].current # NoTask =>
      tasks[jobs[j].current].cancel \/ Over(jobs[j].current)

\* Work is queued only on inputs that exist and stay: a render has an edited
\* asset in its attempt, a dataset its backgrounds (the refusals of StartRender
\* and StartDataset).
WorkHasInputs ==
  \A t \in DOMAIN tasks :
    LET job == jobs[tasks[t].job] IN
    /\ tasks[t].type = "RENDER" => job.attempts[tasks[t].attempt].cleaned # NoPath
    /\ tasks[t].type = "DATASET" => job.background

\* "A new video always creates a new attempt": no two reconstructions write
\* into the directory of one attempt (docs/ARCHITECTURE.md, AddVideo).
NewVideoNewAttempt ==
  \A t, u \in DOMAIN tasks :
    /\ tasks[t].type = "RECONSTRUCT" /\ tasks[u].type = "RECONSTRUCT"
    /\ tasks[t].job = tasks[u].job /\ tasks[t].attempt = tasks[u].attempt
    => t = u

\* A step changes at most the attempt that was active before it: what earlier
\* captures produced stays, whichever stale task ends (jobs/service.go:522).
EarlierAttemptsKept ==
  [][\A j \in DOMAIN jobs : \A n \in DOMAIN jobs[j].attempts :
       LET a == jobs[j].attempts[n]
           b == jobs'[j].attempts[n]
       IN /\ n # jobs[j].active => b = a
          /\ a.splat => b.splat /\ b.state = a.state
          /\ a.cleaned # NoPath => b.cleaned # NoPath]_vars

\* A job lets go of a task only when the task is over, and then shows its
\* outcome; the exception is again a render overtaken by a background upload.
LetsGoWhenOver ==
  [][\A j \in DOMAIN jobs :
       LET t == jobs[j].current IN
       t # NoTask /\ jobs'[j].current # t /\ jobs[j].state \in Processing =>
         /\ tasks'[t].state \in Terminal
         /\ tasks'[t].state = "FAILED"    => jobs'[j].state = "FAILED"
         /\ tasks'[t].state = "CANCELLED" => jobs'[j].state = "CANCELLED"
         /\ tasks'[t].state = "SUCCEEDED" =>
              jobs'[j].state \in {"REVIEW_READY", "RENDER_READY", "COMPLETED"}]_vars

\* A job that forgets a task which is not over forgets a render, the one that a
\* background upload overtook: no start or upload displaces, and no outcome of
\* another task drops, a reconstruction or a dataset that a worker may be at
\* ("job already has an active processing task", jobs/service.go:78, 283, 359).
ForgetsOnlyRenders ==
  \A t \in DOMAIN tasks : ~Over(t) /\ tasks[t].type # "RENDER" =>
    tasks[t].job \in DOMAIN jobs /\ jobs[tasks[t].job].current = t

\* Renders and a dataset become an attempt's own only when the job's current
\* task has made them there: not when they are started, not from a task that
\* the job has let go of, not by a switch of attempts (applyTaskSuccess,
\* jobs/service.go:522).
HasRenders(job, n) == n \in DOMAIN job.attempts /\ job.attempts[n].renderDir # NoPath
HasDataset(job, n) == n \in DOMAIN job.attempts /\ job.attempts[n].datasetZip # NoPath

\* The current task of job, as found in ts, is of this type and at attempt n,
\* and it has succeeded.
WorksFor(job, ts, n, type) ==
  job.current # NoTask /\ ts[job.current].type = type /\ ts[job.current].attempt = n
Earned(job, ts, n, type) ==
  WorksFor(job, ts, n, type) /\ ts[job.current].state = "SUCCEEDED"

AcceptedWhenEarned ==
  [][\A j \in DOMAIN jobs : \A n \in Versions :
       /\ HasRenders(jobs'[j], n) => HasRenders(jobs[j], n) \/ Earned(jobs[j], tasks', n, "RENDER")
       /\ HasDataset(jobs'[j], n) => HasDataset(jobs[j], n) \/ Earned(jobs[j], tasks', n, "DATASET")]_vars

\* A job learns that its task is over even when the process died before it
\* was told (Reconcile).
JobLearnsOutcome ==
  \A j \in JobIds, t \in TaskIds :
    (j \in DOMAIN jobs /\ jobs[j].current = t /\ Over(t)) ~> (j \in DOMAIN jobs => jobs[j].current # t)

\* "job already has an active processing task": two unfinished tasks of one
\* job never exist together (jobs/service.go:78, 283, 359).
OneActiveTask == \A j \in DOMAIN jobs : Cardinality(Stoppable(j)) <= 1
=============================================================================
