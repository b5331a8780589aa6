-------------------------- MODULE JobServiceProofs --------------------------
(***************************************************************************)
(* Theorems about the control plane, for every value of the constants,     *)
(* with and without faults: the service drives the queue by its methods    *)
(* only, so the theorems of TaskQueueProofs carry over; its types are      *)
(* invariant; and a job, its active attempt and its current task agree.    *)
(*                                                                         *)
(* The invariant is stated job by job: JobOK is about the job alone and    *)
(* Linked relates it to the task files.  A step of the queue preserves     *)
(* Linked (QueueKeepsLinks), so each method has only to show that the one  *)
(* job it saves is in order.                                               *)
(***************************************************************************)
EXTENDS JobService, TaskQueueProofs

JobOK(job) == job \in Job /\ ArtifactsOK(job)

\* ts is what the task files hold.
Linked(j, job, ts) ==
  /\ job.state \in Processing => job.current # NoTask
  /\ job.current # NoTask =>
       LET task == ts[job.current] IN
       /\ job.current \in DOMAIN ts /\ task.job = j
       /\ HasActive(job) /\ task.attempt = job.active
       /\ \/ job.state = ProcessingStateOf(task.type)
          \/ job.state = "RENDER_READY" /\ task.type = "RENDER"
       /\ job.cancel => task.cancel \/ task.state \in Terminal
       /\ task.type = "RECONSTRUCT" => job.renderDir = NoPath

JInv == /\ DOMAIN jobs \in SUBSET JobIds
        /\ jobs = [j \in DOMAIN jobs |-> jobs[j]]
        /\ \A j \in DOMAIN jobs : JobOK(jobs[j]) /\ Linked(j, jobs[j], tasks)

Inv == IInv /\ JInv

\* The invariants that the runs check follow.
LEMMA JobInvariantImplies ==
  Inv => TypeOK /\ CurrentTaskIsOurs /\ ArtifactsAreTheActiveAttempts
           /\ StateMatchesTask /\ CancelReachesTask
<1> SUFFICES ASSUME Inv
             PROVE  TypeOK /\ CurrentTaskIsOurs /\ ArtifactsAreTheActiveAttempts
                      /\ StateMatchesTask /\ CancelReachesTask
  OBVIOUS
<1>1. TypeOK
  BY InvariantImplies DEF Inv, JInv, JobOK, TypeOK, JobTypeOK
<1>2. CurrentTaskIsOurs
  BY DEF Inv, JInv, Linked, CurrentTaskIsOurs
<1>3. ArtifactsAreTheActiveAttempts
  BY DEF Inv, JInv, JobOK, ArtifactsAreTheActiveAttempts
<1>4. StateMatchesTask
  BY DEF Inv, JInv, Linked, StateMatchesTask
<1>5. CancelReachesTask
  BY DEF Inv, JInv, Linked, CancelReachesTask, Over
<1> QED
  BY <1>1, <1>2, <1>3, <1>4, <1>5

----------------------------------------------------------------------------
(* Updates of jobs and attempts. *)

LEMMA AttemptsType ==
  ASSUME NEW f
  PROVE  f \in Attempts <=>
           /\ DOMAIN f \in SUBSET Versions /\ f = [n \in DOMAIN f |-> f[n]]
           /\ \A n \in DOMAIN f : f[n] \in Attempt
BY DEF Attempts

\* Replacing the active attempt.
LEMMA AttemptReplaced ==
  ASSUME NEW job \in Job, HasActive(job), NEW a \in Attempt
  PROVE  /\ WithActive(job, a) \in Job
         /\ WithActive(job, a) = [job EXCEPT !.attempts = WithActive(job, a).attempts]
         /\ DOMAIN WithActive(job, a).attempts = DOMAIN job.attempts
         /\ WithActive(job, a).attempts[job.active] = a
         /\ \A n \in DOMAIN job.attempts : n # job.active => WithActive(job, a).attempts[n] = job.attempts[n]
<1> DEFINE f == [job.attempts EXCEPT ![job.active] = a]
<1>1. job.attempts \in Attempts
  BY DEF Job
<1>2. f \in Attempts
  BY <1>1, AttemptsType DEF HasActive
<1>3. WithActive(job, a) = [job EXCEPT !.attempts = f]
  BY Zenon DEF WithActive
<1>4. [job EXCEPT !.attempts = f] \in Job /\ [job EXCEPT !.attempts = f].attempts = f
  BY <1>2 DEF Job
<1>5. /\ DOMAIN f = DOMAIN job.attempts /\ f[job.active] = a
      /\ \A n \in DOMAIN job.attempts : n # job.active => f[n] = job.attempts[n]
  BY <1>1, AttemptsType DEF HasActive
<1> QED
  BY <1>3, <1>4, <1>5

----------------------------------------------------------------------------
(* What an outcome makes of the job whose current task is over. *)

\* A job in order keeps its artifacts in order when other fields change.
LEMMA SameArtifacts ==
  ASSUME NEW job, NEW new, JobOK(job), new \in Job,
         new.active = job.active, new.attempts = job.attempts, new.cleaned = job.cleaned,
         new.renderDir = job.renderDir, new.datasetZip = job.datasetZip
  PROVE  JobOK(new)
BY DEF JobOK, ArtifactsOK, HasActive, ActiveOf

LEMMA ActiveType ==
  ASSUME NEW job \in Job, HasActive(job)
  PROVE  ActiveOf(job) \in Attempt /\ job.active \in Versions /\ job.active \in Path
<1>1. job.attempts \in Attempts
  BY DEF Job
<1> QED
  BY <1>1, AttemptsType DEF HasActive, ActiveOf, Path, Versions

\* Own(a, n): the paths of attempt n lie in its own directory.
Own(a, n) == /\ a.cleaned \in {NoPath, n} /\ a.renderDir \in {NoPath, n}
             /\ a.datasetZip \in {NoPath, n}

\* Replacing the active attempt by one that mirrors the job leaves it in order.
LEMMA MirroredUpdate ==
  ASSUME NEW new \in Job, HasActive(new), NEW a \in Attempt, Own(a, new.active),
         a.cleaned = new.cleaned, a.datasetZip = new.datasetZip,
         a.renderDir # NoPath => new.renderDir = a.renderDir,
         new.renderDir \in {NoPath, new.active},
         \A n \in DOMAIN new.attempts : Own(new.attempts[n], n)
  PROVE  /\ JobOK(WithActive(new, a))
         /\ WithActive(new, a).state = new.state
         /\ WithActive(new, a).current = new.current
         /\ WithActive(new, a).cancel = new.cancel
         /\ WithActive(new, a).active = new.active
         /\ HasActive(WithActive(new, a))
<1> DEFINE job == WithActive(new, a)
<1>1. /\ job \in Job /\ job = [new EXCEPT !.attempts = job.attempts]
      /\ DOMAIN job.attempts = DOMAIN new.attempts /\ job.attempts[new.active] = a
      /\ \A n \in DOMAIN new.attempts : n # new.active => job.attempts[n] = new.attempts[n]
  BY AttemptReplaced
<1> HIDE DEF job
<1>2. /\ job.state = new.state /\ job.current = new.current /\ job.cancel = new.cancel
      /\ job.active = new.active /\ job.cleaned = new.cleaned
      /\ job.renderDir = new.renderDir /\ job.datasetZip = new.datasetZip
  BY <1>1 DEF Job
<1>3. \A n \in DOMAIN job.attempts : Own(job.attempts[n], n)
  BY <1>1
<1>4. HasActive(job) /\ ActiveOf(job) = a
  BY <1>1, <1>2 DEF HasActive, ActiveOf
<1>5. ArtifactsOK(job)
  BY <1>2, <1>3, <1>4 DEF ArtifactsOK, Own
<1> QED
  BY <1>1, <1>2, <1>4, <1>5 DEF JobOK, job

LEMMA SucceededOK ==
  ASSUME NEW job, JobOK(job), HasActive(job),
         NEW task \in Task, task.attempt = job.active
  PROVE  /\ JobOK(OutcomeSucceeded(job, task))
         /\ OutcomeSucceeded(job, task).current = NoTask
         /\ OutcomeSucceeded(job, task).state \notin Processing
<1> DEFINE freed == [job EXCEPT !.current = NoTask, !.cancel = FALSE]
<1>0. /\ job \in Job /\ ActiveOf(job) \in Attempt
      /\ job.active \in Versions /\ job.active \in Path
      /\ task.type \in {"RECONSTRUCT", "RENDER", "DATASET"}
  BY ActiveType, ServiceAssumption DEF JobOK, Task
<1>1. freed \in Job /\ freed.current = NoTask
  <2>1. NoTask \in TaskIds \cup {NoTask} /\ FALSE \in BOOLEAN
    OBVIOUS
  <2>2. freed \in Job
    BY <1>0, <2>1, Zenon DEF Job
  <2> QED
    BY <2>2, <1>0 DEF Job
<1>2. /\ \A n \in DOMAIN job.attempts : Own(job.attempts[n], n)
      /\ job.cleaned = ActiveOf(job).cleaned /\ job.datasetZip = ActiveOf(job).datasetZip
      /\ ActiveOf(job).renderDir # NoPath => job.renderDir = ActiveOf(job).renderDir
      /\ job.renderDir \in {NoPath, job.active} /\ Own(ActiveOf(job), job.active)
  BY DEF JobOK, ArtifactsOK, Own, HasActive, ActiveOf
<1>3. CASE task.type = "RECONSTRUCT"
  <2> DEFINE done == [freed EXCEPT !.state = "REVIEW_READY"]
             a    == [ActiveOf(job) EXCEPT !.state = "REVIEW_READY", !.splat = TRUE]
  <2>1. done \in Job /\ HasActive(done) /\ a \in Attempt
    BY <1>0, <1>1 DEF Job, JobStates, Attempt, HasActive
  <2>2. OutcomeSucceeded(job, task) = WithActive(done, a)
    BY <1>3 DEF OutcomeSucceeded
  <2>3. /\ Own(a, done.active) /\ a.cleaned = done.cleaned /\ a.datasetZip = done.datasetZip
        /\ a.renderDir # NoPath => done.renderDir = a.renderDir
        /\ done.renderDir \in {NoPath, done.active}
        /\ done.attempts = job.attempts /\ done.current = NoTask /\ done.state = "REVIEW_READY"
    BY <1>0, <1>1, <1>2 DEF Own, Job, Attempt
  <2> HIDE DEF done, a
  <2> QED
    BY <1>2, <2>1, <2>2, <2>3, MirroredUpdate DEF Processing
<1>4. CASE task.type = "RENDER"
  <2> DEFINE done == [freed EXCEPT !.state = "RENDER_READY", !.renderDir = task.attempt]
             a    == [ActiveOf(job) EXCEPT !.renderDir = task.attempt]
  <2>1. done \in Job /\ HasActive(done) /\ a \in Attempt
    BY <1>0, <1>1 DEF Job, JobStates, Attempt, HasActive
  <2>2. OutcomeSucceeded(job, task) = WithActive(done, a)
    BY <1>4 DEF OutcomeSucceeded
  <2>3. /\ Own(a, done.active) /\ a.cleaned = done.cleaned /\ a.datasetZip = done.datasetZip
        /\ a.renderDir # NoPath => done.renderDir = a.renderDir
        /\ done.renderDir \in {NoPath, done.active}
        /\ done.attempts = job.attempts /\ done.current = NoTask /\ done.state = "RENDER_READY"
    BY <1>0, <1>1, <1>2 DEF Own, Job, Attempt
  <2> HIDE DEF done, a
  <2> QED
    BY <1>2, <2>1, <2>2, <2>3, MirroredUpdate DEF Processing
<1>5. CASE task.type = "DATASET"
  <2> DEFINE done == [freed EXCEPT !.state = "COMPLETED", !.datasetZip = task.attempt]
             a    == [ActiveOf(job) EXCEPT !.datasetZip = task.attempt]
  <2>1. done \in Job /\ HasActive(done) /\ a \in Attempt
    BY <1>0, <1>1 DEF Job, JobStates, Attempt, HasActive
  <2>2. OutcomeSucceeded(job, task) = WithActive(done, a)
    BY <1>5 DEF OutcomeSucceeded
  <2>3. /\ Own(a, done.active) /\ a.cleaned = done.cleaned /\ a.datasetZip = done.datasetZip
        /\ a.renderDir # NoPath => done.renderDir = a.renderDir
        /\ done.renderDir \in {NoPath, done.active}
        /\ done.attempts = job.attempts /\ done.current = NoTask /\ done.state = "COMPLETED"
    BY <1>0, <1>1, <1>2 DEF Own, Job, Attempt
  <2> HIDE DEF done, a
  <2> QED
    BY <1>2, <2>1, <2>2, <2>3, MirroredUpdate DEF Processing
<1> QED
  BY <1>0, <1>3, <1>4, <1>5

LEMMA StoppedOK ==
  ASSUME NEW job, JobOK(job), HasActive(job), NEW task \in Task,
         NEW state \in {"CANCELLED", "FAILED"}
  PROVE  /\ JobOK(OutcomeStopped(job, task, state))
         /\ OutcomeStopped(job, task, state).current = NoTask
         /\ OutcomeStopped(job, task, state).state \notin Processing
<1> DEFINE freed == [job EXCEPT !.state = state, !.current = NoTask]
           a     == [ActiveOf(job) EXCEPT !.state = state]
<1>0. job \in Job /\ ActiveOf(job) \in Attempt
  BY ActiveType DEF JobOK
<1>1. freed \in Job /\ a \in Attempt
  BY <1>0 DEF Job, JobStates, Attempt
<1>2. /\ freed.active = job.active /\ freed.attempts = job.attempts
      /\ freed.cleaned = job.cleaned /\ freed.renderDir = job.renderDir
      /\ freed.datasetZip = job.datasetZip /\ freed.current = NoTask
      /\ freed.state = state /\ state \notin Processing
  BY <1>0 DEF Job, Processing
<1>3. CASE OutcomeStopped(job, task, state) = freed
  <2> HIDE DEF freed
  <2> QED
    BY <1>1, <1>2, <1>3, SameArtifacts
<1>4. CASE OutcomeStopped(job, task, state) = WithActive(freed, a)
  <2>1. /\ \A n \in DOMAIN job.attempts : Own(job.attempts[n], n)
        /\ Own(a, freed.active) /\ a.cleaned = freed.cleaned /\ a.datasetZip = freed.datasetZip
        /\ a.renderDir # NoPath => freed.renderDir = a.renderDir
        /\ freed.renderDir \in {NoPath, freed.active} /\ HasActive(freed)
    BY <1>0, <1>2 DEF JobOK, ArtifactsOK, Own, HasActive, ActiveOf, Attempt
  <2> HIDE DEF freed, a
  <2> QED
    BY <1>1, <1>2, <1>4, <2>1, MirroredUpdate
<1> QED
  BY <1>3, <1>4 DEF OutcomeStopped

\* Any outcome frees the job and leaves it in order.
LEMMA OutcomeOK ==
  ASSUME NEW job, JobOK(job), HasActive(job),
         NEW task \in Task, task.attempt = job.active, task.state \in Terminal
  PROVE  /\ JobOK(Outcome(job, task))
         /\ Outcome(job, task).current = NoTask
         /\ Outcome(job, task).state \notin Processing
<1>1. CASE task.state = "SUCCEEDED"
  <2>1. Outcome(job, task) = OutcomeSucceeded(job, task)
    BY <1>1 DEF Outcome
  <2> QED
    BY <2>1, SucceededOK
<1>2. CASE task.state = "FAILED"
  <2>1. Outcome(job, task) = OutcomeStopped(job, task, "FAILED")
    BY <1>2 DEF Outcome, OutcomeFailed
  <2> QED
    BY <2>1, StoppedOK
<1>3. CASE task.state = "CANCELLED"
  <2> DEFINE stopped == OutcomeStopped(job, task, "CANCELLED")
             final   == [stopped EXCEPT !.cancel = FALSE]
  <2>1. Outcome(job, task) = final
    BY <1>3 DEF Outcome, OutcomeCancelled
  <2>2. JobOK(stopped) /\ stopped.current = NoTask /\ stopped.state \notin Processing
    BY StoppedOK
  <2> HIDE DEF stopped
  <2>3. final \in Job
    BY <2>2 DEF JobOK, Job
  <2>4. /\ final.active = stopped.active /\ final.attempts = stopped.attempts
        /\ final.cleaned = stopped.cleaned /\ final.renderDir = stopped.renderDir
        /\ final.datasetZip = stopped.datasetZip
        /\ final.current = stopped.current /\ final.state = stopped.state
    BY <2>2 DEF JobOK, Job
  <2> HIDE DEF final
  <2> QED
    BY <2>1, <2>2, <2>3, <2>4, SameArtifacts
<1> QED
  BY <1>1, <1>2, <1>3 DEF Terminal

----------------------------------------------------------------------------
(* Steps of the queue and what they leave of the links. *)

\* What a task works on never changes, a cancellation stays requested and an
\* outcome stays.
LEMMA TaskFrame ==
  ASSUME IInv, [QueueNext]_tasks, NEW t \in DOMAIN tasks, t \in DOMAIN tasks'
  PROVE  /\ tasks'[t].job = tasks[t].job /\ tasks'[t].attempt = tasks[t].attempt
         /\ tasks'[t].type = tasks[t].type
         /\ tasks[t].cancel => tasks'[t].cancel
         /\ tasks[t].state \in Terminal => tasks'[t].state = tasks[t].state
<1>1. CASE QueueNext
  <2>1. RowNext(t) /\ tasks[t] \in Task
    BY <1>1, EveryStepShape DEF StepShape, IInv, RowOK
  <2>2. CASE t \in Swept /\ tasks'[t] = SweptTask(t)
    BY <2>1, <2>2 DEF Swept, SweptTask, CancelledBySweep, ExhaustedBySweep, Expired, Terminal, Task
  <2>3. CASE OldestClaimable(t) /\ \E w \in WorkerIds : tasks'[t] = ClaimedTask(t, w)
    BY <2>1, <2>3 DEF OldestClaimable, Claimable, Expired, ClaimedTask, Terminal, Task
  <2>4. CASE tasks[t].state = "RUNNING" /\ \E o \in Terminal : tasks'[t] = Finished(t, o)
    BY <2>1, <2>4 DEF Finished, Terminal, Task
  <2>5. CASE ~Over(t) /\ tasks'[t] = StoppedTask(t)
    BY <2>1, <2>5 DEF Over, StoppedTask, Terminal, Task
  <2>6. CASE \/ tasks'[t] = tasks[t]
             \/ tasks[t].state = "RUNNING" /\ tasks'[t] = [tasks[t] EXCEPT !.lease = "live"]
             \/ tasks[t].state = "RUNNING" /\ tasks'[t] = [tasks[t] EXCEPT !.lease = "expired"]
    BY <2>1, <2>6 DEF Terminal, Task
  <2> QED
    BY <2>1, <2>2, <2>3, <2>4, <2>5, <2>6 DEF RowNext
<1>2. CASE UNCHANGED tasks
  BY <1>2
<1> QED
  BY <1>1, <1>2

\* A step of the queue that deletes nothing, as every step of the service is.
QueueStep == [QueueNext]_tasks /\ DOMAIN tasks \subseteq DOMAIN tasks'

LEMMA QueueKeepsLinks ==
  ASSUME IInv, QueueStep, NEW j, NEW job, Linked(j, job, tasks)
  PROVE  Linked(j, job, tasks')
<1>1. CASE job.current = NoTask
  BY <1>1 DEF Linked
<1>2. CASE job.current # NoTask
  <2>1. job.current \in DOMAIN tasks /\ job.current \in DOMAIN tasks'
    BY <1>2 DEF Linked, QueueStep
  <2> QED
    BY <2>1, TaskFrame DEF Linked, QueueStep
<1> QED
  BY <1>1, <1>2

\* Saving one job that is in order, beside a step of the queue.
LEMMA SaveOne ==
  ASSUME Inv, QueueStep, NEW j \in DOMAIN jobs, NEW new,
         jobs' = JobsWith(j, new), JobOK(new), Linked(j, new, tasks')
  PROVE  JInv'
<1>1. DOMAIN jobs' = DOMAIN jobs /\ jobs' = [k \in DOMAIN jobs |-> jobs'[k]]
  BY DEF JobsWith, Inv, JInv
<1>2. ASSUME NEW k \in DOMAIN jobs PROVE JobOK(jobs'[k]) /\ Linked(k, jobs'[k], tasks')
  BY QueueKeepsLinks DEF JobsWith, Inv, JInv
<1> QED
  BY <1>1, <1>2 DEF Inv, JInv

\* Saving no job.
LEMMA SaveNone ==
  ASSUME Inv, QueueStep, jobs' = jobs
  PROVE  JInv'
BY QueueKeepsLinks DEF Inv, JInv

LEMMA NoTaskIsNoTask == NoTask \notin TaskIds
BY QueueAssumption DEF NoTask, TaskIds

\* Applying the outcomes of tasks that are over in ts.
LEMMA ApplyOutcomes ==
  ASSUME Inv, QueueStep, NEW S, NEW ts, jobs' = Applied(S, ts),
         \A t \in S : /\ t \in DOMAIN tasks /\ ts[t] \in Task /\ ts[t].state \in Terminal
                      /\ ts[t].attempt = tasks[t].attempt
  PROVE  JInv'
<1>1. DOMAIN jobs' = DOMAIN jobs /\ jobs' = [k \in DOMAIN jobs |-> jobs'[k]]
  BY DEF Applied
<1>2. ASSUME NEW j \in DOMAIN jobs PROVE JobOK(jobs'[j]) /\ Linked(j, jobs'[j], tasks')
  <2>0. JobOK(jobs[j]) /\ Linked(j, jobs[j], tasks)
    BY DEF Inv, JInv
  <2>1. CASE \E t \in S : ts[t].job = j /\ IsCurrent(j, t)
    <3> DEFINE t == CHOOSE t \in S : ts[t].job = j /\ IsCurrent(j, t)
    <3>1. t \in S /\ jobs[j].current = t
      BY <2>1 DEF IsCurrent
    <3>2. jobs'[j] = Outcome(jobs[j], ts[t])
      BY <2>1 DEF Applied
    <3> HIDE DEF t
    <3>3. HasActive(jobs[j]) /\ ts[t].attempt = jobs[j].active
      <4>1. t \in TaskIds /\ ts[t].attempt = tasks[t].attempt
        BY <3>1 DEF Inv, IInv
      <4>2. jobs[j].current # NoTask
        BY <3>1, <4>1, NoTaskIsNoTask
      <4> QED
        BY <2>0, <3>1, <4>1, <4>2 DEF Linked
    <3>4. ts[t] \in Task /\ ts[t].state \in Terminal
      BY <3>1
    <3>5. /\ JobOK(jobs'[j]) /\ jobs'[j].current = NoTask
          /\ jobs'[j].state \notin Processing
      BY <2>0, <3>2, <3>3, <3>4, OutcomeOK
    <3> QED
      BY <3>5 DEF Linked
  <2>2. CASE ~\E t \in S : ts[t].job = j /\ IsCurrent(j, t)
    BY <2>0, <2>2, QueueKeepsLinks DEF Applied, Inv
  <2> QED
    BY <2>1, <2>2
<1> QED
  BY <1>1, <1>2 DEF Inv, JInv

----------------------------------------------------------------------------
(* The service moves the queue only by the queue's own methods. *)

LEMMA CreateIsQueueStep ==
  ASSUME NEW t \in TaskIds, NEW j \in JobIds, NEW n \in Versions, NEW type \in Types,
         Create(t, j, n, type)
  PROVE  QueueStep
BY DEF QueueStep, QueueNext, Create

LEMMA ActiveInVersions ==
  ASSUME Inv, NEW j \in DOMAIN jobs, jobs[j].cleaned # NoPath \/ jobs[j].renderDir # NoPath
  PROVE  HasActive(jobs[j]) /\ jobs[j].active \in Versions
<1>1. HasActive(jobs[j]) /\ jobs[j] \in Job
  BY DEF Inv, JInv, JobOK, ArtifactsOK
<1> QED
  BY <1>1, ActiveType

LEMMA UserQueueStep == ASSUME Inv, UserNext PROVE QueueStep
<1> SUFFICES ASSUME NEW j \in JobIds,
      \/ CreateJob(j)
      \/ \E t \in TaskIds, saved \in Saves : AddVideo(j, t, saved)
      \/ AddExistingPLY(j)
      \/ \E n \in Versions : ActivateAttempt(j, n)
      \/ SaveCleaned(j)
      \/ \E t \in TaskIds, saved \in Saves : StartRender(j, t, saved)
      \/ SetBackgroundDir(j)
      \/ \E t \in TaskIds, saved \in Saves : StartDataset(j, t, saved)
      \/ \E stopped \in SUBSET Stoppable(j), saved \in Saves : Cancel(j, stopped, saved)
    PROVE QueueStep
  BY DEF UserNext
<1>0. {"RECONSTRUCT", "RENDER", "DATASET"} \subseteq Types
  BY ServiceAssumption
<1>1. CASE \/ CreateJob(j) \/ AddExistingPLY(j) \/ \E n \in Versions : ActivateAttempt(j, n)
           \/ SaveCleaned(j) \/ SetBackgroundDir(j)
  BY <1>1 DEF CreateJob, AddExistingPLY, ActivateAttempt, SaveCleaned, SetBackgroundDir, QueueStep
<1>2. ASSUME NEW t \in TaskIds, NEW saved \in Saves, AddVideo(j, t, saved) PROVE QueueStep
  BY <1>0, <1>2, CreateIsQueueStep DEF AddVideo
<1>3. ASSUME NEW t \in TaskIds, NEW saved \in Saves, StartRender(j, t, saved) PROVE QueueStep
  <2>1. Create(t, j, jobs[j].active, "RENDER") /\ j \in DOMAIN jobs /\ jobs[j].cleaned # NoPath
    BY <1>3 DEF StartRender
  <2> QED
    BY <1>0, <2>1, ActiveInVersions, CreateIsQueueStep
<1>4. ASSUME NEW t \in TaskIds, NEW saved \in Saves, StartDataset(j, t, saved) PROVE QueueStep
  <2>1. Create(t, j, jobs[j].active, "DATASET") /\ j \in DOMAIN jobs /\ jobs[j].renderDir # NoPath
    BY <1>4 DEF StartDataset
  <2> QED
    BY <1>0, <2>1, ActiveInVersions, CreateIsQueueStep
<1>5. ASSUME NEW stopped \in SUBSET Stoppable(j), NEW saved \in Saves, Cancel(j, stopped, saved)
      PROVE  QueueStep
  <2>1. CancelByJob(j, stopped)
    BY <1>5 DEF Cancel
  <2>2. stopped \in SUBSET TaskIds
    BY DEF Stoppable, Inv, IInv
  <2>3. QueueNext
    BY <2>1, <2>2 DEF QueueNext
  <2>4. DOMAIN tasks' = DOMAIN tasks
    BY <2>1 DEF CancelByJob
  <2> QED
    BY <2>3, <2>4 DEF QueueStep
<1> QED
  BY <1>1, <1>2, <1>3, <1>4, <1>5

LEMMA ClaimIsQueueStep ==
  ASSUME Inv, NEW w \in WorkerIds, NEW lost \in SUBSET Swept,
         \/ \E t \in TaskIds : ClaimDelivers(t, w, lost)
         \/ ClaimFindsNone(lost)
         \/ ClaimAborts(lost)
  PROVE  QueueStep
<1>1. QueueNext
  BY DEF QueueNext, Claim
<1>2. DOMAIN tasks' = DOMAIN tasks
  BY DEF ClaimDelivers, ClaimFindsNone, ClaimAborts, AfterSweep
<1> QED
  BY <1>1, <1>2 DEF QueueStep

\* The report of a worker on its task.
LEMMA FinishIsQueueStep ==
  ASSUME Inv, NEW t \in TaskIds, NEW w \in WorkerIds,
         Complete(t, w) \/ Fail(t, w) \/ AcknowledgeCancel(t, w) \/ Heartbeat(t, w)
  PROVE  QueueStep
<1>1. QueueNext
  BY DEF QueueNext
<1>2. DOMAIN tasks' = DOMAIN tasks
  BY DEF Complete, Fail, AcknowledgeCancel, Heartbeat, Inv, IInv
<1> QED
  BY <1>1, <1>2 DEF QueueStep

LEMMA TimerQueueStep == ASSUME Inv, TimerNext PROVE QueueStep
<1>1. CASE \E repaired \in SUBSET Unreconciled : ReconcileUpTo(repaired)
  BY <1>1 DEF ReconcileUpTo, QueueStep
<1>2. CASE TimePasses
  <2>1. PICK t \in TaskIds : LeaseExpires(t)
    BY <1>2 DEF TimePasses
  <2>2. QueueNext
    BY <2>1 DEF QueueNext
  <2> QED
    BY <2>1, <2>2 DEF QueueStep, LeaseExpires
<1> QED
  BY <1>1, <1>2 DEF TimerNext

----------------------------------------------------------------------------
(* The jobs that the methods called for the user save. *)

LEMMA StartedOK ==
  ASSUME NEW job, JobOK(job), NEW t \in TaskIds \cup {NoTask}, NEW state \in JobStates
  PROVE  LET new == Started(job, t, state) IN
         /\ JobOK(new) /\ new.state = state /\ new.current = t /\ new.cancel = FALSE
         /\ new.active = job.active /\ new.attempts = job.attempts
         /\ new.cleaned = job.cleaned /\ new.renderDir = job.renderDir
         /\ new.datasetZip = job.datasetZip
<1> DEFINE new == Started(job, t, state)
<1>1. job \in Job /\ FALSE \in BOOLEAN
  BY DEF JobOK
<1>2. new \in Job
  BY <1>1, Zenon DEF Job, Started
<1>3. /\ new.state = state /\ new.current = t /\ new.cancel = FALSE
      /\ new.active = job.active /\ new.attempts = job.attempts
      /\ new.cleaned = job.cleaned /\ new.renderDir = job.renderDir
      /\ new.datasetZip = job.datasetZip
  BY <1>1 DEF Job, Started
<1> HIDE DEF new
<1>4. JobOK(new)
  BY <1>2, <1>3, SameArtifacts
<1> QED
  BY <1>3, <1>4 DEF new

LEMMA NewAttemptOK ==
  ASSUME NEW job, JobOK(job), NEW n \in Versions, NextAttempt(job, n),
         NEW state \in {"RECONSTRUCTING", "REVIEW_READY"}, NEW splat \in BOOLEAN
  PROVE  LET new == OnNewAttempt(job, n, NewAttempt(state, splat)) IN
         /\ JobOK(new) /\ HasActive(new) /\ new.active = n /\ new.renderDir = NoPath
         /\ new.state = job.state /\ new.current = job.current /\ new.cancel = job.cancel
<1> DEFINE a == NewAttempt(state, splat)
           f == AppendAttempt(job, n, a)
           new == OnNewAttempt(job, n, a)
<1>1. job \in Job /\ job.attempts \in Attempts
  BY DEF JobOK, Job
<1>2. a \in Attempt /\ Own(a, n) /\ a.cleaned = NoPath /\ a.renderDir = NoPath
      /\ a.datasetZip = NoPath
  BY QueueAssumption DEF NewAttempt, Attempt, Own, NoPath, Path
<1> HIDE DEF a
<1>3. /\ DOMAIN f = DOMAIN job.attempts \cup {n} /\ f[n] = a
      /\ \A m \in DOMAIN job.attempts : m # n => f[m] = job.attempts[m]
  BY DEF AppendAttempt
<1>4. f \in Attempts
  <2>1. /\ DOMAIN f \in SUBSET Versions
        /\ \A m \in DOMAIN f : f[m] \in Attempt
    BY <1>1, <1>2, <1>3, AttemptsType
  <2>2. f = [m \in DOMAIN f |-> f[m]]
    BY DEF AppendAttempt
  <2> HIDE DEF f
  <2> QED
    BY <2>1, <2>2, AttemptsType
<1>5. n \in 0 .. MaxVersions /\ NoPath \in Path
  BY QueueAssumption DEF Versions, NoPath, Path
<1>6. new = [job EXCEPT !.active = n, !.cleaned = NoPath, !.renderDir = NoPath,
                        !.datasetZip = NoPath, !.attempts = f]
  BY DEF OnNewAttempt
<1> HIDE DEF f, new
<1>7. new \in Job
  BY <1>1, <1>4, <1>5, <1>6, Zenon DEF Job
<1>8. /\ new.active = n /\ new.attempts = f /\ new.cleaned = NoPath
      /\ new.renderDir = NoPath /\ new.datasetZip = NoPath
      /\ new.state = job.state /\ new.current = job.current /\ new.cancel = job.cancel
  BY <1>1, <1>6 DEF Job
<1>9. HasActive(new) /\ ActiveOf(new) = a
  BY <1>3, <1>8 DEF HasActive, ActiveOf
<1>10. \A m \in DOMAIN new.attempts : Own(new.attempts[m], m)
  BY <1>2, <1>3, <1>8 DEF JobOK, ArtifactsOK, Own
<1>11. ArtifactsOK(new)
  BY <1>2, <1>8, <1>9, <1>10 DEF ArtifactsOK, Own
<1> QED
  BY <1>7, <1>8, <1>9, <1>11 DEF JobOK, new, a

LEMMA CreatedTask ==
  ASSUME NEW t, NEW j, NEW n, NEW type, Create(t, j, n, type), t \in TaskIds
  PROVE  /\ t \in DOMAIN tasks' /\ t # NoTask /\ tasks'[t].job = j /\ tasks'[t].attempt = n
         /\ tasks'[t].type = type
BY NoTaskIsNoTask DEF Create, NewTask

LEMMA CreateJobInv == ASSUME Inv, NEW j \in JobIds, CreateJob(j) PROVE JInv'
<1>1. NewJob \in Job
  <2>1. <<>> \in [{} -> Attempt]
    OBVIOUS
  <2>2. <<>> \in Attempts
    BY <2>1 DEF Attempts
  <2> QED
    BY <2>2, QueueAssumption DEF NewJob, Job, JobStates, NoPath, Path
<1>2. ArtifactsOK(NewJob)
  BY DEF ArtifactsOK, HasActive, NewJob
<1>3. Linked(j, NewJob, tasks)
  BY DEF Linked, NewJob, Processing
<1> QED
  BY <1>1, <1>2, <1>3 DEF CreateJob, Inv, JInv, JobOK

LEMMA AddVideoInv ==
  ASSUME Inv, QueueStep, NEW j \in JobIds, NEW t \in TaskIds, NEW saved \in Saves,
         AddVideo(j, t, saved)
  PROVE  JInv'
<1>1. PICK n \in Versions :
        /\ NextAttempt(jobs[j], n) /\ Create(t, j, n, "RECONSTRUCT")
        /\ jobs' = IF ~saved THEN jobs ELSE JobsWith(j,
             OnNewAttempt(Started(jobs[j], t, "RECONSTRUCTING"), n,
                          NewAttempt("RECONSTRUCTING", FALSE)))
  BY DEF AddVideo
<1>2. CASE ~saved
  BY <1>1, <1>2, SaveNone
<1>3. CASE saved
  <2> DEFINE started == Started(jobs[j], t, "RECONSTRUCTING")
             new     == OnNewAttempt(started, n, NewAttempt("RECONSTRUCTING", FALSE))
  <2>1. j \in DOMAIN jobs /\ JobOK(jobs[j])
    BY DEF AddVideo, Inv, JInv
  <2>2. /\ started = Started(jobs[j], t, "RECONSTRUCTING")
        /\ "RECONSTRUCTING" \in JobStates /\ t \in TaskIds \cup {NoTask}
    BY DEF JobStates, Processing
  <2>7. jobs' = JobsWith(j, new) /\ new = OnNewAttempt(started, n, NewAttempt("RECONSTRUCTING", FALSE))
    BY <1>1, <1>3
  <2> HIDE DEF started, new
  <2>8. /\ JobOK(started) /\ started.attempts = jobs[j].attempts
        /\ started.state = "RECONSTRUCTING" /\ started.current = t /\ started.cancel = FALSE
    BY <2>1, <2>2, StartedOK
  <2>3. NextAttempt(started, n)
    BY <1>1, <2>8 DEF NextAttempt
  <2>4. /\ JobOK(new) /\ HasActive(new) /\ new.active = n /\ new.renderDir = NoPath
        /\ new.state = "RECONSTRUCTING" /\ new.current = t /\ new.cancel = FALSE
    BY <2>7, <2>8, <2>3, NewAttemptOK
  <2>6. Linked(j, new, tasks')
    BY <1>1, <2>4, CreatedTask DEF Linked, ProcessingStateOf
  <2> QED
    BY <2>1, <2>4, <2>7, <2>6, SaveOne
<1> QED
  BY <1>2, <1>3

LEMMA AddExistingPLYInv ==
  ASSUME Inv, QueueStep, NEW j \in JobIds, AddExistingPLY(j)
  PROVE  JInv'
<1> DEFINE freed == Started(jobs[j], NoTask, "REVIEW_READY")
<1>1. PICK n \in Versions :
        /\ NextAttempt(jobs[j], n)
        /\ jobs' = JobsWith(j, OnNewAttempt(freed, n, NewAttempt("REVIEW_READY", TRUE)))
  BY DEF AddExistingPLY, Started
<1> DEFINE new == OnNewAttempt(freed, n, NewAttempt("REVIEW_READY", TRUE))
<1>2. j \in DOMAIN jobs /\ JobOK(jobs[j])
  BY DEF AddExistingPLY, Inv, JInv
<1>3. /\ "REVIEW_READY" \in JobStates /\ NoTask \in TaskIds \cup {NoTask}
      /\ freed = Started(jobs[j], NoTask, "REVIEW_READY")
      /\ new = OnNewAttempt(freed, n, NewAttempt("REVIEW_READY", TRUE))
      /\ jobs' = JobsWith(j, new)
  BY <1>1 DEF JobStates
<1> HIDE DEF freed, new
<1>4. /\ JobOK(freed) /\ freed.attempts = jobs[j].attempts
      /\ freed.state = "REVIEW_READY" /\ freed.current = NoTask
  BY <1>2, <1>3, StartedOK
<1>5. NextAttempt(freed, n)
  BY <1>1, <1>4 DEF NextAttempt
<1>6. JobOK(new) /\ new.state = "REVIEW_READY" /\ new.current = NoTask
  BY <1>3, <1>4, <1>5, NewAttemptOK
<1>7. Linked(j, new, tasks')
  BY <1>6 DEF Linked, Processing
<1> QED
  BY <1>2, <1>3, <1>6, <1>7, SaveOne

LEMMA ActivateAttemptInv ==
  ASSUME Inv, QueueStep, NEW j \in JobIds, NEW n \in Versions, ActivateAttempt(j, n)
  PROVE  JInv'
<1> DEFINE job == jobs[j]
           a   == job.attempts[n]
<1>1. /\ j \in DOMAIN jobs /\ JobOK(job) /\ job \in Job /\ job.attempts \in Attempts
      /\ job.current = NoTask /\ n \in DOMAIN job.attempts
  BY DEF ActivateAttempt, Idle, Inv, JInv, JobOK, Job
<1>2. PICK state \in {"COMPLETED", "RENDER_READY", "EDITING", "REVIEW_READY"} :
        jobs' = JobsWith(j, [job EXCEPT !.active = n, !.cleaned = a.cleaned,
                               !.renderDir = a.renderDir, !.datasetZip = a.datasetZip,
                               !.state = state])
  BY Zenon DEF ActivateAttempt
<1> DEFINE new == [job EXCEPT !.active = n, !.cleaned = a.cleaned,
                     !.renderDir = a.renderDir, !.datasetZip = a.datasetZip, !.state = state]
<1>3. a \in Attempt /\ Own(a, n)
  BY <1>1, AttemptsType DEF JobOK, ArtifactsOK, Own
<1>4. /\ n \in 0 .. MaxVersions /\ state \in JobStates
      /\ a.cleaned \in Path /\ a.renderDir \in Path /\ a.datasetZip \in Path
  BY <1>3, QueueAssumption DEF Versions, JobStates, Attempt
<1> HIDE DEF job
<1>5. new \in Job
  BY <1>1, <1>4, Zenon DEF Job
<1>6. /\ new.active = n /\ new.cleaned = a.cleaned /\ new.renderDir = a.renderDir
      /\ new.datasetZip = a.datasetZip /\ new.state = state
      /\ new.attempts = job.attempts /\ new.current = NoTask
  BY <1>1 DEF Job
<1>7. HasActive(new) /\ ActiveOf(new) = a
  BY <1>1, <1>6 DEF HasActive, ActiveOf
<1>8. \A m \in DOMAIN new.attempts : Own(new.attempts[m], m)
  BY <1>1, <1>6 DEF JobOK, ArtifactsOK, Own
<1>9. jobs' = JobsWith(j, new)
  BY <1>2
<1> HIDE DEF new
<1>10. JobOK(new)
  BY <1>3, <1>5, <1>6, <1>7, <1>8 DEF JobOK, ArtifactsOK, Own
<1>11. Linked(j, new, tasks')
  BY <1>6 DEF Linked, Processing
<1> QED
  BY <1>1, <1>9, <1>10, <1>11, SaveOne

LEMMA SaveCleanedInv ==
  ASSUME Inv, QueueStep, NEW j \in JobIds, SaveCleaned(j)
  PROVE  JInv'
<1> DEFINE job == jobs[j]
           n   == job.active
           mid == [job EXCEPT !.cleaned = n, !.renderDir = NoPath, !.datasetZip = NoPath,
                              !.state = "EDITING", !.cancel = FALSE]
           a   == [ActiveOf(job) EXCEPT !.cleaned = n, !.renderDir = NoPath, !.datasetZip = NoPath]
<1>1. /\ j \in DOMAIN jobs /\ JobOK(job) /\ job \in Job /\ job.current = NoTask
      /\ HasActive(job) /\ ActiveOf(job) \in Attempt /\ n \in Path
  BY ActiveType DEF SaveCleaned, Idle, Inv, JInv, JobOK
<1>2. jobs' = JobsWith(j, WithActive(mid, a))
  BY DEF SaveCleaned
<1> HIDE DEF job
<1>3. NoPath \in Path /\ "EDITING" \in JobStates /\ FALSE \in BOOLEAN
  BY QueueAssumption DEF NoPath, Path, JobStates
<1>4. mid \in Job /\ a \in Attempt
  <2>1. mid \in Job
    BY <1>1, <1>3, Zenon DEF Job
  <2>2. a \in Attempt
    BY <1>1, <1>3, Zenon DEF Attempt
  <2> QED
    BY <2>1, <2>2
<1>5. /\ mid.active = n /\ mid.attempts = job.attempts /\ mid.cleaned = n
      /\ mid.renderDir = NoPath /\ mid.datasetZip = NoPath
      /\ mid.state = "EDITING" /\ mid.current = NoTask
      /\ a.cleaned = n /\ a.renderDir = NoPath /\ a.datasetZip = NoPath
  BY <1>1 DEF Job, Attempt
<1>6. /\ \A m \in DOMAIN mid.attempts : Own(mid.attempts[m], m)
      /\ HasActive(mid) /\ Own(a, mid.active)
  BY <1>1, <1>5 DEF JobOK, ArtifactsOK, Own, HasActive
<1> HIDE DEF mid, a
<1>7. /\ JobOK(WithActive(mid, a)) /\ WithActive(mid, a).state = "EDITING"
      /\ WithActive(mid, a).current = NoTask
  BY <1>4, <1>5, <1>6, MirroredUpdate
<1>8. Linked(j, WithActive(mid, a), tasks')
  BY <1>7 DEF Linked, Processing
<1> QED
  BY <1>1, <1>2, <1>7, <1>8, SaveOne

LEMMA StartRenderInv ==
  ASSUME Inv, QueueStep, NEW j \in JobIds, NEW t \in TaskIds, NEW saved \in Saves,
         StartRender(j, t, saved)
  PROVE  JInv'
<1> DEFINE job == jobs[j]
           n   == job.active
           began == Started(job, t, "RENDERING")
           mid == [began EXCEPT !.renderDir = n, !.datasetZip = NoPath]
           a   == [ActiveOf(mid) EXCEPT !.datasetZip = NoPath]
<1>1. /\ j \in DOMAIN jobs /\ JobOK(job) /\ job.cleaned # NoPath
      /\ Create(t, j, n, "RENDER")
      /\ jobs' = IF ~saved THEN jobs ELSE JobsWith(j,
           IF HasActive(mid) THEN WithActive(mid, a) ELSE mid)
  BY DEF StartRender, Inv, JInv
<1>2. CASE ~saved
  BY <1>1, <1>2, SaveNone
<1>3. CASE saved
  <2>1. HasActive(job) /\ n \in Path /\ ActiveOf(job) \in Attempt
    BY <1>1, ActiveType DEF JobOK, ArtifactsOK
  <2>2. t \in TaskIds \cup {NoTask} /\ "RENDERING" \in JobStates
    BY DEF JobStates, Processing
  <2> HIDE DEF job, began
  <2>3. /\ JobOK(began) /\ began.state = "RENDERING" /\ began.current = t
        /\ began.cancel = FALSE /\ began.active = n /\ began.attempts = job.attempts
        /\ began.cleaned = job.cleaned
    BY <1>1, <2>2, StartedOK DEF began
  <2>4. began \in Job /\ NoPath \in Path
    BY <2>3, QueueAssumption DEF JobOK, NoPath, Path
  <2>5. mid \in Job
    BY <2>1, <2>4, Zenon DEF Job
  <2>6. /\ mid.active = n /\ mid.attempts = job.attempts /\ mid.cleaned = job.cleaned
        /\ mid.renderDir = n /\ mid.datasetZip = NoPath
        /\ mid.state = "RENDERING" /\ mid.current = t /\ mid.cancel = FALSE
    BY <2>3, <2>4 DEF Job
  <2> HIDE DEF mid
  <2>7. HasActive(mid) /\ ActiveOf(mid) = ActiveOf(job)
    BY <2>1, <2>6 DEF HasActive, ActiveOf
  <2>8. a \in Attempt
    BY <2>1, <2>4, <2>7, Zenon DEF Attempt
  <2>9. /\ a.cleaned = ActiveOf(job).cleaned /\ a.renderDir = ActiveOf(job).renderDir
        /\ a.datasetZip = NoPath
    BY <2>1, <2>7 DEF Attempt
  <2> HIDE DEF a
  <2>10. /\ \A m \in DOMAIN mid.attempts : Own(mid.attempts[m], m)
         /\ Own(a, mid.active) /\ a.cleaned = mid.cleaned
         /\ a.renderDir # NoPath => mid.renderDir = a.renderDir
    BY <1>1, <2>1, <2>6, <2>9 DEF JobOK, ArtifactsOK, Own, HasActive, ActiveOf
  <2> DEFINE new == WithActive(mid, a)
  <2>11. /\ JobOK(new) /\ new.state = "RENDERING" /\ new.current = t /\ new.cancel = FALSE
         /\ new.active = n /\ HasActive(new)
    BY <2>5, <2>6, <2>7, <2>8, <2>9, <2>10, MirroredUpdate
  <2>12. jobs' = JobsWith(j, new)
    BY <1>1, <1>3, <2>7
  <2> HIDE DEF new
  <2>13. Linked(j, new, tasks')
    BY <1>1, <2>11, CreatedTask DEF Linked, ProcessingStateOf
  <2> QED
    BY <1>1, <2>11, <2>12, <2>13, SaveOne
<1> QED
  BY <1>2, <1>3

LEMMA StartDatasetInv ==
  ASSUME Inv, QueueStep, NEW j \in JobIds, NEW t \in TaskIds, NEW saved \in Saves,
         StartDataset(j, t, saved)
  PROVE  JInv'
<1> DEFINE job == jobs[j]
           new == Started(job, t, "DATASET_BUILDING")
<1>1. /\ j \in DOMAIN jobs /\ JobOK(job) /\ job.renderDir # NoPath
      /\ Create(t, j, job.active, "DATASET")
      /\ jobs' = IF ~saved THEN jobs ELSE JobsWith(j, new)
  BY DEF StartDataset, Inv, JInv
<1>2. CASE ~saved
  BY <1>1, <1>2, SaveNone
<1>3. CASE saved
  <2>1. HasActive(job)
    BY <1>1 DEF JobOK, ArtifactsOK
  <2>2. t \in TaskIds \cup {NoTask} /\ "DATASET_BUILDING" \in JobStates
    BY DEF JobStates, Processing
  <2> HIDE DEF job, new
  <2>3. /\ JobOK(new) /\ new.state = "DATASET_BUILDING" /\ new.current = t
        /\ new.cancel = FALSE /\ new.active = job.active /\ new.attempts = job.attempts
    BY <1>1, <2>2, StartedOK DEF new
  <2>4. Linked(j, new, tasks')
    BY <1>1, <2>1, <2>3, CreatedTask DEF Linked, ProcessingStateOf, HasActive
  <2> QED
    BY <1>1, <1>3, <2>3, <2>4, SaveOne
<1> QED
  BY <1>2, <1>3

\* A background upload cannot hide a reconstruction, because a job that is
\* reconstructing has no render directory (the last conjunct of Linked).
LEMMA SetBackgroundDirInv ==
  ASSUME Inv, QueueStep, NEW j \in JobIds, SetBackgroundDir(j)
  PROVE  JInv'
<1> DEFINE job == jobs[j]
           st  == IF job.renderDir # NoPath THEN "RENDER_READY" ELSE job.state
           mid == [job EXCEPT !.background = TRUE, !.datasetZip = NoPath, !.state = st]
           a   == [ActiveOf(mid) EXCEPT !.datasetZip = NoPath]
           new == IF HasActive(mid) THEN WithActive(mid, a) ELSE mid
<1>1. /\ j \in DOMAIN jobs /\ JobOK(job) /\ job \in Job /\ Linked(j, job, tasks)
      /\ ~(job.current # NoTask /\ job.state = "DATASET_BUILDING")
      /\ UNCHANGED tasks
  BY DEF SetBackgroundDir, Inv, JInv, JobOK
<1>2. jobs' = JobsWith(j, new)
  BY DEF SetBackgroundDir
<1> HIDE DEF job
<1>3. NoPath \in Path /\ st \in JobStates /\ TRUE \in BOOLEAN
  BY <1>1, QueueAssumption DEF NoPath, Path, JobStates, Job
<1>4. mid \in Job
  BY <1>1, <1>3, Zenon DEF Job
<1>5. /\ mid.active = job.active /\ mid.attempts = job.attempts /\ mid.cleaned = job.cleaned
      /\ mid.renderDir = job.renderDir /\ mid.datasetZip = NoPath
      /\ mid.state = st /\ mid.current = job.current /\ mid.cancel = job.cancel
  BY <1>1 DEF Job
<1> HIDE DEF mid
<1>6. HasActive(mid) <=> HasActive(job)
  BY <1>5 DEF HasActive
<1>7. /\ JobOK(new) /\ new.state = st /\ new.current = job.current
      /\ new.cancel = job.cancel /\ new.active = job.active /\ new.renderDir = job.renderDir
      /\ HasActive(new) <=> HasActive(job)
  <2>1. CASE HasActive(job)
    <3>1. ActiveOf(mid) = ActiveOf(job) /\ ActiveOf(job) \in Attempt
      BY <1>1, <1>5, <2>1, ActiveType DEF ActiveOf
    <3>2. a \in Attempt
      BY <1>3, <3>1, Zenon DEF Attempt
    <3>3. /\ a.cleaned = ActiveOf(job).cleaned /\ a.renderDir = ActiveOf(job).renderDir
          /\ a.datasetZip = NoPath
      BY <3>1 DEF Attempt
    <3> HIDE DEF a
    <3>4. /\ \A m \in DOMAIN mid.attempts : Own(mid.attempts[m], m)
          /\ Own(a, mid.active) /\ a.cleaned = mid.cleaned
          /\ a.renderDir # NoPath => mid.renderDir = a.renderDir
          /\ mid.renderDir \in {NoPath, mid.active}
      BY <1>1, <1>5, <2>1, <3>3 DEF JobOK, ArtifactsOK, Own, HasActive, ActiveOf
    <3>5. /\ JobOK(WithActive(mid, a)) /\ WithActive(mid, a).state = mid.state
          /\ WithActive(mid, a).current = mid.current /\ WithActive(mid, a).cancel = mid.cancel
          /\ WithActive(mid, a).active = mid.active /\ HasActive(WithActive(mid, a))
      BY <1>4, <1>5, <1>6, <2>1, <3>2, <3>3, <3>4, MirroredUpdate
    <3>6. WithActive(mid, a).renderDir = mid.renderDir
      BY <1>4 DEF WithActive, Job
    <3> QED
      BY <1>5, <1>6, <2>1, <3>5, <3>6
  <2>2. CASE ~HasActive(job)
    <3>1. new = mid
      BY <1>6, <2>2
    <3>2. ArtifactsOK(mid)
      BY <1>1, <1>5, <1>6, <2>2 DEF JobOK, ArtifactsOK
    <3> QED
      BY <1>4, <1>5, <1>6, <3>1, <3>2 DEF JobOK
  <2> QED
    BY <2>1, <2>2
<1> HIDE DEF new
<1>8. Linked(j, new, tasks)
  <2>1. CASE job.current = NoTask
    BY <1>1, <1>7, <2>1 DEF Linked, Processing
  <2>2. CASE job.current # NoTask
    <3>1. tasks[job.current].type \in {"RECONSTRUCT", "RENDER", "DATASET"}
      BY <1>1, <2>2, ServiceAssumption DEF Linked, Inv, IInv, RowOK, Task
    <3>2. job.renderDir # NoPath => tasks[job.current].type = "RENDER"
      BY <1>1, <2>2, <3>1 DEF Linked, ProcessingStateOf
    <3>3. /\ new.state = IF job.renderDir # NoPath THEN "RENDER_READY" ELSE job.state
          /\ new.current # NoTask
      BY <1>7, <2>2
    <3> HIDE DEF st
    <3> QED
      BY <1>1, <1>7, <2>2, <3>1, <3>2, <3>3 DEF Linked
  <2> QED
    BY <2>1, <2>2
<1> QED
  BY <1>1, <1>2, <1>7, <1>8, SaveOne

LEMMA StopsTheStoppable ==
  ASSUME NEW j, NEW stopped, stopped = Stoppable(j), CancelByJob(j, stopped),
         NEW t \in DOMAIN tasks
  PROVE  tasks'[t] = IF t \in Stoppable(j) THEN StoppedTask(t) ELSE tasks[t]
BY Zenon DEF CancelByJob

LEMMA CancelInv ==
  ASSUME Inv, QueueStep, NEW j \in JobIds, NEW stopped \in SUBSET Stoppable(j),
         NEW saved \in Saves, Cancel(j, stopped, saved)
  PROVE  JInv'
<1> DEFINE job == jobs[j]
           st  == IF job.current = NoTask THEN "CANCELLED" ELSE job.state
           new == [job EXCEPT !.cancel = TRUE, !.state = st]
<1>1. /\ j \in DOMAIN jobs /\ JobOK(job) /\ job \in Job /\ Linked(j, job, tasks)
      /\ CancelByJob(j, stopped)
      /\ saved => stopped = Stoppable(j)
      /\ jobs' = IF ~saved THEN jobs ELSE JobsWith(j, new)
  BY DEF Cancel, Inv, JInv, JobOK
<1>2. CASE ~saved
  BY <1>1, <1>2, SaveNone
<1>3. CASE saved
  <2>0. stopped = Stoppable(j) /\ CancelByJob(j, stopped)
    BY <1>1, <1>3
  <2> HIDE DEF job
  <2>1. st \in JobStates /\ TRUE \in BOOLEAN
    BY <1>1 DEF JobStates, Job
  <2>2. new \in Job
    BY <1>1, <2>1, Zenon DEF Job
  <2>3. /\ new.active = job.active /\ new.attempts = job.attempts /\ new.cleaned = job.cleaned
        /\ new.renderDir = job.renderDir /\ new.datasetZip = job.datasetZip
        /\ new.state = st /\ new.current = job.current
    BY <1>1 DEF Job
  <2> HIDE DEF new
  <2>4. JobOK(new)
    BY <1>1, <2>2, <2>3, SameArtifacts
  <2>5. job.current # NoTask => tasks'[job.current].cancel \/ tasks'[job.current].state \in Terminal
    <3> SUFFICES ASSUME job.current # NoTask
                 PROVE  tasks'[job.current].cancel \/ tasks'[job.current].state \in Terminal
      OBVIOUS
    <3>1. /\ job.current \in DOMAIN tasks /\ tasks[job.current].job = j
          /\ tasks[job.current] \in Task
      BY <1>1 DEF Linked, Inv, IInv, RowOK
    <3>2. CASE Over(job.current)
      <4>1. job.current \notin Stoppable(j)
        BY <3>2 DEF Stoppable
      <4>2. tasks'[job.current] = tasks[job.current]
        BY <2>0, <3>1, <4>1, StopsTheStoppable
      <4> QED
        BY <3>2, <4>2 DEF Over
    <3>3. CASE ~Over(job.current)
      <4>1. job.current \in Stoppable(j)
        BY <3>1, <3>3 DEF Stoppable
      <4>2. tasks'[job.current] = StoppedTask(job.current)
        BY <2>0, <3>1, <4>1, StopsTheStoppable
      <4> QED
        BY <3>1, <4>2 DEF StoppedTask, Task
    <3> QED
      BY <3>2, <3>3
  <2>6. Linked(j, job, tasks')
    BY <1>1, QueueKeepsLinks DEF Inv
  <2>7. Linked(j, new, tasks')
    BY <2>3, <2>5, <2>6 DEF Linked, HasActive, Processing
  <2> QED
    BY <1>1, <1>3, <2>4, <2>7, SaveOne
<1> QED
  BY <1>2, <1>3

----------------------------------------------------------------------------
(* What workers and timers do to the jobs. *)

LEMMA ClaimTaskInv ==
  ASSUME Inv, NEW w \in WorkerIds, ClaimTask(w)
  PROVE  QueueStep /\ JInv'
<1>1. PICK lost \in SUBSET Swept, applied \in SUBSET Swept :
        \/ /\ \/ \E t \in TaskIds : ClaimDelivers(t, w, lost)
              \/ ClaimFindsNone(lost)
           /\ jobs' = Applied(applied, [t \in Swept |-> SweptTask(t)])
        \/ ClaimAborts(lost) /\ UNCHANGED jobs
  BY DEF ClaimTask
<1>2. QueueStep
  BY <1>1, ClaimIsQueueStep
<1>3. CASE UNCHANGED jobs
  BY <1>2, <1>3, SaveNone
<1>4. CASE jobs' = Applied(applied, [t \in Swept |-> SweptTask(t)])
  <2> DEFINE ts == [t \in Swept |-> SweptTask(t)]
  <2>1. ASSUME NEW t \in applied
        PROVE  /\ t \in DOMAIN tasks /\ ts[t] \in Task /\ ts[t].state \in Terminal
               /\ ts[t].attempt = tasks[t].attempt
    <3>1. t \in Swept /\ ts[t] = SweptTask(t)
      OBVIOUS
    <3>2. t \in DOMAIN tasks /\ tasks[t] \in Task
      BY <3>1 DEF Swept, Inv, IInv, RowOK
    <3> HIDE DEF ts
    <3>3. SweptTask(t) \in Task /\ SweptTask(t).state \in Terminal
          /\ SweptTask(t).attempt = tasks[t].attempt
      BY <3>2 DEF SweptTask, Task, Terminal
    <3> QED
      BY <3>1, <3>2, <3>3
  <2>2. jobs' = Applied(applied, ts)
    BY <1>4
  <2> HIDE DEF ts
  <2>3. JInv'
    BY <1>2, <2>1, <2>2, ApplyOutcomes
  <2> QED
    BY <1>2, <2>3
<1> QED
  BY <1>1, <1>2, <1>3, <1>4

LEMMA ReportInv ==
  ASSUME Inv, NEW t \in TaskIds, NEW w \in WorkerIds, NEW saved \in Saves,
         CompleteTask(t, w, saved) \/ FailTask(t, w, saved) \/ CancelTask(t, w, saved)
  PROVE  QueueStep /\ JInv'
<1>1. (Complete(t, w) \/ Fail(t, w) \/ AcknowledgeCancel(t, w)) /\ Report(t, saved)
  BY DEF CompleteTask, FailTask, CancelTask
<1>2. QueueStep
  BY <1>1, FinishIsQueueStep
<1>3. CASE jobs' = jobs
  BY <1>2, <1>3, SaveNone
<1>4. CASE jobs' = Applied({t}, tasks')
  <2>1. PICK o \in Terminal :
          t \in DOMAIN tasks /\ tasks' = [tasks EXCEPT ![t] = Finished(t, o)]
    BY <1>1 DEF Complete, Fail, AcknowledgeCancel, Terminal
  <2>2. tasks[t] \in Task /\ tasks'[t] = Finished(t, o)
    BY <2>1 DEF Inv, IInv, RowOK
  <2>3. /\ tasks'[t] \in Task /\ tasks'[t].state \in Terminal
        /\ tasks'[t].attempt = tasks[t].attempt
    BY <2>2 DEF Finished, Task, Terminal
  <2> DEFINE S  == {t}
             ts == tasks'
  <2>4. /\ jobs' = Applied(S, ts)
        /\ \A u \in S : /\ u \in DOMAIN tasks /\ ts[u] \in Task /\ ts[u].state \in Terminal
                         /\ ts[u].attempt = tasks[u].attempt
    BY <1>4, <2>1, <2>3
  <2> HIDE DEF S, ts
  <2>5. JInv'
    BY <1>2, <2>4, ApplyOutcomes
  <2> QED
    BY <1>2, <2>5
<1> QED
  BY <1>1, <1>2, <1>3, <1>4 DEF Report

LEMMA WorkerNextInv == ASSUME Inv, WorkerNext PROVE QueueStep /\ JInv'
<1> SUFFICES ASSUME NEW w \in WorkerIds,
      \/ ClaimTask(w)
      \/ \E t \in TaskIds : TaskHeartbeat(t, w)
      \/ \E t \in TaskIds, saved \in Saves :
           CompleteTask(t, w, saved) \/ FailTask(t, w, saved) \/ CancelTask(t, w, saved)
    PROVE QueueStep /\ JInv'
  BY DEF WorkerNext
<1>1. CASE ClaimTask(w)
  BY <1>1, ClaimTaskInv
<1>2. ASSUME NEW t \in TaskIds, TaskHeartbeat(t, w) PROVE QueueStep /\ JInv'
  <2>1. Heartbeat(t, w) /\ jobs' = jobs
    BY <1>2 DEF TaskHeartbeat
  <2>2. QueueStep
    BY <2>1, FinishIsQueueStep
  <2> QED
    BY <2>1, <2>2, SaveNone
<1>3. ASSUME NEW t \in TaskIds, NEW saved \in Saves,
             CompleteTask(t, w, saved) \/ FailTask(t, w, saved) \/ CancelTask(t, w, saved)
      PROVE  QueueStep /\ JInv'
  BY <1>3, ReportInv
<1> QED
  BY <1>1, <1>2, <1>3

LEMMA TimerNextInv == ASSUME Inv, TimerNext PROVE QueueStep /\ JInv'
<1>1. QueueStep
  BY TimerQueueStep
<1>2. CASE TimePasses
  <2>1. jobs' = jobs
    BY <1>2 DEF TimePasses
  <2> QED
    BY <1>1, <2>1, SaveNone
<1>3. ASSUME NEW repaired \in SUBSET Unreconciled, ReconcileUpTo(repaired)
      PROVE  QueueStep /\ JInv'
  <2>1. jobs' = Applied(repaired, tasks)
    BY <1>3 DEF ReconcileUpTo
  <2>2. ASSUME NEW t \in repaired
        PROVE  /\ t \in DOMAIN tasks /\ tasks[t] \in Task /\ tasks[t].state \in Terminal
               /\ tasks[t].attempt = tasks[t].attempt
    BY DEF Unreconciled, Over, Inv, IInv, RowOK
  <2>3. JInv'
    BY <1>1, <2>1, <2>2, ApplyOutcomes
  <2> QED
    BY <1>1, <2>3
<1> QED
  BY <1>2, <1>3 DEF TimerNext

LEMMA UserNextInv == ASSUME Inv, UserNext PROVE QueueStep /\ JInv'
<1>1. QueueStep
  BY UserQueueStep
<1> SUFFICES ASSUME NEW j \in JobIds,
      \/ CreateJob(j)
      \/ \E t \in TaskIds, saved \in Saves : AddVideo(j, t, saved)
      \/ AddExistingPLY(j)
      \/ \E n \in Versions : ActivateAttempt(j, n)
      \/ SaveCleaned(j)
      \/ \E t \in TaskIds, saved \in Saves : StartRender(j, t, saved)
      \/ SetBackgroundDir(j)
      \/ \E t \in TaskIds, saved \in Saves : StartDataset(j, t, saved)
      \/ \E stopped \in SUBSET Stoppable(j), saved \in Saves : Cancel(j, stopped, saved)
    PROVE JInv'
  BY <1>1 DEF UserNext
<1>2. CASE CreateJob(j)
  BY <1>2, CreateJobInv
<1>3. CASE \E t \in TaskIds, saved \in Saves : AddVideo(j, t, saved)
  BY <1>1, <1>3, AddVideoInv
<1>4. CASE AddExistingPLY(j)
  BY <1>1, <1>4, AddExistingPLYInv
<1>5. CASE \E n \in Versions : ActivateAttempt(j, n)
  BY <1>1, <1>5, ActivateAttemptInv
<1>6. CASE SaveCleaned(j)
  BY <1>1, <1>6, SaveCleanedInv
<1>7. CASE \E t \in TaskIds, saved \in Saves : StartRender(j, t, saved)
  BY <1>1, <1>7, StartRenderInv
<1>8. CASE SetBackgroundDir(j)
  BY <1>1, <1>8, SetBackgroundDirInv
<1>9. CASE \E t \in TaskIds, saved \in Saves : StartDataset(j, t, saved)
  BY <1>1, <1>9, StartDatasetInv
<1>10. CASE \E stopped \in SUBSET Stoppable(j), saved \in Saves : Cancel(j, stopped, saved)
  BY <1>1, <1>10, CancelInv
<1> QED
  BY <1>2, <1>3, <1>4, <1>5, <1>6, <1>7, <1>8, <1>9, <1>10

----------------------------------------------------------------------------
(* The theorems. *)

LEMMA InitInv == Init => Inv
<1>1. QueueInit => IInv
  BY InitInvariant
<1>2. Init => JInv
  BY DEF Init, JInv
<1> QED
  BY <1>1, <1>2 DEF Init, Inv

LEMMA StepInv == Inv /\ [Next]_vars => Inv' /\ [QueueNext]_tasks
<1> SUFFICES ASSUME Inv, [Next]_vars PROVE Inv' /\ [QueueNext]_tasks
  OBVIOUS
<1>1. QueueStep /\ JInv'
  <2>1. CASE UNCHANGED vars
    <3>1. QueueStep /\ jobs' = jobs
      BY <2>1 DEF vars, QueueStep
    <3> QED
      BY <3>1, SaveNone
  <2>2. CASE UserNext
    BY <2>2, UserNextInv
  <2>3. CASE WorkerNext
    BY <2>3, WorkerNextInv
  <2>4. CASE TimerNext
    BY <2>4, TimerNextInv
  <2> QED
    BY <2>1, <2>2, <2>3, <2>4 DEF Next
<1>2. [QueueNext]_tasks
  BY <1>1 DEF QueueStep
<1>3. IInv'
  BY <1>2, StepInvariant DEF Inv
<1> QED
  BY <1>1, <1>2, <1>3 DEF Inv

\* The inductive invariant holds in every reachable state of the control plane.
THEOREM ServiceInvariant == Spec => []Inv
<1>1. Init => Inv
  BY InitInv
<1>2. Inv /\ [Next]_vars => Inv'
  BY StepInv
<1> QED
  BY <1>1, <1>2, PTL DEF Spec

\* Every task and job file always holds what its struct allows.
THEOREM ServiceTypeCorrect == Spec => []TypeOK
BY ServiceInvariant, JobInvariantImplies, PTL

\* The current task of a job always is its own, for its active attempt.
THEOREM ServiceCurrentTaskIsOurs == Spec => []CurrentTaskIsOurs
BY ServiceInvariant, JobInvariantImplies, PTL

\* What a job shows always is what its active attempt owns.
THEOREM ServiceArtifacts == Spec => []ArtifactsAreTheActiveAttempts
BY ServiceInvariant, JobInvariantImplies, PTL

\* A processing job always has a task of that kind to wait for.
THEOREM ServiceStateMatchesTask == Spec => []StateMatchesTask
BY ServiceInvariant, JobInvariantImplies, PTL

\* A requested cancellation always is recorded in the current task too.
THEOREM ServiceCancelReachesTask == Spec => []CancelReachesTask
BY ServiceInvariant, JobInvariantImplies, PTL

\* Whatever the service does, and wherever it is interrupted, the queue moves
\* by the queue's own methods.
THEOREM ServiceDrivesQueue == Spec => QueueSpec
<1>1. Init => QueueInit
  BY DEF Init
<1>2. Inv /\ [Next]_vars => [QueueNext]_tasks
  BY StepInv
<1> QED
  BY <1>1, <1>2, ServiceInvariant, PTL DEF Spec, QueueSpec

\* So every task of the whole control plane keeps the contract of one task.
THEOREM ServiceImplementsLifecycle == Spec => ImplementsLifecycle
BY ServiceDrivesQueue, QueueImplementsLifecycle, PTL

\* And is delivered at most MaxAttempts times.
THEOREM ServiceDeliveryBound == Spec => []DeliveryBound
BY ServiceDrivesQueue, QueueDeliveryBound, PTL
=============================================================================
