-------------------------- MODULE JobHistoryProofs --------------------------
(***************************************************************************)
(* What the control plane never takes back, for every value of the         *)
(* constants: earlier attempts, the inputs of queued work, the hold of a   *)
(* job on its task.  JobKept is what one step keeps of one job; on it rest *)
(* an invariant about the inputs of tasks and two action properties.  And  *)
(* what it never claims: JobClaims says where renders and datasets of an   *)
(* attempt may come from.  And, last, which tasks it forgets: Moves says   *)
(* what a step makes of a job's hold on its task.                          *)
(***************************************************************************)
EXTENDS JobServiceProofs, FiniteSetTheorems

\* new is what a step makes of job.
AttemptKept(a, b) == /\ a.splat => b.splat /\ b.state = a.state
                     /\ a.cleaned # NoPath => b.cleaned # NoPath

JobKept(job, new) ==
  /\ job.background => new.background
  /\ \A n \in DOMAIN job.attempts :
       /\ n \in DOMAIN new.attempts
       /\ n # job.active => new.attempts[n] = job.attempts[n]
       /\ AttemptKept(job.attempts[n], new.attempts[n])

JobsKept == \A k \in DOMAIN jobs : k \in DOMAIN jobs' /\ JobKept(jobs[k], jobs'[k])

\* An attempt has no model while its reconstruction is the current task.
Unbuilt(job, ts) ==
  job.current # NoTask /\ ts[job.current].type = "RECONSTRUCT" => ~ActiveOf(job).splat

AllUnbuilt == \A k \in DOMAIN jobs : Unbuilt(jobs[k], tasks)

\* What a task works on is there.
HasInputs(task, js) ==
  /\ task.job \in DOMAIN js
  /\ task.type = "RENDER" =>
       /\ task.attempt \in DOMAIN js[task.job].attempts
       /\ js[task.job].attempts[task.attempt].cleaned # NoPath
  /\ task.type = "DATASET" => js[task.job].background
  /\ task.type = "RECONSTRUCT" /\ ~Faults => task.attempt \in DOMAIN js[task.job].attempts

HistoryInv ==
  /\ AllUnbuilt
  /\ \A t \in DOMAIN tasks : HasInputs(tasks[t], jobs)
  /\ ~Faults => NewVideoNewAttempt

----------------------------------------------------------------------------
(* Updates. *)

\* A job whose attempts stay.
LEMMA SameKept ==
  ASSUME NEW job, NEW new, new.attempts = job.attempts, job.background => new.background
  PROVE  JobKept(job, new)
BY DEF JobKept, AttemptKept

\* A job that moves on to a new attempt.
LEMMA AppendKept ==
  ASSUME NEW job, NEW x \in Job, x.attempts = job.attempts, job.background => x.background,
         NEW n \in Versions, NextAttempt(job, n), NEW a
  PROVE  LET new == OnNewAttempt(x, n, a) IN
         /\ JobKept(job, new) /\ new.current = x.current /\ n \notin DOMAIN job.attempts
         /\ ActiveOf(new) = a /\ n \in DOMAIN new.attempts
<1> DEFINE f == AppendAttempt(x, n, a)
           new == OnNewAttempt(x, n, a)
<1>1. n \notin DOMAIN job.attempts
  BY QueueAssumption DEF NextAttempt, Versions
<1>2. /\ DOMAIN f = DOMAIN job.attempts \cup {n} /\ f[n] = a
      /\ \A m \in DOMAIN job.attempts : f[m] = job.attempts[m]
  BY <1>1 DEF AppendAttempt
<1>3. new = [x EXCEPT !.active = n, !.cleaned = NoPath, !.renderDir = NoPath,
                      !.datasetZip = NoPath, !.attempts = f]
  BY DEF OnNewAttempt
<1> HIDE DEF f, new
<1>4. /\ new.attempts = f /\ new.active = n /\ new.current = x.current
      /\ new.background = x.background
  BY <1>3 DEF Job
<1>5. JobKept(job, new)
  BY <1>2, <1>4 DEF JobKept, AttemptKept
<1> QED
  BY <1>1, <1>2, <1>4, <1>5 DEF new, ActiveOf

\* A job whose active attempt is replaced.
LEMMA ActiveKept ==
  ASSUME NEW job, NEW x \in Job, x.attempts = job.attempts, x.active = job.active,
         job.background => x.background, HasActive(x), NEW a \in Attempt,
         AttemptKept(ActiveOf(x), a)
  PROVE  LET new == WithActive(x, a) IN
         /\ JobKept(job, new) /\ new.current = x.current /\ ActiveOf(new) = a
         /\ new.state = x.state
<1> DEFINE new == WithActive(x, a)
<1>1. /\ new \in Job /\ new = [x EXCEPT !.attempts = new.attempts]
      /\ DOMAIN new.attempts = DOMAIN x.attempts /\ new.attempts[x.active] = a
      /\ \A n \in DOMAIN x.attempts : n # x.active => new.attempts[n] = x.attempts[n]
  BY AttemptReplaced
<1> HIDE DEF new
<1>2. /\ new.current = x.current /\ new.active = x.active /\ new.background = x.background
      /\ new.state = x.state
  BY <1>1 DEF Job
<1>3. JobKept(job, new) /\ ActiveOf(new) = a
  BY <1>1, <1>2 DEF JobKept, AttemptKept, ActiveOf
<1> QED
  BY <1>2, <1>3 DEF new

\* What the queue does beside it leaves a job as unbuilt as it was.
LEMMA StaysUnbuilt ==
  ASSUME Inv, QueueStep, NEW k \in DOMAIN jobs, Unbuilt(jobs[k], tasks)
  PROVE  Unbuilt(jobs[k], tasks')
<1>1. CASE jobs[k].current = NoTask
  BY <1>1 DEF Unbuilt
<1>2. CASE jobs[k].current # NoTask
  <2>1. jobs[k].current \in DOMAIN tasks /\ jobs[k].current \in DOMAIN tasks'
    BY <1>2 DEF Inv, JInv, Linked, QueueStep
  <2>2. tasks'[jobs[k].current].type = tasks[jobs[k].current].type
    BY <2>1, TaskFrame DEF QueueStep, Inv
  <2> QED
    BY <2>2 DEF Unbuilt
<1> QED
  BY <1>1, <1>2

LEMMA SaveOneKept ==
  ASSUME Inv, QueueStep, AllUnbuilt, NEW j \in DOMAIN jobs, NEW new,
         jobs' = JobsWith(j, new), JobKept(jobs[j], new), Unbuilt(new, tasks')
  PROVE  JobsKept /\ AllUnbuilt'
<1>1. DOMAIN jobs' = DOMAIN jobs /\ jobs'[j] = new
  BY DEF JobsWith
<1>2. \A k \in DOMAIN jobs : k # j => jobs'[k] = jobs[k]
  BY DEF JobsWith
<1>3. JobsKept
  BY <1>1, <1>2, SameKept DEF JobsKept
<1>4. AllUnbuilt'
  BY <1>1, <1>2, StaysUnbuilt DEF AllUnbuilt
<1> QED
  BY <1>3, <1>4

LEMMA SaveNoneKept ==
  ASSUME Inv, QueueStep, AllUnbuilt, jobs' = jobs
  PROVE  JobsKept /\ AllUnbuilt'
BY SameKept, StaysUnbuilt DEF JobsKept, AllUnbuilt

----------------------------------------------------------------------------
(* The methods called for the user. *)

LEMMA CreateJobKept ==
  ASSUME Inv, QueueStep, AllUnbuilt, NEW j \in JobIds, CreateJob(j)
  PROVE  JobsKept /\ AllUnbuilt'
<1>1. /\ j \notin DOMAIN jobs /\ DOMAIN jobs' = DOMAIN jobs \cup {j} /\ jobs'[j] = NewJob
      /\ \A k \in DOMAIN jobs : jobs'[k] = jobs[k]
  BY DEF CreateJob
<1>2. JobsKept
  BY <1>1, SameKept DEF JobsKept
<1>3. Unbuilt(NewJob, tasks')
  BY DEF Unbuilt, NewJob
<1>4. AllUnbuilt'
  BY <1>1, <1>3, StaysUnbuilt DEF AllUnbuilt
<1> QED
  BY <1>2, <1>4

LEMMA AddVideoKept ==
  ASSUME Inv, QueueStep, AllUnbuilt, NEW j \in JobIds, NEW t \in TaskIds,
         NEW saved \in Saves, AddVideo(j, t, saved)
  PROVE  JobsKept /\ AllUnbuilt'
<1> DEFINE job == jobs[j]
           x   == Started(job, t, "RECONSTRUCTING")
           a   == NewAttempt("RECONSTRUCTING", FALSE)
<1>1. PICK n \in Versions :
        /\ NextAttempt(job, n) /\ j \in DOMAIN jobs /\ job \in Job
        /\ jobs' = IF ~saved THEN jobs ELSE JobsWith(j, OnNewAttempt(x, n, a))
  BY DEF AddVideo, Inv, JInv, JobOK
<1>2. CASE ~saved
  BY <1>1, <1>2, SaveNoneKept
<1>3. CASE saved
  <2> DEFINE new == OnNewAttempt(x, n, a)
  <2>1. "RECONSTRUCTING" \in JobStates /\ t \in TaskIds \cup {NoTask} /\ FALSE \in BOOLEAN
    BY DEF JobStates, Processing
  <2>2. x \in Job
    BY <1>1, <2>1, Zenon DEF Started, Job
  <2>3. x.attempts = job.attempts /\ x.background = job.background
    BY <1>1 DEF Started, Job
  <2>4. a.splat = FALSE
    BY DEF NewAttempt
  <2>5. jobs' = JobsWith(j, new) /\ new = OnNewAttempt(x, n, a)
    BY <1>1, <1>3
  <2> HIDE DEF x, a, new
  <2>6. JobKept(job, new) /\ ActiveOf(new) = a
    BY <1>1, <2>2, <2>3, <2>5, AppendKept
  <2>7. Unbuilt(new, tasks')
    BY <2>4, <2>6 DEF Unbuilt
  <2> QED
    BY <1>1, <2>5, <2>6, <2>7, SaveOneKept
<1> QED
  BY <1>2, <1>3

LEMMA AddExistingPLYKept ==
  ASSUME Inv, QueueStep, AllUnbuilt, NEW j \in JobIds, AddExistingPLY(j)
  PROVE  JobsKept /\ AllUnbuilt'
<1> DEFINE job == jobs[j]
           x   == [job EXCEPT !.state = "REVIEW_READY", !.current = NoTask, !.cancel = FALSE]
           a   == NewAttempt("REVIEW_READY", TRUE)
<1>1. PICK n \in Versions :
        /\ NextAttempt(job, n) /\ j \in DOMAIN jobs /\ job \in Job
        /\ jobs' = JobsWith(j, OnNewAttempt(x, n, a))
  BY DEF AddExistingPLY, Inv, JInv, JobOK
<1> DEFINE new == OnNewAttempt(x, n, a)
<1>2. "REVIEW_READY" \in JobStates /\ NoTask \in TaskIds \cup {NoTask} /\ FALSE \in BOOLEAN
  BY DEF JobStates
<1>3. x \in Job
  BY <1>1, <1>2, Zenon DEF Job
<1>4. x.attempts = job.attempts /\ x.background = job.background /\ x.current = NoTask
  BY <1>1 DEF Job
<1>5. jobs' = JobsWith(j, new) /\ new = OnNewAttempt(x, n, a)
  BY <1>1
<1> HIDE DEF x, a, new
<1>6. JobKept(job, new) /\ new.current = NoTask
  BY <1>1, <1>3, <1>4, <1>5, AppendKept
<1>7. Unbuilt(new, tasks')
  BY <1>6 DEF Unbuilt
<1> QED
  BY <1>1, <1>5, <1>6, <1>7, SaveOneKept

LEMMA ActivateAttemptKept ==
  ASSUME Inv, QueueStep, AllUnbuilt, NEW j \in JobIds, NEW n \in Versions, ActivateAttempt(j, n)
  PROVE  JobsKept /\ AllUnbuilt'
<1> DEFINE job == jobs[j]
           new == jobs'[j]
<1>1. /\ j \in DOMAIN jobs /\ job \in Job /\ job.current = NoTask
  BY DEF ActivateAttempt, Idle, Inv, JInv, JobOK
<1>2. PICK cleaned, renderDir, datasetZip, state :
        jobs' = JobsWith(j, [job EXCEPT !.active = n, !.cleaned = cleaned,
                               !.renderDir = renderDir, !.datasetZip = datasetZip, !.state = state])
  BY DEF ActivateAttempt
<1>3. jobs' = JobsWith(j, new) /\ new.attempts = job.attempts
      /\ new.background = job.background /\ new.current = NoTask
  BY <1>1, <1>2 DEF JobsWith, Job
<1> HIDE DEF new
<1>4. Unbuilt(new, tasks')
  BY <1>3 DEF Unbuilt
<1> QED
  BY <1>1, <1>3, <1>4, SameKept, SaveOneKept

LEMMA SaveCleanedKept ==
  ASSUME Inv, QueueStep, AllUnbuilt, NEW j \in JobIds, SaveCleaned(j)
  PROVE  JobsKept /\ AllUnbuilt'
<1> DEFINE job == jobs[j]
           n   == job.active
           x   == [job EXCEPT !.cleaned = n, !.renderDir = NoPath, !.datasetZip = NoPath,
                              !.state = "EDITING", !.cancel = FALSE]
           a   == [ActiveOf(job) EXCEPT !.cleaned = n, !.renderDir = NoPath, !.datasetZip = NoPath]
           new == WithActive(x, a)
<1>1. /\ j \in DOMAIN jobs /\ job \in Job /\ HasActive(job) /\ job.current = NoTask
      /\ jobs' = JobsWith(j, new)
  BY DEF SaveCleaned, Idle, Inv, JInv, JobOK
<1>2. ActiveOf(job) \in Attempt /\ n \in Versions /\ n \in Path
  BY <1>1, ActiveType
<1>3. "EDITING" \in JobStates /\ NoPath \in Path /\ FALSE \in BOOLEAN
  BY QueueAssumption DEF JobStates, NoPath, Path
<1>4. x \in Job
  BY <1>1, <1>2, <1>3, Zenon DEF Job
<1>5. a \in Attempt
  BY <1>2, <1>3, Zenon DEF Attempt
<1>6. /\ x.attempts = job.attempts /\ x.active = job.active /\ x.background = job.background
      /\ x.current = NoTask
  BY <1>1 DEF Job
<1>7. HasActive(x) /\ ActiveOf(x) = ActiveOf(job)
  BY <1>1, <1>6 DEF HasActive, ActiveOf
<1>8. AttemptKept(ActiveOf(x), a)
  BY <1>2, <1>7, QueueAssumption DEF AttemptKept, Attempt, Versions, NoPath
<1> HIDE DEF x, a
<1>9. JobKept(job, new) /\ new.current = NoTask
  BY <1>4, <1>5, <1>6, <1>7, <1>8, ActiveKept
<1> HIDE DEF new
<1>10. Unbuilt(new, tasks')
  BY <1>9 DEF Unbuilt
<1> QED
  BY <1>1, <1>9, <1>10, SaveOneKept

\* Both methods may drop the dataset of the active attempt, and nothing else of it.
LEMMA DatasetDropped ==
  ASSUME NEW job, NEW x \in Job, x.attempts = job.attempts, x.active = job.active,
         job.background => x.background,
         NEW new, new = IF HasActive(x)
                          THEN WithActive(x, [ActiveOf(x) EXCEPT !.datasetZip = NoPath])
                          ELSE x
  PROVE  /\ JobKept(job, new) /\ new.current = x.current
         /\ HasActive(x) => ActiveOf(new).splat = ActiveOf(x).splat
<1>1. CASE ~HasActive(x)
  BY <1>1, SameKept
<1>2. CASE HasActive(x)
  <2> DEFINE a == [ActiveOf(x) EXCEPT !.datasetZip = NoPath]
  <2>1. ActiveOf(x) \in Attempt /\ NoPath \in Path
    BY <1>2, ActiveType, QueueAssumption DEF NoPath, Path
  <2>2. a \in Attempt
    BY <2>1, Zenon DEF Attempt
  <2>3. AttemptKept(ActiveOf(x), a) /\ a.splat = ActiveOf(x).splat
    BY <2>1 DEF AttemptKept, Attempt
  <2>4. new = WithActive(x, a)
    BY <1>2
  <2> HIDE DEF a
  <2> QED
    BY <1>2, <2>2, <2>3, <2>4, ActiveKept
<1> QED
  BY <1>1, <1>2

LEMMA StartRenderKept ==
  ASSUME Inv, QueueStep, AllUnbuilt, NEW j \in JobIds, NEW t \in TaskIds,
         NEW saved \in Saves, StartRender(j, t, saved)
  PROVE  JobsKept /\ AllUnbuilt'
<1> DEFINE job == jobs[j]
           x   == [Started(job, t, "RENDERING") EXCEPT !.renderDir = job.active,
                                                       !.datasetZip = NoPath]
           new == IF HasActive(x) THEN WithActive(x, [ActiveOf(x) EXCEPT !.datasetZip = NoPath])
                                  ELSE x
<1>1. /\ j \in DOMAIN jobs /\ job \in Job /\ job.cleaned # NoPath
      /\ Create(t, j, job.active, "RENDER")
      /\ jobs' = IF ~saved THEN jobs ELSE JobsWith(j, new)
  BY DEF StartRender, Inv, JInv, JobOK
<1>2. job.active \in Path /\ NoPath \in Path
  BY <1>1, QueueAssumption DEF Job, Path, NoPath
<1>3. x \in Job
  <2>1. "RENDERING" \in JobStates /\ t \in TaskIds \cup {NoTask} /\ FALSE \in BOOLEAN
    BY DEF JobStates, Processing
  <2> QED
    BY <1>1, <1>2, <2>1, Zenon DEF Started, Job
<1>4. /\ x.attempts = job.attempts /\ x.active = job.active /\ x.background = job.background
      /\ x.current = t
  BY <1>1 DEF Started, Job
<1>5. tasks'[t].type = "RENDER"
  BY <1>1, CreatedTask
<1>6. CASE ~saved
  BY <1>1, <1>6, SaveNoneKept
<1>7. CASE saved
  <2> HIDE DEF x
  <2>1. jobs' = JobsWith(j, new)
    BY <1>1, <1>7
  <2>2. JobKept(job, new) /\ new.current = t
    BY <1>3, <1>4, DatasetDropped
  <2> HIDE DEF new
  <2>3. Unbuilt(new, tasks')
    BY <1>5, <2>2 DEF Unbuilt
  <2> QED
    BY <1>1, <2>1, <2>2, <2>3, SaveOneKept
<1> QED
  BY <1>6, <1>7

LEMMA SetBackgroundDirKept ==
  ASSUME Inv, QueueStep, AllUnbuilt, NEW j \in JobIds, SetBackgroundDir(j)
  PROVE  JobsKept /\ AllUnbuilt'
<1> DEFINE job == jobs[j]
           s   == IF job.renderDir # NoPath THEN "RENDER_READY" ELSE job.state
           x   == [job EXCEPT !.background = TRUE, !.datasetZip = NoPath, !.state = s]
           new == IF HasActive(x) THEN WithActive(x, [ActiveOf(x) EXCEPT !.datasetZip = NoPath])
                                  ELSE x
<1>1. /\ j \in DOMAIN jobs /\ job \in Job /\ jobs' = JobsWith(j, new)
      /\ job.current # NoTask => HasActive(job)
  BY DEF SetBackgroundDir, Inv, JInv, JobOK, Linked
<1>2. x \in Job
  <2>1. s \in JobStates /\ NoPath \in Path /\ TRUE \in BOOLEAN
    BY <1>1, QueueAssumption DEF Job, JobStates, NoPath, Path
  <2> HIDE DEF s
  <2> QED
    BY <1>1, <2>1, Zenon DEF Job
<1>3. /\ x.attempts = job.attempts /\ x.active = job.active /\ x.background
      /\ x.current = job.current
  BY <1>1 DEF Job
<1> HIDE DEF x
<1>4. /\ JobKept(job, new) /\ new.current = job.current
      /\ HasActive(x) => ActiveOf(new).splat = ActiveOf(x).splat
  BY <1>2, <1>3, DatasetDropped
<1> HIDE DEF new
<1>5. Unbuilt(new, tasks')
  <2>1. Unbuilt(job, tasks')
    BY <1>1, StaysUnbuilt DEF AllUnbuilt
  <2>2. job.current # NoTask => ActiveOf(new).splat = ActiveOf(job).splat
    BY <1>1, <1>3, <1>4 DEF HasActive, ActiveOf
  <2> QED
    BY <1>4, <2>1, <2>2 DEF Unbuilt
<1> QED
  BY <1>1, <1>4, <1>5, SaveOneKept

LEMMA StartDatasetKept ==
  ASSUME Inv, QueueStep, AllUnbuilt, NEW j \in JobIds, NEW t \in TaskIds,
         NEW saved \in Saves, StartDataset(j, t, saved)
  PROVE  JobsKept /\ AllUnbuilt'
<1> DEFINE job == jobs[j]
           new == Started(job, t, "DATASET_BUILDING")
<1>1. /\ j \in DOMAIN jobs /\ job \in Job /\ Create(t, j, job.active, "DATASET")
      /\ jobs' = IF ~saved THEN jobs ELSE JobsWith(j, new)
  BY DEF StartDataset, Inv, JInv, JobOK
<1>2. new.attempts = job.attempts /\ new.background = job.background /\ new.current = t
  BY <1>1 DEF Started, Job
<1>3. tasks'[t].type = "DATASET"
  BY <1>1, CreatedTask
<1>4. CASE ~saved
  BY <1>1, <1>4, SaveNoneKept
<1>5. CASE saved
  <2> HIDE DEF new
  <2>1. JobKept(job, new) /\ Unbuilt(new, tasks')
    BY <1>2, <1>3, SameKept DEF Unbuilt
  <2> QED
    BY <1>1, <1>5, <2>1, SaveOneKept
<1> QED
  BY <1>4, <1>5

LEMMA CancelKept ==
  ASSUME Inv, QueueStep, AllUnbuilt, NEW j \in JobIds, NEW stopped, NEW saved \in Saves,
         Cancel(j, stopped, saved)
  PROVE  JobsKept /\ AllUnbuilt'
<1> DEFINE job == jobs[j]
<1>1. PICK state :
        /\ j \in DOMAIN jobs /\ job \in Job
        /\ jobs' = IF ~saved THEN jobs
                   ELSE JobsWith(j, [job EXCEPT !.cancel = TRUE, !.state = state])
  BY DEF Cancel, Inv, JInv, JobOK
<1> DEFINE new == [job EXCEPT !.cancel = TRUE, !.state = state]
<1>2. /\ new.attempts = job.attempts /\ new.background = job.background
      /\ new.current = job.current /\ new.active = job.active
  BY <1>1 DEF Job
<1>3. CASE ~saved
  BY <1>1, <1>3, SaveNoneKept
<1>4. CASE saved
  <2> HIDE DEF new
  <2>1. Unbuilt(job, tasks')
    BY <1>1, StaysUnbuilt DEF AllUnbuilt
  <2>2. JobKept(job, new) /\ Unbuilt(new, tasks')
    BY <1>2, <2>1, SameKept DEF Unbuilt, ActiveOf
  <2> QED
    BY <1>1, <1>4, <2>2, SaveOneKept DEF new
<1> QED
  BY <1>3, <1>4

----------------------------------------------------------------------------
(* What workers and timers do to the jobs. *)

\* An outcome touches the active attempt only, and its state only as long as
\* it has no model.
LEMMA OutcomeKept ==
  ASSUME NEW job, JobOK(job), HasActive(job), NEW task \in Task, task.attempt = job.active,
         task.state \in Terminal, task.type = "RECONSTRUCT" => ~ActiveOf(job).splat
  PROVE  JobKept(job, Outcome(job, task))
<1>0. /\ job \in Job /\ ActiveOf(job) \in Attempt /\ job.active \in Path
      /\ task.type \in {"RECONSTRUCT", "RENDER", "DATASET"}
  BY ActiveType, ServiceAssumption DEF JobOK, Task
<1> DEFINE Like(x) == /\ x \in Job /\ x.attempts = job.attempts /\ x.active = job.active
                      /\ x.background = job.background
<1>1. ASSUME NEW x, Like(x), NEW a \in Attempt, AttemptKept(ActiveOf(job), a)
      PROVE  JobKept(job, WithActive(x, a))
  <2>1. HasActive(x) /\ ActiveOf(x) = ActiveOf(job)
    BY <1>1 DEF HasActive, ActiveOf
  <2> QED
    BY <1>1, <2>1, ActiveKept
<1>2. CASE task.state = "SUCCEEDED"
  <2> DEFINE freed == [job EXCEPT !.current = NoTask, !.cancel = FALSE]
  <2>0. Outcome(job, task) = OutcomeSucceeded(job, task)
    BY <1>2 DEF Outcome
  <2>1. Like(freed)
    <3>1. NoTask \in TaskIds \cup {NoTask} /\ FALSE \in BOOLEAN
      OBVIOUS
    <3>2. freed \in Job
      BY <1>0, <3>1, Zenon DEF Job
    <3> QED
      BY <1>0, <3>2 DEF Job
  <2>2. CASE task.type = "RECONSTRUCT"
    <3> DEFINE done == [freed EXCEPT !.state = "REVIEW_READY"]
               a    == [ActiveOf(job) EXCEPT !.state = "REVIEW_READY", !.splat = TRUE]
    <3>1. OutcomeSucceeded(job, task) = WithActive(done, a)
      BY <2>2 DEF OutcomeSucceeded
    <3>2. Like(done) /\ a \in Attempt
      BY <1>0, <2>1 DEF Job, JobStates, Attempt
    <3>3. AttemptKept(ActiveOf(job), a)
      BY <1>0, <2>2 DEF AttemptKept, Attempt
    <3> HIDE DEF freed, done, a, Like
    <3> QED
      BY <1>1, <2>0, <3>1, <3>2, <3>3
  <2>3. CASE task.type = "RENDER"
    <3> DEFINE done == [freed EXCEPT !.state = "RENDER_READY", !.renderDir = task.attempt]
               a    == [ActiveOf(job) EXCEPT !.renderDir = task.attempt]
    <3>1. OutcomeSucceeded(job, task) = WithActive(done, a)
      BY <2>3 DEF OutcomeSucceeded
    <3>2. Like(done) /\ a \in Attempt
      BY <1>0, <2>1 DEF Job, JobStates, Attempt
    <3>3. AttemptKept(ActiveOf(job), a)
      BY <1>0 DEF AttemptKept, Attempt
    <3> HIDE DEF freed, done, a, Like
    <3> QED
      BY <1>1, <2>0, <3>1, <3>2, <3>3
  <2>4. CASE task.type = "DATASET"
    <3> DEFINE done == [freed EXCEPT !.state = "COMPLETED", !.datasetZip = task.attempt]
               a    == [ActiveOf(job) EXCEPT !.datasetZip = task.attempt]
    <3>1. OutcomeSucceeded(job, task) = WithActive(done, a)
      BY <2>4 DEF OutcomeSucceeded
    <3>2. Like(done) /\ a \in Attempt
      BY <1>0, <2>1 DEF Job, JobStates, Attempt
    <3>3. AttemptKept(ActiveOf(job), a)
      BY <1>0 DEF AttemptKept, Attempt
    <3> HIDE DEF freed, done, a, Like
    <3> QED
      BY <1>1, <2>0, <3>1, <3>2, <3>3
  <2> QED
    BY <1>0, <2>2, <2>3, <2>4
<1>3. ASSUME NEW state \in {"CANCELLED", "FAILED"}
      PROVE  JobKept(job, OutcomeStopped(job, task, state))
  <2> DEFINE freed == [job EXCEPT !.state = state, !.current = NoTask]
             a     == [ActiveOf(job) EXCEPT !.state = state]
  <2>1. Like(freed) /\ a \in Attempt
    BY <1>0 DEF Job, JobStates, Attempt
  <2>2. CASE task.type = "RECONSTRUCT"
    <3>1. AttemptKept(ActiveOf(job), a)
      BY <1>0, <2>2 DEF AttemptKept, Attempt
    <3>2. OutcomeStopped(job, task, state) = WithActive(freed, a)
      BY <2>2 DEF OutcomeStopped
    <3> HIDE DEF freed, a, Like
    <3> QED
      BY <1>1, <2>1, <3>1, <3>2
  <2>3. CASE task.type # "RECONSTRUCT"
    <3>1. OutcomeStopped(job, task, state) = freed
      BY <2>3 DEF OutcomeStopped
    <3> QED
      BY <2>1, <3>1, SameKept
  <2> QED
    BY <2>2, <2>3
<1>4. CASE task.state = "FAILED"
  <2>1. Outcome(job, task) = OutcomeStopped(job, task, "FAILED")
    BY <1>4 DEF Outcome, OutcomeFailed
  <2> QED
    BY <1>3, <2>1
<1>5. CASE task.state = "CANCELLED"
  <2> DEFINE stopped == OutcomeStopped(job, task, "CANCELLED")
             final   == [stopped EXCEPT !.cancel = FALSE]
  <2>1. Outcome(job, task) = final
    BY <1>5 DEF Outcome, OutcomeCancelled
  <2>2. JobKept(job, stopped) /\ stopped \in Job
    BY <1>3, StoppedOK DEF JobOK
  <2> HIDE DEF stopped
  <2>3. final.attempts = stopped.attempts /\ final.background = stopped.background
    BY <2>2 DEF Job
  <2> HIDE DEF final
  <2> QED
    BY <2>1, <2>2, <2>3 DEF JobKept
<1> QED
  BY <1>2, <1>4, <1>5 DEF Terminal

LEMMA AppliedKept ==
  ASSUME Inv, QueueStep, AllUnbuilt, NEW S, NEW ts, jobs' = Applied(S, ts),
         \A t \in S : /\ t \in DOMAIN tasks /\ ts[t] \in Task /\ ts[t].state \in Terminal
                      /\ ts[t].attempt = tasks[t].attempt /\ ts[t].type = tasks[t].type
  PROVE  JobsKept /\ AllUnbuilt'
<1>1. DOMAIN jobs' = DOMAIN jobs
  BY DEF Applied
<1>2. ASSUME NEW j \in DOMAIN jobs PROVE JobKept(jobs[j], jobs'[j]) /\ Unbuilt(jobs'[j], tasks')
  <2>0. JobOK(jobs[j]) /\ Linked(j, jobs[j], tasks) /\ Unbuilt(jobs[j], tasks)
    BY DEF Inv, JInv, AllUnbuilt
  <2>1. CASE \E t \in S : ts[t].job = j /\ IsCurrent(j, t)
    <3> DEFINE t == CHOOSE t \in S : ts[t].job = j /\ IsCurrent(j, t)
    <3>1. t \in S /\ jobs[j].current = t
      BY <2>1 DEF IsCurrent
    <3>2. jobs'[j] = Outcome(jobs[j], ts[t])
      BY <2>1 DEF Applied
    <3> HIDE DEF t
    <3>3. /\ t \in TaskIds /\ ts[t].attempt = tasks[t].attempt /\ ts[t].type = tasks[t].type
          /\ ts[t] \in Task /\ ts[t].state \in Terminal
      BY <3>1 DEF Inv, IInv
    <3>4. jobs[j].current # NoTask
      BY <3>1, <3>3, NoTaskIsNoTask
    <3>5. /\ HasActive(jobs[j]) /\ ts[t].attempt = jobs[j].active
          /\ ts[t].type = "RECONSTRUCT" => ~ActiveOf(jobs[j]).splat
      BY <2>0, <3>1, <3>3, <3>4 DEF Linked, Unbuilt
    <3>6. JobKept(jobs[j], jobs'[j])
      BY <2>0, <3>2, <3>3, <3>5, OutcomeKept
    <3>7. jobs'[j].current = NoTask
      BY <2>0, <3>2, <3>3, <3>5, OutcomeOK
    <3> QED
      BY <3>6, <3>7 DEF Unbuilt
  <2>2. CASE ~\E t \in S : ts[t].job = j /\ IsCurrent(j, t)
    BY <2>0, <2>2, SameKept, StaysUnbuilt DEF Applied
  <2> QED
    BY <2>1, <2>2
<1> QED
  BY <1>1, <1>2 DEF JobsKept, AllUnbuilt

LEMMA ClaimTaskKept ==
  ASSUME Inv, QueueStep, AllUnbuilt, NEW w \in WorkerIds, ClaimTask(w)
  PROVE  JobsKept /\ AllUnbuilt'
<1>1. PICK applied \in SUBSET Swept :
        jobs' = Applied(applied, [t \in Swept |-> SweptTask(t)]) \/ UNCHANGED jobs
  BY DEF ClaimTask
<1>2. CASE UNCHANGED jobs
  BY <1>2, SaveNoneKept
<1>3. CASE jobs' = Applied(applied, [t \in Swept |-> SweptTask(t)])
  <2> DEFINE ts == [t \in Swept |-> SweptTask(t)]
  <2>1. ASSUME NEW t \in applied
        PROVE  /\ t \in DOMAIN tasks /\ ts[t] \in Task /\ ts[t].state \in Terminal
               /\ ts[t].attempt = tasks[t].attempt /\ ts[t].type = tasks[t].type
    <3>1. t \in Swept /\ ts[t] = SweptTask(t)
      OBVIOUS
    <3>2. t \in DOMAIN tasks /\ tasks[t] \in Task
      BY <3>1 DEF Swept, Inv, IInv, RowOK
    <3> HIDE DEF ts
    <3>3. /\ SweptTask(t) \in Task /\ SweptTask(t).state \in Terminal
          /\ SweptTask(t).attempt = tasks[t].attempt /\ SweptTask(t).type = tasks[t].type
      BY <3>2 DEF SweptTask, Task, Terminal
    <3> QED
      BY <3>1, <3>2, <3>3
  <2>2. jobs' = Applied(applied, ts)
    BY <1>3
  <2> HIDE DEF ts
  <2> QED
    BY <2>1, <2>2, AppliedKept
<1> QED
  BY <1>1, <1>2, <1>3

LEMMA ReportKept ==
  ASSUME Inv, QueueStep, AllUnbuilt, NEW t \in TaskIds, NEW w \in WorkerIds, NEW saved \in Saves,
         CompleteTask(t, w, saved) \/ FailTask(t, w, saved) \/ CancelTask(t, w, saved)
  PROVE  JobsKept /\ AllUnbuilt'
<1>1. (Complete(t, w) \/ Fail(t, w) \/ AcknowledgeCancel(t, w)) /\ Report(t, saved)
  BY DEF CompleteTask, FailTask, CancelTask
<1>2. CASE jobs' = jobs
  BY <1>2, SaveNoneKept
<1>3. CASE jobs' = Applied({t}, tasks')
  <2>1. PICK o \in Terminal :
          t \in DOMAIN tasks /\ tasks' = [tasks EXCEPT ![t] = Finished(t, o)]
    BY <1>1 DEF Complete, Fail, AcknowledgeCancel, Terminal
  <2>2. tasks[t] \in Task /\ tasks'[t] = Finished(t, o)
    BY <2>1 DEF Inv, IInv, RowOK
  <2>3. /\ tasks'[t] \in Task /\ tasks'[t].state \in Terminal
        /\ tasks'[t].attempt = tasks[t].attempt /\ tasks'[t].type = tasks[t].type
    BY <2>2 DEF Finished, Task, Terminal
  <2> DEFINE S  == {t}
             ts == tasks'
  <2>4. /\ jobs' = Applied(S, ts)
        /\ \A u \in S : /\ u \in DOMAIN tasks /\ ts[u] \in Task /\ ts[u].state \in Terminal
                         /\ ts[u].attempt = tasks[u].attempt /\ ts[u].type = tasks[u].type
    BY <1>3, <2>1, <2>3
  <2> HIDE DEF S, ts
  <2> QED
    BY <2>4, AppliedKept
<1> QED
  BY <1>1, <1>2, <1>3 DEF Report

LEMMA ReconcileKept ==
  ASSUME Inv, QueueStep, AllUnbuilt, NEW repaired \in SUBSET Unreconciled, ReconcileUpTo(repaired)
  PROVE  JobsKept /\ AllUnbuilt'
<1>1. jobs' = Applied(repaired, tasks)
  BY DEF ReconcileUpTo
<1>2. ASSUME NEW t \in repaired
      PROVE  /\ t \in DOMAIN tasks /\ tasks[t] \in Task /\ tasks[t].state \in Terminal
             /\ tasks[t].attempt = tasks[t].attempt /\ tasks[t].type = tasks[t].type
  BY DEF Unreconciled, Over, Inv, IInv, RowOK
<1> QED
  BY <1>1, <1>2, AppliedKept

----------------------------------------------------------------------------
(* Every step. *)

LEMMA StepKept ==
  ASSUME Inv, QueueStep, AllUnbuilt, [Next]_vars
  PROVE  JobsKept /\ AllUnbuilt'
<1>1. CASE UNCHANGED vars
  <2>1. jobs' = jobs
    BY <1>1 DEF vars
  <2> QED
    BY <2>1, SaveNoneKept
<1>2. CASE UserNext
  <2> SUFFICES ASSUME NEW j \in JobIds,
        \/ CreateJob(j)
        \/ \E t \in TaskIds, saved \in Saves : AddVideo(j, t, saved)
        \/ AddExistingPLY(j)
        \/ \E n \in Versions : ActivateAttempt(j, n)
        \/ SaveCleaned(j)
        \/ \E t \in TaskIds, saved \in Saves : StartRender(j, t, saved)
        \/ SetBackgroundDir(j)
        \/ \E t \in TaskIds, saved \in Saves : StartDataset(j, t, saved)
        \/ \E stopped \in SUBSET Stoppable(j), saved \in Saves : Cancel(j, stopped, saved)
      PROVE JobsKept /\ AllUnbuilt'
    BY <1>2 DEF UserNext
  <2>1. CASE CreateJob(j)
    BY <2>1, CreateJobKept
  <2>2. CASE \E t \in TaskIds, saved \in Saves : AddVideo(j, t, saved)
    BY <2>2, AddVideoKept
  <2>3. CASE AddExistingPLY(j)
    BY <2>3, AddExistingPLYKept
  <2>4. CASE \E n \in Versions : ActivateAttempt(j, n)
    BY <2>4, ActivateAttemptKept
  <2>5. CASE SaveCleaned(j)
    BY <2>5, SaveCleanedKept
  <2>6. CASE \E t \in TaskIds, saved \in Saves : StartRender(j, t, saved)
    BY <2>6, StartRenderKept
  <2>7. CASE SetBackgroundDir(j)
    BY <2>7, SetBackgroundDirKept
  <2>8. CASE \E t \in TaskIds, saved \in Saves : StartDataset(j, t, saved)
    BY <2>8, StartDatasetKept
  <2>9. CASE \E stopped \in SUBSET Stoppable(j), saved \in Saves : Cancel(j, stopped, saved)
    BY <2>9, CancelKept
  <2> QED
    BY <2>1, <2>2, <2>3, <2>4, <2>5, <2>6, <2>7, <2>8, <2>9
<1>3. CASE WorkerNext
  <2>1. ASSUME NEW w \in WorkerIds, NEW t \in TaskIds, TaskHeartbeat(t, w)
        PROVE  JobsKept /\ AllUnbuilt'
    BY <2>1, SaveNoneKept DEF TaskHeartbeat
  <2> QED
    BY <1>3, <2>1, ClaimTaskKept, ReportKept DEF WorkerNext
<1>4. CASE TimerNext
  BY <1>4, ReconcileKept, SaveNoneKept DEF TimerNext, TimePasses
<1> QED
  BY <1>1, <1>2, <1>3, <1>4 DEF Next

----------------------------------------------------------------------------
(* The inputs of tasks. *)

\* A job that keeps what it has keeps the inputs of its tasks.
LEMMA InputsStay ==
  ASSUME JobsKept, NEW task, HasInputs(task, jobs)
  PROVE  HasInputs(task, jobs')
BY DEF JobsKept, JobKept, AttemptKept, HasInputs

LEMMA OldTaskInputs ==
  ASSUME Inv, QueueStep, JobsKept, NEW t \in DOMAIN tasks, HasInputs(tasks[t], jobs)
  PROVE  /\ t \in DOMAIN tasks' /\ HasInputs(tasks'[t], jobs')
         /\ tasks'[t].job = tasks[t].job /\ tasks'[t].attempt = tasks[t].attempt
         /\ tasks'[t].type = tasks[t].type
<1>1. /\ t \in DOMAIN tasks' /\ tasks'[t].job = tasks[t].job
      /\ tasks'[t].attempt = tasks[t].attempt /\ tasks'[t].type = tasks[t].type
  BY TaskFrame DEF QueueStep, Inv
<1> QED
  BY <1>1, InputsStay DEF HasInputs

LEMMA NoNewTask ==
  ASSUME Inv, QueueStep, JobsKept, HistoryInv, AllUnbuilt', DOMAIN tasks' = DOMAIN tasks
  PROVE  HistoryInv'
<1>1. \A t \in DOMAIN tasks' : HasInputs(tasks'[t], jobs')
  BY OldTaskInputs DEF HistoryInv
<1>2. ASSUME ~Faults PROVE NewVideoNewAttempt'
  BY <1>2, OldTaskInputs DEF HistoryInv, NewVideoNewAttempt
<1> QED
  BY <1>1, <1>2 DEF HistoryInv

LEMMA OneNewTask ==
  ASSUME Inv, QueueStep, JobsKept, HistoryInv, AllUnbuilt',
         NEW t \in TaskIds, NEW j \in DOMAIN jobs, NEW n, NEW type, Create(t, j, n, type),
         HasInputs(tasks'[t], jobs'),
         type = "RECONSTRUCT" => n \notin DOMAIN jobs[j].attempts
  PROVE  HistoryInv'
<1>1. DOMAIN tasks' = DOMAIN tasks \cup {t}
  BY DEF Create
<1>2. tasks'[t].job = j /\ tasks'[t].attempt = n /\ tasks'[t].type = type
  BY CreatedTask
<1>3. \A u \in DOMAIN tasks' : HasInputs(tasks'[u], jobs')
  BY <1>1, OldTaskInputs DEF HistoryInv
<1>4. ASSUME ~Faults PROVE NewVideoNewAttempt'
  <2> SUFFICES ASSUME NEW u \in DOMAIN tasks', NEW v \in DOMAIN tasks',
                      tasks'[u].type = "RECONSTRUCT", tasks'[v].type = "RECONSTRUCT",
                      tasks'[u].job = tasks'[v].job, tasks'[u].attempt = tasks'[v].attempt
               PROVE  u = v
    BY DEF NewVideoNewAttempt
  <2>1. ASSUME NEW x \in DOMAIN tasks, tasks'[x].type = "RECONSTRUCT"
        PROVE  tasks'[x].attempt \in DOMAIN jobs[tasks'[x].job].attempts
    BY <1>4, <2>1, OldTaskInputs DEF HistoryInv, HasInputs
  <2>2. CASE u \in DOMAIN tasks /\ v \in DOMAIN tasks
    BY <1>4, <2>2, OldTaskInputs DEF HistoryInv, NewVideoNewAttempt
  <2>3. CASE u = t /\ v \in DOMAIN tasks
    BY <1>2, <2>1, <2>3
  <2>4. CASE v = t /\ u \in DOMAIN tasks
    BY <1>2, <2>1, <2>4
  <2> QED
    BY <1>1, <2>2, <2>3, <2>4
<1> QED
  BY <1>3, <1>4 DEF HistoryInv

LEMMA AddVideoInputs ==
  ASSUME Inv, QueueStep, JobsKept, HistoryInv, AllUnbuilt', NEW j \in JobIds, NEW t \in TaskIds,
         NEW saved \in Saves, AddVideo(j, t, saved)
  PROVE  HistoryInv'
<1> DEFINE job == jobs[j]
           x   == Started(job, t, "RECONSTRUCTING")
           a   == NewAttempt("RECONSTRUCTING", FALSE)
<1>1. PICK n \in Versions :
        /\ NextAttempt(job, n) /\ j \in DOMAIN jobs /\ job \in Job
        /\ Create(t, j, n, "RECONSTRUCT")
        /\ jobs' = IF ~saved THEN jobs ELSE JobsWith(j, OnNewAttempt(x, n, a))
  BY DEF AddVideo, Inv, JInv, JobOK
<1> DEFINE new == OnNewAttempt(x, n, a)
<1>2. "RECONSTRUCTING" \in JobStates /\ t \in TaskIds \cup {NoTask} /\ FALSE \in BOOLEAN
  BY DEF JobStates, Processing
<1>3. x \in Job
  BY <1>1, <1>2, Zenon DEF Started, Job
<1>4. x.attempts = job.attempts /\ x.background = job.background
  BY <1>1 DEF Started, Job
<1>5. /\ jobs' = IF ~saved THEN jobs ELSE JobsWith(j, new)
      /\ new = OnNewAttempt(x, n, a)
  BY <1>1
<1> HIDE DEF x, a, new
<1>6. n \notin DOMAIN job.attempts /\ n \in DOMAIN new.attempts
  BY <1>1, <1>3, <1>4, <1>5, AppendKept
<1>7. ASSUME ~Faults PROVE n \in DOMAIN jobs'[j].attempts
  <2>1. saved
    BY <1>7 DEF Saves
  <2> QED
    BY <1>1, <1>5, <1>6, <2>1 DEF JobsWith
<1>8. j \in DOMAIN jobs'
  BY <1>1 DEF JobsKept
<1>9. tasks'[t].job = j /\ tasks'[t].attempt = n /\ tasks'[t].type = "RECONSTRUCT"
  BY <1>1, CreatedTask
<1>10. HasInputs(tasks'[t], jobs')
  BY <1>7, <1>8, <1>9 DEF HasInputs
<1> QED
  BY <1>1, <1>6, <1>10, OneNewTask

LEMMA StartRenderInputs ==
  ASSUME Inv, QueueStep, JobsKept, HistoryInv, AllUnbuilt', NEW j \in JobIds, NEW t \in TaskIds,
         NEW saved \in Saves, StartRender(j, t, saved)
  PROVE  HistoryInv'
<1>1. /\ j \in DOMAIN jobs /\ jobs[j].cleaned # NoPath
      /\ Create(t, j, jobs[j].active, "RENDER")
  BY DEF StartRender
<1>2. HasActive(jobs[j]) /\ ActiveOf(jobs[j]).cleaned # NoPath
  BY <1>1 DEF Inv, JInv, JobOK, ArtifactsOK
<1>3. /\ tasks'[t].job = j /\ tasks'[t].attempt = jobs[j].active /\ tasks'[t].type = "RENDER"
  BY <1>1, CreatedTask
<1>4. HasInputs(tasks'[t], jobs)
  BY <1>1, <1>2, <1>3 DEF HasInputs, HasActive, ActiveOf
<1>5. HasInputs(tasks'[t], jobs')
  BY <1>4, InputsStay
<1> QED
  BY <1>1, <1>5, OneNewTask

LEMMA StartDatasetInputs ==
  ASSUME Inv, QueueStep, JobsKept, HistoryInv, AllUnbuilt', NEW j \in JobIds, NEW t \in TaskIds,
         NEW saved \in Saves, StartDataset(j, t, saved)
  PROVE  HistoryInv'
<1>1. /\ j \in DOMAIN jobs /\ jobs[j].background
      /\ Create(t, j, jobs[j].active, "DATASET")
  BY DEF StartDataset
<1>2. /\ tasks'[t].job = j /\ tasks'[t].attempt = jobs[j].active /\ tasks'[t].type = "DATASET"
  BY <1>1, CreatedTask
<1>3. HasInputs(tasks'[t], jobs)
  BY <1>1, <1>2 DEF HasInputs
<1>4. HasInputs(tasks'[t], jobs')
  BY <1>3, InputsStay
<1> QED
  BY <1>1, <1>4, OneNewTask

LEMMA StepInputs ==
  ASSUME Inv, QueueStep, JobsKept, HistoryInv, AllUnbuilt', [Next]_vars
  PROVE  HistoryInv'
<1>1. CASE DOMAIN tasks' = DOMAIN tasks
  BY <1>1, NoNewTask
<1>2. CASE UserNext
  <2> SUFFICES ASSUME NEW j \in JobIds,
        \/ CreateJob(j) \/ AddExistingPLY(j) \/ (\E n \in Versions : ActivateAttempt(j, n))
             \/ SaveCleaned(j) \/ SetBackgroundDir(j)
             \/ (\E stopped \in SUBSET Stoppable(j), saved \in Saves : Cancel(j, stopped, saved))
        \/ \E t \in TaskIds, saved \in Saves :
             AddVideo(j, t, saved) \/ StartRender(j, t, saved) \/ StartDataset(j, t, saved)
      PROVE HistoryInv'
    BY <1>2 DEF UserNext
  <2>1. CASE \E t \in TaskIds, saved \in Saves :
               AddVideo(j, t, saved) \/ StartRender(j, t, saved) \/ StartDataset(j, t, saved)
    BY <2>1, AddVideoInputs, StartRenderInputs, StartDatasetInputs
  <2>2. CASE \/ CreateJob(j) \/ AddExistingPLY(j) \/ (\E n \in Versions : ActivateAttempt(j, n))
             \/ SaveCleaned(j) \/ SetBackgroundDir(j)
    BY <1>1, <2>2 DEF CreateJob, AddExistingPLY, ActivateAttempt, SaveCleaned, SetBackgroundDir
  <2>3. CASE \E stopped \in SUBSET Stoppable(j), saved \in Saves : Cancel(j, stopped, saved)
    BY <1>1, <2>3 DEF Cancel, CancelByJob
  <2> QED
    BY <2>1, <2>2, <2>3
<1>3. CASE WorkerNext
  <2>1. PICK w \in WorkerIds :
          \/ ClaimTask(w)
          \/ \E t \in TaskIds :
               Heartbeat(t, w) \/ Complete(t, w) \/ Fail(t, w) \/ AcknowledgeCancel(t, w)
    BY <1>3 DEF WorkerNext, TaskHeartbeat, CompleteTask, FailTask, CancelTask
  <2>2. CASE ClaimTask(w)
    BY <1>1, <2>2 DEF ClaimTask, ClaimDelivers, ClaimFindsNone, ClaimAborts, AfterSweep
  <2>3. CASE \E t \in TaskIds :
               Heartbeat(t, w) \/ Complete(t, w) \/ Fail(t, w) \/ AcknowledgeCancel(t, w)
    BY <1>1, <2>3 DEF Heartbeat, Complete, Fail, AcknowledgeCancel
  <2> QED
    BY <2>1, <2>2, <2>3
<1>4. CASE TimerNext
  BY <1>1, <1>4 DEF TimerNext, ReconcileUpTo, TimePasses, LeaseExpires
<1>5. CASE UNCHANGED vars
  BY <1>1, <1>5 DEF vars
<1> QED
  BY <1>2, <1>3, <1>4, <1>5 DEF Next

----------------------------------------------------------------------------
(* What a job that lets go of its task shows. *)

\* state is what a job shows after a task ended in outcome.
Shows(state, outcome) ==
  /\ outcome = "FAILED"    => state = "FAILED"
  /\ outcome = "CANCELLED" => state = "CANCELLED"
  /\ outcome = "SUCCEEDED" => state \in {"REVIEW_READY", "RENDER_READY", "COMPLETED"}

LEMMA WithActiveState ==
  ASSUME NEW job \in Job, NEW a
  PROVE  WithActive(job, a).state = job.state
BY DEF WithActive, Job

LEMMA OutcomeShows ==
  ASSUME NEW job, JobOK(job), HasActive(job),
         NEW task \in Task, task.attempt = job.active, task.state \in Terminal
  PROVE  Shows(Outcome(job, task).state, task.state)
<1>0. job \in Job /\ task.type \in {"RECONSTRUCT", "RENDER", "DATASET"} /\ job.active \in Path
  BY ActiveType, ServiceAssumption DEF JobOK, Task
<1>1. CASE task.state = "SUCCEEDED"
  <2> DEFINE freed == [job EXCEPT !.current = NoTask, !.cancel = FALSE]
  <2>0. Outcome(job, task) = OutcomeSucceeded(job, task)
    BY <1>1 DEF Outcome
  <2>1. freed \in Job
    <3>1. NoTask \in TaskIds \cup {NoTask} /\ FALSE \in BOOLEAN
      OBVIOUS
    <3> QED
      BY <1>0, <3>1, Zenon DEF Job
  <2>2. CASE task.type = "RECONSTRUCT"
    <3> DEFINE done == [freed EXCEPT !.state = "REVIEW_READY"]
               a    == [ActiveOf(job) EXCEPT !.state = "REVIEW_READY", !.splat = TRUE]
    <3>1. OutcomeSucceeded(job, task) = WithActive(done, a)
      BY <2>2 DEF OutcomeSucceeded
    <3>2. done \in Job /\ done.state = "REVIEW_READY"
      BY <2>1 DEF Job, JobStates
    <3> HIDE DEF freed, done, a
    <3> QED
      BY <1>1, <2>0, <3>1, <3>2, WithActiveState DEF Shows
  <2>3. CASE task.type = "RENDER"
    <3> DEFINE done == [freed EXCEPT !.state = "RENDER_READY", !.renderDir = task.attempt]
               a    == [ActiveOf(job) EXCEPT !.renderDir = task.attempt]
    <3>1. OutcomeSucceeded(job, task) = WithActive(done, a)
      BY <2>3 DEF OutcomeSucceeded
    <3>2. done \in Job /\ done.state = "RENDER_READY"
      BY <1>0, <2>1 DEF Job, JobStates
    <3> HIDE DEF freed, done, a
    <3> QED
      BY <1>1, <2>0, <3>1, <3>2, WithActiveState DEF Shows
  <2>4. CASE task.type = "DATASET"
    <3> DEFINE done == [freed EXCEPT !.state = "COMPLETED", !.datasetZip = task.attempt]
               a    == [ActiveOf(job) EXCEPT !.datasetZip = task.attempt]
    <3>1. OutcomeSucceeded(job, task) = WithActive(done, a)
      BY <2>4 DEF OutcomeSucceeded
    <3>2. done \in Job /\ done.state = "COMPLETED"
      BY <1>0, <2>1 DEF Job, JobStates
    <3> HIDE DEF freed, done, a
    <3> QED
      BY <1>1, <2>0, <3>1, <3>2, WithActiveState DEF Shows
  <2> QED
    BY <1>0, <2>2, <2>3, <2>4
<1>2. ASSUME NEW state \in {"CANCELLED", "FAILED"}
      PROVE  OutcomeStopped(job, task, state).state = state
  <2> DEFINE freed == [job EXCEPT !.state = state, !.current = NoTask]
  <2>1. freed \in Job /\ freed.state = state
    BY <1>0 DEF Job, JobStates
  <2> HIDE DEF freed
  <2> QED
    BY <2>1, WithActiveState DEF OutcomeStopped, freed
<1>3. CASE task.state = "FAILED"
  BY <1>2, <1>3 DEF Outcome, OutcomeFailed, Shows
<1>4. CASE task.state = "CANCELLED"
  <2> DEFINE stopped == OutcomeStopped(job, task, "CANCELLED")
  <2>1. Outcome(job, task) = [stopped EXCEPT !.cancel = FALSE]
    BY <1>4 DEF Outcome, OutcomeCancelled
  <2>2. stopped.state = "CANCELLED" /\ stopped \in Job
    BY <1>2, StoppedOK DEF JobOK
  <2> HIDE DEF stopped
  <2>3. Outcome(job, task).state = "CANCELLED"
    BY <2>1, <2>2 DEF Job
  <2> QED
    BY <1>4, <2>3 DEF Shows
<1> QED
  BY <1>1, <1>3, <1>4 DEF Terminal

\* The job that a step takes off its task.
LEMMA AppliedShows ==
  ASSUME Inv, NEW S, NEW ts, jobs' = Applied(S, ts),
         \A t \in S : /\ t \in DOMAIN tasks /\ ts[t] \in Task /\ ts[t].state \in Terminal
                      /\ ts[t].attempt = tasks[t].attempt /\ tasks'[t].state = ts[t].state,
         NEW j \in DOMAIN jobs, jobs'[j].current # jobs[j].current
  PROVE  /\ tasks'[jobs[j].current].state \in Terminal
         /\ Shows(jobs'[j].state, tasks'[jobs[j].current].state)
<1>1. \E t \in S : ts[t].job = j /\ IsCurrent(j, t)
  BY DEF Applied
<1> DEFINE t == CHOOSE t \in S : ts[t].job = j /\ IsCurrent(j, t)
<1>2. t \in S /\ jobs[j].current = t
  BY <1>1 DEF IsCurrent
<1>3. jobs'[j] = Outcome(jobs[j], ts[t])
  BY <1>1 DEF Applied
<1> HIDE DEF t
<1>4. /\ t \in TaskIds /\ ts[t].attempt = tasks[t].attempt /\ tasks'[t].state = ts[t].state
      /\ ts[t] \in Task /\ ts[t].state \in Terminal
  BY <1>2 DEF Inv, IInv
<1>5. jobs[j].current # NoTask
  BY <1>2, <1>4, NoTaskIsNoTask
<1>6. JobOK(jobs[j]) /\ HasActive(jobs[j]) /\ ts[t].attempt = jobs[j].active
  BY <1>2, <1>4, <1>5 DEF Inv, JInv, Linked
<1> QED
  BY <1>2, <1>3, <1>4, <1>6, OutcomeShows

LEMMA ClaimShows ==
  ASSUME Inv, ~Faults, NEW w \in WorkerIds, ClaimTask(w),
         NEW j \in DOMAIN jobs, jobs'[j].current # jobs[j].current
  PROVE  /\ tasks'[jobs[j].current].state \in Terminal
         /\ Shows(jobs'[j].state, tasks'[jobs[j].current].state)
<1>1. PICK lost \in SUBSET Swept, applied \in SUBSET Swept :
        /\ (\E t \in TaskIds : ClaimDelivers(t, w, lost)) \/ ClaimFindsNone(lost)
        /\ jobs' = Applied(applied, [t \in Swept |-> SweptTask(t)])
  BY DEF ClaimTask, ClaimAborts
<1> DEFINE ts == [t \in Swept |-> SweptTask(t)]
<1>2. lost = {}
  BY <1>1 DEF ClaimDelivers, ClaimFindsNone, MayLose
<1>3. \A t \in Swept : t \in DOMAIN tasks /\ tasks'[t] = SweptTask(t)
  BY <1>1, <1>2 DEF ClaimDelivers, ClaimFindsNone, AfterSweep, Swept, OldestClaimable, Claimable
<1>4. ASSUME NEW t \in applied
      PROVE  /\ t \in DOMAIN tasks /\ ts[t] \in Task /\ ts[t].state \in Terminal
             /\ ts[t].attempt = tasks[t].attempt /\ tasks'[t].state = ts[t].state
  <2>1. t \in Swept /\ ts[t] = SweptTask(t) /\ tasks'[t] = SweptTask(t)
    BY <1>3
  <2>2. t \in DOMAIN tasks /\ tasks[t] \in Task
    BY <2>1 DEF Swept, Inv, IInv, RowOK
  <2> HIDE DEF ts
  <2>3. /\ SweptTask(t) \in Task /\ SweptTask(t).state \in Terminal
        /\ SweptTask(t).attempt = tasks[t].attempt
    BY <2>2 DEF SweptTask, Task, Terminal
  <2> QED
    BY <2>1, <2>2, <2>3
<1>5. jobs' = Applied(applied, ts)
  BY <1>1
<1> HIDE DEF ts
<1> QED
  BY <1>4, <1>5, AppliedShows

LEMMA ReportShows ==
  ASSUME Inv, NEW t \in TaskIds, NEW w \in WorkerIds, NEW saved \in Saves,
         CompleteTask(t, w, saved) \/ FailTask(t, w, saved) \/ CancelTask(t, w, saved),
         NEW j \in DOMAIN jobs, jobs'[j].current # jobs[j].current
  PROVE  /\ tasks'[jobs[j].current].state \in Terminal
         /\ Shows(jobs'[j].state, tasks'[jobs[j].current].state)
<1>1. (Complete(t, w) \/ Fail(t, w) \/ AcknowledgeCancel(t, w)) /\ jobs' = Applied({t}, tasks')
  BY DEF CompleteTask, FailTask, CancelTask, Report
<1>2. PICK o \in Terminal :
        t \in DOMAIN tasks /\ tasks' = [tasks EXCEPT ![t] = Finished(t, o)]
  BY <1>1 DEF Complete, Fail, AcknowledgeCancel, Terminal
<1>3. tasks[t] \in Task /\ tasks'[t] = Finished(t, o)
  BY <1>2 DEF Inv, IInv, RowOK
<1>4. tasks'[t] \in Task /\ tasks'[t].state \in Terminal /\ tasks'[t].attempt = tasks[t].attempt
  BY <1>3 DEF Finished, Task, Terminal
<1> DEFINE S  == {t}
           ts == tasks'
<1>5. /\ jobs' = Applied(S, ts)
      /\ \A u \in S : /\ u \in DOMAIN tasks /\ ts[u] \in Task /\ ts[u].state \in Terminal
                       /\ ts[u].attempt = tasks[u].attempt /\ tasks'[u].state = ts[u].state
  BY <1>1, <1>2, <1>4
<1> HIDE DEF S, ts
<1> QED
  BY <1>5, AppliedShows

LEMMA ReconcileShows ==
  ASSUME Inv, NEW repaired \in SUBSET Unreconciled, ReconcileUpTo(repaired),
         NEW j \in DOMAIN jobs, jobs'[j].current # jobs[j].current
  PROVE  /\ tasks'[jobs[j].current].state \in Terminal
         /\ Shows(jobs'[j].state, tasks'[jobs[j].current].state)
<1>1. jobs' = Applied(repaired, tasks) /\ tasks' = tasks
  BY DEF ReconcileUpTo
<1>2. ASSUME NEW t \in repaired
      PROVE  /\ t \in DOMAIN tasks /\ tasks[t] \in Task /\ tasks[t].state \in Terminal
             /\ tasks[t].attempt = tasks[t].attempt /\ tasks'[t].state = tasks[t].state
  BY <1>1 DEF Unreconciled, Over, Inv, IInv, RowOK
<1> QED
  BY <1>1, <1>2, AppliedShows

\* The user cannot take a processing job off its task.
LEMMA UserKeepsTask ==
  ASSUME Inv, UserNext, NEW j \in DOMAIN jobs, jobs[j].current # NoTask, jobs[j].state \in Processing
  PROVE  jobs'[j].current = jobs[j].current
<1>0. /\ Busy(jobs[j]) /\ ~Idle(jobs[j]) /\ jobs[j] \in Job
  BY DEF Busy, Idle, Inv, JInv, JobOK
<1> SUFFICES ASSUME NEW k \in JobIds,
      \/ CreateJob(k)
      \/ \E t \in TaskIds, saved \in Saves : AddVideo(k, t, saved)
      \/ AddExistingPLY(k)
      \/ \E n \in Versions : ActivateAttempt(k, n)
      \/ SaveCleaned(k)
      \/ \E t \in TaskIds, saved \in Saves : StartRender(k, t, saved)
      \/ SetBackgroundDir(k)
      \/ \E t \in TaskIds, saved \in Saves : StartDataset(k, t, saved)
      \/ \E stopped \in SUBSET Stoppable(k), saved \in Saves : Cancel(k, stopped, saved)
    PROVE jobs'[j].current = jobs[j].current
  BY DEF UserNext
<1>1. CASE k # j
  <2>1. CASE CreateJob(k)
    BY <2>1 DEF CreateJob
  <2>2. CASE ~CreateJob(k)
    <3>1. jobs' = jobs \/ \E new : jobs' = JobsWith(k, new)
      BY <2>2 DEF AddVideo, AddExistingPLY, ActivateAttempt, SaveCleaned, StartRender,
                  SetBackgroundDir, StartDataset, Cancel
    <3> QED
      BY <1>1, <3>1 DEF JobsWith
  <2> QED
    BY <2>1, <2>2
<1>2. CASE k = j
  <2>1. CASE SetBackgroundDir(j)
    <3> DEFINE job == jobs[j]
               s   == IF job.renderDir # NoPath THEN "RENDER_READY" ELSE job.state
               x   == [job EXCEPT !.background = TRUE, !.datasetZip = NoPath, !.state = s]
               new == IF HasActive(x) THEN WithActive(x, [ActiveOf(x) EXCEPT !.datasetZip = NoPath])
                                      ELSE x
    <3>1. jobs' = JobsWith(j, new) /\ HasActive(job)
      BY <2>1 DEF SetBackgroundDir, Inv, JInv, Linked
    <3>2. x \in Job
      <4>1. s \in JobStates /\ NoPath \in Path /\ TRUE \in BOOLEAN
        BY <1>0, QueueAssumption DEF Job, JobStates, NoPath, Path
      <4> HIDE DEF s
      <4> QED
        BY <1>0, <4>1, Zenon DEF Job
    <3>3. x.current = job.current /\ x.attempts = job.attempts /\ x.active = job.active
      BY <1>0 DEF Job
    <3> HIDE DEF x
    <3>4. new.current = job.current
      BY <3>2, <3>3, DatasetDropped
    <3> HIDE DEF new
    <3> QED
      BY <3>1, <3>4 DEF JobsWith
  <2>2. CASE \E stopped \in SUBSET Stoppable(j), saved \in Saves : Cancel(j, stopped, saved)
    BY <1>0, <2>2 DEF Cancel, JobsWith, Job
  <2>3. CASE \/ CreateJob(k) \/ AddExistingPLY(k) \/ (\E n \in Versions : ActivateAttempt(k, n))
             \/ SaveCleaned(k)
             \/ \E t \in TaskIds, saved \in Saves :
                  AddVideo(k, t, saved) \/ StartRender(k, t, saved) \/ StartDataset(k, t, saved)
    BY <1>0, <1>2, <2>3 DEF CreateJob, AddExistingPLY, ActivateAttempt, SaveCleaned, AddVideo,
                            StartRender, StartDataset
  <2> QED
    BY <1>2, <2>1, <2>2, <2>3
<1> QED
  BY <1>1, <1>2

LEMMA StepShows ==
  ASSUME Inv, ~Faults, [Next]_vars, NEW j \in DOMAIN jobs,
         jobs[j].current # NoTask, jobs'[j].current # jobs[j].current, jobs[j].state \in Processing
  PROVE  /\ tasks'[jobs[j].current].state \in Terminal
         /\ Shows(jobs'[j].state, tasks'[jobs[j].current].state)
<1>1. CASE UNCHANGED vars
  BY <1>1 DEF vars
<1>2. CASE UserNext
  BY <1>2, UserKeepsTask
<1>3. CASE WorkerNext
  BY <1>3, ClaimShows, ReportShows DEF WorkerNext, TaskHeartbeat
<1>4. CASE TimerNext
  BY <1>4, ReconcileShows DEF TimerNext, TimePasses
<1> QED
  BY <1>1, <1>2, <1>3, <1>4 DEF Next

----------------------------------------------------------------------------
(* The theorems. *)

LEMMA HistoryStep ==
  Inv /\ HistoryInv /\ [Next]_vars => HistoryInv' /\ JobsKept
<1> SUFFICES ASSUME Inv, HistoryInv, [Next]_vars PROVE HistoryInv' /\ JobsKept
  OBVIOUS
<1>1. QueueStep
  <2>1. CASE UNCHANGED vars
    BY <2>1 DEF vars, QueueStep
  <2> QED
    BY <2>1, UserNextInv, WorkerNextInv, TimerNextInv DEF Next
<1>2. AllUnbuilt
  BY DEF HistoryInv
<1>3. JobsKept /\ AllUnbuilt'
  BY <1>1, <1>2, StepKept
<1> QED
  BY <1>1, <1>3, StepInputs

LEMMA HistoryInit == Init => HistoryInv
BY DEF Init, QueueInit, HistoryInv, AllUnbuilt, NewVideoNewAttempt

\* The strengthened invariant about inputs holds in every reachable state.
THEOREM HistoryInvariant == Spec => [](Inv /\ HistoryInv)
<1>1. Init => Inv /\ HistoryInv
  BY InitInv, HistoryInit
<1>2. (Inv /\ HistoryInv) /\ [Next]_vars => (Inv /\ HistoryInv)'
  BY StepInv, HistoryStep
<1> QED
  BY <1>1, <1>2, PTL DEF Spec

\* No step, of a stale task or of the user, changes an attempt that was not
\* active, takes a model back or loses an edited asset.
THEOREM ServiceKeepsAttempts == Spec => EarlierAttemptsKept
<1> DEFINE Kept == \A j \in DOMAIN jobs : \A n \in DOMAIN jobs[j].attempts :
       LET a == jobs[j].attempts[n]
           b == jobs'[j].attempts[n]
       IN /\ n # jobs[j].active => b = a
          /\ a.splat => b.splat /\ b.state = a.state
          /\ a.cleaned # NoPath => b.cleaned # NoPath
<1>1. JobsKept => Kept
  BY DEF JobsKept, JobKept, AttemptKept
<1>2. (Inv /\ HistoryInv) /\ [Next]_vars => [Kept]_vars
  BY <1>1, HistoryStep
<1>3. EarlierAttemptsKept <=> [][Kept]_vars
  BY DEF EarlierAttemptsKept
<1> HIDE DEF Kept
<1> QED
  BY <1>2, <1>3, HistoryInvariant, PTL DEF Spec

\* Every render in the queue has its edited asset and every dataset its
\* backgrounds, whatever is uploaded, activated or cancelled meanwhile.
THEOREM ServiceWorkHasInputs == Spec => []WorkHasInputs
<1>1. HistoryInv => WorkHasInputs
  BY DEF HistoryInv, HasInputs, WorkHasInputs
<1> QED
  BY <1>1, HistoryInvariant, PTL

\* As long as no save fails and the process does not die inside a method, no
\* two videos share an attempt.
THEOREM ServiceNewVideos ==
  ASSUME Faults = FALSE
  PROVE  Spec => []NewVideoNewAttempt
<1>1. HistoryInv => NewVideoNewAttempt
  BY DEF HistoryInv
<1> QED
  BY <1>1, HistoryInvariant, PTL

\* A processing job lets go of its task only when the task is over, and then
\* shows how it ended.
THEOREM ServiceLetsGo ==
  ASSUME Faults = FALSE
  PROVE  Spec => LetsGoWhenOver
<1> DEFINE Go == \A j \in DOMAIN jobs :
       LET t == jobs[j].current IN
       t # NoTask /\ jobs'[j].current # t /\ jobs[j].state \in Processing =>
         /\ tasks'[t].state \in Terminal
         /\ tasks'[t].state = "FAILED"    => jobs'[j].state = "FAILED"
         /\ tasks'[t].state = "CANCELLED" => jobs'[j].state = "CANCELLED"
         /\ tasks'[t].state = "SUCCEEDED" =>
              jobs'[j].state \in {"REVIEW_READY", "RENDER_READY", "COMPLETED"}
<1>1. Inv /\ [Next]_vars => [Go]_vars
  BY StepShows DEF Shows
<1>2. LetsGoWhenOver <=> [][Go]_vars
  BY DEF LetsGoWhenOver
<1> HIDE DEF Go
<1> QED
  BY <1>1, <1>2, ServiceInvariant, PTL DEF Spec

----------------------------------------------------------------------------
(* What attempts claim to have.  Renders and datasets are accepted when the *)
(* current task has made them, never before and never from another task.    *)

\* new is what a step makes of job, ts what it makes of the task files.
JobClaims(job, new, ts) ==
  /\ \A n \in Versions :
       /\ HasRenders(new, n) => HasRenders(job, n) \/ Earned(job, ts, n, "RENDER")
       /\ HasDataset(new, n) => HasDataset(job, n) \/ Earned(job, ts, n, "DATASET")
  /\ new.current \in {NoTask, job.current} \/
       (new.current \notin DOMAIN tasks /\ ts[new.current].state = "READY")

JobsClaim ==
  \A k \in DOMAIN jobs' : IF k \in DOMAIN jobs THEN JobClaims(jobs[k], jobs'[k], tasks')
                                               ELSE jobs'[k] = NewJob

\* The dataset is dropped when the renders under it are made again.
Cleared(job, ts) ==
  job.current # NoTask /\ ts[job.current].type = "RENDER" => ActiveOf(job).datasetZip = NoPath

AllCleared == \A k \in DOMAIN jobs : Cleared(jobs[k], tasks)

\* A job whose attempts stay, and whose task stays or ends.
LEMMA SameClaims ==
  ASSUME NEW job, NEW new, NEW ts, new.attempts = job.attempts,
         new.current \in {NoTask, job.current} \/
           (new.current \notin DOMAIN tasks /\ ts[new.current].state = "READY")
  PROVE  JobClaims(job, new, ts)
BY DEF JobClaims, HasRenders, HasDataset

\* A job that moves on to a new attempt.
LEMMA AppendClaims ==
  ASSUME NEW job, NEW x \in Job, x.attempts = job.attempts, NEW n \in Versions,
         NextAttempt(job, n), NEW a, a.renderDir = NoPath, a.datasetZip = NoPath, NEW ts,
         x.current = NoTask \/ (x.current \notin DOMAIN tasks /\ ts[x.current].state = "READY")
  PROVE  LET new == OnNewAttempt(x, n, a) IN
         JobClaims(job, new, ts) /\ Cleared(new, ts)
<1> DEFINE f == AppendAttempt(x, n, a)
           new == OnNewAttempt(x, n, a)
<1>1. /\ DOMAIN f = DOMAIN job.attempts \cup {n} /\ f[n] = a
      /\ \A m \in DOMAIN job.attempts : m # n => f[m] = job.attempts[m]
  BY DEF AppendAttempt
<1>2. new = [x EXCEPT !.active = n, !.cleaned = NoPath, !.renderDir = NoPath,
                      !.datasetZip = NoPath, !.attempts = f]
  BY DEF OnNewAttempt
<1> HIDE DEF f, new
<1>3. new.attempts = f /\ new.active = n /\ new.current = x.current
  BY <1>2 DEF Job
<1>4. JobClaims(job, new, ts)
  BY <1>1, <1>3 DEF JobClaims, HasRenders, HasDataset
<1>5. Cleared(new, ts)
  BY <1>1, <1>3 DEF Cleared, ActiveOf
<1> QED
  BY <1>4, <1>5 DEF new

\* A job whose active attempt is replaced.
LEMMA ActiveClaims ==
  ASSUME NEW job, NEW x \in Job, x.attempts = job.attempts, x.active = job.active,
         HasActive(x), NEW a \in Attempt, NEW ts,
         x.current \in {NoTask, job.current} \/
           (x.current \notin DOMAIN tasks /\ ts[x.current].state = "READY"),
         a.renderDir # NoPath =>
           ActiveOf(x).renderDir # NoPath \/ Earned(job, ts, job.active, "RENDER"),
         a.datasetZip # NoPath =>
           ActiveOf(x).datasetZip # NoPath \/ Earned(job, ts, job.active, "DATASET")
  PROVE  LET new == WithActive(x, a) IN
         /\ JobClaims(job, new, ts) /\ new.current = x.current /\ new.active = x.active
         /\ HasActive(new) /\ ActiveOf(new) = a
<1> DEFINE new == WithActive(x, a)
<1>1. /\ new \in Job /\ new = [x EXCEPT !.attempts = new.attempts]
      /\ DOMAIN new.attempts = DOMAIN x.attempts /\ new.attempts[x.active] = a
      /\ \A n \in DOMAIN x.attempts : n # x.active => new.attempts[n] = x.attempts[n]
  BY AttemptReplaced
<1> HIDE DEF new
<1>2. new.current = x.current /\ new.active = x.active
  BY <1>1 DEF Job
<1>3. HasActive(new) /\ ActiveOf(new) = a
  BY <1>1, <1>2 DEF HasActive, ActiveOf
<1>4. ASSUME NEW n \in Versions
      PROVE  /\ HasRenders(new, n) => HasRenders(job, n) \/ Earned(job, ts, n, "RENDER")
             /\ HasDataset(new, n) => HasDataset(job, n) \/ Earned(job, ts, n, "DATASET")
  <2>1. CASE n = x.active
    BY <1>1, <2>1 DEF HasRenders, HasDataset, HasActive, ActiveOf
  <2>2. CASE n # x.active
    BY <1>1, <2>2 DEF HasRenders, HasDataset
  <2> QED
    BY <2>1, <2>2
<1>5. JobClaims(job, new, ts)
  BY <1>2, <1>4 DEF JobClaims
<1> QED
  BY <1>2, <1>3, <1>5 DEF new

\* What the queue does beside it leaves a job as cleared as it was.
LEMMA StaysCleared ==
  ASSUME Inv, QueueStep, NEW k \in DOMAIN jobs, Cleared(jobs[k], tasks)
  PROVE  Cleared(jobs[k], tasks')
<1>1. CASE jobs[k].current = NoTask
  BY <1>1 DEF Cleared
<1>2. CASE jobs[k].current # NoTask
  <2>1. jobs[k].current \in DOMAIN tasks /\ jobs[k].current \in DOMAIN tasks'
    BY <1>2 DEF Inv, JInv, Linked, QueueStep
  <2>2. tasks'[jobs[k].current].type = tasks[jobs[k].current].type
    BY <2>1, TaskFrame DEF QueueStep, Inv
  <2> QED
    BY <2>2 DEF Cleared
<1> QED
  BY <1>1, <1>2

LEMMA SaveOneClaims ==
  ASSUME Inv, QueueStep, AllCleared, NEW j \in DOMAIN jobs, NEW new,
         jobs' = JobsWith(j, new), JobClaims(jobs[j], new, tasks'), Cleared(new, tasks')
  PROVE  JobsClaim /\ AllCleared'
<1>1. DOMAIN jobs' = DOMAIN jobs /\ jobs'[j] = new
  BY DEF JobsWith
<1>2. \A k \in DOMAIN jobs : k # j => jobs'[k] = jobs[k]
  BY DEF JobsWith
<1>3. JobsClaim
  BY <1>1, <1>2, SameClaims DEF JobsClaim
<1>4. AllCleared'
  BY <1>1, <1>2, StaysCleared DEF AllCleared
<1> QED
  BY <1>3, <1>4

LEMMA SaveNoneClaims ==
  ASSUME Inv, QueueStep, AllCleared, jobs' = jobs
  PROVE  JobsClaim /\ AllCleared'
BY SameClaims, StaysCleared DEF JobsClaim, AllCleared

\* A task that a method has just created.
LEMMA NewTaskIsReady ==
  ASSUME NEW t, NEW j, NEW n, NEW type, Create(t, j, n, type)
  PROVE  t \notin DOMAIN tasks /\ tasks'[t].state = "READY" /\ tasks'[t].type = type
BY QueueAssumption DEF Create, NewTask, Fresh, TaskIds

LEMMA CreateJobClaims ==
  ASSUME Inv, QueueStep, AllCleared, NEW j \in JobIds, CreateJob(j)
  PROVE  JobsClaim /\ AllCleared'
<1>1. /\ j \notin DOMAIN jobs /\ DOMAIN jobs' = DOMAIN jobs \cup {j} /\ jobs'[j] = NewJob
      /\ \A k \in DOMAIN jobs : jobs'[k] = jobs[k]
  BY DEF CreateJob
<1>2. JobsClaim
  BY <1>1, SameClaims DEF JobsClaim
<1>3. Cleared(NewJob, tasks')
  BY DEF Cleared, NewJob
<1>4. AllCleared'
  BY <1>1, <1>3, StaysCleared DEF AllCleared
<1> QED
  BY <1>2, <1>4

LEMMA AddVideoClaims ==
  ASSUME Inv, QueueStep, AllCleared, NEW j \in JobIds, NEW t \in TaskIds,
         NEW saved \in Saves, AddVideo(j, t, saved)
  PROVE  JobsClaim /\ AllCleared'
<1> DEFINE job == jobs[j]
           x   == Started(job, t, "RECONSTRUCTING")
           a   == NewAttempt("RECONSTRUCTING", FALSE)
<1>1. PICK n \in Versions :
        /\ NextAttempt(job, n) /\ j \in DOMAIN jobs /\ job \in Job
        /\ Create(t, j, n, "RECONSTRUCT")
        /\ jobs' = IF ~saved THEN jobs ELSE JobsWith(j, OnNewAttempt(x, n, a))
  BY DEF AddVideo, Inv, JInv, JobOK
<1>2. CASE ~saved
  BY <1>1, <1>2, SaveNoneClaims
<1>3. CASE saved
  <2> DEFINE new == OnNewAttempt(x, n, a)
  <2>1. "RECONSTRUCTING" \in JobStates /\ t \in TaskIds \cup {NoTask} /\ FALSE \in BOOLEAN
    BY DEF JobStates, Processing
  <2>2. x \in Job
    BY <1>1, <2>1, Zenon DEF Started, Job
  <2>3. x.attempts = job.attempts /\ x.current = t
    BY <1>1 DEF Started, Job
  <2>4. a.renderDir = NoPath /\ a.datasetZip = NoPath
    BY DEF NewAttempt
  <2>5. jobs' = JobsWith(j, new) /\ new = OnNewAttempt(x, n, a)
    BY <1>1, <1>3
  <2>6. t \notin DOMAIN tasks /\ tasks'[t].state = "READY"
    BY <1>1, NewTaskIsReady
  <2> HIDE DEF x, a, new
  <2>7. JobClaims(job, new, tasks') /\ Cleared(new, tasks')
    BY <1>1, <2>2, <2>3, <2>4, <2>5, <2>6, AppendClaims
  <2> QED
    BY <1>1, <2>5, <2>7, SaveOneClaims
<1> QED
  BY <1>2, <1>3

LEMMA AddExistingPLYClaims ==
  ASSUME Inv, QueueStep, AllCleared, NEW j \in JobIds, AddExistingPLY(j)
  PROVE  JobsClaim /\ AllCleared'
<1> DEFINE job == jobs[j]
           x   == [job EXCEPT !.state = "REVIEW_READY", !.current = NoTask, !.cancel = FALSE]
           a   == NewAttempt("REVIEW_READY", TRUE)
<1>1. PICK n \in Versions :
        /\ NextAttempt(job, n) /\ j \in DOMAIN jobs /\ job \in Job
        /\ jobs' = JobsWith(j, OnNewAttempt(x, n, a))
  BY DEF AddExistingPLY, Inv, JInv, JobOK
<1> DEFINE new == OnNewAttempt(x, n, a)
<1>2. "REVIEW_READY" \in JobStates /\ NoTask \in TaskIds \cup {NoTask} /\ FALSE \in BOOLEAN
  BY DEF JobStates
<1>3. x \in Job
  BY <1>1, <1>2, Zenon DEF Job
<1>4. x.attempts = job.attempts /\ x.current = NoTask
  BY <1>1 DEF Job
<1>5. a.renderDir = NoPath /\ a.datasetZip = NoPath
  BY DEF NewAttempt
<1>6. jobs' = JobsWith(j, new) /\ new = OnNewAttempt(x, n, a)
  BY <1>1
<1> HIDE DEF x, a, new
<1>7. JobClaims(job, new, tasks') /\ Cleared(new, tasks')
  BY <1>1, <1>3, <1>4, <1>5, <1>6, AppendClaims
<1> QED
  BY <1>1, <1>6, <1>7, SaveOneClaims

LEMMA ActivateAttemptClaims ==
  ASSUME Inv, QueueStep, AllCleared, NEW j \in JobIds, NEW n \in Versions, ActivateAttempt(j, n)
  PROVE  JobsClaim /\ AllCleared'
<1> DEFINE job == jobs[j]
           new == jobs'[j]
<1>1. /\ j \in DOMAIN jobs /\ job \in Job /\ job.current = NoTask
  BY DEF ActivateAttempt, Idle, Inv, JInv, JobOK
<1>2. PICK cleaned, renderDir, datasetZip, state :
        jobs' = JobsWith(j, [job EXCEPT !.active = n, !.cleaned = cleaned,
                               !.renderDir = renderDir, !.datasetZip = datasetZip, !.state = state])
  BY DEF ActivateAttempt
<1>3. jobs' = JobsWith(j, new) /\ new.attempts = job.attempts /\ new.current = NoTask
  BY <1>1, <1>2 DEF JobsWith, Job
<1> HIDE DEF new
<1>4. JobClaims(job, new, tasks') /\ Cleared(new, tasks')
  BY <1>3, SameClaims DEF Cleared
<1> QED
  BY <1>1, <1>3, <1>4, SaveOneClaims

\* A new edit takes back what was made from the old one.
LEMMA SaveCleanedClaims ==
  ASSUME Inv, QueueStep, AllCleared, NEW j \in JobIds, SaveCleaned(j)
  PROVE  /\ JobsClaim /\ AllCleared'
         /\ jobs'[j].current = NoTask /\ jobs'[j].active = jobs[j].active
         /\ ~HasRenders(jobs'[j], jobs[j].active) /\ ~HasDataset(jobs'[j], jobs[j].active)
<1> DEFINE job == jobs[j]
           n   == job.active
           x   == [job EXCEPT !.cleaned = n, !.renderDir = NoPath, !.datasetZip = NoPath,
                              !.state = "EDITING", !.cancel = FALSE]
           a   == [ActiveOf(job) EXCEPT !.cleaned = n, !.renderDir = NoPath, !.datasetZip = NoPath]
           new == WithActive(x, a)
<1>1. /\ j \in DOMAIN jobs /\ job \in Job /\ HasActive(job) /\ job.current = NoTask
      /\ jobs' = JobsWith(j, new)
  BY DEF SaveCleaned, Idle, Inv, JInv, JobOK
<1>2. ActiveOf(job) \in Attempt /\ n \in Versions /\ n \in Path
  BY <1>1, ActiveType
<1>3. "EDITING" \in JobStates /\ NoPath \in Path /\ FALSE \in BOOLEAN
  BY QueueAssumption DEF JobStates, NoPath, Path
<1>4. x \in Job
  BY <1>1, <1>2, <1>3, Zenon DEF Job
<1>5. a \in Attempt
  BY <1>2, <1>3, Zenon DEF Attempt
<1>6. x.attempts = job.attempts /\ x.active = job.active /\ x.current = NoTask
  BY <1>1 DEF Job
<1>7. HasActive(x)
  BY <1>1, <1>6 DEF HasActive
<1>8. a.renderDir = NoPath /\ a.datasetZip = NoPath
  BY <1>2 DEF Attempt
<1> HIDE DEF x, a
<1>9. /\ JobClaims(job, new, tasks') /\ new.current = NoTask /\ new.active = n
      /\ HasActive(new) /\ ActiveOf(new) = a
  BY <1>4, <1>5, <1>6, <1>7, <1>8, ActiveClaims
<1> HIDE DEF new
<1>10. Cleared(new, tasks') /\ ~HasRenders(new, n) /\ ~HasDataset(new, n)
  BY <1>8, <1>9 DEF Cleared, HasRenders, HasDataset, ActiveOf
<1>11. jobs'[j] = new
  BY <1>1 DEF JobsWith
<1> QED
  BY <1>1, <1>9, <1>10, <1>11, SaveOneClaims

\* Both methods drop the dataset of the active attempt.
LEMMA DropsDataset ==
  ASSUME NEW job, NEW x \in Job, x.attempts = job.attempts, x.active = job.active, NEW ts,
         x.current = job.current \/ (x.current \notin DOMAIN tasks /\ ts[x.current].state = "READY"),
         x.current # NoTask => HasActive(x),
         NEW new, new = IF HasActive(x)
                          THEN WithActive(x, [ActiveOf(x) EXCEPT !.datasetZip = NoPath])
                          ELSE x
  PROVE  JobClaims(job, new, ts) /\ Cleared(new, ts)
<1>1. CASE ~HasActive(x)
  BY <1>1, SameClaims DEF Cleared
<1>2. CASE HasActive(x)
  <2> DEFINE a == [ActiveOf(x) EXCEPT !.datasetZip = NoPath]
  <2>1. ActiveOf(x) \in Attempt /\ NoPath \in Path
    BY <1>2, ActiveType, QueueAssumption DEF NoPath, Path
  <2>2. a \in Attempt
    BY <2>1, Zenon DEF Attempt
  <2>3. a.renderDir = ActiveOf(x).renderDir /\ a.datasetZip = NoPath
    BY <2>1 DEF Attempt
  <2>4. new = WithActive(x, a)
    BY <1>2
  <2> HIDE DEF a
  <2>5. JobClaims(job, new, ts) /\ ActiveOf(new) = a
    BY <1>2, <2>2, <2>3, <2>4, ActiveClaims
  <2> QED
    BY <2>3, <2>5 DEF Cleared
<1> QED
  BY <1>1, <1>2

LEMMA StartRenderClaims ==
  ASSUME Inv, QueueStep, AllCleared, NEW j \in JobIds, NEW t \in TaskIds,
         NEW saved \in Saves, StartRender(j, t, saved)
  PROVE  JobsClaim /\ AllCleared'
<1> DEFINE job == jobs[j]
           x   == [Started(job, t, "RENDERING") EXCEPT !.renderDir = job.active,
                                                       !.datasetZip = NoPath]
           new == IF HasActive(x) THEN WithActive(x, [ActiveOf(x) EXCEPT !.datasetZip = NoPath])
                                  ELSE x
<1>1. /\ j \in DOMAIN jobs /\ job \in Job /\ job.cleaned # NoPath /\ JobOK(job)
      /\ Create(t, j, job.active, "RENDER")
      /\ jobs' = IF ~saved THEN jobs ELSE JobsWith(j, new)
  BY DEF StartRender, Inv, JInv, JobOK
<1>2. job.active \in Path /\ NoPath \in Path
  BY <1>1, QueueAssumption DEF Job, Path, NoPath
<1>3. x \in Job
  <2>1. "RENDERING" \in JobStates /\ t \in TaskIds \cup {NoTask} /\ FALSE \in BOOLEAN
    BY DEF JobStates, Processing
  <2> QED
    BY <1>1, <1>2, <2>1, Zenon DEF Started, Job
<1>4. x.attempts = job.attempts /\ x.active = job.active /\ x.current = t
  BY <1>1 DEF Started, Job
<1>5. t \notin DOMAIN tasks /\ tasks'[t].state = "READY"
  BY <1>1, NewTaskIsReady
<1>6. HasActive(x)
  BY <1>1, <1>4 DEF JobOK, ArtifactsOK, HasActive
<1>7. CASE ~saved
  BY <1>1, <1>7, SaveNoneClaims
<1>8. CASE saved
  <2> HIDE DEF x
  <2>1. jobs' = JobsWith(j, new)
    BY <1>1, <1>8
  <2>2. JobClaims(job, new, tasks') /\ Cleared(new, tasks')
    BY <1>3, <1>4, <1>5, <1>6, DropsDataset
  <2> HIDE DEF new
  <2> QED
    BY <1>1, <2>1, <2>2, SaveOneClaims
<1> QED
  BY <1>7, <1>8

LEMMA SetBackgroundDirClaims ==
  ASSUME Inv, QueueStep, AllCleared, NEW j \in JobIds, SetBackgroundDir(j)
  PROVE  JobsClaim /\ AllCleared'
<1> DEFINE job == jobs[j]
           s   == IF job.renderDir # NoPath THEN "RENDER_READY" ELSE job.state
           x   == [job EXCEPT !.background = TRUE, !.datasetZip = NoPath, !.state = s]
           new == IF HasActive(x) THEN WithActive(x, [ActiveOf(x) EXCEPT !.datasetZip = NoPath])
                                  ELSE x
<1>1. /\ j \in DOMAIN jobs /\ job \in Job /\ jobs' = JobsWith(j, new)
      /\ job.current # NoTask => HasActive(job)
  BY DEF SetBackgroundDir, Inv, JInv, JobOK, Linked
<1>2. x \in Job
  <2>1. s \in JobStates /\ NoPath \in Path /\ TRUE \in BOOLEAN
    BY <1>1, QueueAssumption DEF Job, JobStates, NoPath, Path
  <2> HIDE DEF s
  <2> QED
    BY <1>1, <2>1, Zenon DEF Job
<1>3. x.attempts = job.attempts /\ x.active = job.active /\ x.current = job.current
  BY <1>1 DEF Job
<1> HIDE DEF x
<1>4. x.current # NoTask => HasActive(x)
  BY <1>1, <1>3 DEF HasActive
<1>5. JobClaims(job, new, tasks') /\ Cleared(new, tasks')
  BY <1>2, <1>3, <1>4, DropsDataset
<1> HIDE DEF new
<1> QED
  BY <1>1, <1>5, SaveOneClaims

LEMMA StartDatasetClaims ==
  ASSUME Inv, QueueStep, AllCleared, NEW j \in JobIds, NEW t \in TaskIds,
         NEW saved \in Saves, StartDataset(j, t, saved)
  PROVE  JobsClaim /\ AllCleared'
<1> DEFINE job == jobs[j]
           new == Started(job, t, "DATASET_BUILDING")
<1>1. /\ j \in DOMAIN jobs /\ job \in Job /\ Create(t, j, job.active, "DATASET")
      /\ jobs' = IF ~saved THEN jobs ELSE JobsWith(j, new)
  BY DEF StartDataset, Inv, JInv, JobOK
<1>2. new.attempts = job.attempts /\ new.current = t
  BY <1>1 DEF Started, Job
<1>3. t \notin DOMAIN tasks /\ tasks'[t].state = "READY" /\ tasks'[t].type = "DATASET"
  BY <1>1, NewTaskIsReady
<1>4. CASE ~saved
  BY <1>1, <1>4, SaveNoneClaims
<1>5. CASE saved
  <2> HIDE DEF new
  <2>1. JobClaims(job, new, tasks') /\ Cleared(new, tasks')
    BY <1>2, <1>3, SameClaims DEF Cleared
  <2> QED
    BY <1>1, <1>5, <2>1, SaveOneClaims
<1> QED
  BY <1>4, <1>5

LEMMA CancelClaims ==
  ASSUME Inv, QueueStep, AllCleared, NEW j \in JobIds, NEW stopped, NEW saved \in Saves,
         Cancel(j, stopped, saved)
  PROVE  JobsClaim /\ AllCleared'
<1> DEFINE job == jobs[j]
<1>1. PICK state :
        /\ j \in DOMAIN jobs /\ job \in Job
        /\ jobs' = IF ~saved THEN jobs
                   ELSE JobsWith(j, [job EXCEPT !.cancel = TRUE, !.state = state])
  BY DEF Cancel, Inv, JInv, JobOK
<1> DEFINE new == [job EXCEPT !.cancel = TRUE, !.state = state]
<1>2. new.attempts = job.attempts /\ new.current = job.current /\ new.active = job.active
  BY <1>1 DEF Job
<1>3. CASE ~saved
  BY <1>1, <1>3, SaveNoneClaims
<1>4. CASE saved
  <2> HIDE DEF new
  <2>1. Cleared(job, tasks')
    BY <1>1, StaysCleared DEF AllCleared
  <2>2. JobClaims(job, new, tasks') /\ Cleared(new, tasks')
    BY <1>2, <2>1, SameClaims DEF Cleared, ActiveOf
  <2> QED
    BY <1>1, <1>4, <2>2, SaveOneClaims DEF new
<1> QED
  BY <1>3, <1>4

\* An outcome gives the active attempt what the task has made.
LEMMA OutcomeClaims ==
  ASSUME NEW job, JobOK(job), HasActive(job), NEW task \in Task, task.attempt = job.active,
         task.state \in Terminal, NEW ts, job.current # NoTask, ts[job.current] = task
  PROVE  JobClaims(job, Outcome(job, task), ts)
<1>0. /\ job \in Job /\ ActiveOf(job) \in Attempt /\ job.active \in Path
      /\ task.type \in {"RECONSTRUCT", "RENDER", "DATASET"}
  BY ActiveType, ServiceAssumption DEF JobOK, Task
<1> DEFINE Like(x) == /\ x \in Job /\ x.attempts = job.attempts /\ x.active = job.active
                      /\ x.current = NoTask
           Due(a)  == /\ a.renderDir # NoPath =>
                           ActiveOf(job).renderDir # NoPath \/ Earned(job, ts, job.active, "RENDER")
                      /\ a.datasetZip # NoPath =>
                           ActiveOf(job).datasetZip # NoPath \/ Earned(job, ts, job.active, "DATASET")
<1>1. ASSUME NEW x, Like(x), NEW a \in Attempt, Due(a)
      PROVE  JobClaims(job, WithActive(x, a), ts)
  <2>1. HasActive(x) /\ ActiveOf(x) = ActiveOf(job)
    BY <1>1 DEF HasActive, ActiveOf
  <2> QED
    BY <1>1, <2>1, ActiveClaims
<1>2. CASE task.state = "SUCCEEDED"
  <2> DEFINE freed == [job EXCEPT !.current = NoTask, !.cancel = FALSE]
  <2>0. Outcome(job, task) = OutcomeSucceeded(job, task)
    BY <1>2 DEF Outcome
  <2>1. Like(freed)
    <3>1. NoTask \in TaskIds \cup {NoTask} /\ FALSE \in BOOLEAN
      OBVIOUS
    <3>2. freed \in Job
      BY <1>0, <3>1, Zenon DEF Job
    <3> QED
      BY <1>0, <3>2 DEF Job
  <2>2. CASE task.type = "RECONSTRUCT"
    <3> DEFINE done == [freed EXCEPT !.state = "REVIEW_READY"]
               a    == [ActiveOf(job) EXCEPT !.state = "REVIEW_READY", !.splat = TRUE]
    <3>1. OutcomeSucceeded(job, task) = WithActive(done, a)
      BY <2>2 DEF OutcomeSucceeded
    <3>2. Like(done) /\ a \in Attempt
      BY <1>0, <2>1 DEF Job, JobStates, Attempt
    <3>3. Due(a)
      BY <1>0 DEF Attempt
    <3> HIDE DEF freed, done, a, Like, Due
    <3> QED
      BY <1>1, <2>0, <3>1, <3>2, <3>3
  <2>3. CASE task.type = "RENDER"
    <3> DEFINE done == [freed EXCEPT !.state = "RENDER_READY", !.renderDir = task.attempt]
               a    == [ActiveOf(job) EXCEPT !.renderDir = task.attempt]
    <3>1. OutcomeSucceeded(job, task) = WithActive(done, a)
      BY <2>3 DEF OutcomeSucceeded
    <3>2. Like(done) /\ a \in Attempt
      BY <1>0, <2>1 DEF Job, JobStates, Attempt
    <3>3. Due(a)
      <4>1. Earned(job, ts, job.active, "RENDER")
        BY <1>2, <2>3 DEF Earned, WorksFor
      <4> QED
        BY <1>0, <4>1 DEF Attempt
    <3> HIDE DEF freed, done, a, Like, Due
    <3> QED
      BY <1>1, <2>0, <3>1, <3>2, <3>3
  <2>4. CASE task.type = "DATASET"
    <3> DEFINE done == [freed EXCEPT !.state = "COMPLETED", !.datasetZip = task.attempt]
               a    == [ActiveOf(job) EXCEPT !.datasetZip = task.attempt]
    <3>1. OutcomeSucceeded(job, task) = WithActive(done, a)
      BY <2>4 DEF OutcomeSucceeded
    <3>2. Like(done) /\ a \in Attempt
      BY <1>0, <2>1 DEF Job, JobStates, Attempt
    <3>3. Due(a)
      <4>1. Earned(job, ts, job.active, "DATASET")
        BY <1>2, <2>4 DEF Earned, WorksFor
      <4> QED
        BY <1>0, <4>1 DEF Attempt
    <3> HIDE DEF freed, done, a, Like, Due
    <3> QED
      BY <1>1, <2>0, <3>1, <3>2, <3>3
  <2> QED
    BY <1>0, <2>2, <2>3, <2>4
<1>3. ASSUME NEW state \in {"CANCELLED", "FAILED"}
      PROVE  /\ JobClaims(job, OutcomeStopped(job, task, state), ts)
             /\ OutcomeStopped(job, task, state) \in Job
  <2> DEFINE freed == [job EXCEPT !.state = state, !.current = NoTask]
             a     == [ActiveOf(job) EXCEPT !.state = state]
  <2>1. Like(freed) /\ a \in Attempt
    BY <1>0 DEF Job, JobStates, Attempt
  <2>2. OutcomeStopped(job, task, state) \in Job
    BY StoppedOK DEF JobOK
  <2>3. CASE task.type = "RECONSTRUCT"
    <3>1. Due(a)
      BY <1>0 DEF Attempt
    <3>2. OutcomeStopped(job, task, state) = WithActive(freed, a)
      BY <2>3 DEF OutcomeStopped
    <3> HIDE DEF freed, a, Like, Due
    <3> QED
      BY <1>1, <2>1, <2>2, <3>1, <3>2
  <2>4. CASE task.type # "RECONSTRUCT"
    <3>1. OutcomeStopped(job, task, state) = freed
      BY <2>4 DEF OutcomeStopped
    <3> QED
      BY <2>1, <2>2, <3>1, SameClaims
  <2> QED
    BY <2>3, <2>4
<1>4. CASE task.state = "FAILED"
  <2>1. Outcome(job, task) = OutcomeStopped(job, task, "FAILED")
    BY <1>4 DEF Outcome, OutcomeFailed
  <2> QED
    BY <1>3, <2>1
<1>5. CASE task.state = "CANCELLED"
  <2> DEFINE stopped == OutcomeStopped(job, task, "CANCELLED")
             final   == [stopped EXCEPT !.cancel = FALSE]
  <2>1. Outcome(job, task) = final
    BY <1>5 DEF Outcome, OutcomeCancelled
  <2>2. JobClaims(job, stopped, ts) /\ stopped \in Job
    BY <1>3
  <2> HIDE DEF stopped
  <2>3. final.attempts = stopped.attempts /\ final.current = stopped.current
    BY <2>2 DEF Job
  <2> HIDE DEF final
  <2> QED
    BY <2>1, <2>2, <2>3 DEF JobClaims, HasRenders, HasDataset
<1> QED
  BY <1>2, <1>4, <1>5 DEF Terminal

\* ts, from which the outcomes are taken, says what the task files say after the
\* step; a sweep may not have saved what it says, but it says of nothing that it
\* has succeeded.
LEMMA AppliedClaims ==
  ASSUME Inv, QueueStep, AllCleared, NEW S, NEW ts, jobs' = Applied(S, ts),
         \A t \in S : /\ t \in DOMAIN tasks /\ ts[t] \in Task /\ ts[t].state \in Terminal
                      /\ ts[t].attempt = tasks[t].attempt
                      /\ ts[t].state = "SUCCEEDED" => ts[t] = tasks'[t]
  PROVE  JobsClaim /\ AllCleared'
<1>1. DOMAIN jobs' = DOMAIN jobs
  BY DEF Applied
<1>2. ASSUME NEW j \in DOMAIN jobs
      PROVE  JobClaims(jobs[j], jobs'[j], tasks') /\ Cleared(jobs'[j], tasks')
  <2>0. JobOK(jobs[j]) /\ Linked(j, jobs[j], tasks) /\ Cleared(jobs[j], tasks)
    BY DEF Inv, JInv, AllCleared
  <2>1. CASE \E t \in S : ts[t].job = j /\ IsCurrent(j, t)
    <3> DEFINE t == CHOOSE t \in S : ts[t].job = j /\ IsCurrent(j, t)
    <3>1. t \in S /\ jobs[j].current = t
      BY <2>1 DEF IsCurrent
    <3>2. jobs'[j] = Outcome(jobs[j], ts[t])
      BY <2>1 DEF Applied
    <3> HIDE DEF t
    <3>3. /\ t \in TaskIds /\ ts[t].attempt = tasks[t].attempt
          /\ ts[t] \in Task /\ ts[t].state \in Terminal
          /\ ts[t].state = "SUCCEEDED" => ts[t] = tasks'[t]
      BY <3>1 DEF Inv, IInv
    <3>4. jobs[j].current # NoTask
      BY <3>1, <3>3, NoTaskIsNoTask
    <3>5. HasActive(jobs[j]) /\ ts[t].attempt = jobs[j].active
      BY <2>0, <3>1, <3>3, <3>4 DEF Linked
    <3>6. JobClaims(jobs[j], jobs'[j], ts)
      BY <2>0, <3>1, <3>2, <3>3, <3>4, <3>5, OutcomeClaims
    <3>7. jobs'[j].current = NoTask
      BY <2>0, <3>2, <3>3, <3>5, OutcomeOK
    <3>8. JobClaims(jobs[j], jobs'[j], tasks')
      <4>1. \A n, type : Earned(jobs[j], ts, n, type) => Earned(jobs[j], tasks', n, type)
        BY <3>1, <3>3 DEF Earned, WorksFor
      <4> QED
        BY <3>6, <3>7, <4>1 DEF JobClaims
    <3> QED
      BY <3>7, <3>8 DEF Cleared
  <2>2. CASE ~\E t \in S : ts[t].job = j /\ IsCurrent(j, t)
    <3>1. jobs'[j] = jobs[j]
      BY <2>2 DEF Applied
    <3> QED
      BY <2>0, <3>1, SameClaims, StaysCleared
  <2> QED
    BY <2>1, <2>2
<1> QED
  BY <1>1, <1>2 DEF JobsClaim, AllCleared

LEMMA ClaimTaskClaims ==
  ASSUME Inv, QueueStep, AllCleared, NEW w \in WorkerIds, ClaimTask(w)
  PROVE  JobsClaim /\ AllCleared'
<1>1. PICK applied \in SUBSET Swept :
        jobs' = Applied(applied, [t \in Swept |-> SweptTask(t)]) \/ UNCHANGED jobs
  BY DEF ClaimTask
<1>2. CASE UNCHANGED jobs
  BY <1>2, SaveNoneClaims
<1>3. CASE jobs' = Applied(applied, [t \in Swept |-> SweptTask(t)])
  <2> DEFINE ts == [t \in Swept |-> SweptTask(t)]
  <2>1. ASSUME NEW t \in applied
        PROVE  /\ t \in DOMAIN tasks /\ ts[t] \in Task /\ ts[t].state \in Terminal
               /\ ts[t].attempt = tasks[t].attempt /\ ts[t].state # "SUCCEEDED"
    <3>1. t \in Swept /\ ts[t] = SweptTask(t)
      OBVIOUS
    <3>2. t \in DOMAIN tasks /\ tasks[t] \in Task
      BY <3>1 DEF Swept, Inv, IInv, RowOK
    <3> HIDE DEF ts
    <3>3. /\ SweptTask(t) \in Task /\ SweptTask(t).state \in Terminal
          /\ SweptTask(t).attempt = tasks[t].attempt /\ SweptTask(t).state # "SUCCEEDED"
      BY <3>2 DEF SweptTask, Task, Terminal
    <3> QED
      BY <3>1, <3>2, <3>3
  <2>2. jobs' = Applied(applied, ts)
    BY <1>3
  <2> HIDE DEF ts
  <2> QED
    BY <2>1, <2>2, AppliedClaims
<1> QED
  BY <1>1, <1>2, <1>3

LEMMA ReportClaims ==
  ASSUME Inv, QueueStep, AllCleared, NEW t \in TaskIds, NEW w \in WorkerIds, NEW saved \in Saves,
         CompleteTask(t, w, saved) \/ FailTask(t, w, saved) \/ CancelTask(t, w, saved)
  PROVE  JobsClaim /\ AllCleared'
<1>1. (Complete(t, w) \/ Fail(t, w) \/ AcknowledgeCancel(t, w)) /\ Report(t, saved)
  BY DEF CompleteTask, FailTask, CancelTask
<1>2. CASE jobs' = jobs
  BY <1>2, SaveNoneClaims
<1>3. CASE jobs' = Applied({t}, tasks')
  <2>1. PICK o \in Terminal :
          t \in DOMAIN tasks /\ tasks' = [tasks EXCEPT ![t] = Finished(t, o)]
    BY <1>1 DEF Complete, Fail, AcknowledgeCancel, Terminal
  <2>2. tasks[t] \in Task /\ tasks'[t] = Finished(t, o)
    BY <2>1 DEF Inv, IInv, RowOK
  <2>3. /\ tasks'[t] \in Task /\ tasks'[t].state \in Terminal
        /\ tasks'[t].attempt = tasks[t].attempt
    BY <2>2 DEF Finished, Task, Terminal
  <2> DEFINE S  == {t}
             ts == tasks'
  <2>4. /\ jobs' = Applied(S, ts)
        /\ \A u \in S : /\ u \in DOMAIN tasks /\ ts[u] \in Task /\ ts[u].state \in Terminal
                         /\ ts[u].attempt = tasks[u].attempt /\ ts[u] = tasks'[u]
    BY <1>3, <2>1, <2>3
  <2> HIDE DEF S, ts
  <2> QED
    BY <2>4, AppliedClaims
<1> QED
  BY <1>1, <1>2, <1>3 DEF Report

LEMMA ReconcileClaims ==
  ASSUME Inv, QueueStep, AllCleared, NEW repaired \in SUBSET Unreconciled, ReconcileUpTo(repaired)
  PROVE  JobsClaim /\ AllCleared'
<1>1. jobs' = Applied(repaired, tasks) /\ tasks' = tasks
  BY DEF ReconcileUpTo
<1>2. ASSUME NEW t \in repaired
      PROVE  /\ t \in DOMAIN tasks /\ tasks[t] \in Task /\ tasks[t].state \in Terminal
             /\ tasks[t].attempt = tasks[t].attempt /\ tasks[t] = tasks'[t]
  BY <1>1 DEF Unreconciled, Over, Inv, IInv, RowOK
<1> QED
  BY <1>1, <1>2, AppliedClaims

LEMMA StepClaims ==
  ASSUME Inv, AllCleared, [Next]_vars
  PROVE  JobsClaim /\ AllCleared'
<1>0. QueueStep
  <2>1. CASE UNCHANGED vars
    BY <2>1 DEF vars, QueueStep
  <2> QED
    BY <2>1, UserNextInv, WorkerNextInv, TimerNextInv DEF Next
<1>1. CASE UNCHANGED vars
  <2>1. jobs' = jobs
    BY <1>1 DEF vars
  <2> QED
    BY <1>0, <2>1, SaveNoneClaims
<1>2. CASE UserNext
  <2> SUFFICES ASSUME NEW j \in JobIds,
        \/ CreateJob(j)
        \/ \E t \in TaskIds, saved \in Saves : AddVideo(j, t, saved)
        \/ AddExistingPLY(j)
        \/ \E n \in Versions : ActivateAttempt(j, n)
        \/ SaveCleaned(j)
        \/ \E t \in TaskIds, saved \in Saves : StartRender(j, t, saved)
        \/ SetBackgroundDir(j)
        \/ \E t \in TaskIds, saved \in Saves : StartDataset(j, t, saved)
        \/ \E stopped \in SUBSET Stoppable(j), saved \in Saves : Cancel(j, stopped, saved)
      PROVE JobsClaim /\ AllCleared'
    BY <1>2 DEF UserNext
  <2>1. CASE CreateJob(j)
    BY <1>0, <2>1, CreateJobClaims
  <2>2. CASE \E t \in TaskIds, saved \in Saves : AddVideo(j, t, saved)
    BY <1>0, <2>2, AddVideoClaims
  <2>3. CASE AddExistingPLY(j)
    BY <1>0, <2>3, AddExistingPLYClaims
  <2>4. CASE \E n \in Versions : ActivateAttempt(j, n)
    BY <1>0, <2>4, ActivateAttemptClaims
  <2>5. CASE SaveCleaned(j)
    BY <1>0, <2>5, SaveCleanedClaims
  <2>6. CASE \E t \in TaskIds, saved \in Saves : StartRender(j, t, saved)
    BY <1>0, <2>6, StartRenderClaims
  <2>7. CASE SetBackgroundDir(j)
    BY <1>0, <2>7, SetBackgroundDirClaims
  <2>8. CASE \E t \in TaskIds, saved \in Saves : StartDataset(j, t, saved)
    BY <1>0, <2>8, StartDatasetClaims
  <2>9. CASE \E stopped \in SUBSET Stoppable(j), saved \in Saves : Cancel(j, stopped, saved)
    BY <1>0, <2>9, CancelClaims
  <2> QED
    BY <2>1, <2>2, <2>3, <2>4, <2>5, <2>6, <2>7, <2>8, <2>9
<1>3. CASE WorkerNext
  <2>1. ASSUME NEW w \in WorkerIds, NEW t \in TaskIds, TaskHeartbeat(t, w)
        PROVE  JobsClaim /\ AllCleared'
    BY <1>0, <2>1, SaveNoneClaims DEF TaskHeartbeat
  <2> QED
    BY <1>0, <1>3, <2>1, ClaimTaskClaims, ReportClaims DEF WorkerNext
<1>4. CASE TimerNext
  BY <1>0, <1>4, ReconcileClaims, SaveNoneClaims DEF TimerNext, TimePasses
<1> QED
  BY <1>1, <1>2, <1>3, <1>4 DEF Next

LEMMA InitCleared == Init => AllCleared
BY DEF Init, AllCleared

\* Renders and datasets are accepted from the current task, when it has made
\* them for that attempt, and from nothing else: StartRender, a stale report, a
\* sweep or a pass of Reconcile accept none (applyTaskSuccess).
THEOREM ServiceAcceptsWhatIsEarned == Spec => AcceptedWhenEarned
<1> DEFINE Grants == \A j \in DOMAIN jobs : \A n \in Versions :
       /\ HasRenders(jobs'[j], n) => HasRenders(jobs[j], n) \/ Earned(jobs[j], tasks', n, "RENDER")
       /\ HasDataset(jobs'[j], n) => HasDataset(jobs[j], n) \/ Earned(jobs[j], tasks', n, "DATASET")
<1>1. Init => AllCleared
  BY InitCleared
<1>2. (Inv /\ HistoryInv) /\ AllCleared /\ [Next]_vars => AllCleared' /\ [Grants]_vars
  <2> SUFFICES ASSUME Inv, HistoryInv, AllCleared, [Next]_vars PROVE AllCleared' /\ Grants
    OBVIOUS
  <2>1. JobsKept /\ JobsClaim /\ AllCleared'
    BY HistoryStep, StepClaims
  <2> QED
    BY <2>1 DEF JobsKept, JobsClaim, JobClaims
<1>3. AcceptedWhenEarned <=> [][Grants]_vars
  BY DEF AcceptedWhenEarned
<1> HIDE DEF Grants
<1> QED
  BY <1>1, <1>2, <1>3, HistoryInvariant, PTL DEF Spec
----------------------------------------------------------------------------
(* One task at a time.  Without faults a task is its job's current one from  *)
(* its first to its last day; the exception is a render whose job was reset  *)
(* by a background upload and then started something else.                   *)

LEMMA ServiceQueueStep == ASSUME Inv, [Next]_vars PROVE QueueStep
<1>1. CASE UNCHANGED vars
  BY <1>1 DEF vars, QueueStep
<1> QED
  BY <1>1, UserNextInv, WorkerNextInv, TimerNextInv DEF Next

\* A method that creates a task saves the job with it.
LEMMA NewTaskIsCurrent ==
  ASSUME Inv, ~Faults, NEW j \in JobIds, NEW t \in TaskIds, NEW saved \in Saves,
         AddVideo(j, t, saved) \/ StartRender(j, t, saved) \/ StartDataset(j, t, saved)
  PROVE  /\ j \in DOMAIN jobs /\ t \notin DOMAIN tasks
         /\ DOMAIN tasks' = DOMAIN tasks \cup {t} /\ tasks'[t].job = j
         /\ \E new : jobs' = JobsWith(j, new) /\ new.current = t /\ new.state \in Processing
<1> DEFINE job == jobs[j]
<1>1. saved = TRUE /\ j \in DOMAIN jobs /\ job \in Job /\ JobOK(job)
  BY DEF Saves, AddVideo, StartRender, StartDataset, Inv, JInv, JobOK
<1>2. ASSUME NEW state \in Processing, NEW x, x = Started(job, t, state)
      PROVE  x \in Job /\ x.current = t /\ x.state = state
  <2>1. state \in JobStates /\ t \in TaskIds \cup {NoTask} /\ FALSE \in BOOLEAN
    BY DEF JobStates
  <2>2. x \in Job
    BY <1>1, <1>2, <2>1, Zenon DEF Started, Job
  <2> QED
    BY <1>1, <1>2, <2>2 DEF Started, Job
<1>3. ASSUME NEW n, NEW type, Create(t, j, n, type)
      PROVE  t \notin DOMAIN tasks /\ DOMAIN tasks' = DOMAIN tasks \cup {t} /\ tasks'[t].job = j
  BY <1>3, NewTaskIsReady, CreatedTask DEF Create
<1>4. CASE AddVideo(j, t, saved)
  <2>1. PICK x : x = Started(job, t, "RECONSTRUCTING")
    OBVIOUS
  <2>2. PICK n, a :
          Create(t, j, n, "RECONSTRUCT") /\ jobs' = JobsWith(j, OnNewAttempt(x, n, a))
    BY <1>1, <1>4, <2>1 DEF AddVideo
  <2>3. x \in Job /\ x.current = t /\ x.state = "RECONSTRUCTING"
    BY <1>2, <2>1 DEF Processing
  <2>4. OnNewAttempt(x, n, a).current = t /\ OnNewAttempt(x, n, a).state \in Processing
    BY <2>3 DEF OnNewAttempt, Job, Processing
  <2> QED
    BY <1>1, <1>3, <2>2, <2>4
<1>5. CASE StartRender(j, t, saved)
  <2>1. PICK x : x = Started(job, t, "RENDERING")
    OBVIOUS
  <2> DEFINE y   == [x EXCEPT !.renderDir = job.active, !.datasetZip = NoPath]
             new == IF HasActive(y) THEN WithActive(y, [ActiveOf(y) EXCEPT !.datasetZip = NoPath])
                                    ELSE y
  <2>2. Create(t, j, job.active, "RENDER") /\ jobs' = JobsWith(j, new)
    BY <1>1, <1>5, <2>1 DEF StartRender
  <2>3. x \in Job /\ x.current = t /\ x.state = "RENDERING"
    BY <1>2, <2>1 DEF Processing
  <2>4. y \in Job
    <3>1. job.active \in Path /\ NoPath \in Path
      BY <1>1, QueueAssumption DEF Job, Path, NoPath
    <3> QED
      BY <2>3, <3>1, Zenon DEF Job
  <2>5. y.current = t /\ y.state = "RENDERING"
    BY <2>3 DEF Job
  <2> HIDE DEF y
  <2>6. new.current = t /\ new.state \in Processing
    BY <2>4, <2>5 DEF WithActive, Job, Processing
  <2> QED
    BY <1>1, <1>3, <2>2, <2>6
<1>6. CASE StartDataset(j, t, saved)
  <2>1. PICK x : x = Started(job, t, "DATASET_BUILDING")
    OBVIOUS
  <2>2. Create(t, j, job.active, "DATASET") /\ jobs' = JobsWith(j, x)
    BY <1>1, <1>6, <2>1 DEF StartDataset
  <2>3. x.current = t /\ x.state \in Processing
    BY <1>2, <2>1 DEF Processing
  <2> QED
    BY <1>1, <1>3, <2>2, <2>3
<1> QED
  BY <1>4, <1>5, <1>6

\* No method removes a job.
LEMMA NoJobGoes == ASSUME [Next]_vars PROVE DOMAIN jobs \subseteq DOMAIN jobs'
<1>1. ASSUME NEW j, NEW new PROVE DOMAIN JobsWith(j, new) = DOMAIN jobs
  BY DEF JobsWith
<1>2. ASSUME NEW S, NEW ts PROVE DOMAIN Applied(S, ts) = DOMAIN jobs
  BY DEF Applied
<1>3. CASE UNCHANGED vars
  BY <1>3 DEF vars
<1>4. CASE UserNext
  <2> SUFFICES ASSUME NEW j \in JobIds,
        \/ CreateJob(j) \/ AddExistingPLY(j) \/ SaveCleaned(j) \/ SetBackgroundDir(j)
        \/ \E n \in Versions : ActivateAttempt(j, n)
        \/ \E t \in TaskIds, saved \in Saves :
             AddVideo(j, t, saved) \/ StartRender(j, t, saved) \/ StartDataset(j, t, saved)
        \/ \E stopped \in SUBSET Stoppable(j), saved \in Saves : Cancel(j, stopped, saved)
      PROVE  DOMAIN jobs \subseteq DOMAIN jobs'
    BY <1>4 DEF UserNext
  <2>1. CASE CreateJob(j)
    BY <2>1 DEF CreateJob
  <2>2. CASE AddExistingPLY(j)
    BY <1>1, <2>2 DEF AddExistingPLY
  <2>3. CASE SaveCleaned(j)
    BY <1>1, <2>3 DEF SaveCleaned
  <2>4. CASE SetBackgroundDir(j)
    BY <1>1, <2>4 DEF SetBackgroundDir
  <2>5. ASSUME NEW n, ActivateAttempt(j, n)
        PROVE  DOMAIN jobs \subseteq DOMAIN jobs'
    BY <1>1, <2>5 DEF ActivateAttempt
  <2>6. ASSUME NEW t, NEW saved, AddVideo(j, t, saved)
        PROVE  DOMAIN jobs \subseteq DOMAIN jobs'
    BY <1>1, <2>6 DEF AddVideo
  <2>7. ASSUME NEW t, NEW saved, StartRender(j, t, saved)
        PROVE  DOMAIN jobs \subseteq DOMAIN jobs'
    BY <1>1, <2>7 DEF StartRender
  <2>8. ASSUME NEW t, NEW saved, StartDataset(j, t, saved)
        PROVE  DOMAIN jobs \subseteq DOMAIN jobs'
    BY <1>1, <2>8 DEF StartDataset
  <2>9. ASSUME NEW stopped, NEW saved, Cancel(j, stopped, saved)
        PROVE  DOMAIN jobs \subseteq DOMAIN jobs'
    BY <1>1, <2>9 DEF Cancel
  <2> QED
    BY <2>1, <2>2, <2>3, <2>4, <2>5, <2>6, <2>7, <2>8, <2>9
<1>5. CASE WorkerNext
  BY <1>2, <1>5 DEF WorkerNext, ClaimTask, TaskHeartbeat, CompleteTask, FailTask, CancelTask, Report
<1>6. CASE TimerNext
  BY <1>2, <1>6 DEF TimerNext, ReconcileUpTo, TimePasses
<1> QED
  BY <1>3, <1>4, <1>5, <1>6 DEF Next

\* What a step makes of a job's task and state.
Moves(j) ==
  \/ jobs'[j].current = NoTask
  \/ jobs'[j].current = jobs[j].current /\ (jobs'[j].state = jobs[j].state \/ SetBackgroundDir(j))
  \/ jobs'[j].current \notin DOMAIN tasks /\ jobs'[j].state \in Processing

OursIfNew(t) ==
  t \notin DOMAIN tasks =>
    tasks'[t].job \in DOMAIN jobs /\ tasks'[t].job \in DOMAIN jobs' /\ jobs'[tasks'[t].job].current = t

LEMMA OutcomesMove ==
  ASSUME Inv, NEW S, NEW ts, jobs' = Applied(S, ts),
         \A t \in S : /\ t \in DOMAIN tasks /\ ts[t] \in Task /\ ts[t].state \in Terminal
                      /\ ts[t].attempt = tasks[t].attempt,
         NEW j \in DOMAIN jobs
  PROVE  Moves(j)
<1>1. CASE ~\E t \in S : ts[t].job = j /\ IsCurrent(j, t)
  BY <1>1 DEF Applied, Moves
<1>2. CASE \E t \in S : ts[t].job = j /\ IsCurrent(j, t)
  <2> DEFINE t == CHOOSE t \in S : ts[t].job = j /\ IsCurrent(j, t)
  <2>1. t \in S /\ jobs[j].current = t
    BY <1>2 DEF IsCurrent
  <2>2. jobs'[j] = Outcome(jobs[j], ts[t])
    BY <1>2 DEF Applied
  <2> HIDE DEF t
  <2>3. t \in TaskIds /\ ts[t].attempt = tasks[t].attempt /\ ts[t] \in Task /\ ts[t].state \in Terminal
    BY <2>1 DEF Inv, IInv
  <2>4. jobs[j].current # NoTask
    BY <2>1, <2>3, NoTaskIsNoTask
  <2>5. JobOK(jobs[j]) /\ HasActive(jobs[j]) /\ ts[t].attempt = jobs[j].active
    BY <2>1, <2>3, <2>4 DEF Inv, JInv, Linked
  <2>6. jobs'[j].current = NoTask
    BY <2>2, <2>3, <2>5, OutcomeOK
  <2> QED
    BY <2>6 DEF Moves
<1> QED
  BY <1>1, <1>2

LEMMA SetBackgroundKeepsTask ==
  ASSUME Inv, NEW j \in JobIds, SetBackgroundDir(j)
  PROVE  jobs'[j].current = jobs[j].current
<1> DEFINE job == jobs[j]
           s   == IF job.renderDir # NoPath THEN "RENDER_READY" ELSE job.state
           x   == [job EXCEPT !.background = TRUE, !.datasetZip = NoPath, !.state = s]
           new == IF HasActive(x) THEN WithActive(x, [ActiveOf(x) EXCEPT !.datasetZip = NoPath])
                                  ELSE x
<1>1. j \in DOMAIN jobs /\ job \in Job /\ jobs' = JobsWith(j, new)
  BY DEF SetBackgroundDir, Inv, JInv, JobOK
<1>2. x \in Job
  <2>1. s \in JobStates /\ NoPath \in Path /\ TRUE \in BOOLEAN
    BY <1>1, QueueAssumption DEF Job, JobStates, NoPath, Path
  <2> HIDE DEF s
  <2> QED
    BY <1>1, <2>1, Zenon DEF Job
<1>3. x.current = job.current /\ x.attempts = job.attempts /\ x.active = job.active
      /\ (job.background => x.background)
  BY <1>1 DEF Job
<1> HIDE DEF x
<1>4. new.current = job.current
  BY <1>2, <1>3, DatasetDropped
<1> HIDE DEF new
<1> QED
  BY <1>1, <1>4 DEF JobsWith

\* A method that creates no task.
LEMMA UserMoves ==
  ASSUME Inv, AllCleared, QueueStep, NEW k \in JobIds,
         \/ CreateJob(k) \/ AddExistingPLY(k) \/ SaveCleaned(k) \/ SetBackgroundDir(k)
         \/ \E n \in Versions : ActivateAttempt(k, n)
         \/ \E stopped \in SUBSET Stoppable(k), saved \in Saves : Cancel(k, stopped, saved),
         NEW j \in DOMAIN jobs
  PROVE  DOMAIN tasks' = DOMAIN tasks /\ Moves(j)
<1>0. jobs[j] \in Job /\ j \in JobIds
  BY DEF Inv, JInv, JobOK
<1>1. DOMAIN tasks' = DOMAIN tasks
  BY DEF CreateJob, AddExistingPLY, SaveCleaned, SetBackgroundDir, ActivateAttempt, Cancel, CancelByJob
<1>2. CASE k # j \/ CreateJob(k)
  <2>1. jobs'[j] = jobs[j]
    BY <1>2 DEF CreateJob, AddExistingPLY, SaveCleaned, SetBackgroundDir, ActivateAttempt, Cancel,
                JobsWith
  <2> QED
    BY <1>1, <2>1 DEF Moves
<1>3. CASE AddExistingPLY(j)
  <2> DEFINE x == [jobs[j] EXCEPT !.state = "REVIEW_READY", !.current = NoTask, !.cancel = FALSE]
  <2>1. PICK n, a : jobs' = JobsWith(j, OnNewAttempt(x, n, a))
    BY <1>3 DEF AddExistingPLY
  <2>2. jobs'[j].current = NoTask
    BY <1>0, <2>1 DEF JobsWith, OnNewAttempt, Job
  <2> QED
    BY <1>1, <2>2 DEF Moves
<1>4. CASE SaveCleaned(j)
  BY <1>0, <1>1, <1>4, SaveCleanedClaims DEF Moves
<1>5. CASE SetBackgroundDir(j)
  BY <1>0, <1>1, <1>5, SetBackgroundKeepsTask DEF Moves
<1>6. CASE \E n \in Versions : ActivateAttempt(j, n)
  <2>1. jobs'[j].current = NoTask
    BY <1>0, <1>6 DEF ActivateAttempt, Idle, JobsWith, Job
  <2> QED
    BY <1>1, <2>1 DEF Moves
<1>7. CASE \E stopped \in SUBSET Stoppable(j), saved \in Saves : Cancel(j, stopped, saved)
  BY <1>0, <1>1, <1>7 DEF Cancel, JobsWith, Job, Moves
<1> QED
  BY <1>2, <1>3, <1>4, <1>5, <1>6, <1>7

LEMMA StepMoves ==
  ASSUME Inv, AllCleared, ~Faults, [Next]_vars
  PROVE  /\ \A j \in DOMAIN jobs : Moves(j)
         /\ \A t \in DOMAIN tasks' : OursIfNew(t)
<1>1. CASE DOMAIN tasks' = DOMAIN tasks /\ jobs' = jobs
  BY <1>1 DEF Moves, OursIfNew
<1>2. CASE UserNext
  <2>0. QueueStep
    BY <1>2, UserNextInv
  <2> SUFFICES ASSUME NEW k \in JobIds,
        \/ \E t \in TaskIds, saved \in Saves :
             AddVideo(k, t, saved) \/ StartRender(k, t, saved) \/ StartDataset(k, t, saved)
        \/ \/ CreateJob(k) \/ AddExistingPLY(k) \/ SaveCleaned(k) \/ SetBackgroundDir(k)
           \/ \E n \in Versions : ActivateAttempt(k, n)
           \/ \E stopped \in SUBSET Stoppable(k), saved \in Saves : Cancel(k, stopped, saved)
      PROVE  /\ \A j \in DOMAIN jobs : Moves(j)
             /\ \A t \in DOMAIN tasks' : OursIfNew(t)
    BY <1>2 DEF UserNext
  <2>1. CASE \E t \in TaskIds, saved \in Saves :
               AddVideo(k, t, saved) \/ StartRender(k, t, saved) \/ StartDataset(k, t, saved)
    <3>1. PICK t, new :
            /\ k \in DOMAIN jobs /\ t \notin DOMAIN tasks
            /\ DOMAIN tasks' = DOMAIN tasks \cup {t} /\ tasks'[t].job = k
            /\ jobs' = JobsWith(k, new) /\ new.current = t /\ new.state \in Processing
      BY <2>1, NewTaskIsCurrent
    <3>2. jobs'[k] = new /\ k \in DOMAIN jobs' /\ \A j \in DOMAIN jobs : j # k => jobs'[j] = jobs[j]
      BY <3>1 DEF JobsWith
    <3> QED
      BY <3>1, <3>2 DEF Moves, OursIfNew
  <2>2. CASE \/ CreateJob(k) \/ AddExistingPLY(k) \/ SaveCleaned(k) \/ SetBackgroundDir(k)
             \/ \E n \in Versions : ActivateAttempt(k, n)
             \/ \E stopped \in SUBSET Stoppable(k), saved \in Saves : Cancel(k, stopped, saved)
    <3>1. \A j \in DOMAIN jobs : Moves(j)
      BY <2>0, <2>2, UserMoves
    <3>2. DOMAIN tasks' = DOMAIN tasks
      BY <2>2 DEF CreateJob, AddExistingPLY, SaveCleaned, SetBackgroundDir, ActivateAttempt, Cancel,
                  CancelByJob
    <3> QED
      BY <3>1, <3>2 DEF OursIfNew
  <2> QED
    BY <2>1, <2>2
<1>3. ASSUME NEW S, NEW ts, jobs' = Applied(S, ts), DOMAIN tasks' = DOMAIN tasks,
             \A t \in S : /\ t \in DOMAIN tasks /\ ts[t] \in Task /\ ts[t].state \in Terminal
                          /\ ts[t].attempt = tasks[t].attempt
      PROVE  /\ \A j \in DOMAIN jobs : Moves(j)
             /\ \A t \in DOMAIN tasks' : OursIfNew(t)
  BY <1>3, OutcomesMove DEF OursIfNew
<1>4. CASE WorkerNext
  <2>1. ASSUME NEW w \in WorkerIds, ClaimTask(w)
        PROVE  /\ \A j \in DOMAIN jobs : Moves(j)
               /\ \A t \in DOMAIN tasks' : OursIfNew(t)
    <3>1. DOMAIN tasks' = DOMAIN tasks
      BY <2>1 DEF ClaimTask, ClaimDelivers, ClaimFindsNone, ClaimAborts, AfterSweep
    <3>2. PICK applied \in SUBSET Swept :
            jobs' = Applied(applied, [t \in Swept |-> SweptTask(t)]) \/ jobs' = jobs
      BY <2>1 DEF ClaimTask
    <3> DEFINE ts == [t \in Swept |-> SweptTask(t)]
    <3>3. ASSUME NEW t \in applied
          PROVE  /\ t \in DOMAIN tasks /\ ts[t] \in Task /\ ts[t].state \in Terminal
                 /\ ts[t].attempt = tasks[t].attempt
      <4>1. t \in Swept /\ ts[t] = SweptTask(t)
        OBVIOUS
      <4>2. t \in DOMAIN tasks /\ tasks[t] \in Task
        BY <4>1 DEF Swept, Inv, IInv, RowOK
      <4> HIDE DEF ts
      <4>3. /\ SweptTask(t) \in Task /\ SweptTask(t).state \in Terminal
            /\ SweptTask(t).attempt = tasks[t].attempt
        BY <4>2 DEF SweptTask, Task, Terminal
      <4> QED
        BY <4>1, <4>2, <4>3
    <3>4. CASE jobs' = Applied(applied, ts)
      <4> HIDE DEF ts
      <4> QED
        BY <1>3, <3>1, <3>3, <3>4
    <3> QED
      BY <1>1, <3>1, <3>2, <3>4
  <2>2. ASSUME NEW w \in WorkerIds, NEW t \in TaskIds, TaskHeartbeat(t, w)
        PROVE  DOMAIN tasks' = DOMAIN tasks /\ jobs' = jobs
    BY <2>2 DEF TaskHeartbeat, Heartbeat
  <2>3. ASSUME NEW w \in WorkerIds, NEW t \in TaskIds, NEW saved \in Saves,
               CompleteTask(t, w, saved) \/ FailTask(t, w, saved) \/ CancelTask(t, w, saved)
        PROVE  /\ \A j \in DOMAIN jobs : Moves(j)
               /\ \A u \in DOMAIN tasks' : OursIfNew(u)
    <3>1. (Complete(t, w) \/ Fail(t, w) \/ AcknowledgeCancel(t, w)) /\ jobs' = Applied({t}, tasks')
      BY <2>3 DEF CompleteTask, FailTask, CancelTask, Report, Saves
    <3>2. PICK o \in Terminal :
            t \in DOMAIN tasks /\ tasks' = [tasks EXCEPT ![t] = Finished(t, o)]
      BY <3>1 DEF Complete, Fail, AcknowledgeCancel, Terminal
    <3>3. tasks[t] \in Task /\ tasks'[t] = Finished(t, o)
      BY <3>2 DEF Inv, IInv, RowOK
    <3>4. /\ tasks'[t] \in Task /\ tasks'[t].state \in Terminal
          /\ tasks'[t].attempt = tasks[t].attempt
      BY <3>3 DEF Finished, Task, Terminal
    <3>5. DOMAIN tasks' = DOMAIN tasks
      BY <3>2
    <3>6. \A u \in {t} : /\ u \in DOMAIN tasks /\ tasks'[u] \in Task /\ tasks'[u].state \in Terminal
                         /\ tasks'[u].attempt = tasks[u].attempt
      BY <3>2, <3>4
    <3>7. jobs' = Applied({t}, tasks')
      BY <3>1
    <3> QED
      BY <1>3, <3>5, <3>6, <3>7
  <2> QED
    BY <1>1, <1>4, <2>1, <2>2, <2>3 DEF WorkerNext
<1>5. CASE TimerNext
  <2>1. ASSUME NEW repaired \in SUBSET Unreconciled, ReconcileUpTo(repaired)
        PROVE  /\ \A j \in DOMAIN jobs : Moves(j)
               /\ \A t \in DOMAIN tasks' : OursIfNew(t)
    <3>1. jobs' = Applied(repaired, tasks) /\ tasks' = tasks
      BY <2>1 DEF ReconcileUpTo
    <3>2. ASSUME NEW t \in repaired
          PROVE  /\ t \in DOMAIN tasks /\ tasks[t] \in Task /\ tasks[t].state \in Terminal
                 /\ tasks[t].attempt = tasks[t].attempt
      BY <2>1 DEF Unreconciled, Over, Inv, IInv, RowOK
    <3> QED
      BY <1>3, <3>1, <3>2
  <2>2. CASE TimePasses
    BY <1>1, <2>2 DEF TimePasses, LeaseExpires
  <2> QED
    BY <1>5, <2>1, <2>2 DEF TimerNext
<1> QED
  BY <1>1, <1>2, <1>4, <1>5 DEF Next, vars

\* A task that was there and is not over was not over before; unless its job
\* showed RENDER_READY, it is still the current one if it was.
LEMMA UnfinishedStays ==
  ASSUME Inv, ~Faults, [Next]_vars, NEW t \in DOMAIN tasks, t \in DOMAIN tasks', ~Over(t)'
  PROVE  /\ ~Over(t) /\ tasks'[t].job = tasks[t].job /\ tasks'[t].type = tasks[t].type
         /\ LET j == tasks[t].job IN
            j \in DOMAIN jobs /\ jobs[j].current = t =>
              /\ jobs[j].state \notin Processing => jobs[j].state = "RENDER_READY" /\ tasks[t].type = "RENDER"
              /\ jobs[j].state \in Processing => jobs'[j].current = t
<1>1. ~Over(t) /\ tasks'[t].job = tasks[t].job /\ tasks'[t].type = tasks[t].type
  BY ServiceQueueStep, TaskFrame DEF QueueStep, Inv, Over
<1>2. ASSUME NEW j \in DOMAIN jobs, jobs[j].current = t
      PROVE  /\ jobs[j].state \notin Processing =>
                  jobs[j].state = "RENDER_READY" /\ tasks[t].type = "RENDER"
             /\ jobs[j].state \in Processing => jobs'[j].current = t
  <2>1. t \in TaskIds /\ t # NoTask
    BY NoTaskIsNoTask DEF Inv, IInv
  <2>2. tasks[t].type \in {"RECONSTRUCT", "RENDER", "DATASET"}
    BY ServiceAssumption DEF Inv, IInv, RowOK, Task
  <2>3. ~(tasks'[t].state \in Terminal)
    BY DEF Over
  <2> QED
    BY <1>2, <2>1, <2>2, <2>3, StepShows DEF Inv, JInv, Linked, ProcessingStateOf, Processing
<1> QED
  BY <1>1, <1>2

LEMMA ForgetsOnlyRendersStep ==
  ASSUME Inv, AllCleared, ~Faults, ForgetsOnlyRenders, [Next]_vars
  PROVE  ForgetsOnlyRenders'
<1> SUFFICES ASSUME NEW t \in DOMAIN tasks', ~Over(t)', tasks'[t].type # "RENDER"
             PROVE  tasks'[t].job \in DOMAIN jobs' /\ jobs'[tasks'[t].job].current = t
  BY DEF ForgetsOnlyRenders
<1>1. CASE t \notin DOMAIN tasks
  BY <1>1, StepMoves DEF OursIfNew
<1>2. CASE t \in DOMAIN tasks
  <2> DEFINE j == tasks[t].job
  <2>1. ~Over(t) /\ tasks'[t].job = j /\ tasks[t].type # "RENDER"
    BY <1>2, UnfinishedStays
  <2>2. j \in DOMAIN jobs /\ jobs[j].current = t
    BY <1>2, <2>1 DEF ForgetsOnlyRenders
  <2>3. jobs'[j].current = t
    BY <1>2, <2>1, <2>2, UnfinishedStays
  <2>4. j \in DOMAIN jobs'
    BY <2>2, NoJobGoes
  <2> QED
    BY <2>1, <2>3, <2>4
<1> QED
  BY <1>1, <1>2

\* Without faults, a reconstruction or a dataset that a worker may be at is
\* always its job's current task: only a render is ever forgotten.
THEOREM ServiceForgetsOnlyRenders ==
  ASSUME Faults = FALSE
  PROVE  Spec => []ForgetsOnlyRenders
<1>1. Init => Inv /\ AllCleared /\ ForgetsOnlyRenders
  BY InitInv, InitCleared DEF Init, QueueInit, ForgetsOnlyRenders
<1>2. (Inv /\ AllCleared /\ ForgetsOnlyRenders) /\ [Next]_vars =>
        (Inv /\ AllCleared /\ ForgetsOnlyRenders)'
  BY StepInv, StepClaims, ForgetsOnlyRendersStep
<1> QED
  BY <1>1, <1>2, PTL DEF Spec

\* No background is uploaded while the job has a task.
UploadsWait == [][\A j \in DOMAIN jobs : SetBackgroundDir(j) => jobs[j].current = NoTask]_vars

\* Then a job that has a task shows it, and has no other.
OneAtATime ==
  /\ \A j \in DOMAIN jobs : jobs[j].current # NoTask => jobs[j].state # "RENDER_READY"
  /\ \A t \in DOMAIN tasks : ~Over(t) =>
       tasks[t].job \in DOMAIN jobs /\ jobs[tasks[t].job].current = t

LEMMA OneAtATimeStep ==
  ASSUME Inv, AllCleared, ~Faults, OneAtATime, [Next]_vars,
         vars' = vars \/ \A j \in DOMAIN jobs : SetBackgroundDir(j) => jobs[j].current = NoTask
  PROVE  OneAtATime'
<1>1. ASSUME NEW j \in DOMAIN jobs', jobs'[j].current # NoTask
      PROVE  jobs'[j].state # "RENDER_READY"
  <2>1. CASE j \in DOMAIN jobs
    <3>1. CASE vars' = vars
      BY <1>1, <2>1, <3>1 DEF vars, OneAtATime
    <3>2. CASE vars' # vars
      BY <1>1, <2>1, <3>2, StepMoves DEF Moves, OneAtATime, Processing
    <3> QED
      BY <3>1, <3>2
  <2>2. CASE j \notin DOMAIN jobs
    BY <1>1, <2>2, StepClaims DEF JobsClaim, NewJob
  <2> QED
    BY <2>1, <2>2
<1>2. ASSUME NEW t \in DOMAIN tasks', ~Over(t)'
      PROVE  tasks'[t].job \in DOMAIN jobs' /\ jobs'[tasks'[t].job].current = t
  <2>1. CASE t \notin DOMAIN tasks
    BY <2>1, StepMoves DEF OursIfNew
  <2>2. CASE t \in DOMAIN tasks
    <3> DEFINE j == tasks[t].job
    <3>1. ~Over(t) /\ tasks'[t].job = j
      BY <1>2, <2>2, UnfinishedStays
    <3>2. j \in DOMAIN jobs /\ jobs[j].current = t
      BY <2>2, <3>1 DEF OneAtATime
    <3>3. jobs[j].current # NoTask
      BY <2>2, <3>2, NoTaskIsNoTask DEF Inv, IInv
    <3>4. jobs'[j].current = t
      BY <1>2, <2>2, <3>2, <3>3, UnfinishedStays DEF OneAtATime
    <3>5. j \in DOMAIN jobs'
      BY <3>2, NoJobGoes
    <3> QED
      BY <3>1, <3>4, <3>5
  <2> QED
    BY <2>1, <2>2
<1> QED
  BY <1>1, <1>2 DEF OneAtATime

\* "job already has an active processing task": the refusals do keep a second
\* task out, without faults, if background uploads wait for the first.  They
\* are the only way round them (jobs/service.go:333).
THEOREM ServiceOneActiveTask ==
  ASSUME Faults = FALSE
  PROVE  Spec /\ UploadsWait => []OneActiveTask
<1> DEFINE Waits == \A j \in DOMAIN jobs : SetBackgroundDir(j) => jobs[j].current = NoTask
           I     == Inv /\ AllCleared /\ OneAtATime
<1>1. Init => I
  BY InitInv, InitCleared DEF Init, QueueInit, OneAtATime
<1>2. I /\ [Next]_vars /\ [Waits]_vars => I'
  BY StepInv, StepClaims, OneAtATimeStep
<1>3. I => OneActiveTask
  <2> SUFFICES ASSUME I, NEW j \in DOMAIN jobs PROVE Cardinality(Stoppable(j)) <= 1
    BY DEF OneActiveTask
  <2>1. Stoppable(j) = {} \/ Stoppable(j) = {jobs[j].current}
    BY DEF Stoppable, OneAtATime
  <2>2. Cardinality(Stoppable(j)) \in {0, 1}
    BY <2>1, FS_EmptySet, FS_Singleton
  <2> QED
    BY <2>2
<1>4. UploadsWait <=> [][Waits]_vars
  BY DEF UploadsWait
<1> HIDE DEF Waits, I
<1> QED
  BY <1>1, <1>2, <1>3, <1>4, PTL DEF Spec
=============================================================================
