--------------------------- MODULE ArtifactsProofs ---------------------------
(***************************************************************************)
(* Theorems about the files on disk, for every value of the constants: the *)
(* methods that move files and the workers that write them do nothing to   *)
(* job and task files that JobService could not do, so its theorems hold   *)
(* here too; every directory always holds what its type says, whoever dies *)
(* in the middle of whatever; and what a job accepts or offers is of one   *)
(* edit and one set of backgrounds, and whole if the latest render         *)
(* succeeded (SoloInv).                                                    *)
(***************************************************************************)
EXTENDS Artifacts, JobHistoryProofs

----------------------------------------------------------------------------
(* The control plane is not changed. *)

LEMMA AppIsServiceStep == ASSUME AppNext PROVE [Next]_vars
<1>1. CASE \E j \in JobIds, e \in Edits : SaveEdit(j, e) \/ SaveEditDies(j, e)
  BY <1>1 DEF SaveEdit, SaveEditDies, UserNext, Next, vars
<1>2. CASE \E j \in JobIds, b \in Backgrounds : SetBackgrounds(j, b) \/ SetBackgroundsDies(j, b)
  BY <1>2 DEF SetBackgrounds, SetBackgroundsDies, UserNext, Next, vars
<1>3. CASE \E j \in JobIds : UploadPLY(j)
  BY <1>3 DEF UploadPLY, UserNext, Next
<1>4. CASE OtherUserNext
  BY <1>4, Zenon DEF OtherUserNext, UserNext, Next
<1>5. CASE TimerNext /\ UNCHANGED <<disk, run>>
  BY <1>5 DEF Next
<1> QED
  BY <1>1, <1>2, <1>3, <1>4, <1>5 DEF AppNext

LEMMA FileStepKeepsService == ASSUME NEW w, FileStep(w) PROVE UNCHANGED vars
BY DEF FileStep, Reconstructs, ReconstructPublishes, RenderStarts, RenderLoads, RenderMakes,
       RenderPublishes, DatasetStarts, DatasetMakes, DatasetPublishes, DatasetArchives, Writes, vars

\* The reports of a worker come from a worker that runs a task.
LEMMA WorkerIsServiceStep ==
  ASSUME Inv, NEW w \in WorkerIds,
         FileStep(w) \/ Poll(w) \/ Renew(w) \/ Finish(w) \/ Stop(w) \/ Vanish(w)
  PROVE  [Next]_vars
<1>1. CASE FileStep(w)
  BY <1>1, FileStepKeepsService
<1>2. CASE Poll(w)
  BY <1>2 DEF Poll, WorkerNext, Next
<1>3. CASE Vanish(w)
  BY <1>3 DEF Vanish, vars
<1>4. CASE Renew(w) \/ Finish(w) \/ Stop(w)
  <2> DEFINE t == run[w].task
  <2>1. \/ TaskHeartbeat(t, w)
        \/ \E saved \in Saves :
             CompleteTask(t, w, saved) \/ FailTask(t, w, saved) \/ CancelTask(t, w, saved)
    BY <1>4 DEF Renew, Finish, Stop
  <2>2. t \in DOMAIN tasks
    BY <2>1 DEF TaskHeartbeat, Heartbeat, CompleteTask, Complete, FailTask, Fail,
                CancelTask, AcknowledgeCancel
  <2>3. t \in TaskIds
    BY <2>2 DEF Inv, IInv
  <2> QED
    BY <2>1, <2>3, Zenon DEF WorkerNext, Next
<1> QED
  BY <1>1, <1>2, <1>3, <1>4

LEMMA ArtifactsStepIsServiceStep == Inv /\ [ArtifactsNext]_artifacts => [Next]_vars
<1> SUFFICES ASSUME Inv, [ArtifactsNext]_artifacts PROVE [Next]_vars
  OBVIOUS
<1>1. CASE AppNext
  BY <1>1, AppIsServiceStep
<1>2. CASE WorkersNext
  BY <1>2, WorkerIsServiceStep DEF WorkersNext
<1>3. CASE UNCHANGED artifacts
  BY <1>3 DEF artifacts, vars
<1> QED
  BY <1>1, <1>2, <1>3 DEF ArtifactsNext

\* The invariant of the control plane holds with the files, too.
THEOREM ArtifactsServiceInvariant == ArtifactsSpec => []Inv
<1>1. ArtifactsInit => Inv
  BY InitInv DEF ArtifactsInit
<1>2. Inv /\ [ArtifactsNext]_artifacts => Inv'
  BY ArtifactsStepIsServiceStep, StepInv
<1> QED
  BY <1>1, <1>2, PTL DEF ArtifactsSpec

\* Moving and writing files does nothing to job and task files that the
\* control plane on its own could not do (jobs/service.go, worker/prodsplat).
THEOREM ArtifactsImplementService == ArtifactsSpec => Spec
<1>1. ArtifactsInit => Init
  BY DEF ArtifactsInit
<1>2. Inv /\ [ArtifactsNext]_artifacts => [Next]_vars
  BY ArtifactsStepIsServiceStep
<1> QED
  BY <1>1, <1>2, ArtifactsServiceInvariant, PTL DEF ArtifactsSpec, Spec
----------------------------------------------------------------------------
(* Files, backups and runs have their types.  A run is at a task that       *)
(* exists, and draws views only once it has loaded an asset (RunOK): that   *)
(* is what makes the directories it writes directories of renders.          *)

RunOK(r) ==
  /\ r \in Run
  /\ r.task # NoTask => r.task \in DOMAIN tasks
  /\ r.task # NoTask /\ tasks[r.task].type = "RENDER" /\ r.step = "make" => r.edit \in Edits

DiskOK == /\ files \in [Places -> Directory]
          /\ backgrounds \in [JobIds -> Backgrounds \cup {NoFile}]
          /\ backups \in SUBSET (JobIds \X (0 .. MaxVersions))
          /\ run \in [WorkerIds -> Run]
          /\ \A w \in WorkerIds : RunOK(run[w])

\* No step removes a task or changes its kind.
TasksStay == \A t \in DOMAIN tasks : t \in DOMAIN tasks' /\ tasks'[t].type = tasks[t].type

LEMMA UserKeepsTaskFiles == ASSUME Inv, UserNext PROVE DOMAIN tasks \subseteq DOMAIN tasks'
<1>1. \/ UNCHANGED tasks
      \/ \E t \in TaskIds, j \in JobIds : \E n, type : Create(t, j, n, type)
      \/ \E j \in JobIds : \E stopped : CancelByJob(j, stopped)
  BY Zenon DEF UserNext, CreateJob, AddVideo, AddExistingPLY, ActivateAttempt, SaveCleaned, StartRender,
         SetBackgroundDir, StartDataset, Cancel
<1> QED
  BY <1>1 DEF Create, CancelByJob

LEMMA WorkerKeepsTaskFiles == ASSUME Inv, WorkerNext PROVE DOMAIN tasks' = DOMAIN tasks
<1>1. ASSUME NEW w \in WorkerIds, ClaimTask(w) PROVE DOMAIN tasks' = DOMAIN tasks
  BY <1>1 DEF ClaimTask, ClaimDelivers, ClaimFindsNone, ClaimAborts, AfterSweep
<1>2. ASSUME NEW w \in WorkerIds, NEW t \in TaskIds, NEW saved \in Saves,
             \/ TaskHeartbeat(t, w) \/ CompleteTask(t, w, saved)
             \/ FailTask(t, w, saved) \/ CancelTask(t, w, saved)
      PROVE  DOMAIN tasks' = DOMAIN tasks
  BY <1>2 DEF TaskHeartbeat, Heartbeat, CompleteTask, Complete, FailTask, Fail,
              CancelTask, AcknowledgeCancel
<1>3. TRUE \in Saves
  BY DEF Saves
<1> QED
  BY <1>1, <1>2, <1>3, Zenon DEF WorkerNext

LEMMA StepKeepsTasks == ASSUME Inv, [Next]_vars PROVE TasksStay
<1>1. DOMAIN tasks \subseteq DOMAIN tasks'
  <2>1. CASE TimerNext
    BY <2>1 DEF TimerNext, ReconcileUpTo, TimePasses, LeaseExpires
  <2> QED
    BY <2>1, UserKeepsTaskFiles, WorkerKeepsTaskFiles DEF Next, vars
<1>2. [QueueNext]_tasks /\ IInv
  BY StepInv DEF Inv
<1>3. CASE QueueNext
  <2>1. StepShape
    BY <1>2, <1>3, EveryStepShape
  <2>2. ASSUME NEW t \in DOMAIN tasks PROVE tasks'[t].type = tasks[t].type
    <3>1. RowNext(t) /\ tasks[t] \in Task
      BY <1>1, <1>2, <2>1 DEF StepShape, IInv, RowOK
    <3> QED
      BY <3>1 DEF RowNext, SweptTask, ClaimedTask, Finished, StoppedTask, Task
  <2> QED
    BY <1>1, <2>2 DEF TasksStay
<1> QED
  BY <1>1, <1>2, <1>3 DEF TasksStay

\* What a worker finds: the directory of its task's attempt.
LEMMA FoundDirectory ==
  ASSUME Inv, DiskOK, NEW w \in WorkerIds, run[w].task # NoTask
  PROVE  PlaceOf(w) \in Places /\ FilesOf(w) \in Directory
<1>1. tasks[run[w].task] \in Task
  BY DEF DiskOK, RunOK, Inv, IInv, RowOK
<1> QED
  BY <1>1 DEF PlaceOf, FilesOf, Places, Task, DiskOK

LEMMA EmptyDirectory == <<>> \in Renders /\ <<>> \in Dataset
<1>1. <<>> \in [{} -> Edits] /\ <<>> \in [{} -> Sample]
  OBVIOUS
<1> QED
  BY <1>1 DEF Renders, Dataset

\* A directory with one more view in it.
LEMMA OneMoreRender ==
  ASSUME NEW f \in Renders, f # NoFile, NEW v \in Views, NEW e \in Edits
  PROVE  With(f, v, e) \in Renders
<1>1. PICK S \in SUBSET Views : f \in [S -> Edits]
  BY DEF Renders
<1>2. With(f, v, e) \in [S \cup {v} -> Edits]
  BY <1>1 DEF With
<1>3. S \cup {v} \in SUBSET Views
  OBVIOUS
<1>4. [S \cup {v} -> Edits] \in {[P -> Edits] : P \in SUBSET Views}
  BY <1>3, Zenon
<1>5. With(f, v, e) \in UNION {[P -> Edits] : P \in SUBSET Views}
  BY <1>2, <1>4, Zenon
<1> QED
  BY <1>5, Zenon DEF Renders

LEMMA OneMoreSample ==
  ASSUME NEW f \in Dataset, f # NoFile, NEW v \in Views, NEW s \in Sample
  PROVE  With(f, v, s) \in Dataset
<1>1. PICK S \in SUBSET Views : f \in [S -> Sample]
  BY DEF Dataset
<1>2. With(f, v, s) \in [S \cup {v} -> Sample]
  BY <1>1 DEF With
<1>3. S \cup {v} \in SUBSET Views
  OBVIOUS
<1>4. [S \cup {v} -> Sample] \in {[P -> Sample] : P \in SUBSET Views}
  BY <1>3, Zenon
<1>5. With(f, v, s) \in UNION {[P -> Sample] : P \in SUBSET Views}
  BY <1>2, <1>4, Zenon
<1> QED
  BY <1>5, Zenon DEF Dataset

\* What is left of a directory that is being removed.
LEMMA OneRenderLess ==
  ASSUME NEW f \in Renders, NEW x \in Remains(f)
  PROVE  x \in Renders
<1>1. CASE x = NoFile \/ x = <<>>
  BY <1>1, EmptyDirectory DEF Renders
<1>2. CASE \E v \in DOMAIN f : f # NoFile /\ x = Without(f, v)
  <2>1. PICK v \in DOMAIN f : x = Without(f, v)
    BY <1>2
  <2>2. PICK S \in SUBSET Views : f \in [S -> Edits]
    BY <1>2 DEF Renders
  <2>3. x \in [S \ {v} -> Edits]
    BY <2>1, <2>2 DEF Without
  <2>4. [S \ {v} -> Edits] \in {[P -> Edits] : P \in SUBSET Views}
    <3>1. S \ {v} \in SUBSET Views
      OBVIOUS
    <3> QED
      BY <3>1, Zenon
  <2>5. x \in UNION {[P -> Edits] : P \in SUBSET Views}
    BY <2>3, <2>4, Zenon
  <2> QED
    BY <2>5, Zenon DEF Renders
<1> QED
  BY <1>1, <1>2 DEF Remains

LEMMA OneSampleLess ==
  ASSUME NEW f \in Dataset \cup {ColmapData}, NEW x \in Remains(f)
  PROVE  x \in Dataset \cup {ColmapData}
<1>1. CASE x = NoFile \/ x = <<>>
  BY <1>1, EmptyDirectory DEF Dataset
<1>2. CASE \E v \in DOMAIN f : f \notin {NoFile, ColmapData} /\ x = Without(f, v)
  <2>1. PICK v \in DOMAIN f : x = Without(f, v)
    BY <1>2
  <2>2. PICK S \in SUBSET Views : f \in [S -> Sample]
    BY <1>2 DEF Dataset
  <2>3. x \in [S \ {v} -> Sample]
    BY <2>1, <2>2 DEF Without
  <2>4. [S \ {v} -> Sample] \in {[P -> Sample] : P \in SUBSET Views}
    <3>1. S \ {v} \in SUBSET Views
      OBVIOUS
    <3> QED
      BY <3>1, Zenon
  <2>5. x \in UNION {[P -> Sample] : P \in SUBSET Views}
    BY <2>3, <2>4, Zenon
  <2> QED
    BY <2>5, Zenon DEF Dataset
<1> QED
  BY <1>1, <1>2 DEF Remains

\* A directory with one of its entries replaced.
LEMMA EntryReplaced ==
  ASSUME NEW d \in Directory
  PROVE  /\ \A x \in SUBSET Retained : [d EXCEPT !.retained = x] \in Directory
         /\ \A x \in Edits \cup {NoFile} : [d EXCEPT !.cleaned = x] \in Directory
         /\ \A x, y \in Renders : [d EXCEPT !.renders = x, !.rendersPartial = y] \in Directory
         /\ \A x \in Renders : [d EXCEPT !.rendersPartial = x] \in Directory
         /\ \A x \in Renders : [d EXCEPT !.renders = x] \in Directory
         /\ \A x \in Dataset \cup {ColmapData} : [d EXCEPT !.dataset = x] \in Directory
         /\ \A x \in Dataset \cup {ColmapData}, y \in Dataset :
              [d EXCEPT !.dataset = x, !.datasetPartial = y] \in Directory
         /\ \A x \in Dataset : [d EXCEPT !.datasetPartial = x] \in Directory
         /\ \A x \in Dataset : [d EXCEPT !.zipPartial = x] \in Directory
         /\ \A x, y \in Dataset : [d EXCEPT !.zip = x, !.zipPartial = y] \in Directory
BY DEF Directory

\* A worker writes a directory, and only that.
LEMMA WriteKeepsTypes ==
  ASSUME Inv, DiskOK, NEW w \in WorkerIds, run[w].task # NoTask,
         NEW d \in Directory, Writes(w, d)
  PROVE  files' \in [Places -> Directory] /\ UNCHANGED <<jobs, tasks, backgrounds, backups>>
BY FoundDirectory DEF Writes, DiskOK

\* A run goes on, or ends.
LEMMA RunMoves ==
  ASSUME DiskOK, TasksStay, NEW w \in WorkerIds, NEW r \in Run,
         r.task # NoTask => r.task \in DOMAIN tasks',
         r.task # NoTask /\ tasks'[r.task].type = "RENDER" /\ r.step = "make" => r.edit \in Edits,
         run' = [run EXCEPT ![w] = r]
  PROVE  /\ run' \in [WorkerIds -> Run]
         /\ \A v \in WorkerIds : RunOK(run[v])'
<1>1. run' \in [WorkerIds -> Run] /\ run'[w] = r /\ \A v \in WorkerIds \ {w} : run'[v] = run[v]
  BY DEF DiskOK
<1>2. ASSUME NEW v \in WorkerIds PROVE RunOK(run[v])'
  BY <1>1 DEF DiskOK, RunOK, TasksStay
<1> QED
  BY <1>1, <1>2

LEMMA RunsStay ==
  ASSUME DiskOK, TasksStay, UNCHANGED run
  PROVE  run' \in [WorkerIds -> Run] /\ \A v \in WorkerIds : RunOK(run[v])'
BY DEF DiskOK, RunOK, TasksStay

LEMMA RunEnds ==
  ASSUME DiskOK, TasksStay, NEW w \in WorkerIds, run' = [run EXCEPT ![w] = NoRun]
  PROVE  run' \in [WorkerIds -> Run] /\ \A v \in WorkerIds : RunOK(run[v])'
<1>1. NoRun \in Run /\ NoRun.task = NoTask
  BY DEF NoRun, Run
<1> QED
  BY <1>1, RunMoves

LEMMA RunGoesOn ==
  ASSUME DiskOK, TasksStay, NEW w \in WorkerIds, run[w].task # NoTask,
         NEW s \in {"load", "clear", "publish", "drop", "training", "config",
                    "archive", "fill", "replace", "done"},
         GoesOn(w, s)
  PROVE  run' \in [WorkerIds -> Run] /\ \A v \in WorkerIds : RunOK(run[v])'
<1> DEFINE r == [run[w] EXCEPT !.step = s]
<1>1. r \in Run /\ r.step = s /\ r.task = run[w].task
  BY DEF DiskOK, Run
<1>2. run[w].task \in DOMAIN tasks'
  BY DEF DiskOK, RunOK, TasksStay
<1>3. run' = [run EXCEPT ![w] = r]
  BY DEF GoesOn
<1> QED
  BY <1>1, <1>2, <1>3, RunMoves

LEMMA RunMakes ==
  ASSUME DiskOK, TasksStay, NEW w \in WorkerIds, run[w].task # NoTask, run[w].step = "make",
         NEW v \in Views, Makes(w, v)
  PROVE  run' \in [WorkerIds -> Run] /\ \A u \in WorkerIds : RunOK(run[u])'
<1> DEFINE s == IF run[w].left = {v} THEN "clear" ELSE run[w].step
           r == [run[w] EXCEPT !.left = @ \ {v}, !.step = s]
<1>1. r \in Run /\ (r.step = "make" => run[w].step = "make") /\ r.task = run[w].task /\ r.edit = run[w].edit
  BY DEF DiskOK, Run
<1>2. /\ run[w].task \in DOMAIN tasks'
      /\ tasks'[r.task].type = "RENDER" /\ r.step = "make" => r.edit \in Edits
  BY <1>1 DEF DiskOK, RunOK, TasksStay
<1>3. run' = [run EXCEPT ![w] = r]
  BY DEF Makes
<1> QED
  BY <1>1, <1>2, <1>3, RunMoves

----------------------------------------------------------------------------
(* A worker's step over the files keeps them in order: one lemma per kind of task. *)

LEMMA ReconstructKeepsDisk ==
  ASSUME Inv, DiskOK, NEW w \in WorkerIds, Reconstructs(w) \/ ReconstructPublishes(w)
  PROVE  DiskOK'
<1> DEFINE d == FilesOf(w)
<1>1. run[w].task # NoTask
  BY DEF Reconstructs, ReconstructPublishes, At
<1>2. d \in Directory
  BY <1>1, FoundDirectory
<1>3. /\ {"splat", "training", "config"} = Retained /\ d.retained \in SUBSET Retained
      /\ d.dataset \in Dataset \cup {ColmapData} /\ ColmapData \in Dataset \cup {ColmapData}
  BY <1>2 DEF Retained, Directory
<1>4. /\ \E x \in Directory : Writes(w, x)
      /\ \E s \in {"clear", "publish", "drop", "training", "config", "done"} : GoesOn(w, s)
  <2>1. CASE Reconstructs(w)
    BY <2>1, <1>2, <1>3, EntryReplaced DEF Reconstructs
  <2>2. CASE ReconstructPublishes(w)
    <3>1. CASE At(w, "RECONSTRUCT", "clear")
      <4>1. PICK left \in Remains(d.dataset) :
              Clears(w, left) /\ Writes(w, [d EXCEPT !.dataset = left])
        BY <2>2, <3>1 DEF ReconstructPublishes, At
      <4>2. left \in Dataset \cup {ColmapData}
        BY <1>3, <4>1, OneSampleLess
      <4> QED
        BY <1>2, <4>1, <4>2, EntryReplaced DEF Clears
    <3>2. CASE ~At(w, "RECONSTRUCT", "clear")
      <4>1. \/ Writes(w, [d EXCEPT !.dataset = ColmapData]) /\ GoesOn(w, "drop")
            \/ Writes(w, [d EXCEPT !.retained = @ \ {"training"}]) /\ GoesOn(w, "training")
            \/ Writes(w, [d EXCEPT !.retained = @ \cup {"training"}]) /\ GoesOn(w, "config")
            \/ Writes(w, [d EXCEPT !.retained = @ \cup {"config"}]) /\ GoesOn(w, "done")
        BY <2>2, <3>2 DEF ReconstructPublishes
      <4> QED
        BY <1>2, <1>3, <4>1, EntryReplaced
    <3> QED
      BY <3>1, <3>2
  <2> QED
    BY <2>1, <2>2
<1>5. files' \in [Places -> Directory] /\ UNCHANGED <<jobs, tasks, backgrounds, backups>>
  BY <1>1, <1>4, WriteKeepsTypes
<1>6. run' \in [WorkerIds -> Run] /\ \A v \in WorkerIds : RunOK(run[v])'
  BY <1>1, <1>4, <1>5, RunGoesOn DEF TasksStay
<1> QED
  BY <1>5, <1>6 DEF DiskOK

LEMMA RenderKeepsDisk ==
  ASSUME Inv, DiskOK, NEW w \in WorkerIds,
         \/ RenderStarts(w) \/ RenderLoads(w) \/ RenderPublishes(w)
         \/ \E v \in Views : RenderMakes(w, v)
  PROVE  DiskOK'
<1> DEFINE d == FilesOf(w)
<1>1. run[w].task # NoTask
  BY DEF RenderStarts, RenderLoads, RenderMakes, RenderPublishes, At
<1>2. d \in Directory
  BY <1>1, FoundDirectory
<1>3. d.renders \in Renders /\ d.rendersPartial \in Renders /\ d.cleaned \in Edits \cup {NoFile}
  BY <1>2 DEF Directory
<1>4. NoFile \in Renders /\ <<>> \in Renders
  BY EmptyDirectory DEF Renders
<1>5. UNCHANGED tasks => TasksStay
  BY DEF TasksStay
<1>6. CASE RenderStarts(w) \/ RenderPublishes(w)
  <2>1. /\ \E x \in Directory : Writes(w, x)
        /\ \E s \in {"load", "clear", "publish", "done"} : GoesOn(w, s)
    <3>1. CASE RenderStarts(w)
      BY <3>1, <1>2, <1>4, EntryReplaced DEF RenderStarts
    <3>2. CASE \E left \in Remains(d.renders) :
                 Clears(w, left) /\ Writes(w, [d EXCEPT !.renders = left])
      BY <3>2, <1>2, <1>3, OneRenderLess, EntryReplaced DEF Clears
    <3>3. CASE /\ Writes(w, [d EXCEPT !.renders = d.rendersPartial, !.rendersPartial = NoFile])
               /\ GoesOn(w, "done")
      BY <3>3, <1>2, <1>3, <1>4, EntryReplaced
    <3> QED
      BY <1>6, <3>1, <3>2, <3>3 DEF RenderPublishes
  <2>2. files' \in [Places -> Directory] /\ UNCHANGED <<jobs, tasks, backgrounds, backups>>
    BY <1>1, <2>1, WriteKeepsTypes
  <2>3. run' \in [WorkerIds -> Run] /\ \A v \in WorkerIds : RunOK(run[v])'
    BY <1>1, <1>5, <2>1, <2>2, RunGoesOn
  <2> QED
    BY <2>2, <2>3 DEF DiskOK
<1>7. CASE RenderLoads(w)
  <2> DEFINE r == [run[w] EXCEPT !.step = "make", !.left = Views, !.edit = d.cleaned]
  <2>1. UNCHANGED <<jobs, tasks, disk>> /\ run' = [run EXCEPT ![w] = r] /\ d.cleaned \in Edits
    BY <1>3, <1>7 DEF RenderLoads, AssetThere
  <2>2. r \in Run /\ r.edit \in Edits /\ r.task = run[w].task
    BY <2>1 DEF DiskOK, Run
  <2>3. r.task \in DOMAIN tasks'
    BY <1>1, <2>1, <2>2 DEF DiskOK, RunOK
  <2>4. run' \in [WorkerIds -> Run] /\ \A v \in WorkerIds : RunOK(run[v])'
    BY <1>5, <2>1, <2>2, <2>3, RunMoves
  <2> QED
    BY <2>1, <2>4 DEF DiskOK, disk
<1>8. CASE \E v \in Views : RenderMakes(w, v)
  <2>1. PICK v \in Views : RenderMakes(w, v)
    BY <1>8
  <2>2. run[w].edit \in Edits
    BY <2>1 DEF RenderMakes, At, TypeOf, DiskOK, RunOK
  <2>3. With(d.rendersPartial, v, run[w].edit) \in Renders
    BY <1>3, <2>1, <2>2, OneMoreRender DEF RenderMakes
  <2>4. \E x \in Directory : Writes(w, x)
    BY <1>2, <2>1, <2>3, EntryReplaced DEF RenderMakes
  <2>5. files' \in [Places -> Directory] /\ UNCHANGED <<jobs, tasks, backgrounds, backups>>
    BY <1>1, <2>4, WriteKeepsTypes
  <2>6. run' \in [WorkerIds -> Run] /\ \A u \in WorkerIds : RunOK(run[u])'
    BY <1>1, <1>5, <2>1, <2>5, RunMakes DEF RenderMakes, At
  <2> QED
    BY <2>5, <2>6 DEF DiskOK
<1> QED
  BY <1>6, <1>7, <1>8

LEMMA DatasetKeepsDisk ==
  ASSUME Inv, DiskOK, NEW w \in WorkerIds,
         \/ DatasetStarts(w) \/ DatasetPublishes(w) \/ DatasetArchives(w)
         \/ \E v \in Views : DatasetMakes(w, v)
  PROVE  DiskOK'
<1> DEFINE d == FilesOf(w)
<1>1. run[w].task # NoTask
  BY DEF DatasetStarts, DatasetMakes, DatasetPublishes, DatasetArchives, At
<1>2. d \in Directory /\ PlaceOf(w) \in Places
  BY <1>1, FoundDirectory
<1>3. /\ d.renders \in Renders /\ d.dataset \in Dataset \cup {ColmapData}
      /\ d.datasetPartial \in Dataset /\ d.zipPartial \in Dataset
  BY <1>2 DEF Directory
<1>4. NoFile \in Dataset /\ <<>> \in Dataset
  BY EmptyDirectory DEF Dataset
<1>5. UNCHANGED tasks => TasksStay
  BY DEF TasksStay
<1>6. CASE DatasetPublishes(w) \/ DatasetArchives(w)
  <2>1. /\ \E x \in Directory : Writes(w, x)
        /\ \E s \in {"clear", "publish", "archive", "fill", "replace", "done"} : GoesOn(w, s)
    <3>1. CASE \E left \in Remains(d.dataset) :
                 Clears(w, left) /\ Writes(w, [d EXCEPT !.dataset = left])
      BY <3>1, <1>2, <1>3, OneSampleLess, EntryReplaced DEF Clears
    <3>2. CASE /\ Writes(w, [d EXCEPT !.dataset = d.datasetPartial, !.datasetPartial = NoFile])
               /\ GoesOn(w, "archive")
      BY <3>2, <1>2, <1>3, <1>4, EntryReplaced
    <3>3. CASE DatasetArchives(w)
      BY <3>3, <1>2, <1>3, <1>4, EntryReplaced DEF DatasetArchives, Opened
    <3> QED
      BY <1>6, <3>1, <3>2, <3>3 DEF DatasetPublishes
  <2>2. files' \in [Places -> Directory] /\ UNCHANGED <<jobs, tasks, backgrounds, backups>>
    BY <1>1, <2>1, WriteKeepsTypes
  <2>3. run' \in [WorkerIds -> Run] /\ \A v \in WorkerIds : RunOK(run[v])'
    BY <1>1, <1>5, <2>1, <2>2, RunGoesOn
  <2> QED
    BY <2>2, <2>3 DEF DiskOK
<1>7. CASE DatasetStarts(w)
  <2> DEFINE r == [run[w] EXCEPT !.step = "make", !.left = Listed(w)]
  <2>1. /\ run' = [run EXCEPT ![w] = r] /\ \E x \in Directory : Writes(w, x)
        /\ d.renders # NoFile /\ TypeOf(w) = "DATASET"
    BY <1>2, <1>4, <1>7, EntryReplaced DEF DatasetStarts, At
  <2>2. Listed(w) \in SUBSET Views
    BY <1>3, <2>1 DEF Listed, Renders
  <2>3. r \in Run /\ r.task = run[w].task
    BY <2>2 DEF DiskOK, Run
  <2>4. files' \in [Places -> Directory] /\ UNCHANGED <<jobs, tasks, backgrounds, backups>>
    BY <1>1, <2>1, WriteKeepsTypes
  <2>5. r.task \in DOMAIN tasks' /\ tasks'[r.task].type # "RENDER"
    BY <1>1, <2>1, <2>3, <2>4 DEF DiskOK, RunOK, TypeOf
  <2>6. run' \in [WorkerIds -> Run] /\ \A v \in WorkerIds : RunOK(run[v])'
    BY <1>5, <2>1, <2>3, <2>4, <2>5, RunMoves
  <2> QED
    BY <2>4, <2>6 DEF DiskOK
<1>8. CASE \E v \in Views : DatasetMakes(w, v)
  <2> DEFINE b == backgrounds[tasks[run[w].task].job]
  <2>1. PICK v \in Views : DatasetMakes(w, v)
    BY <1>8
  <2>2. d.renders # NoFile /\ v \in DOMAIN d.renders /\ b # NoFile /\ d.datasetPartial # NoFile
    BY <2>1 DEF DatasetMakes, Listed
  <2>3. d.renders[v] \in Edits
    BY <1>3, <2>2 DEF Renders
  <2>4. b \in Backgrounds
    BY <1>2, <2>2 DEF DiskOK, PlaceOf, Places
  <2>5. [edit |-> d.renders[v], background |-> b] \in Sample
    BY <2>3, <2>4 DEF Sample
  <2>6. With(d.datasetPartial, v, [edit |-> d.renders[v], background |-> b]) \in Dataset
    BY <1>3, <2>2, <2>5, OneMoreSample
  <2>7. \E x \in Directory : Writes(w, x)
    BY <1>2, <2>1, <2>6, EntryReplaced DEF DatasetMakes
  <2>8. files' \in [Places -> Directory] /\ UNCHANGED <<jobs, tasks, backgrounds, backups>>
    BY <1>1, <2>7, WriteKeepsTypes
  <2>9. run' \in [WorkerIds -> Run] /\ \A u \in WorkerIds : RunOK(run[u])'
    BY <1>1, <1>5, <2>1, <2>8, RunMakes DEF DatasetMakes, At
  <2> QED
    BY <2>8, <2>9 DEF DiskOK
<1> QED
  BY <1>6, <1>7, <1>8

----------------------------------------------------------------------------
(* The other steps. *)

\* A call of a worker, or the end of its run.
LEMMA CallKeepsDisk ==
  ASSUME Inv, DiskOK, TasksStay, NEW w \in WorkerIds,
         Poll(w) \/ Renew(w) \/ Finish(w) \/ Stop(w) \/ Vanish(w)
  PROVE  DiskOK'
<1>1. UNCHANGED disk
  BY DEF Poll, Renew, Finish, Stop, Vanish, disk
<1>2. run' \in [WorkerIds -> Run] /\ \A v \in WorkerIds : RunOK(run[v])'
  <2>1. CASE UNCHANGED run
    BY <2>1, RunsStay
  <2>2. CASE run' = [run EXCEPT ![w] = NoRun]
    BY <2>2, RunEnds
  <2>3. CASE \E t \in Delivered : run' = [run EXCEPT ![w] = NewRun(t)]
    <3>1. PICK t \in Delivered : run' = [run EXCEPT ![w] = NewRun(t)]
      BY <2>3
    <3>2. t \in DOMAIN tasks /\ t \in DOMAIN tasks' /\ t \in TaskIds
      BY <3>1 DEF Delivered, TasksStay, Inv, IInv
    <3>3. NewRun(t) \in Run /\ NewRun(t).task = t /\ NewRun(t).step = "start"
      BY <3>2 DEF NewRun, NoRun, Run
    <3> QED
      BY <3>1, <3>2, <3>3, RunMoves
  <2> QED
    BY <2>1, <2>2, <2>3 DEF Poll, Renew, Finish, Stop, Vanish
<1> QED
  BY <1>1, <1>2 DEF DiskOK, disk

\* A directory in which one entry was changed is a directory, wherever it is.
LEMMA EntryWritten ==
  ASSUME DiskOK, NEW p
  PROVE  /\ \A e \in Edits \cup {NoFile} : [files EXCEPT ![p].cleaned = e] \in [Places -> Directory]
         /\ [files EXCEPT ![p].retained = @ \cup {"splat"}] \in [Places -> Directory]
<1>1. CASE p \in Places
  <2>1. files[p] \in Directory /\ files[p].retained \cup {"splat"} \in SUBSET Retained
    BY <1>1 DEF DiskOK, Directory, Retained
  <2>2. /\ \A e \in Edits \cup {NoFile} : [files[p] EXCEPT !.cleaned = e] \in Directory
        /\ [files[p] EXCEPT !.retained = files[p].retained \cup {"splat"}] \in Directory
    BY <2>1, EntryReplaced
  <2> QED
    BY <2>2 DEF DiskOK
<1>2. CASE p \notin Places
  BY <1>2 DEF DiskOK
<1> QED
  BY <1>1, <1>2

LEMMA AppKeepsDisk == ASSUME Inv, DiskOK, TasksStay, AppNext PROVE DiskOK'
<1>1. ASSUME UNCHANGED run PROVE run' \in [WorkerIds -> Run] /\ \A v \in WorkerIds : RunOK(run[v])'
  BY <1>1, RunsStay
<1>2. CASE \E j \in JobIds, e \in Edits : SaveEdit(j, e)
  <2>1. PICK j \in JobIds, e \in Edits : SaveEdit(j, e)
    BY <1>2
  <2>2. /\ files' = [files EXCEPT ![<<j, jobs[j].active>>].cleaned = e]
        /\ UNCHANGED <<backgrounds, backups, run>>
    BY <2>1 DEF SaveEdit
  <2>3. files' \in [Places -> Directory]
    BY <2>2, EntryWritten
  <2> QED
    BY <1>1, <2>2, <2>3 DEF DiskOK
<1>3. CASE \E j \in JobIds, e \in Edits : SaveEditDies(j, e)
  <2>1. PICK j \in JobIds, e \in Edits : SaveEditDies(j, e)
    BY <1>3
  <2> DEFINE p == <<j, jobs[j].active>>
  <2>2. PICK now \in {e, NoFile} :
          /\ Interrupted(p, files[p].cleaned, e, now)
          /\ files' = [files EXCEPT ![p].cleaned = now]
    BY <2>1 DEF SaveEditDies
  <2>3. j \in DOMAIN jobs /\ HasActive(jobs[j]) /\ UNCHANGED <<backgrounds, run>>
    BY <2>1 DEF SaveEditDies
  <2>4. jobs[j].active \in Versions
    BY <2>3, ActiveType DEF Inv, JInv, JobOK
  <2>5. backups' \in SUBSET (JobIds \X (0 .. MaxVersions))
    BY <2>2, <2>4, QueueAssumption DEF Interrupted, DiskOK, Versions
  <2>6. files' \in [Places -> Directory]
    BY <2>2, EntryWritten
  <2> QED
    BY <1>1, <2>3, <2>5, <2>6 DEF DiskOK
<1>4. CASE \E j \in JobIds, b \in Backgrounds : SetBackgrounds(j, b)
  BY <1>1, <1>4 DEF SetBackgrounds, DiskOK
<1>5. CASE \E j \in JobIds, b \in Backgrounds : SetBackgroundsDies(j, b)
  <2>1. PICK j \in JobIds, b \in Backgrounds : SetBackgroundsDies(j, b)
    BY <1>5
  <2>2. PICK now \in {b, NoFile} :
          /\ Interrupted(<<j, 0>>, backgrounds[j], b, now)
          /\ backgrounds' = [backgrounds EXCEPT ![j] = now]
    BY <2>1 DEF SetBackgroundsDies
  <2>3. backups' \in SUBSET (JobIds \X (0 .. MaxVersions))
    BY <2>2, QueueAssumption DEF Interrupted, DiskOK
  <2> QED
    BY <1>1, <2>1, <2>2, <2>3 DEF SetBackgroundsDies, DiskOK
<1>6. CASE \E j \in JobIds : UploadPLY(j)
  <2>1. files' \in [Places -> Directory] /\ UNCHANGED <<backgrounds, backups, run>>
    BY <1>6, EntryWritten DEF UploadPLY
  <2> QED
    BY <1>1, <2>1 DEF DiskOK
<1>7. CASE UNCHANGED <<disk, run>>
  BY <1>1, <1>7 DEF DiskOK, disk
<1> QED
  BY <1>2, <1>3, <1>4, <1>5, <1>6, <1>7 DEF AppNext, OtherUserNext

LEMMA InitDiskOK == ArtifactsInit => DiskOK
<1> SUFFICES ASSUME ArtifactsInit PROVE DiskOK
  OBVIOUS
<1>1. NewDirectory \in Directory
  BY DEF NewDirectory, Directory, Renders, Dataset
<1>2. NoRun \in Run /\ NoRun.task = NoTask
  BY DEF NoRun, Run
<1> QED
  BY <1>1, <1>2 DEF ArtifactsInit, DiskOK, RunOK

LEMMA StepDiskOK == Inv /\ DiskOK /\ [ArtifactsNext]_artifacts => DiskOK'
<1> SUFFICES ASSUME Inv, DiskOK, [ArtifactsNext]_artifacts PROVE DiskOK'
  OBVIOUS
<1>1. TasksStay
  BY ArtifactsStepIsServiceStep, StepKeepsTasks
<1>2. CASE AppNext
  BY <1>1, <1>2, AppKeepsDisk
<1>3. ASSUME NEW w \in WorkerIds, FileStep(w) PROVE DiskOK'
  BY <1>3, ReconstructKeepsDisk, RenderKeepsDisk, DatasetKeepsDisk DEF FileStep
<1>4. CASE WorkersNext
  BY <1>1, <1>3, <1>4, CallKeepsDisk DEF WorkersNext
<1>5. CASE UNCHANGED artifacts
  BY <1>5 DEF artifacts, DiskOK, RunOK
<1> QED
  BY <1>2, <1>4, <1>5 DEF ArtifactsNext

\* Whoever dies in the middle of whatever, and whatever runs next to whatever,
\* directories, staging directories included, hold what they may hold: renders
\* of edits, samples of an edit and backgrounds, never something of another kind
\* (reconstruct.py, render.py, dataset.py, jobs/service.go).
THEOREM ArtifactsTypeCorrect == ArtifactsSpec => []ArtifactsTypeOK
<1> DEFINE HistoryOK == solo \in BOOLEAN /\ overtaken \in SUBSET Places
<1>1. ArtifactsInit => DiskOK /\ HistoryOK
  BY InitDiskOK DEF ArtifactsInit
<1>2. Inv /\ DiskOK /\ [ArtifactsNext]_artifacts => DiskOK'
  BY StepDiskOK
<1>3. Inv /\ DiskOK /\ HistoryOK /\ [ArtifactsNext]_artifacts => HistoryOK'
  <2> SUFFICES ASSUME Inv, DiskOK, HistoryOK, [ArtifactsNext]_artifacts PROVE HistoryOK'
    OBVIOUS
  <2>1. SamplesMade \in SUBSET Places
    BY FoundDirectory DEF SamplesMade, At
  <2>2. solo' \in BOOLEAN
    BY Zenon DEF ArtifactsNext, History, artifacts
  <2>3. overtaken' \in SUBSET Places
    BY <2>1 DEF ArtifactsNext, History, artifacts
  <2> QED
    BY <2>2, <2>3
<1>4. Inv /\ DiskOK /\ HistoryOK => ArtifactsTypeOK
  BY JobInvariantImplies DEF DiskOK, ArtifactsTypeOK
<1> QED
  BY <1>1, <1>2, <1>3, <1>4, ArtifactsServiceInvariant, PTL DEF ArtifactsSpec

----------------------------------------------------------------------------
(* What is in the directories.  The invariant says, for each place, what may *)
(* be in it when the job accepts its renders or offers its dataset, and, for *)
(* each run, what it has built in which staging directory: SoloInv.  It is   *)
(* about a job that one worker at a time works for; all that other tasks can *)
(* do to that job is then said by ClaimsFollow and Alone.                    *)

Accepted(p)     == p[1] \in DOMAIN jobs /\ HasRenders(jobs[p[1]], p[2])
Offered(p)      == p[1] \in DOMAIN jobs /\ HasDataset(jobs[p[1]], p[2])
Awaits(p, type) == p[1] \in DOMAIN jobs /\ WorksFor(jobs[p[1]], tasks, p[2], type)
Made(p, type)   == p[1] \in DOMAIN jobs /\ Earned(jobs[p[1]], tasks, p[2], type)

Latest(p)       == LastRenderSucceeded(p[1], p[2])

\* A directory with x for each view in S, and for every view.
Filled(S, x) == [v \in S |-> x]
Whole(x)     == Filled(Views, x)

\* What is rendered, or what a removal left of it, shows the edited asset.
ShowsEdit(p) ==
  p \notin backups =>
    /\ files[p].cleaned \in Edits
    /\ files[p].renders = NoFile \/ \E S \in SUBSET Views : files[p].renders = Filled(S, files[p].cleaned)

RendersOK(p) ==
  /\ files[p].renders = NoFile \/ \E e \in Edits, S \in SUBSET Views : files[p].renders = Filled(S, e)
  /\ Latest(p) => \E e \in Edits : files[p].renders = Whole(e)
  /\ Accepted(p) \/ Made(p, "RENDER") => ShowsEdit(p)

ZipOK(p) ==
  \E s \in Sample, S \in (SUBSET Views) \ {{}} :
    /\ files[p].zip = Filled(S, s)
    /\ ~Faults /\ Latest(p) => S = Views
    /\ Accepted(p) /\ p \notin backups => s.edit = files[p].cleaned

DatasetOK(p) == Offered(p) \/ Made(p, "DATASET") => p \in overtaken \/ ZipOK(p)

\* While p is rendered again its latest render has not succeeded, and no dataset
\* of it is on offer or awaited.
Rerendering(p) ==
  \E t \in InHand(p[1]) : tasks[t].attempt = p[2] /\ tasks[t].type = "RENDER"

RerenderOK(p) ==
  Rerendering(p) => ~Latest(p) /\ (~Faults => ~Offered(p) /\ ~Awaits(p, "DATASET"))

\* Nobody is at a task that is not the job's newest.
Newest == \A j \in JobIds : \A t \in InHand(j), u \in DOMAIN tasks : tasks[u].job = j => u <= t

\* How far a render is; the asset cannot change under it as long as the job
\* accepts, or waits for, what it makes.
RenderRun(r, p) ==
  LET f == files[p] IN
  /\ r.step = "load" => f.rendersPartial = <<>>
  /\ r.step = "make" => r.left # {} /\ f.rendersPartial = Filled(Views \ r.left, r.edit)
  /\ r.step \in {"clear", "publish"} => f.rendersPartial = Whole(r.edit)
  /\ r.step = "publish" => f.renders = NoFile
  /\ r.step = "done" => f.renders = Whole(r.edit)
  /\ r.step \in {"make", "clear", "publish", "done"} =>
       /\ r.edit \in Edits
       /\ (Accepted(p) \/ Awaits(p, "RENDER")) /\ p \notin backups => r.edit = f.cleaned

\* How far a dataset is that is on offer, or that the job waits for; s is what
\* its samples are made of, S the views that it found.
Wanted(p) == Offered(p) \/ Awaits(p, "DATASET")

DatasetRun(r, p) ==
  r.step # "start" /\ p \notin overtaken /\ Wanted(p) =>
    \E s \in Sample, S \in (SUBSET Views) \ {{}} :
      LET f == files[p] IN
      /\ f.renders = Filled(S, s.edit)
      /\ Latest(p) => S = Views
      /\ r.step = "make" => /\ r.left # {} /\ r.left \subseteq S /\ s.background = backgrounds[p[1]]
                            /\ f.datasetPartial = Filled(S \ r.left, s)
      /\ r.step \in {"clear", "publish"} => f.datasetPartial = Filled(S, s)
      /\ r.step \in {"archive", "fill"} => f.dataset = Filled(S, s)
      /\ r.step = "replace" => f.zipPartial = Filled(S, s)
      /\ r.step = "done" => f.zip = Filled(S, s)

BuildsOK(w) ==
  run[w].task # NoTask =>
    /\ TypeOf(w) = "RENDER" => RenderRun(run[w], PlaceOf(w))
    /\ TypeOf(w) = "DATASET" => DatasetRun(run[w], PlaceOf(w))

SoloInv == /\ Alone /\ Newest
           /\ \A p \in Places : RendersOK(p) /\ DatasetOK(p) /\ RerenderOK(p)
           /\ \A w \in WorkerIds : BuildsOK(w)

FilesInv == Inv /\ DiskOK /\ AllCleared /\ (solo => SoloInv)

LEMMA FilledIsNoFile ==
  ASSUME NEW S \in SUBSET Views
  PROVE  /\ \A e \in Edits : Filled(S, e) # NoFile
         /\ \A s \in Sample : Filled(S, s) # NoFile
<1>1. ASSUME NEW e \in Edits PROVE Filled(S, e) # NoFile
  <2>1. Filled(S, e) \in [S -> Edits]
    BY DEF Filled
  <2> QED
    BY <2>1, ArtifactsAssumption
<1>2. ASSUME NEW s \in Sample PROVE Filled(S, s) # NoFile
  <2>1. Filled(S, s) \in [S -> [edit : Edits, background : Backgrounds]]
    BY DEF Filled, Sample
  <2> QED
    BY <2>1, ArtifactsAssumption
<1> QED
  BY <1>1, <1>2

\* A directory tells what is in it.
LEMMA FilledIsNoOther ==
  ASSUME NEW S, NEW T, NEW x, NEW y, Filled(S, x) = Filled(T, y)
  PROVE  S = T /\ (S # {} => x = y)
<1>1. S = T
  <2>1. DOMAIN Filled(S, x) = S /\ DOMAIN Filled(T, y) = T
    BY DEF Filled
  <2> QED
    BY <2>1
<1>2. ASSUME NEW v \in S PROVE x = y
  <2>1. Filled(S, x)[v] = x /\ Filled(T, y)[v] = y
    BY <1>1 DEF Filled
  <2> QED
    BY <2>1
<1> QED
  BY <1>1, <1>2

\* Renders that are there show one edit, and that is the saved one.
LEMMA FilledIsOfThisEdit ==
  ASSUME NEW s \in Sample, NEW S \in (SUBSET Views) \ {{}}, NEW R, NEW c, R = Filled(S, s.edit),
         R = NoFile \/ \E T \in SUBSET Views : R = Filled(T, c)
  PROVE  s.edit = c
<1>1. S \in SUBSET Views /\ S # {} /\ s.edit \in Edits
  BY DEF Sample
<1>2. R # NoFile
  BY <1>1, FilledIsNoFile
<1>3. PICK T \in SUBSET Views : Filled(S, s.edit) = Filled(T, c)
  BY <1>2
<1> QED
  BY <1>1, <1>3, FilledIsNoOther

\* What is left of a directory while it is removed.
LEMMA FilledRemains ==
  ASSUME NEW S, NEW x, NEW left \in Remains(Filled(S, x))
  PROVE  left = NoFile \/ \E T \in SUBSET S : left = Filled(T, x)
<1>1. CASE left = <<>>
  <2>1. <<>> = Filled({}, x)
    BY DEF Filled
  <2> QED
    BY <1>1, <2>1
<1>2. CASE \E v \in S : left = Without(Filled(S, x), v)
  <2>1. PICK v \in S : left = Without(Filled(S, x), v)
    BY <1>2
  <2>2. left = Filled(S \ {v}, x)
    BY <2>1 DEF Without, Filled
  <2> QED
    BY <2>2
<1>3. DOMAIN Filled(S, x) = S
  BY DEF Filled
<1> QED
  BY <1>1, <1>2, <1>3 DEF Remains

\* What a step of the service may make of a job's claims to a place.
LEMMA ClaimsFollow ==
  ASSUME Inv, AllCleared, [Next]_vars, NEW p \in Places
  PROVE  LET t == jobs[p[1]].current
             u == jobs'[p[1]].current IN
         /\ Accepted(p)' => Accepted(p) \/ (Awaits(p, "RENDER") /\ tasks'[t].state = "SUCCEEDED")
         /\ Offered(p)' => Offered(p) \/ (Awaits(p, "DATASET") /\ tasks'[t].state = "SUCCEEDED")
         /\ \A type : Awaits(p, type)' =>
              \/ Awaits(p, type) /\ u = t
              \/ u \in DOMAIN tasks' \ DOMAIN tasks /\ tasks'[u].job = p[1] /\ tasks'[u].state = "READY"
         /\ Awaits(p, "RENDER") => ~Offered(p) /\ ~Awaits(p, "DATASET")
<1> DEFINE j == p[1]
           n == p[2]
           t == jobs[j].current
           u == jobs'[j].current
<1>0. j \in JobIds /\ n \in Versions
  BY DEF Places
<1>1. JobsClaim /\ Inv' /\ QueueStep
  BY StepClaims, StepInv, ServiceQueueStep
<1>2. ASSUME NEW type, j \in DOMAIN jobs, Earned(jobs[j], tasks', n, type)
      PROVE  Awaits(p, type) /\ tasks'[t].state = "SUCCEEDED"
  <2>1. t # NoTask /\ t \in DOMAIN tasks
    BY <1>2 DEF Earned, WorksFor, Inv, JInv, Linked
  <2>2. t \in DOMAIN tasks' /\ tasks'[t].type = tasks[t].type /\ tasks'[t].attempt = tasks[t].attempt
    BY <1>1, <2>1, TaskFrame DEF QueueStep, Inv
  <2> QED
    BY <1>2, <2>1, <2>2 DEF Earned, WorksFor, Awaits
<1>3. CASE j \in DOMAIN jobs' /\ j \in DOMAIN jobs
  <2>1. JobClaims(jobs[j], jobs'[j], tasks')
    BY <1>1, <1>3 DEF JobsClaim
  <2>2. Accepted(p)' => Accepted(p) \/ (Awaits(p, "RENDER") /\ tasks'[t].state = "SUCCEEDED")
    BY <1>0, <1>2, <1>3, <2>1 DEF JobClaims, Accepted, HasRenders
  <2>3. Offered(p)' => Offered(p) \/ (Awaits(p, "DATASET") /\ tasks'[t].state = "SUCCEEDED")
    BY <1>0, <1>2, <1>3, <2>1 DEF JobClaims, Offered, HasDataset
  <2>4. ASSUME NEW type, Awaits(p, type)'
        PROVE  \/ Awaits(p, type) /\ u = t
               \/ u \in DOMAIN tasks' \ DOMAIN tasks /\ tasks'[u].job = j /\ tasks'[u].state = "READY"
    <3>1. u # NoTask /\ tasks'[u].type = type /\ tasks'[u].attempt = n
      BY <2>4 DEF Awaits, WorksFor
    <3>2. u \in DOMAIN tasks' /\ tasks'[u].job = j
      BY <1>1, <1>3, <3>1 DEF Inv, JInv, Linked
    <3>3. CASE u = t
      <4>1. t \in DOMAIN tasks
        BY <1>3, <3>1, <3>3 DEF Inv, JInv, Linked
      <4>2. tasks'[t].type = tasks[t].type /\ tasks'[t].attempt = tasks[t].attempt
        BY <1>1, <3>2, <3>3, <4>1, TaskFrame DEF QueueStep, Inv
      <4> QED
        BY <1>3, <3>1, <3>3, <4>2 DEF Awaits, WorksFor
    <3>4. CASE u # t
      BY <2>1, <3>1, <3>2, <3>4 DEF JobClaims
    <3> QED
      BY <3>3, <3>4
  <2> QED
    BY <1>3, <2>2, <2>3, <2>4 DEF Awaits, WorksFor, Offered, HasDataset, AllCleared, Cleared,
       Inv, JInv, Linked, HasActive, ActiveOf
<1>4. CASE j \notin DOMAIN jobs
  <2>1. j \in DOMAIN jobs' => jobs'[j] = NewJob
    BY <1>1, <1>4 DEF JobsClaim
  <2> QED
    BY <1>4, <2>1 DEF NewJob, Accepted, Offered, Awaits, HasRenders, HasDataset, WorksFor
<1>5. CASE j \in DOMAIN jobs /\ j \notin DOMAIN jobs'
  BY <1>3, <1>5 DEF Accepted, Offered, Awaits, WorksFor, HasDataset, AllCleared, Cleared,
     Inv, JInv, Linked, HasActive, ActiveOf
<1> QED
  BY <1>3, <1>4, <1>5

\* What a task works on stays.
LEMMA PlacesStay ==
  ASSUME Inv, DiskOK, [Next]_vars, NEW w \in WorkerIds, run'[w] = run[w], run[w].task # NoTask
  PROVE  /\ run[w].task \in DOMAIN tasks /\ run[w].task \in DOMAIN tasks'
         /\ PlaceOf(w) \in Places /\ PlaceOf(w)' = PlaceOf(w) /\ TypeOf(w)' = TypeOf(w)
<1>1. run[w].task \in DOMAIN tasks /\ PlaceOf(w) \in Places
  BY FoundDirectory DEF DiskOK, RunOK
<1>2. run[w].task \in DOMAIN tasks'
  BY <1>1, ServiceQueueStep DEF QueueStep
<1> QED
  BY <1>1, <1>2, ServiceQueueStep, TaskFrame DEF QueueStep, Inv, PlaceOf, TypeOf

\* The two things that a step may do to the edited asset of a place: nothing,
\* or something that is no longer the job's word.
EditKept(p) == \/ files'[p].cleaned = files[p].cleaned
               \/ ~Accepted(p)' /\ ~Awaits(p, "RENDER")'
               \/ p \in backups'

ExcusesStay(p) == (p \in backups => p \in backups') /\ (p \in overtaken => p \in overtaken')

LatestStays(p) == Latest(p)' => Latest(p)

\* A render has just been reported done at p: it is whole, nothing made of
\* earlier renders is wanted, and nobody is left at the job.
JustRendered(p) ==
  /\ \E e \in Edits : files[p].renders = Whole(e)
  /\ ~Faults => ~Offered(p) /\ ~Awaits(p, "DATASET")
  /\ InHand(p[1])' = {}

\* A place whose renders and archive stay as they are is in order, if what a
\* task has just made there is.
LEMMA PlaceKept ==
  ASSUME Inv, AllCleared, [Next]_vars, NEW p \in Places, RendersOK(p), DatasetOK(p),
         files'[p].renders = files[p].renders, files'[p].zip = files[p].zip,
         EditKept(p), ExcusesStay(p), LatestStays(p) \/ JustRendered(p),
         LET made == tasks'[jobs[p[1]].current].state = "SUCCEEDED" IN
         /\ Awaits(p, "RENDER") /\ made => Made(p, "RENDER") \/ ShowsEdit(p)
         /\ Awaits(p, "DATASET") /\ made => Made(p, "DATASET") \/ p \in overtaken \/ ZipOK(p)
  PROVE  RendersOK(p)' /\ DatasetOK(p)'
<1> DEFINE t == jobs[p[1]].current
           made == tasks'[t].state = "SUCCEEDED"
<1>1. /\ Accepted(p)' => Accepted(p) \/ (Awaits(p, "RENDER") /\ made)
      /\ Offered(p)' => Offered(p) \/ (Awaits(p, "DATASET") /\ made)
      /\ Awaits(p, "RENDER") => ~Offered(p) /\ ~Awaits(p, "DATASET")
  BY ClaimsFollow
<1>2. ASSUME NEW type, Made(p, type)' PROVE Awaits(p, type) /\ made /\ Awaits(p, type)'
  <2>1. Awaits(p, type)' /\ tasks'[jobs'[p[1]].current].state = "SUCCEEDED"
    BY <1>2 DEF Made, Earned, Awaits
  <2> QED
    BY <2>1, ClaimsFollow
<1>3. Accepted(p)' \/ Made(p, "RENDER")' => ShowsEdit(p)
  BY <1>1, <1>2 DEF RendersOK
<1>4. RendersOK(p)'
  <2>1. ASSUME Accepted(p)' \/ Made(p, "RENDER")' PROVE ShowsEdit(p)'
    BY <1>2, <1>3, <2>1 DEF ShowsEdit, EditKept, ExcusesStay
  <2>2. Latest(p)' => \E e \in Edits : files[p].renders = Whole(e)
    BY DEF RendersOK, LatestStays, JustRendered
  <2>3. files[p].renders = NoFile \/ \E e \in Edits, S \in SUBSET Views : files[p].renders = Filled(S, e)
    BY DEF RendersOK
  <2> QED
    BY <2>1, <2>2, <2>3 DEF RendersOK
<1>5. ASSUME Offered(p)' \/ Made(p, "DATASET")', p \notin overtaken' PROVE ZipOK(p)'
  <2>1. (Offered(p) \/ (Awaits(p, "DATASET") /\ made)) /\ p \notin overtaken
    BY <1>1, <1>2, <1>5 DEF ExcusesStay
  <2>2. PICK s \in Sample, S \in (SUBSET Views) \ {{}} :
          /\ files[p].zip = Filled(S, s)
          /\ ~Faults /\ Latest(p) => S = Views
          /\ Accepted(p) /\ p \notin backups => s.edit = files[p].cleaned
    <3>1. ZipOK(p)
      BY <2>1 DEF DatasetOK
    <3> QED
      BY <3>1 DEF ZipOK
  <2>3. Accepted(p)' => Accepted(p)
    BY <1>1, <2>1
  <2>4. ~Faults /\ Latest(p)' => S = Views
    BY <2>1, <2>2 DEF LatestStays, JustRendered
  <2>5. Accepted(p)' /\ p \notin backups' => s.edit = files'[p].cleaned
    BY <1>5, <2>1, <2>2, <2>3 DEF EditKept, ExcusesStay
  <2> QED
    BY <2>2, <2>4, <2>5 DEF ZipOK
<1> QED
  BY <1>4, <1>5 DEF DatasetOK

\* A run that stays where it is, with its files.
SameBuild(p) ==
  /\ files'[p].renders = files[p].renders /\ files'[p].rendersPartial = files[p].rendersPartial
  /\ files'[p].dataset = files[p].dataset /\ files'[p].datasetPartial = files[p].datasetPartial
  /\ files'[p].zip = files[p].zip         /\ files'[p].zipPartial = files[p].zipPartial

LEMMA RenderRunKept ==
  ASSUME NEW p, NEW r, RenderRun(r, p), EditKept(p), ExcusesStay(p), SameBuild(p),
         (Accepted(p) \/ Awaits(p, "RENDER"))' => Accepted(p) \/ Awaits(p, "RENDER")
  PROVE  RenderRun(r, p)'
BY DEF RenderRun, EditKept, ExcusesStay, SameBuild

LEMMA DatasetRunKept ==
  ASSUME NEW p, NEW r, DatasetRun(r, p), ExcusesStay(p), SameBuild(p), Wanted(p)' => Wanted(p),
         LatestStays(p),
         r.step = "make" /\ p \notin overtaken' /\ Wanted(p)' => backgrounds'[p[1]] = backgrounds[p[1]]
  PROVE  DatasetRun(r, p)'
<1>1. CASE r.step = "start" \/ p \in overtaken' \/ ~Wanted(p)'
  BY <1>1 DEF DatasetRun
<1>2. CASE r.step # "start" /\ p \notin overtaken' /\ Wanted(p)'
  <2>1. p \notin overtaken /\ Wanted(p)
    BY <1>2 DEF ExcusesStay
  <2>2. PICK s \in Sample, S \in (SUBSET Views) \ {{}} :
          LET f == files[p] IN
          /\ f.renders = Filled(S, s.edit)
          /\ Latest(p) => S = Views
          /\ r.step = "make" => /\ r.left # {} /\ r.left \subseteq S /\ s.background = backgrounds[p[1]]
                                /\ f.datasetPartial = Filled(S \ r.left, s)
          /\ r.step \in {"clear", "publish"} => f.datasetPartial = Filled(S, s)
          /\ r.step \in {"archive", "fill"} => f.dataset = Filled(S, s)
          /\ r.step = "replace" => f.zipPartial = Filled(S, s)
          /\ r.step = "done" => f.zip = Filled(S, s)
    BY <1>2, <2>1 DEF DatasetRun
  <2>3. LET f == files'[p] IN
        /\ f.renders = Filled(S, s.edit)
        /\ Latest(p)' => S = Views
        /\ r.step = "make" => /\ r.left # {} /\ r.left \subseteq S /\ s.background = backgrounds'[p[1]]
                              /\ f.datasetPartial = Filled(S \ r.left, s)
        /\ r.step \in {"clear", "publish"} => f.datasetPartial = Filled(S, s)
        /\ r.step \in {"archive", "fill"} => f.dataset = Filled(S, s)
        /\ r.step = "replace" => f.zipPartial = Filled(S, s)
        /\ r.step = "done" => f.zip = Filled(S, s)
    BY <1>2, <2>2 DEF SameBuild, LatestStays
  <2> QED
    BY <2>3 DEF DatasetRun
<1> QED
  BY <1>1, <1>2

\* A task that a step creates is the newest of all.
LEMMA NewTaskIsNewest ==
  ASSUME Inv, [Next]_vars, NEW t \in DOMAIN tasks' \ DOMAIN tasks
  PROVE  tasks'[t].state = "READY" /\ \A u \in DOMAIN tasks' : u <= t
<1>1. UserNext
  <2>1. CASE TimerNext
    BY <2>1 DEF TimerNext, ReconcileUpTo, TimePasses, LeaseExpires
  <2> QED
    BY <2>1, WorkerKeepsTaskFiles DEF Next, vars
<1>2. PICK s \in TaskIds, j \in JobIds : \E n, type : Create(s, j, n, type)
  <2>1. \/ UNCHANGED tasks
        \/ \E s \in TaskIds, j \in JobIds : \E n, type : Create(s, j, n, type)
        \/ \E j \in JobIds : \E stopped : CancelByJob(j, stopped)
    BY <1>1, Zenon DEF UserNext, CreateJob, AddVideo, AddExistingPLY, ActivateAttempt, SaveCleaned,
         StartRender, SetBackgroundDir, StartDataset, Cancel
  <2> QED
    BY <2>1 DEF CancelByJob
<1>3. Fresh(s) /\ DOMAIN tasks' = DOMAIN tasks \cup {s}
  BY <1>2 DEF Create
<1>4. t = s /\ tasks'[t].state = "READY"
  BY <1>2, <1>3, NewTaskIsReady
<1>5. DOMAIN tasks \subseteq TaskIds /\ TaskIds \subseteq Nat
  BY QueueAssumption DEF Inv, IInv, TaskIds
<1>6. ASSUME NEW u \in DOMAIN tasks PROVE u <= s
  <2>1. u < s /\ u \in Nat /\ s \in Nat
    BY <1>3, <1>5 DEF Fresh
  <2> QED
    BY <2>1
<1>7. s <= s
  BY <1>5
<1> QED
  BY <1>3, <1>4, <1>6, <1>7

\* No other task can be started at a job that a run works for.
LEMMA NothingElseAwaits ==
  ASSUME Inv, DiskOK, AllCleared, [Next]_vars, Alone', NEW w \in WorkerIds, run[w].task # NoTask,
         run'[w] = run[w], NEW p \in Places, p = PlaceOf(w), NEW type, Awaits(p, type)'
  PROVE  Awaits(p, type)
<1>1. run[w].task \in DOMAIN tasks /\ run[w].task \in DOMAIN tasks' /\ p = PlaceOf(w)'
  BY PlacesStay
<1> DEFINE u == jobs'[p[1]].current
<1>2. SUFFICES ASSUME u \in DOMAIN tasks' \ DOMAIN tasks, tasks'[u].job = p[1], tasks'[u].state = "READY"
               PROVE  FALSE
  BY ClaimsFollow
<1>3. p[1] \in JobIds
  BY DEF Places
<1>4. u \in InHand(p[1])'
  BY <1>2 DEF InHand, Over, Terminal
<1>5. run[w].task \in InHand(p[1])'
  BY <1>1 DEF InHand, PlaceOf
<1>6. u = run[w].task
  BY <1>3, <1>4, <1>5 DEF Alone
<1> QED
  BY <1>1, <1>2, <1>6

LEMMA BuildKept ==
  ASSUME Inv, DiskOK, AllCleared, [Next]_vars, Alone', NEW w \in WorkerIds, run[w].task # NoTask,
         BuildsOK(w), run'[w] = run[w], NEW p \in Places, p = PlaceOf(w),
         EditKept(p), ExcusesStay(p), SameBuild(p), LatestStays(p),
         At(w, "DATASET", "make") /\ p \notin overtaken' /\ Wanted(p)' =>
           backgrounds'[p[1]] = backgrounds[p[1]]
  PROVE  BuildsOK(w)'
<1>1. p = PlaceOf(w)' /\ TypeOf(w)' = TypeOf(w)
  BY PlacesStay
<1>2. ASSUME NEW r, r = run[w] PROVE /\ TypeOf(w) = "RENDER" => RenderRun(r, p)'
                                     /\ TypeOf(w) = "DATASET" => DatasetRun(r, p)'
  <2>1. ASSUME TypeOf(w) = "RENDER" PROVE RenderRun(r, p)'
    <3>1. RenderRun(r, p)
      BY <1>2, <2>1 DEF BuildsOK
    <3>2. (Accepted(p) \/ Awaits(p, "RENDER"))' => Accepted(p) \/ Awaits(p, "RENDER")
      BY ClaimsFollow, NothingElseAwaits
    <3> QED
      BY <3>1, <3>2, RenderRunKept
  <2>2. ASSUME TypeOf(w) = "DATASET" PROVE DatasetRun(r, p)'
    <3>1. DatasetRun(r, p)
      BY <1>2, <2>2 DEF BuildsOK
    <3>2. r.step = "make" /\ p \notin overtaken' /\ Wanted(p)' => backgrounds'[p[1]] = backgrounds[p[1]]
      BY <1>2, <2>2 DEF At
    <3>3. Wanted(p)' => Wanted(p)
      BY ClaimsFollow, NothingElseAwaits DEF Wanted
    <3> QED
      BY <3>1, <3>2, <3>3, DatasetRunKept
  <2> QED
    BY <2>1, <2>2
<1>3. PICK r : r = run[w]
  OBVIOUS
<1> QED
  BY <1>1, <1>2, <1>3 DEF BuildsOK

----------------------------------------------------------------------------
(* Steps that leave renders, datasets and archives as they are: those of the *)
(* app, and the calls of the workers.                                        *)

NoneSucceedsBut(S) ==
  \A t \in DOMAIN tasks \ S : tasks'[t].state = "SUCCEEDED" => tasks[t].state = "SUCCEEDED"

LEMMA AppReportsNone == ASSUME Inv, AppNext PROVE NoneSucceedsBut({})
<1>1. CASE UNCHANGED tasks
  BY <1>1 DEF NoneSucceedsBut
<1>2. CASE \E t \in TaskIds, j \in JobIds : \E n, type : Create(t, j, n, type)
  <2>1. PICK t \in TaskIds, j \in JobIds : \E n, type : Create(t, j, n, type)
    BY <1>2
  <2>2. t \notin DOMAIN tasks
    BY <2>1, QueueAssumption DEF Create, Fresh, TaskIds
  <2> QED
    BY <2>1, <2>2 DEF Create, NoneSucceedsBut
<1>3. CASE \E j \in JobIds : \E stopped : CancelByJob(j, stopped)
  <2>1. PICK j, stopped : CancelByJob(j, stopped)
    BY <1>3
  <2>2. ASSUME NEW t \in DOMAIN tasks, tasks'[t].state = "SUCCEEDED" PROVE tasks[t].state = "SUCCEEDED"
    <3>1. tasks'[t] = tasks[t] \/ tasks'[t] = StoppedTask(t)
      BY <2>1 DEF CancelByJob
    <3>2. tasks[t] \in Task
      BY DEF Inv, IInv, RowOK
    <3> QED
      BY <2>2, <3>1, <3>2 DEF StoppedTask, Task
  <2> QED
    BY <2>2 DEF NoneSucceedsBut
<1>4. CASE TimePasses
  <2>1. PICK u \in TaskIds : u \in DOMAIN tasks /\ tasks' = [tasks EXCEPT ![u].lease = "expired"]
    BY <1>4 DEF TimePasses, LeaseExpires
  <2>2. \A t \in DOMAIN tasks : tasks'[t] \in {tasks[t], [tasks[t] EXCEPT !.lease = "expired"]}
    BY <2>1
  <2>3. \A t \in DOMAIN tasks : tasks[t] \in Task
    BY DEF Inv, IInv, RowOK
  <2> QED
    BY <2>2, <2>3 DEF NoneSucceedsBut, Task
<1>5. \/ UNCHANGED tasks
      \/ \E t \in TaskIds, j \in JobIds : \E n, type : Create(t, j, n, type)
      \/ \E j \in JobIds : \E stopped : CancelByJob(j, stopped)
      \/ TimePasses
  BY Zenon DEF AppNext, SaveEdit, SaveEditDies, SetBackgrounds, SetBackgroundsDies, UploadPLY,
       OtherUserNext, TimerNext, ReconcileUpTo, CreateJob, AddVideo, AddExistingPLY,
       ActivateAttempt, SaveCleaned, StartRender, SetBackgroundDir, StartDataset, Cancel
<1> QED
  BY <1>1, <1>2, <1>3, <1>4, <1>5

LEMMA CallReportsOne ==
  ASSUME Inv, NEW w \in WorkerIds, Poll(w) \/ Renew(w) \/ Finish(w) \/ Stop(w) \/ Vanish(w)
  PROVE  NoneSucceedsBut({run[w].task}) /\ (~Finish(w) => NoneSucceedsBut({}))
<1>0. \A t \in DOMAIN tasks : tasks[t] \in Task
  BY DEF Inv, IInv, RowOK
<1>1. CASE Poll(w)
  <2>1. PICK lost \in SUBSET Swept :
          (\E t \in TaskIds : ClaimDelivers(t, w, lost)) \/ tasks' = AfterSweep(lost)
    BY <1>1 DEF Poll, ClaimTask, ClaimFindsNone, ClaimAborts
  <2>2. ASSUME NEW t \in DOMAIN tasks
        PROVE  tasks'[t] \in {tasks[t], SweptTask(t), ClaimedTask(t, w)}
    BY <2>1 DEF ClaimDelivers, AfterSweep
  <2>3. ASSUME NEW t \in DOMAIN tasks, tasks'[t].state = "SUCCEEDED" PROVE tasks[t].state = "SUCCEEDED"
    BY <1>0, <2>2, <2>3 DEF SweptTask, ClaimedTask, Task
  <2> QED
    BY <2>3 DEF NoneSucceedsBut
<1>2. CASE Renew(w)
  BY <1>0, <1>2 DEF Renew, TaskHeartbeat, Heartbeat, NoneSucceedsBut, Task
<1>3. CASE Finish(w)
  BY <1>0, <1>3 DEF Finish, CompleteTask, Complete, NoneSucceedsBut
<1>4. CASE Stop(w)
  <2>1. PICK o \in {"FAILED", "CANCELLED"} : tasks' = [tasks EXCEPT ![run[w].task] = Finished(run[w].task, o)]
    BY <1>4 DEF Stop, FailTask, Fail, CancelTask, AcknowledgeCancel
  <2>2. \A t \in DOMAIN tasks : Finished(t, o).state = o
    BY <1>0 DEF Finished, Task
  <2> QED
    BY <2>1, <2>2 DEF NoneSucceedsBut
<1>5. CASE Vanish(w)
  BY <1>5 DEF Vanish, NoneSucceedsBut
<1>6. NoneSucceedsBut({}) => NoneSucceedsBut({run[w].task})
  BY DEF NoneSucceedsBut
<1> QED
  BY <1>1, <1>2, <1>3, <1>4, <1>5, <1>6 DEF NoneSucceedsBut

\* What a task has just made at p is in order.
Delivers(p) ==
  tasks'[jobs[p[1]].current].state = "SUCCEEDED" =>
    /\ Awaits(p, "RENDER") => Made(p, "RENDER") \/ ShowsEdit(p)
    /\ Awaits(p, "DATASET") => Made(p, "DATASET") \/ p \in overtaken \/ ZipOK(p)

LEMMA NoneDelivered ==
  ASSUME Inv, NoneSucceedsBut({}), NEW p \in Places
  PROVE  Delivers(p)
<1> DEFINE t == jobs[p[1]].current
<1>1. ASSUME NEW type, Awaits(p, type), tasks'[t].state = "SUCCEEDED" PROVE Made(p, type)
  <2>1. t \in DOMAIN tasks
    BY <1>1 DEF Awaits, WorksFor, Inv, JInv, Linked
  <2> QED
    BY <1>1, <2>1 DEF NoneSucceedsBut, Awaits, Made, Earned
<1> QED
  BY <1>1 DEF Delivers

\* The worker at a task that is just reported done has made it.
LEMMA FinishDelivers ==
  ASSUME Inv, DiskOK, SoloInv, NEW w \in WorkerIds, Finish(w), NEW p \in Places
  PROVE  Delivers(p)
<1> DEFINE t == jobs[p[1]].current
<1>1. run[w].step = "done" /\ NoneSucceedsBut({run[w].task}) /\ run[w].task # NoTask
  <2>1. run[w].task \in TaskIds
    BY DEF Finish, CompleteTask, Complete, Inv, IInv
  <2>2. run[w].task # NoTask
    BY <2>1, QueueAssumption DEF TaskIds, NoTask
  <2> QED
    BY <2>2, CallReportsOne DEF Finish
<1>2. ASSUME NEW type, Awaits(p, type), tasks'[t].state = "SUCCEEDED", ~Made(p, type)
      PROVE  p = PlaceOf(w) /\ type = TypeOf(w)
  <2>1. t \in DOMAIN tasks /\ tasks[t].job = p[1] /\ tasks[t].attempt = p[2] /\ tasks[t].type = type
    BY <1>2 DEF Awaits, WorksFor, Inv, JInv, Linked
  <2>2. tasks[t].state # "SUCCEEDED"
    BY <1>2 DEF Awaits, Made, Earned
  <2>3. t = run[w].task
    BY <1>1, <1>2, <2>1, <2>2 DEF NoneSucceedsBut
  <2> QED
    BY <2>1, <2>3 DEF PlaceOf, TypeOf, Places
<1>3. PICK r : r = run[w]
  OBVIOUS
<1>4. ASSUME Awaits(p, "RENDER"), tasks'[t].state = "SUCCEEDED", ~Made(p, "RENDER") PROVE ShowsEdit(p)
  <2>1. RenderRun(r, p)
    BY <1>1, <1>2, <1>3, <1>4 DEF SoloInv, BuildsOK
  <2>2. p \notin backups => files[p].cleaned \in Edits /\ files[p].renders = Filled(Views, files[p].cleaned)
    BY <1>1, <1>3, <1>4, <2>1 DEF RenderRun, Whole
  <2>3. Views \in SUBSET Views
    OBVIOUS
  <2> QED
    BY <2>2, <2>3 DEF ShowsEdit
<1>5. ASSUME Awaits(p, "DATASET"), tasks'[t].state = "SUCCEEDED", ~Made(p, "DATASET"), p \notin overtaken
      PROVE  ZipOK(p)
  <2>1. DatasetRun(r, p)
    BY <1>1, <1>2, <1>3, <1>5 DEF SoloInv, BuildsOK
  <2>2. PICK s \in Sample, S \in (SUBSET Views) \ {{}} :
          /\ files[p].renders = Filled(S, s.edit) /\ files[p].zip = Filled(S, s)
          /\ Latest(p) => S = Views
    BY <1>1, <1>3, <1>5, <2>1 DEF DatasetRun, Wanted
  <2>3. ASSUME Accepted(p), p \notin backups PROVE s.edit = files[p].cleaned
    <3>1. \/ files[p].renders = NoFile
          \/ \E T \in SUBSET Views : files[p].renders = Filled(T, files[p].cleaned)
      BY <2>3 DEF SoloInv, RendersOK, ShowsEdit
    <3> QED
      BY <2>2, <3>1, FilledIsOfThisEdit
  <2> QED
    BY <2>2, <2>3 DEF ZipOK
<1> QED
  BY <1>4, <1>5 DEF Delivers

\* The latest render is the same, unless it is the one that is reported done.
LEMMA LatestFollows ==
  ASSUME Inv, [Next]_vars, NEW S, NoneSucceedsBut(S), NEW p \in Places, Latest(p)'
  PROVE  \/ Latest(p)
         \/ \E t \in S : /\ t \in DOMAIN tasks /\ tasks'[t].state = "SUCCEEDED"
                        /\ tasks[t].job = p[1] /\ tasks[t].attempt = p[2] /\ tasks[t].type = "RENDER"
<1> DEFINE Here(u) == tasks[u].job = p[1] /\ tasks[u].attempt = p[2] /\ tasks[u].type = "RENDER"
<1>1. PICK t \in DOMAIN tasks' :
        /\ tasks'[t].job = p[1] /\ tasks'[t].attempt = p[2] /\ tasks'[t].type = "RENDER"
        /\ tasks'[t].state = "SUCCEEDED"
        /\ \A u \in DOMAIN tasks' :
             tasks'[u].job = p[1] /\ tasks'[u].attempt = p[2] /\ tasks'[u].type = "RENDER" => u <= t
  BY DEF Latest, LastRenderSucceeded
<1>2. \A u \in DOMAIN tasks : /\ u \in DOMAIN tasks'
                              /\ tasks'[u].job = tasks[u].job /\ tasks'[u].attempt = tasks[u].attempt
                              /\ tasks'[u].type = tasks[u].type
  BY ServiceQueueStep, TaskFrame DEF QueueStep, Inv
<1>3. t \in DOMAIN tasks
  BY <1>1, NewTaskIsNewest
<1>4. CASE t \in S
  BY <1>1, <1>2, <1>3, <1>4
<1>5. CASE t \notin S
  <2>1. tasks[t].state = "SUCCEEDED"
    BY <1>1, <1>3, <1>5 DEF NoneSucceedsBut
  <2>2. Here(t) /\ \A u \in DOMAIN tasks : Here(u) => u <= t
    BY <1>1, <1>2, <1>3
  <2> QED
    BY <1>3, <2>1, <2>2 DEF Latest, LastRenderSucceeded
<1> QED
  BY <1>4, <1>5

\* The worker at a render rerenders its place.
LEMMA RunRerenders ==
  ASSUME Inv, DiskOK, NEW w \in WorkerIds, run[w].task # NoTask
  PROVE  /\ run[w].task \in InHand(PlaceOf(w)[1])
         /\ TypeOf(w) = "RENDER" => Rerendering(PlaceOf(w))
<1>1. run[w].task \in DOMAIN tasks
  BY DEF DiskOK, RunOK
<1>2. PlaceOf(w)[1] = tasks[run[w].task].job /\ PlaceOf(w)[2] = tasks[run[w].task].attempt
  BY DEF PlaceOf
<1>3. run[w].task \in InHand(PlaceOf(w)[1])
  BY <1>1, <1>2 DEF InHand
<1> QED
  BY <1>2, <1>3 DEF Rerendering, TypeOf

LEMMA FinishRenders ==
  ASSUME Inv, DiskOK, SoloInv, [Next]_vars, NEW w \in WorkerIds, Finish(w), NEW p \in Places
  PROVE  LatestStays(p) \/ JustRendered(p)
<1> DEFINE t == run[w].task
<1>1. /\ run[w].step = "done" /\ NoneSucceedsBut({t}) /\ t # NoTask
      /\ run' = [run EXCEPT ![w] = NoRun]
  <2>1. t \in TaskIds
    BY DEF Finish, CompleteTask, Complete, Inv, IInv
  <2>2. t # NoTask
    BY <2>1, NoTaskIsNoTask
  <2> QED
    BY <2>2, CallReportsOne DEF Finish
<1>2. SUFFICES ASSUME /\ t \in DOMAIN tasks /\ tasks'[t].state = "SUCCEEDED"
                      /\ tasks[t].job = p[1] /\ tasks[t].attempt = p[2] /\ tasks[t].type = "RENDER"
               PROVE  JustRendered(p)
  BY <1>1, LatestFollows DEF LatestStays
<1>3. p = PlaceOf(w) /\ TypeOf(w) = "RENDER"
  BY <1>2 DEF PlaceOf, TypeOf, Places
<1>4. \E e \in Edits : files[p].renders = Whole(e)
  <2>1. PICK r : r = run[w]
    OBVIOUS
  <2>2. RenderRun(r, p)
    BY <1>1, <1>3, <2>1 DEF SoloInv, BuildsOK
  <2> QED
    BY <1>1, <2>1, <2>2 DEF RenderRun
<1>5. ~Faults => ~Offered(p) /\ ~Awaits(p, "DATASET")
  BY <1>1, <1>3, RunRerenders DEF SoloInv, RerenderOK
<1>6. InHand(p[1])' = {}
  <2> SUFFICES ASSUME NEW u \in InHand(p[1])' PROVE FALSE
    OBVIOUS
  <2>1. DOMAIN tasks' = DOMAIN tasks
    BY DEF Finish, CompleteTask, Complete
  <2>2. u \in DOMAIN tasks /\ tasks[u].job = p[1] /\ (Over(u) => Over(u)')
    BY <2>1, ServiceQueueStep, TaskFrame DEF QueueStep, Inv, InHand, Over
  <2>3. run'[w].task = NoTask /\ \A v \in WorkerIds \ {w} : run'[v] = run[v]
    BY <1>1 DEF DiskOK, NoRun
  <2>4. u # NoTask
    BY <2>2, NoTaskIsNoTask DEF Inv, IInv
  <2>5. u \in InHand(p[1])
    BY <2>2, <2>3, <2>4 DEF InHand
  <2>6. u = t
    BY <1>1, <1>3, <2>5, RunRerenders DEF SoloInv, Alone, Places
  <2>7. Over(u)'
    BY <1>2, <2>6 DEF Over, Terminal
  <2>8. PICK v \in WorkerIds : run'[v].task = u
    BY <2>7 DEF InHand
  <2> QED
    BY <1>1, <2>3, <2>4, <2>6, <2>8 DEF SoloInv, Alone
<1> QED
  BY <1>4, <1>5, <1>6 DEF JustRendered

\* A run that a step leaves, ends or begins.
RunStays(w) == \/ run'[w] = run[w] \/ run'[w].task = NoTask
               \/ run'[w].step = "start" /\ run'[w].task \in DOMAIN tasks /\ ~Over(run'[w].task)

\* Nobody takes up a task that was over and let go of.
LEMMA InHandFollows ==
  ASSUME Inv, [Next]_vars, \A w \in WorkerIds : RunStays(w),
         NEW j, NEW t \in InHand(j)', t \in DOMAIN tasks
  PROVE  t \in InHand(j) /\ tasks'[t].attempt = tasks[t].attempt /\ tasks'[t].type = tasks[t].type
<1>1. /\ tasks'[t].job = tasks[t].job /\ tasks'[t].attempt = tasks[t].attempt
      /\ tasks'[t].type = tasks[t].type /\ (Over(t) => Over(t)')
  BY ServiceQueueStep, TaskFrame DEF QueueStep, Inv, InHand, Over
<1>2. t # NoTask
  BY NoTaskIsNoTask DEF Inv, IInv
<1>3. ~Over(t) \/ \E w \in WorkerIds : run[w].task = t
  BY <1>1, <1>2 DEF InHand, RunStays
<1> QED
  BY <1>1, <1>3 DEF InHand

LEMMA NewestKept ==
  ASSUME Inv, [Next]_vars, Newest, Alone', \A w \in WorkerIds : RunStays(w)
  PROVE  Newest'
<1> SUFFICES ASSUME NEW j \in JobIds, NEW t \in InHand(j)', NEW u \in DOMAIN tasks', tasks'[u].job = j
             PROVE  u <= t
  BY DEF Newest
<1>1. t \in DOMAIN tasks'
  BY DEF InHand
<1>2. CASE t \notin DOMAIN tasks
  BY <1>1, <1>2, NewTaskIsNewest
<1>3. CASE t \in DOMAIN tasks /\ u \in DOMAIN tasks
  <2>1. tasks[u].job = j
    BY <1>3, ServiceQueueStep, TaskFrame DEF QueueStep, Inv
  <2> QED
    BY <1>3, <2>1, InHandFollows DEF Newest
<1>4. CASE t \in DOMAIN tasks /\ u \notin DOMAIN tasks
  <2>1. u \in InHand(j)'
    BY <1>4, NewTaskIsNewest DEF InHand, Over, Terminal
  <2>2. t = u
    BY <2>1 DEF Alone
  <2> QED
    BY <1>4, <2>2
<1> QED
  BY <1>2, <1>3, <1>4

LEMMA RerenderKept ==
  ASSUME Inv, AllCleared, [Next]_vars, Alone', \A w \in WorkerIds : RunStays(w),
         NEW p \in Places, RerenderOK(p), LatestStays(p) \/ JustRendered(p)
  PROVE  RerenderOK(p)'
<1> SUFFICES ASSUME NEW t \in InHand(p[1])', tasks'[t].attempt = p[2], tasks'[t].type = "RENDER"
             PROVE  ~Latest(p)' /\ (~Faults => ~Offered(p)' /\ ~Awaits(p, "DATASET")')
  BY DEF RerenderOK, Rerendering
<1>1. LatestStays(p)
  BY DEF JustRendered
<1>2. t \in DOMAIN tasks' /\ tasks'[t].job = p[1] /\ p[1] \in JobIds
  BY DEF InHand, Places
<1>3. CASE t \in DOMAIN tasks
  <2>1. Rerendering(p)
    BY <1>3, InHandFollows DEF Rerendering
  <2>2. ~Latest(p) /\ (~Faults => ~Offered(p) /\ ~Awaits(p, "DATASET"))
    BY <2>1 DEF RerenderOK
  <2>3. ASSUME ~Faults, Awaits(p, "DATASET")' PROVE FALSE
    <3>1. PICK u : u \in DOMAIN tasks' \ DOMAIN tasks /\ tasks'[u].job = p[1] /\ tasks'[u].state = "READY"
      BY <2>2, <2>3, ClaimsFollow
    <3>2. u \in InHand(p[1])'
      BY <3>1 DEF InHand, Over, Terminal
    <3> QED
      BY <1>2, <1>3, <3>1, <3>2 DEF Alone
  <2>4. ~Faults => ~Offered(p)'
    BY <2>2, ClaimsFollow
  <2> QED
    BY <1>1, <2>2, <2>3, <2>4 DEF LatestStays
<1>4. CASE t \notin DOMAIN tasks
  <2>1. tasks'[t].state = "READY" /\ \A u \in DOMAIN tasks' : u <= t
    BY <1>2, <1>4, NewTaskIsNewest
  <2>2. ~Latest(p)'
    <3> SUFFICES ASSUME Latest(p)' PROVE FALSE
      OBVIOUS
    <3>1. PICK r \in DOMAIN tasks' : tasks'[r].state = "SUCCEEDED" /\ t <= r
      BY <1>2 DEF Latest, LastRenderSucceeded
    <3>2. r = t
      <4>1. r \in Nat /\ t \in Nat
        BY <1>2, StepInv, QueueAssumption DEF Inv, IInv, TaskIds
      <4> QED
        BY <2>1, <3>1, <4>1
    <3> QED
      BY <2>1, <3>1, <3>2
  <2>3. ASSUME ~Faults PROVE ~Offered(p)' /\ ~Awaits(p, "DATASET")'
    <3>1. p[1] \in DOMAIN jobs' /\ jobs'[p[1]].current = t
      BY <1>2, <1>4, <2>3, StepMoves DEF OursIfNew
    <3>2. Inv' /\ AllCleared' /\ t # NoTask
      BY <1>2, StepInv, StepClaims, NoTaskIsNoTask DEF Inv, IInv
    <3>3. ActiveOf(jobs'[p[1]]).datasetZip = NoPath /\ jobs'[p[1]].active = p[2]
      BY <3>1, <3>2 DEF AllCleared, Cleared, Inv, JInv, Linked
    <3> QED
      BY <3>1, <3>3 DEF Offered, HasDataset, Awaits, WorksFor, ActiveOf
  <2> QED
    BY <2>2, <2>3
<1> QED
  BY <1>3, <1>4

\* Such a step keeps all places and runs in order, if it changes at most the
\* edited asset of a place that does not show it.
LEMMA FilesStay ==
  ASSUME Inv, DiskOK, AllCleared, [Next]_vars, SoloInv, Alone', History,
         \A p \in Places : Delivers(p) /\ SameBuild(p) /\ EditKept(p) /\ (p \in backups => p \in backups'),
         \A p \in Places : LatestStays(p) \/ JustRendered(p),
         \A p \in Places : backgrounds'[p[1]] = backgrounds[p[1]] \/ ~Awaits(p, "DATASET")',
         \A w \in WorkerIds : RunStays(w)
  PROVE  SoloInv'
<1>1. ASSUME NEW p \in Places PROVE ExcusesStay(p)
  BY DEF ExcusesStay, History
<1>2. ASSUME NEW p \in Places PROVE RendersOK(p)' /\ DatasetOK(p)' /\ RerenderOK(p)'
  <2>1. RendersOK(p) /\ DatasetOK(p) /\ RerenderOK(p)
    BY DEF SoloInv
  <2>2. files'[p].renders = files[p].renders /\ files'[p].zip = files[p].zip
    BY DEF SameBuild
  <2>3. RendersOK(p)' /\ DatasetOK(p)'
    BY <1>1, <2>1, <2>2, PlaceKept DEF Delivers
  <2> QED
    BY <2>1, <2>3, RerenderKept
<1>3. ASSUME NEW w \in WorkerIds PROVE BuildsOK(w)'
  <2>1. CASE run'[w] = run[w] /\ run[w].task # NoTask
    <3>1. PICK p \in Places : p = PlaceOf(w)
      BY <2>1, PlacesStay
    <3>2. At(w, "DATASET", "make") /\ p \notin overtaken' /\ Wanted(p)' =>
            backgrounds'[p[1]] = backgrounds[p[1]]
      BY <3>1 DEF History, SamplesMade, Wanted, Offered
    <3>3. BuildsOK(w) /\ EditKept(p) /\ ExcusesStay(p) /\ SameBuild(p)
      BY <1>1 DEF SoloInv
    <3>4. LatestStays(p)
      <4>1. run[w].task \in DOMAIN tasks' /\ tasks'[run[w].task].job = p[1]
        BY <2>1, <3>1, PlacesStay DEF PlaceOf
      <4>2. InHand(p[1])' # {}
        BY <2>1, <4>1 DEF InHand
      <4> QED
        BY <4>2 DEF JustRendered
    <3> QED
      BY <2>1, <3>1, <3>2, <3>3, <3>4, BuildKept
  <2>2. CASE run'[w].task = NoTask
    BY <2>2 DEF BuildsOK
  <2>3. CASE run'[w].step = "start"
    BY <2>3 DEF BuildsOK, RenderRun, DatasetRun
  <2> QED
    BY <2>1, <2>2, <2>3 DEF RunStays
<1>4. Newest'
  BY NewestKept DEF SoloInv
<1> QED
  BY <1>2, <1>3, <1>4 DEF SoloInv

\* A step that moves no file.
LEMMA NothingMoves ==
  ASSUME Inv, DiskOK, AllCleared, [Next]_vars, SoloInv, Alone', History,
         UNCHANGED disk, \A p \in Places : Delivers(p) /\ (LatestStays(p) \/ JustRendered(p)),
         \A w \in WorkerIds : RunStays(w)
  PROVE  SoloInv'
<1>1. UNCHANGED <<files, backgrounds, backups>>
  BY DEF disk
<1>2. \A p \in Places : SameBuild(p) /\ EditKept(p)
  BY <1>1 DEF SameBuild, EditKept
<1> QED
  BY <1>1, <1>2, FilesStay

\* What is delivered was not over.
LEMMA DeliveredIsNotOver ==
  ASSUME Inv, [Next]_vars, NEW t \in Delivered
  PROVE  t \in DOMAIN tasks /\ ~Over(t)
<1>1. t \in DOMAIN tasks /\ t \in DOMAIN tasks' /\ tasks'[t].count # tasks[t].count
  BY ServiceQueueStep DEF Delivered, QueueStep
<1>2. QueueNext
  BY <1>1, ServiceQueueStep DEF QueueStep
<1>3. RowNext(t) /\ tasks[t] \in Task
  BY <1>1, <1>2, EveryStepShape DEF StepShape, Inv, IInv, RowOK
<1>4. ~(t \in Swept /\ tasks'[t] = SweptTask(t))
  BY <1>1, <1>3 DEF SweptTask, Task
<1>5. ~(\E o \in Terminal : tasks'[t] = Finished(t, o)) /\ tasks'[t] # StoppedTask(t)
  BY <1>1, <1>3 DEF Finished, StoppedTask, Task
<1>6. OldestClaimable(t)
  BY <1>1, <1>3, <1>4, <1>5 DEF RowNext, Task
<1> QED
  BY <1>1, <1>3, <1>6 DEF OldestClaimable, Claimable, Expired, Over, Terminal

LEMMA CallKeepsFiles ==
  ASSUME Inv, DiskOK, AllCleared, SoloInv, Alone', History, NEW w \in WorkerIds,
         Poll(w) \/ Renew(w) \/ Finish(w) \/ Stop(w) \/ Vanish(w)
  PROVE  SoloInv'
<1>1. [Next]_vars /\ UNCHANGED disk
  BY WorkerIsServiceStep DEF Poll, Renew, Finish, Stop, Vanish
<1>2. \A p \in Places : Delivers(p) /\ (LatestStays(p) \/ JustRendered(p))
  <2> TAKE p \in Places
  <2>1. CASE Finish(w)
    BY <1>1, <2>1, FinishDelivers, FinishRenders
  <2>2. CASE ~Finish(w)
    <3>1. NoneSucceedsBut({})
      BY <2>2, CallReportsOne
    <3> QED
      BY <1>1, <3>1, NoneDelivered, LatestFollows DEF LatestStays
  <2> QED
    BY <2>1, <2>2
<1>3. ASSUME NEW v \in WorkerIds PROVE RunStays(v)
  <2>1. CASE UNCHANGED run
    BY <2>1 DEF RunStays
  <2>2. CASE run' = [run EXCEPT ![w] = NoRun]
    BY <2>2 DEF RunStays, DiskOK, NoRun
  <2>3. CASE \E t \in Delivered : run' = [run EXCEPT ![w] = NewRun(t)]
    <3>1. PICK t \in Delivered : run' = [run EXCEPT ![w] = NewRun(t)]
      BY <2>3
    <3>2. t \in DOMAIN tasks /\ ~Over(t)
      BY <1>1, <3>1, DeliveredIsNotOver
    <3>3. NewRun(t).task = t /\ NewRun(t).step = "start"
      BY DEF NewRun, NoRun
    <3> QED
      BY <3>1, <3>2, <3>3 DEF RunStays, DiskOK
  <2> QED
    BY <2>1, <2>2, <2>3 DEF Poll, Renew, Finish, Stop, Vanish
<1> QED
  BY <1>1, <1>2, <1>3, NothingMoves

\* One field of the directory at q is set, q being a place or not.
LEMMA CleanedWritten ==
  ASSUME DiskOK, NEW q, NEW e, files' = [files EXCEPT ![q].cleaned = e], NEW p \in Places
  PROVE  SameBuild(p) /\ (p # q => EditKept(p))
<1>1. files[p] \in Directory /\ p \in DOMAIN files
  BY DEF DiskOK
<1>2. files'[p] = IF p = q THEN [files[p] EXCEPT !.cleaned = e] ELSE files[p]
  BY <1>1
<1> QED
  BY <1>1, <1>2 DEF SameBuild, EditKept, Directory

LEMMA AppKeepsFiles ==
  ASSUME Inv, DiskOK, AllCleared, SoloInv, Alone', History, AppNext
  PROVE  SoloInv'
<1>1. [Next]_vars /\ \A p \in Places : Delivers(p) /\ LatestStays(p)
  BY AppIsServiceStep, AppReportsNone, NoneDelivered, LatestFollows DEF LatestStays
<1>2. ASSUME UNCHANGED run PROVE \A w \in WorkerIds : RunStays(w)
  BY <1>2 DEF RunStays
<1>3. ASSUME NEW j \in JobIds, NEW e \in Edits, SaveEdit(j, e) PROVE SoloInv'
  <2>1. PICK q : q = <<j, jobs[j].active>>
    OBVIOUS
  <2>2. /\ SaveCleaned(j) /\ files' = [files EXCEPT ![q].cleaned = e]
        /\ UNCHANGED <<backgrounds, backups, run>>
    BY <1>3, <2>1 DEF SaveEdit
  <2>3. ~Accepted(q)' /\ ~Awaits(q, "RENDER")'
    BY <1>1, <2>1, <2>2, SaveCleanedClaims, ServiceQueueStep DEF Accepted, Awaits, WorksFor
  <2>4. \A p \in Places : SameBuild(p) /\ EditKept(p)
    BY <2>2, <2>3, CleanedWritten DEF EditKept
  <2> QED
    BY <1>1, <1>2, <2>2, <2>4, FilesStay
<1>4. ASSUME NEW j \in JobIds, NEW e \in Edits, SaveEditDies(j, e) PROVE SoloInv'
  <2>1. PICK q : q = <<j, jobs[j].active>>
    OBVIOUS
  <2>2. PICK now \in {e, NoFile} :
          /\ Interrupted(q, files[q].cleaned, e, now)
          /\ files' = [files EXCEPT ![q].cleaned = now]
    BY <1>4, <2>1 DEF SaveEditDies
  <2>3. /\ j \in DOMAIN jobs /\ HasActive(jobs[j]) /\ Idle(jobs[j])
        /\ UNCHANGED <<jobs, tasks, backgrounds, run>>
    BY <1>4 DEF SaveEditDies
  <2>4. q \in Places
    BY <2>1, <2>3, ActiveType DEF Inv, JInv, JobOK, Places
  <2>5. backups \subseteq backups'
    BY <2>2 DEF Interrupted
  <2>6. EditKept(q)
    <3>1. CASE files[q].cleaned # NoFile
      BY <2>2, <3>1 DEF Interrupted, EditKept
    <3>2. CASE files[q].cleaned = NoFile /\ q \notin backups
      <4>1. ~Accepted(q)
        BY <2>4, <3>2, ArtifactsAssumption DEF SoloInv, RendersOK, ShowsEdit
      <4>2. ~Accepted(q)' /\ ~Awaits(q, "RENDER")'
        BY <2>1, <2>3, <4>1 DEF Accepted, Awaits, WorksFor, Idle
      <4> QED
        BY <4>2 DEF EditKept
    <3>3. CASE q \in backups
      BY <2>5, <3>3 DEF EditKept
    <3> QED
      BY <3>1, <3>2, <3>3
  <2>7. \A p \in Places : SameBuild(p) /\ EditKept(p)
    BY <2>2, <2>6, CleanedWritten
  <2> QED
    BY <1>1, <1>2, <2>3, <2>5, <2>7, FilesStay
<1>5. ASSUME NEW j \in JobIds, NEW b \in Backgrounds, SetBackgrounds(j, b) \/ SetBackgroundsDies(j, b)
      PROVE  SoloInv'
  <2>1. UNCHANGED <<files, run>> /\ backups \subseteq backups'
    BY <1>5 DEF SetBackgrounds, SetBackgroundsDies, Interrupted
  <2>2. \A p \in Places : SameBuild(p) /\ EditKept(p)
    BY <2>1 DEF SameBuild, EditKept
  <2>3. /\ ~(jobs[j].current # NoTask /\ jobs[j].state = "DATASET_BUILDING")
        /\ tasks' = tasks /\ \E now : backgrounds' = [backgrounds EXCEPT ![j] = now]
    BY <1>5 DEF SetBackgrounds, SetBackgroundDir, SetBackgroundsDies
  <2>4. ASSUME NEW p \in Places, backgrounds'[p[1]] # backgrounds[p[1]], Awaits(p, "DATASET")'
        PROVE  FALSE
    <3>1. p[1] = j
      BY <2>3, <2>4 DEF DiskOK, Places
    <3>2. Awaits(p, "DATASET")
      BY <1>1, <2>3, <2>4, ClaimsFollow
    <3>3. jobs[j].state = ProcessingStateOf("DATASET") /\ jobs[j].current # NoTask
      BY <3>1, <3>2 DEF Awaits, WorksFor, Inv, JInv, Linked
    <3> QED
      BY <2>3, <3>3 DEF ProcessingStateOf
  <2> QED
    BY <1>1, <1>2, <2>1, <2>2, <2>4, FilesStay
<1>6. ASSUME NEW j \in JobIds, UploadPLY(j) PROVE SoloInv'
  <2>1. PICK q : files' = [files EXCEPT ![q].retained = @ \cup {"splat"}]
    BY <1>6 DEF UploadPLY
  <2>2. UNCHANGED <<backgrounds, backups, run>>
    BY <1>6 DEF UploadPLY
  <2>3. \A p \in Places : SameBuild(p) /\ EditKept(p)
    <3> TAKE p \in Places
    <3>1. files[p] \in Directory /\ p \in DOMAIN files
      BY DEF DiskOK
    <3>2. files'[p] = files[p] \/ files'[p] = [files[p] EXCEPT !.retained = @ \cup {"splat"}]
      BY <2>1, <3>1
    <3> QED
      BY <3>1, <3>2 DEF SameBuild, EditKept, Directory
  <2> QED
    BY <1>1, <1>2, <2>2, <2>3, FilesStay
<1>7. ASSUME UNCHANGED <<disk, run>> PROVE SoloInv'
  BY <1>1, <1>2, <1>7, NothingMoves DEF disk
<1> QED
  BY <1>3, <1>4, <1>5, <1>6, <1>7 DEF AppNext, OtherUserNext

----------------------------------------------------------------------------
(* Steps of a worker over the files: what happens happens at the place of    *)
(* its task, where nobody else is.                                           *)

\* Another worker is at another job.
LEMMA OthersAreElsewhere ==
  ASSUME Inv, DiskOK, Alone, NEW v \in WorkerIds, NEW w \in WorkerIds, v # w,
         run[v].task # NoTask, run[w].task # NoTask
  PROVE  PlaceOf(v) # PlaceOf(w)
<1>1. run[v].task \in DOMAIN tasks /\ run[w].task \in DOMAIN tasks
  BY DEF DiskOK, RunOK
<1>2. SUFFICES ASSUME PlaceOf(v) = PlaceOf(w) PROVE FALSE
  OBVIOUS
<1> DEFINE j == tasks[run[w].task].job
<1>3. tasks[run[v].task].job = j /\ j \in JobIds
  BY <1>1, <1>2, FoundDirectory DEF PlaceOf, Places
<1>4. run[v].task \in InHand(j) /\ run[w].task \in InHand(j)
  BY <1>1, <1>3 DEF InHand
<1>5. run[v].task = run[w].task
  BY <1>3, <1>4 DEF Alone
<1> QED
  BY <1>5 DEF Alone

\* What a worker's step is: a directory written, the run moved on.
StepAt(w, q, d, r) ==
  /\ run[w].task # NoTask /\ q = PlaceOf(w) /\ r.task = run[w].task
  /\ files' = [files EXCEPT ![q] = d] /\ run' = [run EXCEPT ![w] = r]
  /\ UNCHANGED <<jobs, tasks, backgrounds, backups, overtaken>>

LEMMA PlaceSame ==
  ASSUME NEW p, UNCHANGED <<jobs, tasks, backups, overtaken>>, files'[p].cleaned = files[p].cleaned
  PROVE  /\ RendersOK(p) /\ files'[p].renders = files[p].renders => RendersOK(p)'
         /\ DatasetOK(p) /\ files'[p].zip = files[p].zip => DatasetOK(p)'
<1>1. /\ Accepted(p)' <=> Accepted(p)
      /\ Offered(p)' <=> Offered(p)
      /\ \A type : Made(p, type)' <=> Made(p, type)
      /\ Latest(p)' <=> Latest(p)
  BY DEF Accepted, Offered, Made, Latest, LastRenderSucceeded
<1>2. ASSUME RendersOK(p), files'[p].renders = files[p].renders PROVE RendersOK(p)'
  BY <1>1, <1>2 DEF RendersOK, ShowsEdit
<1>3. ASSUME DatasetOK(p), files'[p].zip = files[p].zip PROVE DatasetOK(p)'
  BY <1>1, <1>3 DEF DatasetOK, ZipOK
<1> QED
  BY <1>2, <1>3

LEMMA StepHere ==
  ASSUME Inv, DiskOK, SoloInv, NEW w \in WorkerIds, NEW q \in Places, NEW d, NEW r,
         StepAt(w, q, d, r), RendersOK(q)', DatasetOK(q)',
         TypeOf(w) = "RENDER" => RenderRun(r, q)',
         TypeOf(w) = "DATASET" => DatasetRun(r, q)'
  PROVE  SoloInv'
<1>1. /\ run'[w] = r /\ \A v \in WorkerIds : v # w => run'[v] = run[v]
      /\ \A v \in WorkerIds : run'[v].task = run[v].task
      /\ \A p \in Places : p # q => files'[p] = files[p]
      /\ UNCHANGED <<jobs, tasks, backgrounds, backups, overtaken>>
  BY DEF StepAt, DiskOK
<1>2. Alone' /\ Newest'
  <2>1. \A j : InHand(j)' = InHand(j)
    BY <1>1 DEF InHand, Over
  <2> QED
    BY <1>1, <2>1 DEF SoloInv, Alone, Newest
<1>3. ASSUME NEW p \in Places PROVE RendersOK(p)' /\ DatasetOK(p)' /\ RerenderOK(p)'
  <2>1. RendersOK(p)' /\ DatasetOK(p)'
    BY <1>1, PlaceSame DEF SoloInv
  <2>2. InHand(p[1])' = InHand(p[1])
    BY <1>1 DEF InHand, Over
  <2>3. (Latest(p)' <=> Latest(p)) /\ (Offered(p)' <=> Offered(p)) /\ (Awaits(p, "DATASET")' <=> Awaits(p, "DATASET"))
    BY <1>1 DEF Latest, LastRenderSucceeded, Offered, Awaits
  <2> QED
    BY <1>1, <2>1, <2>2, <2>3 DEF SoloInv, RerenderOK, Rerendering
<1>4. ASSUME NEW v \in WorkerIds PROVE BuildsOK(v)'
  <2>1. PlaceOf(v)' = PlaceOf(v) /\ TypeOf(v)' = TypeOf(v)
    BY <1>1 DEF PlaceOf, TypeOf
  <2>2. CASE v = w
    BY <1>1, <2>1, <2>2 DEF BuildsOK, StepAt
  <2>3. CASE v # w /\ run[v].task # NoTask
    <3>1. PICK p : p = PlaceOf(v)
      OBVIOUS
    <3>2. PICK s : s = run[v]
      OBVIOUS
    <3>3. p \in Places /\ p # q
      BY <2>3, <3>1, FoundDirectory, OthersAreElsewhere DEF SoloInv, StepAt
    <3>4. files'[p] = files[p] /\ run'[v] = s
      BY <1>1, <2>3, <3>2, <3>3
    <3>5. (Accepted(p)' <=> Accepted(p)) /\ (Awaits(p, "RENDER")' <=> Awaits(p, "RENDER"))
      BY <1>1 DEF Accepted, Awaits
    <3>6. RenderRun(s, p) => RenderRun(s, p)'
      BY <1>1, <3>4, <3>5 DEF RenderRun
    <3>7. DatasetRun(s, p) => DatasetRun(s, p)'
      <4>1. Wanted(p)' <=> Wanted(p)
        BY <1>1 DEF Wanted, Offered, Awaits
      <4> QED
        BY <1>1, <3>4, <4>1, DatasetRunKept DEF ExcusesStay, SameBuild, LatestStays, Latest, LastRenderSucceeded
    <3> QED
      BY <2>1, <2>3, <3>1, <3>2, <3>4, <3>6, <3>7 DEF SoloInv, BuildsOK
  <2>4. CASE v # w /\ run[v].task = NoTask
    BY <1>1, <2>4 DEF BuildsOK
  <2> QED
    BY <2>2, <2>3, <2>4
<1> QED
  BY <1>2, <1>3, <1>4 DEF SoloInv

\* A step over the files is one of those.
LEMMA WriteIsStepAt ==
  ASSUME Inv, DiskOK, History, NEW w \in WorkerIds, run[w].task # NoTask,
         NEW d, Writes(w, d), NEW r, r.task = run[w].task, run' = [run EXCEPT ![w] = r]
  PROVE  \E q \in Places : StepAt(w, q, d, r) /\ q = PlaceOf(w) /\ files'[q] = d
<1>1. overtaken' = overtaken
  BY DEF Writes, History
<1> QED
  BY <1>1, FoundDirectory DEF Writes, StepAt, DiskOK

\* A staging directory with no entry, and with one more.
LEMMA NoEntries == \A S, x : <<>> = Filled(S \ S, x)
BY DEF Filled

LEMMA OneMoreEntry ==
  ASSUME NEW S, NEW L \in SUBSET S, NEW v \in L, NEW x
  PROVE  /\ With(Filled(S \ L, x), v, x) = Filled(S \ (L \ {v}), x)
         /\ L = {v} => With(Filled(S \ L, x), v, x) = Filled(S, x)
<1>1. DOMAIN [u \in S \ L |-> x] \cup {v} = S \ (L \ {v})
  OBVIOUS
<1>2. With([u \in S \ L |-> x], v, x) = [u \in S \ (L \ {v}) |-> x]
  BY <1>1 DEF With
<1> QED
  BY <1>2 DEF Filled

LEMMA ReconstructKeepsFiles ==
  ASSUME Inv, DiskOK, SoloInv, History, NEW w \in WorkerIds,
         Reconstructs(w) \/ ReconstructPublishes(w)
  PROVE  SoloInv'
<1>1. /\ run[w].task # NoTask /\ TypeOf(w) = "RECONSTRUCT"
      /\ \E s \in {"clear", "publish", "drop", "training", "config", "done"} : GoesOn(w, s)
      /\ \E x, y : \/ Writes(w, [FilesOf(w) EXCEPT !.retained = x])
                   \/ Writes(w, [FilesOf(w) EXCEPT !.dataset = y])
  BY DEF Reconstructs, ReconstructPublishes, At, Clears
<1>2. PICK s : run' = [run EXCEPT ![w] = [run[w] EXCEPT !.step = s]]
  BY <1>1 DEF GoesOn
<1>3. PICK d : /\ Writes(w, d) /\ d.renders = FilesOf(w).renders
               /\ d.cleaned = FilesOf(w).cleaned /\ d.zip = FilesOf(w).zip
  BY <1>1, FoundDirectory DEF Directory
<1> DEFINE r == [run[w] EXCEPT !.step = s]
<1>4. r.task = run[w].task
  BY DEF DiskOK, Run
<1>5. PICK q \in Places : StepAt(w, q, d, r) /\ q = PlaceOf(w) /\ files'[q] = d
  BY <1>1, <1>2, <1>3, <1>4, WriteIsStepAt
<1>6. RendersOK(q)' /\ DatasetOK(q)'
  <2>1. /\ files'[q].cleaned = files[q].cleaned /\ files'[q].renders = files[q].renders
        /\ files'[q].zip = files[q].zip
    BY <1>3, <1>5 DEF FilesOf
  <2> QED
    BY <1>5, <2>1, PlaceSame DEF StepAt, SoloInv
<1> QED
  BY <1>1, <1>5, <1>6, StepHere

\* What is known of a worker that draws, before its step.
LEMMA RenderersPlace ==
  ASSUME DiskOK, SoloInv, NEW w \in WorkerIds, run[w].task # NoTask, NEW q \in Places, q = PlaceOf(w)
  PROVE  /\ FilesOf(w) = files[q] /\ files[q] \in Directory
         /\ run[w] \in Run /\ RendersOK(q) /\ DatasetOK(q)
         /\ \A r : r = run[w] => /\ TypeOf(w) = "RENDER" => RenderRun(r, q)
                                 /\ TypeOf(w) = "DATASET" => DatasetRun(r, q)
BY DEF SoloInv, BuildsOK, FilesOf, DiskOK

LEMMA RenderStartsKeepsFiles ==
  ASSUME Inv, DiskOK, SoloInv, History, NEW w \in WorkerIds, RenderStarts(w)
  PROVE  SoloInv'
<1> DEFINE r == [run[w] EXCEPT !.step = "load"]
           d == [FilesOf(w) EXCEPT !.rendersPartial = <<>>]
<1>1. run[w].task # NoTask /\ TypeOf(w) = "RENDER" /\ Writes(w, d) /\ run' = [run EXCEPT ![w] = r]
  BY DEF RenderStarts, At, GoesOn
<1>2. r.task = run[w].task /\ r.step = "load"
  BY DEF DiskOK, Run
<1>3. PICK q \in Places : StepAt(w, q, d, r) /\ q = PlaceOf(w) /\ files'[q] = d
  BY <1>1, <1>2, WriteIsStepAt
<1>4. /\ files'[q].cleaned = files[q].cleaned /\ files'[q].renders = files[q].renders
      /\ files'[q].zip = files[q].zip /\ files'[q].rendersPartial = <<>>
  BY <1>1, <1>3, RenderersPlace DEF Directory
<1>5. RendersOK(q)' /\ DatasetOK(q)'
  BY <1>1, <1>3, <1>4, RenderersPlace, PlaceSame DEF StepAt
<1>6. PICK x : x = r
  OBVIOUS
<1>7. RenderRun(x, q)'
  BY <1>2, <1>4, <1>6 DEF RenderRun
<1> QED
  BY <1>1, <1>3, <1>5, <1>6, <1>7, StepHere

LEMMA RenderLoadsKeepsFiles ==
  ASSUME Inv, DiskOK, SoloInv, History, NEW w \in WorkerIds, RenderLoads(w)
  PROVE  SoloInv'
<1> DEFINE e == FilesOf(w).cleaned
           d == FilesOf(w)
           r == [run[w] EXCEPT !.step = "make", !.left = Views, !.edit = e]
<1>1. /\ run[w].task # NoTask /\ TypeOf(w) = "RENDER" /\ run[w].step = "load"
      /\ e # NoFile /\ run' = [run EXCEPT ![w] = r] /\ UNCHANGED <<jobs, tasks, disk>>
  BY DEF RenderLoads, AssetThere, At
<1>2. /\ r.task = run[w].task /\ r.step = "make" /\ r.left = Views /\ r.edit = e
  BY DEF DiskOK, Run
<1>3. PICK q \in Places : q = PlaceOf(w)
  BY <1>1, FoundDirectory
<1>4. StepAt(w, q, d, r) /\ UNCHANGED <<files, overtaken>>
  BY <1>1, <1>2, <1>3 DEF StepAt, FilesOf, DiskOK, disk, History
<1>5. RendersOK(q)' /\ DatasetOK(q)'
  BY <1>1, <1>3, <1>4, RenderersPlace, PlaceSame DEF StepAt
<1>6. PICK x : x = r
  OBVIOUS
<1>7. RenderRun(x, q)'
  <2>0. PICK y : y = run[w]
    OBVIOUS
  <2>1. files[q].rendersPartial = <<>>
    <3>1. RenderRun(y, q)
      BY <1>1, <1>3, <2>0, RenderersPlace
    <3> QED
      BY <1>1, <2>0, <3>1 DEF RenderRun
  <2>2. e \in Edits /\ e = files[q].cleaned
    BY <1>1, <1>3, RenderersPlace DEF Directory
  <2>3. <<>> = Filled(Views \ x.left, x.edit) /\ x.left # {}
    BY <1>2, <1>6, NoEntries, ArtifactsAssumption
  <2> QED
    BY <1>2, <1>4, <1>6, <2>1, <2>2, <2>3 DEF RenderRun
<1> QED
  BY <1>1, <1>4, <1>5, <1>6, <1>7, StepHere

\* The step a run is at after it made a view.
LEMMA RunAfterView ==
  ASSUME DiskOK, NEW w \in WorkerIds, run[w].step = "make", NEW v \in run[w].left, Makes(w, v)
  PROVE  \E r : /\ run' = [run EXCEPT ![w] = r] /\ r.task = run[w].task /\ r.edit = run[w].edit
                /\ r.left = run[w].left \ {v} /\ run[w].left \in SUBSET Views
                /\ r.step \in {"make", "clear"}
                /\ r.step = "make" => r.left # {}
                /\ r.step = "clear" => run[w].left = {v}
<1> DEFINE s == IF run[w].left = {v} THEN "clear" ELSE run[w].step
           r == [run[w] EXCEPT !.left = @ \ {v}, !.step = s]
<1>1. run' = [run EXCEPT ![w] = r]
  BY DEF Makes
<1>2. /\ r.task = run[w].task /\ r.edit = run[w].edit /\ r.step = s
      /\ r.left = run[w].left \ {v} /\ run[w].left \in SUBSET Views
  BY DEF DiskOK, Run
<1>3. s = "make" => run[w].left \ {v} # {}
  OBVIOUS
<1> QED
  BY <1>1, <1>2, <1>3

LEMMA RenderMakesKeepsFiles ==
  ASSUME Inv, DiskOK, SoloInv, History, NEW w \in WorkerIds, NEW v \in Views, RenderMakes(w, v)
  PROVE  SoloInv'
<1> DEFINE e == run[w].edit
           d == [FilesOf(w) EXCEPT !.rendersPartial = With(@, v, e)]
<1>1. /\ run[w].task # NoTask /\ TypeOf(w) = "RENDER" /\ run[w].step = "make"
      /\ v \in run[w].left /\ Makes(w, v) /\ Writes(w, d)
  BY DEF RenderMakes, At
<1>2. PICK r : /\ run' = [run EXCEPT ![w] = r] /\ r.task = run[w].task /\ r.edit = e
               /\ r.left = run[w].left \ {v} /\ run[w].left \in SUBSET Views
               /\ r.step \in {"make", "clear"}
               /\ r.step = "make" => r.left # {}
               /\ r.step = "clear" => run[w].left = {v}
  BY <1>1, RunAfterView
<1>3. PICK q \in Places : StepAt(w, q, d, r) /\ q = PlaceOf(w) /\ files'[q] = d
  BY <1>1, <1>2, WriteIsStepAt
<1>4. /\ files'[q].cleaned = files[q].cleaned /\ files'[q].renders = files[q].renders
      /\ files'[q].zip = files[q].zip
      /\ files'[q].rendersPartial = With(files[q].rendersPartial, v, e)
  BY <1>1, <1>3, RenderersPlace DEF Directory
<1>5. RendersOK(q)' /\ DatasetOK(q)'
  BY <1>1, <1>3, <1>4, RenderersPlace, PlaceSame DEF StepAt
<1>6. RenderRun(r, q)'
  <2>1. PICK x : x = run[w]
    OBVIOUS
  <2>2. RenderRun(x, q)
    BY <1>1, <1>3, <2>1, RenderersPlace
  <2>3. /\ files[q].rendersPartial = Filled(Views \ run[w].left, e) /\ e \in Edits
        /\ (Accepted(q) \/ Awaits(q, "RENDER")) /\ q \notin backups => e = files[q].cleaned
    BY <1>1, <2>1, <2>2 DEF RenderRun
  <2>4. (Accepted(q)' <=> Accepted(q)) /\ (Awaits(q, "RENDER")' <=> Awaits(q, "RENDER"))
    BY <1>3 DEF StepAt, Accepted, Awaits
  <2>5. /\ files'[q].rendersPartial = Filled(Views \ r.left, r.edit)
        /\ r.step = "clear" => files'[q].rendersPartial = Whole(r.edit)
    BY <1>1, <1>2, <1>4, <2>3, OneMoreEntry DEF Whole
  <2> QED
    BY <1>2, <1>3, <1>4, <2>3, <2>4, <2>5 DEF RenderRun, StepAt
<1> QED
  BY <1>1, <1>3, <1>5, <1>6, StepHere

LEMMA RenderPublishesKeepsFiles ==
  ASSUME Inv, DiskOK, SoloInv, History, NEW w \in WorkerIds, RenderPublishes(w)
  PROVE  SoloInv'
<1>1. run[w].task # NoTask /\ TypeOf(w) = "RENDER" /\ run[w].step \in {"clear", "publish"}
  BY DEF RenderPublishes, At
<1>2. PICK d, s :
        /\ Writes(w, d) /\ GoesOn(w, s)
        /\ d.cleaned = FilesOf(w).cleaned /\ d.zip = FilesOf(w).zip
        /\ \/ /\ run[w].step = "clear" /\ d.renders \in Remains(FilesOf(w).renders)
              /\ s = IF d.renders = NoFile THEN "publish" ELSE "clear"
              /\ d.rendersPartial = FilesOf(w).rendersPartial
           \/ /\ run[w].step = "publish" /\ s = "done"
              /\ d.renders = FilesOf(w).rendersPartial
  <2> DEFINE f == FilesOf(w)
             rest(left) == [f EXCEPT !.renders = left]
             moved      == [f EXCEPT !.renders = f.rendersPartial, !.rendersPartial = NoFile]
  <2>1. /\ \A left : /\ rest(left).cleaned = f.cleaned /\ rest(left).zip = f.zip
                    /\ rest(left).renders = left /\ rest(left).rendersPartial = f.rendersPartial
        /\ moved.cleaned = f.cleaned /\ moved.zip = f.zip /\ moved.renders = f.rendersPartial
    BY <1>1, FoundDirectory DEF Directory
  <2>2. \/ /\ run[w].step = "clear"
           /\ \E left \in Remains(f.renders) :
                Writes(w, rest(left)) /\ GoesOn(w, IF left = NoFile THEN "publish" ELSE "clear")
        \/ run[w].step = "publish" /\ Writes(w, moved) /\ GoesOn(w, "done")
    BY DEF RenderPublishes, At, Clears
  <2> HIDE DEF f, rest, moved
  <2> QED
    BY <2>1, <2>2 DEF f
<1>3. PICK r : /\ run' = [run EXCEPT ![w] = r]
               /\ r.task = run[w].task /\ r.step = s /\ r.edit = run[w].edit
  <2>1. PICK r : r = [run[w] EXCEPT !.step = s]
    OBVIOUS
  <2>2. r.task = run[w].task /\ r.step = s /\ r.edit = run[w].edit
    BY <2>1 DEF DiskOK, Run
  <2> QED
    BY <1>2, <2>1, <2>2 DEF GoesOn
<1>4. PICK q \in Places : StepAt(w, q, d, r) /\ q = PlaceOf(w) /\ files'[q] = d
  BY <1>1, <1>2, <1>3, WriteIsStepAt
<1>5. PICK x : x = run[w]
  OBVIOUS
<1>6. RenderRun(x, q) /\ RendersOK(q) /\ DatasetOK(q) /\ FilesOf(w) = files[q]
  BY <1>1, <1>4, <1>5, RenderersPlace
<1>7. files'[q].cleaned = files[q].cleaned /\ files'[q].zip = files[q].zip
  BY <1>2, <1>4, <1>6
<1>8. /\ files[q].rendersPartial = Whole(x.edit) /\ x.edit \in Edits
      /\ (Accepted(q) \/ Awaits(q, "RENDER")) /\ q \notin backups => x.edit = files[q].cleaned
  BY <1>1, <1>5, <1>6 DEF RenderRun
<1>9. /\ Accepted(q)' <=> Accepted(q)
      /\ Awaits(q, "RENDER")' <=> Awaits(q, "RENDER")
      /\ Made(q, "RENDER")' <=> Made(q, "RENDER")
      /\ Made(q, "RENDER") => Awaits(q, "RENDER")
      /\ backups' = backups
  BY <1>4 DEF StepAt, Accepted, Awaits, Made, Earned
<1>10. DatasetOK(q)'
  BY <1>4, <1>6, <1>7, PlaceSame DEF StepAt
<1>11. CASE run[w].step = "clear"
  <2>1. /\ r.step \in {"clear", "publish"} /\ files'[q].rendersPartial = Whole(x.edit)
        /\ r.step = "publish" => files'[q].renders = NoFile
        /\ files'[q].renders \in Remains(files[q].renders)
    BY <1>2, <1>3, <1>4, <1>6, <1>8, <1>11
  <2>2. ASSUME NEW e, NEW S \in SUBSET Views, files[q].renders = Filled(S, e)
        PROVE  files'[q].renders = NoFile \/ \E T \in SUBSET Views : files'[q].renders = Filled(T, e)
    BY <2>1, <2>2, FilledRemains
  <2>3. files[q].renders = NoFile => files'[q].renders = NoFile
    BY <2>1 DEF Remains
  <2>4. ~Latest(q)'
    <3>1. ~Latest(q)
      BY <1>1, <1>4, RunRerenders DEF SoloInv, RerenderOK
    <3> QED
      BY <1>4, <3>1 DEF StepAt, Latest, LastRenderSucceeded
  <2>5. ShowsEdit(q) => ShowsEdit(q)'
    BY <1>7, <1>9, <2>2, <2>3 DEF ShowsEdit
  <2>6. \/ files'[q].renders = NoFile
        \/ \E e \in Edits, S \in SUBSET Views : files'[q].renders = Filled(S, e)
    BY <1>6, <2>2, <2>3 DEF RendersOK
  <2>7. RendersOK(q)'
    BY <1>6, <1>9, <2>4, <2>5, <2>6 DEF RendersOK
  <2>8. RenderRun(r, q)'
    BY <1>3, <1>5, <1>7, <1>8, <1>9, <2>1 DEF RenderRun
  <2> QED
    BY <1>1, <1>4, <1>10, <2>7, <2>8, StepHere
<1>12. CASE run[w].step = "publish"
  <2>1. r.step = "done" /\ files'[q].renders = Whole(x.edit)
    BY <1>2, <1>3, <1>4, <1>6, <1>8, <1>12
  <2>2. Views \in SUBSET Views /\ Whole(x.edit) = Filled(Views, x.edit)
    BY DEF Whole
  <2>3. ShowsEdit(q)' \/ ~(Accepted(q)' \/ Made(q, "RENDER")')
    BY <1>7, <1>8, <1>9, <2>1, <2>2 DEF ShowsEdit
  <2>4. RendersOK(q)'
    BY <1>8, <2>1, <2>2, <2>3 DEF RendersOK
  <2>5. RenderRun(r, q)'
    BY <1>3, <1>5, <1>7, <1>8, <1>9, <2>1 DEF RenderRun
  <2> QED
    BY <1>1, <1>4, <1>10, <2>4, <2>5, StepHere
<1> QED
  BY <1>1, <1>11, <1>12

LEMMA DatasetStartsKeepsFiles ==
  ASSUME Inv, DiskOK, SoloInv, History, NEW w \in WorkerIds, DatasetStarts(w)
  PROVE  SoloInv'
<1> DEFINE d == [FilesOf(w) EXCEPT !.datasetPartial = <<>>]
           r == [run[w] EXCEPT !.step = "make", !.left = Listed(w)]
           b == backgrounds[tasks[run[w].task].job]
<1>1. /\ run[w].task # NoTask /\ TypeOf(w) = "DATASET"
      /\ FilesOf(w).renders # NoFile /\ Listed(w) # {} /\ b # NoFile
      /\ run' = [run EXCEPT ![w] = r] /\ Writes(w, d)
  BY DEF DatasetStarts, At
<1>2. r.task = run[w].task /\ r.step = "make" /\ r.left = Listed(w)
  BY DEF DiskOK, Run
<1>3. PICK q \in Places : StepAt(w, q, d, r) /\ q = PlaceOf(w) /\ files'[q] = d
  BY <1>1, <1>2, WriteIsStepAt
<1>4. /\ files'[q].cleaned = files[q].cleaned /\ files'[q].renders = files[q].renders
      /\ files'[q].zip = files[q].zip /\ files'[q].datasetPartial = <<>>
  BY <1>1, <1>3, RenderersPlace DEF Directory
<1>5. RendersOK(q)' /\ DatasetOK(q)'
  BY <1>1, <1>3, <1>4, RenderersPlace, PlaceSame DEF StepAt
<1>6. PICK x : x = r
  OBVIOUS
<1>7. DatasetRun(x, q)'
  <2>1. PICK e \in Edits, S \in SUBSET Views : files[q].renders = Filled(S, e)
    BY <1>1, <1>3, RenderersPlace DEF RendersOK
  <2>2. b = backgrounds[q[1]] /\ b \in Backgrounds
    BY <1>1, <1>3 DEF PlaceOf, Places, DiskOK
  <2>3. PICK s \in Sample : s.edit = e /\ s.background = b
    <3>1. [edit |-> e, background |-> b] \in Sample
      BY <2>2 DEF Sample
    <3> QED
      BY <3>1
  <2>4. x.left = S /\ S # {}
    BY <1>1, <1>2, <1>3, <1>6, <2>1, RenderersPlace DEF Listed, Filled
  <2>5. files'[q].datasetPartial = Filled(S \ x.left, s)
    BY <1>4, <2>4, NoEntries
  <2>6. backgrounds'[q[1]] = s.background
    BY <1>3, <2>2, <2>3 DEF StepAt
  <2>7. files'[q].renders = Filled(S, s.edit)
    BY <1>4, <2>1, <2>3
  <2>8. Latest(q)' => S = Views
    <3>1. Latest(q)' => Latest(q)
      BY <1>3 DEF StepAt, Latest, LastRenderSucceeded
    <3>2. Latest(q) => \E y \in Edits : files[q].renders = Whole(y)
      BY <1>1, <1>3, RenderersPlace DEF RendersOK
    <3> QED
      BY <2>1, <3>1, <3>2, FilledIsNoOther DEF Whole
  <2>9. S \in (SUBSET Views) \ {{}} /\ x.left \subseteq S /\ x.left # {}
    BY <2>4
  <2>10. x.step = "make"
    BY <1>2, <1>6
  <2> QED
    BY <2>5, <2>6, <2>7, <2>8, <2>9, <2>10 DEF DatasetRun
<1> QED
  BY <1>1, <1>3, <1>5, <1>6, <1>7, StepHere

LEMMA DatasetMakesKeepsFiles ==
  ASSUME Inv, DiskOK, SoloInv, History, NEW w \in WorkerIds, NEW v \in Views, DatasetMakes(w, v)
  PROVE  SoloInv'
<1> DEFINE b == backgrounds[tasks[run[w].task].job]
           m == [edit |-> FilesOf(w).renders[v], background |-> b]
           d == [FilesOf(w) EXCEPT !.datasetPartial = With(@, v, m)]
<1>1. /\ run[w].task # NoTask /\ TypeOf(w) = "DATASET" /\ run[w].step = "make"
      /\ v \in run[w].left /\ Makes(w, v) /\ Writes(w, d)
  BY DEF DatasetMakes, At
<1>2. PICK r : /\ run' = [run EXCEPT ![w] = r] /\ r.task = run[w].task
               /\ r.left = run[w].left \ {v} /\ run[w].left \in SUBSET Views
               /\ r.step \in {"make", "clear"}
               /\ r.step = "make" => r.left # {}
               /\ r.step = "clear" => run[w].left = {v}
  BY <1>1, RunAfterView
<1>3. PICK q \in Places : StepAt(w, q, d, r) /\ q = PlaceOf(w) /\ files'[q] = d
  BY <1>1, <1>2, WriteIsStepAt
<1>4. /\ files'[q].cleaned = files[q].cleaned /\ files'[q].renders = files[q].renders
      /\ files'[q].zip = files[q].zip
      /\ files'[q].datasetPartial = With(files[q].datasetPartial, v, m)
  BY <1>1, <1>3, RenderersPlace DEF Directory
<1>5. RendersOK(q)' /\ DatasetOK(q)'
  BY <1>1, <1>3, <1>4, RenderersPlace, PlaceSame DEF StepAt
<1>6. DatasetRun(r, q)'
  <2>1. PICK x : x = run[w]
    OBVIOUS
  <2>2. DatasetRun(x, q)
    BY <1>1, <1>3, <2>1, RenderersPlace
  <2>3. SUFFICES ASSUME q \notin overtaken, Wanted(q) PROVE DatasetRun(r, q)'
    BY <1>3 DEF DatasetRun, StepAt, Wanted, Offered, Awaits
  <2>4. PICK s \in Sample, S \in (SUBSET Views) \ {{}} :
          /\ files[q].renders = Filled(S, s.edit)
          /\ Latest(q) => S = Views
          /\ run[w].left \subseteq S /\ s.background = backgrounds[q[1]]
          /\ files[q].datasetPartial = Filled(S \ run[w].left, s)
    BY <1>1, <2>1, <2>2, <2>3 DEF DatasetRun
  <2>5. m = s
    <3>1. FilesOf(w).renders[v] = s.edit
      BY <1>1, <1>3, <2>4, RenderersPlace DEF Filled
    <3>2. b = s.background
      BY <1>3, <2>4 DEF PlaceOf
    <3> QED
      BY <3>1, <3>2 DEF Sample
  <2>6. /\ files'[q].datasetPartial = Filled(S \ r.left, s)
        /\ r.step = "clear" => files'[q].datasetPartial = Filled(S, s)
    <3>1. PICK L : L = run[w].left
      OBVIOUS
    <3>2. L \in SUBSET S /\ v \in L
      BY <1>1, <2>4, <3>1
    <3>3. files'[q].datasetPartial = With(Filled(S \ L, s), v, s)
      BY <1>4, <2>4, <2>5, <3>1
    <3>4. /\ With(Filled(S \ L, s), v, s) = Filled(S \ (L \ {v}), s)
          /\ L = {v} => With(Filled(S \ L, s), v, s) = Filled(S, s)
      BY <3>2, OneMoreEntry
    <3> QED
      BY <1>2, <3>1, <3>3, <3>4
  <2>7. /\ backgrounds'[q[1]] = s.background /\ files'[q].renders = Filled(S, s.edit)
        /\ r.left \subseteq S
    BY <1>2, <1>3, <1>4, <2>4 DEF StepAt
  <2>8. Latest(q)' => S = Views
    BY <1>3, <2>4 DEF StepAt, Latest, LastRenderSucceeded
  <2> QED
    BY <1>2, <2>6, <2>7, <2>8 DEF DatasetRun
<1> QED
  BY <1>1, <1>3, <1>5, <1>6, StepHere

\* The rest of the work on a dataset, told by what it leaves: r is the run
\* after the step, d the directory.
DatasetMoves(w, d, r) ==
  LET f == FilesOf(w)
      s == run[w].step IN
  /\ d.cleaned = f.cleaned /\ d.renders = f.renders
  /\ \/ /\ s = "clear" /\ r.step \in {"clear", "publish"}
        /\ d.datasetPartial = f.datasetPartial /\ d.zip = f.zip
     \/ s = "publish" /\ r.step = "archive" /\ d.dataset = f.datasetPartial /\ d.zip = f.zip
     \/ s = "archive" /\ r.step = "fill" /\ d.dataset = f.dataset /\ d.zip = f.zip
     \/ s = "fill" /\ r.step = "replace" /\ d.zipPartial = f.dataset /\ d.zip = f.zip
     \/ s = "replace" /\ r.step = "done" /\ d.zip = f.zipPartial

LEMMA DatasetGoesOn ==
  ASSUME Inv, DiskOK, NEW w \in WorkerIds, DatasetPublishes(w) \/ DatasetArchives(w)
  PROVE  \E d, r : /\ Writes(w, d) /\ run' = [run EXCEPT ![w] = r] /\ r.task = run[w].task
                   /\ DatasetMoves(w, d, r)
<1> DEFINE f == FilesOf(w)
           rest(left) == [f EXCEPT !.dataset = left]
           moved   == [f EXCEPT !.dataset = f.datasetPartial, !.datasetPartial = NoFile]
           opened  == [f EXCEPT !.zipPartial = <<>>]
           full    == [f EXCEPT !.zipPartial = f.dataset]
           renamed == [f EXCEPT !.zip = f.zipPartial, !.zipPartial = NoFile]
           Goes(s) == [run[w] EXCEPT !.step = s]
<1>1. f \in Directory
  BY FoundDirectory DEF DatasetPublishes, DatasetArchives, At
<1>2. \A s : Goes(s).task = run[w].task /\ Goes(s).step = s
  BY DEF DiskOK, Run
<1>3. CASE run[w].step = "clear"
  <2>1. PICK left, step : /\ Writes(w, rest(left)) /\ run' = [run EXCEPT ![w] = Goes(step)]
                          /\ step \in {"clear", "publish"}
    BY <1>3 DEF DatasetPublishes, DatasetArchives, At, Clears, GoesOn
  <2>2. DatasetMoves(w, rest(left), Goes(step))
    BY <1>1, <1>2, <1>3, <2>1 DEF DatasetMoves, Directory
  <2> QED
    BY <1>2, <2>1, <2>2
<1>4. CASE run[w].step = "publish"
  <2>1. Writes(w, moved) /\ run' = [run EXCEPT ![w] = Goes("archive")]
    BY <1>4 DEF DatasetPublishes, DatasetArchives, At, GoesOn
  <2>2. DatasetMoves(w, moved, Goes("archive"))
    BY <1>1, <1>2, <1>4 DEF DatasetMoves, Directory
  <2> QED
    BY <1>2, <2>1, <2>2
<1>5. CASE run[w].step = "archive"
  <2>1. Writes(w, opened) /\ run' = [run EXCEPT ![w] = Goes("fill")]
    BY <1>5 DEF DatasetPublishes, DatasetArchives, At, GoesOn, Opened
  <2>2. DatasetMoves(w, opened, Goes("fill"))
    BY <1>1, <1>2, <1>5 DEF DatasetMoves, Directory
  <2> QED
    BY <1>2, <2>1, <2>2
<1>6. CASE run[w].step = "fill"
  <2>1. Writes(w, full) /\ run' = [run EXCEPT ![w] = Goes("replace")]
    BY <1>6 DEF DatasetPublishes, DatasetArchives, At, GoesOn
  <2>2. DatasetMoves(w, full, Goes("replace"))
    BY <1>1, <1>2, <1>6 DEF DatasetMoves, Directory
  <2> QED
    BY <1>2, <2>1, <2>2
<1>7. CASE run[w].step = "replace"
  <2>1. Writes(w, renamed) /\ run' = [run EXCEPT ![w] = Goes("done")]
    BY <1>7 DEF DatasetPublishes, DatasetArchives, At, GoesOn
  <2>2. DatasetMoves(w, renamed, Goes("done"))
    BY <1>1, <1>2, <1>7 DEF DatasetMoves, Directory
  <2> QED
    BY <1>2, <2>1, <2>2
<1> QED
  BY <1>3, <1>4, <1>5, <1>6, <1>7 DEF DatasetPublishes, DatasetArchives, At

LEMMA DatasetMovesKeepsFiles ==
  ASSUME Inv, DiskOK, SoloInv, History, NEW w \in WorkerIds,
         DatasetPublishes(w) \/ DatasetArchives(w)
  PROVE  SoloInv'
<1>1. run[w].task # NoTask /\ TypeOf(w) = "DATASET"
  BY DEF DatasetPublishes, DatasetArchives, At
<1>2. PICK d, r : /\ Writes(w, d) /\ run' = [run EXCEPT ![w] = r] /\ r.task = run[w].task
                  /\ DatasetMoves(w, d, r)
  BY DatasetGoesOn
<1>3. PICK q \in Places : StepAt(w, q, d, r) /\ q = PlaceOf(w) /\ files'[q] = d
  BY <1>1, <1>2, WriteIsStepAt
<1>4. PICK x : x = run[w]
  OBVIOUS
<1>5. DatasetRun(x, q) /\ RendersOK(q) /\ DatasetOK(q) /\ FilesOf(w) = files[q]
  BY <1>1, <1>3, <1>4, RenderersPlace
<1>6. files'[q].cleaned = files[q].cleaned /\ files'[q].renders = files[q].renders
  BY <1>2, <1>3, <1>5 DEF DatasetMoves
<1>7. RendersOK(q)'
  BY <1>3, <1>5, <1>6, PlaceSame DEF StepAt
<1>8. CASE q \in overtaken \/ ~Wanted(q)
  <2>1. q \in overtaken' \/ ~Wanted(q)'
    BY <1>3, <1>8 DEF StepAt, Wanted, Offered, Awaits
  <2>2. Offered(q)' \/ Made(q, "DATASET")' => Wanted(q)'
    BY DEF Wanted, Made, Earned, Awaits
  <2>3. DatasetOK(q)' /\ DatasetRun(r, q)'
    BY <2>1, <2>2 DEF DatasetOK, DatasetRun
  <2> QED
    BY <1>1, <1>3, <1>7, <2>3, StepHere
<1>9. CASE q \notin overtaken /\ Wanted(q)
  <2>1. PICK s \in Sample, S \in (SUBSET Views) \ {{}} :
          /\ files[q].renders = Filled(S, s.edit)
          /\ Latest(q) => S = Views
          /\ x.step \in {"clear", "publish"} => files[q].datasetPartial = Filled(S, s)
          /\ x.step \in {"archive", "fill"} => files[q].dataset = Filled(S, s)
          /\ x.step = "replace" => files[q].zipPartial = Filled(S, s)
    BY <1>2, <1>4, <1>5, <1>9 DEF DatasetRun, DatasetMoves
  <2>2. Latest(q)' => S = Views
    BY <1>3, <2>1 DEF StepAt, Latest, LastRenderSucceeded
  <2>3. DatasetRun(r, q)'
    <3>1. /\ r.step \notin {"start", "make"}
          /\ r.step \in {"clear", "publish"} => files'[q].datasetPartial = Filled(S, s)
          /\ r.step \in {"archive", "fill"} => files'[q].dataset = Filled(S, s)
          /\ r.step = "replace" => files'[q].zipPartial = Filled(S, s)
          /\ r.step = "done" => files'[q].zip = Filled(S, s)
      BY <1>2, <1>3, <1>4, <1>5, <2>1 DEF DatasetMoves
    <3> QED
      BY <1>6, <2>1, <2>2, <3>1 DEF DatasetRun
  <2>4. DatasetOK(q)'
    <3>1. CASE x.step # "replace"
      <4>1. files'[q].zip = files[q].zip
        BY <1>2, <1>3, <1>4, <1>5, <3>1 DEF DatasetMoves
      <4> QED
        BY <1>3, <1>5, <1>6, <4>1, PlaceSame DEF StepAt
    <3>2. CASE x.step = "replace"
      <4>1. files'[q].zip = Filled(S, s)
        BY <1>2, <1>3, <1>4, <1>5, <2>1, <3>2 DEF DatasetMoves
      <4>2. ASSUME Accepted(q)', q \notin backups' PROVE s.edit = files'[q].cleaned
        <5>1. \/ files'[q].renders = NoFile
              \/ \E T \in SUBSET Views : files'[q].renders = Filled(T, files'[q].cleaned)
          BY <1>7, <4>2 DEF RendersOK, ShowsEdit
        <5>2. files'[q].renders = Filled(S, s.edit)
          BY <1>6, <2>1
        <5> QED
          BY <5>1, <5>2, FilledIsOfThisEdit
      <4> QED
        BY <2>2, <4>1, <4>2 DEF DatasetOK, ZipOK
    <3> QED
      BY <3>1, <3>2
  <2> QED
    BY <1>1, <1>3, <1>7, <2>3, <2>4, StepHere
<1> QED
  BY <1>8, <1>9

----------------------------------------------------------------------------
(* The files of every job, at every step. *)

LEMMA InitFilesInv == ArtifactsInit => FilesInv
<1> SUFFICES ASSUME ArtifactsInit PROVE FilesInv
  OBVIOUS
<1>1. Inv /\ DiskOK /\ AllCleared
  BY InitInv, InitDiskOK, InitCleared DEF ArtifactsInit
<1>2. DOMAIN tasks = {} /\ DOMAIN jobs = {} /\ \A w \in WorkerIds : run[w].task = NoTask
  BY DEF ArtifactsInit, Init, QueueInit, NoRun
<1>3. Alone /\ Newest
  BY <1>2 DEF Alone, Newest, InHand
<1>4. ASSUME NEW p \in Places PROVE RendersOK(p) /\ DatasetOK(p) /\ RerenderOK(p)
  <2>1. files[p].renders = NoFile
    BY DEF ArtifactsInit, NewDirectory
  <2>2. ~Latest(p) /\ ~Rerendering(p)
    BY <1>2 DEF Latest, LastRenderSucceeded, Rerendering, InHand
  <2> QED
    BY <1>2, <2>1, <2>2 DEF RendersOK, DatasetOK, RerenderOK, Accepted, Offered, Made
<1>5. \A w \in WorkerIds : BuildsOK(w)
  BY <1>2 DEF BuildsOK
<1> QED
  BY <1>1, <1>3, <1>4, <1>5 DEF FilesInv, SoloInv

LEMMA StepFilesInv == FilesInv /\ [ArtifactsNext]_artifacts => FilesInv'
<1> SUFFICES ASSUME FilesInv, [ArtifactsNext]_artifacts PROVE FilesInv'
  OBVIOUS
<1>1. Inv /\ DiskOK /\ AllCleared /\ [Next]_vars
  BY ArtifactsStepIsServiceStep DEF FilesInv
<1>2. Inv' /\ DiskOK' /\ AllCleared'
  BY <1>1, StepInv, StepDiskOK, StepClaims
<1>3. ASSUME solo', ArtifactsNext PROVE SoloInv'
  <2>1. SoloInv /\ Alone' /\ History
    BY <1>3 DEF ArtifactsNext, History, FilesInv
  <2>2. CASE AppNext
    BY <1>1, <2>1, <2>2, AppKeepsFiles
  <2>3. ASSUME NEW w \in WorkerIds, FileStep(w) PROVE SoloInv'
    BY <1>1, <2>1, <2>3, ReconstructKeepsFiles, RenderStartsKeepsFiles, RenderLoadsKeepsFiles,
       RenderMakesKeepsFiles, RenderPublishesKeepsFiles, DatasetStartsKeepsFiles,
       DatasetMakesKeepsFiles, DatasetMovesKeepsFiles DEF FileStep
  <2>4. CASE WorkersNext
    BY <1>1, <2>1, <2>3, <2>4, CallKeepsFiles DEF WorkersNext
  <2> QED
    BY <1>3, <2>2, <2>4 DEF ArtifactsNext
<1>4. ASSUME solo', UNCHANGED artifacts PROVE SoloInv'
  <2>1. SoloInv /\ Alone'
    <3>1. SoloInv
      BY <1>4 DEF FilesInv, artifacts
    <3> QED
      BY <1>4, <3>1 DEF SoloInv, Alone, InHand, Over, artifacts
  <2>2. History
    BY <1>4, <2>1 DEF History, artifacts
  <2>3. \A p \in Places : Delivers(p) /\ LatestStays(p)
    <3>1. NoneSucceedsBut({})
      BY <1>4 DEF NoneSucceedsBut, artifacts
    <3> QED
      BY <1>1, <3>1, NoneDelivered, LatestFollows DEF LatestStays
  <2> QED
    BY <1>1, <1>4, <2>1, <2>2, <2>3, NothingMoves DEF RunStays, artifacts, disk
<1> QED
  BY <1>2, <1>3, <1>4 DEF FilesInv

LEMMA FilesInvariant == ArtifactsSpec => []FilesInv
<1> QED
  BY InitFilesInv, StepFilesInv, PTL DEF ArtifactsSpec

LEMMA FilesInvImplies == FilesInv => RendersAreOfThisEdit /\ DatasetIsOfOneMaking
<1> SUFFICES ASSUME FilesInv, solo PROVE RendersAreOfThisEdit /\ DatasetIsOfOneMaking
  BY DEF RendersAreOfThisEdit, DatasetIsOfOneMaking
<1>1. SoloInv
  BY DEF FilesInv
<1>2. ASSUME NEW j \in DOMAIN jobs, NEW n \in DOMAIN jobs[j].attempts
      PROVE  <<j, n>> \in Places
  BY DEF FilesInv, Inv, JInv, JobOK, Job, Attempts, Places
<1>3. ASSUME NEW j \in DOMAIN jobs, NEW n \in DOMAIN jobs[j].attempts
      PROVE  /\ Accepted(<<j, n>>) <=> jobs[j].attempts[n].renderDir # NoPath
             /\ Offered(<<j, n>>) <=> jobs[j].attempts[n].datasetZip # NoPath
  BY DEF Accepted, Offered, HasRenders, HasDataset
<1>4. RendersAreOfThisEdit
  <2> SUFFICES ASSUME NEW j \in DOMAIN jobs, NEW n \in DOMAIN jobs[j].attempts,
                      Accepted(<<j, n>>), <<j, n>> \notin backups
               PROVE  LET f == files[<<j, n>>] IN
                      /\ f.renders # NoFile => \A v \in DOMAIN f.renders : f.renders[v] = f.cleaned
                      /\ LastRenderSucceeded(j, n) => f.renders = [v \in Views |-> f.cleaned]
    BY <1>3 DEF RendersAreOfThisEdit
  <2> DEFINE p == <<j, n>>
             f == files[p]
  <2>1. p \in Places /\ (Latest(p) <=> LastRenderSucceeded(j, n))
    BY <1>2 DEF Latest
  <2>2. f.renders = NoFile \/ \E S \in SUBSET Views : f.renders = Filled(S, f.cleaned)
    BY <1>1, <2>1 DEF SoloInv, RendersOK, ShowsEdit
  <2>3. f.renders # NoFile => \A v \in DOMAIN f.renders : f.renders[v] = f.cleaned
    BY <2>2 DEF Filled
  <2>4. ASSUME Latest(p) PROVE f.renders = Filled(Views, f.cleaned)
    <3>1. PICK e \in Edits : f.renders = Filled(Views, e)
      BY <1>1, <2>1, <2>4 DEF SoloInv, RendersOK, Whole
    <3>2. f.renders # NoFile
      BY <3>1, FilledIsNoFile
    <3> QED
      BY <2>2, <3>1, <3>2, FilledIsNoOther
  <2> QED
    BY <2>1, <2>3, <2>4 DEF Filled
<1>5. DatasetIsOfOneMaking
  <2> SUFFICES ASSUME NEW j \in DOMAIN jobs, NEW n \in DOMAIN jobs[j].attempts,
                      Offered(<<j, n>>), <<j, n>> \notin overtaken
               PROVE  LET a == jobs[j].attempts[n]
                          f == files[<<j, n>>] IN
                      \E sample \in Sample, S \in (SUBSET Views) \ {{}} :
                        /\ f.zip = [v \in S |-> sample]
                        /\ ~Faults /\ LastRenderSucceeded(j, n) => S = Views
                        /\ a.renderDir # NoPath /\ <<j, n>> \notin backups => sample.edit = f.cleaned
    BY <1>3 DEF DatasetIsOfOneMaking
  <2>1. ZipOK(<<j, n>>)
    BY <1>1, <1>2 DEF SoloInv, DatasetOK
  <2> QED
    BY <1>3, <2>1 DEF ZipOK, Filled, Latest
<1> QED
  BY <1>4, <1>5

\* Accepted renders show the edited asset as it is saved now, all of them if the
\* latest render succeeded and otherwise as many as are left, whoever died while
\* publishing them and however often: nothing else replaces the asset under a
\* render that is, or will be, accepted (render.py, SaveCleaned, StartRender).
THEOREM ArtifactsRendersAreOfThisEdit == ArtifactsSpec => []RendersAreOfThisEdit
BY FilesInvariant, FilesInvImplies, PTL

\* The dataset on offer is of one edit and one set of backgrounds, with samples
\* of every view if the latest render succeeded, while it is built again too, as
\* long as the backgrounds are not replaced under a worker that still builds
\* there (dataset.py, StartDataset, SetBackgroundDir).
THEOREM ArtifactsDatasetIsOfOneMaking == ArtifactsSpec => []DatasetIsOfOneMaking
BY FilesInvariant, FilesInvImplies, PTL
=============================================================================
