----------------------------- MODULE Artifacts -----------------------------
(***************************************************************************)
(* What the tasks leave on disk.  The control plane of JobService with the *)
(* files of each attempt, and workers seen as what they do to those files: *)
(* reconstruct.py, render.py and dataset.py build in a staging directory,  *)
(* remove the published one, file by file, and rename the staging one into *)
(* its place; the app replaces cleaned.ply and the backgrounds by two      *)
(* renames (replaceWithBackup).  A worker may die between any two steps,   *)
(* and the next delivery finds what it left.                               *)
(*                                                                         *)
(* Content is abstracted to where it comes from: an edited asset is a      *)
(* member of Edits, a set of shelf images one of Backgrounds; a directory  *)
(* of renders maps the views in it to the edit they show, a dataset maps   *)
(* views to the edit and the backgrounds their samples are made of.  Every *)
(* view is taken to show the product (dataset.py skips those that do not). *)
(* Guard, heartbeats and lost calls are the subject of Workers: here a run *)
(* may end at any step without a report, and late calls are left out.      *)
(***************************************************************************)
EXTENDS JobService

CONSTANTS Views,        \* the camera rig of render.py
          Edits,        \* contents that users may save as cleaned.ply
          Backgrounds,  \* sets of shelf images that users may upload
          Interrupts,   \* may the app die while it replaces a file?
          NoFile,       \* no such file or directory
          ColmapData    \* the processed capture a reconstruction retains

ASSUME ArtifactsAssumption ==
  /\ Interrupts \in BOOLEAN /\ Views # {}
  /\ NoFile \notin Edits \cup Backgrounds \cup {ColmapData}
  /\ \A S \in SUBSET Views : NoFile \notin [S -> Edits] \cup [S -> [edit : Edits, background : Backgrounds]]

VARIABLES files,       \* files[<<j, n>>]: the directory of attempt n of job j
          backgrounds, \* backgrounds[j]: job j's backgrounds/current
          backups,     \* replacements that a crash interrupted; {<<j, 0>>}: of backgrounds
          run,         \* run[w]: the task worker w is running, and how far it is
          solo,        \* history: no two tasks or workers were ever at one job
          overtaken    \* history: where backgrounds changed under a worker and an offer

disk      == <<files, backgrounds, backups>>
artifacts == <<jobs, tasks, files, backgrounds, backups, run, solo, overtaken>>

Places == JobIds \X Versions

Sample   == [edit : Edits, background : Backgrounds]
Renders  == {NoFile} \cup UNION {[S -> Edits] : S \in SUBSET Views}
Dataset  == {NoFile} \cup UNION {[S -> Sample] : S \in SUBSET Views}
Retained == {"splat", "training", "config"}

\* x.partial is the staging path of x.
Directory == [retained : SUBSET Retained, cleaned : Edits \cup {NoFile},
              renders  : Renders, rendersPartial : Renders,
              dataset  : Dataset \cup {ColmapData}, datasetPartial : Dataset,
              zip      : Dataset, zipPartial     : Dataset]

NewDirectory == [retained |-> {}, cleaned |-> NoFile,
                 renders |-> NoFile, rendersPartial |-> NoFile,
                 dataset |-> NoFile, datasetPartial |-> NoFile,
                 zip     |-> NoFile, zipPartial     |-> NoFile]

Run == [task : TaskIds \cup {NoTask},
        step : {"idle", "start", "load", "make", "clear", "publish", "drop",
                "training", "config", "archive", "fill", "replace", "done"},
        left : SUBSET Views,                    \* views still to be made
        edit : Edits \cup {NoFile}]             \* the asset loaded

NoRun     == [task |-> NoTask, step |-> "idle", left |-> {}, edit |-> NoFile]
NewRun(t) == [NoRun EXCEPT !.task = t, !.step = "start"]

ArtifactsTypeOK == /\ TypeOK
                   /\ files \in [Places -> Directory]
                   /\ backgrounds \in [JobIds -> Backgrounds \cup {NoFile}]
                   /\ backups \in SUBSET (JobIds \X (0 .. MaxVersions))
                   /\ run \in [WorkerIds -> Run]
                   /\ solo \in BOOLEAN
                   /\ overtaken \in SUBSET Places

\* Tasks of a job that are not over, or that a worker has not let go of.
InHand(j) ==
  {t \in DOMAIN tasks : tasks[t].job = j /\ (~Over(t) \/ \E w \in WorkerIds : run[w].task = t)}

Alone == /\ \A j \in JobIds : \A t, u \in InHand(j) : t = u
         /\ \A v, w \in WorkerIds : run[v].task = run[w].task /\ run[v].task # NoTask => v = w

ArtifactsInit == /\ Init
                 /\ files = [p \in Places |-> NewDirectory]
                 /\ backgrounds = [j \in JobIds |-> NoFile]
                 /\ backups = {}
                 /\ run = [w \in WorkerIds |-> NoRun]
                 /\ solo = TRUE
                 /\ overtaken = {}

----------------------------------------------------------------------------
(* The app's side: the methods that move files as well. *)

\* One staged file or directory replaces another: two renames, the save of
\* the job, the removal of the backup; a failed save is rolled back.
SaveEdit(j, e) ==
  /\ SaveCleaned(j)
  /\ files' = [files EXCEPT ![<<j, jobs[j].active>>].cleaned = e]
  /\ UNCHANGED <<backgrounds, backups, run>>

SetBackgrounds(j, b) ==
  /\ SetBackgroundDir(j)
  /\ backgrounds' = [backgrounds EXCEPT ![j] = b]
  /\ UNCHANGED <<files, backups, run>>

\* The process dies after the first rename, or before the save of the job.
\* old was in place, now is what is there, and only a backup tells.
Interrupted(place, old, new, now) ==
  /\ Interrupts
  /\ now = new \/ (old # NoFile /\ now = NoFile)
  /\ backups' = IF old = NoFile THEN backups ELSE backups \cup {place}

SaveEditDies(j, e) ==
  /\ j \in DOMAIN jobs /\ HasActive(jobs[j]) /\ Idle(jobs[j])
  /\ LET place == <<j, jobs[j].active>> IN
     \E now \in {e, NoFile} :
       /\ Interrupted(place, files[place].cleaned, e, now)
       /\ files' = [files EXCEPT ![place].cleaned = now]
  /\ UNCHANGED <<jobs, tasks, backgrounds, run>>

SetBackgroundsDies(j, b) ==
  /\ j \in DOMAIN jobs /\ ~(jobs[j].current # NoTask /\ jobs[j].state = "DATASET_BUILDING")
  /\ \E now \in {b, NoFile} :
       /\ Interrupted(<<j, 0>>, backgrounds[j], b, now)
       /\ backgrounds' = [backgrounds EXCEPT ![j] = now]
  /\ UNCHANGED <<jobs, tasks, files, run>>

UploadPLY(j) ==
  /\ AddExistingPLY(j)
  /\ files' = [files EXCEPT ![<<j, jobs'[j].active>>].retained = @ \cup {"splat"}]
  /\ UNCHANGED <<backgrounds, backups, run>>

\* The rest of the public routes move no file that is modelled here.
OtherUserNext ==
  /\ \E j \in JobIds :
       \/ CreateJob(j)
       \/ \E t \in TaskIds, saved \in Saves : AddVideo(j, t, saved)
       \/ \E n \in Versions : ActivateAttempt(j, n)
       \/ \E t \in TaskIds, saved \in Saves : StartRender(j, t, saved)
       \/ \E t \in TaskIds, saved \in Saves : StartDataset(j, t, saved)
       \/ \E stopped \in SUBSET Stoppable(j), saved \in Saves : Cancel(j, stopped, saved)
  /\ UNCHANGED <<disk, run>>

AppNext ==
  \/ \E j \in JobIds, e \in Edits : SaveEdit(j, e) \/ SaveEditDies(j, e)
  \/ \E j \in JobIds, b \in Backgrounds : SetBackgrounds(j, b) \/ SetBackgroundsDies(j, b)
  \/ \E j \in JobIds : UploadPLY(j)
  \/ OtherUserNext
  \/ TimerNext /\ UNCHANGED <<disk, run>>

----------------------------------------------------------------------------
(* The worker's side: one action per step that others can see. *)

TypeOf(w)  == tasks[run[w].task].type
PlaceOf(w) == <<tasks[run[w].task].job, tasks[run[w].task].attempt>>
FilesOf(w) == files[PlaceOf(w)]

\* w, at step s of a task of the given type, goes on with step next.
At(w, type, s) == run[w].task # NoTask /\ TypeOf(w) = type /\ run[w].step = s
GoesOn(w, next) == run' = [run EXCEPT ![w].step = next]

Writes(w, directory) ==
  files' = [files EXCEPT ![PlaceOf(w)] = directory] /\ UNCHANGED <<jobs, tasks, backgrounds, backups>>

\* f with x at v, or put there.
With(f, v, x) == [u \in DOMAIN f \cup {v} |-> IF u = v THEN x ELSE f[u]]

\* w makes view v, the last of those left or not.
Makes(w, v) ==
  run' = [run EXCEPT ![w].left = @ \ {v}, ![w].step = IF run[w].left = {v} THEN "clear" ELSE @]

\* shutil.rmtree(d, ignore_errors=True): one file after the other goes, and the
\* directory last; of a capture that is partly removed nothing more is said.  An
\* error that it ignores leaves the rest, and the rename that follows raises
\* (Stop).  Staging directories, which no other step reads, go at once.
Without(f, v) == [u \in DOMAIN f \ {v} |-> f[u]]

Remains(d) ==
  IF d \in {NoFile, <<>>} THEN {NoFile}
  ELSE IF d = ColmapData THEN {<<>>}
  ELSE {Without(d, v) : v \in DOMAIN d}

\* A directory is renamed to a name that is free, or that of an empty directory.
Free(d) == d \in {NoFile, <<>>}

\* w, at "clear", left this much of what is published.
Clears(w, left) == GoesOn(w, IF left = NoFile THEN "publish" ELSE "clear")

\* reconstruct.py: all the work happens in a scratch directory of the task;
\* then the results are published one by one.
Reconstructs(w) ==
  /\ At(w, "RECONSTRUCT", "start") /\ GoesOn(w, "clear")
  /\ Writes(w, [FilesOf(w) EXCEPT !.retained = @ \cup {"splat"}])

ReconstructPublishes(w) ==
  \/ /\ At(w, "RECONSTRUCT", "clear")
     /\ \E left \in Remains(FilesOf(w).dataset) :
          Clears(w, left) /\ Writes(w, [FilesOf(w) EXCEPT !.dataset = left])
  \/ /\ At(w, "RECONSTRUCT", "publish") /\ GoesOn(w, "drop")
     /\ Free(FilesOf(w).dataset)
     /\ Writes(w, [FilesOf(w) EXCEPT !.dataset = ColmapData])
  \/ /\ At(w, "RECONSTRUCT", "drop") /\ GoesOn(w, "training")
     /\ Writes(w, [FilesOf(w) EXCEPT !.retained = @ \ {"training"}])
  \/ /\ At(w, "RECONSTRUCT", "training") /\ GoesOn(w, "config")
     /\ Writes(w, [FilesOf(w) EXCEPT !.retained = @ \cup {"training"}])
  \/ /\ At(w, "RECONSTRUCT", "config") /\ GoesOn(w, "done")
     /\ Writes(w, [FilesOf(w) EXCEPT !.retained = @ \cup {"config"}])

\* render.py: the asset is loaded once, before the first view.
MutLoadsAnything(w) == TRUE
AssetThere(w) == FilesOf(w).cleaned # NoFile

RenderStarts(w) ==
  /\ At(w, "RENDER", "start") /\ GoesOn(w, "load")
  /\ Writes(w, [FilesOf(w) EXCEPT !.rendersPartial = <<>>])

RenderLoads(w) ==
  /\ At(w, "RENDER", "load") /\ AssetThere(w)
  /\ run' = [run EXCEPT ![w].step = "make", ![w].left = Views, ![w].edit = FilesOf(w).cleaned]
  /\ UNCHANGED <<jobs, tasks, disk>>

RenderMakes(w, v) ==
  /\ At(w, "RENDER", "make") /\ v \in run[w].left /\ Makes(w, v)
  /\ FilesOf(w).rendersPartial # NoFile
  /\ Writes(w, [FilesOf(w) EXCEPT !.rendersPartial = With(@, v, run[w].edit)])

\* The job and the attempt go on naming the renders while they are removed.
RenderPublishes(w) ==
  \/ /\ At(w, "RENDER", "clear")
     /\ \E left \in Remains(FilesOf(w).renders) :
          Clears(w, left) /\ Writes(w, [FilesOf(w) EXCEPT !.renders = left])
  \/ /\ At(w, "RENDER", "publish") /\ GoesOn(w, "done")
     /\ FilesOf(w).rendersPartial # NoFile /\ Free(FilesOf(w).renders)
     /\ Writes(w, [FilesOf(w) EXCEPT !.renders = FilesOf(w).rendersPartial,
                                     !.rendersPartial = NoFile])

\* dataset.py: renders and backgrounds are listed first and opened one by one.
Listed(w) == DOMAIN FilesOf(w).renders

DatasetStarts(w) ==
  /\ At(w, "DATASET", "start")
  /\ FilesOf(w).renders # NoFile /\ Listed(w) # {}
  /\ backgrounds[tasks[run[w].task].job] # NoFile
  /\ run' = [run EXCEPT ![w].step = "make", ![w].left = Listed(w)]
  /\ Writes(w, [FilesOf(w) EXCEPT !.datasetPartial = <<>>])

DatasetMakes(w, v) ==
  LET b == backgrounds[tasks[run[w].task].job] IN
  /\ At(w, "DATASET", "make") /\ v \in run[w].left /\ Makes(w, v)
  /\ FilesOf(w).renders # NoFile /\ v \in Listed(w) /\ b # NoFile
  /\ FilesOf(w).datasetPartial # NoFile
  /\ Writes(w, [FilesOf(w) EXCEPT !.datasetPartial =
                  With(@, v, [edit |-> FilesOf(w).renders[v], background |-> b])])

DatasetPublishes(w) ==
  \/ /\ At(w, "DATASET", "clear")
     /\ \E left \in Remains(FilesOf(w).dataset) :
          Clears(w, left) /\ Writes(w, [FilesOf(w) EXCEPT !.dataset = left])
  \/ /\ At(w, "DATASET", "publish") /\ GoesOn(w, "archive")
     /\ FilesOf(w).datasetPartial # NoFile /\ Free(FilesOf(w).dataset)
     /\ Writes(w, [FilesOf(w) EXCEPT !.dataset = FilesOf(w).datasetPartial,
                                     !.datasetPartial = NoFile])

\* The archive is opened empty, filled, and renamed into place at once.
MutOpenedInPlace(directory) == [directory EXCEPT !.zip = <<>>, !.zipPartial = <<>>]
Opened(directory) == [directory EXCEPT !.zipPartial = <<>>]

DatasetArchives(w) ==
  \/ /\ At(w, "DATASET", "archive") /\ GoesOn(w, "fill")
     /\ Writes(w, Opened(FilesOf(w)))
  \/ /\ At(w, "DATASET", "fill") /\ GoesOn(w, "replace")
     /\ FilesOf(w).dataset \notin {NoFile, ColmapData}
     /\ Writes(w, [FilesOf(w) EXCEPT !.zipPartial = FilesOf(w).dataset])
  \/ /\ At(w, "DATASET", "replace") /\ GoesOn(w, "done")
     /\ FilesOf(w).zipPartial # NoFile
     /\ Writes(w, [FilesOf(w) EXCEPT !.zip = FilesOf(w).zipPartial, !.zipPartial = NoFile])

FileStep(w) ==
  \/ Reconstructs(w) \/ ReconstructPublishes(w)
  \/ RenderStarts(w) \/ RenderLoads(w) \/ RenderPublishes(w)
  \/ DatasetStarts(w) \/ DatasetPublishes(w) \/ DatasetArchives(w)
  \/ \E v \in Views : RenderMakes(w, v) \/ DatasetMakes(w, v)

----------------------------------------------------------------------------
(* Calls of a worker, and the end of a run. *)

\* What the step delivers: the task whose deliveries it counts up.
Delivered == {t \in DOMAIN tasks : tasks'[t].count # tasks[t].count}

\* The answer may be lost: then nobody runs the task.
Poll(w) ==
  /\ run[w] = NoRun /\ ClaimTask(w)
  /\ \/ UNCHANGED run
     \/ \E t \in Delivered : run' = [run EXCEPT ![w] = NewRun(t)]
  /\ UNCHANGED disk

Renew(w) ==
  /\ run[w].task # NoTask /\ TaskHeartbeat(run[w].task, w)
  /\ UNCHANGED <<disk, run>>

Finish(w) ==
  /\ run[w].step = "done"
  /\ \E saved \in Saves : CompleteTask(run[w].task, w, saved)
  /\ run' = [run EXCEPT ![w] = NoRun]
  /\ UNCHANGED disk

\* Any step may raise; cancellation is noticed where guard.check() is called.
Checks == {"start", "load", "make", "done"}

Stop(w) ==
  LET t == run[w].task IN
  /\ t # NoTask
  /\ \E saved \in Saves :
       FailTask(t, w, saved) \/ (run[w].step \in Checks /\ tasks[t].cancel /\ CancelTask(t, w, saved))
  /\ run' = [run EXCEPT ![w] = NoRun]
  /\ UNCHANGED disk

\* The worker dies, has lost its lease, or its report does not get through.
Vanish(w) ==
  /\ run[w].task # NoTask
  /\ run' = [run EXCEPT ![w] = NoRun]
  /\ UNCHANGED <<jobs, tasks, disk>>

WorkersNext ==
  \E w \in WorkerIds :
    FileStep(w) \/ Poll(w) \/ Renew(w) \/ Finish(w) \/ Stop(w) \/ Vanish(w)

\* Where samples are being made, for a task that may be over by now.
SamplesMade == {PlaceOf(w) : w \in {v \in WorkerIds : At(v, "DATASET", "make")}}

History ==
  /\ solo' = (solo /\ Alone')
  /\ overtaken' = overtaken \cup
       {p \in SamplesMade : backgrounds'[p[1]] # backgrounds[p[1]] /\ HasDataset(jobs'[p[1]], p[2])}

ArtifactsNext == (AppNext \/ WorkersNext) /\ History

ArtifactsSpec == ArtifactsInit /\ [][ArtifactsNext]_artifacts

----------------------------------------------------------------------------
(* Properties. *)

\* The attempt's latest render task succeeded (tasks are numbered as they are
\* created, and the latest alone can have touched the renders since).
LastRenderSucceeded(j, n) ==
  LET renderTasks == {t \in DOMAIN tasks : /\ tasks[t].job = j /\ tasks[t].attempt = n
                                          /\ tasks[t].type = "RENDER"} IN
  \E t \in renderTasks : tasks[t].state = "SUCCEEDED" /\ \A u \in renderTasks : u <= t

\* Accepted renders show the edited asset as it is saved now, never another
\* edit; and they are all there if the latest render succeeded.  After one that
\* did not, any part of them may be left, or nothing: it is accepted as before
\* (render.py, StartRender, SaveCleaned).
RendersAreOfThisEdit ==
  solo => \A j \in DOMAIN jobs : \A n \in DOMAIN jobs[j].attempts :
    LET f == files[<<j, n>>] IN
    jobs[j].attempts[n].renderDir # NoPath /\ <<j, n>> \notin backups =>
      /\ f.renders # NoFile => \A v \in DOMAIN f.renders : f.renders[v] = f.cleaned
      /\ LastRenderSucceeded(j, n) => f.renders = [v \in Views |-> f.cleaned]

\* The dataset offered for download is there, made from one edit and one set of
\* backgrounds, and from this edit if the renders were accepted.  It has samples
\* of every view if the latest render succeeded: of what an interrupted render
\* left, StartDataset and dataset.py make a smaller one.  (A render whose task
\* was created and whose job was not saved, under Faults, may succeed later than
\* the dataset.)  It stays so while the dataset is built again; the exception is
\* a dataset that stayed on offer while its backgrounds were replaced under a
\* worker at a task that the service had given up: SetBackgroundDir refuses to
\* do so only "while dataset generation is active", by state and current task,
\* and takes back only the active attempt's dataset.
DatasetIsOfOneMaking ==
  solo => \A j \in DOMAIN jobs : \A n \in DOMAIN jobs[j].attempts :
    LET a == jobs[j].attempts[n]
        f == files[<<j, n>>]
    IN a.datasetZip # NoPath /\ <<j, n>> \notin overtaken =>
         \E sample \in Sample, S \in (SUBSET Views) \ {{}} :
           /\ f.zip = [v \in S |-> sample]
           /\ ~Faults /\ LastRenderSucceeded(j, n) => S = Views
           /\ a.renderDir # NoPath /\ <<j, n>> \notin backups => sample.edit = f.cleaned

\* "an accepted reconstruction remains auditable/reproducible": the processed
\* capture, the training run and its configuration stay (reconstruct.py:243).
RetainedForAudit ==
  \A t \in DOMAIN tasks :
    tasks[t].type = "RECONSTRUCT" /\ tasks[t].state = "SUCCEEDED" =>
      LET f == files[<<tasks[t].job, tasks[t].attempt>>] IN
      f.retained = Retained /\ f.dataset = ColmapData
=============================================================================
