# ProdSplat V4: specifications, model checks and proofs

These TLA+ modules describe the control plane of ProdSplat (`prodsplat-production-v2/`): the
durable task queue, the job service above it, the GPU worker processes that talk to it over
HTTP, the files that tasks leave on disk, the clocks of worker and app, the event stream to the dashboard,
and a capture's way from the upload to the model. TLC checks them on small instances; TLAPS proves
every safety property that the passing runs check, for every value of the constants. Paths below are relative to `src/prodsplat-production-v2/`.

* [1. The system](#1-the-system)
* [2. Plan](#2-plan)
* [3. Modules and the code](#3-modules-and-the-code)
* [4. What TLC checks](#4-what-tlc-checks)
* [5. Disagreements with the docs and messages](#5-disagreements-with-the-docs-and-messages)
* [6. What is proved](#6-what-is-proved)
* [7. What is not modelled](#7-what-is-not-modelled)

## 1. The system

One Go process (the *app*) owns all business state as JSON files; one or more Python *workers* own
the GPU. A user creates a **job** for a product, each capture of it is a numbered **attempt**, and
each long operation on an attempt is a durable **task**: `RECONSTRUCT`, `RENDER` or `DATASET`.

| Component | State | Operations | Correct when |
|---|---|---|---|
| Task queue, `app/internal/tasks` | one file per task: state, delivery count, owner, lease deadline, cancellation flag | `Create`, `Delete`, `Claim`, `Heartbeat`, `Complete`, `Fail`, `AcknowledgeCancel`, `CancelByJob` | deliveries are bounded, one outcome per task, nothing is delivered after its cancellation, a live lease protects its holder, no task starves |
| Job service, `app/internal/jobs` | one file per job: state, attempts, active attempt, artifact paths, current task, cancellation flag | `Create`, `AddVideo`, `AddExistingPLY`, `ActivateAttempt`, `SaveCleaned`, `StartRender`, `SetBackgroundDir`, `StartDataset`, `Cancel`, the worker's four calls, `Reconcile` | job and task files agree, also after a crash between their two saves; outcomes reach the attempt they belong to; earlier attempts stay |
| HTTP API, `app/internal/api` | none of its own | public routes for the user, `/internal` routes for workers, event stream | each handler calls one service method; 409 means "lease lost" and nothing else |
| Event broker, `app/internal/events` | subscribers with a buffer of 32 | `Subscribe`, `Unsubscribe`, `Publish` (drops when full) | the dashboard ends up showing the latest state |
| Worker monitor, `app/internal/system` | last heartbeat per worker | `Update`, `Snapshot` (online for 20 s) | a live worker shows as online |
| Storage, `app/internal/storage` | uploaded files | staged save, PLY header check | nothing unchecked reaches a job, nothing of a refused upload stays |
| Server, `app/cmd/server` | none | `Reconcile` at start and every 30 s | a job learns outcomes it missed |
| Worker loop, runner, guard, client, `worker/prodsplat/{worker_main,runner,lease,client,process}.py` | current task, the guard's events | poll, accept, run commands, report; renew the lease | stops when told to, reports only what happened, never wedges a task |
| Worker pipeline, `reconstruct.py`, `render.py`, `dataset.py` | staging and published directories of an attempt | run commands, remove what is published, publish by rename | what is published is of one making, and whole once the latest task succeeded, whoever is interrupted or redelivered |
| Frame plan, registration gate, PLY reader, `quality.py`, `ply.py` | none | pure functions | plans respect source and cap; the best model is kept; the gate rejects tiny ones |
| COLMAP wrapper, preflight, `worker/bin/colmap`, `preflight.py` | none | retries without GPU on known errors | other errors are not hidden |
| Dashboard, editor glue, packaging, `web/`, `editor-integration/`, `scripts/` | a view | refresh by events, or by polling | the page ends up showing the last change |

**Interactions.** A user's request takes `Service.mu`, changes the queue first and the job second,
and publishes an event. A worker polls `claim` every two seconds; while it works, its guard thread
sends a heartbeat every five, which extends the lease (45 s) and brings back the cancellation flag.
Outcomes come back through `complete`, `fail` and `cancelled`, or, when the worker is gone, through
the sweep at the start of the next poll.

**What is hard.** Two files are written one after the other and the process may die in between
(`jobs/service.go:113-129, 451`). Delivery is at least once: leases expire while their holder is
still at work, and calls get lost, stay unanswered or arrive late. Cancellation crosses two flags,
a heartbeat, an event and a check beside the running command. A job's state, its current task and
its artifact paths are kept in several copies by a dozen methods that may be called in any order.
Time runs on both sides of a connection: a guard that notices silence late overlaps with the next holder
of the task. Events may be dropped, merged and overtaken on their way to the page. An upload has a dozen
places to fail, and a reconstruction starts over in a directory that an earlier delivery has used.
`PROJECT.json` lists each hazard with its line and with the properties that look for it.

## 2. Plan

The core was built first, bottom up, so that each module could be composed into the next.

| Step | Modules | Status |
|---|---|---|
| 1 | `TaskLifecycle` (contract of one task), `TaskQueue` implements it, `TaskQueueProofs` | done |
| 2 | `JobService` over `TaskQueue`, `JobServiceProofs` | done |
| 3 | `Workers`: the whole program, over `JobService`, `WorkersProofs` | done |
| 4 | `Artifacts`: the files of an attempt, over `JobService`: staging and publication by `reconstruct.py`, `render.py`, `dataset.py`, `replaceWithBackup` of the app, crashes between any two moves, `ArtifactsProofs` | done for one worker at a time in a directory; its files are proved, too |
| 5 | `WorkerClock`: guard, request timeout, lease, worker report, monitor and health check against one clock, `WorkerClockProofs` | done |
| 6 | `EventStream`: broker with bounded buffers, event stream, dashboard refresh, `EventStreamProofs` | done |
| 7 | `FramePlan`, `Uploads`, `Reconstruction` and their composition `Captures`, `CapturesProofs` | done |
| 8 | `JobHistoryProofs`: what the job service never takes back | done |
| 9 | two workers, or two tasks, in one directory (shared staging) in `Artifacts`; publication step by step in `Reconstruction` | open |
| 10 | the header parsers of `storage/local.go` and `ply.py` on bounded headers, and whether what one accepts the other does | open |

Abstract specifications: `TaskLifecycle`, implemented by every layer above it; still to be written:
an attempt as a set of artifacts each of which is absent, in part or whole, and of one making, implemented by `Artifacts`.

Theorems: every invariant and action property of a passing run is proved (section 6). What is left would need new
specifications first: that abstract attempt, and two writers in one staging directory.

## 3. Modules and the code

| Module | Role |
|---|---|
| `TaskLifecycle` | What the control plane promises about one task. No workers, leases or files. |
| `TaskQueue` | `tasks.FileRepository`, one action per method, plus the passing of a deadline |
| `JobService` | `jobs.Service` and its repository, one action per method; extends `TaskQueue` |
| `Workers` | worker processes, guards and connection; extends `JobService`; the whole program |
| `Artifacts` | directories of attempts, what workers and app do to them; extends `JobService`, beside `Workers` |
| `WorkerClock` | main thread and guard of one worker, its lease, the worker monitor and the health file, in seconds; stands alone |
| `EventStream` | `events.Broker`, the handler `Events` and `web/app.js`'s refresh; stands alone |
| `FramePlan` | pure operators: frame targets of the passes, the registration gate, the order of models |
| `Uploads` | the four handlers that stage files, with `Local.Save` |
| `Reconstruction` | the decisions of `reconstruct.py`, over `FramePlan` |
| `Captures` | composes `Uploads` and `Reconstruction`: from the form to the model |
| `MC*` | small sets and symmetry for TLC |
| `*Proofs` | theorems, each about the module it is named after (`JobHistoryProofs`: more about `JobService`) |

A definition that begins with `Mut` is a plausible bug: a variant of the definition below it, which
`PROJECT.json` puts in its place to show that a property would notice.

**`TaskQueue`** has one variable, `tasks`, a function from the identities of existing task files to
records. Identities are handed out in creation order, because the code orders by `CreatedAt`. The
lease deadline is reduced to what `Claim` asks: none, live, expired. A file is replaced by a rename,
so a failing save leaves the old record; `Faults` switches on failing saves and crashes inside
handlers. `Claim` is the interesting method: it sweeps cancelled and exhausted tasks, ignoring
failing saves (`lost`), then delivers the oldest claimable task, or none, or fails.

**`JobService`** adds `jobs`. Every method holds `Service.mu`, so without faults it is one step. A
method that changes both files writes the task first; `saved = FALSE` is the step in which the
process died, or save and rollback failed, between the two. An artifact path is the number of the
attempt whose directory it points into. `UserNext` are the public routes, `WorkerNext` any call the
owner of a lease may make, in any order, and `TimerNext` is `Reconcile` and time.

**`Workers`** replaces `WorkerNext` by the workers themselves. `worker[w]` says where the main thread
is (`idle`, `accepting`, `working`, `finishing`, `failing`, `acking`), for which task, and what its
guard thread does. A call is one step with its handler, and ends in one of four ways: answered
(`Heard`); handled but not answered, or answered 500; lost; or handled later, when the caller has
given up (`late`). `ended` is a history variable: how the work itself ended, whatever was reported.
The order of checks is the code's: an exit code is seen before the guard's events
(`process.py:53-58`), the guard ends with its first event (`lease.py:71, 75, 81`), `complete` and the
first heartbeat fall through to `fail` when they go unanswered (`runner.py:69`), and `fail` and
`cancelled` are tried once.

**`Artifacts`** puts files under the job service. `files[<<j, n>>]` is the directory of an attempt: the edited
asset, renders, dataset and archive, each with its staging path (`...Partial`), and what a
reconstruction retains. Content is where it comes from: an edit, or for a sample the edit and the
backgrounds it shows. A worker is a `run`: its task, the step it is at, the views it still has to make
and the asset it loaded; each step on published files is an action (start, load, one view, remove one file of
the old directory, rename the new one, and so on), and a run may end after
any of them: by a failure report, a cancellation (where `guard.check()` is called), or without a word.
What it leaves is what the next one finds. `shutil.rmtree(..., ignore_errors=True)` in `render.py:156`, `dataset.py:152`
and `reconstruct.py:245` is the step `clear`, which `Remains` lets remove one view (or sample) after the other and
the empty directory last; an error it ignores leaves the rest, and then the rename, which needs a free name
(`Free`), raises: the run ends at `clear` by `Stop`. The training tree goes in the step `drop`. On the app's side `SaveEdit` and `SetBackgrounds` are
`SaveCleaned` and `SetBackgroundDir` with their two renames; with `Interrupts` the process may
die after the first rename or before the job is saved (`SaveEditDies`, `SetBackgroundsDies`), and
`backups` remembers which replacements nobody will ever finish. `History` keeps two history variables, `solo` and
`overtaken`, which the properties use as premises (section 4). `Workers` and `Artifacts` look at the
same worker from two sides: there calls, threads and leases, here files.

**`WorkerClock`** is the third view of the worker: durations. Every thread has a place, the time it has
been there and what its call met in the app; `Tick` passes a second unless a thread is due, so a thread that is
due goes on within the second. A call is handled at any moment after it is made, or not at all, is
answered within `Latency`, or fails at any moment until `Timeout`. `held` is the time since the app last set the
deadline of the lease, `silence` the time since the guard's `_last_success`; `TakeAway` is the `Claim` of
somebody else. `due`, `seen` and `touched` are the worker's own clock for its report, the monitor's and the
health check's. The urllib timeout is one of each socket operation, so `Timeout` is to be read as the longest a
call may take; the theorems hold for every value of it.

**`EventStream`** abstracts the jobs' files to a version number. The service saves and publishes under one lock,
in two steps (a crash may come in between); the broker keeps a bounded count of events, since the page ignores
their content; `sent` is the event on the wire. On the page there is the debounce timer, any number of fetches
under way, each with the version it was answered, and the rule that cards stay while a file is chosen
(`app.js:49`). `excused` remembers, until an up-to-date answer is shown, that the page may be stale for
another reason than a dropped event: a broken connection, a failed or overtaken fetch, a chosen file.

**`Uploads`** has for each request the place of its handler, its files in `incoming`, a `.partial` file, and what
the service accepted of it. Parts arrive in any order; every early return of `UploadVideo`, `UploadPLY`,
`SaveCleaned` and `UploadBackgrounds` is a step. A file is sound or not; what looks at it is `Acceptable`.
**`Reconstruction`** goes from `inspect` through the passes, whose results are any of `Registrations`, to `report`;
`Deliver` starts over at any moment with whatever the earlier delivery left in `quality` and `splat`. **`Captures`**
joins the two: the upload that `AddVideo` accepts becomes the input, its profile decides the frame plan.

## 4. What TLC checks

| Run | Question | Bounds |
|---|---|---|
| `queue` | `DeliveryBound`, `LeaseProtectsHolder`; does the queue implement `TaskLifecycle`? does a waiting task ever wait for ever (`NothingStarves`)? | 1 job, 2 workers, 3 tasks, 2 deliveries, faults |
| `jobs` | what tasks may rely on, under every order of calls: `WorkHasInputs`, `NewVideoNewAttempt`, `ForgetsOnlyRenders`, `LetsGoWhenOver` | 3 tasks, 2 attempts, 1 delivery, no faults |
| `jobs_faults` | do job and task files agree, although handlers stop half way? `CurrentTaskIsOurs`, `ArtifactsAreTheActiveAttempts`, `StateMatchesTask`, `CancelReachesTask`, `EarlierAttemptsKept`; is what an attempt gets made by the job's own task (`AcceptedWhenEarned`); does a job learn what it missed (`JobLearnsOutcome`)? | 2 tasks, 2 attempts, 2 deliveries, faults |
| `workers` | who may conclude a task, and with what (`SuccessIsEarned`, `OnlyCancelledByUser`)? does a cancellation arrive (`StopsWhenCancelled`), does every task end (`EveryTaskEnds`)? | 2 workers, 1 task, 2 deliveries, 1 late call, 2 missed calls, no backgrounds |
| `artifacts` | are accepted renders of the saved edit (`RendersAreOfThisEdit`), how much of them is there, and is an offered dataset of one making (`DatasetIsOfOneMaking`)? | 1 job, 1 attempt, 2 workers, 3 tasks, 2 views, 2 edits, 2 backgrounds, interrupted replacements, no faults |
| `worker_clock` | how long may work outlast its lease (`OverlapIsBounded`)? does one lost heartbeat cost anything (`OneMissIsNoLoss`)? is an idle worker shown online and healthy (`IdleWorkerIsOnline`, `IdleWorkerIsHealthy`)? | the durations of the code and its defaults, in seconds; answers within 2 s |
| `event_stream` | does the stream alone suffice while it holds (`StreamSuffices`)? does polling repair the rest (`DashboardCatchesUp`)? | buffer of 2, 4 changes, 2 fetches at a time |
| `captures` | what of an upload stays (`NothingLeft`) and what reaches a job (`OnlyCheckedIsTaken`)? is the best model kept (`BestIsChosen`), trained only if it is large enough (`TrainsOnEnough`), and described by the file beside it (`QualityOfModel`)? are passes within bounds (`PassesArePlanned`)? | 2 requests, 2 files, 2 deliveries, 5 results of COLMAP, 3 profiles, 50 or 3000 frames of unknown or 200 s duration |
| `one_active_task`, `survives_restarts`, `retained_for_audit`, `one_at_work` | section 5 | as small as shows it; `one_at_work` has the durations of `worker_clock` |

**Why the bounds are enough.** Two jobs meet only in the queue, whose methods look at the job of a
task in `CancelByJob` alone: the job runs use one job. Three tasks are needed for a task that is
swept, one that blocks and one that waits, and for render and dataset after a reconstruction; two
attempts for everything about switching and for a stale task of an earlier attempt. Two deliveries
are the code's own limit (`MaxAttempts: 2`), lowered to one where redelivery is not the question. Two
workers give a worker that lost its lease and the one that took over. `Grace` bounds the heartbeats
a guard may miss in a row: the guard may give up after any of them, so a larger value adds only
longer waits; with two it may survive a miss, or not. The run leaves out background uploads (`NoBackground`), which
none of its properties looks at. `MaxLate` bounds the calls in the air: one suffices to arrive in a delivery it was not
made for.

`artifacts` needs three tasks: render, dataset, and one more that finds what they left. Two views tell
a part from the whole, two edits and two sets of backgrounds tell a mixture. One delivery is enough for leftovers,
since a new task finds those of a failed one just as a second delivery does. One task that fails or is cancelled
is followed up: a second one would leave a part again of what the first has left. The state constraint
`Bound` stops where `solo` is lost (see below), since nothing is promised after it. The second worker is there for its polls:
it lets the sweep fail a dataset whose lease ran out while the first worker still builds it, and takes no task
itself. There is one interrupted replacement, followed by at most two tasks, or by three if it was of backgrounds and the last
two are datasets. A reconstruction, which touches none of what the two properties look at, is alone.

`worker_clock` needs no bound but its durations: a thread moves on when it is due, and clocks that are only
compared stop at the limit. `StopTime` is 10 s for `terminate` (`process.py:15-30`) and one for the half second
between two looks at the guard. `event_stream`: a buffer of two is overrun by three of four changes, and two
fetches are enough to overtake each other. `captures`: the five results of COLMAP lie on both sides of each
branch of the gate; 3000 frames of 200 s push each profile to its cap or near it, 50 frames cut every target,
and an unknown duration leaves the profile's minimum; one request may be of a video and the other of anything.
A request that holds two files at most tells one file, two, and none.

**Deadlock** is checked in `worker_clock` and `event_stream`, which never rest: in `worker_clock` it would mean that time stands still. It is not checked elsewhere: with a bounded number of tasks, jobs and attempts a model ends in states
in which everything is over, which in the program is a system at rest.

**Fairness.** `queue` assumes that some worker polls for ever (`worker_main.py:43-75`).
`jobs_faults` assumes that a whole pass of `Reconcile` happens again and again: the app runs one at
start and every 30 seconds (`cmd/server/main.go:35-48`). `workers` assumes that a living thread
goes on (the check beside a command runs every half second, the guard beats every five), that not
every poll is lost, and that a lease *nobody keeps alive* runs out. It does not assume that a call
is ever answered apart from the polls, that a worker stays alive, or that work ends: `StopsWhenCancelled` holds of a command
that runs for ever, and `EveryTaskEnds` names the ending of work as its premise. A lease whose holder
is alive may expire in the model, as a busy machine may make it, but nothing forces it to. `event_stream` assumes
that the interval timer keeps firing (`app.js:209`, weak fairness of `Poll`) and that a fetch that is tried again and
again is at some time answered and shown (strong fairness: any of them may fail); of the stream itself it assumes
nothing. `DashboardCatchesUp` has as its premise that at some time no file is chosen any more.

**What the properties say.** `SuccessIsEarned` needs the whole program: a success is recorded only
for the worker that owns the task and only after that worker has done the work, however calls are
lost, delayed or answered twice. It does not say *in this delivery*: reports carry no delivery number,
and a late `complete` of an earlier delivery to the same worker is accepted. `OnlyCancelledByUser` is
about the two flags a heartbeat merges (`service.go:431-441`): the job's flag is left set by a cancel
of an idle job, and only because every method that starts a task clears it does it never stop a task
nobody cancelled. It holds without faults only: if the process dies after the new task was saved
and before the job was, the old flag stops the orphaned task. Without faults no step of another task can
set a flag, so one task shows it. `LetsGoWhenOver`
and `StateMatchesTask` make an exception for a job put back to `RENDER_READY` by a background upload
during a render, the subject of `one_active_task`. `ForgetsOnlyRenders` says how far that goes: a job may forget a
render at work, never a reconstruction or a dataset. It holds without faults only, because a start
interrupted between its two saves leaves any task without a job that waits for it.

`AcceptedWhenEarned` says where an attempt's renders and dataset come from: the task that the job is waiting for made them,
at this attempt, and it has succeeded. Starting a render does not give them to the attempt, nor does a task that the
job let go of, an interrupted handler, or a switch between attempts. It is about the attempt's own record: the job
*names* a render directory when the render starts (section 5).

`RendersAreOfThisEdit` and `DatasetIsOfOneMaking` have premises. `solo` is a history variable: no two
tasks of a job, and no two workers at a task, have ever been at work together. The code does
not rule that out (`one_active_task`, and a worker that has lost its lease but does not know it yet), and
all of them would write to the same staging path: `render.py:84` derives it from the attempt, not from
the task. And an attempt whose asset was being replaced when the app died (`backups`) is left out of what is
said about edits, because the job then names an asset that is gone or that it does not know of;
`replaceWithBackup` says that it "atomically commits" (`service.go:635`), but it takes two renames
and nothing looks for backups later. `DatasetIsOfOneMaking` has a third, which only its proof brought to light:
`overtaken` are the attempts whose dataset stayed on offer while backgrounds changed under a
worker that was making samples. `SetBackgroundDir` refuses that by the job's state and current task; a worker whose task
the sweep has failed still builds, and if the dataset built before stays on offer (the app dies before it takes the
offer back, or another attempt is active, whose offer is all it takes back) the worker moves a mixture of old and new backgrounds over it.
The run contains the first of these behaviours, and without the premise TLC ends in it.

What remains is not obvious. The attempt goes on to accept its old renders while they are removed one by one for new ones
(`StartRender` leaves `RenderDir` set, `service.go:292-296`), so a worker that dies in between, or whose rename fails, leaves any
part of them, and `StartDataset` takes the part (`service.go:355`, `dataset.py:39`). Both properties therefore promise all views
only if the attempt's *latest* render task succeeded (`LastRenderSucceeded`), which is to say that leftovers do not survive a
render that does: that task removes what it finds before its own renders take the name, and no task after it touches them. The run
reaches both cases; without that premise TLC ends in a render that succeeds, a second that dies while it publishes, and
a dataset made of one view of two. What holds of every part is that it is of one making: never views of two edits, nor of an edit
that is not the saved one, nor samples of two of anything. And a dataset stays on offer, unchanged, while its successor
is being built and whatever becomes of that, even by a worker that the service has given up. With `Faults`, a render whose task was saved and whose job was
not may succeed after the dataset was made of a part, which is why `DatasetIsOfOneMaking` then promises no number of views.

`OverlapIsBounded` is the sum that nobody wrote down: the guard notices silence only after a heartbeat that may
itself block, and the commands take time to die. With the defaults it is 58 s against a lease of 45 s, which is the
subject of `one_at_work`; `OneMissIsNoLoss` says that the lease is not too short for one lost call. `OverlapIsBounded` is
about commands and loops that look at the guard: inspecting a video, moving results into place, and zipping a dataset
(`quality.py`, `reconstruct.py:240-270`, `dataset.py:155-163`) do not, and take as long as they take. The
two about an idle worker state what the windows of 20 s and 30 s must cover: a pass of the loop with slow or
unanswered calls. Both are silent about a worker at a task, where nothing is reported and nothing touched (below).
Each of the three is an implication from the durations, and with those of the code the premise is true.

`StreamSuffices` explains why dropping events is harmless: an event carries no state, so what a full buffer drops is
covered by the events before it, as long as the fetch they cause starts after the save. `QualityOfModel` is about
redelivery: the file is written before the gate and before hours of training, so that it must be written again
by each delivery. `NothingLeft` excepts a crash and a failing rename, after which nobody cleans `incoming`.

## 5. Disagreements with the docs and messages

Each of these has a run that ends in a counterexample.

* **`one_active_task`**: "job already has an active processing task" is tested by state *and* current
  task. `SetBackgroundDir` resets the state during a render (`service.go:333`), after which a second
  task can be started beside the first, and the job forgets the first. That is the only way
  it happens without faults, and only a render is forgotten: `ServiceOneActiveTask` and `ServiceForgetsOnlyRenders`, section 6.
* **`survives_restarts`**: "tasks survive app and worker restarts" (`README.md:84`). An app restart that
  swallows the answer to a worker's first heartbeat or to its `complete` is handled as failed work;
  if the following `fail` gets through, the task is `FAILED` with a delivery left and nothing wrong.
* **`retained_for_audit`**: the processed capture and the training run "are retained so an accepted
  reconstruction remains auditable/reproducible" (`worker/prodsplat/reconstruct.py:243-244`). The capture
  is kept as `<attempt>/dataset`, which is also where `StartDataset` lets the dataset be built
  (`service.go:363`): publishing it removes the capture (`dataset.py:152`), and the retained
  configuration, rewritten to that path, then points at synthetic images.

* **`one_at_work`**: "The worker aborts if ... the control plane is unreachable for long enough that a second worker
  may legitimately reclaim the task" (`lease.py:19-21`). The grace of 30 s is looked at only when a heartbeat has
  failed: waiting and a blocked call come on top (`lease.py:60, 78`, `client.py:23`), and then the command's ten seconds
  to die. The run ends with a worker at work whose lease of 45 s is over and whose task is another's. The theorem
  `LongLeaseIsSafe` says what lease would be long enough.

Noted while modelling, without a run:

* "A new video always creates a new attempt" (`docs/ARCHITECTURE.md:65`) fails across a crash between the save of the
  task and the save of the job (`service.go:113-129`): the orphaned reconstruction and that of the next video share an
  attempt number and a directory. `NewVideoNewAttempt` is checked and proved without faults.
* "rendered RGBA views and background images are required" (`service.go:356`) tests only that a render directory is
  named. `StartRender` names it at once (`service.go:292`), a failed render does not clear it, and the dataset task
  then fails for want of views, or takes those that an interrupted removal has left (`render.py:156`, `dataset.py:39`): a dataset
  of fewer views than the 32 of `README.md:61` and `docs/VALIDATION.md:26`, offered like any other. "Task outputs are
  written through staging paths before becoming stable outputs" (`README.md:87`) is true of writing; the removal of what was stable is not staged.
* "cannot replace backgrounds while dataset generation is active" (`service.go:320`) tests the job's state and current
  task. A worker whose dataset task was given up builds on until its guard notices, and mixes samples of both
  sets; see `overtaken` in section 4.
* The worker makes no report while it runs a task (`worker_main.py:77-88`): 20 s into it the dashboard and `/ready` call it
  offline, and 30 s into it the container's health check fails (`compose.yaml:47-55`).
* The monitor has a single slot (`worker_status.go:19-32`): of several workers it shows the last to report.
* `UploadPLY` and `SaveCleaned` look at the header alone (`storage/local.go:80-141`): a PLY whose body is cut off is accepted,
  and refused by the worker when it is rendered; a video is not looked at before the worker does.
* A `.partial` file stays when its rename fails (`storage/local.go:77`), and nothing clears `incoming` after a crash.
* Two deliveries of one reconstruction share its scratch directory, which the second removes under the first
  (`reconstruct.py:66-67`).
* `docs/ARCHITECTURE.md:59` promises task-specific staging directories; reconstruction has them, renders and datasets share one per attempt (`render.py:84`,
`dataset.py:47`).

## 6. What is proved

Theorems hold for any number of jobs, workers, tasks, attempts and deliveries, with and without
faults, and for any durations. They rest on the named assumptions about constants (`QueueAssumption`,
`ServiceAssumption`, `WorkersAssumption`, `ArtifactsAssumption`, `ClockAssumption`, `EventAssumption`, `UploadsAssumption`,
`ReconstructionAssumption`, `CapturesAssumption`) and, where a theorem says so, on `Faults = FALSE` or on a lease that is long enough.

**The queue.** `IInv` says of each task file that it has its type and that `RUNNING` implies a counted
delivery with owner and deadline, `READY` none. The delivery bound alone is not inductive: it needs the
clause on `READY`. `EveryStepShape` reduces every method to `RowNext`, what a step may make of a single
task, and `RowPreserved` does the rest. From it: `QueueTypeCorrect`, `QueueDeliveryBound`,
`LeaseProtectsHolderHolds`, and `QueueImplementsLifecycle`, the refinement: initial states map to initial states,
every step maps to a step of each task's contract, and `OneDelivery` shows that a poll delivers one.

**The job service.** `Inv` is `IInv` with, for each job, `JobOK` (its type; it shows what its active attempt
owns) and `Linked` (its current task exists, is its own, works for the active attempt and fits its
state, and a cancellation shown is in the task too). `Linked` had to be strengthened: a job that
reconstructs has no render directory. Without it, nothing would keep a background upload from turning a
reconstructing job into `RENDER_READY`. Each method has a lemma that the one job it saves is in
order, and `QueueKeepsLinks` says that no step of the queue disturbs the others. From it:
`ServiceTypeCorrect`, `ServiceCurrentTaskIsOurs`, `ServiceArtifacts`, `ServiceStateMatchesTask`,
`ServiceCancelReachesTask`. `ServiceDrivesQueue` shows that every behaviour of the service is a behaviour
of the queue, so its theorems carry over (`ServiceImplementsLifecycle`, `ServiceDeliveryBound`).

**The whole program.** `SystemImplementsService`: workers, threads and a lossy connection do nothing to the
files that the control plane's specification does not allow, so every theorem above holds of the
whole (`SystemImplementsLifecycle`). `SystemSuccessIsEarned` follows the worker: it is `finishing`
only after the work is done (`WorkerOK`), a late `complete` says nothing else (`CallOK`), and no other
step makes a task succeed (`NoNewSuccess`). `SystemTypeCorrect` is the type invariant of the whole.
`SystemOnlyCancelledByUser`, without faults, rests on `UInv`: a job shows a cancellation only while each of its
unfinished tasks, not just the current one, has been cancelled (`CancelsAll`); so the answer `cancel` is meant for
the task of the call (`AnswerMeant`), and what a guard, a worker or a late `cancelled` knows of a cancellation
stays true (`WorkersMeant`, `CallsMeant`), because no step takes a request back. That the job of a task exists
comes from `HistoryInv`.

**Files.** `ArtifactsImplementService`: with the files, too, job and task files see only what the service's
specification allows. `ArtifactsTypeCorrect` is more than its name says, for directories are partial
functions that several writers extend: it shows that a worker always writes the
kind of thing its task is for, with an asset it did load. Its invariant is `DiskOK`, which adds `RunOK` to
the types: a run is at a task that exists and draws views only of an edit. It needs `StepKeepsTasks`,
that no step of the service removes a task file or changes its kind, and holds without `solo`.

`ArtifactsRendersAreOfThisEdit` and `ArtifactsDatasetIsOfOneMaking` need more: `FilesInv`, in which `SoloInv` follows the
files as long as `solo` holds. For each place it says what is there when the attempt has renders or a dataset, *or the
current task has just made them* (`RendersOK`, `DatasetOK`): between the two saves of a report, and until `Reconcile`, the task file is
ahead of the job. For each run it says what is in which staging path at which step (`RenderRun`, `DatasetRun`): the views
made so far are exactly those no longer in `left`, all with one content. The clauses about the saved edit and the backgrounds
hold only while somebody wants the result, that is, while the attempt has it or the job waits for it (`Awaits`); this is what lets
a worker that was given up go on without harm. The proof goes by kind of step. A method or a call moves no file that a run uses (`FilesStay`, with `PlaceKept` and
`BuildKept` for a place and a run); a step of a worker changes only the place of its task, where, by `Alone`, nobody else is
(`StepHere`, `OthersAreElsewhere`). What connects files and jobs is `ClaimsFollow`: an attempt gets what its
current task made, and nobody else waits for anything while a task is in hand.
How many views are there takes three more facts. What is there is `Filled(S, e)`: the views of some set, all of one content, which
a removal keeps (`FilledRemains`). A task in hand is the newest of its job (`Newest`), because tasks are
created one after the other and `solo` keeps two from being in hand. So while a render runs, the attempt's latest render has
not succeeded and, without faults, no dataset of it is offered or awaited (`RerenderOK`): the number of views in renders and
archive may shrink only where nothing is promised about it, and `FinishDelivers` and `LatestFollows` show that the promise is renewed only by the run
that has just put all of them there.

**What the service never takes back.** `JobHistoryProofs` goes through the methods once more, now with what a step makes of a
job: `JobKept` says that no attempt but the active one changes, that models and edits are not lost and backgrounds
stay. Beside `Inv` it needs `HistoryInv`: a job whose current task is a reconstruction has no model yet (else a
late outcome could take one away), every task finds its inputs, and, without faults, the attempts of
reconstructions are all different and listed. From it: `ServiceKeepsAttempts`, `ServiceWorkHasInputs`,
`ServiceNewVideos` and `ServiceLetsGo`, the last two without faults, because an interrupted `AddVideo` does break the first and
an interrupted report leaves the job with its task until `Reconcile`. `ServiceAcceptsWhatIsEarned` holds with faults: `JobClaims` says what a step makes of a job's
renders, dataset and current task, one lemma per method, and `AllCleared`, that a job which waits for a render has no dataset on
offer, is the part that is an invariant. Both are what `ClaimsFollow` above stands on.
The module ends with a job's hold on its task. `StepMoves`: a step lets go of it, or keeps it and the job's state (a background
upload may change the state), or puts a task in its place that is new. A task that is not over is therefore let go of
only while its job shows `RENDER_READY`, and such a job's task is a render (`Inv`): `ServiceForgetsOnlyRenders`. With
`UploadsWait`, the assumption that no background is uploaded while the job has a task, no job shows `RENDER_READY` and has one
(`OneAtATime`), and no job has two unfinished tasks: `ServiceOneActiveTask`.

**The clock.** `LeaseInv` follows the guard: its silence is bounded by its place and age (`Silent`: at most `Grace` when it goes back
to waiting, an interval more when it asks, a timeout more when it fails), the lease is at most an answer older than the
silence (`LeaseIsYoung`), and a task is taken only when the lease is over (`TakenIsOverdue`). From it `OverlapBounded`,
`OneMissKeepsLease` and, for a long lease, `LongLeaseIsSafe`. `Touched` and `Seen` bound the two reports at each
place of the main loop, for `IdleHealthy` and `IdleOnline`.

**The stream.** `StreamIsEnough` needs that no fetch and no card is ahead of the files (`NothingInvented`): an answer that is applied
is the present version, or another fetch or event is on its way, or the page is excused.

**Captures.** `StagedInv` says for each place of a handler what is staged, being copied, left and taken. `TaskInv` has one part
for before, during and after the passes. `PrimaryBounds`, `RescueBounds` and `ExhaustiveBounds` are lemmas about the
frame plan for every duration and rate; `BetterIsOrder`, that comparing two ratios by cross-multiplication is an
order, is what makes the best of two passes the best of three (`BestAfterPass`).

**Model-checked only.** The liveness properties (`NothingStarves`, `JobLearnsOutcome`, `StopsWhenCancelled`, `EveryTaskEnds`,
`DashboardCatchesUp`), which the prover cannot do under fairness. The properties of section 5's runs are refuted, so there is nothing to prove of them
but `LongLeaseIsSafe` and `ServiceOneActiveTask`, which hold under a condition the code does not meet.

## 7. What is not modelled

* Progress, messages, error texts, results, payloads, timestamps, revision numbers: no property is
  about them. One consequence is noted as a hazard: a stale task's heartbeat overwrites its job's progress.
* Logs, and the removal of leftovers (`AddVideo`'s video file). What an image shows: a view or a sample is its
  origin, and every view is taken to show the product (`dataset.py:93` skips those that do not).
* The removal of staging directories, which is one step: no other step reads them, and the next delivery removes them
  again before it writes. An unlink error ignored there is left out, as is what a partly removed capture still holds, and the manifests beside views and samples.
* Late calls and threads in `Artifacts`, files in `Workers`: each module leaves out the other's subject.
* Elapsed time in `Workers`: a lease may expire at any moment there, and a guard may give up after any missed call.
  `WorkerClock` has the durations, for one worker and one task at a time, and leaves out what is reported.
* Floating point in the frame plan: durations and rates are tenths there, and rounding is left out.
* What videos, PLY bodies and COLMAP results contain: each is an input with a verdict. The header parsers line by line,
  `worker/bin/colmap` (it decides only whether a command succeeds) and preflight (its verdict is an input of `WorkerClock`).
* Downloads, logs over HTTP, request limits, tokens and configuration, the commands of the GPU pipeline, the editor glue
  and packaging: they hold no state that the properties depend on.
