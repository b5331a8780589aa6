---------------------------- MODULE EventStream ----------------------------
(***************************************************************************)
(* How a change of a job reaches the dashboard.  The service publishes an  *)
(* event after it has saved a job (jobs/service.go); the broker keeps a    *)
(* buffer for each subscriber and drops what does not fit                  *)
(* (events/broker.go); the handler Events writes the events to an open     *)
(* connection (api/handler.go).  An event carries no state: the page       *)
(* fetches all jobs again, shortly after an event and every ten seconds,   *)
(* and several fetches may be under way (web/app.js).                      *)
(*                                                                         *)
(* There is one page: subscribers do not affect each other.  What the      *)
(* jobs' files hold is a number that every save increases.                 *)
(***************************************************************************)
EXTENDS Integers

CONSTANTS Buffer,      \* capacity of a subscriber's channel
          MaxVersion,  \* bound: saves
          Fetches      \* bound: fetches under way at a time

ASSUME EventAssumption == Buffer \in Nat \ {0} /\ MaxVersion \in Nat

VARIABLES
  version,      \* of the jobs' files
  unpublished,  \* the service has saved and still holds its lock
  subscribed,   \* a handler Events runs for this page
  queue,        \* events in its channel
  sent,         \* an event written to the connection and not yet seen
  timer,        \* refreshTimer runs
  fetch,        \* fetch[f]: a call of refresh()
  selecting,    \* a file is chosen in some input of the page
  shown,        \* the version that the job cards show
  excused       \* history: the page may be stale for another reason than the stream

vars == <<version, unpublished, subscribed, queue, sent, timer, fetch, selecting, shown, excused>>
serverVars == <<version, unpublished, subscribed, queue>>
pageVars   == <<timer, fetch, selecting, shown>>

Unused      == [at |-> "unused", version |-> 0]
Asked       == [at |-> "asked", version |-> 0]
Answered(v) == [at |-> "answered", version |-> v]

TypeOK ==
  /\ version \in 0 .. MaxVersion /\ shown \in 0 .. MaxVersion
  /\ unpublished \in BOOLEAN /\ subscribed \in BOOLEAN /\ sent \in BOOLEAN
  /\ timer \in BOOLEAN /\ selecting \in BOOLEAN /\ excused \in BOOLEAN
  /\ queue \in 0 .. Buffer
  /\ fetch \in [Fetches -> {Unused, Asked} \cup {Answered(v) : v \in 0 .. MaxVersion}]

\* The page has been loaded; its first refresh shows everything there is.
Init ==
  /\ version = 0 /\ shown = 0
  /\ unpublished = FALSE /\ subscribed = FALSE /\ queue = 0 /\ sent = FALSE
  /\ timer = FALSE /\ selecting = FALSE /\ excused = FALSE
  /\ fetch = [f \in Fetches |-> Unused]

----------------------------------------------------------------------------
(* The app. *)

\* Every operation of the service saves the job and publishes under one lock.
Save ==
  /\ ~unpublished /\ version < MaxVersion
  /\ version' = version + 1 /\ unpublished' = TRUE
  /\ UNCHANGED <<subscribed, queue, sent, pageVars, excused>>

MutRoom == TRUE
Room == queue < Buffer

Publish ==
  /\ unpublished /\ unpublished' = FALSE
  /\ queue' = IF subscribed /\ Room THEN queue + 1 ELSE queue
  /\ excused' = (excused \/ ~subscribed)
  /\ UNCHANGED <<version, subscribed, sent, pageVars>>

\* The loop of the handler Events; a slow connection lets the channel fill.
Forward ==
  /\ queue > 0 /\ ~sent
  /\ queue' = queue - 1 /\ sent' = TRUE
  /\ UNCHANGED <<version, unpublished, subscribed, pageVars, excused>>

\* A new channel.  The page has no listener for the event "hello".
Subscribe ==
  /\ ~subscribed /\ subscribed' = TRUE
  /\ UNCHANGED <<version, unpublished, queue, sent, pageVars, excused>>

\* The connection breaks, and the channel goes with it.
Cut ==
  /\ subscribed /\ subscribed' = FALSE
  /\ queue' = 0 /\ sent' = FALSE /\ excused' = TRUE
  /\ UNCHANGED <<version, unpublished, pageVars>>

\* The app dies and is started again: only the files survive.
CrashApp ==
  /\ subscribed' = FALSE /\ queue' = 0 /\ sent' = FALSE
  /\ unpublished' = FALSE /\ excused' = TRUE
  /\ UNCHANGED <<version, pageVars>>

----------------------------------------------------------------------------
(* The page. *)

\* scheduleRefresh: a timer that runs starts again.
Receive ==
  /\ sent /\ sent' = FALSE /\ timer' = TRUE
  /\ UNCHANGED <<serverVars, fetch, selecting, shown, excused>>

Begin(f) == fetch[f] = Unused /\ fetch' = [fetch EXCEPT ![f] = Asked]

MutTimerFires(f) ==
  /\ timer /\ timer' = FALSE
  /\ IF fetch[f] = Unused THEN Begin(f) ELSE UNCHANGED fetch
  /\ UNCHANGED <<serverVars, sent, selecting, shown, excused>>
TimerFires(f) ==
  /\ timer /\ timer' = FALSE
  /\ Begin(f)
  /\ UNCHANGED <<serverVars, sent, selecting, shown, excused>>

\* setInterval; the buttons refresh the page the same way.
MutPoll(f) ==
  /\ ~subscribed /\ Begin(f)
  /\ UNCHANGED <<serverVars, sent, timer, selecting, shown, excused>>
Poll(f) ==
  /\ Begin(f)
  /\ UNCHANGED <<serverVars, sent, timer, selecting, shown, excused>>

\* ListJobs reads all files at one moment.
Answer(f) ==
  /\ fetch[f].at = "asked"
  /\ fetch' = [fetch EXCEPT ![f] = Answered(version)]
  /\ UNCHANGED <<serverVars, sent, timer, selecting, shown, excused>>

\* The answer of f arrives.  The cards stay as they are while a file is chosen,
\* and an answer that was overtaken takes them back.
Apply(f) ==
  LET v == fetch[f].version IN
  /\ fetch[f].at = "answered"
  /\ fetch' = [fetch EXCEPT ![f] = Unused]
  /\ \/ selecting /\ shown' = shown /\ excused' = TRUE
     \/ ~selecting /\ shown' = v /\ excused' = ((excused /\ v # version) \/ v < shown)
  /\ UNCHANGED <<serverVars, sent, timer, selecting>>

\* An error is displayed, and nothing tried again.
Fail(f) ==
  /\ fetch[f] # Unused
  /\ fetch' = [fetch EXCEPT ![f] = Unused] /\ excused' = TRUE
  /\ UNCHANGED <<serverVars, sent, timer, selecting, shown>>

\* The user chooses a file.  It is uploaded, which ends with a refresh, or not.
Select ==
  /\ selecting' = ~selecting
  /\ timer' \in {timer, timer \/ selecting}
  /\ UNCHANGED <<serverVars, sent, fetch, shown, excused>>

----------------------------------------------------------------------------

Next ==
  \/ Save \/ Publish \/ Forward \/ Subscribe \/ Cut \/ CrashApp
  \/ Receive \/ Select
  \/ \E f \in Fetches : TimerFires(f) \/ Poll(f) \/ Answer(f) \/ Apply(f) \/ Fail(f)

Spec == Init /\ [][Next]_vars

\* The timer of setInterval keeps firing; of the fetches some get through.
Fairness ==
  \A f \in Fetches : WF_vars(Poll(f)) /\ SF_vars(Answer(f)) /\ SF_vars(Apply(f))

FairSpec == Spec /\ Fairness

----------------------------------------------------------------------------
(* Properties. *)

\* Something is under way that will make the page show the present version.
Pending ==
  \/ unpublished \/ queue > 0 \/ sent \/ timer
  \/ \E f \in Fetches : fetch[f].at = "asked" \/ fetch[f] = Answered(version)

\* Events that a full buffer drops, that the debounce merges or that arrive
\* while a fetch is under way lose nothing (broker.go:35): as long as the
\* connection holds, fetches succeed in order and no file is chosen, a page
\* that does not show the last change has it on the way.
StreamSuffices == shown # version => Pending \/ excused

\* Whatever the stream loses, polling repairs (app.js:209): once no file is
\* chosen any more and nothing changes, the page shows the last change for good.
DashboardCatchesUp == <>[](~selecting) => <>[](shown = version)
=============================================================================
