--------------------------- MODULE Reconstruction ---------------------------
(***************************************************************************)
(* One reconstruction task from the video to the model                     *)
(* (worker/prodsplat/reconstruct.py): the capture is inspected, COLMAP is  *)
(* run on more and more frames until enough cameras are registered, the    *)
(* best model is trained on, and the result is published.  A task that is  *)
(* delivered again starts over, and finds what the earlier delivery left.  *)
(*                                                                         *)
(* ns-process-data, ns-train and ns-export are external: a command         *)
(* succeeds with some result or fails.  Publishing is one step here;       *)
(* Artifacts has its parts.                                                *)
(***************************************************************************)
EXTENDS FramePlan, Sequences

CONSTANTS Registrations,  \* results that COLMAP may have
          MaxDeliveries,  \* MaxAttempts of the task
          Nothing         \* no video, no quality.json, no model

ASSUME ReconstructionAssumption ==
  /\ Registrations \subseteq [registered : Nat, extracted : Nat]
  /\ MaxDeliveries \in Nat
  /\ Nothing \notin [registered : Nat, extracted : Nat]

VARIABLES
  video,      \* the attempt's input, with its profile
  stage,      \* what the worker does next
  delivery,   \* how often the task was handed out
  passes,     \* candidates: the models that COLMAP made, in order
  chosen,     \* selected_registration, by its place in passes
  trained,    \* the model that Splatfacto was trained on
  quality,    \* quality.json: the registrations and the one selected
  splat       \* splat.ply, by the model it comes from

taskVars == <<video, stage, delivery, passes, chosen, trained, quality, splat>>

Stages == {"waiting", "inspect", "primary", "rescue", "exhaustive", "judge",
           "train", "export", "publish", "report", "done", "failed"}
Ended  == {"waiting", "done", "failed"}

Pass == [method : {"sequential", "exhaustive"}, frames : Nat, result : Registrations]

ReconstructionTypeOK ==
  /\ stage \in Stages /\ delivery \in 0 .. MaxDeliveries
  /\ passes \in Seq(Pass) /\ Len(passes) <= 3
  /\ chosen \in 0 .. Len(passes)
  /\ trained \in Registrations \cup {Nothing} /\ splat \in Registrations \cup {Nothing}

ReconstructionInit ==
  /\ video = Nothing /\ stage = "waiting" /\ delivery = 0
  /\ passes = <<>> /\ chosen = 0
  /\ trained = Nothing /\ quality = Nothing /\ splat = Nothing

Selected == passes[chosen].result

----------------------------------------------------------------------------

\* The task is handed out, first or again: the scratch directory is removed.
Deliver ==
  /\ video # Nothing /\ stage # "done" /\ stage # "failed" /\ delivery < MaxDeliveries
  /\ delivery' = delivery + 1 /\ stage' = "inspect"
  /\ passes' = <<>> /\ chosen' = 0 /\ trained' = Nothing
  /\ UNCHANGED <<video, quality, splat>>

\* Any step may raise, and the guard may stop it: nothing is cleaned up.
Abandon ==
  /\ stage \notin Ended /\ stage' = "failed"
  /\ UNCHANGED <<video, delivery, passes, chosen, trained, quality, splat>>

\* inspect_video: a video that cannot be decoded goes no further.
Inspect ==
  /\ stage = "inspect" /\ video.decodable /\ video.frames > 0
  /\ stage' = "primary"
  /\ UNCHANGED <<video, delivery, passes, chosen, trained, quality, splat>>

\* _process_video: COLMAP extracts features, matches and maps.
Processed(method, frames, result) ==
  passes' = Append(passes, [method |-> method, frames |-> frames, result |-> result])

PrimaryPass(result) ==
  LET frames == Primary(video.profile, video) IN
  /\ stage = "primary"
  /\ Processed("sequential", frames, result)
  /\ chosen' = 1
  /\ stage' = CASE Usable(result) -> "judge"
                [] ~Usable(result) /\ Rescue(video.profile, video) > frames -> "rescue"
                [] OTHER -> "exhaustive"
  /\ UNCHANGED <<video, delivery, trained, quality, splat>>

\* A later model is taken if it is usable, or the better one of two that are not.
MutTakes(result) == Better(result, Selected)
Takes(result) == Usable(result) \/ Better(result, Selected)

Choose(result) == chosen' = IF Takes(result) THEN Len(passes) + 1 ELSE chosen

RescuePass(result) ==
  /\ stage = "rescue"
  /\ Processed("sequential", Rescue(video.profile, video), result)
  /\ Choose(result)
  /\ stage' = IF Usable(passes'[chosen'].result) THEN "judge" ELSE "exhaustive"
  /\ UNCHANGED <<video, delivery, trained, quality, splat>>

ExhaustivePass(result) ==
  /\ stage = "exhaustive"
  /\ Processed("exhaustive", Exhaustive(video.profile, video), result)
  /\ Choose(result)
  /\ stage' = "judge"
  /\ UNCHANGED <<video, delivery, trained, quality, splat>>

\* quality.json is written before the gate, so that a refusal can be explained.
MutUngated ==
  /\ stage = "judge"
  /\ quality' = [passes |-> passes, chosen |-> chosen] /\ stage' = "train"
  /\ UNCHANGED <<video, delivery, passes, chosen, trained, splat>>
MutKeepsQuality ==
  /\ stage = "judge"
  /\ quality' = IF quality = Nothing THEN [passes |-> passes, chosen |-> chosen] ELSE quality
  /\ stage' = IF Usable(Selected) THEN "train" ELSE "failed"
  /\ UNCHANGED <<video, delivery, passes, chosen, trained, splat>>
Judge ==
  /\ stage = "judge"
  /\ quality' = [passes |-> passes, chosen |-> chosen]
  /\ stage' = IF Usable(Selected) THEN "train" ELSE "failed"
  /\ UNCHANGED <<video, delivery, passes, chosen, trained, splat>>

\* The dataset of the selected pass is kept, the others are removed.
Train ==
  /\ stage = "train" /\ trained' = Selected /\ stage' = "export"
  /\ UNCHANGED <<video, delivery, passes, chosen, quality, splat>>

\* A model of a hundred Gaussians and more, that the PLY reader accepts.
Export ==
  /\ stage = "export" /\ stage' = "publish"
  /\ UNCHANGED <<video, delivery, passes, chosen, trained, quality, splat>>

Publish ==
  /\ stage = "publish" /\ splat' = trained /\ stage' = "report"
  /\ UNCHANGED <<video, delivery, passes, chosen, trained, quality>>

\* The application takes the result; until then the task may be delivered again.
Report ==
  /\ stage = "report" /\ stage' = "done"
  /\ UNCHANGED <<video, delivery, passes, chosen, trained, quality, splat>>

----------------------------------------------------------------------------
(* Properties.                                                             *)

\* The next pass runs only because none before it was usable, and the model that is
\* kept is the best of all: usable if one is, and otherwise the one with the most
\* cameras, which the message of a refusal names.
BestIsChosen ==
  /\ \A i, j \in DOMAIN passes : i < j => ~Usable(passes[i].result)
  /\ passes # <<>> =>
       /\ chosen \in DOMAIN passes
       /\ \/ Usable(Selected)
          \/ \A i \in DOMAIN passes :
               ~Usable(passes[i].result) /\ ~Better(passes[i].result, Selected)

\* The hours of training are spent, and a model is published, only for two dozen
\* cameras and more, which are a tenth of the frames or a hundred.
TrainsOnEnough ==
  \A model \in {trained, splat} \ {Nothing} :
    /\ model.registered >= 24
    /\ model.registered >= 100 \/ 10 * model.registered >= model.extracted

\* The quality.json beside a finished model describes this model, also when an
\* earlier delivery of the task had written one for another, or had published.
QualityOfModel ==
  stage = "done" => splat = quality.passes[quality.chosen].result

\* Every pass asks for at least one frame, for no more than the video has, and
\* for no more than its kind may cost; a second sequential pass asks for more
\* than the first.
PassesArePlanned ==
  \A i \in DOMAIN passes :
    /\ passes[i].frames \in 1 .. video.frames
    /\ passes[i].method = "sequential" =>
         passes[i].frames <= IF i = 1 THEN Policy[video.profile].primaryCap
                                      ELSE Policy[video.profile].rescueCap
    /\ passes[i].method = "sequential" /\ i > 1 => passes[i].frames > passes[1].frames
    /\ passes[i].method = "exhaustive" =>
         passes[i].frames <= Policy[video.profile].exhaustiveCap
=============================================================================
