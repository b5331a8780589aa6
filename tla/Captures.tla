------------------------------ MODULE Captures ------------------------------
(***************************************************************************)
(* A capture on its way from the browser to a model: an upload of a video  *)
(* that the service takes becomes the input of a reconstruction task.      *)
(* The queue between them is TaskQueue; here the task is delivered.        *)
(***************************************************************************)
EXTENDS Uploads, Reconstruction

CONSTANTS FrameCounts, Durations  \* of the videos there are

ASSUME CapturesAssumption == FrameCounts \subseteq Nat /\ Durations \subseteq Nat

vars == <<uploadVars, taskVars>>

Capture == [profile : Profiles, frames : FrameCounts, duration : Durations,
            decodable : BOOLEAN]

TypeOK ==
  /\ UploadsTypeOK /\ ReconstructionTypeOK
  /\ video \in {Nothing} \cup Capture

Init == UploadsInit /\ ReconstructionInit

\* AddVideo queues the task with the profile of the form; the attempt has one video.
AddVideo(r) ==
  /\ request[r].kind = "video" /\ video = Nothing
  /\ Taken(r)
  /\ \E frames \in FrameCounts, duration \in Durations :
       video' = [profile |-> request[r].profile, frames |-> frames, duration |-> duration,
                 decodable |-> incoming[r][1] = "sound"]
  /\ UNCHANGED <<stage, delivery, passes, chosen, trained, quality, splat>>

AddOther(r) ==
  /\ request[r].kind # "video" /\ Taken(r) /\ UNCHANGED taskVars

Upload ==
  \/ \E r \in Requests :
       \/ /\ \/ Begin(r) \/ FilePart(r) \/ BadPart(r) \/ EndOfForm(r) \/ Check(r)
             \/ NotTaken(r) \/ CopyFails(r) \/ RenameFails(r)
             \/ \E name \in Named : ProfilePart(r, name)
             \/ \E content \in Contents : Saved(r, content)
          /\ UNCHANGED taskVars
       \/ AddVideo(r) \/ AddOther(r)
  \/ UploadsCrash /\ UNCHANGED taskVars

Reconstruct ==
  /\ \/ Deliver \/ Abandon \/ Inspect \/ Judge \/ Train \/ Export \/ Publish \/ Report
     \/ \E result \in Registrations :
          PrimaryPass(result) \/ RescuePass(result) \/ ExhaustivePass(result)
  /\ UNCHANGED uploadVars

Next == Upload \/ Reconstruct

Spec == Init /\ [][Next]_vars
=============================================================================
