------------------------------ MODULE Uploads ------------------------------
(***************************************************************************)
(* What becomes of a file that a client uploads: UploadVideo, UploadPLY,   *)
(* SaveCleaned and UploadBackgrounds of api/handler.go with Local.Save of  *)
(* storage/local.go.  A file is copied to a `.partial' name, renamed to a  *)
(* random name in the job's incoming directory, looked at, and handed to   *)
(* the service, which moves it away or refuses it.                         *)
(*                                                                         *)
(* Request names the upload and, as its random token, its files.  A file   *)
(* is "sound" when its reader will accept it: for a PLY, that its header   *)
(* describes Gaussians (all that is looked at here); for a video, that it  *)
(* can be decoded (which nobody looks at here).                            *)
(***************************************************************************)
EXTENDS FramePlan, Sequences

CONSTANTS Requests,
          DefaultProfile,  \* PRODSPLAT_DEFAULT_PROFILE
          MaxFiles,        \* bound: pictures in an upload of backgrounds
          Faults           \* do renames fail and does the application crash?

ASSUME UploadsAssumption ==
  /\ DefaultProfile \in STRING /\ MaxFiles \in Nat \ {0} /\ Faults \in BOOLEAN

VARIABLES
  request,   \* what each request uploads, where its handler is, its profile
  incoming,  \* its files in the incoming directory, by their contents
  partial,   \* whether its `.partial' file exists
  accepted,  \* the files of it that the service moved into the job
  littered   \* whether its handler was stopped before it could clean up

uploadVars == <<request, incoming, partial, accepted, littered>>

Kinds    == {"video", "ply", "cleaned", "backgrounds"}
Contents == {"sound", "unsound"}
Named    == Profiles \cup {"unknown"}

Places   == {"new", "reading", "saving", "checking", "handing", "ended"}

Request  == [kind : Kinds, at : Places, profile : Named \cup {DefaultProfile}]

UploadsTypeOK ==
  /\ request \in [Requests -> Request]
  /\ incoming \in [Requests -> Seq(Contents)]
  /\ accepted \in [Requests -> Seq(Contents)]
  /\ partial \in [Requests -> BOOLEAN] /\ littered \in [Requests -> BOOLEAN]

UploadsInit ==
  /\ request \in [Requests -> [kind : Kinds, at : {"new"}, profile : {DefaultProfile}]]
  /\ incoming = [r \in Requests |-> <<>>] /\ accepted = [r \in Requests |-> <<>>]
  /\ partial  = [r \in Requests |-> FALSE] /\ littered = [r \in Requests |-> FALSE]

Go(r, at) == request' = [request EXCEPT ![r].at = at]

\* The form has one file, except a form of backgrounds.
Full(r) == request[r].kind # "backgrounds" /\ incoming[r] # <<>>

\* removeIfSet, RemoveAll: what was staged is removed, and the client is told.
MutRefuse(r) ==
  /\ Go(r, "ended")
  /\ UNCHANGED <<incoming, accepted, littered>>
Refuse(r) ==
  /\ Go(r, "ended")
  /\ incoming' = [incoming EXCEPT ![r] = <<>>]
  /\ UNCHANGED <<accepted, littered>>

----------------------------------------------------------------------------
(* Local.Save.                                                             *)

SaveStarts(r) ==
  /\ Go(r, "saving")
  /\ partial' = [partial EXCEPT ![r] = TRUE]
  /\ UNCHANGED <<incoming, accepted, littered>>

\* The copy is complete and renamed; SaveCleaned has no form left to read.
Saved(r, content) ==
  /\ request[r].at = "saving"
  /\ Go(r, IF request[r].kind = "cleaned" THEN "checking" ELSE "reading")
  /\ partial'  = [partial EXCEPT ![r] = FALSE]
  /\ incoming' = [incoming EXCEPT ![r] = Append(@, content)]
  /\ UNCHANGED <<accepted, littered>>

\* The client is gone, the body is too large, the disk is full: the copy is removed.
CopyFails(r) ==
  /\ request[r].at = "saving"
  /\ Refuse(r)
  /\ partial' = [partial EXCEPT ![r] = FALSE]

\* The rename fails: the copy stays, except in a directory that is removed as a whole.
RenameFails(r) ==
  /\ Faults /\ request[r].at = "saving"
  /\ Go(r, "ended")
  /\ incoming' = [incoming EXCEPT ![r] = <<>>]
  /\ partial'  = [partial EXCEPT ![r] = request[r].kind # "backgrounds"]
  /\ littered' = [littered EXCEPT ![r] = partial'[r]]
  /\ UNCHANGED accepted

----------------------------------------------------------------------------
(* The handlers.                                                           *)

\* A multipart form is read part by part; SaveCleaned takes the body as it is.
Begin(r) ==
  /\ request[r].at = "new"
  /\ IF request[r].kind = "cleaned"
       THEN SaveStarts(r)
       ELSE Go(r, "reading") /\ UNCHANGED <<incoming, partial, accepted, littered>>

\* The profile may come before or after the file, and more than once.
ProfilePart(r, name) ==
  /\ request[r].at = "reading" /\ request[r].kind = "video"
  /\ request' = [request EXCEPT ![r].profile = name]
  /\ UNCHANGED <<incoming, partial, accepted, littered>>

FilePart(r) ==
  /\ request[r].at = "reading" /\ ~Full(r) /\ Len(incoming[r]) < MaxFiles
  /\ SaveStarts(r)

\* A part that cannot be read, a second file, an extension that is not allowed.
BadPart(r) ==
  /\ request[r].at = "reading"
  /\ Refuse(r) /\ UNCHANGED partial

EndOfForm(r) ==
  /\ request[r].at = "reading"
  /\ IF incoming[r] = <<>>
       THEN Refuse(r) /\ UNCHANGED partial
       ELSE Go(r, "checking") /\ UNCHANGED <<incoming, partial, accepted, littered>>

\* jobs.Profile for a video, ValidateGaussianPLY for a PLY.
MutAnyProfile(r) ==
  request[r].kind \in {"ply", "cleaned"} => incoming[r][1] = "sound"
MutAcceptable(r) ==
  /\ request[r].kind = "video" => request[r].profile \in Profiles
  /\ request[r].kind = "ply" => incoming[r][1] = "sound"
Acceptable(r) ==
  /\ request[r].kind = "video" => request[r].profile \in Profiles
  /\ request[r].kind \in {"ply", "cleaned"} => incoming[r][1] = "sound"

Check(r) ==
  /\ request[r].at = "checking"
  /\ IF Acceptable(r)
       THEN Go(r, "handing") /\ UNCHANGED <<incoming, partial, accepted, littered>>
       ELSE Refuse(r) /\ UNCHANGED partial

\* AddVideo, AddExistingPLY, SaveCleaned and SetBackgroundDir move what was staged
\* (JobService has the rest), or refuse it in the state that the job is in.
Taken(r) ==
  /\ request[r].at = "handing"
  /\ Go(r, "ended")
  /\ accepted' = [accepted EXCEPT ![r] = incoming[r]]
  /\ incoming' = [incoming EXCEPT ![r] = <<>>]
  /\ UNCHANGED <<partial, littered>>

NotTaken(r) ==
  /\ request[r].at = "handing"
  /\ Refuse(r) /\ UNCHANGED partial

\* The application stops: its requests end where they are, and their files stay.
UploadsCrash ==
  /\ Faults /\ \E r \in Requests : request[r].at \notin {"new", "ended"}
  /\ request' = [r \in Requests |->
                   [request[r] EXCEPT !.at = IF @ = "new" THEN "new" ELSE "ended"]]
  /\ littered' = [r \in Requests |-> littered[r] \/ request[r].at \notin {"new", "ended"}]
  /\ UNCHANGED <<incoming, partial, accepted>>

----------------------------------------------------------------------------
(* Properties.                                                             *)

\* A request that ended leaves nothing of its upload behind, however it ended:
\* each of the early returns of the four handlers removes what is staged at that
\* point.  Only a crash and a rename that fails are excepted.
NothingLeft ==
  \A r \in Requests :
    request[r].at = "ended" /\ ~littered[r] => incoming[r] = <<>> /\ ~partial[r]

\* What reaches a job was looked at: one video with a profile that exists, one
\* PLY whose header describes Gaussians.  (That it was copied to its end, too,
\* is how Save is modelled: a copy that fails ends the request.)
OnlyCheckedIsTaken ==
  \A r \in Requests : accepted[r] # <<>> =>
    /\ request[r].kind # "backgrounds" => Len(accepted[r]) = 1
    /\ request[r].kind = "video" => request[r].profile \in Profiles
    /\ request[r].kind \in {"ply", "cleaned"} => accepted[r][1] = "sound"
=============================================================================
