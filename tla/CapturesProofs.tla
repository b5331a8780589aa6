--------------------------- MODULE CapturesProofs ---------------------------
(***************************************************************************)
(* Proofs about Captures, for any number of requests and files, any videos *)
(* and any registrations.  First the frame plan and the order of models,   *)
(* then uploads, then the passes of a reconstruction.                      *)
(***************************************************************************)
EXTENDS Captures, TLAPS

(* Sampling gives a number of frames. *)
LEMMA SampledIsNat ==
  ASSUME NEW d \in Nat, NEW rate \in Nat, NEW n \in Nat
  PROVE  Sampled(d, rate, n) \in Nat
<1>1. d * rate + 99 \in Nat
  OBVIOUS
<1>2. (d * rate + 99) \div 100 \in Nat
  BY <1>1
<1> QED BY <1>2 DEF Sampled

(* The first pass takes at least a frame, at most what the policy and the video allow. *)
LEMMA PrimaryBounds ==
  ASSUME NEW profile \in Profiles, NEW v, v.frames \in Nat, v.duration \in Nat
  PROVE  /\ Primary(profile, v) \in Nat
         /\ Primary(profile, v) <= v.frames
         /\ Primary(profile, v) <= Policy[profile].primaryCap
         /\ v.frames > 0 => Primary(profile, v) > 0
         /\ Primary(profile, v) >= Least(Requested[profile], v.frames)
<1> DEFINE s == Sampled(v.duration, Policy[profile].primaryRate, Requested[profile])
<1>1. /\ Requested[profile] \in Nat \ {0} /\ Policy[profile].primaryCap \in Nat
      /\ Policy[profile].primaryRate \in Nat
      /\ Requested[profile] <= Policy[profile].primaryCap
  BY DEF Profiles, Requested, Policy
<1>2. s \in Nat
  BY <1>1, SampledIsNat
<1> HIDE DEF s
<1>3. Primary(profile, v)
        = Least(Least(Greatest(Requested[profile], s), Policy[profile].primaryCap), v.frames)
  BY DEF Primary, s
<1> QED BY <1>1, <1>2, <1>3 DEF Least, Greatest

(* The second pass takes no fewer than the first, within its own cap. *)
LEMMA RescueBounds ==
  ASSUME NEW profile \in Profiles, NEW v, v.frames \in Nat, v.duration \in Nat
  PROVE  /\ Rescue(profile, v) \in Nat
         /\ Rescue(profile, v) <= v.frames
         /\ Rescue(profile, v) <= Policy[profile].rescueCap
         /\ Rescue(profile, v) >= Primary(profile, v)
<1> DEFINE p == Primary(profile, v)
           s == Sampled(v.duration, Policy[profile].rescueRate, p)
<1>1. /\ Policy[profile].rescueRate \in Nat /\ Policy[profile].rescueCap \in Nat
      /\ Policy[profile].primaryCap \in Nat
      /\ Policy[profile].primaryCap <= Policy[profile].rescueCap
  BY DEF Profiles, Policy
<1>2. p \in Nat /\ p <= v.frames /\ p <= Policy[profile].primaryCap
  BY PrimaryBounds
<1> HIDE DEF p
<1>3. s \in Nat
  BY <1>1, <1>2, SampledIsNat
<1> HIDE DEF s
<1>4. Rescue(profile, v) = Least(Least(Greatest(p, s), Policy[profile].rescueCap), v.frames)
  BY DEF Rescue, s, p
<1>5. Rescue(profile, v) \in Nat /\ Rescue(profile, v) >= p
      /\ Rescue(profile, v) <= v.frames /\ Rescue(profile, v) <= Policy[profile].rescueCap
  BY <1>1, <1>2, <1>3, <1>4 DEF Least, Greatest
<1> QED BY <1>5 DEF p

(* The last pass takes at least a frame, within its own cap. *)
LEMMA ExhaustiveBounds ==
  ASSUME NEW profile \in Profiles, NEW v, v.frames \in Nat, v.duration \in Nat
  PROVE  /\ Exhaustive(profile, v) \in Nat
         /\ Exhaustive(profile, v) <= v.frames
         /\ Exhaustive(profile, v) <= Policy[profile].exhaustiveCap
         /\ v.frames > 0 => Exhaustive(profile, v) > 0
<1> DEFINE s == Sampled(v.duration, 15, Requested[profile])
<1>1. Requested[profile] \in Nat \ {0} /\ Policy[profile].exhaustiveCap \in Nat \ {0}
  BY DEF Profiles, Requested, Policy
<1>2. s \in Nat
  BY <1>1, SampledIsNat
<1> HIDE DEF s
<1>3. Exhaustive(profile, v)
        = Least(Least(Greatest(Greatest(Requested[profile], 120), s),
                      Policy[profile].exhaustiveCap), v.frames)
  BY DEF Exhaustive, s
<1> QED BY <1>1, <1>2, <1>3 DEF Least, Greatest

\* The profile's number of frames is a minimum, as quality.py promises of its plans
\* and profiles.go of every profile: no cap undercuts it, only a video with fewer
\* frames.  A second sequential pass is never sparser than the first.
THEOREM ProfileIsMinimum ==
  ASSUME NEW profile \in Profiles, NEW v, v.frames \in Nat, v.duration \in Nat
  PROVE  /\ Primary(profile, v) >= Least(Requested[profile], v.frames)
         /\ Rescue(profile, v) >= Primary(profile, v)
BY PrimaryBounds, RescueBounds

(* Models are ordered. *)
LEMMA BetterIsOrder ==
  ASSUME NEW a \in [registered : Nat, extracted : Nat],
         NEW b \in [registered : Nat, extracted : Nat],
         NEW c \in [registered : Nat, extracted : Nat]
  PROVE  /\ ~Better(a, a)
         /\ Better(a, b) /\ Better(b, c) => Better(a, c)
<1>1. ~Better(a, a)
  BY DEF Better, Greatest
<1>2. ASSUME Better(a, b), Better(b, c) PROVE Better(a, c)
  <2>1. CASE a.registered > b.registered \/ b.registered > c.registered
    BY <1>2, <2>1 DEF Better
  <2>2. CASE a.registered = b.registered /\ b.registered = c.registered
    <3> DEFINE x == Greatest(a.extracted, 1)
               y == Greatest(b.extracted, 1)
               z == Greatest(c.extracted, 1)
               n == a.registered
    <3>1. x \in Nat /\ y \in Nat /\ z \in Nat /\ n \in Nat
      BY DEF Greatest
    <3>2. n * y > n * x /\ n * z > n * y
      BY <1>2, <2>2 DEF Better
    <3>3. n * z > n * x
      <4> HIDE DEF x, y, z, n
      <4>1. n * x \in Nat /\ n * y \in Nat /\ n * z \in Nat
        BY <3>1
      <4> QED BY <4>1, <3>2
    <3> QED BY <2>2, <3>3 DEF Better
  <2> QED BY <1>2, <2>1, <2>2 DEF Better
<1> QED BY <1>1, <1>2

----------------------------------------------------------------------------

\* What a handler has on disk at each point, and what it has established.
StagedWhere(r) ==
  /\ request[r].at = "new" => incoming[r] = <<>>
  /\ request[r].at = "saving" /\ request[r].kind # "backgrounds" => incoming[r] = <<>>
  /\ request[r].at \in {"checking", "handing"} => incoming[r] # <<>>
  /\ request[r].at = "handing" => Acceptable(r)
  /\ request[r].kind # "backgrounds" => Len(incoming[r]) <= 1

CopyingWhere(r) ==
  partial[r] => request[r].at = "saving" \/ (request[r].at = "ended" /\ littered[r])

LeftWhere(r) ==
  request[r].at = "ended" /\ ~littered[r] => incoming[r] = <<>> /\ ~partial[r]

TakenWhere(r) ==
  accepted[r] # <<>> =>
    /\ request[r].at = "ended"
    /\ request[r].kind # "backgrounds" => Len(accepted[r]) = 1
    /\ request[r].kind = "video" => request[r].profile \in Profiles
    /\ request[r].kind \in {"ply", "cleaned"} => accepted[r][1] = "sound"

StagedInv == \A r \in Requests :
  StagedWhere(r) /\ CopyingWhere(r) /\ LeftWhere(r) /\ TakenWhere(r)

(* A handler that moves on keeps its kind and its profile, and the others stay. *)
LEMMA GoMoves ==
  ASSUME request \in [Requests -> Request], NEW r \in Requests, NEW at \in Places, Go(r, at)
  PROVE  /\ request' \in [Requests -> Request]
         /\ request'[r].at = at /\ request'[r].kind = request[r].kind
         /\ request'[r].profile = request[r].profile
         /\ \A q \in Requests \ {r} : request'[q] = request[q]
<1>1. request' = [request EXCEPT ![r] = [request[r] EXCEPT !.at = at]]
  BY DEF Go
<1>2. request[r] \in Request
  OBVIOUS
<1>3. [request[r] EXCEPT !.at = at] \in Request
  BY <1>2 DEF Request
<1> QED BY <1>1, <1>2, <1>3 DEF Request

(* The queues of files after a step. *)
LEMMA FilesMove ==
  ASSUME NEW f \in [Requests -> Seq(Contents)], NEW r \in Requests, NEW content \in Contents
  PROVE  /\ [f EXCEPT ![r] = <<>>] \in [Requests -> Seq(Contents)]
         /\ [f EXCEPT ![r] = Append(@, content)] \in [Requests -> Seq(Contents)]
OBVIOUS

(* A profile part changes the profile only. *)
LEMMA ProfileMoves ==
  ASSUME request \in [Requests -> Request], NEW r \in Requests, NEW name \in Named,
         request' = [request EXCEPT ![r].profile = name]
  PROVE  /\ request' \in [Requests -> Request]
         /\ request'[r].at = request[r].at /\ request'[r].kind = request[r].kind
         /\ request'[r].profile = name
         /\ \A q \in Requests \ {r} : request'[q] = request[q]
<1>1. request' = [request EXCEPT ![r] = [request[r] EXCEPT !.profile = name]]
  OBVIOUS
<1>2. request[r] \in Request
  OBVIOUS
<1>3. [request[r] EXCEPT !.profile = name] \in Request
  BY <1>2 DEF Request
<1> QED BY <1>1, <1>2, <1>3 DEF Request

(* A crash ends what was under way. *)
LEMMA CrashMoves ==
  ASSUME request \in [Requests -> Request], UploadsCrash
  PROVE  /\ request' \in [Requests -> Request]
         /\ \A q \in Requests :
              /\ request'[q].at = IF request[q].at = "new" THEN "new" ELSE "ended"
              /\ request'[q].kind = request[q].kind
              /\ request'[q].profile = request[q].profile
<1>1. \A q \in Requests : request[q] \in Request
  OBVIOUS
<1>2. \A q \in Requests :
       /\ [request[q] EXCEPT !.at = IF @ = "new" THEN "new" ELSE "ended"] \in Request
       /\ [request[q] EXCEPT !.at = IF @ = "new" THEN "new" ELSE "ended"].at
            = IF request[q].at = "new" THEN "new" ELSE "ended"
       /\ [request[q] EXCEPT !.at = IF @ = "new" THEN "new" ELSE "ended"].kind = request[q].kind
       /\ [request[q] EXCEPT !.at = IF @ = "new" THEN "new" ELSE "ended"].profile = request[q].profile
  BY <1>1 DEF Request, Places
<1>3. request' = [q \in Requests |->
                   [request[q] EXCEPT !.at = IF @ = "new" THEN "new" ELSE "ended"]]
  BY DEF UploadsCrash
<1> QED BY <1>2, <1>3

(* Every step keeps the types of the uploads. *)
LEMMA UploadsTypeStep == UploadsTypeOK /\ [Next]_vars => UploadsTypeOK'
<1> SUFFICES ASSUME UploadsTypeOK, [Next]_vars PROVE UploadsTypeOK'
  OBVIOUS
<1> USE DEF UploadsTypeOK
<1>1. ASSUME NEW r \in Requests, Begin(r) PROVE UploadsTypeOK'
  <2>1. request' \in [Requests -> Request]
    BY <1>1, GoMoves DEF Begin, SaveStarts, Places
  <2>2. incoming' \in [Requests -> Seq(Contents)] /\ accepted' \in [Requests -> Seq(Contents)]
    BY <1>1 DEF Begin, SaveStarts
  <2>3. partial' \in [Requests -> BOOLEAN] /\ littered' \in [Requests -> BOOLEAN]
    BY <1>1 DEF Begin, SaveStarts
  <2> QED BY <2>1, <2>2, <2>3
<1>2. ASSUME NEW r \in Requests, FilePart(r) PROVE UploadsTypeOK'
  <2>1. request' \in [Requests -> Request]
    BY <1>2, GoMoves DEF FilePart, SaveStarts, Places
  <2>2. incoming' \in [Requests -> Seq(Contents)] /\ accepted' \in [Requests -> Seq(Contents)]
    BY <1>2 DEF FilePart, SaveStarts
  <2>3. partial' \in [Requests -> BOOLEAN] /\ littered' \in [Requests -> BOOLEAN]
    BY <1>2 DEF FilePart, SaveStarts
  <2> QED BY <2>1, <2>2, <2>3
<1>3. ASSUME NEW r \in Requests, BadPart(r) PROVE UploadsTypeOK'
  <2>1. request' \in [Requests -> Request]
    BY <1>3, GoMoves DEF BadPart, Refuse, Places
  <2>2. incoming' \in [Requests -> Seq(Contents)] /\ accepted' \in [Requests -> Seq(Contents)]
    BY <1>3 DEF BadPart, Refuse
  <2>3. partial' \in [Requests -> BOOLEAN] /\ littered' \in [Requests -> BOOLEAN]
    BY <1>3 DEF BadPart, Refuse
  <2> QED BY <2>1, <2>2, <2>3
<1>4. ASSUME NEW r \in Requests, EndOfForm(r) PROVE UploadsTypeOK'
  <2>1. request' \in [Requests -> Request]
    BY <1>4, GoMoves DEF EndOfForm, Refuse, Places
  <2>2. incoming' \in [Requests -> Seq(Contents)] /\ accepted' \in [Requests -> Seq(Contents)]
    BY <1>4 DEF EndOfForm, Refuse
  <2>3. partial' \in [Requests -> BOOLEAN] /\ littered' \in [Requests -> BOOLEAN]
    BY <1>4 DEF EndOfForm, Refuse
  <2> QED BY <2>1, <2>2, <2>3
<1>5. ASSUME NEW r \in Requests, Check(r) PROVE UploadsTypeOK'
  <2>1. request' \in [Requests -> Request]
    BY <1>5, GoMoves DEF Check, Refuse, Places
  <2>2. incoming' \in [Requests -> Seq(Contents)] /\ accepted' \in [Requests -> Seq(Contents)]
    <3>1. CASE Acceptable(r)
      BY <1>5, <3>1 DEF Check
    <3>2. CASE ~Acceptable(r)
      <4>1. Refuse(r)
        BY <1>5, <3>2 DEF Check
      <4> QED BY <4>1 DEF Refuse
    <3> QED BY <3>1, <3>2
  <2>3. partial' \in [Requests -> BOOLEAN] /\ littered' \in [Requests -> BOOLEAN]
    BY <1>5 DEF Check, Refuse
  <2> QED BY <2>1, <2>2, <2>3
<1>6. ASSUME NEW r \in Requests, NotTaken(r) PROVE UploadsTypeOK'
  <2>1. request' \in [Requests -> Request]
    BY <1>6, GoMoves DEF NotTaken, Refuse, Places
  <2>2. incoming' \in [Requests -> Seq(Contents)] /\ accepted' \in [Requests -> Seq(Contents)]
    BY <1>6 DEF NotTaken, Refuse
  <2>3. partial' \in [Requests -> BOOLEAN] /\ littered' \in [Requests -> BOOLEAN]
    BY <1>6 DEF NotTaken, Refuse
  <2> QED BY <2>1, <2>2, <2>3
<1>7. ASSUME NEW r \in Requests, CopyFails(r) PROVE UploadsTypeOK'
  <2>1. request' \in [Requests -> Request]
    BY <1>7, GoMoves DEF CopyFails, Refuse, Places
  <2>2. incoming' \in [Requests -> Seq(Contents)] /\ accepted' \in [Requests -> Seq(Contents)]
    BY <1>7 DEF CopyFails, Refuse
  <2>3. partial' \in [Requests -> BOOLEAN] /\ littered' \in [Requests -> BOOLEAN]
    BY <1>7 DEF CopyFails, Refuse
  <2> QED BY <2>1, <2>2, <2>3
<1>8. ASSUME NEW r \in Requests, RenameFails(r) PROVE UploadsTypeOK'
  <2>1. request' \in [Requests -> Request]
    BY <1>8, GoMoves DEF RenameFails, Places
  <2>2. incoming' \in [Requests -> Seq(Contents)] /\ accepted' \in [Requests -> Seq(Contents)]
    BY <1>8 DEF RenameFails
  <2>3. partial' \in [Requests -> BOOLEAN] /\ littered' \in [Requests -> BOOLEAN]
    BY <1>8 DEF RenameFails
  <2> QED BY <2>1, <2>2, <2>3
<1>9. ASSUME NEW r \in Requests, Taken(r) PROVE UploadsTypeOK'
  <2>1. request' \in [Requests -> Request]
    BY <1>9, GoMoves DEF Taken, Places
  <2>2. incoming' \in [Requests -> Seq(Contents)] /\ accepted' \in [Requests -> Seq(Contents)]
    BY <1>9 DEF Taken
  <2>3. partial' \in [Requests -> BOOLEAN] /\ littered' \in [Requests -> BOOLEAN]
    BY <1>9 DEF Taken
  <2> QED BY <2>1, <2>2, <2>3
<1>10. ASSUME NEW r \in Requests, NEW name \in Named, ProfilePart(r, name) PROVE UploadsTypeOK'
  <2>1. request' \in [Requests -> Request]
    BY <1>10, ProfileMoves DEF ProfilePart, Places
  <2>2. incoming' \in [Requests -> Seq(Contents)] /\ accepted' \in [Requests -> Seq(Contents)]
    BY <1>10 DEF ProfilePart
  <2>3. partial' \in [Requests -> BOOLEAN] /\ littered' \in [Requests -> BOOLEAN]
    BY <1>10 DEF ProfilePart
  <2> QED BY <2>1, <2>2, <2>3
<1>11. ASSUME NEW r \in Requests, NEW content \in Contents, Saved(r, content) PROVE UploadsTypeOK'
  <2>1. request' \in [Requests -> Request]
    BY <1>11, GoMoves DEF Saved, Places
  <2>2. incoming' \in [Requests -> Seq(Contents)] /\ accepted' \in [Requests -> Seq(Contents)]
    BY <1>11 DEF Saved
  <2>3. partial' \in [Requests -> BOOLEAN] /\ littered' \in [Requests -> BOOLEAN]
    BY <1>11 DEF Saved
  <2> QED BY <2>1, <2>2, <2>3
<1>12. CASE UploadsCrash
  <2>1. littered' \in [Requests -> BOOLEAN]
    BY <1>12 DEF UploadsCrash
  <2> QED BY <1>12, <2>1, CrashMoves DEF UploadsCrash
<1>13. CASE UNCHANGED uploadVars
  BY <1>13 DEF uploadVars
<1> QED
  BY <1>1, <1>2, <1>3, <1>4, <1>5, <1>6, <1>7, <1>8,
     <1>9, <1>10, <1>11, <1>12, <1>13 DEF Next, Upload, Reconstruct, AddVideo, AddOther, vars

\* The other requests stay as they are.
Others(r) == \A q \in Requests \ {r} :
  /\ request'[q] = request[q] /\ incoming'[q] = incoming[q] /\ partial'[q] = partial[q]
  /\ accepted'[q] = accepted[q] /\ littered'[q] = littered[q]

(* What holds of the others still does. *)
LEMMA OthersKept ==
  ASSUME StagedInv, NEW r \in Requests, Others(r),
         StagedWhere(r)', CopyingWhere(r)', LeftWhere(r)', TakenWhere(r)'
  PROVE  StagedInv'
BY DEF StagedInv, Others, StagedWhere, CopyingWhere, LeftWhere, TakenWhere, Acceptable

(* Every step keeps what is known of the files of a request. *)
LEMMA StagedStep == UploadsTypeOK /\ StagedInv /\ [Next]_vars => StagedInv'
<1> SUFFICES ASSUME UploadsTypeOK, StagedInv, [Next]_vars PROVE StagedInv'
  OBVIOUS
<1>1. ASSUME NEW r \in Requests, Begin(r) PROVE StagedInv'
  <2>1. Others(r)
    BY <1>1, GoMoves DEF Begin, SaveStarts, Others, UploadsTypeOK, Places
  <2>2. StagedWhere(r) /\ CopyingWhere(r) /\ LeftWhere(r) /\ TakenWhere(r)
    BY DEF StagedInv
  <2>3. request'[r].kind = request[r].kind /\ request[r] \in Request
    BY <1>1, GoMoves DEF Begin, SaveStarts, UploadsTypeOK, Places
  <2>4. request'[r].profile = request[r].profile /\ request'[r].at = (IF request[r].kind = "cleaned" THEN "saving" ELSE "reading")
    BY <1>1, GoMoves DEF Begin, SaveStarts, UploadsTypeOK, Places
  <2>5. incoming'[r] = incoming[r] /\ accepted'[r] = accepted[r]
    BY <1>1 DEF Begin, SaveStarts, UploadsTypeOK
  <2>6. partial'[r] = (IF request[r].kind = "cleaned" THEN TRUE ELSE partial[r]) /\ littered'[r] = littered[r]
    <3>1. CASE request[r].kind = "cleaned"
      BY <1>1, <3>1 DEF Begin, SaveStarts, UploadsTypeOK
    <3>2. CASE request[r].kind # "cleaned"
      BY <1>1, <3>2 DEF Begin, UploadsTypeOK
    <3> QED BY <3>1, <3>2
  <2>7. StagedWhere(r)' /\ CopyingWhere(r)'
    BY <1>1, <2>2, <2>3, <2>4, <2>5, <2>6
    DEF Begin, UploadsTypeOK, StagedWhere, CopyingWhere, LeftWhere, TakenWhere, Acceptable
  <2>8. LeftWhere(r)' /\ TakenWhere(r)'
    BY <1>1, <2>2, <2>3, <2>4, <2>5, <2>6
    DEF Begin, UploadsTypeOK, StagedWhere, CopyingWhere, LeftWhere, TakenWhere, Acceptable
  <2> QED BY <2>1, <2>7, <2>8, OthersKept
<1>2. ASSUME NEW r \in Requests, FilePart(r) PROVE StagedInv'
  <2>1. Others(r)
    BY <1>2, GoMoves DEF FilePart, SaveStarts, Others, UploadsTypeOK, Places
  <2>2. StagedWhere(r) /\ CopyingWhere(r) /\ LeftWhere(r) /\ TakenWhere(r)
    BY DEF StagedInv
  <2>3. request'[r].kind = request[r].kind /\ request[r] \in Request
    BY <1>2, GoMoves DEF FilePart, SaveStarts, UploadsTypeOK, Places
  <2>4. request'[r].profile = request[r].profile /\ request'[r].at = "saving"
    BY <1>2, GoMoves DEF FilePart, SaveStarts, UploadsTypeOK, Places
  <2>5. incoming'[r] = incoming[r] /\ accepted'[r] = accepted[r]
    BY <1>2 DEF FilePart, SaveStarts, UploadsTypeOK
  <2>6. partial'[r] = TRUE /\ littered'[r] = littered[r]
    BY <1>2 DEF FilePart, SaveStarts, UploadsTypeOK
  <2>7. StagedWhere(r)' /\ CopyingWhere(r)'
    BY <1>2, <2>2, <2>3, <2>4, <2>5, <2>6
    DEF FilePart, Full, UploadsTypeOK, StagedWhere, CopyingWhere, LeftWhere, TakenWhere, Acceptable
  <2>8. LeftWhere(r)' /\ TakenWhere(r)'
    BY <1>2, <2>2, <2>3, <2>4, <2>5, <2>6
    DEF FilePart, Full, UploadsTypeOK, StagedWhere, CopyingWhere, LeftWhere, TakenWhere, Acceptable
  <2> QED BY <2>1, <2>7, <2>8, OthersKept
<1>3. ASSUME NEW r \in Requests, BadPart(r) PROVE StagedInv'
  <2>1. Others(r)
    BY <1>3, GoMoves DEF BadPart, Refuse, Others, UploadsTypeOK, Places
  <2>2. StagedWhere(r) /\ CopyingWhere(r) /\ LeftWhere(r) /\ TakenWhere(r)
    BY DEF StagedInv
  <2>3. request'[r].kind = request[r].kind /\ request[r] \in Request
    BY <1>3, GoMoves DEF BadPart, Refuse, UploadsTypeOK, Places
  <2>4. request'[r].profile = request[r].profile /\ request'[r].at = "ended"
    BY <1>3, GoMoves DEF BadPart, Refuse, UploadsTypeOK, Places
  <2>5. incoming'[r] = <<>> /\ accepted'[r] = accepted[r]
    BY <1>3 DEF BadPart, Refuse, UploadsTypeOK
  <2>6. partial'[r] = partial[r] /\ littered'[r] = littered[r]
    BY <1>3 DEF BadPart, Refuse, UploadsTypeOK
  <2>7. StagedWhere(r)' /\ CopyingWhere(r)'
    BY <1>3, <2>2, <2>3, <2>4, <2>5, <2>6
    DEF BadPart, UploadsTypeOK, StagedWhere, CopyingWhere, LeftWhere, TakenWhere, Acceptable
  <2>8. LeftWhere(r)' /\ TakenWhere(r)'
    BY <1>3, <2>2, <2>3, <2>4, <2>5, <2>6
    DEF BadPart, UploadsTypeOK, StagedWhere, CopyingWhere, LeftWhere, TakenWhere, Acceptable
  <2> QED BY <2>1, <2>7, <2>8, OthersKept
<1>4. ASSUME NEW r \in Requests, EndOfForm(r) PROVE StagedInv'
  <2>1. Others(r)
    BY <1>4, GoMoves DEF EndOfForm, Refuse, Others, UploadsTypeOK, Places
  <2>2. StagedWhere(r) /\ CopyingWhere(r) /\ LeftWhere(r) /\ TakenWhere(r)
    BY DEF StagedInv
  <2>3. request'[r].kind = request[r].kind /\ request[r] \in Request
    BY <1>4, GoMoves DEF EndOfForm, Refuse, UploadsTypeOK, Places
  <2>4. request'[r].profile = request[r].profile /\ request'[r].at = (IF incoming[r] = <<>> THEN "ended" ELSE "checking")
    BY <1>4, GoMoves DEF EndOfForm, Refuse, UploadsTypeOK, Places
  <2>5. incoming'[r] = incoming[r] /\ accepted'[r] = accepted[r]
    BY <1>4 DEF EndOfForm, Refuse, UploadsTypeOK
  <2>6. partial'[r] = partial[r] /\ littered'[r] = littered[r]
    BY <1>4 DEF EndOfForm, Refuse, UploadsTypeOK
  <2>7. StagedWhere(r)' /\ CopyingWhere(r)'
    BY <1>4, <2>2, <2>3, <2>4, <2>5, <2>6
    DEF EndOfForm, UploadsTypeOK, StagedWhere, CopyingWhere, LeftWhere, TakenWhere, Acceptable
  <2>8. LeftWhere(r)' /\ TakenWhere(r)'
    BY <1>4, <2>2, <2>3, <2>4, <2>5, <2>6
    DEF EndOfForm, UploadsTypeOK, StagedWhere, CopyingWhere, LeftWhere, TakenWhere, Acceptable
  <2> QED BY <2>1, <2>7, <2>8, OthersKept
<1>5. ASSUME NEW r \in Requests, Check(r) PROVE StagedInv'
  <2>1. Others(r)
    BY <1>5, GoMoves DEF Check, Refuse, Others, UploadsTypeOK, Places
  <2>2. StagedWhere(r) /\ CopyingWhere(r) /\ LeftWhere(r) /\ TakenWhere(r)
    BY DEF StagedInv
  <2>3. request'[r].kind = request[r].kind /\ request[r] \in Request
    BY <1>5, GoMoves DEF Check, Refuse, UploadsTypeOK, Places
  <2>4. request'[r].profile = request[r].profile /\ request'[r].at = (IF Acceptable(r) THEN "handing" ELSE "ended")
    BY <1>5, GoMoves DEF Check, Refuse, UploadsTypeOK, Places
  <2>5. incoming'[r] = (IF Acceptable(r) THEN incoming[r] ELSE <<>>) /\ accepted'[r] = accepted[r]
    BY <1>5 DEF Check, Refuse, UploadsTypeOK
  <2>6. partial'[r] = partial[r] /\ littered'[r] = littered[r]
    BY <1>5 DEF Check, Refuse, UploadsTypeOK
  <2>7. StagedWhere(r)' /\ CopyingWhere(r)'
    BY <1>5, <2>2, <2>3, <2>4, <2>5, <2>6
    DEF Check, UploadsTypeOK, StagedWhere, CopyingWhere, LeftWhere, TakenWhere, Acceptable
  <2>8. LeftWhere(r)' /\ TakenWhere(r)'
    BY <1>5, <2>2, <2>3, <2>4, <2>5, <2>6
    DEF Check, UploadsTypeOK, StagedWhere, CopyingWhere, LeftWhere, TakenWhere, Acceptable
  <2> QED BY <2>1, <2>7, <2>8, OthersKept
<1>6. ASSUME NEW r \in Requests, NotTaken(r) PROVE StagedInv'
  <2>1. Others(r)
    BY <1>6, GoMoves DEF NotTaken, Refuse, Others, UploadsTypeOK, Places
  <2>2. StagedWhere(r) /\ CopyingWhere(r) /\ LeftWhere(r) /\ TakenWhere(r)
    BY DEF StagedInv
  <2>3. request'[r].kind = request[r].kind /\ request[r] \in Request
    BY <1>6, GoMoves DEF NotTaken, Refuse, UploadsTypeOK, Places
  <2>4. request'[r].profile = request[r].profile /\ request'[r].at = "ended"
    BY <1>6, GoMoves DEF NotTaken, Refuse, UploadsTypeOK, Places
  <2>5. incoming'[r] = <<>> /\ accepted'[r] = accepted[r]
    BY <1>6 DEF NotTaken, Refuse, UploadsTypeOK
  <2>6. partial'[r] = partial[r] /\ littered'[r] = littered[r]
    BY <1>6 DEF NotTaken, Refuse, UploadsTypeOK
  <2>7. StagedWhere(r)' /\ CopyingWhere(r)'
    BY <1>6, <2>2, <2>3, <2>4, <2>5, <2>6
    DEF NotTaken, UploadsTypeOK, StagedWhere, CopyingWhere, LeftWhere, TakenWhere, Acceptable
  <2>8. LeftWhere(r)' /\ TakenWhere(r)'
    BY <1>6, <2>2, <2>3, <2>4, <2>5, <2>6
    DEF NotTaken, UploadsTypeOK, StagedWhere, CopyingWhere, LeftWhere, TakenWhere, Acceptable
  <2> QED BY <2>1, <2>7, <2>8, OthersKept
<1>7. ASSUME NEW r \in Requests, CopyFails(r) PROVE StagedInv'
  <2>1. Others(r)
    BY <1>7, GoMoves DEF CopyFails, Refuse, Others, UploadsTypeOK, Places
  <2>2. StagedWhere(r) /\ CopyingWhere(r) /\ LeftWhere(r) /\ TakenWhere(r)
    BY DEF StagedInv
  <2>3. request'[r].kind = request[r].kind /\ request[r] \in Request
    BY <1>7, GoMoves DEF CopyFails, Refuse, UploadsTypeOK, Places
  <2>4. request'[r].profile = request[r].profile /\ request'[r].at = "ended"
    BY <1>7, GoMoves DEF CopyFails, Refuse, UploadsTypeOK, Places
  <2>5. incoming'[r] = <<>> /\ accepted'[r] = accepted[r]
    BY <1>7 DEF CopyFails, Refuse, UploadsTypeOK
  <2>6. partial'[r] = FALSE /\ littered'[r] = littered[r]
    BY <1>7 DEF CopyFails, Refuse, UploadsTypeOK
  <2>7. StagedWhere(r)' /\ CopyingWhere(r)'
    BY <1>7, <2>2, <2>3, <2>4, <2>5, <2>6
    DEF CopyFails, UploadsTypeOK, StagedWhere, CopyingWhere, LeftWhere, TakenWhere, Acceptable
  <2>8. LeftWhere(r)' /\ TakenWhere(r)'
    BY <1>7, <2>2, <2>3, <2>4, <2>5, <2>6
    DEF CopyFails, UploadsTypeOK, StagedWhere, CopyingWhere, LeftWhere, TakenWhere, Acceptable
  <2> QED BY <2>1, <2>7, <2>8, OthersKept
<1>8. ASSUME NEW r \in Requests, RenameFails(r) PROVE StagedInv'
  <2>1. Others(r)
    BY <1>8, GoMoves DEF RenameFails, Others, UploadsTypeOK, Places
  <2>2. StagedWhere(r) /\ CopyingWhere(r) /\ LeftWhere(r) /\ TakenWhere(r)
    BY DEF StagedInv
  <2>3. request'[r].kind = request[r].kind /\ request[r] \in Request
    BY <1>8, GoMoves DEF RenameFails, UploadsTypeOK, Places
  <2>4. request'[r].profile = request[r].profile /\ request'[r].at = "ended"
    BY <1>8, GoMoves DEF RenameFails, UploadsTypeOK, Places
  <2>5. incoming'[r] = <<>> /\ accepted'[r] = accepted[r]
    BY <1>8 DEF RenameFails, UploadsTypeOK
  <2>6. partial'[r] = (request[r].kind # "backgrounds") /\ littered'[r] = partial'[r]
    BY <1>8 DEF RenameFails, UploadsTypeOK
  <2>7. StagedWhere(r)' /\ CopyingWhere(r)'
    BY <1>8, <2>2, <2>3, <2>4, <2>5, <2>6
    DEF RenameFails, UploadsTypeOK, StagedWhere, CopyingWhere, LeftWhere, TakenWhere, Acceptable
  <2>8. LeftWhere(r)' /\ TakenWhere(r)'
    BY <1>8, <2>2, <2>3, <2>4, <2>5, <2>6
    DEF RenameFails, UploadsTypeOK, StagedWhere, CopyingWhere, LeftWhere, TakenWhere, Acceptable
  <2> QED BY <2>1, <2>7, <2>8, OthersKept
<1>9. ASSUME NEW r \in Requests, Taken(r) PROVE StagedInv'
  <2>1. Others(r)
    BY <1>9, GoMoves DEF Taken, Others, UploadsTypeOK, Places
  <2>2. StagedWhere(r) /\ CopyingWhere(r) /\ LeftWhere(r) /\ TakenWhere(r)
    BY DEF StagedInv
  <2>3. request'[r].kind = request[r].kind /\ request[r] \in Request
    BY <1>9, GoMoves DEF Taken, UploadsTypeOK, Places
  <2>4. request'[r].profile = request[r].profile /\ request'[r].at = "ended"
    BY <1>9, GoMoves DEF Taken, UploadsTypeOK, Places
  <2>5. incoming'[r] = <<>> /\ accepted'[r] = incoming[r]
    BY <1>9 DEF Taken, UploadsTypeOK
  <2>6. partial'[r] = partial[r] /\ littered'[r] = littered[r]
    BY <1>9 DEF Taken, UploadsTypeOK
  <2>7. StagedWhere(r)' /\ CopyingWhere(r)'
    BY <1>9, <2>2, <2>3, <2>4, <2>5, <2>6
    DEF Taken, UploadsTypeOK, StagedWhere, CopyingWhere, LeftWhere, TakenWhere, Acceptable
  <2>8. LeftWhere(r)'
    BY <1>9, <2>2, <2>5, <2>6 DEF Taken, CopyingWhere, LeftWhere
  <2>9. TakenWhere(r)'
    <3>1. Acceptable(r) /\ incoming[r] \in Seq(Contents) /\ incoming[r] # <<>>
      BY <1>9, <2>2 DEF Taken, UploadsTypeOK, StagedWhere
    <3>2. Len(incoming[r]) \in Nat /\ Len(incoming[r]) >= 1
      BY <3>1
    <3>3. request[r].kind # "backgrounds" => Len(incoming[r]) = 1
      <4>1. request[r].kind # "backgrounds" => Len(incoming[r]) <= 1
        BY <2>2, Zenon DEF StagedWhere
      <4>2. \A n \in Nat : n >= 1 /\ n <= 1 => n = 1
        OBVIOUS
      <4> QED BY <3>2, <4>1, <4>2, Zenon
    <3> QED BY <2>3, <2>4, <2>5, <3>1, <3>3 DEF TakenWhere, Acceptable
  <2> QED BY <2>1, <2>7, <2>8, <2>9, OthersKept
<1>10. ASSUME NEW r \in Requests, NEW name \in Named, ProfilePart(r, name) PROVE StagedInv'
  <2>1. Others(r)
    BY <1>10, ProfileMoves DEF ProfilePart, Others, UploadsTypeOK, Places
  <2>2. StagedWhere(r) /\ CopyingWhere(r) /\ LeftWhere(r) /\ TakenWhere(r)
    BY DEF StagedInv
  <2>3. request'[r].kind = request[r].kind /\ request[r] \in Request
    BY <1>10, ProfileMoves DEF ProfilePart, UploadsTypeOK, Places
  <2>4. request'[r].at = request[r].at /\ request'[r].profile \in Named
    BY <1>10, ProfileMoves DEF ProfilePart, UploadsTypeOK, Places
  <2>5. incoming'[r] = incoming[r] /\ accepted'[r] = accepted[r]
    BY <1>10 DEF ProfilePart, UploadsTypeOK
  <2>6. partial'[r] = partial[r] /\ littered'[r] = littered[r]
    BY <1>10 DEF ProfilePart, UploadsTypeOK
  <2>7. StagedWhere(r)' /\ CopyingWhere(r)'
    BY <1>10, <2>2, <2>3, <2>4, <2>5, <2>6
    DEF ProfilePart, UploadsTypeOK, StagedWhere, CopyingWhere, LeftWhere, TakenWhere, Acceptable
  <2>8. LeftWhere(r)' /\ TakenWhere(r)'
    BY <1>10, <2>2, <2>3, <2>4, <2>5, <2>6
    DEF ProfilePart, UploadsTypeOK, StagedWhere, CopyingWhere, LeftWhere, TakenWhere, Acceptable
  <2> QED BY <2>1, <2>7, <2>8, OthersKept
<1>11. ASSUME NEW r \in Requests, NEW content \in Contents, Saved(r, content) PROVE StagedInv'
  <2>1. Others(r)
    BY <1>11, GoMoves DEF Saved, Others, UploadsTypeOK, Places
  <2>2. StagedWhere(r) /\ CopyingWhere(r) /\ LeftWhere(r) /\ TakenWhere(r)
    BY DEF StagedInv
  <2>3. request'[r].kind = request[r].kind /\ request[r] \in Request
    BY <1>11, GoMoves DEF Saved, UploadsTypeOK, Places
  <2>4. request'[r].profile = request[r].profile /\ request'[r].at = (IF request[r].kind = "cleaned" THEN "checking" ELSE "reading")
    BY <1>11, GoMoves DEF Saved, UploadsTypeOK, Places
  <2>5. incoming'[r] = Append(incoming[r], content) /\ accepted'[r] = accepted[r]
    BY <1>11 DEF Saved, UploadsTypeOK
  <2>6. partial'[r] = FALSE /\ littered'[r] = littered[r]
    BY <1>11 DEF Saved, UploadsTypeOK
  <2>7. StagedWhere(r)' /\ CopyingWhere(r)'
    BY <1>11, <2>2, <2>3, <2>4, <2>5, <2>6
    DEF Saved, UploadsTypeOK, StagedWhere, CopyingWhere, LeftWhere, TakenWhere, Acceptable
  <2>8. LeftWhere(r)' /\ TakenWhere(r)'
    BY <1>11, <2>2, <2>3, <2>4, <2>5, <2>6
    DEF Saved, UploadsTypeOK, StagedWhere, CopyingWhere, LeftWhere, TakenWhere, Acceptable
  <2> QED BY <2>1, <2>7, <2>8, OthersKept
<1>12. CASE UploadsCrash
  <2> SUFFICES ASSUME NEW r \in Requests
               PROVE  StagedWhere(r)' /\ CopyingWhere(r)' /\ LeftWhere(r)' /\ TakenWhere(r)'
    BY DEF StagedInv
  <2>1. StagedWhere(r) /\ CopyingWhere(r) /\ LeftWhere(r) /\ TakenWhere(r)
    BY DEF StagedInv
  <2>2. /\ request'[r].at = IF request[r].at = "new" THEN "new" ELSE "ended"
        /\ request'[r].kind = request[r].kind /\ request'[r].profile = request[r].profile
    BY <1>12, CrashMoves DEF UploadsTypeOK
  <2>3. littered'[r] = (littered[r] \/ request[r].at \notin {"new", "ended"})
    BY <1>12 DEF UploadsCrash
  <2>4. StagedWhere(r)'
    BY <1>12, <2>1, <2>2 DEF UploadsCrash, StagedWhere
  <2>5. CopyingWhere(r)'
    BY <1>12, <2>1, <2>2, <2>3 DEF UploadsCrash, CopyingWhere
  <2>6. LeftWhere(r)'
    BY <1>12, <2>1, <2>2, <2>3 DEF UploadsCrash, LeftWhere
  <2>7. TakenWhere(r)'
    BY <1>12, <2>1, <2>2 DEF UploadsCrash, TakenWhere
  <2> QED BY <2>4, <2>5, <2>6, <2>7
<1>13. CASE UNCHANGED uploadVars
  BY <1>13 DEF uploadVars, StagedInv, StagedWhere, CopyingWhere, LeftWhere, TakenWhere, Acceptable
<1> QED
  BY <1>1, <1>2, <1>3, <1>4, <1>5, <1>6, <1>7, <1>8,
     <1>9, <1>10, <1>11, <1>12, <1>13 DEF Next, Upload, Reconstruct, AddVideo, AddOther, vars

(* The types of the uploads and what is known of their files hold forever. *)
LEMMA UploadsSound == Spec => [](UploadsTypeOK /\ StagedInv)
<1>1. Init => UploadsTypeOK /\ StagedInv
  BY UploadsAssumption
  DEF Init, UploadsInit, UploadsTypeOK, Request, Kinds, Contents, Places,
      StagedInv, StagedWhere, CopyingWhere, LeftWhere, TakenWhere
<1>2. UploadsTypeOK /\ StagedInv /\ [Next]_vars => (UploadsTypeOK /\ StagedInv)'
  BY UploadsTypeStep, StagedStep
<1> QED BY <1>1, <1>2, PTL DEF Spec

\* A request that ended, and was not stopped by a crash or a failing rename, has
\* left no file, for any number of requests and of files in them.
THEOREM NothingIsLeft == Spec => []NothingLeft
<1>1. StagedInv => NothingLeft
  BY DEF StagedInv, LeftWhere, NothingLeft
<1> QED BY <1>1, UploadsSound, PTL

\* Whatever the service takes is complete and was checked.
THEOREM TakenIsChecked == Spec => []OnlyCheckedIsTaken
<1>1. StagedInv => OnlyCheckedIsTaken
  BY DEF StagedInv, TakenWhere, OnlyCheckedIsTaken
<1> QED BY <1>1, UploadsSound, PTL

----------------------------------------------------------------------------

\* What is known at each stage of a task: which passes there are, and what the
\* files that outlive a delivery hold.
BeforePasses ==
  /\ video = Nothing => stage = "waiting"
  /\ stage \in {"waiting", "inspect", "primary"} => passes = <<>>
  /\ stage \notin {"waiting", "inspect", "failed"} => video # Nothing /\ video.frames > 0
  /\ passes # <<>> => video # Nothing

DuringPasses ==
  /\ stage = "rescue" =>
       /\ passes # <<>> /\ Len(passes) < 2 /\ ~Usable(Selected)
       /\ passes[1].frames = Primary(video.profile, video)
       /\ Rescue(video.profile, video) > Primary(video.profile, video)
  /\ stage = "exhaustive" => passes # <<>> /\ Len(passes) < 3 /\ ~Usable(Selected)

AfterPasses ==
  /\ stage \in {"judge", "train", "export", "publish", "report", "done"} => passes # <<>>
  /\ stage \in {"train", "export", "publish", "report", "done"} =>
       Usable(Selected) /\ quality = [passes |-> passes, chosen |-> chosen]
  /\ stage \in {"export", "publish", "report", "done"} => trained = Selected
  /\ stage \in {"report", "done"} => splat = trained
  /\ trained # Nothing => Usable(trained)
  /\ splat # Nothing => Usable(splat)

TaskTypeOK == ReconstructionTypeOK /\ video \in {Nothing} \cup Capture

TaskInv ==
  /\ TaskTypeOK /\ BeforePasses /\ DuringPasses /\ AfterPasses
  /\ BestIsChosen /\ PassesArePlanned

(* Sequences with an element, and with one more. *)
LEMMA NotEmpty ==
  ASSUME NEW S, NEW s \in Seq(S), s # <<>>
  PROVE  Len(s) \in Nat /\ Len(s) >= 1 /\ 1 \in DOMAIN s /\ DOMAIN s = 1 .. Len(s)
OBVIOUS

LEMMA OneMore ==
  ASSUME NEW S, NEW s \in Seq(S), NEW e \in S
  PROVE  /\ Append(s, e) \in Seq(S) /\ Len(Append(s, e)) = Len(s) + 1
         /\ DOMAIN Append(s, e) = 1 .. Len(s) + 1
         /\ \A i \in 1 .. Len(s) : Append(s, e)[i] = s[i]
         /\ Append(s, e)[Len(s) + 1] = e /\ Append(s, e) # <<>>
OBVIOUS

(* One more pass after passes that were all too weak. *)
LEMMA BestAfterPass ==
  ASSUME passes \in Seq(Pass), passes # <<>>, chosen \in DOMAIN passes,
         BestIsChosen, ~Usable(Selected),
         NEW p \in Pass, passes' = Append(passes, p), Choose(p.result)
  PROVE  BestIsChosen' /\ chosen' \in DOMAIN passes'
<1> USE ReconstructionAssumption
<1>1. /\ \A i \in DOMAIN passes : ~Usable(passes[i].result)
      /\ \A i \in DOMAIN passes : ~Better(passes[i].result, Selected)
  BY DEF BestIsChosen
<1>2. /\ Len(passes) \in Nat /\ DOMAIN passes = 1 .. Len(passes)
      /\ DOMAIN passes' = 1 .. Len(passes) + 1
      /\ \A i \in DOMAIN passes : passes'[i] = passes[i]
      /\ passes'[Len(passes) + 1] = p
  OBVIOUS
<1>3. \A i \in DOMAIN passes : passes[i].result \in [registered : Nat, extracted : Nat]
  <2>1. \A i \in DOMAIN passes : passes[i] \in Pass
    OBVIOUS
  <2>2. \A q \in Pass : q.result \in [registered : Nat, extracted : Nat]
    BY DEF Pass
  <2> QED BY <2>1, <2>2
<1>4. Selected \in [registered : Nat, extracted : Nat]
      /\ p.result \in [registered : Nat, extracted : Nat]
  BY <1>3 DEF Selected, Pass
<1>5. \A i, j \in DOMAIN passes' : i < j => ~Usable(passes'[i].result)
  BY <1>1, <1>2
<1>6. CASE Takes(p.result)
  <2>1. chosen' = Len(passes) + 1 /\ Selected' = p.result
    BY <1>2, <1>6 DEF Choose, Selected
  <2>2. CASE Usable(p.result)
    BY <1>2, <1>5, <2>1, <2>2 DEF BestIsChosen
  <2>3. CASE ~Usable(p.result)
    <3>1. Better(p.result, Selected)
      BY <1>6, <2>3 DEF Takes
    <3>2. \A i \in DOMAIN passes : ~Better(passes[i].result, p.result)
      BY <1>1, <1>3, <1>4, <3>1, BetterIsOrder
    <3>3. ~Better(p.result, p.result)
      BY <1>4, BetterIsOrder
    <3>4. \A i \in DOMAIN passes' :
            ~Usable(passes'[i].result) /\ ~Better(passes'[i].result, Selected')
      BY <1>1, <1>2, <2>1, <2>3, <3>2, <3>3
    <3> QED BY <1>2, <1>5, <2>1, <3>4 DEF BestIsChosen
  <2> QED BY <2>2, <2>3
<1>7. CASE ~Takes(p.result)
  <2>1. chosen' = chosen
    BY <1>7 DEF Choose
  <2>2. Selected' = Selected
    BY <1>2, <2>1 DEF Selected
  <2>3. ~Usable(p.result) /\ ~Better(p.result, Selected)
    BY <1>7 DEF Takes
  <2>4. \A i \in DOMAIN passes' :
          ~Usable(passes'[i].result) /\ ~Better(passes'[i].result, Selected')
    BY <1>1, <1>2, <2>2, <2>3
  <2> QED BY <1>2, <1>5, <2>1, <2>4 DEF BestIsChosen
<1> QED BY <1>6, <1>7

LEMMA PlannedAfterPass ==
  ASSUME passes \in Seq(Pass), passes # <<>>, PassesArePlanned, video' = video,
         NEW p \in Pass, passes' = Append(passes, p),
         p.frames \in 1 .. video.frames,
         p.method = "sequential" =>
           p.frames <= Policy[video.profile].rescueCap /\ p.frames > passes[1].frames,
         p.method = "exhaustive" => p.frames <= Policy[video.profile].exhaustiveCap
  PROVE  PassesArePlanned'
<1>1. /\ Len(passes) \in Nat /\ Len(passes) >= 1 /\ DOMAIN passes = 1 .. Len(passes)
      /\ DOMAIN passes' = 1 .. Len(passes) + 1
      /\ \A i \in 1 .. Len(passes) : passes'[i] = passes[i]
      /\ passes'[Len(passes) + 1] = p
  BY NotEmpty, OneMore
<1>2. SUFFICES ASSUME NEW i \in DOMAIN passes'
               PROVE  /\ passes'[i].frames \in 1 .. video.frames
                      /\ passes'[i].method = "sequential" =>
                           passes'[i].frames <= IF i = 1 THEN Policy[video.profile].primaryCap
                                                         ELSE Policy[video.profile].rescueCap
                      /\ passes'[i].method = "sequential" /\ i > 1 =>
                           passes'[i].frames > passes'[1].frames
                      /\ passes'[i].method = "exhaustive" =>
                           passes'[i].frames <= Policy[video.profile].exhaustiveCap
  BY DEF PassesArePlanned
<1>3. 1 \in DOMAIN passes /\ passes'[1] = passes[1]
  BY <1>1
<1>4. CASE i = Len(passes) + 1
  BY <1>1, <1>3, <1>4
<1>5. CASE i \in DOMAIN passes
  BY <1>1, <1>3, <1>5 DEF PassesArePlanned
<1> QED BY <1>1, <1>4, <1>5

(* The first pass. *)
LEMMA PrimaryStep ==
  ASSUME TaskInv, NEW result \in Registrations, PrimaryPass(result)
  PROVE  TaskInv'
<1> USE ReconstructionAssumption, CapturesAssumption DEF TaskInv, TaskTypeOK
<1> DEFINE p == [method |-> "sequential", frames |-> Primary(video.profile, video),
                 result |-> result]
<1>1. video \in Capture /\ video.frames > 0 /\ passes = <<>>
  BY DEF PrimaryPass, BeforePasses
<1>2. /\ video.profile \in Profiles /\ video.frames \in Nat /\ video.duration \in Nat
  BY <1>1 DEF Capture
<1>3. p.frames \in 1 .. video.frames /\ p.frames <= Policy[video.profile].primaryCap
  BY <1>1, <1>2, PrimaryBounds
<1>4. p \in Pass
  BY <1>3 DEF Pass
<1>5. passes' = <<p>> /\ chosen' = 1 /\ Selected' = result
  BY <1>1 DEF PrimaryPass, Processed, Selected
<1>6. Rescue(video.profile, video) \in Nat
  BY <1>2, RescueBounds
<1>7. /\ stage' \in {"judge", "rescue", "exhaustive"}
      /\ stage' = "rescue" => ~Usable(result)
                              /\ Rescue(video.profile, video) > Primary(video.profile, video)
      /\ stage' = "exhaustive" => ~Usable(result)
  BY DEF PrimaryPass
<1>8. TaskTypeOK'
  <2>1. passes' \in Seq(Pass)
    BY <1>4, <1>5
  <2>2. chosen' \in 0 .. Len(passes') /\ Len(passes') <= 3
    BY <1>5
  <2>3. /\ delivery' = delivery /\ trained' = trained /\ splat' = splat /\ video' = video
    BY DEF PrimaryPass
  <2>4. stage' \in Stages
    BY <1>7 DEF Stages
  <2>5. /\ delivery \in 0 .. MaxDeliveries /\ trained \in Registrations \cup {Nothing}
        /\ splat \in Registrations \cup {Nothing} /\ video \in {Nothing} \cup Capture
    BY DEF ReconstructionTypeOK
  <2> QED BY <2>1, <2>2, <2>3, <2>4, <2>5, Zenon DEF ReconstructionTypeOK
<1>9. BeforePasses'
  BY <1>1, <1>7 DEF PrimaryPass, BeforePasses
<1>10. DuringPasses'
  <2>1. passes' # <<>> /\ Len(passes') < 2 /\ passes'[1].frames = Primary(video.profile, video)
    BY <1>5
  <2> QED BY <1>5, <1>7, <2>1 DEF PrimaryPass, DuringPasses
<1>11. AfterPasses'
  <2>1. passes' # <<>>
    BY <1>5
  <2> QED BY <2>1, <1>7 DEF PrimaryPass, AfterPasses
<1>12. BestIsChosen'
  <2>1. ~Better(result, result)
    BY BetterIsOrder
  <2>2. DOMAIN passes' = {1} /\ passes'[1].result = result
    BY <1>5
  <2> QED BY <1>5, <2>1, <2>2 DEF BestIsChosen
<1>13. PassesArePlanned'
  <2>1. DOMAIN passes' = {1} /\ passes'[1] = p
    BY <1>5
  <2> QED BY <1>3, <2>1 DEF PrimaryPass, PassesArePlanned
<1> QED BY <1>8, <1>9, <1>10, <1>11, <1>12, <1>13

(* The second sequential pass. *)
LEMMA RescueStep ==
  ASSUME TaskInv, NEW result \in Registrations, RescuePass(result)
  PROVE  TaskInv'
<1> USE ReconstructionAssumption, CapturesAssumption DEF TaskInv, TaskTypeOK
<1> DEFINE p == [method |-> "sequential", frames |-> Rescue(video.profile, video),
                 result |-> result]
<1>1. /\ video \in Capture /\ passes \in Seq(Pass) /\ ~Usable(Selected)
      /\ passes # <<>> /\ Len(passes) < 2
      /\ passes[1].frames = Primary(video.profile, video)
      /\ Rescue(video.profile, video) > Primary(video.profile, video)
  BY DEF RescuePass, BeforePasses, DuringPasses, ReconstructionTypeOK
<1>2. video.profile \in Profiles /\ video.frames \in Nat /\ video.duration \in Nat
  BY <1>1 DEF Capture
<1>3. /\ p.frames \in 1 .. video.frames /\ p.frames <= Policy[video.profile].rescueCap
      /\ p.frames > passes[1].frames
  BY <1>1, <1>2, PrimaryBounds, RescueBounds
<1>4. p \in Pass
  BY <1>3 DEF Pass
<1>5. /\ passes # <<>> /\ chosen \in DOMAIN passes
      /\ passes' = Append(passes, p) /\ Choose(p.result)
  <2>1. chosen \in DOMAIN passes
    BY <1>1 DEF BestIsChosen
  <2> QED BY <1>1, <2>1 DEF RescuePass, Processed
<1>6. BestIsChosen' /\ chosen' \in DOMAIN passes'
  BY <1>1, <1>4, <1>5, BestAfterPass
<1>7. passes' \in Seq(Pass) /\ passes' # <<>> /\ Len(passes') < 3
  <2> HIDE DEF p
  <2> QED BY <1>1, <1>4, <1>5, NotEmpty, OneMore
<1>8. stage' = IF Usable(Selected') THEN "judge" ELSE "exhaustive"
  BY DEF RescuePass, Selected
<1>9. TaskTypeOK'
  BY <1>6, <1>7, <1>8 DEF RescuePass, ReconstructionTypeOK, Stages
<1>10. BeforePasses'
  BY <1>8 DEF RescuePass, BeforePasses
<1>11. DuringPasses'
  BY <1>7, <1>8 DEF RescuePass, DuringPasses
<1>12. AfterPasses'
  BY <1>7, <1>8 DEF RescuePass, AfterPasses
<1>13. PassesArePlanned'
  <2>1. video' = video
    BY DEF RescuePass
  <2>2. p.method = "sequential"
    OBVIOUS
  <2> HIDE DEF p
  <2> QED BY <1>1, <1>3, <1>4, <1>5, <2>1, <2>2, PlannedAfterPass
<1> QED BY <1>6, <1>9, <1>10, <1>11, <1>12, <1>13

(* The last pass. *)
LEMMA ExhaustiveStep ==
  ASSUME TaskInv, NEW result \in Registrations, ExhaustivePass(result)
  PROVE  TaskInv'
<1> USE ReconstructionAssumption, CapturesAssumption DEF TaskInv, TaskTypeOK
<1> DEFINE p == [method |-> "exhaustive", frames |-> Exhaustive(video.profile, video),
                 result |-> result]
<1>1. /\ video \in Capture /\ passes \in Seq(Pass) /\ passes # <<>> /\ Len(passes) < 3
      /\ ~Usable(Selected) /\ video.frames > 0
  BY DEF ExhaustivePass, BeforePasses, DuringPasses, ReconstructionTypeOK
<1>2. video.profile \in Profiles /\ video.frames \in Nat /\ video.duration \in Nat
  BY <1>1 DEF Capture
<1>3. p.frames \in 1 .. video.frames /\ p.frames <= Policy[video.profile].exhaustiveCap
  BY <1>1, <1>2, ExhaustiveBounds
<1>4. p \in Pass
  BY <1>3 DEF Pass
<1>5. /\ passes # <<>> /\ chosen \in DOMAIN passes
      /\ passes' = Append(passes, p) /\ Choose(p.result)
  <2>1. chosen \in DOMAIN passes
    BY <1>1 DEF BestIsChosen
  <2> QED BY <1>1, <2>1 DEF ExhaustivePass, Processed
<1>6. BestIsChosen' /\ chosen' \in DOMAIN passes'
  BY <1>1, <1>4, <1>5, BestAfterPass
<1>7. passes' \in Seq(Pass) /\ passes' # <<>> /\ Len(passes') <= 3 /\ Len(passes') \in Nat
      /\ DOMAIN passes' = 1 .. Len(passes')
  <2> HIDE DEF p
  <2> QED BY <1>1, <1>4, <1>5, NotEmpty, OneMore
<1>8. TaskTypeOK'
  BY <1>1, <1>6, <1>7 DEF ExhaustivePass, ReconstructionTypeOK, Stages
<1>9. BeforePasses' /\ DuringPasses'
  BY <1>1 DEF ExhaustivePass, BeforePasses, DuringPasses
<1>10. AfterPasses'
  BY <1>7 DEF ExhaustivePass, AfterPasses
<1>11. PassesArePlanned'
  <2>1. video' = video
    BY DEF ExhaustivePass
  <2>2. p.method = "exhaustive"
    OBVIOUS
  <2> HIDE DEF p
  <2> QED BY <1>1, <1>3, <1>4, <1>5, <2>1, <2>2, PlannedAfterPass
<1> QED BY <1>6, <1>8, <1>9, <1>10, <1>11

(* Every step of a task, and a step of an upload, keep what is known of the task. *)
LEMMA TaskStep == UploadsTypeOK /\ StagedInv /\ TaskInv /\ [Next]_vars => TaskInv'
<1> SUFFICES ASSUME UploadsTypeOK, StagedInv, TaskInv, [Next]_vars PROVE TaskInv'
  OBVIOUS
<1> USE ReconstructionAssumption, CapturesAssumption
<1> USE DEF TaskInv, TaskTypeOK, ReconstructionTypeOK, BeforePasses, DuringPasses,
            AfterPasses, BestIsChosen, PassesArePlanned, Selected
<1>1. CASE Deliver
  BY <1>1 DEF Deliver, Stages
<1>2. CASE Abandon
  BY <1>2 DEF Abandon, Stages, Ended
<1>3. CASE Inspect
  BY <1>3 DEF Inspect, Stages
<1>4. CASE Judge
  BY <1>4 DEF Judge, Stages
<1>5. CASE Train
  <2>1. Selected \in Registrations
    <3>1. passes # <<>> /\ chosen \in DOMAIN passes /\ passes \in Seq(Pass)
      BY <1>5 DEF Train
    <3>2. passes[chosen] \in Pass
      BY <3>1
    <3> QED BY <3>2 DEF Pass
  <2> QED BY <1>5, <2>1 DEF Train, Stages
<1>6. CASE Export
  BY <1>6 DEF Export, Stages
<1>7. CASE Publish
  BY <1>7 DEF Publish, Stages
<1>8. CASE Report
  BY <1>8 DEF Report, Stages
<1>9. ASSUME NEW result \in Registrations, PrimaryPass(result) PROVE TaskInv'
  BY <1>9, PrimaryStep
<1>10. ASSUME NEW result \in Registrations, RescuePass(result) PROVE TaskInv'
  BY <1>10, RescueStep
<1>11. ASSUME NEW result \in Registrations, ExhaustivePass(result) PROVE TaskInv'
  BY <1>11, ExhaustiveStep
<1>12. ASSUME NEW r \in Requests, AddVideo(r) PROVE TaskInv'
  <2>1. request[r].profile \in Profiles
    BY <1>12 DEF AddVideo, Taken, StagedInv, StagedWhere, Acceptable
  <2>2. video' \in Capture /\ video = Nothing
    BY <1>12, <2>1 DEF AddVideo, Capture
  <2>3. stage = "waiting" /\ passes = <<>> /\ UNCHANGED <<stage, delivery, passes, chosen,
                                                           trained, quality, splat>>
    BY <1>12, <2>2 DEF AddVideo
  <2> QED BY <2>2, <2>3
<1>13. CASE UNCHANGED taskVars
  BY <1>13 DEF taskVars
<1> QED
  BY <1>1, <1>2, <1>3, <1>4, <1>5, <1>6, <1>7, <1>8, <1>9, <1>10, <1>11, <1>12, <1>13
  DEF Next, Upload, Reconstruct, AddOther, UploadsCrash, vars

(* What is known of uploads and of the task holds forever. *)
LEMMA TaskSound == Spec => [](UploadsTypeOK /\ StagedInv /\ TaskInv)
<1>1. Init => TaskInv
  BY ReconstructionAssumption
  DEF Init, ReconstructionInit, TaskInv, TaskTypeOK, ReconstructionTypeOK, BeforePasses,
      DuringPasses, AfterPasses, BestIsChosen, PassesArePlanned, Stages
<1> QED BY <1>1, UploadsSound, TaskStep, PTL DEF Spec

\* Types are kept, whatever is uploaded and whatever COLMAP answers: the profile of
\* a queued video exists, and there are never more than three passes.
THEOREM TypeCorrect == Spec => []TypeOK
<1>1. UploadsTypeOK /\ TaskInv => TypeOK
  BY DEF TaskInv, TaskTypeOK, TypeOK
<1> QED BY <1>1, TaskSound, PTL

\* A pass follows only passes that were too weak, and the best model is kept.
THEOREM BestKept == Spec => []BestIsChosen
<1>1. TaskInv => BestIsChosen
  BY DEF TaskInv
<1> QED BY <1>1, TaskSound, PTL

\* Every pass of every profile is within the video and within its cap.
THEOREM PassesPlanned == Spec => []PassesArePlanned
<1>1. TaskInv => PassesArePlanned
  BY DEF TaskInv
<1> QED BY <1>1, TaskSound, PTL

\* Nothing is trained or published from too few cameras.
THEOREM TrainedOnEnough == Spec => []TrainsOnEnough
<1> USE ReconstructionAssumption
<1>1. ASSUME NEW model \in Registrations, Usable(model)
      PROVE  /\ model.registered >= 24
             /\ model.registered >= 100 \/ 10 * model.registered >= model.extracted
  BY <1>1 DEF Usable, Greatest
<1>2. TaskInv => TrainsOnEnough
  BY <1>1 DEF TaskInv, TaskTypeOK, ReconstructionTypeOK, AfterPasses, TrainsOnEnough
<1> QED BY <1>2, TaskSound, PTL

\* The quality.json beside a finished model is the one of this model.
THEOREM QualityMatches == Spec => []QualityOfModel
<1>1. TaskInv => QualityOfModel
  <2>1. ASSUME TaskInv, stage = "done"
        PROVE  quality = [passes |-> passes, chosen |-> chosen] /\ splat = passes[chosen].result
    BY <2>1 DEF TaskInv, AfterPasses, Selected
  <2> QED BY <2>1 DEF QualityOfModel
<1> QED BY <1>1, TaskSound, PTL
=============================================================================
