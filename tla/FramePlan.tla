----------------------------- MODULE FramePlan -----------------------------
(***************************************************************************)
(* The pure part of the quality gate, worker/prodsplat/quality.py: how     *)
(* many frames a pass samples from a capture, and whether the cameras that *)
(* COLMAP registered are enough.  Durations and sampling rates are in      *)
(* tenths (of a second, of a frame per second), ratios are compared by     *)
(* cross-multiplication; what rounding of floats may change is left out.   *)
(***************************************************************************)
EXTENDS Integers

Least(a, b)    == IF a < b THEN a ELSE b
Greatest(a, b) == IF a < b THEN b ELSE a

\* FRAME_POLICIES, with the minimum of jobs/profiles.go.
Profiles == {"fast", "balanced", "quality"}

Requested == [fast |-> 60, balanced |-> 90, quality |-> 140]

Policy ==
  [fast     |-> [primaryRate |-> 20, primaryCap |-> 240,
                 rescueRate  |-> 30, rescueCap  |-> 360, exhaustiveCap |-> 180],
   balanced |-> [primaryRate |-> 30, primaryCap |-> 450,
                 rescueRate  |-> 50, rescueCap  |-> 700, exhaustiveCap |-> 260],
   quality  |-> [primaryRate |-> 40, primaryCap |-> 650,
                 rescueRate  |-> 60, rescueCap  |-> 900, exhaustiveCap |-> 320]]

\* A capture: its frames and its duration, 0 when the container has no rate.
\* Frames sampled at a rate, rounded up; `otherwise' when the duration is unknown.
Sampled(duration, rate, otherwise) ==
  IF duration > 0 THEN (duration * rate + 99) \div 100 ELSE otherwise

MutPrimary(profile, video) ==
  Least(Greatest(Requested[profile],
                 Sampled(video.duration, Policy[profile].primaryRate, Requested[profile])),
        video.frames)
Primary(profile, video) ==
  Least(Least(Greatest(Requested[profile],
                       Sampled(video.duration, Policy[profile].primaryRate, Requested[profile])),
              Policy[profile].primaryCap),
        video.frames)

Rescue(profile, video) ==
  LET primary == Primary(profile, video) IN
  Least(Least(Greatest(primary, Sampled(video.duration, Policy[profile].rescueRate, primary)),
              Policy[profile].rescueCap),
        video.frames)

Exhaustive(profile, video) ==
  Least(Least(Greatest(Greatest(Requested[profile], 120),
                       Sampled(video.duration, 15, Requested[profile])),
              Policy[profile].exhaustiveCap),
        video.frames)

\* registration_is_usable: a healthy share of the frames, or many cameras.
Usable(r) ==
  /\ r.registered >= 24
  /\ \/ 100 * r.registered >= 35 * Greatest(r.extracted, 1)
     \/ r.registered >= 60 /\ 100 * r.registered >= 10 * Greatest(r.extracted, 1)
     \/ r.registered >= 100

\* The order in which two models are compared: cameras first, then their share.
Better(r, s) ==
  \/ r.registered > s.registered
  \/ /\ r.registered = s.registered
     /\ r.registered * Greatest(s.extracted, 1) > s.registered * Greatest(r.extracted, 1)
=============================================================================
