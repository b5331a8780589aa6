------------------------- MODULE EventStreamProofs -------------------------
(***************************************************************************)
(* Proofs about EventStream, for every capacity of the buffer, every       *)
(* number of changes and any number of fetches under way.                  *)
(***************************************************************************)
EXTENDS EventStream, TLAPS

\* The inductive invariant: the page never shows more than the files hold, and
\* no answer does.
NothingInvented ==
  /\ shown <= version
  /\ \A f \in Fetches : fetch[f].at = "answered" => fetch[f].version <= version

(* Every step keeps the types. *)
LEMMA TypeStep == TypeOK /\ [Next]_vars => TypeOK'
<1> SUFFICES ASSUME TypeOK, [Next]_vars PROVE TypeOK'
  OBVIOUS
<1> USE EventAssumption DEF TypeOK, serverVars, pageVars, Unused, Asked, Answered
<1>1. CASE Save
  BY <1>1 DEF Save
<1>2. CASE Publish
  <2>1. unpublished' \in BOOLEAN /\ excused' \in BOOLEAN
    BY <1>2, Zenon DEF Publish
  <2> QED BY <1>2, <2>1 DEF Publish, Room
<1>3. CASE Forward
  BY <1>3 DEF Forward
<1>4. CASE Subscribe
  BY <1>4 DEF Subscribe
<1>5. CASE Cut
  <2>1. unpublished' \in BOOLEAN /\ subscribed' \in BOOLEAN /\ sent' \in BOOLEAN
        /\ timer' \in BOOLEAN /\ excused' \in BOOLEAN
    BY <1>5, Zenon DEF Cut
  <2> QED BY <1>5, <2>1 DEF Cut
<1>6. CASE CrashApp
  <2>1. unpublished' \in BOOLEAN /\ subscribed' \in BOOLEAN /\ sent' \in BOOLEAN
        /\ timer' \in BOOLEAN /\ excused' \in BOOLEAN
    BY <1>6, Zenon DEF CrashApp
  <2> QED BY <1>6, <2>1 DEF CrashApp
<1>7. CASE Receive
  <2>1. unpublished' \in BOOLEAN /\ subscribed' \in BOOLEAN /\ sent' \in BOOLEAN
        /\ timer' \in BOOLEAN /\ excused' \in BOOLEAN
    BY <1>7, Zenon DEF Receive
  <2> QED BY <1>7, <2>1 DEF Receive
<1>8. CASE Select
  BY <1>8 DEF Select
<1>9. ASSUME NEW f \in Fetches, TimerFires(f) PROVE TypeOK'
  BY <1>9 DEF TimerFires, Begin
<1>10. ASSUME NEW f \in Fetches, Poll(f) PROVE TypeOK'
  BY <1>10 DEF Poll, Begin
<1>11. ASSUME NEW f \in Fetches, Answer(f) PROVE TypeOK'
  BY <1>11 DEF Answer
<1>12. ASSUME NEW f \in Fetches, Apply(f) PROVE TypeOK'
  <2>1. excused' \in BOOLEAN
    BY <1>12, Zenon DEF Apply
  <2>2. fetch' \in [Fetches -> {Unused, Asked} \cup {Answered(v) : v \in 0 .. MaxVersion}]
    BY <1>12 DEF Apply
  <2>3. shown' \in 0 .. MaxVersion
    BY <1>12 DEF Apply
  <2> QED BY <1>12, <2>1, <2>2, <2>3 DEF Apply
<1>13. ASSUME NEW f \in Fetches, Fail(f) PROVE TypeOK'
  <2>1. excused' \in BOOLEAN
    BY <1>13, Zenon DEF Fail
  <2>2. fetch' \in [Fetches -> {Unused, Asked} \cup {Answered(v) : v \in 0 .. MaxVersion}]
    BY <1>13 DEF Fail
  <2>3. shown' \in 0 .. MaxVersion
    BY <1>13 DEF Fail
  <2> QED BY <1>13, <2>1, <2>2, <2>3 DEF Fail
<1>14. CASE UNCHANGED vars
  BY <1>14 DEF vars
<1> QED
  BY <1>1, <1>2, <1>3, <1>4, <1>5, <1>6, <1>7, <1>8, <1>9, <1>10, <1>11, <1>12, <1>13, <1>14
     DEF Next

(* No step shows or answers a version that was never saved. *)
LEMMA NothingInventedStep == TypeOK /\ NothingInvented /\ [Next]_vars => NothingInvented'
<1> SUFFICES ASSUME TypeOK, NothingInvented, [Next]_vars PROVE NothingInvented'
  OBVIOUS
<1> USE EventAssumption DEF TypeOK, serverVars, pageVars, Unused, Asked, Answered, NothingInvented
<1>1. CASE Save
  BY <1>1 DEF Save
<1>2. CASE Publish
  BY <1>2 DEF Publish
<1>3. CASE Forward
  BY <1>3 DEF Forward
<1>4. CASE Subscribe
  BY <1>4 DEF Subscribe
<1>5. CASE Cut
  BY <1>5 DEF Cut
<1>6. CASE CrashApp
  BY <1>6 DEF CrashApp
<1>7. CASE Receive
  BY <1>7 DEF Receive
<1>8. CASE Select
  BY <1>8 DEF Select
<1>9. ASSUME NEW f \in Fetches, TimerFires(f) PROVE NothingInvented'
  BY <1>9 DEF TimerFires, Begin
<1>10. ASSUME NEW f \in Fetches, Poll(f) PROVE NothingInvented'
  BY <1>10 DEF Poll, Begin
<1>11. ASSUME NEW f \in Fetches, Answer(f) PROVE NothingInvented'
  BY <1>11 DEF Answer
<1>12. ASSUME NEW f \in Fetches, Apply(f) PROVE NothingInvented'
  BY <1>12 DEF Apply
<1>13. ASSUME NEW f \in Fetches, Fail(f) PROVE NothingInvented'
  BY <1>13 DEF Fail
<1>14. CASE UNCHANGED vars
  BY <1>14 DEF vars
<1> QED
  BY <1>1, <1>2, <1>3, <1>4, <1>5, <1>6, <1>7, <1>8, <1>9, <1>10, <1>11, <1>12, <1>13, <1>14
     DEF Next

(* Every step keeps the last change on its way. *)
LEMMA StreamStep == TypeOK /\ NothingInvented /\ StreamSuffices /\ [Next]_vars => StreamSuffices'
<1> SUFFICES ASSUME TypeOK, NothingInvented, StreamSuffices, [Next]_vars PROVE StreamSuffices'
  OBVIOUS
<1> USE EventAssumption DEF TypeOK, serverVars, pageVars, Unused, Asked, Answered, NothingInvented, StreamSuffices, Pending
<1>1. CASE Save
  BY <1>1 DEF Save
<1>2. CASE Publish
  <2>1. CASE subscribed
    BY <1>2, <2>1 DEF Publish, Room
  <2>2. CASE ~subscribed
    <3>1. excused'
      BY <1>2, <2>2, Zenon DEF Publish
    <3> QED BY <3>1
  <2> QED BY <2>1, <2>2
<1>3. CASE Forward
  BY <1>3 DEF Forward
<1>4. CASE Subscribe
  BY <1>4 DEF Subscribe
<1>5. CASE Cut
  BY <1>5 DEF Cut
<1>6. CASE CrashApp
  BY <1>6 DEF CrashApp
<1>7. CASE Receive
  BY <1>7 DEF Receive
<1>8. CASE Select
  BY <1>8 DEF Select
<1>9. ASSUME NEW f \in Fetches, TimerFires(f) PROVE StreamSuffices'
  BY <1>9 DEF TimerFires, Begin
<1>10. ASSUME NEW f \in Fetches, Poll(f) PROVE StreamSuffices'
  BY <1>10 DEF Poll, Begin
<1>11. ASSUME NEW f \in Fetches, Answer(f) PROVE StreamSuffices'
  BY <1>11 DEF Answer
<1>12. ASSUME NEW f \in Fetches, Apply(f) PROVE StreamSuffices'
  <2> SUFFICES ASSUME shown' # version', ~excused' PROVE Pending'
    OBVIOUS
  <2>1. ~selecting /\ shown' = fetch[f].version /\ version' = version
    BY <1>12 DEF Apply
  <2>2. fetch[f].version # version /\ fetch[f].version \in 0 .. MaxVersion
    BY <1>12, <2>1 DEF Apply
  <2>3. ~excused /\ ~(fetch[f].version < shown)
    BY <1>12, <2>1, <2>2 DEF Apply
  <2>4. shown # version
    BY <2>2, <2>3, <1>12 DEF Apply
  <2>5. Pending
    BY <2>3, <2>4
  <2>6. ASSUME NEW g \in Fetches, fetch[g].at = "asked" \/ fetch[g] = Answered(version)
        PROVE  fetch'[g] = fetch[g]
    BY <2>6, <2>2, <1>12 DEF Apply
  <2> QED BY <2>5, <2>6, <1>12 DEF Apply
<1>13. ASSUME NEW f \in Fetches, Fail(f) PROVE StreamSuffices'
  BY <1>13 DEF Fail
<1>14. CASE UNCHANGED vars
  BY <1>14 DEF vars
<1> QED
  BY <1>1, <1>2, <1>3, <1>4, <1>5, <1>6, <1>7, <1>8, <1>9, <1>10, <1>11, <1>12, <1>13, <1>14
     DEF Next

----------------------------------------------------------------------------

(* The three invariants hold in every reachable state. *)
LEMMA Invariants == Spec => [](TypeOK /\ NothingInvented /\ StreamSuffices)
<1>1. Init => TypeOK /\ NothingInvented /\ StreamSuffices
  <2> SUFFICES ASSUME Init PROVE TypeOK /\ NothingInvented /\ StreamSuffices
    OBVIOUS
  <2>1. /\ unpublished \in BOOLEAN /\ subscribed \in BOOLEAN /\ sent \in BOOLEAN
        /\ timer \in BOOLEAN /\ selecting \in BOOLEAN /\ excused \in BOOLEAN
    BY Zenon DEF Init
  <2> QED BY <2>1, EventAssumption DEF Init, TypeOK, NothingInvented, StreamSuffices, Unused
<1>2. TypeOK /\ NothingInvented /\ StreamSuffices /\ [Next]_vars
        => (TypeOK /\ NothingInvented /\ StreamSuffices)'
  BY TypeStep, NothingInventedStep, StreamStep
<1> QED BY <1>1, <1>2, PTL DEF Spec

(* The types, for every capacity of the buffer. *)
THEOREM TypeCorrect == Spec => []TypeOK
BY Invariants, PTL

(* However small the buffer and however many changes and fetches, the stream   *)
(* itself never loses the last change of a job.                                *)
THEOREM StreamIsEnough == Spec => []StreamSuffices
BY Invariants, PTL
=============================================================================
