--------------------- MODULE VisualLocalization_proofs ----------------------
(***************************************************************************)
(* Theorems about visual localization, for any length of the transform     *)
(* buffer, any delays and any number of restarts.                          *)
(***************************************************************************)
EXTENDS VisualLocalization, TLAPS

USE VisualAssumption

\* An image that is taken, or the pose found in it, is not newer than what is
\* in the stages before it: pairwise, since any of the stages may be empty.
NotAfter(stage, before) ==
  stage # None => \A other \in before : other # None => stage <= other

\* The stages between the camera and the correction hold what passes through
\* them in the order of the images; a restart empties stages, or fills that of
\* the arriving sample from the retained one.
StageInv ==
  /\ NotAfter(image, {latest})
  /\ NotAfter(locating, {image, latest})
  /\ NotAfter(posted, {locating, image, latest})
  /\ NotAfter(arriving, {posted, locating, image, latest})
  /\ NotAfter(pending_pose, {arriving, posted, locating, image, latest})
  /\ NotAfter(used, {pending_pose, arriving, posted, locating, image, latest})

IInv == TypeOK /\ (inOrder => StageInv)

LEMMA InitCorrect == ASSUME Init PROVE IInv
<1>1. clock \in Time /\ restarts \in 0..MaxRestarts
  BY DEF Init, Time
<1>2. since \in 0..clock /\ newest \in -1..clock
  BY DEF Init
<1>3. TypeOK
  BY <1>1, <1>2 DEF Init, TypeOK
<1>4. StageInv
  BY DEF Init, StageInv, NotAfter
<1>5. QED  BY <1>3, <1>4 DEF IInv

LEMMA NextType == ASSUME TypeOK, [Next]_vars PROVE TypeOK'
<1> USE DEF cameraVars, topicVars, resultVars, bufferVars, Pose
<1>1. ASSUME NEW t \in 0..clock, ImageArrives(t) PROVE TypeOK'
  BY <1>1 DEF ImageArrives, TypeOK, Time
<1>2. CASE Localizer
  BY <1>2 DEF Localizer, BeginCallback, NoPose, PublishPose, TypeOK
<1>3. CASE Publisher
  BY <1>3 DEF Publisher, PoseCallback, TimerCallback, TypeOK
<1>4. CASE StaticTransform
  BY <1>4 DEF StaticTransform, TypeOK
<1>5. CASE OdomTransform
  <2>1. clock \in Nat /\ since' \in 0..clock /\ newest' \in -1..clock
    BY <1>5 DEF OdomTransform, TypeOK, Time
  <2>2. UNCHANGED <<cameraVars, locating, topicVars, pending_pose, resultVars,
                    cameraKnown, clock, restarts>>
    BY <1>5 DEF OdomTransform
  <2>3. QED  BY <2>1, <2>2 DEF TypeOK
<1>6. CASE Tick
  BY <1>6 DEF Tick, TypeOK, Time
<1>7. CASE LocalizerRestarts
  BY <1>7 DEF LocalizerRestarts, TypeOK
<1>8. CASE PublisherRestarts
  <2>1. restarts' \in 0..MaxRestarts /\ since' \in 0..clock' /\ newest' \in -1..clock'
    BY <1>8 DEF PublisherRestarts, TypeOK, Time
  <2>2. /\ pending_pose' = None /\ last_processed_stamp' = None /\ map_to_odom' = None
        /\ cameraKnown' = FALSE /\ arriving' = posted
        /\ UNCHANGED <<cameraVars, locating, posted, used, clock>>
    BY <1>8 DEF PublisherRestarts
  <2>3. QED  BY <2>1, <2>2 DEF TypeOK
<1>9. CASE UNCHANGED vars
  BY <1>9 DEF vars, TypeOK
<1>10. QED
  BY <1>1, <1>2, <1>3, <1>4, <1>5, <1>6, <1>7, <1>8, <1>9 DEF Next, Transforms

\* Whatever is in a stage is a stamp, which the comparisons need.
LEMMA StageTypes ==
  ASSUME TypeOK
  PROVE  /\ image \in Int \cup {None} /\ locating \in Int \cup {None}
         /\ posted \in Int \cup {None} /\ arriving \in Int \cup {None}
         /\ pending_pose \in Int \cup {None}
         /\ used \in Int /\ latest \in Int
BY DEF TypeOK, Pose, Time

LEMMA NextStage ==
  ASSUME IInv, [Next]_vars, inOrder'
  PROVE  StageInv'
<1> USE DEF cameraVars, topicVars, resultVars, bufferVars, StageInv, NotAfter
<1>1. inOrder
  BY DEF Next, Localizer, BeginCallback, NoPose, PublishPose, Publisher,
         PoseCallback, TimerCallback, Transforms, StaticTransform, OdomTransform,
         Tick, ImageArrives, LocalizerRestarts, PublisherRestarts, vars
<1>2. StageInv
  BY <1>1 DEF IInv
<1>3. /\ image \in Int \cup {None} /\ locating \in Int \cup {None}
      /\ posted \in Int \cup {None} /\ arriving \in Int \cup {None}
      /\ pending_pose \in Int \cup {None}
      /\ used \in Int /\ latest \in Int
  BY StageTypes DEF IInv
<1>4. ASSUME NEW t \in 0..clock, ImageArrives(t) PROVE StageInv'
  <2>1. t \in Int /\ t >= latest
    <3>1. inOrder' = (inOrder /\ t >= latest)
      BY <1>4, Zenon DEF ImageArrives
    <3>2. t >= latest
      BY <3>1, Zenon
    <3>3. QED  BY <3>2 DEF IInv, TypeOK, Time
  <2>2. /\ image' = t /\ latest' = t
        /\ UNCHANGED <<locating, posted, arriving, pending_pose, used>>
    BY <1>4 DEF ImageArrives
  <2>3. QED  BY <1>2, <1>3, <2>1, <2>2
<1>5. CASE BeginCallback
  BY <1>2, <1>3, <1>5 DEF BeginCallback
<1>6. CASE NoPose
  BY <1>2, <1>3, <1>6 DEF NoPose
<1>7. CASE PublishPose
  BY <1>2, <1>3, <1>7 DEF PublishPose
<1>8. CASE LocalizerRestarts
  BY <1>2, <1>3, <1>8 DEF LocalizerRestarts
<1>9. CASE PoseCallback
  BY <1>2, <1>3, <1>9 DEF PoseCallback
<1>10. CASE TimerCallback
  BY <1>2, <1>3, <1>10 DEF TimerCallback
<1>11. CASE PublisherRestarts
  BY <1>2, <1>3, <1>11 DEF PublisherRestarts
<1>12. CASE Transforms \/ Tick \/ UNCHANGED vars
  BY <1>2, <1>12 DEF Transforms, StaticTransform, OdomTransform, Tick, vars
<1>13. QED
  BY <1>4, <1>5, <1>6, <1>7, <1>8, <1>9, <1>10, <1>11, <1>12
  DEF Next, Localizer, Publisher

LEMMA InvCorrect == Spec => []IInv
<1>1. ASSUME IInv, [Next]_vars PROVE IInv'
  <2>1. TypeOK'  BY <1>1, NextType DEF IInv
  <2>2. inOrder' => StageInv'  BY <1>1, NextStage
  <2>3. QED  BY <2>1, <2>2 DEF IInv
<1>2. QED  BY <1>1, InitCorrect, PTL DEF Spec

\* Every variable keeps its range; there is a correction exactly when a pose
\* has been processed.
THEOREM TypeCorrect == Spec => []TypeOK
BY InvCorrect, PTL DEF IInv

\* No correction is older than one that was sent before it, as long as the
\* images came in order, whatever is slow, retried, retained or restarted.
THEOREM OrderCorrect == Spec => OrderKept
<1> DEFINE Kept == inOrder /\ map_to_odom' \notin {None, map_to_odom}
                     => map_to_odom' >= used
<1>1. ASSUME IInv, [Next]_vars PROVE Kept
  <2>1. SUFFICES ASSUME inOrder, map_to_odom' # None, map_to_odom' # map_to_odom
                 PROVE  map_to_odom' >= used
    OBVIOUS
  <2>2. TimerCallback
    BY <1>1, <2>1
    DEF Next, Localizer, BeginCallback, NoPose, PublishPose, Publisher,
        PoseCallback, Transforms, StaticTransform, OdomTransform, Tick,
        ImageArrives, LocalizerRestarts, PublisherRestarts, vars, resultVars
  <2>3. pending_pose # None /\ map_to_odom' = pending_pose
    BY <2>2 DEF TimerCallback
  <2>4. pending_pose \in Int /\ used \in Int
    BY <1>1, <2>3, StageTypes DEF IInv
  <2>5. NotAfter(used, {pending_pose})
    BY <1>1, <2>1 DEF IInv, StageInv, NotAfter
  <2>6. used <= pending_pose
    BY <2>3, <2>4, <2>5 DEF NotAfter
  <2>7. QED  BY <2>3, <2>4, <2>6
<1>2. IInv /\ [Next]_vars => [Kept]_vars
  BY <1>1
<1>3. QED  BY <1>2, InvCorrect, PTL DEF Spec, OrderKept
=============================================================================
