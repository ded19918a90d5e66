------------------------ MODULE VisualLocalization -------------------------
(***************************************************************************)
(* Visual localization: the HLoc localizer and the publisher of map ->     *)
(* odom (src/src/hloc_localizer/hloc_localizer/hloc_localizer.py and       *)
(* hloc_tf_publisher.py), two single-threaded processes.  The localizer    *)
(* takes the newest image, is slow, and may find no pose; the publisher    *)
(* keeps the newest pose and retries it until the odometry of its time is  *)
(* in the transform buffer.  Either process may end and be started again.  *)
(* An image, the pose found in it and the correction made of that pose are *)
(* known by the stamp of the image, which each of them carries.            *)
(***************************************************************************)
EXTENDS Integers

CONSTANTS
  MaxTime,     \* bound on the clock
  CacheTime,   \* history of a transform buffer, 10 s
  MaxRestarts, \* bound on the restarts of either process
  None         \* no value

ASSUME VisualAssumption ==
  /\ MaxTime \in Nat /\ CacheTime \in Nat /\ MaxRestarts \in Nat
  /\ None \notin Int

VARIABLES
  image,          \* the image waiting for the localizer, queue depth 1
  locating,       \* the image image_callback works on
  posted,         \* the sample the localizer keeps for late subscribers
  arriving,       \* the sample at the publisher, not taken yet, depth 1
  pending_pose, last_processed_stamp, map_to_odom,
  cameraKnown,    \* base_link -> camera is in the buffer
  since, newest,  \* the buffer holds odom -> base_link of since..newest
  clock, restarts,
  \* history variables
  latest, inOrder, \* the last image, and no image had an earlier stamp than
                   \* the one before
  used             \* the last correction of all publishers so far, or -1

cameraVars == <<image, latest, inOrder>>
topicVars == <<posted, arriving>>
resultVars == <<last_processed_stamp, map_to_odom, used>>
bufferVars == <<cameraKnown, since, newest>>
vars == <<cameraVars, locating, topicVars, pending_pose, resultVars, bufferVars,
          clock, restarts>>

Time == 0..MaxTime
Pose == Time

Init ==
  /\ image = None /\ latest = -1 /\ inOrder = TRUE
  /\ locating = None /\ posted = None /\ arriving = None
  /\ pending_pose = None /\ last_processed_stamp = None
  /\ map_to_odom = None /\ used = -1
  /\ cameraKnown = FALSE /\ since = 0 /\ newest = -1
  /\ clock = 0 /\ restarts = 0
-----------------------------------------------------------------------------
\* A camera image; an older one that still waits is dropped.
ImageArrives(t) ==
  /\ image' = t /\ latest' = t /\ inOrder' = (inOrder /\ t >= latest)
  /\ UNCHANGED <<locating, topicVars, pending_pose, resultVars, bufferVars,
                 clock, restarts>>

BeginCallback ==
  /\ locating = None /\ image # None
  /\ locating' = image /\ image' = None
  /\ UNCHANGED <<latest, inOrder, topicVars, pending_pose, resultVars,
                 bufferVars, clock, restarts>>

\* Enough inliers; the pose keeps the stamp of its image.
PublishPose ==
  /\ locating # None /\ locating' = None
  /\ posted' = locating /\ arriving' = locating
  /\ UNCHANGED <<cameraVars, pending_pose, resultVars, bufferVars, clock, restarts>>

\* No conversion, no correspondences, an error or too few inliers.
NoPose ==
  /\ locating # None /\ locating' = None
  /\ UNCHANGED <<cameraVars, topicVars, pending_pose, resultVars, bufferVars,
                 clock, restarts>>

\* An exception that image_callback does not catch; the retained sample goes
\* with the process, and one that is still on its way may go or arrive.
LocalizerRestarts ==
  /\ restarts < MaxRestarts /\ restarts' = restarts + 1
  /\ image' = None /\ locating' = None
  /\ posted' = None /\ arriving' \in {None, arriving}
  /\ UNCHANGED <<latest, inOrder, pending_pose, resultVars, bufferVars, clock>>
-----------------------------------------------------------------------------
PoseCallback ==
  /\ arriving # None /\ arriving' = None /\ pending_pose' = arriving
  /\ UNCHANGED <<cameraVars, locating, posted, resultVars, bufferVars, clock,
                 restarts>>

InBuffer(t) == cameraKnown /\ since <= t /\ t <= newest

\* Mutant: the pose counts as processed whether or not that succeeded.
TimerCallbackOnce ==
  /\ pending_pose # None /\ pending_pose # last_processed_stamp
  /\ last_processed_stamp' = pending_pose
  /\ IF InBuffer(pending_pose)
     THEN map_to_odom' = pending_pose /\ used' = pending_pose
     ELSE UNCHANGED <<map_to_odom, used>>
  /\ UNCHANGED <<cameraVars, locating, topicVars, pending_pose, bufferVars, clock,
                 restarts>>

\* Mutant: the timer also tries the pose that arrives, beside the one it retries.
TimerCallbackTriesBoth ==
  \E pose \in {pending_pose, arriving} \ {None} :
    /\ pose # last_processed_stamp /\ InBuffer(pose)
    /\ last_processed_stamp' = pose
    /\ map_to_odom' = pose /\ used' = pose
    /\ UNCHANGED <<cameraVars, locating, topicVars, pending_pose, bufferVars,
                   clock, restarts>>

\* timer_callback with process_pose.  The executor has one thread, which waits
\* for the transform itself: what is not in the buffer does not come while it
\* waits, and the pose is tried again at the next timer.
TimerCallback ==
  /\ pending_pose # None /\ pending_pose # last_processed_stamp
  /\ InBuffer(pending_pose)
  /\ last_processed_stamp' = pending_pose
  /\ map_to_odom' = pending_pose /\ used' = pending_pose
  /\ UNCHANGED <<cameraVars, locating, topicVars, pending_pose, bufferVars, clock,
                 restarts>>

\* The publisher ends, for example by a quaternion of length zero, and starts
\* with an empty buffer; the topic gives it the last pose again.
PublisherRestarts ==
  /\ restarts < MaxRestarts /\ restarts' = restarts + 1
  /\ pending_pose' = None /\ last_processed_stamp' = None /\ map_to_odom' = None
  /\ cameraKnown' = FALSE /\ since' = clock /\ newest' = -1
  /\ arriving' = posted
  /\ UNCHANGED <<cameraVars, locating, posted, used, clock>>

StaticTransform ==
  /\ ~cameraKnown /\ cameraKnown' = TRUE
  /\ UNCHANGED <<cameraVars, locating, topicVars, pending_pose, resultVars, since,
                 newest, clock, restarts>>

\* The odometry up to now comes in, from the first message after a start on;
\* the buffer forgets what is too old.
OdomTransform ==
  /\ newest < clock /\ newest' = clock
  /\ since' = CASE newest = -1 -> clock
                [] since < clock - CacheTime -> clock - CacheTime
                [] OTHER -> since
  /\ UNCHANGED <<cameraVars, locating, topicVars, pending_pose, resultVars,
                 cameraKnown, clock, restarts>>

Tick ==
  /\ clock < MaxTime /\ clock' = clock + 1
  /\ UNCHANGED <<cameraVars, locating, topicVars, pending_pose, resultVars,
                 bufferVars, restarts>>

Localizer == BeginCallback \/ NoPose \/ PublishPose
Publisher == PoseCallback \/ TimerCallback
Transforms == StaticTransform \/ OdomTransform

Next == \/ Localizer \/ Publisher \/ Transforms \/ Tick
        \/ \E t \in 0..clock : ImageArrives(t)
        \/ LocalizerRestarts \/ PublisherRestarts

Spec == Init /\ [][Next]_vars

\* The timer, the topics and the transforms of a running robot go on.
FairSpec == /\ Spec /\ WF_vars(PoseCallback) /\ WF_vars(TimerCallback)
            /\ WF_vars(StaticTransform) /\ WF_vars(OdomTransform)
-----------------------------------------------------------------------------
TypeOK ==
  /\ image \in Time \cup {None} /\ latest \in Time \cup {-1} /\ inOrder \in BOOLEAN
  /\ locating \in Time \cup {None}
  /\ posted \in Pose \cup {None} /\ arriving \in Pose \cup {None}
  /\ pending_pose \in Pose \cup {None}
  /\ last_processed_stamp \in Time \cup {None}
  /\ map_to_odom \in Pose \cup {None} /\ used \in Pose \cup {-1}
  /\ (last_processed_stamp = None) <=> (map_to_odom = None)
  /\ cameraKnown \in BOOLEAN /\ since \in 0..clock /\ newest \in -1..clock
  /\ clock \in Time /\ restarts \in 0..MaxRestarts

\* A slow localizer, retried poses, the pose retained for late subscribers and
\* restarts of either process never put the correction back by themselves: as
\* long as the images came in the order of their stamps, no correction is older
\* than one that any publisher has sent before.
OrderKept ==
  [][inOrder /\ map_to_odom' \notin {None, map_to_odom} => map_to_odom' >= used]_vars

\* A pose whose odometry is still to come is used when it has come, also by a
\* publisher that was started anew, unless a newer pose replaces it, the process
\* that keeps it ends, or the buffer does not reach back to its time.
PoseIsUsed ==
  \A p \in Pose :
    p \in {posted, pending_pose} ~> \/ p \notin {posted, pending_pose}
                                    \/ p < since
                                    \/ map_to_odom = p

\* "Results whose time goes back are discarded."
TimeReversalDiscarded ==
  [][map_to_odom # None /\ map_to_odom' # None => map_to_odom' >= map_to_odom]_vars
=============================================================================
