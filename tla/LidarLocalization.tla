------------------------- MODULE LidarLocalization -------------------------
(***************************************************************************)
(* The lidar localization node                                             *)
(* (src/src/lidar_localization_ros2_custom/src/                            *)
(* lidar_localization_component.cpp) as the robot configures it: odometry  *)
(* on, IMU off, map from a file, initial pose set, timer publishing on,    *)
(* map -> odom transforms.  A two-thread executor interleaves              *)
(*   - the default callback group: lifecycle calls and every subscription, *)
(*     one at a time, each of which may be slow (registration) or wait for *)
(*     a transform; task and scan say how far the one in progress is;      *)
(*   - the publishing timer, whose callback runs under publishing_mutex_.  *)
(* The robot moves on a line: a pose is a number with the time it was      *)
(* measured at, and the correction is map -> odom.  What the registration  *)
(* finds is arbitrary.                                                     *)
(***************************************************************************)
EXTENDS Integers

CONSTANTS
  Value,          \* poses on the map
  OdomValue,      \* poses in the odom frame
  MaxTime,        \* bound on the clock
  StaleAge,       \* age at which a cloud is dropped, 0.2 s
  OdomGap,        \* longest gap of odometry that is integrated, 1 s
  MaxEpoch,       \* bound on the manual resets of the pose
  MaxConfigures,  \* bound on the number of on_configure calls
  None            \* no value: a null pointer or an empty buffer

ASSUME LidarAssumption ==
  /\ Value \subseteq Int /\ OdomValue \subseteq Int
  /\ MaxTime \in Nat /\ StaleAge \in Nat /\ OdomGap \in Nat
  /\ MaxEpoch \in Nat /\ MaxConfigures \in Nat

VARIABLES
  lifecycle, subscribed,
  task,            \* what the default callback group is doing
  activating,      \* it was called by on_activate
  scan,            \* stamp of the cloud being registered
  map_recieved, initialpose_recieved, last_scan,
  target,          \* the present registration_ has been given a map
  pose,            \* corrent_pose_with_cov_stamped_ptr_
  odom_time_initialized, last_odom_received_time,
  publishing_active, cached_transform_valid, cached_transform,
  clock, odom,     \* the time, and odom -> base_link at every time so far
  odomSeen,        \* newest odom -> base_link in the transform buffer, or -1
  \* history variables
  epoch,           \* manual resets so far
  cachedEpoch,     \* the epoch the cached transform belongs to
  cachedFrom,      \* the measurement it was computed from
  measured,        \* the last measurement: a registration or a given pose
  published,       \* the last transform of the timer, with its epoch
  configures

callVars == <<lifecycle, subscribed, task, activating, scan>>
flagVars == <<map_recieved, initialpose_recieved, last_scan, target>>
odomVars == <<odom_time_initialized, last_odom_received_time>>
cacheVars == <<cached_transform_valid, cached_transform, cachedEpoch, cachedFrom>>
worldVars == <<clock, odom, odomSeen>>
historyVars == <<epoch, measured, configures>>
vars == <<callVars, flagVars, pose, odomVars, publishing_active, cacheVars,
          worldVars, historyVars, published>>

-----------------------------------------------------------------------------
Time == 0..MaxTime
Pose == [value : Value, stamp : Time]
Idle == task = "idle"

ASSUME LidarNoneAssumption == None \notin Time /\ None \notin Pose

Init ==
  /\ lifecycle = "unconfigured" /\ subscribed = FALSE
  /\ task = "idle" /\ activating = FALSE /\ scan = None
  /\ map_recieved = FALSE /\ initialpose_recieved = FALSE /\ last_scan = None
  /\ target = FALSE /\ pose = None
  /\ odom_time_initialized = FALSE /\ last_odom_received_time = 0
  /\ publishing_active = FALSE
  /\ cached_transform_valid = FALSE /\ cached_transform = 0
  /\ clock = 0 /\ odom \in [{0} -> OdomValue] /\ odomSeen = -1
  /\ epoch = 0 /\ cachedEpoch = 0 /\ cachedFrom = None /\ measured = None
  /\ published = None /\ configures = 0
-----------------------------------------------------------------------------
\* The registration is new and has no map; the flags of an earlier
\* configuration are left as they are.
Configure ==
  /\ Idle /\ lifecycle = "unconfigured" /\ configures < MaxConfigures
  /\ lifecycle' = "inactive" /\ subscribed' = TRUE
  /\ publishing_active' = FALSE /\ cached_transform_valid' = FALSE
  /\ target' = FALSE
  /\ configures' = configures + 1
  /\ UNCHANGED <<task, activating, scan, map_recieved, initialpose_recieved,
                 last_scan, pose, odomVars, cached_transform, cachedEpoch,
                 cachedFrom, worldVars, epoch, measured, published>>

\* Mutant: the cached correction stays valid over a reset.
ResetKeepsCorrection(p) ==
  /\ initialpose_recieved' = TRUE
  /\ pose' = p /\ odom_time_initialized' = FALSE
  /\ task' = "reset"
  /\ epoch' = epoch + 1 /\ measured' = p
  /\ UNCHANGED <<lifecycle, subscribed, scan, map_recieved, last_scan, target,
                 last_odom_received_time, publishing_active, cacheVars,
                 worldVars, configures, published>>

\* initialPoseReceived, as a callback or from on_activate, up to the cached
\* correction being withdrawn.
ResetPose(p) ==
  /\ initialpose_recieved' = TRUE
  /\ pose' = p /\ odom_time_initialized' = FALSE
  /\ cached_transform_valid' = FALSE
  /\ task' = "reset"
  /\ epoch' = epoch + 1 /\ measured' = p
  /\ UNCHANGED <<lifecycle, subscribed, scan, map_recieved, last_scan, target,
                 last_odom_received_time, publishing_active, cached_transform,
                 cachedEpoch, cachedFrom, worldVars, configures, published>>

InitialPoseReceived(p) ==
  /\ Idle /\ subscribed /\ epoch < MaxEpoch
  /\ ResetPose(p) /\ UNCHANGED activating

BeginActivate(v) ==
  /\ Idle /\ lifecycle = "inactive" /\ epoch < MaxEpoch
  /\ ResetPose([value |-> v, stamp |-> clock]) /\ activating' = TRUE

\* cachePoseForPublishing.  The pose and the odometry it is combined with
\* belong to the same time; if that odometry is not to be had within 0.1 s,
\* nothing is cached.
CachePose(p) ==
  \/ /\ p.stamp <= odomSeen
     /\ cached_transform' = p.value - odom[p.stamp]
     /\ cached_transform_valid' = TRUE
     /\ cachedEpoch' = epoch /\ cachedFrom' = measured
  \/ UNCHANGED cacheVars

\* The rest of initialPoseReceived, up to its call of cloudReceived.
CacheInitialPose ==
  /\ task = "reset" /\ CachePose(pose)
  /\ task' = "rescan"
  /\ UNCHANGED <<lifecycle, subscribed, activating, scan, flagVars, pose,
                 odomVars, publishing_active, worldVars, historyVars, published>>

\* A callback returns; initialPoseReceived may return to on_activate.
Return == /\ task' = IF activating THEN "load" ELSE "idle"
          /\ scan' = None
          /\ UNCHANGED <<lifecycle, subscribed, activating>>

\* Mutant: the check that a map was received is dropped.
WantedWithoutMap(s) == initialpose_recieved /\ clock - s <= StaleAge

\* cloudReceived, as a callback or with the last scan after a reset.
Wanted(s) == map_recieved /\ initialpose_recieved /\ clock - s <= StaleAge

BeginAlign(s) == /\ Wanted(s)
                 /\ task' = "align" /\ scan' = s
                 /\ UNCHANGED <<lifecycle, subscribed, activating>>

Unchanged == UNCHANGED <<flagVars, pose, odomVars, publishing_active, cacheVars,
                         worldVars, historyVars, published>>

CloudReceived(s) == Idle /\ subscribed /\ BeginAlign(s) /\ Unchanged

Rescan == /\ task = "rescan"
          /\ IF last_scan # None /\ Wanted(last_scan) THEN BeginAlign(last_scan)
                                                     ELSE Return
          /\ Unchanged

\* The registration converges on some pose, of the time of the scan.
AlignSucceeds(v) ==
  /\ task = "align"
  /\ pose' = [value |-> v, stamp |-> scan] /\ measured' = pose'
  /\ task' = "store"
  /\ UNCHANGED <<lifecycle, subscribed, activating, scan, flagVars, odomVars,
                 publishing_active, cacheVars, worldVars, epoch, configures,
                 published>>

\* It does not converge, or the cloud cannot be transformed.
AlignFails == task = "align" /\ Return /\ Unchanged

StoreResult ==
  /\ task = "store" /\ CachePose(pose)
  /\ last_scan' = scan
  /\ Return
  /\ UNCHANGED <<map_recieved, initialpose_recieved, target, pose, odomVars,
                 publishing_active, worldVars, historyVars, published>>

\* on_activate loads the map, and starts publishing if that succeeds.
LoadMap ==
  /\ task = "load" /\ task' = "activated"
  /\ target' = TRUE /\ map_recieved' = TRUE
  /\ publishing_active' = TRUE
  /\ UNCHANGED <<lifecycle, subscribed, activating, scan, initialpose_recieved,
                 last_scan, pose, odomVars, cacheVars, worldVars, historyVars,
                 published>>

\* It returns, and only then is the node active.
Activated ==
  /\ task = "activated" /\ task' = "idle" /\ activating' = FALSE
  /\ lifecycle' = "active"
  /\ UNCHANGED <<subscribed, scan>> /\ Unchanged

LoadMapFails ==
  /\ task = "load" /\ task' = "idle" /\ activating' = FALSE
  /\ UNCHANGED <<lifecycle, subscribed, scan>> /\ Unchanged

\* The map topic; on_cleanup forgets to end this subscription.
MapReceived ==
  /\ Idle /\ configures > 0
  /\ target' = TRUE /\ map_recieved' = TRUE
  /\ UNCHANGED <<callVars, initialpose_recieved, last_scan, pose, odomVars,
                 publishing_active, cacheVars, worldVars, historyVars, published>>

\* Mutant: odometry has a callback group of its own.
OdomReceivedAnyTime(t) ==
  /\ subscribed /\ initialpose_recieved
  /\ last_odom_received_time' = t /\ odom_time_initialized' = TRUE
  /\ IF odom_time_initialized /\ t - last_odom_received_time \in 0..OdomGap
     THEN \E v \in Value : pose' = [pose EXCEPT !.value = v]
     ELSE UNCHANGED pose
  /\ UNCHANGED <<callVars, flagVars, publishing_active, cacheVars, worldVars,
                 historyVars, published>>

\* The first message after a reset only sets the time; later ones move the
\* pose, but not its stamp.
OdomReceived(t) ==
  /\ Idle /\ subscribed /\ initialpose_recieved
  /\ last_odom_received_time' = t /\ odom_time_initialized' = TRUE
  /\ IF odom_time_initialized /\ t - last_odom_received_time \in 0..OdomGap
     THEN \E v \in Value : pose' = [pose EXCEPT !.value = v]
     ELSE UNCHANGED pose
  /\ UNCHANGED <<callVars, flagVars, publishing_active, cacheVars, worldVars,
                 historyVars, published>>

\* stopTimerPublishing and the rest of the three lifecycle calls.
Stop(from, to) ==
  /\ Idle /\ lifecycle \in from /\ lifecycle' = to
  /\ publishing_active' = FALSE
  /\ UNCHANGED <<task, activating, scan, flagVars, pose, odomVars, cacheVars,
                 worldVars, historyVars, published>>

Deactivate == Stop({"active"}, "inactive") /\ UNCHANGED subscribed
Cleanup == Stop({"inactive"}, "unconfigured") /\ subscribed' = FALSE
Shutdown == /\ Stop({"unconfigured", "inactive", "active"}, "finalized")
            /\ UNCHANGED subscribed

-----------------------------------------------------------------------------
\* The timer, on its own thread.
TimerPublishPose ==
  /\ publishing_active /\ cached_transform_valid
  /\ published' = [transform |-> cached_transform, epoch |-> cachedEpoch]
  /\ UNCHANGED <<callVars, flagVars, pose, odomVars, publishing_active,
                 cacheVars, worldVars, historyVars>>

Tick ==
  /\ clock < MaxTime /\ clock' = clock + 1
  /\ \E v \in OdomValue : odom' = [t \in 0..clock' |-> IF t = clock' THEN v
                                                                    ELSE odom[t]]
  /\ UNCHANGED <<callVars, flagVars, pose, odomVars, publishing_active,
                 cacheVars, odomSeen, historyVars, published>>

\* A transform of the odometry arrives in the buffer.
OdomTransform(t) ==
  /\ t > odomSeen
  /\ odomSeen' = t
  /\ UNCHANGED <<callVars, flagVars, pose, odomVars, publishing_active,
                 cacheVars, clock, odom, historyVars, published>>

Lifecycle == \/ Configure \/ \E v \in Value : BeginActivate(v)
             \/ LoadMap \/ Activated \/ LoadMapFails
             \/ Deactivate \/ Cleanup \/ Shutdown

Callback == \/ \E p \in [value : Value, stamp : 0..clock] : InitialPoseReceived(p)
            \/ CacheInitialPose \/ Rescan
            \/ \E s \in 0..clock : CloudReceived(s) \/ OdomReceived(s)
            \/ \E v \in Value : AlignSucceeds(v)
            \/ AlignFails \/ StoreResult \/ MapReceived

Next == \/ Lifecycle \/ Callback \/ TimerPublishPose
        \/ Tick \/ \E t \in 0..clock : OdomTransform(t)

Spec == Init /\ [][Next]_vars
-----------------------------------------------------------------------------
TypeOK ==
  /\ lifecycle \in {"unconfigured", "inactive", "active", "finalized"}
  /\ task \in {"idle", "reset", "rescan", "align", "store", "load", "activated"}
  /\ subscribed \in BOOLEAN /\ activating \in BOOLEAN
  /\ scan \in Time \cup {None} /\ last_scan \in Time \cup {None}
  /\ map_recieved \in BOOLEAN /\ initialpose_recieved \in BOOLEAN
  /\ target \in BOOLEAN
  /\ pose \in Pose \cup {None} /\ measured \in Pose \cup {None}
  /\ initialpose_recieved <=> pose # None
  /\ odom_time_initialized \in BOOLEAN /\ last_odom_received_time \in Time
  /\ publishing_active \in BOOLEAN /\ cached_transform_valid \in BOOLEAN
  /\ cached_transform \in Int
  /\ clock \in Time /\ odom \in [0..clock -> OdomValue]
  /\ odomSeen \in -1..clock
  /\ epoch \in 0..MaxEpoch /\ cachedEpoch \in 0..epoch
  /\ cachedFrom \in Pose \cup {None}
  /\ published \in [transform : Int, epoch : 0..epoch] \cup {None}

\* TypeOK also says that odomReceived and cloudReceived, which test the flag,
\* have a pose to work on.

\* "Do not keep broadcasting the previous correction after a manual reset":
\* every transform the timer sends belongs to the latest reset, whatever callback
\* the reset interrupts, and the timer sends nothing unless the node is active or
\* about to return from on_activate.
PublishesCurrentCorrection ==
  [][published' # published
       => /\ published'.epoch = epoch
          /\ lifecycle = "active" \/ task = "activated"]_vars

\* "Both poses must refer to the SAME time": the cached correction is made of
\* a pose as it was measured, before odometry moved it on, and of the odometry
\* of the very time of that measurement.
CorrectionFromOneInstant ==
  cached_transform_valid
    => cached_transform = cachedFrom.value - odom[cachedFrom.stamp]

\* A registration has a map to register against, as long as the node was not
\* configured a second time.
AlignHasTarget == configures <= 1 /\ task = "align" => target
=============================================================================
