---------------------- MODULE LidarLocalization_proofs ----------------------
(***************************************************************************)
(* Theorems about the lidar localization node, for any poses, any ages and *)
(* gaps, and any number of resets and configurations.                      *)
(***************************************************************************)
EXTENDS LidarLocalization, TLAPS

USE LidarAssumption, LidarNoneAssumption

\* TypeOK in parts, so that each step touches few of them.
CallType ==
  /\ lifecycle \in {"unconfigured", "inactive", "active", "finalized"}
  /\ task \in {"idle", "reset", "rescan", "align", "store", "load", "activated"}
  /\ subscribed \in BOOLEAN /\ activating \in BOOLEAN
  /\ scan \in Time \cup {None} /\ last_scan \in Time \cup {None}
FlagType ==
  /\ map_recieved \in BOOLEAN /\ target \in BOOLEAN
  /\ odom_time_initialized \in BOOLEAN /\ last_odom_received_time \in Time
  /\ publishing_active \in BOOLEAN /\ cached_transform_valid \in BOOLEAN
PoseType ==
  /\ pose \in Pose \cup {None} /\ measured \in Pose \cup {None}
  /\ initialpose_recieved \in BOOLEAN
  /\ initialpose_recieved <=> pose # None
EpochType ==
  /\ epoch \in 0..MaxEpoch /\ cachedEpoch \in 0..epoch
  /\ cached_transform \in Int /\ cachedFrom \in Pose \cup {None}
  /\ published \in [transform : Int, epoch : 0..epoch] \cup {None}
WorldType ==
  /\ clock \in Time /\ odomSeen \in -1..clock
  /\ odom \in [0..clock -> OdomValue]

\* What the timer may send: the cached transform belongs to the latest reset
\* and is made of a measurement of the past and the odometry of its time.
CacheInv ==
  cached_transform_valid
    => /\ cachedEpoch = epoch
       /\ cachedFrom \in Pose /\ cachedFrom.stamp <= clock
       /\ cached_transform = cachedFrom.value - odom[cachedFrom.stamp]

\* The pose that is about to be cached is still the one that was measured:
\* between a measurement and its CachePose no odometry can move it.
PoseInv ==
  /\ pose # None => pose.stamp <= clock
  /\ task \in {"reset", "store"} => pose # None /\ measured = pose
  /\ scan # None => scan <= clock
  /\ last_scan # None => last_scan <= clock
  /\ task \in {"align", "store"} => scan # None /\ pose # None

\* Publishing begins at the end of on_activate and ends with every way out of the
\* active state; no callback runs in the middle of a lifecycle call.
ActiveInv == publishing_active => lifecycle = "active" \/ task = "activated"

\* Where the flags of the map come from, and that there was a configuration
\* before anything else could happen.
TargetInv ==
  /\ configures \in Nat
  /\ lifecycle \in {"inactive", "active"} => configures >= 1
  /\ subscribed => configures >= 1
  /\ task # "idle" => configures >= 1
  /\ map_recieved => configures >= 1
  /\ configures <= 1 /\ map_recieved => target
  /\ task = "align" => map_recieved

IInv == /\ CallType /\ FlagType /\ PoseType /\ EpochType /\ WorldType
        /\ CacheInv /\ PoseInv /\ ActiveInv /\ TargetInv

-----------------------------------------------------------------------------
LEMMA PoseMake ==
  ASSUME NEW v \in Value, NEW t \in Time
  PROVE  /\ [value |-> v, stamp |-> t] \in Pose
         /\ [value |-> v, stamp |-> t].stamp = t
  BY DEF Pose

LEMMA PoseFields == \A p \in Pose : /\ p.value \in Value /\ p.value \in Int
                                    /\ p.stamp \in Time /\ p.stamp \in Nat
                                    /\ p # None
<1> SUFFICES ASSUME NEW p \in Pose
             PROVE  /\ p.value \in Value /\ p.value \in Int
                    /\ p.stamp \in Time /\ p.stamp \in Nat
                    /\ p # None
  OBVIOUS
<1>1. p.value \in Value /\ p.stamp \in Time
  BY DEF Pose
<1>2. p.value \in Int
  BY <1>1
<1>3. p.stamp \in Nat
  BY <1>1 DEF Time
<1>4. p # None
  OBVIOUS
<1> QED
  BY <1>1, <1>2, <1>3, <1>4

LEMMA InitIInv == Init => IInv
<1> SUFFICES ASSUME Init PROVE IInv
  OBVIOUS
<1>1. CallType /\ FlagType
  <2>1. 0 \in Time
    BY DEF Time
  <2>2. CallType
    BY DEF Init, CallType
  <2> QED
    BY <2>1, <2>2 DEF Init, FlagType
<1>5. PoseType
  BY DEF Init, PoseType
<1>2. EpochType
  BY DEF Init, EpochType
<1>3. WorldType
  <2>1. 0..0 = {0}
    OBVIOUS
  <2> QED
    BY <2>1 DEF Init, WorldType, Time
<1>4. CacheInv /\ PoseInv /\ ActiveInv /\ TargetInv
  BY DEF Init, CacheInv, PoseInv, ActiveInv, TargetInv
<1> QED
  BY <1>1, <1>2, <1>3, <1>4, <1>5 DEF IInv

-----------------------------------------------------------------------------
\* A manual reset, from the topic or from on_activate.
LEMMA ResetPoseInv ==
  ASSUME IInv, NEW p \in Pose, p.stamp <= clock, epoch < MaxEpoch,
         configures >= 1, ResetPose(p), activating' \in BOOLEAN,
         task # "activated"
  PROVE  IInv'
<1> USE DEF IInv
<1>1. CallType' /\ FlagType'
  BY DEF CallType, FlagType, ResetPose
<1>2. PoseType'
  BY PoseFields DEF PoseType, ResetPose
<1>3. EpochType'
  <2>1. epoch \in Nat /\ epoch' = epoch + 1 /\ epoch' \in 0..MaxEpoch
    BY DEF EpochType, ResetPose
  <2>2. cachedEpoch' \in 0..epoch'
    BY <2>1 DEF EpochType, ResetPose
  <2>3. published' \in [transform : Int, epoch : 0..epoch'] \cup {None}
    BY <2>1 DEF EpochType, ResetPose
  <2> QED
    BY <2>1, <2>2, <2>3 DEF EpochType, ResetPose
<1>4. WorldType'
  BY DEF WorldType, ResetPose, worldVars
<1>5. CacheInv' /\ ActiveInv'
  BY DEF CacheInv, ActiveInv, ResetPose
<1>6. PoseInv' /\ TargetInv'
  BY PoseFields DEF CallType, PoseInv, TargetInv, ResetPose, worldVars
<1> QED
  BY <1>1, <1>2, <1>3, <1>4, <1>5, <1>6

\* cachePoseForPublishing keeps the invariant if the pose is a measurement.
LEMMA CachePoseInv ==
  ASSUME IInv, CachePose(pose), pose \in Pose, measured = pose,
         cached_transform_valid' \in BOOLEAN,
         UNCHANGED <<epoch, clock, odom, published>>
  PROVE  CacheInv' /\ EpochType'
<1> USE DEF IInv
<1>1. CASE UNCHANGED cacheVars
  BY <1>1 DEF EpochType, CacheInv, cacheVars
<1>2. CASE /\ pose.stamp <= odomSeen
           /\ cached_transform' = pose.value - odom[pose.stamp]
           /\ cached_transform_valid' = TRUE
           /\ cachedEpoch' = epoch /\ cachedFrom' = measured
  <2>1. pose.stamp \in 0..clock
    BY <1>2, PoseFields DEF WorldType, Time
  <2>2. odom[pose.stamp] \in Int
    BY <2>1 DEF WorldType
  <2>3. CacheInv'
    BY <1>2, <2>1, PoseFields DEF CacheInv
  <2> QED
    BY <1>2, <2>2, <2>3, PoseFields DEF EpochType
<1> QED
  BY <1>1, <1>2 DEF CachePose

-----------------------------------------------------------------------------
\* The calls of the default callback group.
LEMMA ConfigureInv == IInv /\ Configure => IInv'
<1> SUFFICES ASSUME IInv, Configure PROVE IInv'
  OBVIOUS
<1> USE DEF IInv, Configure, odomVars, worldVars
<1>1. CallType' /\ FlagType' /\ PoseType' /\ EpochType' /\ WorldType'
  <2>1. CallType' /\ FlagType'
    BY DEF CallType, FlagType
  <2>2. PoseType'
    BY DEF PoseType
  <2>3. EpochType' /\ WorldType'
    BY DEF EpochType, WorldType
  <2> QED
    BY <2>1, <2>2, <2>3
<1>2. CacheInv' /\ PoseInv' /\ ActiveInv'
  BY DEF CacheInv, PoseInv, ActiveInv
<1>3. TargetInv'
  BY DEF TargetInv, Idle
<1> QED
  BY <1>1, <1>2, <1>3

LEMMA InitialPoseReceivedInv ==
  ASSUME IInv, NEW p \in [value : Value, stamp : 0..clock],
         InitialPoseReceived(p)
  PROVE  IInv'
<1>1. p \in Pose /\ p.stamp <= clock
  BY DEF IInv, WorldType, Pose, Time
<1>2. configures >= 1 /\ activating' \in BOOLEAN /\ task # "activated"
  BY DEF IInv, TargetInv, CallType, InitialPoseReceived, Idle
<1> QED
  BY <1>1, <1>2, ResetPoseInv DEF InitialPoseReceived

LEMMA BeginActivateInv ==
  ASSUME IInv, NEW v \in Value, BeginActivate(v)
  PROVE  IInv'
<1> DEFINE p == [value |-> v, stamp |-> clock]
<1>1. p \in Pose /\ p.stamp <= clock
  BY DEF IInv, WorldType, Pose, Time
<1>2. configures >= 1 /\ activating' \in BOOLEAN /\ task # "activated"
  BY DEF IInv, TargetInv, BeginActivate, Idle
<1>3. ResetPose(p) /\ epoch < MaxEpoch
  BY DEF BeginActivate
<1> HIDE DEF p
<1> QED
  BY <1>1, <1>2, <1>3, ResetPoseInv

LEMMA CacheInitialPoseInv == IInv /\ CacheInitialPose => IInv'
<1> SUFFICES ASSUME IInv, CacheInitialPose PROVE IInv'
  OBVIOUS
<1> USE DEF CacheInitialPose, flagVars, odomVars, worldVars, historyVars
<1>1. pose \in Pose /\ measured = pose
  BY DEF IInv, PoseInv, PoseType
<1>2. cached_transform_valid' \in BOOLEAN
  BY DEF IInv, FlagType, CachePose, cacheVars
<1>3. CacheInv' /\ EpochType'
  BY <1>1, <1>2, CachePoseInv
<1>4. CallType' /\ FlagType' /\ PoseType' /\ WorldType'
  BY <1>2 DEF IInv, CallType, FlagType, PoseType, WorldType
<1>5. PoseInv' /\ ActiveInv' /\ TargetInv'
  BY DEF IInv, PoseInv, ActiveInv, TargetInv
<1> QED
  BY <1>3, <1>4, <1>5 DEF IInv

\* A cloud to be registered, and steps that do nothing but return.
LEMMA BeginAlignInv ==
  ASSUME IInv, NEW s \in 0..clock, BeginAlign(s), Unchanged, configures >= 1,
         task # "activated"
  PROVE  IInv'
<1> USE DEF IInv, BeginAlign, Wanted, Unchanged, flagVars, odomVars, cacheVars,
            worldVars, historyVars
<1>1. s \in Time /\ s <= clock /\ s # None
  BY DEF WorldType, Time
<1>2. CallType' /\ FlagType' /\ PoseType' /\ EpochType' /\ WorldType'
  BY <1>1 DEF CallType, FlagType, PoseType, EpochType, WorldType
<1>3. CacheInv' /\ ActiveInv' /\ TargetInv'
  BY DEF CacheInv, ActiveInv, TargetInv
<1>4. PoseInv'
  BY <1>1 DEF PoseInv, PoseType
<1> QED
  BY <1>2, <1>3, <1>4

LEMMA ReturnInv ==
  ASSUME IInv, Return, Unchanged, configures >= 1, task # "activated"
  PROVE  IInv'
<1> USE DEF IInv, Return, Unchanged, flagVars, odomVars, cacheVars, worldVars,
            historyVars
<1>1. CallType' /\ FlagType' /\ PoseType' /\ EpochType' /\ WorldType'
  BY DEF CallType, FlagType, PoseType, EpochType, WorldType
<1>2. CacheInv' /\ ActiveInv' /\ TargetInv' /\ PoseInv'
  BY DEF CacheInv, ActiveInv, TargetInv, PoseInv
<1> QED
  BY <1>1, <1>2

LEMMA RescanInv == IInv /\ Rescan => IInv'
<1> SUFFICES ASSUME IInv, Rescan PROVE IInv'
  OBVIOUS
<1>1. configures >= 1 /\ Unchanged /\ task # "activated"
  BY DEF IInv, TargetInv, Rescan
<1>2. CASE last_scan # None /\ BeginAlign(last_scan)
  <2>1. last_scan \in 0..clock
    BY <1>2 DEF IInv, CallType, PoseInv, WorldType, Time
  <2> QED
    BY <1>1, <1>2, <2>1, BeginAlignInv
<1>3. CASE Return
  BY <1>1, <1>3, ReturnInv
<1> QED
  BY <1>2, <1>3 DEF Rescan

LEMMA AlignSucceedsInv ==
  ASSUME IInv, NEW v \in Value, AlignSucceeds(v)
  PROVE  IInv'
<1> USE DEF IInv, AlignSucceeds, flagVars, odomVars, cacheVars, worldVars
<1>1. scan \in Time /\ scan <= clock /\ scan # None
  BY DEF CallType, PoseInv
<1>2. pose' \in Pose /\ pose'.stamp = scan /\ pose' # None /\ measured' = pose'
  BY <1>1, PoseMake
<1>3. CallType' /\ FlagType' /\ EpochType' /\ WorldType'
  BY DEF CallType, FlagType, EpochType, WorldType
<1>4. PoseType'
  BY <1>2 DEF PoseInv, PoseType
<1>5. CacheInv' /\ ActiveInv' /\ TargetInv'
  BY DEF CacheInv, ActiveInv, TargetInv
<1>6. PoseInv'
  BY <1>1, <1>2 DEF PoseInv
<1> QED
  BY <1>3, <1>4, <1>5, <1>6

LEMMA StoreResultInv == IInv /\ StoreResult => IInv'
<1> SUFFICES ASSUME IInv, StoreResult PROVE IInv'
  OBVIOUS
<1> USE DEF StoreResult, Return, odomVars, worldVars, historyVars
<1>1. pose \in Pose /\ measured = pose
  BY DEF IInv, PoseInv, PoseType
<1>2. cached_transform_valid' \in BOOLEAN
  BY DEF IInv, FlagType, CachePose, cacheVars
<1>3. CacheInv' /\ EpochType'
  BY <1>1, <1>2, CachePoseInv
<1>4. CallType' /\ FlagType' /\ PoseType' /\ WorldType'
  BY <1>2 DEF IInv, CallType, FlagType, PoseType, WorldType
<1>5. PoseInv' /\ ActiveInv' /\ TargetInv'
  BY DEF IInv, PoseInv, ActiveInv, TargetInv
<1> QED
  BY <1>3, <1>4, <1>5 DEF IInv

LEMMA LoadMapInv == IInv /\ (LoadMap \/ Activated \/ LoadMapFails) => IInv'
<1> SUFFICES ASSUME IInv, LoadMap \/ Activated \/ LoadMapFails PROVE IInv'
  OBVIOUS
<1> USE DEF IInv, LoadMap, Activated, LoadMapFails, Unchanged, flagVars, odomVars,
            cacheVars, worldVars, historyVars
<1>1. CallType' /\ FlagType' /\ PoseType' /\ EpochType' /\ WorldType'
  <2>1. CallType'
    BY DEF CallType
  <2>2. FlagType'
    BY DEF FlagType
  <2>3. PoseType' /\ EpochType' /\ WorldType'
    BY DEF PoseType, EpochType, WorldType
  <2> QED
    BY <2>1, <2>2, <2>3
<1>2. CacheInv' /\ ActiveInv' /\ TargetInv' /\ PoseInv'
  BY DEF CacheInv, ActiveInv, TargetInv, PoseInv
<1> QED
  BY <1>1, <1>2

LEMMA MapReceivedInv == IInv /\ MapReceived => IInv'
<1> SUFFICES ASSUME IInv, MapReceived PROVE IInv'
  OBVIOUS
<1> USE DEF IInv, MapReceived, callVars, odomVars, cacheVars, worldVars,
            historyVars
<1>1. CallType' /\ FlagType' /\ PoseType' /\ EpochType' /\ WorldType'
  BY DEF CallType, FlagType, PoseType, EpochType, WorldType
<1>2. CacheInv' /\ ActiveInv' /\ TargetInv' /\ PoseInv'
  BY DEF CacheInv, ActiveInv, TargetInv, PoseInv
<1> QED
  BY <1>1, <1>2

\* Odometry moves the pose while no measurement is waiting to be cached.
LEMMA OdomReceivedInv ==
  ASSUME IInv, NEW t \in 0..clock, OdomReceived(t)
  PROVE  IInv'
<1> USE DEF IInv, OdomReceived, callVars, flagVars, cacheVars, worldVars,
            historyVars
<1>1. t \in Time
  BY DEF WorldType, Time
<1>2. pose \in Pose
  BY DEF PoseType
<1>3. pose' \in Pose /\ pose'.stamp = pose.stamp /\ pose' # None
  <2>1. CASE UNCHANGED pose
    BY <1>2, <2>1, PoseFields
  <2>2. CASE \E v \in Value : pose' = [pose EXCEPT !.value = v]
    <3>1. PICK v \in Value : pose' = [pose EXCEPT !.value = v]
      BY <2>2
    <3>2. pose' \in Pose /\ pose'.stamp = pose.stamp
      BY <1>2, <3>1 DEF Pose
    <3> QED
      BY <3>2, PoseFields
  <2> QED
    BY <2>1, <2>2
<1>4. CallType' /\ FlagType' /\ EpochType' /\ WorldType'
  BY <1>1 DEF CallType, FlagType, EpochType, WorldType
<1>5. PoseType'
  BY <1>2, <1>3 DEF PoseType
<1>6. CacheInv' /\ ActiveInv' /\ TargetInv'
  BY DEF CacheInv, ActiveInv, TargetInv
<1>7. PoseInv'
  BY <1>2, <1>3, PoseFields DEF PoseInv, Idle
<1> QED
  BY <1>4, <1>5, <1>6, <1>7

LEMMA StopInv == IInv /\ (Deactivate \/ Cleanup \/ Shutdown) => IInv'
<1> SUFFICES ASSUME IInv, Deactivate \/ Cleanup \/ Shutdown PROVE IInv'
  OBVIOUS
<1> USE DEF IInv, Deactivate, Cleanup, Shutdown, Stop, flagVars, odomVars,
            cacheVars, worldVars, historyVars
<1>1. CallType' /\ FlagType' /\ PoseType' /\ EpochType' /\ WorldType'
  <2>1. CallType'
    BY DEF CallType
  <2>2. FlagType'
    BY DEF FlagType
  <2>3. PoseType' /\ EpochType' /\ WorldType'
    BY DEF PoseType, EpochType, WorldType
  <2> QED
    BY <2>1, <2>2, <2>3
<1>2. CacheInv' /\ ActiveInv' /\ TargetInv' /\ PoseInv'
  BY DEF CacheInv, ActiveInv, TargetInv, PoseInv
<1> QED
  BY <1>1, <1>2

-----------------------------------------------------------------------------
\* The timer and the world.
LEMMA TimerInv == IInv /\ TimerPublishPose => IInv'
<1> SUFFICES ASSUME IInv, TimerPublishPose PROVE IInv'
  OBVIOUS
<1> USE DEF IInv, TimerPublishPose, callVars, flagVars, odomVars, cacheVars,
            worldVars, historyVars
<1>1. CallType' /\ FlagType' /\ PoseType' /\ WorldType'
  BY DEF CallType, FlagType, PoseType, WorldType
<1>3. EpochType'
  <2>1. cachedEpoch \in 0..epoch /\ cached_transform \in Int
    BY DEF EpochType
  <2>2. published' \in [transform : Int, epoch : 0..epoch]
    BY <2>1
  <2> QED
    BY <2>1, <2>2 DEF EpochType
<1>2. CacheInv' /\ ActiveInv' /\ TargetInv' /\ PoseInv'
  BY DEF CacheInv, ActiveInv, TargetInv, PoseInv
<1> QED
  BY <1>1, <1>2, <1>3

LEMMA TickInv == IInv /\ Tick => IInv'
<1> SUFFICES ASSUME IInv, Tick PROVE IInv'
  OBVIOUS
<1> USE DEF IInv, Tick, callVars, flagVars, odomVars, cacheVars, historyVars
<1>1. clock \in Nat /\ clock' = clock + 1 /\ clock' \in Time
  BY DEF WorldType, Time
<1>2. PICK v \in OdomValue :
        odom' = [t \in 0..clock' |-> IF t = clock' THEN v ELSE odom[t]]
  OBVIOUS
<1>3. odom' \in [0..clock' -> OdomValue]
  BY <1>1, <1>2 DEF WorldType
<1>4. \A t \in 0..clock : odom'[t] = odom[t]
  BY <1>1, <1>2
<1>5. WorldType'
  BY <1>1, <1>3 DEF WorldType
<1>6. CallType' /\ FlagType' /\ PoseType' /\ EpochType'
  BY DEF CallType, FlagType, PoseType, EpochType
<1>7. CacheInv'
  BY <1>1, <1>4, PoseFields DEF CacheInv
<1>8. PoseInv'
  BY <1>1, PoseFields DEF PoseInv, PoseType, CallType, Time
<1>9. ActiveInv' /\ TargetInv'
  BY DEF ActiveInv, TargetInv
<1> QED
  BY <1>5, <1>6, <1>7, <1>8, <1>9

LEMMA OdomTransformInv ==
  ASSUME IInv, NEW t \in 0..clock, OdomTransform(t)
  PROVE  IInv'
<1> USE DEF IInv, OdomTransform, callVars, flagVars, odomVars, cacheVars,
            historyVars
<1>1. CallType' /\ FlagType' /\ PoseType' /\ EpochType' /\ WorldType'
  BY DEF CallType, FlagType, PoseType, EpochType, WorldType
<1>2. CacheInv' /\ ActiveInv' /\ TargetInv' /\ PoseInv'
  BY DEF CacheInv, ActiveInv, TargetInv, PoseInv
<1> QED
  BY <1>1, <1>2

-----------------------------------------------------------------------------
LEMMA NextIInv == IInv /\ [Next]_vars => IInv'
<1> SUFFICES ASSUME IInv, [Next]_vars PROVE IInv'
  OBVIOUS
<1>1. CASE Lifecycle
  BY <1>1, ConfigureInv, BeginActivateInv, LoadMapInv, StopInv DEF Lifecycle
<1>2. CASE \E p \in [value : Value, stamp : 0..clock] : InitialPoseReceived(p)
  BY <1>2, InitialPoseReceivedInv
<1>3. CASE \E s \in 0..clock : CloudReceived(s)
  <2>1. PICK s \in 0..clock : CloudReceived(s)
    BY <1>3
  <2>2. configures >= 1 /\ BeginAlign(s) /\ Unchanged /\ task # "activated"
    BY <2>1 DEF CloudReceived, IInv, TargetInv, Idle
  <2> QED
    BY <2>2, BeginAlignInv
<1>4. CASE \E s \in 0..clock : OdomReceived(s)
  BY <1>4, OdomReceivedInv
<1>5. CASE \E v \in Value : AlignSucceeds(v)
  BY <1>5, AlignSucceedsInv
<1>6. CASE AlignFails
  <2>1. configures >= 1 /\ task # "activated"
    BY <1>6 DEF AlignFails, IInv, TargetInv
  <2> QED
    BY <1>6, <2>1, ReturnInv DEF AlignFails
<1>7. CASE CacheInitialPose \/ Rescan \/ StoreResult \/ MapReceived
  BY <1>7, CacheInitialPoseInv, RescanInv, StoreResultInv, MapReceivedInv
<1>8. CASE TimerPublishPose \/ Tick
  BY <1>8, TimerInv, TickInv
<1>9. CASE \E t \in 0..clock : OdomTransform(t)
  BY <1>9, OdomTransformInv
<1>10. CASE UNCHANGED vars
  <2> USE <1>10 DEF vars, callVars, flagVars, odomVars, cacheVars, worldVars,
                    historyVars, IInv
  <2>1. CallType' /\ FlagType' /\ PoseType' /\ EpochType' /\ WorldType'
    BY DEF CallType, FlagType, PoseType, EpochType, WorldType
  <2>2. CacheInv' /\ ActiveInv' /\ TargetInv' /\ PoseInv'
    BY DEF CacheInv, ActiveInv, TargetInv, PoseInv
  <2> QED
    BY <2>1, <2>2
<1> QED
  BY <1>1, <1>2, <1>3, <1>4, <1>5, <1>6, <1>7, <1>8, <1>9, <1>10
     DEF Next, Callback

\* The types, from their parts.
LEMMA IInvTypes == IInv => TypeOK
  BY DEF IInv, CallType, FlagType, PoseType, EpochType, WorldType, TypeOK

\* Every variable of the node keeps its range, and a callback that has seen
\* initialpose_recieved_ has a pose to work on.
THEOREM TypeCorrect == Spec => []TypeOK
<1>1. IInv => TypeOK
  BY IInvTypes
<1> QED
  BY InitIInv, NextIInv, <1>1, PTL DEF Spec

\* The cached correction combines a measured pose with the odometry of the
\* time of that measurement, however callbacks, resets and odometry interleave.
THEOREM CorrectionCorrect == Spec => []CorrectionFromOneInstant
<1>1. IInv => CorrectionFromOneInstant
  BY DEF IInv, CacheInv, CorrectionFromOneInstant
<1> QED
  BY InitIInv, NextIInv, <1>1, PTL DEF Spec

\* A registration of the first configuration has a map.
THEOREM TargetCorrect == Spec => []AlignHasTarget
<1>1. IInv => AlignHasTarget
  BY DEF IInv, TargetInv, AlignHasTarget
<1> QED
  BY InitIInv, NextIInv, <1>1, PTL DEF Spec

\* The timer sends nothing that an earlier reset left behind, and nothing before
\* on_activate is done or after the node was deactivated.
THEOREM PublishCorrect == Spec => PublishesCurrentCorrection
<1> DEFINE Current == published' # published
                        => /\ published'.epoch = epoch
                           /\ lifecycle = "active" \/ task = "activated"
<1>1. IInv /\ [Next]_vars => Current
  <2> SUFFICES ASSUME IInv, [Next]_vars, published' # published
               PROVE  /\ published'.epoch = epoch
                      /\ lifecycle = "active" \/ task = "activated"
    OBVIOUS
  <2>1. TimerPublishPose
    BY DEF Next, Lifecycle, Callback, Configure, BeginActivate, ResetPose,
           InitialPoseReceived, LoadMap, Activated, LoadMapFails, Deactivate, Cleanup,
           Shutdown, Stop, CacheInitialPose, Rescan, BeginAlign, Return,
           Unchanged, CloudReceived, OdomReceived, AlignSucceeds, AlignFails,
           StoreResult, MapReceived, Tick, OdomTransform, vars
  <2>2. /\ publishing_active /\ cached_transform_valid
        /\ published' = [transform |-> cached_transform, epoch |-> cachedEpoch]
    BY <2>1 DEF TimerPublishPose
  <2> QED
    BY <2>2 DEF IInv, ActiveInv, CacheInv
<1>2. IInv /\ [Next]_vars => [Current]_vars
  BY <1>1
<1> QED
  BY InitIInv, NextIInv, <1>2, PTL DEF Spec, PublishesCurrentCorrection
=============================================================================
