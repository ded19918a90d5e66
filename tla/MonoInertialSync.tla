-------------------------- MODULE MonoInertialSync --------------------------
(***************************************************************************)
(* The monocular-inertial bridge to ORB-SLAM3                              *)
(* (src/src/orbslam3_ros2_bridge/src/mono_inertial_node.cpp).  The main    *)
(* thread runs the callbacks of the two subscriptions and, after SIGINT,   *)
(* the destructor; the worker thread waits on a condition variable for an  *)
(* image and for inertial measurements up to its time, and tracks it.      *)
(* A message is its stamp.  Images may come out of order or be repeated;   *)
(* the inertial sensor stamps its messages in order, and some are lost.    *)
(***************************************************************************)
EXTENDS Integers, Sequences, SequencesExt

CONSTANTS
  MaxTime,    \* stamps are 0..MaxTime
  MaxImages   \* bound on the images that arrive

ASSUME SyncAssumption == MaxTime \in Nat /\ MaxImages \in Nat

Time == 0..MaxTime

VARIABLES
  main,          \* what the main thread is doing
  ok,            \* rclcpp::ok()
  running_,
  image_buffer_, imu_buffer_,
  worker,        \* what the worker is doing; it holds mutex_ in "hold"
  image, imu_measurements,  \* what it has taken
  last_image_time,
  \* history variables
  images,        \* images so far
  arrived,       \* stamps of all inertial measurements so far
  from,          \* last_image_time before the last frame tracked
  fed,           \* the measurements handed over with that frame
  lost,          \* the measurements taken with frames not converted
  missed         \* the notification of the destructor found nobody waiting,
                 \* the worker having just seen running_

buffers == <<image_buffer_, imu_buffer_>>
taken == <<image, imu_measurements>>
history == <<from, fed, lost>>
vars == <<main, ok, running_, buffers, worker, taken, last_image_time, images,
          arrived, history, missed>>

Init ==
  /\ main = "spin" /\ ok = TRUE /\ running_ = TRUE
  /\ image_buffer_ = <<>> /\ imu_buffer_ = <<>>
  /\ worker = "loop" /\ image = -1 /\ imu_measurements = {}
  /\ last_image_time = -1
  /\ images = 0 /\ arrived = {} /\ from = -1 /\ fed = {}
  /\ lost = {} /\ missed = FALSE
-----------------------------------------------------------------------------
Locked == worker = "hold"

\* A callback pushes under the lock and notifies after it.
ImageCallback(t) ==
  /\ main = "spin" /\ ok /\ ~Locked /\ images < MaxImages
  /\ image_buffer_' = Append(image_buffer_, t) /\ images' = images + 1
  /\ main' = "notify"
  /\ UNCHANGED <<ok, running_, imu_buffer_, worker, taken, last_image_time,
                 arrived, history, missed>>

\* Mutant: an inertial measurement wakes nobody.
ImuCallbackSilent(t) ==
  /\ main = "spin" /\ ok /\ ~Locked /\ \A s \in arrived : s < t
  /\ imu_buffer_' = Append(imu_buffer_, t) /\ arrived' = arrived \cup {t}
  /\ UNCHANGED <<main, ok, running_, image_buffer_, worker, taken,
                 last_image_time, images, history, missed>>

ImuCallback(t) ==
  /\ main = "spin" /\ ok /\ ~Locked /\ \A s \in arrived : s < t
  /\ imu_buffer_' = Append(imu_buffer_, t) /\ arrived' = arrived \cup {t}
  /\ main' = "notify"
  /\ UNCHANGED <<ok, running_, image_buffer_, worker, taken, last_image_time,
                 images, history, missed>>

Wake == worker' = IF worker = "waiting" THEN "woken" ELSE worker

NotifyOne ==
  /\ main = "notify" /\ main' = "spin" /\ Wake
  /\ UNCHANGED <<ok, running_, buffers, taken, last_image_time, images, arrived,
                 history, missed>>

\* SIGINT, after which spin() returns and the node is destroyed.
Interrupt ==
  /\ ok /\ ok' = FALSE
  /\ UNCHANGED <<main, running_, buffers, worker, taken, last_image_time, images,
                 arrived, history, missed>>

Stop ==
  /\ main = "spin" /\ ~ok /\ running_' = FALSE /\ main' = "notify_all"
  /\ UNCHANGED <<ok, buffers, worker, taken, last_image_time, images, arrived,
                 history, missed>>

\* Mutant: the destructor notifies nobody.
NotifyNobody ==
  /\ main = "notify_all" /\ main' = "join" /\ missed' = Locked
  /\ UNCHANGED <<ok, running_, buffers, worker, taken, last_image_time, images,
                 arrived, history>>

NotifyAll ==
  /\ main = "notify_all" /\ main' = "join" /\ Wake /\ missed' = Locked
  /\ UNCHANGED <<ok, running_, buffers, taken, last_image_time, images, arrived,
                 history>>

Join ==
  /\ main = "join" /\ worker = "ended" /\ main' = "ended"
  /\ UNCHANGED <<ok, running_, buffers, worker, taken, last_image_time, images,
                 arrived, history, missed>>
-----------------------------------------------------------------------------
\* Mutant: any inertial measurement will do.
ReadyOnAny == image_buffer_ # <<>> /\ imu_buffer_ # <<>>

\* The predicate of the wait, beside running_.
Ready == /\ image_buffer_ # <<>> /\ imu_buffer_ # <<>>
         /\ Last(imu_buffer_) >= Head(image_buffer_)

EndLoop ==
  /\ worker = "loop" /\ (~running_ \/ ~ok) /\ worker' = "ended"
  /\ UNCHANGED <<main, ok, running_, buffers, taken, last_image_time, images,
                 arrived, history, missed>>

\* The lock is taken, or taken again after a wait, and the predicate is false.
Hold ==
  /\ \/ worker = "loop" /\ running_ /\ ok
     \/ worker = "woken"
  /\ running_ /\ ~Ready /\ worker' = "hold"
  /\ UNCHANGED <<main, ok, running_, buffers, taken, last_image_time, images,
                 arrived, history, missed>>

\* The lock is given back and the worker blocks, in one step.
Wait ==
  /\ worker = "hold" /\ worker' = "waiting"
  /\ UNCHANGED <<main, ok, running_, buffers, taken, last_image_time, images,
                 arrived, history, missed>>

SpuriousWakeup ==
  /\ worker = "waiting" /\ worker' = "woken"
  /\ UNCHANGED <<main, ok, running_, buffers, taken, last_image_time, images,
                 arrived, history, missed>>

BreakLoop ==
  /\ worker = "woken" /\ ~running_ /\ worker' = "ended"
  /\ UNCHANGED <<main, ok, running_, buffers, taken, last_image_time, images,
                 arrived, history, missed>>

\* The loop that pops the front of the buffer stops behind its n-th measurement.
PopsUpTo(t, n) ==
  /\ \A i \in 1..n : imu_buffer_[i] <= t
  /\ n < Len(imu_buffer_) => imu_buffer_[n + 1] > t

\* The predicate is true: under the lock, the image and the measurements up to
\* its time are taken.
Take ==
  /\ \/ worker = "loop" /\ running_ /\ ok
     \/ worker = "woken"
  /\ running_ /\ Ready
  /\ LET t == Head(image_buffer_)
     IN /\ image_buffer_' = Tail(image_buffer_)
        /\ IF last_image_time >= 0 /\ t <= last_image_time
           THEN worker' = "loop" /\ UNCHANGED <<imu_buffer_, taken>>
           ELSE \E n \in 0..Len(imu_buffer_) :
                  /\ PopsUpTo(t, n)
                  /\ imu_buffer_' = SubSeq(imu_buffer_, n + 1, Len(imu_buffer_))
                  /\ imu_measurements' =
                       {s \in {imu_buffer_[i] : i \in 1..n} : s > last_image_time}
                  /\ image' = t /\ worker' = "track"
  /\ UNCHANGED <<main, ok, running_, last_image_time, images, arrived, history,
                 missed>>

\* cv_bridge throws; the measurements are gone with the frame.
ConvertFails ==
  /\ worker = "track" /\ worker' = "loop"
  /\ lost' = lost \cup imu_measurements
  /\ UNCHANGED <<main, ok, running_, buffers, taken, last_image_time, images,
                 arrived, from, fed, missed>>

Track ==
  /\ worker = "track" /\ worker' = "loop"
  /\ last_image_time' = image /\ from' = last_image_time
  /\ fed' = imu_measurements
  /\ UNCHANGED <<main, ok, running_, buffers, taken, images, arrived, lost,
                 missed>>

Main == NotifyOne \/ Stop \/ NotifyAll \/ Join
Worker == EndLoop \/ Hold \/ Wait \/ BreakLoop \/ Take \/ ConvertFails \/ Track
Environment == \/ \E t \in Time : ImageCallback(t) \/ ImuCallback(t)
               \/ Interrupt \/ SpuriousWakeup

Next == Main \/ Worker \/ Environment

Spec == Init /\ [][Next]_vars

\* Both threads are scheduled; the worker gets the lock again and again.
FairSpec == Spec /\ WF_vars(Main) /\ WF_vars(Worker)
-----------------------------------------------------------------------------
TypeOK ==
  /\ main \in {"spin", "notify", "notify_all", "join", "ended"}
  /\ ok \in BOOLEAN /\ running_ \in BOOLEAN
  /\ image_buffer_ \in Seq(Time) /\ imu_buffer_ \in Seq(Time)
  /\ worker \in {"loop", "hold", "waiting", "woken", "track", "ended"}
  /\ image \in Time \cup {-1} /\ imu_measurements \subseteq Time
  /\ last_image_time \in Time \cup {-1}
  /\ images \in 0..MaxImages /\ arrived \subseteq Time
  /\ from \in Time \cup {-1} /\ fed \subseteq Time
  /\ lost \subseteq Time /\ missed \in BOOLEAN
  /\ main \in {"notify_all", "join", "ended"} => ~running_

\* "Wait until the measurements up to the time of the image have arrived": the
\* last frame was tracked with every measurement since the frame before it, now
\* and for ever, save those that went with a frame that was not converted.
FedAll ==
  LET between == {s \in arrived : from < s /\ s <= last_image_time}
  IN  fed = between \ lost /\ (last_image_time >= 0 => from < last_image_time)

\* No wakeup of a callback is lost: a worker does not sleep through an image
\* it could track.
ReadyWakes == Ready /\ worker = "waiting" ~> worker # "waiting"

\* The destructor gets to its end, unless its notification fell between the
\* worker's look at running_ and its wait, in which case nobody wakes the
\* worker any more.
ShutdownEnds == main = "notify_all" ~> main = "ended" \/ missed
=============================================================================
