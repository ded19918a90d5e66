# Formal models of lab_navigation

TLA+ models of the programs in this repository that drive the robot, localize it and record data with it;
TLC configurations that check them on small instances; and proofs, checked by TLAPS, of what matters most
for every value of the constants. Paths below are relative to the root of the repository.

1. [The system](#1-the-system) 2. [Modules](#2-modules) 3. [Runs](#3-runs)
4. [Fairness](#4-fairness) 5. [Proofs](#5-proofs) 6. [What the code does that a reader should
know](#6-what-the-code-does-that-a-reader-should-know) 7. [Not modelled](#7-not-modelled) 8. [Plan](#8-plan)

## 1. The system

A two-wheeled robot. A PC runs ROS 2 with Navigation2; an ESP32 turns the wheels.

controllers --hw_commands--> plugin ==/mcu/wheel_commands==> firmware --PWM--> motors <--hw_positions--
<==/mcu/wheel_states===           <--encoders lidar ----> lidar localization ---\ camera ---> HLoc localizer
--pose--> tf publisher --+--> map -> odom --> Navigation2 \-> ORB-SLAM3 bridge <--IMU-- firmware \-> capture
recorder --> PNG, manifest, session --> check, export, import (COLMAP)

| Component | State | Operations | Talks to | What makes it correct |
|---|---|---|---|---|
| Hardware plugin, `src/src/ros2_control_diff_drive/hardware/` | `active_`, `fault_`, `received_state_`, commands, positions and their offsets, two time stamps, the executor thread | five lifecycle callbacks and `on_error`, `read`, `write`, `joint_state_callback`, the 50 ms timer | controller manager (calls), controllers (shared memory), firmware (two best-effort topics) | a stop is the last word on the topic; an activation starts from rest; odometry does not jump; faults latch and end in a torn-down plugin |
| Firmware, `src/arduino/micro_ros_client.ino` | the command with its time and validity, `connected`, PWM, session handles, four timers | `controlTask` every 50 ms, `loop()`, `commandCallback`, `createEntities`, `destroyEntities` | plugin (through the micro-ROS agent) | motors turn only shortly after an accepted command, whatever `loop()`, the agent or the clock do; it reconnects |
| Lidar localization, `src/src/lidar_localization_ros2_custom/` | the pose, the map flags, the last scan, the cached correction | lifecycle, initial pose, map, odometry, cloud, publishing timer | tf, Navigation2 | the correction sent is current and made of poses of one instant |
| Visual localization, `src/src/hloc_localizer/hloc_localizer/` | newest image, pending pose, last processed stamp, map -> odom | `image_callback`, `pose_callback`, `timer_callback` | latched pose topic, tf | no correction gives way to an older one unless the images go back; a pose that waits for its odometry is used |
| ORB-SLAM3 bridge, `src/src/orbslam3_ros2_bridge/src/mono_inertial_node.cpp` | two buffers, `running_`, last image time | two callbacks, worker thread, destructor | camera, IMU, ORB-SLAM3 | a frame is tracked with exactly the inertial measurements since the one before; the node ends |
| Capture recorder, `src/src/sfm_capture/sfm_capture/` | selection, bounded queue, writer thread, files, session status | image and camera-info callbacks, timer, `finish`, writer | camera, disk, capture supervisor, dataset check | what the check accepts is everything that was selected, whatever fails or is killed |
| Serial packets, HEAD side of `diffbot_system.cpp`, `src/src/lab_navigation/arduino/micro_ros_client.ino` | two parsers, the last command, the counts and the times of the last pass and the last answer | `write`, `read`, `loop()` | each other, over a UART | what is accepted was sent; both ends get back into step; a velocity is a rate |
| Capture supervisor, `src/src/sfm_capture/launch/capture.launch.py` | `stopping` | exit handlers of recorder, camera and bag | those processes | one failure of any of them shows in the session |
| Exports and imports, `export_poses.py`, `export_bag.py`, `import_pose_priors.py` | files, a database | batch runs | capture directory, COLMAP database | interpolation between the right transforms; input untouched, output complete |

Behaviours that are hard to test here: three threads and a lifecycle around one mutex in the plugin; two
tasks with a clock that wraps in the firmware; two computers that reset on their own, over a link that
loses, delays and reorders; slow callbacks beside a timer in the localizers; a full queue, a failing disk
and a kill in the recorder; a condition variable notified outside its mutex in the bridge; byte streams that
lose bytes; batch programs that share files and may end anywhere. `PROJECT.json` lists each at its line
under `hazards`.

## 2. Modules

Names in the modules are those of the source, without a trailing underscore (`MonoInertialSync` keeps it
where a local has the same name without). Every critical section, callback or blocking point of the code is
one action; history variables, which the code does not have, are marked in each module. `PROJECT.json` maps
every definition to its lines. Each module also holds a few operators marked *Mutant*: plausible mistakes in
the operator next to them. A property is kept only if one of them breaks it.

**DiffBotSystem** (`diffbot_system.cpp`, the micro-ROS side of the merge that is unresolved in that file).
Actors: the controller manager (lifecycle calls, `Read`, `Write`), the executor thread (`CommandTimer`,
`JointStateCallback`), the controllers (`ControllerUpdate`). `stop_motion` is split where it releases the
mutex (`StopMotion`, `FinalStop`), `stop_executor` also at the join. An instant is kept as its age, capped
one above the largest timeout it is compared with, so the state space is finite with no bound on time. A
failed call goes on to `on_error` (`EnterError`).

**McuFirmware** (`micro_ros_client.ino`). `ControlLock` is the critical section of `controlTask`,
`ControlOutput` the PWM written after it; `loop` is a program counter over the blocking calls of `loop()`.
`millis()` wraps at `Wrap`. A motor is abstracted to whether its duty cycle is zero; encoders, PID, battery
and IMU values are left out. `Reset` may happen at any moment.

**McuSession** extends `McuFirmware` with what that module takes as one step: `createEntities` makes seven
entities one after the other, each call of which may fail, and `destroyEntities` takes them down in its own
order before the next attempt zeroes the handles. `McuFirmware`'s steps for these calls begin and end such a
sequence here; every other action of the firmware interleaves with them, so its invariants, its liveness and
the refinement of the lease are checked on this larger machine, which is proved to refine the smaller one.

**DriveLease** is the abstract promise of the firmware: motors turn only on a lease, renewed by commands and
consumed by time. `McuFirmware!LeaseKept` states that the firmware implements it, by the refinement mapping
`Lease` (proved, section 5).

**DriveLink** composes the plugin in full with `DriveLease` over two best-effort topics: samples are lost,
overtake each other and take up to `MaxDelay`; the board resets and is back as soon or as late as it likes;
the plugin's process is killed and restarted. `outage` is the time the board has been without a session
since it was reset. Because the firmware is proved to implement the lease, the composition need not carry
the firmware's tasks. Both computers advance by the same tick: drift between their clocks is not modelled.

**LidarLocalization** (`lidar_localization_component.cpp`) as the parameters of the robot configure it
(odometry on, IMU off, map from a file, timer publishing). The default callback group is one thread of
control, `task`; the timer is the other. The robot moves on a line, so that a correction is a difference of
two numbers, each with its time; what the registration finds is arbitrary. A transform that lies between two
received ones is taken to be interpolated exactly, and a reset counts from the moment the cached correction
is withdrawn. `on_activate` sets `publishing_active_` before it returns, and only then is the node active
(`LoadMap`, `Activated`).

**VisualLocalization** (`hloc_localizer.py`, `hloc_tf_publisher.py`): two single-threaded processes, a topic
of depth one that keeps its last sample, a transform buffer that forgets, and restarts of either process.
Inference either gives a pose or none. Images, poses and corrections are known by the stamp of the image,
which all of them carry.

**MonoInertialSync** (`mono_inertial_node.cpp`): callbacks push under the mutex and notify after it; the
worker's test of the predicate and its wait are separate steps (`Hold`, `Wait`), with spurious wakeups; the
destructor clears `running_` and notifies without the mutex. Inertial stamps are in order; images come in
any order.

**CaptureRecorder** (`recorder.py`, `image_writer.py`, `dataset.py`, `camera_contract.py`,
`check_dataset.py`): the ROS callbacks and `finish()` on the main thread, the writer thread step by step
through temporary file, rename, manifest row and count, each of which may fail; SIGINT, a second SIGINT, and
a kill. `Accepted` is the part of `check_dataset.py` that concerns images. `write_json` replaces its file
atomically and is one step. Between `session.json` and the exit of the interpreter (`Leave`) a signal may
still come. Whether simulated time is used is chosen in `Init`.

**CaptureSession** is the abstract promise of the recorder: it records, drains its queue, looks once for the
failure marker, completes the session and ends. What it leaves passes the check from the moment the session
is complete, and it ends with 0 only after that; a signal on the way out leaves a session that passes and an
exit that is not 0. `CaptureRecorder!SessionKept` states that the recorder implements it (`Session`, with
the refinement mapping `Stage`), which is proved too.

**CaptureLaunch** composes the recorder, with its threads and files (`EXTENDS CaptureRecorder`), with the
supervisor (`capture.launch.py`): camera, bag recorder and launch process end in any order, the launch
process handles their ends in any order, marks a failure, shuts the rest down, is interrupted by the user or
dies. A step of the recorder alone may not mark a failure; everything else it does on its own it does here.

**SerialLink** (the HEAD side of the merge in `diffbot_system.cpp`, and the firmware in
`src/src/lab_navigation/arduino/`): both packet parsers byte by byte, `read` and `write`, an encoder
interrupt, and `loop()` cut at sampling, receiving and answering. A byte is the set of its bits, so that XOR
is the symmetric difference, and `MCSerialLink` gives it three; each byte on a line remembers the payload it
was sent with and its place in the packet, as a history. `last` stands for `last_time`: it is the count at
that time, so that "divided by the time since" becomes a comparison of counts.

**PosePriors** (`export_poses.py`, `import_pose_priors.py`, `pose_io.py`): the bisection of
`interpolation_gap` with its exact stamps, ends and conflicts, as an algorithm compared with a definition by
sets over every recording of the instance; `poses.csv` written row by row and then its report; two imports
with one output, each step a point at which the process may end. A row is its status, a prior is there or
not.

## 3. Runs

| Run | Shows | Instance and why it is enough |
|---|---|---|
| `plugin` | `StopIsLastWord`, `NoLeftoverCommand`, `OdometryWithinReach`, `ActiveMatchesLifecycle`, `FaultLatched`, `FaultTearsDown`, `CallsReturn` | One wheel (no step treats two differently), two speeds and a NaN, positions on both sides of the jump limit, timeouts of one and two ticks so that each can expire before the other: 922 000 states |
| `mcu` | `WatchdogStops`, `CommandBelongsToSession`, `NothingLeaks`, `EntitiesLive`, `LeaseKept`, `Reconnects` | All seven entities, each step of which may fail, a reset, a speed above the limit and a malformed command, a clock that wraps within two leases: 715 000 states |
| `link` | `MotionIsRecent`, `HaltReachesMotors`, `OdometryInOneBoot`, `ResetNeedsActivation` | Two resets, so that a long outage follows a short one or the other way round, a board that may be back within the state timeout (both are one tick, as both are 500 ms on the robot), two commands under way so that a stop is overtaken, one state under way: 5.1 million states, under three minutes |
| `lidar` | `CorrectionFromOneInstant`, `PublishesCurrentCorrection`, `AlignHasTarget` | Two configurations, two resets, two instants and a cloud that is stale after one: 472 000 states |
| `visual` | `OrderKept`, `PoseIsUsed` | Four instants, a buffer that holds one tick, two restarts, of one process or of both: 339 000 states |
| `visual_reversal` | expected violation of `TimeReversalDiscarded`, section 6 | as above |
| `mono` | `FedAll`, `ReadyWakes`, `ShutdownEnds` | Three images in any order, four inertial stamps: 148 000 states |
| `capture` | `AcceptedIsWhole`, `DiskIsPrefix`, `SessionKept`, `FinishEnds` | Three frames selectable, a queue of two with a third frame at the writer, stamps that are zero, thinned and out of order, a clock that goes back, simulated time or not: 463 000 states |
| `launch` | `BagCoversImages`, `CleanRunAccepted`, `CaptureEnds` | One frame to select, so that a bag fails before or after it, and a queue of one; every source of images, with and without a bag; every order in which four processes end and are handled, between any two steps of the recorder's threads: 2.5 million states, two minutes |
| `serial` | `AcceptedWasSent`, `LinkSettles` | Two packets under way to the board and one back, one byte lost or changed at any place, bytes of three bits with complementary headers, payloads whose checksum is a header byte and payloads whose is not, one change of the command or of the count: 355 000 states |
| `serial_velocity` | expected violation of `VelocityIsRate`, section 6 | an undamaged line and two counts |
| `poses` | `RowsAreBracketed`, `OutputIsOneImport`, `SuccessIsWhole` | Every recording over four times (absent, once, twice) of one frame, two images inside it, two imports, any set of images and of ambiguous priors in the database: 545 000 states |

The runs of the plugin and of the firmware also check the type invariant; those of the lidar node, of visual
localization, of the bridge and of the recorder are proved instead (section 5). `DriveLink` is checked under
`VIEW LinkView`, which leaves out the plugin's own history variables: no action and no property of that run
reads them. Deadlock is checked for the plugin, the firmware, the link, the serial line and visual
localization. It is not for the lidar node, the recorder, the capture session, the bridge and the batch
programs, which end: a finalized node, an exited process. The bounds on clocks (`MaxTime`), resets,
restarts, noise, commands and images are constants used only in guards of the environment; time in the drive
models is unbounded. The two bounds on the outage in `DriveLink` are tight: with either shorter by one tick,
TLC finds the property violated.

`AcceptedWasSent` and `LinkSettles` hold of a line that is undamaged, or on which no byte behind the
headers, payload or checksum, looks like a header (`Trusted`); section 6 says what happens otherwise. The
plugin is taken not to write more than the line holds, so that the run says nothing of a backlog.

## 4. Fairness

- Plugin: the controller manager keeps calling `read()` and finishes the calls it began (a cyclic real-time
  loop), the executor thread leaves its loop once a call waits to join it, time passes. Nothing is assumed
  of the MCU, the controllers or `write()`.
- Firmware: `controlTask` has a core and the higher priority; time passes. Without entities, `loop()` comes
  round (strong fairness of `PingAgent`, since the instant at which a ping is due may pass while the counter
  wraps); an agent asked again and again answers at last, and creation succeeds at last (strong fairness:
  this is what "the agent is back" means). With entities, no call is assumed to return.
- Visual: the publisher's timer and callbacks and the arrival of transforms.
- Bridge: both threads are scheduled. Messages need not come.
- Serial line: the controller manager calls `read` and `write` in every cycle, and `loop()` runs for ever.
  Commands and counts change or do not.
- Capture session: while it lives, the launch process handles what has ended, and once it shuts down it gets
  every process to end (SIGINT, SIGTERM, at last SIGKILL: `Kill` is fair while it shuts down). Left alone, a
  recorder need not end, and its own fairness is not assumed in the session.
- Recorder: both threads run; the ROS timer runs (strong fairness, as callbacks come between). Frames need
  not come.

## 5. Proofs

Every safety invariant the passing runs check is also a theorem for all values of the constants; so are the
safety properties of steps and both refinements. The assumptions are the named `ASSUME`s of the modules:
kinds of the constants and positive timeouts; for the firmware, that the counter does not come round within
one command timeout and one control period (2^32 ms against 550 ms); `None` is never one of the values it
stands beside; a recording is finite. The bounds of the environment (`MaxTime`, `MaxResets`, `MaxImages`,
the length of the queue) are arbitrary numbers in every theorem.

**DriveLink_proofs**, the plugin by itself: `TypeCorrect`, `LifecycleCorrect`, `StopCorrect`,
`CommandCorrect`, `OdometryCorrect`, `FaultCorrect`, for any wheels, speeds, positions and timeouts. The
invariant `IInv` adds to the types: `PhaseInv`, where a lifecycle call can be and what the flags are there
(the checked `ActiveMatchesLifecycle` speaks only of calls that have returned, so it is not inductive);
`StopInv`, after the final zero the plugin is not active, which is why the timer cannot follow it with
anything; `CommandInv`, which includes the controllers' memory `hw_commands`, since `write()` copies from
it; `OdometryInv`, which bounds the stored positions too but only without a fault: the callback stores a
position that jumps, and the fault it raises in the same critical section keeps `read()` from showing it.

**DriveLink_proofs**, plugin and board together: `MotionIsRecentAlways`, `HaltReachesMotorsAlways`,
`OdometryInOneBootAlways`, `ResetNeedsActivationAlways`, for any delay, lease and number of samples under
way. `LinkInv` carries each bound from hop to hop:

- `MotionInv`: the time since `write()` last accepted motion is at most the age of the command the plugin
  holds; then at most `CommandTimeout` and the age of the sample under way; then at most the bound less what
  is left of the lease. Each hop hands its sum to the next, and a tick moves both sides alike. `HaltInv`
  does the same from the instant the plugin halts, with no first hop.
- `BootInv`: nothing is counted in a boot that has no session yet. A sample of an earlier boot is older than
  the outage, and a plugin that has heard nothing of the present boot has waited for all of the outage but
  one delay. So the first state that arrives after a long outage finds the state timeout run out, and
  `joint_state_callback` raises the fault with it.
- `ResetInv`: after a long outage a lease comes only from a plugin activated in the present boot, since the
  last command of any other is gone before a session opens.

An outage is the time from a reset to the first session of the new boot. Both claims are about outages
longer than `StateTimeout + MaxDelay` and `StateTimeout + 2 * MaxDelay`; nothing is assumed of how long the
board takes to come back. Section 6 says what is left for shorter ones.

`PluginAcrossRestarts` carries the five invariants of the plugin over to the link, where its process is
killed and started again: every step of the link is one of the plugin, a stutter or a fresh start.
`BoardOnLink` closes the composition: the link's board is `DriveLease` (its clock, at which the link does
not look, left at one value), which the firmware is proved to implement.

**McuFirmware_proofs**: `TypeCorrect`, `WatchdogCorrect`, `SessionCorrect`, `LeaseCorrect` (the refinement).
The heart of `IInv` is that for a valid command the unsigned difference `Elapsed(millis, last_command_ms)`
equals the true age, which stays below `Wrap` because the watchdog runs every period and withdraws the
command first; without validity nothing is said of the difference, and that is sound because nobody reads
it. `MotorInv` then bounds how long the motors outlive the command by the phase of `controlTask`. The
refinement has one lemma per action.

The second half is about `McuSession`. `EntityInv`: a handle's flag is set exactly while it holds an entity;
while `createEntities` works, the entities there are a prefix of its list, so that counting them tells how
far it has come; while `destroyEntities` works, what is left is closed under use, whichever deletions came
first. `NothingLeaksAlways` and `EntitiesLiveAlways` follow. `SessionIsFirmware` shows that every step of
this larger machine is one of `McuFirmware` or a stutter, so that the watchdog and the lease
(`SessionKeepsLease`) need no second proof.

**CaptureLaunch_proofs**, the recorder on its own: `TypeCorrect`, `DiskIsPrefixAlways`,
`AcceptedIsWholeAlways`, `RecorderImplementsSession`, for any stamps, signatures, queue size and interval.
`DiskInv` says what is on disk by the step the writer is at, and that after an error it writes no more;
`FlowInv` says that the frames saved, the one the writer holds and those in the queue are one piece of what
was selected, and that at most one more was: in the hand, caught by SIGINT on its way, or refused by a full
queue; the end mark is last. It says nothing once the writer has failed, since the queue is then emptied for
nothing and the session can no longer be complete. `EndInv` follows from both: a session closed without an
error was drained. The refinement maps the program counter of the main thread to the stages of
`CaptureSession`; a signal between `session.json` and the exit is its `EndBadly` from `complete`.

**CaptureLaunch_proofs**, the session as a whole: `RecorderInLaunch` shows that every behaviour of the
session is one of the recorder's specification, so that each theorem on the recorder holds in the
composition and need not be proved again. `BagCoversImagesAlways` and `CleanRunAcceptedAlways` add
`LaunchInv`: `ReportInv` says that the report on the bag agrees with how the bag recorder ended; `MarkInv`,
that a failure is on record only if it is what ended the session, and that a frame is uncovered only if the
bag recorder has failed, which it does for good. `SessionCoveredAlways` joins both halves of the dataset
check.

**MonoInertialSync_proofs**: `TypeCorrect`, `FedAllAlways`. `BufferInv` keeps the inertial buffer in order
and disjoint from what was lost; `HeldInv` says that whatever arrived after the last frame is in the buffer,
with the worker, or went with a frame that was not converted; `TrackInv` says that the worker holds exactly
what lies between two frames. An image that is not newer than the last is dropped without taking anything,
which keeps this true with images in any order.

**LidarLocalization_proofs**: `TypeCorrect`, `CorrectionCorrect`, `TargetCorrect`, `PublishCorrect`, for any
poses, ages, odometry gaps and numbers of resets. `IInv` has four parts beside the types: `CacheInv`, a
valid correction is of the present epoch and of one instant of the past, so that time and odometry that pass
later do not change it; `PoseInv`, between a measurement and its `CachePose` the pose is still the measured
one, since odometry needs the callback group that the measurement holds; `ActiveInv`, corrections are
published only by an active node or one whose `on_activate` is about to return, and every way out of the
active state stops the timer; `TargetInv`, the map flag and the map go together until a second
configuration.

**VisualLocalization_proofs**: `TypeCorrect`, `OrderCorrect`, for any buffer, delays and number of restarts:
as long as images come in order, a later correction is never replaced by an earlier one. `StageInv` orders
the stages an image passes (taken, located, posted, arriving, pending, used) pairwise, since any of them may
be empty; a restart empties some, and fills that of the arriving pose from the retained one, which is the
latest posted.

**PosePriors_proofs**: `OutputCorrect`, `SuccessCorrect`, for any images, recordings and importers.
`CopyInv` follows the working copy to the complete selection; `OutputInv` and `ReportInv` say that the name,
once linked, belongs to an importer whose rows no longer change. A complete success then needs a counting
argument: what was selected is all rows that were read, and as many as the capture has images. `RowsCorrect`
is about the algorithm of the export, for any finite recording: the stamps of a frame can be put in order
(`OrderExists`: an element's place is its rank), `bisect_left` divides them (`BisectProperty`), so the two
stamps it picks are the nearest on either side (`GapIsBracket`), which is what the definition by sets asks
for.

**SerialLink_proofs**: `AcceptedWasSentAlways`, for any capacity of the lines, any command bytes and any
number of packets. The assumption is `MaxNoise <= 1`: the check of a packet is one XOR, and two damaged
bytes may cancel in it. `OneDamagedByteIsCaught` says the same without the assumption, of a line on which
one byte at most has been damaged so far. A byte is any set of bits and the headers are any two different
bytes, so that 0xAA and 0x55 are a case of it; `Plain`, which `AcceptedWasSent` asks of every packet, is
about the checksum as well as the payload. The invariant (`SerialInv`) is about the *stream* of a line: the
bytes its parser holds, followed by those still under way (`LineInv`).

- Without noise the stream is `Clean`: whole packets in the order they were sent. What the parser has taken
  off it always ends at a packet, so that it starts the next one in step (`AcceptClean`).
- After one damaged byte the stream is `Near` to a clean one: one byte of it may be wrong (`Changed`), or
  one is missing at one place (`Gapped`). A parser out of step drops bytes from the front, which leaves a
  stream near (`DropNear`), and a packet that is sent is appended (`SendNear`).
- A parser that has a packet in hand has headers in its first two places. In a plain packet no byte behind
  them looks like one (`PlainCells`), so that the headers show where in a packet they stand (`PlaceShown`),
  save for the damaged byte itself. If a byte of that packet is wrong, its checksum cannot be right, since
  the XOR determines each byte from the rest (`XorCancel`, `AcceptChanged`); if one is missing, the first
  header of the next packet stands in the last place, where a plain checksum belongs (`RejectGapped`). Hence
  what is accepted was sent (`AcceptNear`).

Only model-checked, and why:

- Liveness, since TLAPS proves nothing under fairness and no ENABLED: `FaultTearsDown`, `CallsReturn`,
  `Reconnects`, `FinishEnds`, `CaptureEnds`, `ReadyWakes`, `ShutdownEnds`, `PoseIsUsed`, `LinkSettles`.
- `TimeReversalDiscarded` and `VelocityIsRate`, of which TLC finds the violations of section 6.

## 6. What the code does that a reader should know

- **Time reversal** (`visual_reversal`). `hloc_tf_publisher.py:632` compares stamps only for equality: a
  pose with an earlier stamp replaces a later correction. `src/docs/NAV2_VISUAL_LOCALIZATION.md:337` asks
  the node to discard it. The document calls its list a specification of nodes still to be written (line
  318).
- **A velocity that is no rate** (`serial_velocity`). In the serial firmware, `loop()` moves `prev_left` at
  every pass from 50 ms on (line 231), but leaves `last_time` alone when no command is complete (line 241).
  The next velocity divides the counts of the last pass by the time since the last answer; line 234 calls it
  an angular velocity. The speed control uses it too.
- **A reset the plugin cannot tell.** A board that resets and opens a session within the state timeout (0.5
  s; the firmware itself waits 500 ms before its first ping, `src/arduino/micro_ros_client.ino:435`, and
  then for the agent) is back before the plugin misses it. What is left is the jump test: a count that
  starts again near the last position passes it, `read()` shows positions of two boots as one, and the
  plugin goes on driving without a new activation. `OdometryInOneBoot` and `ResetNeedsActivation` are about
  longer outages and give their length; `src/src/ros2_control_diff_drive/doc/microros_migration.md:134` says
  as much and asks for a restart of the bringup.
- **A header inside a packet.** A parser that has lost step takes any 0xAA 0x55 for the start of a packet,
  or 0xAA for its first byte. A payload without these bytes is no protection, as its XOR may be one of them:
  after one lost byte the parser takes the checksum for a header, misses the real one, and does so in every
  packet for as long as the command stands. Nor is the checksum: the XOR of a whole packet is zero, so that
  in a stream of equal packets a shifted one is as valid as the true one. Without `Trusted`, or with a
  `Trusted` that looks at payloads only, TLC finds `LinkSettles` and `AcceptedWasSent` violated. Neither end
  has another defence, and the serial firmware has no watchdog: when commands stop, the motors keep the last
  PWM.
- **A backlog of commands.** That firmware takes one command in a pass of at least 50 ms; the plugin writes
  20 a second (`diffbot_controllers.yaml:3`). A board that is a little slower works through older and older
  commands until its serial buffer overflows. No property covers this: in the model the plugin writes only
  what the line holds.
- **An interrupted export reads as complete.** `export_poses` writes `poses.csv` under its final name, and
  the import does not look at `poses_report.json`: what was written before a crash is imported with the
  status `complete` (`docs/POSE_PRIORS.md:193` wants one row for every image). `SuccessIsWhole` shows that
  the document's own test of a complete success (line 215) finds this out.
- **An import without a report.** If the process ends between the link of the database and its report, the
  database is complete, but every further import to that name is refused.
- **A crash that leaves no mark.** If the launch process handles the end of the recorder before that of a
  camera that crashed at the same time, `stopping` is set and the crash is not marked. The bag is different:
  unless the launch process itself failed, an accepted session selected no image after its bag recorder had
  failed (`BagCoversImages`), since the check looks at the bag too. Conversely, when the user interrupts a
  capture, a process that ends with an error on the signal can mark a good session as failed.
- **A hang at shutdown.** The destructor of `mono_inertial_node.cpp` (line 80) clears `running_` and
  notifies without the mutex. If the worker has tested the predicate and not yet blocked, the notification
  is lost and `join()` waits for ever. `ShutdownEnds` shows that this window is the only way not to end.
- **Flags survive cleanup.** `on_cleanup` of the lidar node keeps `map_recieved_`, while `on_configure`
  makes a registration without a map: after a second configuration a cloud may be registered against
  nothing. `AlignHasTarget` covers the first configuration.
- **A failed activation half done.** `on_activate` of the lidar node accepts the initial pose before it
  loads the map.
- **Restart of the transform publisher.** It gets the kept pose at once but starts with an empty transform
  buffer, so map -> odom is not sent until the next pose.
- **A good session with a bad exit.** A signal between the rename of `session.json` and the end of the
  interpreter (`recorder.py:186-212`) ends the recorder with an error or kills it, and the dataset passes
  all the same. The converse does not happen: what the recorder leaves when it ends with 0 passes.
- **A second SIGINT** during `finish()` of the recorder leaves the session status at `recording`; the
  dataset check refuses such a session, and `DiskIsPrefix` says what is on disk.

## 7. Not modelled

The opening of the serial port, of which the merge keeps fragments, and the overflow of its buffers; encoder
phases, PID values, IMU retry and time synchronization of the firmware; lidar undistortion and IMU use (off
on the robot); registration, image retrieval, matching and PnP (numeric; their result is a nondeterministic
choice); the thread of the recorder that reads camera controls; the metadata checks of the bag, which are
one verdict in `CaptureLaunch`; `export_bag.py` (one topic copied to files); the geometry of poses and the
tree of frames in the export; feature backends; the ORB-SLAM3 trial nodes and the odometry relay (one
callback, no state); launch files, URDF, worlds and parameters (configuration); offline scripts; everything
vendored below `src/src/external`.

## 8. Plan

Done, in this order, the behaviour that can hurt someone first: the plugin, the firmware, the lease, the
link; the lidar node; proofs of the plugin, the firmware and the lidar node; the recorder; the bridge;
visual localization; the entities of the firmware's session; the capture session with its supervisor; the
serial packets; poses and priors, with their proofs and that of visual localization; proofs of the link, of
the firmware's entities, the recorder, the bridge and the export; the capture session with the recorder's
own code, and the serial line, with their proofs. What is left: the IMU retry of the firmware, the index
arithmetic of the undistortion buffer, and the feature caches.
