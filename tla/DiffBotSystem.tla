--------------------------- MODULE DiffBotSystem ---------------------------
(***************************************************************************)
(* The ros2_control hardware plugin of the robot                           *)
(* (src/src/ros2_control_diff_drive/hardware/diffbot_system.cpp, the       *)
(* micro-ROS side of its unresolved merge).  Three actors interleave:      *)
(*   - the controller manager, which calls the lifecycle callbacks and the *)
(*     cyclic read() and write(), one call at a time;                      *)
(*   - the plugin's executor thread, which runs joint_state_callback and   *)
(*     the 50 ms timer publish_command;                                    *)
(*   - the controllers, which write into the exported hw_commands.         *)
(* Every critical section of the plugin's mutex is one action.  Time is    *)
(* counted in ticks; an instant t is kept as its age now - t, which stops  *)
(* growing one past the largest timeout it is compared with.  Names are    *)
(* those of the source without the trailing underscore.                    *)
(***************************************************************************)
EXTENDS Integers

CONSTANTS
  Wheel,           \* the joints, two on the robot
  Speed,           \* finite wheel commands a controller may write
  NotFinite,       \* a NaN or an infinity written by a controller
  Position,        \* wheel positions the MCU may report
  StateTimeout,    \* state_timeout_, in ticks
  CommandTimeout,  \* command_timeout_
  StartupTimeout,  \* startup_timeout_
  MaxRate,         \* the 20 rad/s of the jump test, per tick
  JumpSlack,       \* the 0.1 rad of the jump test
  MaxReach         \* cap of the history variable reach

ASSUME WheelAssumption == Wheel # {}
ASSUME SpeedAssumption == 0 \in Speed /\ NotFinite \notin Speed
ASSUME PositionAssumption == 0 \in Position /\ Position \subseteq Int
ASSUME TimeoutAssumption ==
  /\ StateTimeout \in Nat \ {0}
  /\ CommandTimeout \in Nat
  /\ StartupTimeout \in Nat
ASSUME JumpAssumption ==
  /\ MaxRate \in Nat
  /\ JumpSlack \in Nat
  /\ MaxReach \in Nat
  /\ \A p, q \in Position : p - q <= MaxReach

VARIABLES
  lifecycle,         \* state the resource manager keeps for the plugin
  call,              \* how far the lifecycle call in progress has come
  goal,              \* lifecycle state once that call has returned
  waitAge,           \* time on_activate has been waiting
  executor,          \* the communication thread
  received_state, active, fault,
  commands,          \* what publish_command may send
  hw_commands,       \* what the controllers wrote
  positions, position_offsets, hw_positions,
  stateAge,          \* Clock::now() - last_state_
  commandAge,        \* Clock::now() - last_command_
  published,         \* the last command handed to the publisher
  \* history variables: the code does not have them
  updated,           \* a controller wrote hw_commands since the activation
  stopSent,          \* the final stop was published since the activation
  reach              \* how far the wheels may have turned since the activation

callVars == <<lifecycle, call, goal, waitAge>>
flagVars == <<received_state, active, fault>>
positionVars == <<positions, position_offsets, hw_positions, reach>>
ageVars == <<stateAge, commandAge>>
vars == <<callVars, executor, flagVars, commands, hw_commands, positionVars,
          ageVars, published, updated, stopSent>>

-----------------------------------------------------------------------------
Zero == [w \in Wheel |-> 0]
Command == [Wheel -> Speed]
Distance(a, b) == IF a >= b THEN a - b ELSE b - a
UpTo(n, cap) == IF n < cap THEN n ELSE cap
Older(age, timeout) == UpTo(age + 1, timeout + 1)

\* The state the MCU reported is too old, or there is none.
StateLost == ~received_state \/ stateAge > StateTimeout

\* The condition on_activate waits for, without the fault.
StateFresh == received_state /\ stateAge < StateTimeout

\* read() and write() reach a configured plugin that is in no lifecycle call.
Cyclic == call = "idle" /\ lifecycle \in {"inactive", "active"}

\* Mutant: on_error leaves the thread alone.
EnterErrorWithoutStop == /\ call' = "idle" /\ goal' = "unconfigured"
                         /\ lifecycle' = "unconfigured" /\ waitAge' = 0

\* The resource manager answers an ERROR by on_error, which is stop_executor.
EnterError == /\ call' = "stop" /\ goal' = "unconfigured"
              /\ waitAge' = 0
              /\ UNCHANGED lifecycle
-----------------------------------------------------------------------------
Init ==
  /\ lifecycle = "unconfigured" /\ call = "idle" /\ goal = "unconfigured"
  /\ waitAge = 0
  /\ executor = "none"
  /\ received_state = FALSE /\ active = FALSE /\ fault = FALSE
  /\ commands = Zero /\ hw_commands = Zero /\ published = Zero
  /\ positions = Zero /\ position_offsets = Zero /\ hw_positions = Zero
  /\ stateAge = 0 /\ commandAge = 0
  /\ updated = FALSE /\ stopSent = FALSE /\ reach = 0

\* on_configure: the flags are cleared and the node, its publisher, timer and
\* thread are created.  When one of them throws, everything is torn down again
\* and a zero may have been published on the way.
Configure ==
  /\ call = "idle" /\ lifecycle = "unconfigured"
  /\ received_state' = FALSE /\ active' = FALSE /\ fault' = FALSE
  /\ commands' = Zero
  /\ \/ /\ executor' = "running" /\ lifecycle' = "inactive" /\ goal' = "inactive"
        /\ UNCHANGED published
     \/ /\ published' \in {published, Zero}
        /\ UNCHANGED <<executor, lifecycle, goal>>
  /\ UNCHANGED <<call, waitAge, hw_commands, positionVars, ageVars,
                 updated, stopSent>>

\* Mutant: the plugin counts as active while it still waits.
BeginActivateEarly ==
  /\ call = "idle" /\ lifecycle = "inactive"
  /\ call' = "activate" /\ goal' = "active" /\ active' = TRUE
  /\ UNCHANGED <<lifecycle, waitAge, executor, received_state, fault, commands,
                 hw_commands, positionVars, ageVars, published, updated,
                 stopSent>>

\* on_activate takes the mutex and waits on state_cv_.
BeginActivate ==
  /\ call = "idle" /\ lifecycle = "inactive"
  /\ call' = "activate" /\ goal' = "active"
  /\ UNCHANGED <<lifecycle, waitAge, executor, flagVars, commands, hw_commands,
                 positionVars, ageVars, published, updated, stopSent>>

\* Mutant: what the controllers wrote before is kept.
ActivateKeepsCommands ==
  /\ call = "activate" /\ StateFresh /\ ~fault
  /\ position_offsets' = positions /\ hw_positions' = Zero /\ commands' = Zero
  /\ commandAge' = 0 /\ active' = TRUE
  /\ lifecycle' = goal /\ call' = "idle" /\ waitAge' = 0
  /\ updated' = FALSE /\ stopSent' = FALSE /\ reach' = 0
  /\ UNCHANGED <<goal, executor, received_state, fault, hw_commands, positions,
                 stateAge, published>>

\* The wait ends with a fresh state and no fault: the present position becomes
\* the origin of the odometry and every command starts from zero.
Activate ==
  /\ call = "activate" /\ StateFresh /\ ~fault
  /\ position_offsets' = positions
  /\ hw_positions' = Zero /\ hw_commands' = Zero /\ commands' = Zero
  /\ commandAge' = 0
  /\ active' = TRUE
  /\ lifecycle' = goal /\ call' = "idle" /\ waitAge' = 0
  /\ updated' = FALSE /\ stopSent' = FALSE /\ reach' = 0
  /\ UNCHANGED <<goal, executor, received_state, fault, positions,
                 stateAge, published>>

\* Mutant: the wait has no timeout.
ActivateFailsByFaultOnly ==
  /\ call = "activate" /\ fault
  /\ EnterError
  /\ UNCHANGED <<executor, flagVars, commands, hw_commands, positionVars,
                 ageVars, published, updated, stopSent>>

\* The wait ends by a fault or by startup_timeout_.
ActivateFails ==
  /\ call = "activate"
  /\ fault \/ (waitAge = StartupTimeout /\ ~StateFresh)
  /\ EnterError
  /\ UNCHANGED <<executor, flagVars, commands, hw_commands, positionVars,
                 ageVars, published, updated, stopSent>>

\* on_deactivate, on_cleanup and on_shutdown, up to their stop_motion.
RequestStop(from, to) ==
  /\ call = "idle" /\ lifecycle \in from
  /\ call' = "stop" /\ goal' = to
  /\ UNCHANGED <<lifecycle, waitAge, executor, flagVars, commands, hw_commands,
                 positionVars, ageVars, published, updated, stopSent>>

Deactivate == RequestStop({"active"}, "inactive")
Cleanup == RequestStop({"inactive"}, "unconfigured")
Shutdown == RequestStop({"unconfigured", "inactive", "active"}, "finalized")

\* Mutant: a stop clears the commands and forgets active_.
StopMotionStaysActive ==
  /\ call = "stop" /\ call' = "final" /\ commands' = Zero
  /\ UNCHANGED <<lifecycle, goal, waitAge, executor, flagVars, hw_commands,
                 positionVars, ageVars, published, updated, stopSent>>

\* stop_motion, first half: under the mutex.
StopMotion ==
  /\ call = "stop"
  /\ active' = FALSE /\ commands' = Zero
  /\ call' = "final"
  /\ UNCHANGED <<lifecycle, goal, waitAge, executor, received_state, fault,
                 hw_commands, positionVars, ageVars, published, updated,
                 stopSent>>

\* Mutant: the fault is computed anew at each run.
PublishForgetsFault ==
  /\ fault' = (active /\ (StateLost \/ commandAge > CommandTimeout))
  /\ published' = IF active /\ ~fault' THEN commands ELSE Zero

\* Mutant: the silence of the MCU goes unnoticed.
PublishWithoutStateTimeout ==
  /\ fault' = (fault \/ (active /\ commandAge > CommandTimeout))
  /\ published' = IF active /\ ~fault' THEN commands ELSE Zero

\* Mutant: the silence of the controller manager goes unnoticed.
PublishWithoutCommandTimeout ==
  /\ fault' = (fault \/ (active /\ StateLost))
  /\ published' = IF active /\ ~fault' THEN commands ELSE Zero

\* publish_command, run by the timer and by stop_motion: silence of the MCU or
\* of the controller manager becomes a fault, and only an active plugin
\* without a fault sends anything but zero.
Publish ==
  /\ fault' = (fault \/ (active /\ (StateLost \/ commandAge > CommandTimeout)))
  /\ published' = IF active /\ ~fault' THEN commands ELSE Zero

\* stop_motion, second half.  Only on_deactivate returns here; the others go on
\* to end the thread.
EndStop ==
  /\ call = "final"
  /\ IF goal = "inactive"
     THEN call' = "idle" /\ lifecycle' = goal
     ELSE call' = "join" /\ UNCHANGED lifecycle
  /\ UNCHANGED <<goal, waitAge, executor, received_state, active, commands,
                 hw_commands, positionVars, ageVars, updated>>

\* The final zero goes out.
FinalStop == EndStop /\ executor # "none" /\ Publish /\ stopSent' = TRUE

\* There is no publisher, rclcpp is shutting down or publishing throws.
FinalStopLost == EndStop /\ UNCHANGED <<fault, published, stopSent>>

\* The rest of stop_executor, in which running_ is FALSE: join() returns once
\* the thread has left its loop, and the node is gone.
JoinExecutor ==
  /\ call = "join" /\ executor # "running"
  /\ executor' = "none"
  /\ call' = "idle" /\ lifecycle' = goal
  /\ UNCHANGED <<goal, waitAge, flagVars, commands, hw_commands, positionVars,
                 ageVars, published, updated, stopSent>>
-----------------------------------------------------------------------------
\* The timer of the executor thread.
CommandTimer ==
  /\ executor = "running"
  /\ Publish
  /\ UNCHANGED <<callVars, executor, received_state, active, commands,
                 hw_commands, positionVars, ageVars, updated, stopSent>>

\* Mutant: every position is believed.
JointStateCallbackTrusting(sample) ==
  /\ executor = "running"
  /\ reach' = IF active THEN UpTo(reach + MaxRate * stateAge + JumpSlack, MaxReach)
                        ELSE reach
  /\ positions' = sample /\ stateAge' = 0 /\ received_state' = TRUE
  /\ UNCHANGED <<callVars, executor, active, fault, commands, hw_commands,
                 position_offsets, hw_positions, commandAge, published,
                 updated, stopSent>>

\* joint_state_callback with a well-formed message (any other is ignored before
\* the mutex is taken).  The position is kept even when it raises the fault.
JointStateCallback(sample) ==
  /\ executor = "running"
  /\ LET reachable == MaxRate * stateAge + JumpSlack
         jump == \/ stateAge > StateTimeout
                 \/ \E w \in Wheel :
                      Distance(sample[w], positions[w]) > reachable
     IN /\ fault' = (fault \/ (active /\ received_state /\ jump))
        /\ reach' = IF active THEN UpTo(reach + reachable, MaxReach) ELSE reach
  /\ positions' = sample
  /\ stateAge' = 0 /\ received_state' = TRUE
  /\ UNCHANGED <<callVars, executor, active, commands, hw_commands,
                 position_offsets, hw_positions, commandAge, published,
                 updated, stopSent>>

\* The thread leaves its loop without a word: running_ was cleared, or rclcpp is
\* shut down, at any moment.
ExecutorEnds ==
  /\ executor = "running"
  /\ executor' = "ended"
  /\ UNCHANGED <<callVars, flagVars, commands, hw_commands, positionVars,
                 ageVars, published, updated, stopSent>>

\* An exception ends the thread; its handler latches the fault.
ExecutorFails ==
  /\ executor = "running"
  /\ executor' = "ended" /\ fault' = TRUE
  /\ UNCHANGED <<callVars, received_state, active, commands, hw_commands,
                 positionVars, ageVars, published, updated, stopSent>>

\* read(): the controllers see a position only while there is no fault.
Read ==
  /\ Cyclic
  /\ fault' = (fault \/ (active /\ StateLost))
  /\ IF fault'
     THEN EnterError /\ UNCHANGED hw_positions
     ELSE /\ hw_positions' = IF received_state
               THEN [w \in Wheel |-> positions[w] - position_offsets[w]]
               ELSE hw_positions
          /\ UNCHANGED callVars
  /\ UNCHANGED <<executor, received_state, active, commands, hw_commands,
                 positions, position_offsets, reach, ageVars, published,
                 updated, stopSent>>

\* Mutant: the commands are copied before they are looked at.
WriteUnchecked ==
  /\ Cyclic
  /\ fault' = (fault \/ \E w \in Wheel : hw_commands[w] = NotFinite)
  /\ commands' = IF active THEN hw_commands ELSE commands
  /\ commandAge' = IF active /\ ~fault' THEN 0 ELSE commandAge
  /\ IF fault' THEN EnterError ELSE UNCHANGED callVars
  /\ UNCHANGED <<executor, received_state, active, hw_commands, positionVars,
                 stateAge, published, updated, stopSent>>

\* write(): commands reach the publisher's copy while there is no fault.
Write ==
  /\ Cyclic
  /\ fault' = (fault \/ \E w \in Wheel : hw_commands[w] = NotFinite)
  /\ IF fault'
     THEN EnterError /\ commands' = Zero /\ UNCHANGED commandAge
     ELSE /\ commands' = IF active THEN hw_commands ELSE commands
          /\ commandAge' = IF active THEN 0 ELSE commandAge
          /\ UNCHANGED callVars
  /\ UNCHANGED <<executor, received_state, active, hw_commands, positionVars,
                 stateAge, published, updated, stopSent>>

\* A controller writes through the exported command interfaces.
ControllerUpdate(command) ==
  /\ Cyclic
  /\ hw_commands' = command
  /\ updated' = TRUE
  /\ UNCHANGED <<callVars, executor, flagVars, commands, positionVars, ageVars,
                 published, stopSent>>

Tick ==
  /\ stateAge' = Older(stateAge, StateTimeout)
  /\ commandAge' = Older(commandAge, CommandTimeout)
  /\ waitAge' = IF call = "activate" THEN UpTo(waitAge + 1, StartupTimeout)
                                     ELSE waitAge
  /\ UNCHANGED <<lifecycle, call, goal, executor, flagVars, commands,
                 hw_commands, positionVars, published, updated, stopSent>>
-----------------------------------------------------------------------------
Lifecycle == \/ Configure \/ BeginActivate \/ Activate \/ ActivateFails
             \/ Deactivate \/ Cleanup \/ Shutdown
             \/ StopMotion \/ FinalStop \/ FinalStopLost \/ JoinExecutor

Next ==
  \/ Lifecycle
  \/ CommandTimer \/ ExecutorEnds \/ ExecutorFails
  \/ \E sample \in [Wheel -> Position] : JointStateCallback(sample)
  \/ Read \/ Write
  \/ \E command \in [Wheel -> Speed \cup {NotFinite}] :
       ControllerUpdate(command)
  \/ Tick

Spec == Init /\ [][Next]_vars

\* The controller manager keeps calling read() and ends the calls it began, the
\* thread looks at running_ every few milliseconds, and time passes.  Nothing is
\* assumed of the MCU or of the controllers.
Fairness == /\ WF_vars(Tick) /\ WF_vars(Read)
            /\ WF_vars(Activate \/ ActivateFails)
            /\ WF_vars(StopMotion) /\ WF_vars(FinalStop \/ FinalStopLost)
            /\ WF_vars(call = "join" /\ ExecutorEnds) /\ WF_vars(JoinExecutor)

FairSpec == Spec /\ Fairness
-----------------------------------------------------------------------------
TypeOK ==
  /\ lifecycle \in {"unconfigured", "inactive", "active", "finalized"}
  /\ call \in {"idle", "activate", "stop", "final", "join"}
  /\ goal \in {"unconfigured", "inactive", "active", "finalized"}
  /\ waitAge \in 0..StartupTimeout
  /\ executor \in {"none", "running", "ended"}
  /\ received_state \in BOOLEAN /\ active \in BOOLEAN /\ fault \in BOOLEAN
  /\ commands \in Command /\ published \in Command
  /\ hw_commands \in [Wheel -> Speed \cup {NotFinite}]
  /\ positions \in [Wheel -> Position]
  /\ position_offsets \in [Wheel -> Position]
  /\ hw_positions \in [Wheel -> Int]
  /\ stateAge \in 0..(StateTimeout + 1)
  /\ commandAge \in 0..(CommandTimeout + 1)
  /\ updated \in BOOLEAN /\ stopSent \in BOOLEAN
  /\ reach \in 0..MaxReach

\* The plugin is active exactly while the resource manager believes so, apart
\* from the window in which a stop is under way: no path leaves a plugin that
\* forwards commands behind a lifecycle state that does not.
ActiveMatchesLifecycle ==
  /\ active => lifecycle = "active" /\ executor # "none" /\ received_state
  /\ lifecycle = "active" /\ call = "idle" => active
  /\ lifecycle \in {"unconfigured", "finalized"} /\ call = "idle"
       => executor = "none"

\* "Serialize timer and lifecycle publication so a stop cannot be followed by
\* an old command": once the final zero is out nothing but zero is published
\* until the next activation, whatever the timer, write() and the controllers
\* do meanwhile.
StopIsLastWord == stopSent => published = Zero

\* An activation starts from rest: a command the plugin forwards was written
\* by a controller after that activation, never left over from an earlier one.
NoLeftoverCommand == active /\ commands # Zero => updated

\* "A reconnect or encoder reset must not silently jump the controller's
\* odometry": the position a controller reads never lies further from the
\* activation than the wheels can have turned, although the callback stores
\* a position that jumps.
OdometryWithinReach ==
  active => \A w \in Wheel : Distance(hw_positions[w], 0) <= reach

\* A fault is latched: only on_configure ends it, and until then nothing but
\* zero is published.
FaultLatched ==
  [][fault => /\ fault' \/ (lifecycle = "unconfigured" /\ call = "idle")
              /\ published' \in {published, Zero}]_vars

\* A fault, from whichever actor it comes, ends in a plugin that has stopped
\* its thread: it does not stay configured with the fault pending.
FaultTearsDown == fault ~> executor = "none"

\* Every lifecycle call returns: on_activate does not outwait its startup
\* timeout, and no stop waits for ever on a thread that goes on publishing.
CallsReturn == call # "idle" ~> call = "idle"
=============================================================================
