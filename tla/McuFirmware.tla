---------------------------- MODULE McuFirmware ----------------------------
(***************************************************************************)
(* The ESP32 firmware (src/arduino/micro_ros_client.ino).  Two FreeRTOS    *)
(* tasks share the command under state_mux:                                *)
(*   - controlTask, every CONTROL_PERIOD_MS, runs the communication        *)
(*     watchdog, then computes and writes the PWM outside the mutex;       *)
(*   - loop() finds the agent, creates and destroys the micro-ROS          *)
(*     entities, receives commands and publishes states.                   *)
(* Each critical section is one action, and the tasks interleave between   *)
(* them.  millis() is an unsigned counter that wraps at Wrap (2^32 ms);    *)
(* only controlTask is known to run in time, loop() may block for any time *)
(* in any call to the agent.  The board may reset at any moment.           *)
(* The values of the PID output, the encoders, the IMU and the battery are *)
(* left out: what is kept of a motor is whether its duty cycle is zero.    *)
(***************************************************************************)
EXTENDS Integers

CONSTANTS
  Wheel,
  Speed,           \* the finite values a command may hold
  MaxCommand,      \* the 20 rad/s commandCallback accepts
  Malformed,       \* a command of another size, or with a NaN or infinity
  Wrap,            \* number of values of millis()
  ControlPeriod,   \* CONTROL_PERIOD_MS
  CommandTimeout,  \* COMMAND_TIMEOUT_MS
  PingPeriod,      \* the 500 ms between two pings
  StatePeriod      \* the period of state publication, CONTROL_PERIOD_MS too

ASSUME WheelAssumption == Wheel # {}
ASSUME SpeedAssumption == /\ 0 \in Speed /\ Speed \subseteq Int
                          /\ MaxCommand \in Nat
ASSUME PeriodAssumption ==
  /\ ControlPeriod \in Nat \ {0} /\ CommandTimeout \in Nat \ {0}
  /\ PingPeriod \in Nat /\ StatePeriod \in Nat
\* The counter does not come round between two runs of the watchdog.
ASSUME WrapAssumption ==
  Wrap \in Nat /\ CommandTimeout + ControlPeriod <= Wrap /\ PingPeriod < Wrap

VARIABLES
  millis,
  control,          \* controlTask: asleep, or between its lock and setMotor
  controlAge,       \* time since controlTask was woken
  targets,          \* its local copy of target_velocity
  driving,          \* the wheels whose PWM duty is not zero
  connected, command_valid, target_velocity, last_command_ms,  \* state_mux
  loop,             \* how far loop() has come
  entities_ready, now, last_ping, last_state,                  \* its locals
  \* history variables
  commandAge,       \* time since a command was accepted
  uptime            \* time since the reset, up to PingPeriod

taskVars == <<control, controlAge, targets, driving>>
commandVars == <<command_valid, target_velocity, last_command_ms, commandAge>>
loopVars == <<loop, entities_ready, now, last_ping, last_state>>
vars == <<millis, taskVars, connected, commandVars, loopVars, uptime>>

-----------------------------------------------------------------------------
Rest == [w \in Wheel |-> 0]
Message == [Wheel -> Speed] \cup {Malformed}
UpTo(n, cap) == IF n < cap THEN n ELSE cap

\* Mutant: a difference that is not unsigned, and holds still over a wrap.
ElapsedSigned(t, since) == IF t >= since THEN t - since ELSE 0

\* static_cast<uint32_t>(t - since)
Elapsed(t, since) == IF t >= since THEN t - since ELSE t - since + Wrap

Moving == driving # {}

Init ==
  /\ millis = 0
  /\ control = "asleep" /\ controlAge = 0
  /\ targets = Rest /\ driving = {}
  /\ connected = FALSE /\ command_valid = FALSE
  /\ target_velocity = Rest /\ last_command_ms = 0
  /\ loop = "top" /\ entities_ready = FALSE
  /\ now = 0 /\ last_ping = 0 /\ last_state = 0
  /\ commandAge = CommandTimeout + ControlPeriod
  /\ uptime = 0
-----------------------------------------------------------------------------
\* controlTask, its critical section: the watchdog forgets a command that is
\* too old or whose session is gone, then the targets are copied.
ControlLock ==
  /\ control = "asleep" /\ controlAge = ControlPeriod
  /\ LET stale == \/ ~connected \/ ~command_valid
                  \/ Elapsed(millis, last_command_ms) >= CommandTimeout
     IN /\ command_valid' = (command_valid /\ ~stale)
        /\ target_velocity' = IF stale THEN Rest ELSE target_velocity
  /\ targets' = target_velocity'
  /\ control' = "computed" /\ controlAge' = 0
  /\ UNCHANGED <<millis, driving, connected, last_command_ms, commandAge,
                 loopVars, uptime>>

\* controlTask, PID and setMotor: a zero target always stops its wheel, any
\* other gives a duty cycle that MIN_PWM may still suppress.
ControlOutput ==
  /\ control = "computed"
  /\ driving' \in SUBSET {w \in Wheel : targets[w] # 0}
  /\ control' = "asleep" /\ targets' = Rest
  /\ UNCHANGED <<millis, controlAge, connected, commandVars, loopVars, uptime>>

\* Mutant: the command outlives the session.
DisconnectKeepsCommand ==
  /\ connected' = FALSE /\ entities_ready' = FALSE
  /\ loop' = "top" /\ now' = 0
  /\ UNCHANGED <<millis, taskVars, commandVars, uptime>>

\* Mutant: loop() is not told that the entities are gone.
DisconnectKeepsEntities ==
  /\ connected' = FALSE /\ command_valid' = FALSE /\ target_velocity' = Rest
  /\ loop' = "top" /\ now' = 0
  /\ UNCHANGED <<millis, taskVars, last_command_ms, commandAge, entities_ready,
                 uptime>>

\* destroyEntities, whose critical section comes first, and the return to the
\* top of loop() that follows it.  entities_ready is a local of loop(), which
\* looks at it at its top only, so that its assignment goes with that section.
Disconnect ==
  /\ connected' = FALSE /\ command_valid' = FALSE /\ target_velocity' = Rest
  /\ entities_ready' = FALSE
  /\ loop' = "top" /\ now' = 0
  /\ UNCHANGED <<millis, taskVars, last_command_ms, commandAge, uptime>>

\* Mutant: the agent is pinged at once, before the 500 ms have passed.
PingAtOnce == TRUE

PingDue == Elapsed(millis, last_ping) >= PingPeriod

\* loop() without entities: ping the agent, and create them if it answers.
PingAgent ==
  /\ loop = "top" /\ ~entities_ready /\ PingDue
  /\ last_ping' = millis /\ loop' = "find"
  /\ UNCHANGED <<millis, taskVars, connected, commandVars, entities_ready, now,
                 last_state, uptime>>

PingUnanswered ==
  /\ loop = "find" /\ loop' = "top"
  /\ UNCHANGED <<millis, taskVars, connected, commandVars, entities_ready, now,
                 last_ping, last_state, uptime>>

PingAnswered ==
  /\ loop = "find" /\ loop' = "create"
  /\ UNCHANGED <<millis, taskVars, connected, commandVars, entities_ready, now,
                 last_ping, last_state, uptime>>

CreateSucceeds ==
  /\ loop = "create"
  /\ connected' = TRUE /\ command_valid' = FALSE /\ entities_ready' = TRUE
  /\ last_ping' = millis /\ loop' = "top"
  /\ UNCHANGED <<millis, taskVars, target_velocity, last_command_ms,
                 commandAge, now, last_state, uptime>>

CreateFails == loop = "create" /\ Disconnect /\ UNCHANGED <<last_ping, last_state>>

\* loop() with entities: now is read once, and the agent pinged when due.
BeginLoop ==
  /\ loop = "top" /\ entities_ready
  /\ now' = millis
  /\ IF PingDue THEN loop' = "ping" /\ last_ping' = millis
                ELSE loop' = "spin" /\ UNCHANGED last_ping
  /\ UNCHANGED <<millis, taskVars, connected, commandVars, entities_ready,
                 last_state, uptime>>

PingSucceeds ==
  /\ loop = "ping" /\ loop' = "spin"
  /\ UNCHANGED <<millis, taskVars, connected, commandVars, entities_ready, now,
                 last_ping, last_state, uptime>>

PingFails == loop = "ping" /\ Disconnect /\ UNCHANGED <<last_ping, last_state>>

\* Mutant: neither size nor values of a command are looked at.
AcceptAll(m) == TRUE

Acceptable(m) == /\ m # Malformed
                 /\ \A w \in Wheel : m[w] <= MaxCommand /\ -m[w] <= MaxCommand

\* rclc_executor_spin_some runs commandCallback on a command that has arrived.
CommandCallback(m) ==
  /\ loop = "spin" /\ loop' = "state"
  /\ IF Acceptable(m)
     THEN /\ target_velocity' = m /\ command_valid' = TRUE
          /\ last_command_ms' = millis /\ commandAge' = 0
     ELSE /\ target_velocity' = Rest /\ command_valid' = FALSE
          /\ UNCHANGED <<last_command_ms, commandAge>>
  /\ UNCHANGED <<millis, taskVars, connected, entities_ready, now, last_ping,
                 last_state, uptime>>

NoCommand == /\ loop = "spin" /\ loop' = "state"
             /\ UNCHANGED <<millis, taskVars, connected, commandVars,
                            entities_ready, now, last_ping, last_state, uptime>>

\* The wheel state is published when due, by the now of the top of loop().
StateDue == Elapsed(now, last_state) >= StatePeriod

PublishState ==
  /\ loop = "state" /\ loop' = "imu"
  /\ last_state' = IF StateDue THEN now ELSE last_state
  /\ UNCHANGED <<millis, taskVars, connected, commandVars, entities_ready, now,
                 last_ping, uptime>>

\* Battery, time synchronization and IMU, none of which touches the wheels.
EndLoop ==
  /\ loop = "imu" /\ loop' = "top" /\ now' = 0
  /\ UNCHANGED <<millis, taskVars, connected, commandVars, entities_ready,
                 last_ping, last_state, uptime>>

\* A failed spin, state publication or IMU publication ends the session.
LinkFails ==
  \/ loop \in {"spin", "imu"} /\ Disconnect /\ UNCHANGED <<last_ping, last_state>>
  \/ /\ loop = "state" /\ StateDue /\ last_state' = now
     /\ Disconnect /\ UNCHANGED last_ping
-----------------------------------------------------------------------------
Reset ==
  /\ millis' = 0
  /\ control' = "asleep" /\ controlAge' = 0
  /\ targets' = Rest /\ driving' = {}
  /\ connected' = FALSE /\ command_valid' = FALSE
  /\ target_velocity' = Rest /\ last_command_ms' = 0
  /\ loop' = "top" /\ entities_ready' = FALSE
  /\ now' = 0 /\ last_ping' = 0 /\ last_state' = 0
  /\ commandAge' = CommandTimeout + ControlPeriod
  /\ uptime' = 0

\* vTaskDelayUntil wakes controlTask exactly every period, and its few
\* statements take no time that matters here.
Tick ==
  /\ control = "asleep" /\ controlAge < ControlPeriod
  /\ controlAge' = controlAge + 1
  /\ millis' = IF millis = Wrap - 1 THEN 0 ELSE millis + 1
  /\ commandAge' = UpTo(commandAge + 1, CommandTimeout + ControlPeriod)
  /\ uptime' = UpTo(uptime + 1, PingPeriod)
  /\ UNCHANGED <<control, targets, driving, connected, command_valid,
                 target_velocity, last_command_ms, loopVars>>

Control == ControlLock \/ ControlOutput
Loop == \/ PingAgent \/ PingUnanswered \/ PingAnswered
        \/ CreateSucceeds \/ CreateFails
        \/ BeginLoop \/ PingSucceeds \/ PingFails
        \/ \E m \in Message : CommandCallback(m)
        \/ NoCommand \/ PublishState \/ EndLoop \/ LinkFails

Next == Control \/ Loop \/ Tick \/ Reset
Spec == Init /\ [][Next]_vars

\* From a reset on, time passes, controlTask runs and the board is not reset
\* again.  Without entities loop() comes round often enough to see that a ping
\* is due and its calls return; an agent that is asked time and again answers
\* at last, and entities created time and again are at last complete.  With
\* entities no call of loop() is assumed to return.
Fairness == /\ WF_vars(Tick) /\ WF_vars(Control)
            /\ SF_vars(PingAgent)
            /\ WF_vars(PingUnanswered \/ PingAnswered) /\ SF_vars(PingAnswered)
            /\ WF_vars(CreateSucceeds \/ CreateFails) /\ SF_vars(CreateSucceeds)
FairSpec == Init /\ [][Control \/ Loop \/ Tick]_vars /\ Fairness
-----------------------------------------------------------------------------
TypeOK ==
  /\ millis \in 0..(Wrap - 1)
  /\ control \in {"asleep", "computed"}
  /\ controlAge \in 0..ControlPeriod
  /\ targets \in [Wheel -> Speed] /\ target_velocity \in [Wheel -> Speed]
  /\ driving \in SUBSET Wheel
  /\ connected \in BOOLEAN /\ command_valid \in BOOLEAN
  /\ last_command_ms \in 0..(Wrap - 1)
  /\ loop \in {"top", "find", "create", "ping", "spin", "state", "imu"}
  /\ entities_ready \in BOOLEAN
  /\ now \in 0..(Wrap - 1) /\ last_ping \in 0..(Wrap - 1)
  /\ last_state \in 0..(Wrap - 1)
  /\ commandAge \in 0..(CommandTimeout + ControlPeriod)
  /\ uptime \in 0..PingPeriod

\* The watchdog: a motor turns only within COMMAND_TIMEOUT_MS and one control
\* period of the last command the board accepted, even when loop() is blocked
\* for good, the session is gone, or millis() has come round since.
WatchdogStops == Moving => commandAge < CommandTimeout + ControlPeriod

\* What the two tasks believe of a command agrees at every step between them:
\* without a valid command the stored target is rest, and a valid command
\* belongs to the session that is open.
CommandBelongsToSession ==
  /\ ~command_valid => target_velocity = Rest
  /\ command_valid => connected

\* The promise of DriveLease.  A valid command for motion holds the rest of
\* its lease; otherwise the motors turn at most until the next control period,
\* or the PWM just computed from targets that are gone is about to be written.
CommandsMotion == command_valid /\ target_velocity # Rest
TimeLeft == IF CommandsMotion THEN CommandTimeout + ControlPeriod - commandAge
            ELSE IF control = "computed" /\ targets # Rest THEN ControlPeriod + 1
            ELSE IF ~Moving THEN 0
            ELSE IF control = "computed" THEN 1
            ELSE ControlPeriod + 1 - controlAge
Lease == INSTANCE DriveLease WITH
  LeaseTime <- CommandTimeout + ControlPeriod,
  StopTime <- ControlPeriod + 1,
  OpenDelay <- PingPeriod,
  clock <- millis,
  up <- connected,
  driving <- Moving,
  lease <- TimeLeft
LeaseKept == Lease!Spec

\* The board does not give up on the agent: it is connected again after every
\* loss, as long as pings are answered and entities can be created.
Reconnects == ~connected ~> connected
=============================================================================
