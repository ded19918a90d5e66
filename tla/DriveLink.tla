----------------------------- MODULE DriveLink -----------------------------
(***************************************************************************)
(* The hardware plugin driving the wheels over the micro-ROS link.  The    *)
(* plugin is DiffBotSystem in full detail; the board is DriveLease, the    *)
(* abstraction McuFirmware is shown to implement.  Between them lie the    *)
(* topics /mcu/wheel_commands and /mcu/wheel_states, both best effort and  *)
(* volatile: a sample may be lost at any moment and samples may overtake   *)
(* each other, but none is delivered after MaxDelay ticks.  The board may  *)
(* reset, the session may close and open, and the process of the plugin    *)
(* may be killed and started again, all at any moment.                     *)
(***************************************************************************)
EXTENDS DiffBotSystem, FiniteSets

CONSTANTS
  MaxDelay,   \* the longest a sample stays in the middleware and on the wire
  LeaseTime,  \* firmware: command timeout plus one control period
  StopTime,   \* firmware: the rest of one control period
  OpenDelay,  \* board start plus the 500 ms before the first ping
  MaxResets,  \* bound on the resets of the board
  MaxCommands, \* bound on the commands under way; any other is lost
  MaxStates   \* bound on the states under way; any other is lost

VARIABLES
  up, lease, driving, uptime, clock,  \* the board
  commandNet,    \* wheel commands under way
  stateNet,      \* wheel states under way
  \* history variables
  boot,          \* resets of the board so far
  opened,        \* the board has had a session since its last reset
  outage,        \* how long it had none, from the first reset after a session
  positionBoot,  \* the boot in which the plugin's positions were counted
  originBoot,    \* the boot of the last activation's position_offsets
  sinceMotion,   \* time since write() accepted a command for motion
  sinceHalt      \* time since the plugin was active without a fault

Board == INSTANCE DriveLease WITH Wrap <- 1

boardVars == <<up, lease, driving, uptime, clock>>
netVars == <<commandNet, stateNet>>
awayVars == <<boot, opened, outage>>
bootVars == <<awayVars, positionBoot, originBoot>>
haltVars == <<sinceMotion, sinceHalt>>
linkVars == <<vars, boardVars, netVars, bootVars, haltVars>>

ASSUME LinkAssumption ==
  /\ MaxDelay \in Nat /\ MaxResets \in Nat
  /\ MaxCommands \in Nat /\ MaxStates \in Nat
  /\ LeaseTime \in Nat /\ StopTime \in Nat /\ StopTime <= LeaseTime
  /\ OpenDelay \in Nat

-----------------------------------------------------------------------------
Put(net, m, bound) ==
  IF Cardinality(net) < bound THEN net \cup {m} ELSE net
Aged(net) == {[m EXCEPT !.age = @ + 1] : m \in net}

MotionBound == CommandTimeout + MaxDelay + LeaseTime
HaltBound == MaxDelay + LeaseTime
OutageBound == StateTimeout + 2 * MaxDelay + 1
None == -1  \* no positions from any boot
Halted == ~active \/ fault

LinkInit ==
  /\ Init /\ Board!Init
  /\ commandNet = {} /\ stateNet = {}
  /\ boot = 0 /\ opened = FALSE /\ outage = OutageBound
  /\ positionBoot = None /\ originBoot = None
  /\ sinceMotion = MotionBound /\ sinceHalt = HaltBound

\* The process is killed and started again: nothing of the plugin survives.
PluginRestarts ==
  /\ lifecycle' = "unconfigured" /\ call' = "idle" /\ goal' = "unconfigured"
  /\ waitAge' = 0 /\ executor' = "none"
  /\ received_state' = FALSE /\ active' = FALSE /\ fault' = FALSE
  /\ commands' = Zero /\ hw_commands' = Zero /\ published' = Zero
  /\ positions' = Zero /\ position_offsets' = Zero /\ hw_positions' = Zero
  /\ stateAge' = 0 /\ commandAge' = 0
  /\ updated' = FALSE /\ stopSent' = FALSE /\ reach' = 0

\* The plugin counts as halted from the first moment it is not active without a
\* fault.
NoteHalt == sinceHalt' = IF Halted /\ Halted' THEN sinceHalt ELSE 0

\* A command that asks for motion is accepted from the controllers.
PluginWrite ==
  /\ Write
  /\ sinceMotion' = IF active /\ commands' # Zero THEN 0 ELSE sinceMotion
  /\ UNCHANGED originBoot

PluginActivate == /\ Activate
                  /\ originBoot' = positionBoot
                  /\ UNCHANGED sinceMotion

\* All other steps of the plugin that neither send nor receive.  A zero
\* published by a failed on_configure counts as lost, and the controllers write
\* finite speeds: the refusal of others is the business of DiffBotSystem.
PluginOther ==
  /\ \/ Configure \/ BeginActivate \/ ActivateFails
     \/ Deactivate \/ Cleanup \/ Shutdown
     \/ StopMotion \/ FinalStopLost \/ JoinExecutor
     \/ ExecutorEnds \/ ExecutorFails \/ Read \/ PluginRestarts
     \/ \E c \in Command : ControllerUpdate(c)
  /\ UNCHANGED <<originBoot, sinceMotion>>

PluginStep == /\ PluginWrite \/ PluginActivate \/ PluginOther
              /\ NoteHalt
              /\ UNCHANGED <<boardVars, netVars, awayVars, positionBoot>>

\* The timer or the final stop hands a command to the middleware.
SendCommand ==
  /\ CommandTimer \/ FinalStop
  /\ commandNet' =
       Put(commandNet, [moving |-> published' # Zero, age |-> 0], MaxCommands)
  /\ NoteHalt
  /\ UNCHANGED <<boardVars, stateNet, bootVars, sinceMotion>>

\* The board takes a command in an open session.
DeliverCommand(m) ==
  /\ IF m.moving THEN Board!Grant ELSE Board!Revoke
  /\ commandNet' = commandNet \ {m}
  /\ UNCHANGED <<vars, stateNet, bootVars, haltVars>>

\* The board publishes the state of its wheels.
SendState ==
  /\ up
  /\ stateNet' = Put(stateNet, [boot |-> boot, age |-> 0], MaxStates)
  /\ UNCHANGED <<vars, boardVars, commandNet, bootVars, haltVars>>

DeliverState(m, sample) ==
  /\ JointStateCallback(sample)
  /\ positionBoot' = m.boot
  /\ stateNet' = stateNet \ {m}
  /\ NoteHalt
  /\ UNCHANGED <<boardVars, commandNet, awayVars, originBoot, sinceMotion>>

Lose == /\ \/ /\ \E m \in commandNet : commandNet' = commandNet \ {m}
              /\ UNCHANGED stateNet
           \/ /\ \E m \in stateNet : stateNet' = stateNet \ {m}
              /\ UNCHANGED commandNet
        /\ UNCHANGED <<vars, boardVars, bootVars, haltVars>>

BoardOpens == /\ Board!Open /\ opened' = TRUE
              /\ UNCHANGED <<boot, outage>>

BoardStep == /\ \/ BoardOpens
                \/ (Board!Close \/ Board!Drive) /\ UNCHANGED awayVars
             /\ UNCHANGED <<vars, netVars, positionBoot, originBoot, haltVars>>

BoardReset == /\ boot < MaxResets /\ boot' = boot + 1
              /\ opened' = FALSE /\ outage' = IF opened THEN 0 ELSE outage
              /\ Board!Reset
              /\ UNCHANGED <<vars, netVars, positionBoot, originBoot, haltVars>>

\* One tick for both computers and for every sample under way.
LinkTick ==
  /\ \A m \in commandNet \cup stateNet : m.age < MaxDelay
  /\ Tick /\ Board!Tick
  /\ commandNet' = Aged(commandNet) /\ stateNet' = Aged(stateNet)
  /\ sinceMotion' = UpTo(sinceMotion + 1, MotionBound)
  /\ sinceHalt' = IF Halted THEN UpTo(sinceHalt + 1, HaltBound) ELSE 0
  /\ outage' = IF opened THEN outage ELSE UpTo(outage + 1, OutageBound)
  /\ UNCHANGED <<boot, opened, positionBoot, originBoot>>

LinkNext ==
  \/ PluginStep \/ SendCommand \/ SendState \/ Lose
  \/ \E m \in commandNet : DeliverCommand(m)
  \/ \E m \in stateNet, sample \in [Wheel -> Position] : DeliverState(m, sample)
  \/ BoardStep \/ BoardReset \/ LinkTick

LinkSpec == LinkInit /\ [][LinkNext]_linkVars

\* What the guards, the rest of the state and the properties below depend on:
\* not the plugin's history variables, nor what it last published, nor commands
\* of a plugin that is not active or the age of a state it never got (both are
\* set anew before they are read); of an earlier boot only that it is not the
\* present one; of an outage that is over only the bounds the properties name.
\* States that differ only in the rest need not be told apart.
LinkView ==
  <<callVars, executor, flagVars, position_offsets, hw_positions,
    IF active THEN <<commands, hw_commands, commandAge>> ELSE <<>>,
    IF received_state THEN <<positions, stateAge, positionBoot = boot>> ELSE <<>>,
    boardVars, commandNet, {<<m.boot = boot, m.age>> : m \in stateNet},
    boot, opened, originBoot = boot, haltVars,
    IF opened THEN {d \in 1..2 : outage > StateTimeout + d * MaxDelay}
              ELSE {outage}>>
-----------------------------------------------------------------------------
\* End to end: a motor that turns was asked to by a controller at most the
\* plugin's command timeout, one delay and the board's lease ago, through any
\* loss, delay or overtaking of commands and stops.
MotionIsRecent == driving => sinceMotion < MotionBound

\* "The MCU watchdog is the fallback if this last zero command cannot be
\* delivered": a plugin that was deactivated, has a fault or was killed leaves
\* the motors turning for at most one delay and one lease, even if every stop
\* it sends is lost.
HaltReachesMotors == driving => sinceHalt < HaltBound

\* "A reconnect or encoder reset must not silently jump the controller's
\* odometry": a plugin without a fault does not subtract an origin counted
\* before a reset from positions counted after it, however small the jump, if
\* the board was away for longer than the state timeout and one delay.  After
\* a shorter outage only the jump test can tell (OdometryWithinReach).
OdometryInOneBoot ==
  ~Halted /\ positionBoot = boot /\ outage > StateTimeout + MaxDelay
    => originBoot = boot

\* "The PC latches a communication error and does not resume driving": a board
\* that was reset and away for longer than the state timeout and two delays
\* does not move until the plugin has been activated with positions counted
\* since that reset: no command from before is still under way by then.
ResetNeedsActivation ==
  driving /\ outage > StateTimeout + 2 * MaxDelay => originBoot = boot
=============================================================================
