------------------------- MODULE McuFirmware_proofs -------------------------
(***************************************************************************)
(* Theorems about the firmware, for any number of wheels, any speeds, any  *)
(* periods and timeouts and any width of millis() that the assumptions of  *)
(* McuFirmware allow.                                                      *)
(***************************************************************************)
EXTENDS McuSession, FiniteSetTheorems, TLAPS

USE SpeedAssumption, PeriodAssumption, WrapAssumption

\* loop() is past its connection phase only with entities, and creates them
\* only without.
LoopInv ==
  /\ loop \in {"ping", "spin", "state", "imu"} => entities_ready
  /\ loop \in {"find", "create"} => ~entities_ready
  /\ connected <=> entities_ready

\* The stored command: without a valid one the target is rest; a valid one
\* belongs to the open session, its age is what the unsigned subtraction of
\* millis() computes, and the watchdog has looked at it at its last run.
CommandInv ==
  /\ ~command_valid => target_velocity = Rest
  /\ command_valid => /\ connected
                      /\ Elapsed(millis, last_command_ms) = commandAge
                      /\ commandAge < CommandTimeout + controlAge

\* The motors: what controlTask is about to write was read from a command
\* younger than the timeout, and what it wrote one run ago is one period older.
MotorInv ==
  /\ control = "computed" => controlAge = 0
  /\ control = "asleep" => targets = Rest
  /\ targets # Rest => commandAge < CommandTimeout
  /\ Moving => commandAge < CommandTimeout +
                 (IF control = "computed" THEN ControlPeriod ELSE controlAge)

\* Before its first 500 ms the board has not tried to connect.
BootInv ==
  /\ uptime < PingPeriod => millis = uptime /\ last_ping = 0
  /\ entities_ready \/ loop \in {"find", "create"} => uptime = PingPeriod

IInv == TypeOK /\ LoopInv /\ CommandInv /\ MotorInv /\ BootInv

-----------------------------------------------------------------------------
LEMMA RestType == Rest \in [Wheel -> Speed]
  BY DEF Rest

\* What the unsigned difference of two readings of millis() does when time
\* advances by one tick: it grows by one until it would reach Wrap.
LEMMA ElapsedTick ==
  ASSUME NEW t \in 0..(Wrap - 1), NEW since \in 0..(Wrap - 1),
         Elapsed(t, since) + 1 < Wrap
  PROVE  Elapsed(IF t = Wrap - 1 THEN 0 ELSE t + 1, since)
           = Elapsed(t, since) + 1
  BY DEF Elapsed

LEMMA ElapsedSelf == \A t \in 0..(Wrap - 1) : Elapsed(t, t) = 0
  BY DEF Elapsed

LEMMA InitIInv == Init => IInv
<1> SUFFICES ASSUME Init PROVE IInv
  OBVIOUS
<1>1. TypeOK
  <2>1. /\ millis \in 0..(Wrap - 1) /\ last_command_ms \in 0..(Wrap - 1)
        /\ now \in 0..(Wrap - 1) /\ last_ping \in 0..(Wrap - 1)
        /\ last_state \in 0..(Wrap - 1)
    BY DEF Init
  <2>2. /\ controlAge \in 0..ControlPeriod /\ uptime \in 0..PingPeriod
        /\ commandAge \in 0..(CommandTimeout + ControlPeriod)
    BY DEF Init
  <2>3. /\ connected \in BOOLEAN /\ command_valid \in BOOLEAN
        /\ entities_ready \in BOOLEAN
    BY DEF Init
  <2>4. targets \in [Wheel -> Speed] /\ target_velocity \in [Wheel -> Speed]
    BY RestType DEF Init
  <2>5. /\ control \in {"asleep", "computed"} /\ driving \in SUBSET Wheel
        /\ loop \in {"top", "find", "create", "ping", "spin", "state", "imu"}
    BY DEF Init
  <2> QED
    BY <2>1, <2>2, <2>3, <2>4, <2>5 DEF TypeOK
<1>2. LoopInv /\ CommandInv /\ BootInv
  BY DEF Init, LoopInv, CommandInv, BootInv
<1>3. MotorInv
  BY DEF Init, MotorInv, Moving
<1> QED
  BY <1>1, <1>2, <1>3 DEF IInv

-----------------------------------------------------------------------------
\* controlTask.
LEMMA ControlLockInv == IInv /\ ControlLock => IInv'
<1> SUFFICES ASSUME IInv, ControlLock PROVE IInv'
  OBVIOUS
<1> USE DEF IInv
<1>1. TypeOK'
  BY RestType DEF TypeOK, ControlLock, loopVars
<1>2. LoopInv' /\ BootInv'
  BY DEF TypeOK, LoopInv, BootInv, ControlLock, loopVars
<1> DEFINE stale == \/ ~connected \/ ~command_valid
                    \/ Elapsed(millis, last_command_ms) >= CommandTimeout
<1>a. /\ command_valid' = (command_valid /\ ~stale)
      /\ target_velocity' = IF stale THEN Rest ELSE target_velocity
      /\ connected' = connected /\ controlAge' = 0 /\ commandAge' = commandAge
      /\ Elapsed(millis, last_command_ms)' = Elapsed(millis, last_command_ms)
  BY DEF ControlLock, Elapsed
<1>b. commandAge \in Int
  BY DEF TypeOK
<1>3. CommandInv'
  <2>1. CASE stale
    <3>1. ~command_valid' /\ target_velocity' = Rest
      BY <1>a, <2>1
    <3> QED
      BY <3>1 DEF CommandInv, Rest
  <2>2. CASE ~stale
    <3>1. /\ command_valid /\ connected /\ command_valid' /\ connected'
          /\ ~(Elapsed(millis, last_command_ms) >= CommandTimeout)
      BY <1>a, <2>2
    <3>2. commandAge < CommandTimeout
      BY <1>b, <3>1 DEF CommandInv
    <3> QED
      BY <1>a, <1>b, <3>1, <3>2 DEF CommandInv
  <2> QED
    BY <2>1, <2>2
<1>4. MotorInv'
  BY DEF TypeOK, CommandInv, MotorInv, Moving, ControlLock
<1> QED
  BY <1>1, <1>2, <1>3, <1>4

LEMMA ControlOutputInv == IInv /\ ControlOutput => IInv'
<1> SUFFICES ASSUME IInv, ControlOutput PROVE IInv'
  OBVIOUS
<1> USE DEF IInv
<1>1. TypeOK'
  BY RestType DEF TypeOK, ControlOutput, loopVars, commandVars
<1>2. LoopInv' /\ BootInv'
  BY DEF TypeOK, LoopInv, BootInv, ControlOutput, loopVars
<1>3. CommandInv'
  BY DEF TypeOK, CommandInv, ControlOutput, commandVars
<1>4. MotorInv'
  <2>1. driving' # {} => targets # Rest
    BY DEF ControlOutput, Rest
  <2> QED
    BY <2>1 DEF TypeOK, MotorInv, Moving, ControlOutput, commandVars
<1> QED
  BY <1>1, <1>2, <1>3, <1>4
-----------------------------------------------------------------------------
\* loop(): the steps that leave the command alone.
LEMMA PingAgentInv == IInv /\ PingAgent => IInv'
<1> SUFFICES ASSUME IInv, PingAgent PROVE IInv'
  OBVIOUS
<1> USE DEF IInv, PingAgent, taskVars, commandVars
<1>1. TypeOK'
  BY DEF TypeOK
<1>2. LoopInv'
  BY DEF TypeOK, LoopInv
<1>3. CommandInv'
  BY DEF TypeOK, CommandInv
<1>4. MotorInv'
  BY DEF TypeOK, MotorInv, Moving
<1>5. BootInv'
  BY DEF TypeOK, BootInv, LoopInv, PingDue, Elapsed
<1> QED
  BY <1>1, <1>2, <1>3, <1>4, <1>5

LEMMA PingUnansweredInv == IInv /\ PingUnanswered => IInv'
<1> SUFFICES ASSUME IInv, PingUnanswered PROVE IInv'
  OBVIOUS
<1> USE DEF IInv, PingUnanswered, taskVars, commandVars
<1>1. TypeOK'
  BY DEF TypeOK
<1>2. LoopInv'
  BY DEF TypeOK, LoopInv
<1>3. CommandInv'
  BY DEF TypeOK, CommandInv
<1>4. MotorInv'
  BY DEF TypeOK, MotorInv, Moving
<1>5. BootInv'
  BY DEF TypeOK, BootInv, LoopInv, PingDue, Elapsed
<1> QED
  BY <1>1, <1>2, <1>3, <1>4, <1>5

LEMMA PingAnsweredInv == IInv /\ PingAnswered => IInv'
<1> SUFFICES ASSUME IInv, PingAnswered PROVE IInv'
  OBVIOUS
<1> USE DEF IInv, PingAnswered, taskVars, commandVars
<1>1. TypeOK'
  BY DEF TypeOK
<1>2. LoopInv'
  BY DEF TypeOK, LoopInv
<1>3. CommandInv'
  BY DEF TypeOK, CommandInv
<1>4. MotorInv'
  BY DEF TypeOK, MotorInv, Moving
<1>5. BootInv'
  BY DEF TypeOK, BootInv, LoopInv, PingDue, Elapsed
<1> QED
  BY <1>1, <1>2, <1>3, <1>4, <1>5

LEMMA BeginLoopInv == IInv /\ BeginLoop => IInv'
<1> SUFFICES ASSUME IInv, BeginLoop PROVE IInv'
  OBVIOUS
<1> USE DEF IInv, BeginLoop, taskVars, commandVars
<1>1. TypeOK'
  BY DEF TypeOK
<1>2. LoopInv'
  BY DEF TypeOK, LoopInv
<1>3. CommandInv'
  BY DEF TypeOK, CommandInv
<1>4. MotorInv'
  BY DEF TypeOK, MotorInv, Moving
<1>5. BootInv'
  BY DEF TypeOK, BootInv, LoopInv
<1> QED
  BY <1>1, <1>2, <1>3, <1>4, <1>5

LEMMA PingSucceedsInv == IInv /\ PingSucceeds => IInv'
<1> SUFFICES ASSUME IInv, PingSucceeds PROVE IInv'
  OBVIOUS
<1> USE DEF IInv, PingSucceeds, taskVars, commandVars
<1>1. TypeOK'
  BY DEF TypeOK
<1>2. LoopInv'
  BY DEF TypeOK, LoopInv
<1>3. CommandInv'
  BY DEF TypeOK, CommandInv
<1>4. MotorInv'
  BY DEF TypeOK, MotorInv, Moving
<1>5. BootInv'
  BY DEF TypeOK, BootInv, LoopInv
<1> QED
  BY <1>1, <1>2, <1>3, <1>4, <1>5

LEMMA NoCommandInv == IInv /\ NoCommand => IInv'
<1> SUFFICES ASSUME IInv, NoCommand PROVE IInv'
  OBVIOUS
<1> USE DEF IInv, NoCommand, taskVars, commandVars
<1>1. TypeOK'
  BY DEF TypeOK
<1>2. LoopInv'
  BY DEF TypeOK, LoopInv
<1>3. CommandInv'
  BY DEF TypeOK, CommandInv
<1>4. MotorInv'
  BY DEF TypeOK, MotorInv, Moving
<1>5. BootInv'
  BY DEF TypeOK, BootInv, LoopInv
<1> QED
  BY <1>1, <1>2, <1>3, <1>4, <1>5

LEMMA PublishStateInv == IInv /\ PublishState => IInv'
<1> SUFFICES ASSUME IInv, PublishState PROVE IInv'
  OBVIOUS
<1> USE DEF IInv, PublishState, taskVars, commandVars
<1>1. TypeOK'
  BY DEF TypeOK
<1>2. LoopInv'
  BY DEF TypeOK, LoopInv
<1>3. CommandInv'
  BY DEF TypeOK, CommandInv
<1>4. MotorInv'
  BY DEF TypeOK, MotorInv, Moving
<1>5. BootInv'
  BY DEF TypeOK, BootInv, LoopInv
<1> QED
  BY <1>1, <1>2, <1>3, <1>4, <1>5

LEMMA EndLoopInv == IInv /\ EndLoop => IInv'
<1> SUFFICES ASSUME IInv, EndLoop PROVE IInv'
  OBVIOUS
<1> USE DEF IInv, EndLoop, taskVars, commandVars
<1>1. TypeOK'
  BY DEF TypeOK
<1>2. LoopInv'
  BY DEF TypeOK, LoopInv
<1>3. CommandInv'
  BY DEF TypeOK, CommandInv
<1>4. MotorInv'
  BY DEF TypeOK, MotorInv, Moving
<1>5. BootInv'
  BY DEF TypeOK, BootInv, LoopInv
<1> QED
  BY <1>1, <1>2, <1>3, <1>4, <1>5

\* loop(): the steps that open, feed and close a session.
LEMMA CreateSucceedsInv == IInv /\ CreateSucceeds => IInv'
<1> SUFFICES ASSUME IInv, CreateSucceeds PROVE IInv'
  OBVIOUS
<1> USE DEF IInv, CreateSucceeds, taskVars, commandVars
<1>1. TypeOK'
  BY DEF TypeOK
<1>2. LoopInv'
  BY DEF TypeOK, LoopInv
<1>3. CommandInv'
  BY DEF TypeOK, CommandInv, LoopInv
<1>4. MotorInv'
  BY DEF TypeOK, MotorInv, Moving
<1>5. BootInv'
  BY DEF TypeOK, BootInv, LoopInv
<1> QED
  BY <1>1, <1>2, <1>3, <1>4, <1>5

\* Whatever the failure, ending a session withdraws its command.
LEMMA DisconnectInv ==
  ASSUME IInv, Disconnect, entities_ready \/ loop = "create",
         last_ping' \in {last_ping, millis}, last_state' \in {last_state, now}
  PROVE  IInv'
<1> USE DEF IInv, Disconnect, taskVars
<1>1. TypeOK'
  <2>1. /\ target_velocity' \in [Wheel -> Speed] /\ targets' \in [Wheel -> Speed]
        /\ driving' \in SUBSET Wheel
    BY RestType DEF TypeOK
  <2>2. /\ connected' \in BOOLEAN /\ command_valid' \in BOOLEAN
        /\ entities_ready' \in BOOLEAN
    BY DEF TypeOK
  <2>3. /\ millis' \in 0..(Wrap - 1) /\ last_command_ms' \in 0..(Wrap - 1)
        /\ now' \in 0..(Wrap - 1) /\ last_ping' \in 0..(Wrap - 1)
        /\ last_state' \in 0..(Wrap - 1)
    BY DEF TypeOK
  <2>4. /\ controlAge' \in 0..ControlPeriod /\ uptime' \in 0..PingPeriod
        /\ commandAge' \in 0..(CommandTimeout + ControlPeriod)
    BY DEF TypeOK
  <2>5. /\ control' \in {"asleep", "computed"}
        /\ loop' \in {"top", "find", "create", "ping", "spin", "state", "imu"}
    BY DEF TypeOK
  <2> QED
    BY <2>1, <2>2, <2>3, <2>4, <2>5 DEF TypeOK
<1>2. LoopInv'
  BY DEF LoopInv
<1>3. CommandInv'
  BY DEF CommandInv
<1>4. MotorInv'
  BY DEF TypeOK, MotorInv, Moving
<1>5. BootInv'
  <2>1. uptime = PingPeriod
    BY DEF BootInv
  <2> QED
    BY <2>1 DEF BootInv
<1> QED
  BY <1>1, <1>2, <1>3, <1>4, <1>5

LEMMA SessionEndsInv == IInv /\ (CreateFails \/ PingFails \/ LinkFails) => IInv'
<1>1. ASSUME IInv, CreateFails PROVE IInv'
  BY <1>1, DisconnectInv DEF CreateFails
<1>2. ASSUME IInv, PingFails PROVE IInv'
  <2>1. entities_ready
    BY <1>2 DEF PingFails, IInv, LoopInv
  <2> QED
    BY <1>2, <2>1, DisconnectInv DEF PingFails
<1>3. ASSUME IInv, LinkFails PROVE IInv'
  <2>1. entities_ready
    BY <1>3 DEF LinkFails, IInv, LoopInv
  <2> QED
    BY <1>3, <2>1, DisconnectInv DEF LinkFails
<1> QED
  BY <1>1, <1>2, <1>3

LEMMA CommandCallbackInv ==
  ASSUME IInv, NEW m \in Message, CommandCallback(m) PROVE IInv'
<1> USE DEF IInv, CommandCallback, taskVars
<1>1. Acceptable(m) => m \in [Wheel -> Speed]
  BY DEF Message, Acceptable
<1>2. TypeOK'
  <2>1. /\ target_velocity' \in [Wheel -> Speed] /\ targets' \in [Wheel -> Speed]
        /\ driving' \in SUBSET Wheel
    BY <1>1, RestType DEF TypeOK
  <2>2. /\ connected' \in BOOLEAN /\ command_valid' \in BOOLEAN
        /\ entities_ready' \in BOOLEAN
    BY DEF TypeOK
  <2>3. /\ millis' \in 0..(Wrap - 1) /\ last_command_ms' \in 0..(Wrap - 1)
        /\ now' \in 0..(Wrap - 1) /\ last_ping' \in 0..(Wrap - 1)
        /\ last_state' \in 0..(Wrap - 1)
    BY DEF TypeOK
  <2>4. /\ controlAge' \in 0..ControlPeriod /\ uptime' \in 0..PingPeriod
        /\ commandAge' \in 0..(CommandTimeout + ControlPeriod)
    BY DEF TypeOK
  <2>5. /\ control' \in {"asleep", "computed"}
        /\ loop' \in {"top", "find", "create", "ping", "spin", "state", "imu"}
    BY DEF TypeOK
  <2> QED
    BY <2>1, <2>2, <2>3, <2>4, <2>5 DEF TypeOK
<1>3. LoopInv' /\ BootInv'
  BY DEF LoopInv, BootInv
<1>4. CommandInv'
  <2>1. CASE Acceptable(m)
    <3>1. Elapsed(millis, last_command_ms)' = 0
      BY <2>1, ElapsedSelf DEF TypeOK, Elapsed
    <3> QED
      BY <2>1, <3>1 DEF TypeOK, LoopInv, CommandInv
  <2>2. CASE ~Acceptable(m)
    BY <2>2 DEF CommandInv
  <2> QED
    BY <2>1, <2>2
<1>5. MotorInv'
  BY DEF TypeOK, MotorInv, Moving
<1> QED
  BY <1>2, <1>3, <1>4, <1>5

-----------------------------------------------------------------------------
\* The board and time.
LEMMA ResetInv == IInv /\ Reset => IInv'
<1> SUFFICES ASSUME Reset PROVE IInv'
  OBVIOUS
<1> USE DEF Reset
<1>1. TypeOK'
  <2>1. /\ millis' \in 0..(Wrap - 1) /\ last_command_ms' \in 0..(Wrap - 1)
        /\ now' \in 0..(Wrap - 1) /\ last_ping' \in 0..(Wrap - 1)
        /\ last_state' \in 0..(Wrap - 1)
    OBVIOUS
  <2>2. /\ controlAge' \in 0..ControlPeriod /\ uptime' \in 0..PingPeriod
        /\ commandAge' \in 0..(CommandTimeout + ControlPeriod)
    OBVIOUS
  <2>3. /\ connected' \in BOOLEAN /\ command_valid' \in BOOLEAN
        /\ entities_ready' \in BOOLEAN
    OBVIOUS
  <2>4. targets' \in [Wheel -> Speed] /\ target_velocity' \in [Wheel -> Speed]
    BY RestType
  <2>5. /\ control' \in {"asleep", "computed"} /\ driving' \in SUBSET Wheel
        /\ loop' \in {"top", "find", "create", "ping", "spin", "state", "imu"}
    OBVIOUS
  <2> QED
    BY <2>1, <2>2, <2>3, <2>4, <2>5 DEF TypeOK
<1>2. LoopInv' /\ CommandInv' /\ BootInv'
  BY DEF LoopInv, CommandInv, BootInv
<1>3. MotorInv'
  BY DEF MotorInv, Moving
<1> QED
  BY <1>1, <1>2, <1>3 DEF IInv

LEMMA TickInv == IInv /\ Tick => IInv'
<1> SUFFICES ASSUME IInv, Tick PROVE IInv'
  OBVIOUS
<1> USE DEF IInv, Tick, loopVars
<1>1. TypeOK'
  BY DEF TypeOK, UpTo
<1>2. LoopInv'
  BY DEF LoopInv
<1>3. CommandInv'
  <2>1. CASE command_valid
    <3>1. /\ Elapsed(millis, last_command_ms) = commandAge
          /\ commandAge < CommandTimeout + controlAge
          /\ commandAge \in Nat /\ controlAge \in Nat
          /\ millis \in 0..(Wrap - 1) /\ last_command_ms \in 0..(Wrap - 1)
      BY <2>1 DEF TypeOK, CommandInv
    <3>2. /\ commandAge + 1 < CommandTimeout + ControlPeriod
          /\ commandAge + 1 < Wrap
      BY <3>1
    <3>3. commandAge' = commandAge + 1
      BY <3>1, <3>2 DEF UpTo
    <3>4. Elapsed(IF millis = Wrap - 1 THEN 0 ELSE millis + 1, last_command_ms)
            = commandAge + 1
      BY <3>1, <3>2, ElapsedTick
    <3>5. Elapsed(millis, last_command_ms)' = commandAge'
      BY <3>3, <3>4 DEF Elapsed
    <3> QED
      BY <2>1, <3>1, <3>3, <3>5 DEF CommandInv
  <2>2. CASE ~command_valid
    BY <2>2 DEF CommandInv
  <2> QED
    BY <2>1, <2>2
<1>4. MotorInv'
  BY DEF TypeOK, MotorInv, Moving, UpTo
<1>5. BootInv'
  BY DEF TypeOK, BootInv, UpTo
<1> QED
  BY <1>1, <1>2, <1>3, <1>4, <1>5

LEMMA StutterInv == IInv /\ UNCHANGED vars => IInv'
  BY DEF vars, taskVars, commandVars, loopVars, IInv, TypeOK, LoopInv,
         CommandInv, MotorInv, BootInv, Moving, Elapsed

LEMMA NextInv == IInv /\ [Next]_vars => IInv'
<1> SUFFICES ASSUME IInv, [Next]_vars PROVE IInv'
  OBVIOUS
<1>1. CASE Control
  BY <1>1, ControlLockInv, ControlOutputInv DEF Control
<1>2. CASE Loop
  BY <1>2, PingAgentInv, PingUnansweredInv, PingAnsweredInv,
     CreateSucceedsInv, BeginLoopInv, PingSucceedsInv, NoCommandInv, PublishStateInv, EndLoopInv, SessionEndsInv,
     CommandCallbackInv DEF Loop
<1>3. CASE Tick \/ Reset
  BY <1>3, TickInv, ResetInv
<1>4. CASE UNCHANGED vars
  BY <1>4, StutterInv
<1> QED
  BY <1>1, <1>2, <1>3, <1>4 DEF Next

LEMMA Invariance == Spec => []IInv
  BY InitIInv, NextInv, PTL DEF Spec

-----------------------------------------------------------------------------
\* Type correctness: every clock reading stays a value of millis(), and every
\* history counter stays below its bound.
THEOREM TypeCorrect == Spec => []TypeOK
<1>1. IInv => TypeOK
  BY DEF IInv
<1> QED
  BY <1>1, Invariance, PTL

\* The watchdog of controlTask: a motor turns only within COMMAND_TIMEOUT_MS
\* and one control period of the last accepted command.
THEOREM WatchdogCorrect == Spec => []WatchdogStops
<1>1. IInv => WatchdogStops
  BY DEF IInv, TypeOK, MotorInv, WatchdogStops
<1> QED
  BY <1>1, Invariance, PTL

\* Between any two steps of the tasks, a command without a session is gone.
THEOREM SessionCorrect == Spec => []CommandBelongsToSession
<1>1. IInv => CommandBelongsToSession
  BY DEF IInv, LoopInv, CommandInv, CommandBelongsToSession
<1> QED
  BY <1>1, Invariance, PTL

-----------------------------------------------------------------------------
\* The firmware keeps the promise of DriveLease.  TimeLeft is always enough
\* for what the motors are doing, and a session that is told to stop, or ends,
\* falls back to a lease it already had.
StopLeft == IF control = "computed" /\ targets # Rest THEN ControlPeriod + 1
            ELSE IF ~Moving THEN 0
            ELSE IF control = "computed" THEN 1
            ELSE ControlPeriod + 1 - controlAge

TimeLeftInv ==
  /\ TimeLeft \in 0..(CommandTimeout + ControlPeriod)
  /\ StopLeft \in 0..(ControlPeriod + 1)
  /\ StopLeft <= TimeLeft
  /\ Moving => StopLeft > 0
  /\ ~CommandsMotion => TimeLeft = StopLeft

LEMMA TimeLeftBounds == IInv => TimeLeftInv
<1> SUFFICES ASSUME IInv PROVE TimeLeftInv
  OBVIOUS
<1> USE DEF TimeLeftInv
<1>1. /\ commandAge \in 0..(CommandTimeout + ControlPeriod)
      /\ controlAge \in 0..ControlPeriod
      /\ control = "computed" => controlAge = 0
      /\ targets # Rest => commandAge < CommandTimeout
      /\ Moving => commandAge < CommandTimeout +
                    (IF control = "computed" THEN ControlPeriod ELSE controlAge)
  BY DEF IInv, TypeOK, MotorInv
<1>2. StopLeft \in 0..(ControlPeriod + 1) /\ (Moving => StopLeft > 0)
  BY <1>1 DEF StopLeft
<1>3. CASE CommandsMotion
  <2>1. TimeLeft = CommandTimeout + ControlPeriod - commandAge
    BY <1>3 DEF TimeLeft
  <2>2. StopLeft <= CommandTimeout + ControlPeriod - commandAge
    BY <1>1 DEF StopLeft
  <2> QED
    BY <1>1, <1>2, <1>3, <2>1, <2>2
<1>4. CASE ~CommandsMotion
  <2>1. TimeLeft = StopLeft
    BY <1>4 DEF TimeLeft, StopLeft
  <2> QED
    BY <1>2, <1>4, <2>1
<1> QED
  BY <1>3, <1>4

LEMMA TimeLeftBoundsNext == IInv' => TimeLeftInv'
  BY TimeLeftBounds, PTL

LEMMA InitLease == Init => Lease!Init
  BY DEF Init, Lease!Init, TimeLeft, CommandsMotion, Moving

LEMMA ControlLockLease == IInv /\ IInv' /\ ControlLock => Lease!Drive
<1> SUFFICES ASSUME IInv, IInv', ControlLock PROVE Lease!Drive
  OBVIOUS
<1>1. UNCHANGED <<connected, uptime, millis>> /\ Moving' = Moving
  BY DEF ControlLock, Moving
<1>2. TimeLeft' \in 0..TimeLeft
  <2>1. StopLeft = IF Moving THEN 1 ELSE 0
    BY DEF IInv, MotorInv, TypeOK, ControlLock, StopLeft
  <2>2. CASE CommandsMotion'
    <3>1. CommandsMotion /\ commandAge' = commandAge
      BY <2>2 DEF CommandsMotion, ControlLock
    <3>2. TimeLeft' = TimeLeft
      BY <2>2, <3>1 DEF TimeLeft
    <3> QED
      BY <3>2, TimeLeftBounds DEF TimeLeftInv
  <2>3. CASE ~CommandsMotion'
    <3>1. targets' = Rest
      BY <2>3 DEF CommandsMotion, ControlLock, IInv, CommandInv
    <3>2. TimeLeft' = IF Moving THEN 1 ELSE 0
      BY <1>1, <2>3, <3>1 DEF TimeLeft, ControlLock
    <3> QED
      BY <2>1, <3>2, TimeLeftBounds DEF TimeLeftInv
  <2> QED
    BY <2>2, <2>3
<1>3. Moving' => TimeLeft' > 0
  BY TimeLeftBoundsNext DEF TimeLeftInv
<1>4. Moving' \in BOOLEAN
  BY DEF Moving
<1> QED
  BY <1>1, <1>2, <1>3, <1>4 DEF Lease!Drive

LEMMA ControlOutputLease == IInv /\ IInv' /\ ControlOutput => Lease!Drive
<1> SUFFICES ASSUME IInv, IInv', ControlOutput PROVE Lease!Drive
  OBVIOUS
<1>1. UNCHANGED <<connected, uptime, millis>>
  BY DEF ControlOutput
<1>2. TimeLeft' \in 0..TimeLeft
  <2>1. CASE CommandsMotion
    <3>1. CommandsMotion' /\ commandAge' = commandAge
      BY <2>1 DEF CommandsMotion, ControlOutput, commandVars
    <3>2. TimeLeft' = TimeLeft
      BY <2>1, <3>1 DEF TimeLeft
    <3> QED
      BY <3>2, TimeLeftBounds DEF TimeLeftInv
  <2>2. CASE ~CommandsMotion
    <3>1. ~CommandsMotion' /\ control' = "asleep" /\ controlAge' = 0
      BY <2>2 DEF CommandsMotion, ControlOutput, commandVars, IInv, MotorInv
    <3>2. targets = Rest => ~Moving'
      BY DEF ControlOutput, Moving, Rest
    <3>3. TimeLeft' = IF Moving' THEN ControlPeriod + 1 ELSE 0
      BY <3>1 DEF TimeLeft
    <3>4. targets # Rest => TimeLeft = ControlPeriod + 1
      BY <2>2 DEF TimeLeft, ControlOutput
    <3> QED
      BY <3>2, <3>3, <3>4, TimeLeftBounds DEF TimeLeftInv
  <2> QED
    BY <2>1, <2>2
<1>3. Moving' => TimeLeft' > 0
  BY TimeLeftBoundsNext DEF TimeLeftInv
<1>4. Moving' \in BOOLEAN
  BY DEF Moving
<1> QED
  BY <1>1, <1>2, <1>3, <1>4 DEF Lease!Drive

\* A stop, a refused command and the end of a session all withdraw the lease.
LEMMA WithdrawLease ==
  ASSUME IInv, UNCHANGED taskVars, command_valid' = FALSE
  PROVE  Lease!Withdraw /\ Moving' = Moving
<1>1. TimeLeft' = StopLeft /\ Moving' = Moving
  BY DEF TimeLeft, StopLeft, CommandsMotion, taskVars, Moving
<1>2. StopLeft \in 0..Lease!AtMost(TimeLeft, ControlPeriod + 1)
  BY TimeLeftBounds DEF TimeLeftInv, Lease!AtMost
<1> QED
  BY <1>1, <1>2, TimeLeftBounds DEF TimeLeftInv, Lease!Withdraw

LEMMA SessionEndsLease ==
  IInv /\ (CreateFails \/ PingFails \/ LinkFails) => Lease!Close
<1> SUFFICES ASSUME IInv, Disconnect PROVE Lease!Close
  BY DEF CreateFails, PingFails, LinkFails
<1>1. Lease!Withdraw /\ Moving' = Moving
  BY WithdrawLease DEF Disconnect
<1> QED
  BY <1>1 DEF Lease!Close, Disconnect

LEMMA CreateSucceedsLease == IInv /\ CreateSucceeds => Lease!Open
<1> SUFFICES ASSUME IInv, CreateSucceeds PROVE Lease!Open
  OBVIOUS
<1>1. ~connected /\ connected' /\ uptime = PingPeriod
  BY DEF CreateSucceeds, IInv, LoopInv, BootInv
<1>2. ~command_valid /\ ~command_valid'
  BY <1>1 DEF CreateSucceeds, IInv, CommandInv
<1>3. TimeLeft' = TimeLeft /\ Moving' = Moving
  BY <1>2 DEF TimeLeft, CommandsMotion, Moving, CreateSucceeds, taskVars
<1> QED
  BY <1>1, <1>3 DEF Lease!Open, CreateSucceeds

LEMMA CommandCallbackLease ==
  ASSUME IInv, NEW m \in Message, CommandCallback(m)
  PROVE  Lease!Grant \/ Lease!Revoke
<1>1. connected /\ connected' = connected /\ UNCHANGED <<taskVars, millis, uptime>>
  BY DEF CommandCallback, IInv, LoopInv
<1>2. Moving' = Moving
  BY <1>1 DEF taskVars, Moving
<1>3. CASE Acceptable(m) /\ m # Rest
  <2>1. CommandsMotion' /\ commandAge' = 0
    BY <1>3 DEF CommandCallback, CommandsMotion
  <2>2. TimeLeft' = CommandTimeout + ControlPeriod
    BY <2>1 DEF TimeLeft
  <2> QED
    BY <1>1, <1>2, <2>2 DEF Lease!Grant
<1>4. CASE ~(Acceptable(m) /\ m # Rest)
  <2>1. ~CommandsMotion'
    BY <1>4 DEF CommandCallback, CommandsMotion, Rest
  <2>2. TimeLeft' = StopLeft
    BY <1>1, <1>2, <2>1 DEF TimeLeft, StopLeft, taskVars
  <2>3. StopLeft \in 0..Lease!AtMost(TimeLeft, ControlPeriod + 1)
    BY TimeLeftBounds DEF TimeLeftInv, Lease!AtMost
  <2>4. Lease!Withdraw
    BY <2>2, <2>3, TimeLeftBounds DEF TimeLeftInv, Lease!Withdraw
  <2> QED
    BY <1>1, <1>2, <2>4 DEF Lease!Revoke
<1> QED
  BY <1>3, <1>4

LEMMA TickLease == IInv /\ Tick => Lease!Tick
<1> SUFFICES ASSUME IInv, Tick PROVE Lease!Tick
  OBVIOUS
<1>1. /\ control = "asleep" /\ control' = "asleep" /\ targets = Rest
      /\ controlAge \in 0..(ControlPeriod - 1) /\ controlAge' = controlAge + 1
      /\ commandAge \in 0..(CommandTimeout + ControlPeriod)
      /\ UNCHANGED <<connected, targets>> /\ Moving' = Moving
      /\ CommandsMotion' = CommandsMotion
  BY DEF Tick, IInv, TypeOK, MotorInv, Moving, CommandsMotion
<1>2. /\ uptime' = Lease!AtMost(uptime + 1, PingPeriod)
      /\ millis' = IF millis = Wrap - 1 THEN 0 ELSE millis + 1
  BY DEF Tick, UpTo, Lease!AtMost
<1>3. /\ Moving => TimeLeft > 1
      /\ TimeLeft' = IF TimeLeft > 0 THEN TimeLeft - 1 ELSE 0
  <2>1. CASE CommandsMotion
    <3>1. commandAge < CommandTimeout + controlAge
      BY <2>1 DEF CommandsMotion, IInv, CommandInv
    <3>2. commandAge' = commandAge + 1
      BY <1>1, <3>1 DEF Tick, UpTo
    <3> QED
      BY <1>1, <2>1, <3>1, <3>2 DEF TimeLeft
  <2>2. CASE ~CommandsMotion
    <3>1. TimeLeft = IF Moving THEN ControlPeriod + 1 - controlAge ELSE 0
      BY <1>1, <2>2 DEF TimeLeft
    <3>2. TimeLeft' = IF Moving THEN ControlPeriod - controlAge ELSE 0
      BY <1>1, <2>2 DEF TimeLeft
    <3> QED
      BY <1>1, <3>1, <3>2
  <2> QED
    BY <2>1, <2>2
<1> QED
  BY <1>1, <1>2, <1>3 DEF Lease!Tick

LEMMA ResetLease == Reset => Lease!Reset
  BY DEF Reset, Lease!Reset, TimeLeft, CommandsMotion, Moving

\* Every other step of loop() leaves what the motors depend on alone.
LEMMA IdleLease ==
  ASSUME UNCHANGED <<millis, taskVars, connected, commandVars, uptime>>
  PROVE  UNCHANGED Lease!vars
  BY DEF taskVars, commandVars, Lease!vars, TimeLeft, CommandsMotion, Moving

LEMMA NextLease == IInv /\ IInv' /\ [Next]_vars => [Lease!Next]_Lease!vars
<1> SUFFICES ASSUME IInv, IInv', [Next]_vars PROVE Lease!Next \/ UNCHANGED Lease!vars
  OBVIOUS
<1> USE DEF Lease!Next
<1>1. CASE Control
  BY <1>1, ControlLockLease, ControlOutputLease DEF Control
<1>2. CASE CreateFails \/ PingFails \/ LinkFails
  BY <1>2, SessionEndsLease
<1>3. CASE PingAgent \/ PingUnanswered \/ PingAnswered \/ BeginLoop
             \/ PingSucceeds \/ NoCommand \/ PublishState \/ EndLoop
             \/ UNCHANGED vars
  <2>1. UNCHANGED <<millis, taskVars, connected, commandVars, uptime>>
    BY <1>3 DEF PingAgent, PingUnanswered, PingAnswered, BeginLoop,
       PingSucceeds, NoCommand, PublishState, EndLoop, vars
  <2> QED
    BY <2>1, IdleLease
<1>4. CASE \E m \in Message : CommandCallback(m)
  BY <1>4, CommandCallbackLease
<1>5. CASE CreateSucceeds \/ Tick \/ Reset
  BY <1>5, CreateSucceedsLease, TickLease, ResetLease
<1> QED
  BY <1>1, <1>2, <1>3, <1>4, <1>5 DEF Next, Loop

\* Whoever sends commands to the board may reason about DriveLease alone: the
\* two tasks, the sessions and the wrapping clock never break its promise.
THEOREM LeaseCorrect == Spec => LeaseKept
<1>1. IInv /\ IInv' /\ [Next]_vars => [Lease!Next]_Lease!vars
  BY NextLease
<1> QED
  BY <1>1, InitLease, Invariance, PTL DEF Spec, LeaseKept, Lease!Spec

-----------------------------------------------------------------------------
(***************************************************************************)
(* The session with the agent, entity by entity.                           *)
(***************************************************************************)

\* What createEntities has built after n calls.
Created(n) == {CreateOrder[i] : i \in 1..n}

\* A handle's flag is set exactly while it holds an entity, and everything
\* alive has what it uses.  createEntities works through its list; while
\* destroyEntities is under way loop() waits and the entities are given up; at
\* all other times there are all of them or none.
EntityInv ==
  /\ live = ready /\ ready \subseteq Handle /\ lost = {}
  /\ \A h \in ready : Uses(h) \subseteq ready
  /\ attached => "executor" \in ready
  /\ loop = "create" => ~closing /\ \E n \in 0..Entities : ready = Created(n)
  /\ loop = "create" /\ attached => ready = Handle
  /\ closing => loop = "top" /\ ~entities_ready
  /\ Idle /\ entities_ready => ready = Handle /\ attached
  /\ Idle /\ ~entities_ready => ready = {}

LEMMA OrderFacts ==
  /\ Entities = 7
  /\ CreateOrder[1] = "support" /\ CreateOrder[2] = "node" /\ CreateOrder[3] = "sub"
  /\ CreateOrder[4] = "state_pub" /\ CreateOrder[5] = "imu_pub"
  /\ CreateOrder[6] = "battery_pub" /\ CreateOrder[7] = "executor"
  /\ DOMAIN CreateOrder = 1..7
  BY DEF CreateOrder, Entities

LEMMA HandleFacts ==
  Handle = {"support", "node", "sub", "state_pub", "imu_pub", "battery_pub", "executor"}
<1>1. DOMAIN CreateOrder = 1..7
  BY OrderFacts
<1>2. \A i \in 1..7 : \/ i = 1 \/ i = 2 \/ i = 3 \/ i = 4 \/ i = 5 \/ i = 6 \/ i = 7
  OBVIOUS
<1> QED
  BY <1>1, <1>2, OrderFacts DEF Handle

LEMMA OrderDistinct ==
  \A i, j \in 1..7 : CreateOrder[i] = CreateOrder[j] => i = j
<1>1. \A i \in 1..7 : \/ i = 1 \/ i = 2 \/ i = 3 \/ i = 4 \/ i = 5 \/ i = 6 \/ i = 7
  OBVIOUS
<1> QED
  BY <1>1, OrderFacts

\* One more call of createEntities adds one handle.
LEMMA CreatedGrows ==
  ASSUME NEW n \in 0..6, IsFiniteSet(Created(n)), Cardinality(Created(n)) = n
  PROVE  /\ Created(n + 1) = Created(n) \cup {CreateOrder[n + 1]}
         /\ IsFiniteSet(Created(n + 1)) /\ Cardinality(Created(n + 1)) = n + 1
<1>1. \A i : i \in 1..(n + 1) <=> i \in 1..n \/ i = n + 1
  OBVIOUS
<1>2. Created(n + 1) = Created(n) \cup {CreateOrder[n + 1]}
  BY <1>1 DEF Created
<1>3. CreateOrder[n + 1] \notin Created(n)
  BY OrderDistinct DEF Created
<1> QED
  BY <1>2, <1>3, FS_AddElement

\* The number of flags set tells how far createEntities has come.
LEMMA CreatedSize ==
  \A n \in 0..7 : IsFiniteSet(Created(n)) /\ Cardinality(Created(n)) = n
<1> DEFINE P(n) == IsFiniteSet(Created(n)) /\ Cardinality(Created(n)) = n
<1>1. P(0)
  <2>1. Created(0) = {}
    BY DEF Created
  <2> QED
    BY <2>1, FS_EmptySet
<1>2. \A n \in 0..6 : P(n) => P(n + 1)
  BY CreatedGrows
<1> HIDE DEF P
<1>3. P(1) /\ P(2)
  BY <1>1, <1>2
<1>4. P(3) /\ P(4)
  BY <1>2, <1>3
<1>5. P(5) /\ P(6)
  BY <1>2, <1>4
<1>6. P(7)
  BY <1>2, <1>5
<1>7. \A n \in 0..7 : P(n)
  BY <1>1, <1>3, <1>4, <1>5, <1>6
<1> QED
  BY <1>7 DEF P

LEMMA UsesCases ==
  /\ Uses("support") = {} /\ Uses("node") = {"support"}
  /\ attached => Uses("executor") = {"support", "sub"}
  /\ ~attached => Uses("executor") = {"support"}
  /\ \A h \in {"sub", "state_pub", "imu_pub", "battery_pub"} : Uses(h) = {"node"}
  BY DEF Uses

\* Everything alive has what it uses, handle by handle.
Supported(held, subscribed) ==
  /\ "node" \in held \/ "executor" \in held => "support" \in held
  /\ \A h \in {"sub", "state_pub", "imu_pub", "battery_pub"} :
       h \in held => "node" \in held
  /\ "executor" \in held /\ subscribed => "sub" \in held

LEMMA SupportedIsUses ==
  ready \subseteq Handle =>
    ((\A h \in ready : Uses(h) \subseteq ready) <=> Supported(ready, attached))
  BY HandleFacts, UsesCases DEF Supported

LEMMA SupportedIsUsesNext ==
  ready' \subseteq Handle =>
    ((\A h \in ready' : Uses(h)' \subseteq ready') <=> Supported(ready', attached'))
<1>1. (ready \subseteq Handle =>
        ((\A h \in ready : Uses(h) \subseteq ready) <=> Supported(ready, attached)))'
  BY SupportedIsUses, PTL
<1>2. Handle' = Handle
  BY DEF Handle, CreateOrder
<1> QED
  BY <1>1, <1>2 DEF Supported

\* createEntities works in an order in which each entity finds what it uses.
LEMMA CreatedSupported ==
  ASSUME NEW n \in 0..7, NEW subscribed \in BOOLEAN, subscribed => n = 7
  PROVE  Supported(Created(n), subscribed)
<1>1. \A i, j \in 1..7 : i < j /\ CreateOrder[j] \in Created(n) => CreateOrder[i] \in Created(n)
  BY OrderDistinct DEF Created
<1>2. subscribed => CreateOrder[3] \in Created(n)
  BY DEF Created
<1>3. /\ "node" \in Created(n) \/ "executor" \in Created(n) => "support" \in Created(n)
      /\ "sub" \in Created(n) \/ "state_pub" \in Created(n) \/ "imu_pub" \in Created(n)
           \/ "battery_pub" \in Created(n) => "node" \in Created(n)
  <2>1. \A i, j \in 1..7 : i < j /\ CreateOrder[j] \in Created(n) => CreateOrder[i] \in Created(n)
    BY <1>1
  <2> HIDE DEF Created
  <2>2. CreateOrder[2] \in Created(n) \/ CreateOrder[7] \in Created(n)
          => CreateOrder[1] \in Created(n)
    BY <2>1
  <2>3. \A j \in 3..6 : CreateOrder[j] \in Created(n) => CreateOrder[2] \in Created(n)
    BY <2>1
  <2> QED
    BY <2>2, <2>3, OrderFacts
<1> QED
  BY <1>2, <1>3, OrderFacts DEF Supported

LEMMA InitEntity == SessionInit => EntityInv
  BY DEF SessionInit, Init, EntityInv, Idle

\* loop() goes on while the entities are left alone.
LEMMA LoopStepEntity == IInv /\ EntityInv /\ LoopStep => EntityInv'
<1> SUFFICES ASSUME IInv, EntityInv, LoopStep PROVE EntityInv'
  OBVIOUS
<1>1. /\ UNCHANGED <<live, ready, attached, closing, lost>>
      /\ Idle /\ ~closing
  BY DEF LoopStep, Idle, sessionVars
<1>2. loop' # "create" /\ (entities_ready' <=> entities_ready)
  BY DEF LoopStep, PingAgent, PingUnanswered, BeginLoop, PingSucceeds, CommandCallback,
     NoCommand, PublishState, EndLoop
<1>3. \A h \in ready : Uses(h)' = Uses(h)
  BY <1>1 DEF Uses
<1> QED
  BY <1>1, <1>2, <1>3 DEF EntityInv, Idle

\* Every handle is zeroed, and none held an entity.
LEMMA BeginCreateEntity ==
  ASSUME IInv, EntityInv, NEW fails, BeginCreate(fails) PROVE EntityInv'
<1>1. /\ Idle /\ loop = "find" /\ loop' = "create"
      /\ live' = {} /\ lost' = lost \cup live /\ ~attached'
      /\ UNCHANGED <<ready, closing>>
  BY DEF BeginCreate, PingAnswered
<1>2. ~entities_ready
  BY <1>1 DEF IInv, LoopInv
<1>3. ready = {} /\ live = {} /\ lost = {} /\ ~closing
  BY <1>1, <1>2 DEF EntityInv, Idle
<1>4. {} = Created(0) /\ 0 \in 0..Entities
  BY OrderFacts DEF Created
<1> QED
  BY <1>1, <1>3, <1>4 DEF EntityInv, Idle

LEMMA CreateEntityEntity ==
  ASSUME IInv, EntityInv, CreateEntity PROVE EntityInv'
<1> DEFINE h == CreateOrder[Built + 1]
<1>1. /\ loop = "create" /\ loop' = "create" /\ Built < Entities
      /\ live' = live \cup {h} /\ ready' = ready \cup {h}
      /\ UNCHANGED <<attached, closing, lost>>
  BY DEF CreateEntity, vars, loopVars
<1>2. PICK n \in 0..7 : ready = Created(n)
  BY <1>1, OrderFacts DEF EntityInv
<1>3. Built = n /\ n \in 0..6
  BY <1>1, <1>2, CreatedSize, OrderFacts DEF Built
<1>4. ready' = Created(n + 1) /\ n + 1 \in 0..7
  BY <1>1, <1>2, <1>3, CreatedGrows, CreatedSize
<1>5. ~attached
  <2>1. Handle = Created(7)
    BY OrderFacts DEF Handle, Created
  <2>2. Cardinality(Handle) = 7
    BY <2>1, CreatedSize
  <2> QED
    BY <1>1, <1>3, <2>2 DEF EntityInv, Built
<1>6. ready' \subseteq Handle
  BY <1>4, OrderFacts DEF Handle, Created
<1>7. \A g \in ready' : Uses(g)' \subseteq ready'
  <2>1. Supported(ready', FALSE)
    BY <1>4, CreatedSupported
  <2>2. Supported(ready', attached')
    BY <1>1, <1>5, <2>1 DEF Supported
  <2> QED
    BY <1>6, <2>2, SupportedIsUsesNext
<1>8. \E m \in 0..Entities : ready' = Created(m)
  BY <1>4, OrderFacts
<1>9. live' = ready' /\ lost' = {} /\ ~closing' /\ ~attached'
  BY <1>1, <1>5 DEF EntityInv
<1> QED
  BY <1>1, <1>6, <1>7, <1>8, <1>9 DEF EntityInv, Idle

LEMMA AddSubscriptionEntity ==
  ASSUME IInv, EntityInv, AddSubscription PROVE EntityInv'
<1>1. /\ loop = "create" /\ loop' = "create" /\ Built = Entities /\ attached'
      /\ UNCHANGED <<live, ready, closing, lost>>
  BY DEF AddSubscription, vars, loopVars
<1>2. PICK n \in 0..7 : ready = Created(n)
  BY <1>1, OrderFacts DEF EntityInv
<1>3. n = 7
  BY <1>1, <1>2, CreatedSize, OrderFacts DEF Built
<1>4. ready = Handle
  BY <1>2, <1>3, OrderFacts DEF Handle, Created
<1>5. \A h \in ready' : Uses(h)' \subseteq ready'
  <2>1. Supported(ready', TRUE)
    BY <1>1, <1>4, HandleFacts DEF Supported
  <2> QED
    BY <1>1, <1>4, <2>1, SupportedIsUsesNext DEF Supported
<1> QED
  BY <1>1, <1>4, <1>5, HandleFacts DEF EntityInv, Idle

LEMMA FinishCreateEntity ==
  ASSUME IInv, EntityInv, FinishCreate PROVE EntityInv'
<1>1. /\ loop = "create" /\ loop' = "top" /\ entities_ready' /\ attached
      /\ UNCHANGED <<live, ready, attached, closing, lost>>
  BY DEF FinishCreate, CreateSucceeds, sessionVars
<1>2. ready = Handle /\ ~closing
  BY <1>1 DEF EntityInv
<1>3. \A h \in ready : Uses(h)' = Uses(h)
  BY <1>1 DEF Uses
<1> QED
  BY <1>1, <1>2, <1>3 DEF EntityInv, Idle

\* A creation that failed, or a session that is lost, is left to
\* destroyEntities as it stands.
LEMMA BeginDestroyEntity ==
  ASSUME IInv, EntityInv, FailCreate \/ LoseSession PROVE EntityInv'
<1>1. /\ closing' /\ UNCHANGED <<live, ready, attached, lost>>
      /\ loop' = "top" /\ ~entities_ready'
  BY DEF FailCreate, LoseSession, BeginDestroy, CreateFails, PingFails, LinkFails,
     Disconnect
<1>2. \A h \in ready : Uses(h)' = Uses(h)
  BY <1>1 DEF Uses
<1> QED
  BY <1>1, <1>2 DEF EntityInv, Idle

LEMMA DestroyFacts ==
  /\ DOMAIN DestroyOrder = 1..7
  /\ DestroyOrder[1] = "executor" /\ DestroyOrder[2] = "sub"
  /\ DestroyOrder[3] = "state_pub" /\ DestroyOrder[4] = "battery_pub"
  /\ DestroyOrder[5] = "imu_pub" /\ DestroyOrder[6] = "node"
  /\ DestroyOrder[7] = "support"
  BY DEF DestroyOrder

\* The next handle destroyEntities releases: nothing before it in the list is
\* left.
LEMMA FirstToDestroy ==
  ASSUME \E i \in DOMAIN DestroyOrder : DestroyOrder[i] \in ready
  PROVE  \E first \in 1..7 :
           /\ first = Min({i \in DOMAIN DestroyOrder : DestroyOrder[i] \in ready})
           /\ DestroyOrder[first] \in ready
           /\ \A i \in 1..7 : i < first => DestroyOrder[i] \notin ready
<1> DEFINE Left == {i \in DOMAIN DestroyOrder : DestroyOrder[i] \in ready}
           Q(i) == DestroyOrder[i] \in ready
<1>1. DOMAIN DestroyOrder = 1..7
  BY DestroyFacts
<1>2. \E i \in 1..7 : Q(i)
  BY <1>1
<1>3. \A i \in 1..7 : i \in Left <=> Q(i)
  BY <1>1
<1>4. \A x \in Left : x \in 1..7
  BY <1>1
<1> HIDE DEF Left, Q
<1>5. \E x \in 1..7 : Q(x) /\ \A i \in 1..7 : i < x => ~Q(i)
  <2>1. CASE Q(1) \/ Q(2) \/ Q(3)
    <3>1. \A i \in 1..7 : /\ ~(i < 1) /\ (i < 2 => i = 1) /\ (i < 3 => i = 1 \/ i = 2)
      OBVIOUS
    <3>2. 1 \in 1..7 /\ 2 \in 1..7 /\ 3 \in 1..7
      OBVIOUS
    <3> QED
      BY <2>1, <3>1, <3>2
  <2>2. CASE ~Q(1) /\ ~Q(2) /\ ~Q(3)
    <3>1. \A i \in 1..7 :
            /\ i < 4 => i \in {1, 2, 3}
            /\ i < 5 => i \in {1, 2, 3, 4}
            /\ i < 6 => i \in {1, 2, 3, 4, 5}
            /\ i < 7 => i \in {1, 2, 3, 4, 5, 6}
            /\ i \in {1, 2, 3, 4, 5, 6, 7}
      OBVIOUS
    <3>2. \A i \in {1, 2, 3, 4, 5, 6, 7} : i \in 1..7
      OBVIOUS
    <3> QED
      BY <1>2, <2>2, <3>1, <3>2
  <2> QED
    BY <2>1, <2>2
<1>6. PICK x \in 1..7 : Q(x) /\ \A i \in 1..7 : i < x => ~Q(i)
  BY <1>5
<1>7. x \in Left /\ \A y \in Left : x <= y
  BY <1>3, <1>4, <1>6
<1>8. \A z \in Left : (\A y \in Left : z <= y) => z = x
  BY <1>4, <1>7
<1>9. Min(Left) = x
  BY <1>7, <1>8 DEF Min
<1> QED
  BY <1>6, <1>9 DEF Left, Q

\* Whatever is left of a session, destroyEntities releases nothing that is
\* still used, and leaves nothing behind.
LEMMA DestroyEntityEntity ==
  ASSUME IInv, EntityInv, DestroyEntity PROVE EntityInv'
<1>1. /\ closing /\ loop = "top" /\ loop' = "top" /\ ~entities_ready'
      /\ UNCHANGED lost
  BY DEF DestroyEntity, vars, loopVars, EntityInv
<1>2. CASE \E i \in DOMAIN DestroyOrder : DestroyOrder[i] \in ready
  <2>1. PICK first \in 1..7 :
           /\ first = Min({i \in DOMAIN DestroyOrder : DestroyOrder[i] \in ready})
           /\ DestroyOrder[first] \in ready
           /\ \A i \in 1..7 : i < first => DestroyOrder[i] \notin ready
    BY <1>2, FirstToDestroy
  <2> DEFINE h == DestroyOrder[first]
  <2>2. /\ live' = live \ {h} /\ ready' = ready \ {h} /\ closing'
    BY <1>1, <1>2, <2>1 DEF DestroyEntity
  <2>3. attached' <=> attached /\ h # "executor"
    BY <1>1, <1>2, <2>1 DEF DestroyEntity
  <2>4. Supported(ready, attached) /\ (attached => "executor" \in ready)
        /\ ready \subseteq Handle
    BY SupportedIsUses DEF EntityInv
  <2>5. Supported(ready', attached')
    <3>1. /\ h = "sub" => "executor" \notin ready
          /\ h = "node" \/ h = "support" =>
               /\ "executor" \notin ready /\ "sub" \notin ready
               /\ "state_pub" \notin ready /\ "imu_pub" \notin ready
               /\ "battery_pub" \notin ready
          /\ h = "support" => "node" \notin ready
      <4>1. /\ first > 1 => "executor" \notin ready
            /\ first > 2 => "sub" \notin ready
            /\ first > 3 => "state_pub" \notin ready
            /\ first > 4 => "battery_pub" \notin ready
            /\ first > 5 => "imu_pub" \notin ready
            /\ first > 6 => "node" \notin ready
        BY <2>1, DestroyFacts
      <4>2. first \in {1, 2, 3, 4, 5, 6, 7}
        OBVIOUS
      <4>3. (h = "sub" => first = 2) /\ (h = "node" => first = 6)
            /\ (h = "support" => first = 7)
        BY <4>2, DestroyFacts
      <4> QED
        BY <4>1, <4>3
    <3>2. "executor" \in ready' /\ attached' => "executor" \in ready /\ attached
      BY <2>2, <2>3
    <3> QED
      BY <2>2, <2>4, <3>1, <3>2 DEF Supported
  <2>6. \A g \in ready' : Uses(g)' \subseteq ready'
    BY <2>2, <2>4, <2>5, SupportedIsUsesNext
  <2>7. attached' => "executor" \in ready'
    BY <2>2, <2>3, <2>4
  <2> QED
    BY <1>1, <2>2, <2>4, <2>6, <2>7 DEF EntityInv, Idle
<1>3. CASE ~ \E i \in DOMAIN DestroyOrder : DestroyOrder[i] \in ready
  <2>1. UNCHANGED <<live, ready, attached>> /\ ~closing'
    BY <1>3 DEF DestroyEntity
  <2>2. ready = {}
    <3>1. \A h \in Handle : \E i \in 1..7 : DestroyOrder[i] = h
      BY HandleFacts, DestroyFacts
    <3> QED
      BY <1>3, <3>1, DestroyFacts DEF EntityInv
  <2> QED
    BY <1>1, <2>1, <2>2 DEF EntityInv, Idle
<1> QED
  BY <1>2, <1>3

LEMMA EntityFrame ==
  ASSUME EntityInv, UNCHANGED <<live, ready, attached, closing, lost, loop, entities_ready>>
  PROVE  EntityInv'
<1>1. \A h \in ready : Uses(h)' = Uses(h)
  BY DEF Uses
<1> QED
  BY <1>1 DEF EntityInv, Idle

LEMMA SessionResetEntity ==
  ASSUME EntityInv, SessionReset PROVE EntityInv'
<1>1. /\ live' = {} /\ ready' = {} /\ ~attached' /\ ~closing' /\ lost' = lost
      /\ loop' = "top" /\ ~entities_ready'
  BY DEF SessionReset, Reset
<1> QED
  BY <1>1 DEF EntityInv, Idle

\* Every step of the session is a step of McuFirmware, or none of its business.
LEMMA SessionStep == [SessionNext]_allVars => [Next]_vars
<1> SUFFICES ASSUME [SessionNext]_allVars PROVE [Next]_vars
  OBVIOUS
<1>1. CASE LoopStep
  BY <1>1 DEF LoopStep, Next, Loop
<1>2. CASE Begin
  BY <1>2 DEF Begin, BeginCreate, Next, Loop
<1>3. CASE Create
  BY <1>3 DEF Create, CreateEntity, AddSubscription, FinishCreate, FailCreate, Next, Loop
<1>4. CASE LoseSession
  BY <1>4 DEF LoseSession, Next, Loop
<1>5. CASE DestroyEntity
  BY <1>5 DEF DestroyEntity
<1>6. CASE (Control \/ Tick) /\ UNCHANGED sessionVars
  BY <1>6 DEF Next
<1>7. CASE SessionReset
  BY <1>7 DEF SessionReset, Next
<1>8. CASE UNCHANGED allVars
  BY <1>8 DEF allVars
<1> QED
  BY <1>1, <1>2, <1>3, <1>4, <1>5, <1>6, <1>7, <1>8 DEF SessionNext

LEMMA NextEntity == IInv /\ EntityInv /\ [SessionNext]_allVars => EntityInv'
<1> SUFFICES ASSUME IInv, EntityInv, [SessionNext]_allVars PROVE EntityInv'
  OBVIOUS
<1>1. CASE LoopStep \/ Begin
  BY <1>1, LoopStepEntity, BeginCreateEntity DEF Begin
<1>2. CASE Create \/ LoseSession
  BY <1>2, CreateEntityEntity, AddSubscriptionEntity, FinishCreateEntity,
     BeginDestroyEntity DEF Create
<1>3. CASE DestroyEntity \/ SessionReset
  BY <1>3, DestroyEntityEntity, SessionResetEntity
<1>4. CASE (Control \/ Tick) /\ UNCHANGED sessionVars
  <2>1. UNCHANGED <<live, ready, attached, closing, lost, loop, entities_ready>>
    BY <1>4 DEF Control, ControlLock, ControlOutput, Tick, loopVars, sessionVars
  <2> QED
    BY <2>1, EntityFrame
<1>5. CASE UNCHANGED allVars
  <2>1. UNCHANGED <<live, ready, attached, closing, lost, loop, entities_ready>>
    BY <1>5 DEF allVars, vars, loopVars, sessionVars
  <2> QED
    BY <2>1, EntityFrame
<1> QED
  BY <1>1, <1>2, <1>3, <1>4, <1>5 DEF SessionNext

-----------------------------------------------------------------------------
\* Taken call by call, with the entities that are created and released, the
\* session is still the firmware of McuFirmware: the watchdog, the agreement of
\* the two tasks and the lease hold in it as well.
THEOREM SessionIsFirmware == SessionSpec => Spec
<1>1. SessionInit => Init
  BY DEF SessionInit
<1> QED
  BY <1>1, SessionStep, PTL DEF SessionSpec, Spec

LEMMA SessionInvariance == SessionSpec => [](IInv /\ EntityInv)
<1>1. SessionInit => IInv /\ EntityInv
  BY InitIInv, InitEntity DEF SessionInit
<1>2. IInv /\ EntityInv /\ [SessionNext]_allVars => (IInv /\ EntityInv)'
  BY NextInv, SessionStep, NextEntity
<1> QED
  BY <1>1, <1>2, PTL DEF SessionSpec

\* Whichever of the calls of createEntities failed, or lost the session, no
\* handle is zeroed by the next attempt while it holds an entity.
THEOREM NothingLeaksAlways == SessionSpec => []NothingLeaks
<1>1. EntityInv => NothingLeaks
  BY DEF EntityInv, NothingLeaks
<1> QED
  BY <1>1, SessionInvariance, PTL

\* No entity outlives what it uses while sessions are opened, fail half way and
\* are closed, and loop() works only with all of them.
THEOREM EntitiesLiveAlways == SessionSpec => []EntitiesLive
<1>1. IInv /\ EntityInv => EntitiesLive
  BY DEF EntityInv, EntitiesLive, IInv, LoopInv
<1> QED
  BY <1>1, SessionInvariance, PTL

\* The board keeps the promise of DriveLease through every call of a session.
THEOREM SessionKeepsLease == SessionSpec => LeaseKept
  BY SessionIsFirmware, LeaseCorrect
=============================================================================
