-------------------------- MODULE DriveLink_proofs --------------------------
(***************************************************************************)
(* Theorems about the hardware plugin, for any number of wheels, any       *)
(* speeds and positions, and any timeouts; and about the plugin and the    *)
(* board together, for any delay of the link and any lease, any number of  *)
(* resets, restarts and samples under way: end to end, from a controller   *)
(* to a motor and from the wheels back to the odometry.                    *)
(***************************************************************************)
EXTENDS DriveLink, TLAPS

(***************************************************************************)
(* The plugin.                                                             *)
(***************************************************************************)
USE SpeedAssumption, PositionAssumption, TimeoutAssumption, JumpAssumption

\* Where a lifecycle call can be, and what the plugin is meanwhile.
PhaseInv ==
  /\ active => lifecycle = "active" /\ received_state
  /\ call \in {"activate", "final", "join"} => ~active
  /\ call = "activate" => lifecycle = "inactive" /\ goal = "active"
  /\ call \in {"stop", "final"} => goal # "active"
  /\ call \in {"stop", "final"} /\ goal = "inactive"
       => lifecycle \in {"inactive", "active"}
  /\ call = "join" => goal \in {"unconfigured", "finalized"}
  /\ lifecycle = "active" /\ call = "idle" => active
  /\ lifecycle \in {"inactive", "active"} => executor # "none"
  /\ lifecycle \in {"unconfigured", "finalized"} => executor = "none"

\* Once the final zero is out, no thread has anything but zero to publish.
StopInv == stopSent => ~active /\ published = Zero

\* Both copies of the command start from rest and are filled by a controller.
CommandInv == active /\ (commands # Zero \/ hw_commands # Zero) => updated

\* Both what the controllers read and, without a fault, what they would read
\* next lie within reach: the position that jumps is stored, but never shown.
OdometryInv ==
  active => /\ \A w \in Wheel : Distance(hw_positions[w], 0) <= reach
            /\ ~fault => \A w \in Wheel :
                 Distance(positions[w], position_offsets[w]) <= reach

IInv == TypeOK /\ PhaseInv /\ StopInv /\ CommandInv /\ OdometryInv

-----------------------------------------------------------------------------
LEMMA ZeroType == /\ Zero \in Command
                  /\ Zero \in [Wheel -> Position]
                  /\ Zero \in [Wheel -> Speed \cup {NotFinite}]
                  /\ Zero \in [Wheel -> Int]
  BY DEF Zero, Command

LEMMA DistanceNat == \A a, b \in Int : Distance(a, b) \in Nat
  BY DEF Distance

LEMMA DistanceTriangle ==
  \A a, b, c \in Int : Distance(a, c) <= Distance(a, b) + Distance(b, c)
  BY DEF Distance

LEMMA DistanceShift == \A a, b \in Int : Distance(a - b, 0) = Distance(a, b)
  BY DEF Distance

LEMMA DistanceWithinReach == \A p, q \in Position : Distance(p, q) <= MaxReach
  BY DEF Distance

LEMMA PositionsInt ==
  ASSUME TypeOK
  PROVE  \A w \in Wheel : /\ positions[w] \in Int
                         /\ position_offsets[w] \in Int
                         /\ hw_positions[w] \in Int
  BY DEF TypeOK

-----------------------------------------------------------------------------
\* Each step keeps the types.
LEMMA TypeStep == TypeOK /\ [Next]_vars => TypeOK'
<1> SUFFICES ASSUME TypeOK, [Next]_vars PROVE TypeOK'
  OBVIOUS
<1> USE DEF TypeOK, Command, callVars, flagVars, positionVars, ageVars
<1>1. CASE Configure
  BY <1>1, ZeroType DEF Configure
<1>2. CASE BeginActivate
  BY <1>2, ZeroType DEF BeginActivate
<1>3. CASE Activate
  <2>1. /\ lifecycle' \in {"unconfigured", "inactive", "active", "finalized"}
        /\ call' = "idle" /\ UNCHANGED <<goal, executor>>
    BY <1>3 DEF Activate
  <2>2. /\ waitAge' \in 0..StartupTimeout /\ reach' \in 0..MaxReach
        /\ stateAge' \in 0..(StateTimeout + 1)
        /\ commandAge' \in 0..(CommandTimeout + 1)
    BY <1>3 DEF Activate
  <2>3. /\ received_state' \in BOOLEAN /\ active' \in BOOLEAN /\ fault' \in BOOLEAN
        /\ updated' \in BOOLEAN /\ stopSent' \in BOOLEAN
    BY <1>3 DEF Activate
  <2>4. /\ commands' \in Command /\ published' \in Command
        /\ hw_commands' \in [Wheel -> Speed \cup {NotFinite}]
        /\ positions' \in [Wheel -> Position]
        /\ position_offsets' \in [Wheel -> Position]
        /\ hw_positions' \in [Wheel -> Int]
    BY <1>3, ZeroType DEF Activate
  <2> QED
    BY <2>1, <2>2, <2>3, <2>4
<1>4. CASE ActivateFails
  BY <1>4, ZeroType DEF ActivateFails, EnterError
<1>5. CASE Deactivate
  BY <1>5, ZeroType DEF Deactivate, RequestStop
<1>6. CASE Cleanup
  BY <1>6, ZeroType DEF Cleanup, RequestStop
<1>7. CASE Shutdown
  BY <1>7, ZeroType DEF Shutdown, RequestStop
<1>8. CASE StopMotion
  BY <1>8, ZeroType DEF StopMotion
<1>9. CASE FinalStop
  BY <1>9, ZeroType DEF FinalStop, EndStop, Publish
<1>10. CASE FinalStopLost
  BY <1>10, ZeroType DEF FinalStopLost, EndStop
<1>11. CASE JoinExecutor
  BY <1>11, ZeroType DEF JoinExecutor
<1>12. CASE CommandTimer
  BY <1>12, ZeroType DEF CommandTimer, Publish
<1>13. CASE ExecutorEnds \/ ExecutorFails
  <2>1. CASE ExecutorEnds
    BY <2>1, ZeroType DEF ExecutorEnds
  <2>2. CASE ExecutorFails
    BY <2>2, ZeroType DEF ExecutorFails
  <2> QED
    BY <1>13, <2>1, <2>2
<1>14. CASE Read
  <2>1. [w \in Wheel |-> positions[w] - position_offsets[w]] \in [Wheel -> Int]
    BY PositionsInt
  <2>2. hw_positions' \in [Wheel -> Int]
    BY <1>14, <2>1 DEF Read
  <2>3. fault' \in BOOLEAN
    BY <1>14 DEF Read
  <2>4. /\ call' \in {"idle", "activate", "stop", "final", "join"}
        /\ goal' \in {"unconfigured", "inactive", "active", "finalized"}
        /\ waitAge' \in 0..StartupTimeout /\ UNCHANGED lifecycle
    BY <1>14 DEF Read, EnterError
  <2> QED
    BY <1>14, <2>2, <2>3, <2>4 DEF Read
<1>15. CASE Write
  BY <1>15, ZeroType DEF Write, EnterError, Cyclic
<1>16. CASE Tick
  BY <1>16, ZeroType DEF Tick, Older, UpTo
<1>17. ASSUME NEW sample \in [Wheel -> Position], JointStateCallback(sample)
      PROVE  TypeOK'
  <2> DEFINE reachable == MaxRate * stateAge + JumpSlack
  <2>1. reachable \in Nat
    OBVIOUS
  <2>2. reach' \in 0..MaxReach
    <3>1. reach' = IF active THEN UpTo(reach + reachable, MaxReach) ELSE reach
      BY <1>17 DEF JointStateCallback
    <3> QED
      BY <2>1, <3>1 DEF UpTo
  <2>3. fault' \in BOOLEAN /\ received_state' \in BOOLEAN
    BY <1>17 DEF JointStateCallback
  <2>4. stateAge' \in 0..(StateTimeout + 1)
    BY <1>17 DEF JointStateCallback
  <2> QED
    BY <1>17, <2>2, <2>3, <2>4 DEF JointStateCallback
<1>18. ASSUME NEW command \in [Wheel -> Speed \cup {NotFinite}],
             ControllerUpdate(command)
      PROVE  TypeOK'
  BY <1>18, ZeroType DEF ControllerUpdate
<1>19. CASE UNCHANGED vars
  BY <1>19, ZeroType DEF vars
<1> QED
  BY <1>1, <1>2, <1>3, <1>4, <1>5, <1>6, <1>7, <1>8,
     <1>9, <1>10, <1>11, <1>12, <1>13, <1>14, <1>15, <1>16,
     <1>17, <1>18, <1>19 DEF Next, Lifecycle

-----------------------------------------------------------------------------
\* Each step moves a lifecycle call along its phases.
LEMMA PhaseStep == (TypeOK /\ PhaseInv) /\ [Next]_vars => PhaseInv'
<1> SUFFICES ASSUME (TypeOK /\ PhaseInv), [Next]_vars PROVE PhaseInv'
  OBVIOUS
<1> USE DEF TypeOK, PhaseInv, callVars, flagVars, positionVars, ageVars
<1>1. CASE Configure
  BY <1>1 DEF Configure
<1>2. CASE BeginActivate
  BY <1>2 DEF BeginActivate
<1>3. CASE Activate
  BY <1>3 DEF Activate, StateFresh
<1>4. CASE ActivateFails
  BY <1>4 DEF ActivateFails, EnterError
<1>5. CASE Deactivate
  BY <1>5 DEF Deactivate, RequestStop
<1>6. CASE Cleanup
  BY <1>6 DEF Cleanup, RequestStop
<1>7. CASE Shutdown
  BY <1>7 DEF Shutdown, RequestStop
<1>8. CASE StopMotion
  BY <1>8 DEF StopMotion
<1>9. CASE FinalStop
  BY <1>9 DEF FinalStop, EndStop, Publish
<1>10. CASE FinalStopLost
  BY <1>10 DEF FinalStopLost, EndStop
<1>11. CASE JoinExecutor
  BY <1>11 DEF JoinExecutor
<1>12. CASE CommandTimer
  BY <1>12 DEF CommandTimer, Publish
<1>13. CASE ExecutorEnds \/ ExecutorFails
  BY <1>13 DEF ExecutorEnds, ExecutorFails
<1>14. CASE Read
  BY <1>14 DEF Read, EnterError, Cyclic
<1>15. CASE Write
  BY <1>15 DEF Write, EnterError, Cyclic
<1>16. CASE Tick
  BY <1>16 DEF Tick, Older, UpTo
<1>17. ASSUME NEW sample \in [Wheel -> Position], JointStateCallback(sample)
      PROVE  PhaseInv'
  BY <1>17 DEF JointStateCallback
<1>18. ASSUME NEW command \in [Wheel -> Speed \cup {NotFinite}],
             ControllerUpdate(command)
      PROVE  PhaseInv'
  BY <1>18 DEF ControllerUpdate
<1>19. CASE UNCHANGED vars
  BY <1>19 DEF vars
<1> QED
  BY <1>1, <1>2, <1>3, <1>4, <1>5, <1>6, <1>7, <1>8,
     <1>9, <1>10, <1>11, <1>12, <1>13, <1>14, <1>15, <1>16,
     <1>17, <1>18, <1>19 DEF Next, Lifecycle

-----------------------------------------------------------------------------
\* No step publishes or activates behind a final stop.
LEMMA StopStep == (PhaseInv /\ StopInv) /\ [Next]_vars => StopInv'
<1> SUFFICES ASSUME (PhaseInv /\ StopInv), [Next]_vars PROVE StopInv'
  OBVIOUS
<1> USE DEF PhaseInv, StopInv, callVars, flagVars, positionVars, ageVars
<1>1. CASE Configure
  BY <1>1 DEF Configure
<1>2. CASE BeginActivate
  BY <1>2 DEF BeginActivate
<1>3. CASE Activate
  BY <1>3 DEF Activate
<1>4. CASE ActivateFails
  BY <1>4 DEF ActivateFails, EnterError
<1>5. CASE Deactivate
  BY <1>5 DEF Deactivate, RequestStop
<1>6. CASE Cleanup
  BY <1>6 DEF Cleanup, RequestStop
<1>7. CASE Shutdown
  BY <1>7 DEF Shutdown, RequestStop
<1>8. CASE StopMotion
  BY <1>8 DEF StopMotion
<1>9. CASE FinalStop
  BY <1>9 DEF FinalStop, EndStop, Publish
<1>10. CASE FinalStopLost
  BY <1>10 DEF FinalStopLost, EndStop
<1>11. CASE JoinExecutor
  BY <1>11 DEF JoinExecutor
<1>12. CASE CommandTimer
  BY <1>12 DEF CommandTimer, Publish
<1>13. CASE ExecutorEnds \/ ExecutorFails
  BY <1>13 DEF ExecutorEnds, ExecutorFails
<1>14. CASE Read
  BY <1>14 DEF Read, EnterError, Cyclic
<1>15. CASE Write
  BY <1>15 DEF Write, EnterError, Cyclic
<1>16. CASE Tick
  BY <1>16 DEF Tick, Older, UpTo
<1>17. ASSUME NEW sample \in [Wheel -> Position], JointStateCallback(sample)
      PROVE  StopInv'
  BY <1>17 DEF JointStateCallback
<1>18. ASSUME NEW command \in [Wheel -> Speed \cup {NotFinite}],
             ControllerUpdate(command)
      PROVE  StopInv'
  BY <1>18 DEF ControllerUpdate
<1>19. CASE UNCHANGED vars
  BY <1>19 DEF vars
<1> QED
  BY <1>1, <1>2, <1>3, <1>4, <1>5, <1>6, <1>7, <1>8,
     <1>9, <1>10, <1>11, <1>12, <1>13, <1>14, <1>15, <1>16,
     <1>17, <1>18, <1>19 DEF Next, Lifecycle

-----------------------------------------------------------------------------
\* No step makes a command that no controller wrote.
LEMMA CommandStep == CommandInv /\ [Next]_vars => CommandInv'
<1> SUFFICES ASSUME CommandInv, [Next]_vars PROVE CommandInv'
  OBVIOUS
<1> USE DEF CommandInv, callVars, flagVars, positionVars, ageVars
<1>1. CASE Configure
  BY <1>1 DEF Configure
<1>2. CASE BeginActivate
  BY <1>2 DEF BeginActivate
<1>3. CASE Activate
  BY <1>3 DEF Activate
<1>4. CASE ActivateFails
  BY <1>4 DEF ActivateFails, EnterError
<1>5. CASE Deactivate
  BY <1>5 DEF Deactivate, RequestStop
<1>6. CASE Cleanup
  BY <1>6 DEF Cleanup, RequestStop
<1>7. CASE Shutdown
  BY <1>7 DEF Shutdown, RequestStop
<1>8. CASE StopMotion
  BY <1>8 DEF StopMotion
<1>9. CASE FinalStop
  BY <1>9 DEF FinalStop, EndStop, Publish
<1>10. CASE FinalStopLost
  BY <1>10 DEF FinalStopLost, EndStop
<1>11. CASE JoinExecutor
  BY <1>11 DEF JoinExecutor
<1>12. CASE CommandTimer
  BY <1>12 DEF CommandTimer, Publish
<1>13. CASE ExecutorEnds \/ ExecutorFails
  BY <1>13 DEF ExecutorEnds, ExecutorFails
<1>14. CASE Read
  BY <1>14 DEF Read, EnterError, Cyclic
<1>15. CASE Write
  BY <1>15 DEF Write, EnterError, Cyclic
<1>16. CASE Tick
  BY <1>16 DEF Tick, Older, UpTo
<1>17. ASSUME NEW sample \in [Wheel -> Position], JointStateCallback(sample)
      PROVE  CommandInv'
  BY <1>17 DEF JointStateCallback
<1>18. ASSUME NEW command \in [Wheel -> Speed \cup {NotFinite}],
             ControllerUpdate(command)
      PROVE  CommandInv'
  BY <1>18 DEF ControllerUpdate
<1>19. CASE UNCHANGED vars
  BY <1>19 DEF vars
<1> QED
  BY <1>1, <1>2, <1>3, <1>4, <1>5, <1>6, <1>7, <1>8,
     <1>9, <1>10, <1>11, <1>12, <1>13, <1>14, <1>15, <1>16,
     <1>17, <1>18, <1>19 DEF Next, Lifecycle

-----------------------------------------------------------------------------
\* No step moves the odometry further than the wheels can have turned.
LEMMA OdometryStep == (TypeOK /\ PhaseInv /\ OdometryInv) /\ [Next]_vars => OdometryInv'
<1> SUFFICES ASSUME (TypeOK /\ PhaseInv /\ OdometryInv), [Next]_vars PROVE OdometryInv'
  OBVIOUS
<1> USE DEF TypeOK, PhaseInv, OdometryInv, callVars, flagVars, positionVars, ageVars
<1>1. CASE Configure
  BY <1>1 DEF Configure
<1>2. CASE BeginActivate
  BY <1>2 DEF BeginActivate
<1>3. CASE Activate
  <2>1. \A w \in Wheel : hw_positions'[w] = 0
    BY <1>3 DEF Activate, Zero
  <2>2. \A w \in Wheel : /\ positions[w] \in Int
                         /\ Distance(positions[w], positions[w]) = 0
    BY PositionsInt DEF Distance
  <2>3. Distance(0, 0) = 0 /\ reach' = 0
    BY <1>3 DEF Activate, Distance
  <2> QED
    BY <1>3, <2>1, <2>2, <2>3 DEF Activate
<1>4. CASE ActivateFails
  BY <1>4 DEF ActivateFails, EnterError
<1>5. CASE Deactivate
  BY <1>5 DEF Deactivate, RequestStop
<1>6. CASE Cleanup
  BY <1>6 DEF Cleanup, RequestStop
<1>7. CASE Shutdown
  BY <1>7 DEF Shutdown, RequestStop
<1>8. CASE StopMotion
  BY <1>8 DEF StopMotion
<1>9. CASE FinalStop
  BY <1>9 DEF FinalStop, EndStop, Publish
<1>10. CASE FinalStopLost
  BY <1>10 DEF FinalStopLost, EndStop
<1>11. CASE JoinExecutor
  BY <1>11 DEF JoinExecutor
<1>12. CASE CommandTimer
  BY <1>12 DEF CommandTimer, Publish
<1>13. CASE ExecutorEnds \/ ExecutorFails
  BY <1>13 DEF ExecutorEnds, ExecutorFails
<1>14. CASE Read
  <2>1. \A w \in Wheel :
          Distance(positions[w] - position_offsets[w], 0)
            = Distance(positions[w], position_offsets[w])
    BY PositionsInt, DistanceShift
  <2>2. UNCHANGED <<active, positions, position_offsets, reach>>
    BY <1>14 DEF Read
  <2>3. CASE fault'
    BY <1>14, <2>2, <2>3 DEF Read
  <2>4. CASE ~fault'
    <3>1. ~fault
      BY <1>14, <2>4 DEF Read
    <3>2. active => \A w \in Wheel :
            hw_positions'[w] = positions[w] - position_offsets[w]
      BY <1>14, <2>4 DEF Read
    <3> QED
      BY <2>1, <2>2, <3>1, <3>2
  <2> QED
    BY <2>3, <2>4
<1>15. CASE Write
  BY <1>15 DEF Write, EnterError, Cyclic
<1>16. CASE Tick
  BY <1>16 DEF Tick, Older, UpTo
<1>17. ASSUME NEW sample \in [Wheel -> Position], JointStateCallback(sample)
      PROVE  OdometryInv'
  <2> DEFINE reachable == MaxRate * stateAge + JumpSlack
  <2>1. reachable \in Nat /\ reach \in Nat
    OBVIOUS
  <2>2. /\ reach' = IF active THEN UpTo(reach + reachable, MaxReach) ELSE reach
        /\ positions' = sample
        /\ UNCHANGED <<active, position_offsets, hw_positions>>
    BY <1>17 DEF JointStateCallback
  <2> SUFFICES ASSUME active
               PROVE  /\ \A w \in Wheel : Distance(hw_positions[w], 0) <= reach'
                      /\ ~fault' => \A w \in Wheel :
                           Distance(sample[w], position_offsets[w]) <= reach'
    BY <2>2
  <2>3. reach' \in Nat /\ reach <= reach'
    BY <2>1, <2>2 DEF UpTo
  <2>4. \A w \in Wheel : Distance(hw_positions[w], 0) <= reach'
    BY <2>1, <2>3 DEF Distance
  <2>5. ASSUME ~fault', NEW w \in Wheel
        PROVE  Distance(sample[w], position_offsets[w]) <= reach'
    <3>1. /\ sample[w] \in Position /\ position_offsets[w] \in Position
          /\ sample[w] \in Int /\ positions[w] \in Int
          /\ position_offsets[w] \in Int
      BY <1>17, PositionsInt
    <3>2. ~fault /\ ~(Distance(sample[w], positions[w]) > reachable)
      BY <1>17, <2>5 DEF JointStateCallback
    <3>3. /\ Distance(sample[w], positions[w]) \in Nat
          /\ Distance(positions[w], position_offsets[w]) \in Nat
          /\ Distance(sample[w], position_offsets[w]) \in Nat
          /\ Distance(sample[w], position_offsets[w]) <= MaxReach
      BY <3>1, DistanceNat, DistanceWithinReach
    <3>4. Distance(positions[w], position_offsets[w]) <= reach
      BY <3>2
    <3>5. Distance(sample[w], position_offsets[w])
            <= Distance(sample[w], positions[w])
               + Distance(positions[w], position_offsets[w])
      BY <3>1, DistanceTriangle
    <3> HIDE DEF reachable, TypeOK, PhaseInv, OdometryInv
    <3>6. Distance(sample[w], position_offsets[w]) <= reach + reachable
      BY <2>1, <3>2, <3>3, <3>4, <3>5
    <3> QED
      BY <2>1, <2>2, <3>3, <3>6 DEF UpTo
  <2> QED
    BY <2>4, <2>5
<1>18. ASSUME NEW command \in [Wheel -> Speed \cup {NotFinite}],
             ControllerUpdate(command)
      PROVE  OdometryInv'
  BY <1>18 DEF ControllerUpdate
<1>19. CASE UNCHANGED vars
  BY <1>19 DEF vars
<1> QED
  BY <1>1, <1>2, <1>3, <1>4, <1>5, <1>6, <1>7, <1>8,
     <1>9, <1>10, <1>11, <1>12, <1>13, <1>14, <1>15, <1>16,
     <1>17, <1>18, <1>19 DEF Next, Lifecycle

-----------------------------------------------------------------------------
LEMMA InitIInv == Init => IInv
<1> SUFFICES ASSUME Init PROVE IInv
  OBVIOUS
<1>1. TypeOK
  <2>1. /\ commands \in Command /\ published \in Command
        /\ hw_commands \in [Wheel -> Speed \cup {NotFinite}]
        /\ positions \in [Wheel -> Position]
        /\ position_offsets \in [Wheel -> Position]
        /\ hw_positions \in [Wheel -> Int]
    BY ZeroType DEF Init
  <2>2. /\ waitAge \in 0..StartupTimeout /\ reach \in 0..MaxReach
        /\ stateAge \in 0..(StateTimeout + 1)
        /\ commandAge \in 0..(CommandTimeout + 1)
    BY DEF Init
  <2>3. /\ received_state \in BOOLEAN /\ active \in BOOLEAN /\ fault \in BOOLEAN
        /\ updated \in BOOLEAN /\ stopSent \in BOOLEAN
    BY DEF Init
  <2>4. /\ lifecycle = "unconfigured" /\ call = "idle" /\ goal = "unconfigured"
        /\ executor = "none"
    BY DEF Init
  <2> QED
    BY <2>1, <2>2, <2>3, <2>4 DEF TypeOK
<1>2. PhaseInv /\ StopInv /\ CommandInv /\ OdometryInv
  BY DEF Init, PhaseInv, StopInv, CommandInv, OdometryInv
<1> QED
  BY <1>1, <1>2 DEF IInv

LEMMA NextIInv == IInv /\ [Next]_vars => IInv'
  BY TypeStep, PhaseStep, StopStep, CommandStep, OdometryStep DEF IInv

LEMMA Invariance == Spec => []IInv
  BY InitIInv, NextIInv, PTL DEF Spec

\* Type correctness; in particular commands, which publish_command may send,
\* never holds a value that is not finite.
THEOREM TypeCorrect == Spec => []TypeOK
<1>1. IInv => TypeOK
  BY DEF IInv
<1> QED
  BY <1>1, Invariance, PTL

\* The plugin forwards commands only in the lifecycle state that allows it.
THEOREM LifecycleCorrect == Spec => []ActiveMatchesLifecycle
<1>1. IInv => ActiveMatchesLifecycle
  BY DEF IInv, PhaseInv, ActiveMatchesLifecycle
<1> QED
  BY <1>1, Invariance, PTL

\* No interleaving of the timer, write(), the controllers and a stop publishes
\* anything but zero after the final zero.
THEOREM StopCorrect == Spec => []StopIsLastWord
<1>1. IInv => StopIsLastWord
  BY DEF IInv, StopInv, StopIsLastWord
<1> QED
  BY <1>1, Invariance, PTL

\* What drives the wheels was written since the activation.
THEOREM CommandCorrect == Spec => []NoLeftoverCommand
<1>1. IInv => NoLeftoverCommand
  BY DEF IInv, CommandInv, NoLeftoverCommand
<1> QED
  BY <1>1, Invariance, PTL

\* The odometry never jumps, whatever positions the board reports.
THEOREM OdometryCorrect == Spec => []OdometryWithinReach
<1>1. IInv => OdometryWithinReach
  BY DEF IInv, OdometryInv, OdometryWithinReach
<1> QED
  BY <1>1, Invariance, PTL

-----------------------------------------------------------------------------
\* Every step of every actor keeps a fault, or is the on_configure that ends
\* it, and publishes nothing but zero under it.
LEMMA FaultStep ==
  [Next]_vars => [fault => /\ fault' \/ (lifecycle = "unconfigured" /\ call = "idle")
                           /\ published' \in {published, Zero}]_vars
<1> SUFFICES ASSUME fault, Next
             PROVE  /\ fault' \/ (lifecycle = "unconfigured" /\ call = "idle")
                    /\ published' \in {published, Zero}
  OBVIOUS
<1> USE DEF flagVars, callVars
<1>1. CASE Configure
  BY <1>1 DEF Configure
<1>2. CASE BeginActivate \/ ActivateFails \/ Deactivate \/ Cleanup \/ Shutdown
             \/ StopMotion \/ JoinExecutor
  BY <1>2 DEF BeginActivate, ActivateFails, Deactivate, Cleanup, Shutdown,
              RequestStop, StopMotion, JoinExecutor
<1>3. CASE Activate
  BY <1>3 DEF Activate
<1>4. CASE FinalStop \/ CommandTimer
  BY <1>4 DEF FinalStop, CommandTimer, Publish
<1>5. CASE FinalStopLost \/ ExecutorEnds \/ ExecutorFails \/ Tick
  BY <1>5 DEF FinalStopLost, ExecutorEnds, ExecutorFails, Tick
<1>6. CASE Read \/ Write
  BY <1>6 DEF Read, Write
<1>7. ASSUME NEW sample \in [Wheel -> Position], JointStateCallback(sample)
      PROVE  fault' /\ published' = published
  BY <1>7 DEF JointStateCallback
<1>8. ASSUME NEW command \in [Wheel -> Speed \cup {NotFinite}],
             ControllerUpdate(command)
      PROVE  fault' /\ published' = published
  BY <1>8 DEF ControllerUpdate
<1> QED
  BY <1>1, <1>2, <1>3, <1>4, <1>5, <1>6, <1>7, <1>8 DEF Next, Lifecycle

\* A fault is latched until the plugin is configured again.
THEOREM FaultCorrect == Spec => FaultLatched
  BY FaultStep, PTL DEF Spec, FaultLatched

-----------------------------------------------------------------------------
(***************************************************************************)
(* The plugin and the board.                                               *)
(***************************************************************************)
USE LinkAssumption

\* What the link needs to know of the plugin.
PluginInv ==
  /\ active \in BOOLEAN /\ fault \in BOOLEAN /\ received_state \in BOOLEAN
  /\ stateAge \in 0..(StateTimeout + 1) /\ commandAge \in 0..(CommandTimeout + 1)
  /\ active => received_state

\* The board has no lease before it has opened a session, and turns its motors
\* only on one.
BoardInv ==
  /\ up \in BOOLEAN /\ driving \in BOOLEAN /\ opened \in BOOLEAN
  /\ lease \in 0..LeaseTime /\ outage \in 0..OutageBound
  /\ driving => lease > 0
  /\ ~opened => ~up /\ lease = 0

\* Nothing is under way for longer than the delay.
NetInv ==
  /\ commandNet \subseteq [moving : BOOLEAN, age : 0..MaxDelay]
  /\ stateNet \subseteq [boot : Nat, age : 0..MaxDelay]
  /\ boot \in Nat

\* From the controller's command to the motor: what the plugin holds is as old as
\* its command timeout allows, what is under way older by its age at most, and
\* the lease is what is left of the bound.
MotionInv ==
  /\ sinceMotion \in 0..MotionBound
  /\ commands # Zero => commandAge > CommandTimeout \/ sinceMotion <= commandAge
  /\ \A m \in commandNet : m.moving => sinceMotion <= CommandTimeout + m.age
  /\ lease > 0 => sinceMotion + lease <= MotionBound

\* From a halt to the motor, likewise: only a plugin that is not halted asks for
\* motion.
HaltInv ==
  /\ sinceHalt \in 0..HaltBound
  /\ ~Halted => sinceHalt = 0
  /\ \A m \in commandNet : m.moving => sinceHalt <= m.age
  /\ lease > 0 => sinceHalt + lease <= HaltBound

\* Nothing was counted in a boot without a session.  A state from an earlier
\* boot is older than the outage, and a plugin that has heard nothing from the
\* present boot has waited for all of it but one delay: when the first state
\* arrives after a long outage, its state timeout has run out.
BootInv ==
  /\ positionBoot \in Int /\ positionBoot <= boot
  /\ originBoot \in Int /\ originBoot <= boot
  /\ \A m \in stateNet : m.boot <= boot
  /\ ~opened => /\ positionBoot < boot /\ originBoot < boot
                /\ \A m \in stateNet : m.boot < boot
  /\ \A m \in stateNet : m.boot # boot => outage <= m.age
  /\ received_state /\ positionBoot # boot =>
       stateAge > StateTimeout \/ outage <= stateAge + MaxDelay
  /\ OdometryInOneBoot

\* After a long outage the board has a lease only from a plugin activated in its
\* present boot: the last command of any other is gone before a session opens.
ResetInv ==
  /\ lease > 0 /\ outage > StateTimeout + 2 * MaxDelay => originBoot = boot
  /\ originBoot # boot =>
       \A m \in commandNet :
         m.moving => outage <= StateTimeout + MaxDelay + m.age

LinkInv == /\ PluginInv /\ BoardInv /\ NetInv /\ MotionInv /\ HaltInv
           /\ BootInv /\ ResetInv

-----------------------------------------------------------------------------
\* How the bounded sums of the model behave.
LEMMA UpToBound ==
  \A n, cap \in Nat : UpTo(n, cap) \in 0..cap /\ UpTo(n, cap) <= n
  BY DEF UpTo

LEMMA SumMonotone ==
  \A a, b, c, bound \in Nat :
    a <= b => /\ b + c <= bound => a + c <= bound
              /\ c + b <= bound => c + a <= bound
  OBVIOUS

LEMMA BoundsType == MotionBound \in Nat /\ HaltBound \in Nat /\ OutageBound \in Nat
  BY TimeoutAssumption DEF MotionBound, HaltBound, OutageBound

LEMMA PutMember ==
  ASSUME NEW net, NEW m, NEW bound, NEW x \in Put(net, m, bound)
  PROVE  x \in net \/ x = m
  BY DEF Put

LEMMA LinkInitInv == LinkInit => LinkInv
<1> SUFFICES ASSUME LinkInit PROVE LinkInv
  OBVIOUS
<1> USE DEF LinkInit, Init, Board!Init
<1>1. PluginInv
  <2>1. active \in BOOLEAN /\ fault \in BOOLEAN /\ received_state \in BOOLEAN
    OBVIOUS
  <2>2. stateAge \in 0..(StateTimeout + 1) /\ commandAge \in 0..(CommandTimeout + 1)
    OBVIOUS
  <2> QED
    BY <2>1, <2>2 DEF PluginInv
<1>2. BoardInv /\ NetInv
  <2>1. up \in BOOLEAN /\ driving \in BOOLEAN /\ opened \in BOOLEAN
    OBVIOUS
  <2>2. lease \in 0..LeaseTime /\ outage \in 0..OutageBound /\ boot \in Nat
    BY BoundsType
  <2>3. commandNet = {} /\ stateNet = {} /\ ~up /\ lease = 0 /\ ~driving
    OBVIOUS
  <2> QED
    BY <2>1, <2>2, <2>3 DEF BoardInv, NetInv
<1>3. MotionInv /\ HaltInv
  BY BoundsType DEF MotionInv, HaltInv, Halted
<1>4. BootInv /\ ResetInv
  BY DEF BootInv, ResetInv, Halted, None, OdometryInOneBoot
<1> QED
  BY <1>1, <1>2, <1>3, <1>4 DEF LinkInv

-----------------------------------------------------------------------------
\* Noting a halt again never makes it older.
LEMMA NoteHaltKeeps ==
  ASSUME BoardInv, NetInv, HaltInv, NoteHalt, UNCHANGED lease
  PROVE  /\ sinceHalt' \in 0..HaltBound
         /\ ~Halted' => sinceHalt' = 0
         /\ \A m \in commandNet : m.moving => sinceHalt' <= m.age
         /\ lease' > 0 => sinceHalt' + lease' <= HaltBound
<1>1. sinceHalt' \in 0..HaltBound /\ sinceHalt' <= sinceHalt
  BY BoundsType DEF HaltInv, NoteHalt
<1>2. ~Halted' => sinceHalt' = 0
  BY DEF NoteHalt
<1>3. \A m \in commandNet : m.moving => sinceHalt' <= m.age
  BY <1>1, BoundsType DEF HaltInv, NetInv
<1>4. lease > 0 => sinceHalt' + lease <= HaltBound
  <2>1. sinceHalt \in Nat /\ sinceHalt' \in Nat /\ lease \in Nat
    BY <1>1, BoundsType DEF HaltInv, BoardInv
  <2>2. lease > 0 => sinceHalt + lease <= HaltBound
    BY DEF HaltInv
  <2>3. sinceHalt' <= sinceHalt
    BY <1>1
  <2> QED
    BY <2>1, <2>2, <2>3, BoundsType, SumMonotone, Zenon
<1> QED
  BY <1>1, <1>2, <1>3, <1>4

\* The plugin by itself.  A step that keeps the bounds on its command, forgets
\* nothing of what it has heard but all of it, and is not halted only with
\* positions of the boot it was activated in, keeps the invariant.
LEMMA PluginKeeps ==
  ASSUME LinkInv, PluginInv', NoteHalt,
         UNCHANGED <<boardVars, netVars, awayVars, positionBoot>>,
         sinceMotion' \in 0..MotionBound, sinceMotion' <= sinceMotion,
         commands' # Zero => \/ commandAge' > CommandTimeout
                             \/ sinceMotion' <= commandAge',
         received_state' => received_state /\ stateAge' = stateAge,
         originBoot' \in {originBoot, positionBoot}, OdometryInOneBoot',
         ResetInv'
  PROVE  LinkInv'
<1> USE DEF LinkInv, boardVars, netVars, awayVars
<1>1. BoardInv' /\ NetInv'
  BY DEF BoardInv, NetInv
<1>2. MotionInv'
  <2>1. \A m \in commandNet : m.moving => sinceMotion' <= CommandTimeout + m.age
    BY BoundsType DEF MotionInv, NetInv
  <2>2. lease > 0 => sinceMotion' + lease <= MotionBound
    <3>1. sinceMotion \in Nat /\ sinceMotion' \in Nat /\ lease \in Nat
      BY BoundsType DEF MotionInv, BoardInv
    <3>2. lease > 0 => sinceMotion + lease <= MotionBound
      BY DEF MotionInv
    <3> QED
      BY <3>1, <3>2, BoundsType, SumMonotone, Zenon
  <2> QED
    BY <2>1, <2>2 DEF MotionInv
<1>3. HaltInv'
  BY NoteHaltKeeps DEF HaltInv, NetInv
<1>4. BootInv'
  BY DEF BootInv
<1> QED
  BY <1>1, <1>2, <1>3, <1>4

\* What the steps of PluginOther have in common.
LEMMA PluginOtherFrame ==
  ASSUME PluginInv, PluginOther
  PROVE  /\ PluginInv'
         /\ ~Halted' => ~Halted
         /\ received_state' => received_state /\ stateAge' = stateAge
         /\ commands' # Zero => commands' = commands /\ commandAge' = commandAge
         /\ UNCHANGED <<originBoot, sinceMotion>>
<1> USE DEF PluginInv, Halted, flagVars, ageVars
<1>1. UNCHANGED <<originBoot, sinceMotion>>
  BY DEF PluginOther
<1>2. CASE Configure
  BY <1>1, <1>2 DEF Configure
<1>3. CASE BeginActivate \/ ActivateFails
  BY <1>1, <1>3 DEF BeginActivate, ActivateFails
<1>4. CASE Deactivate \/ Cleanup \/ Shutdown
  BY <1>1, <1>4 DEF Deactivate, Cleanup, Shutdown, RequestStop
<1>5. CASE StopMotion \/ JoinExecutor
  <2>1. UNCHANGED <<fault, received_state, stateAge, commandAge>>
    BY <1>5 DEF StopMotion, JoinExecutor
  <2>2. active' = active \/ active' = FALSE
    BY <1>5 DEF StopMotion, JoinExecutor
  <2>3. commands' \in {commands, Zero}
    BY <1>5 DEF StopMotion, JoinExecutor
  <2>4. active' \in BOOLEAN /\ (active' => active)
    <3>1. CASE active' = active
      BY <3>1
    <3>2. CASE active' = FALSE
      BY <3>2
    <3> QED
      BY <2>2, <3>1, <3>2
  <2> QED
    BY <1>1, <2>1, <2>3, <2>4
<1>6. CASE FinalStopLost
  BY <1>1, <1>6 DEF FinalStopLost, EndStop
<1>7. CASE ExecutorEnds \/ ExecutorFails
  <2>1. CASE ExecutorEnds
    BY <1>1, <2>1 DEF ExecutorEnds
  <2>2. CASE ExecutorFails
    BY <1>1, <2>2 DEF ExecutorFails
  <2> QED
    BY <1>7, <2>1, <2>2
<1>8. CASE Read
  <2>1. fault' \in BOOLEAN /\ (fault => fault')
    BY <1>8 DEF Read
  <2>2. UNCHANGED <<active, received_state, ageVars, commands>>
    BY <1>8 DEF Read
  <2> QED
    BY <1>1, <2>1, <2>2
<1>9. CASE PluginRestarts
  <2>1. /\ active' = FALSE /\ fault' = FALSE /\ received_state' = FALSE
        /\ commands' = Zero /\ stateAge' = 0 /\ commandAge' = 0
    BY <1>9 DEF PluginRestarts
  <2>2. PluginInv'
    <3>1. active' \in BOOLEAN /\ fault' \in BOOLEAN /\ received_state' \in BOOLEAN
      BY <2>1
    <3>2. /\ stateAge' \in 0..(StateTimeout + 1)
          /\ commandAge' \in 0..(CommandTimeout + 1)
      BY <2>1
    <3> QED
      BY <2>1, <3>1, <3>2
  <2> QED
    BY <1>1, <2>1, <2>2
<1>10. CASE \E c \in Command : ControllerUpdate(c)
  BY <1>1, <1>10 DEF ControllerUpdate
<1> QED
  BY <1>2, <1>3, <1>4, <1>5, <1>6, <1>7, <1>8, <1>9, <1>10 DEF PluginOther

LEMMA PluginOtherKeeps ==
  ASSUME LinkInv, PluginOther, NoteHalt,
         UNCHANGED <<boardVars, netVars, awayVars, positionBoot>>
  PROVE  LinkInv'
<1>1. PluginInv
  BY DEF LinkInv
<1>2. sinceMotion \in 0..MotionBound
  BY DEF LinkInv, MotionInv
<1>3. commands' # Zero => \/ commandAge' > CommandTimeout
                          \/ sinceMotion' <= commandAge'
  BY <1>1, PluginOtherFrame DEF LinkInv, MotionInv
<1>4. originBoot' = originBoot /\ OdometryInOneBoot'
  BY <1>1, PluginOtherFrame DEF LinkInv, BootInv, OdometryInOneBoot, awayVars
<1>5. ResetInv'
  BY <1>1, PluginOtherFrame DEF LinkInv, ResetInv, boardVars, netVars, awayVars
<1> QED
  BY <1>1, <1>2, <1>3, <1>4, <1>5, PluginOtherFrame, PluginKeeps, BoundsType

\* A command for motion that is accepted is new.
LEMMA PluginWriteKeeps ==
  ASSUME LinkInv, PluginWrite, NoteHalt,
         UNCHANGED <<boardVars, netVars, awayVars, positionBoot>>
  PROVE  LinkInv'
<1>1. /\ UNCHANGED <<active, received_state, stateAge, originBoot>>
      /\ fault' \in BOOLEAN /\ (fault => fault')
      /\ commandAge' \in {commandAge, 0}
  BY DEF PluginWrite, Write
<1>2. PluginInv'
  BY <1>1 DEF LinkInv, PluginInv
<1>3. /\ sinceMotion' = IF active /\ commands' # Zero THEN 0 ELSE sinceMotion
      /\ sinceMotion' \in 0..MotionBound /\ sinceMotion' <= sinceMotion
  BY BoundsType DEF PluginWrite, LinkInv, MotionInv
<1>4. commands' # Zero => \/ commandAge' > CommandTimeout
                          \/ sinceMotion' <= commandAge'
  <2> SUFFICES ASSUME commands' # Zero
               PROVE  commandAge' > CommandTimeout \/ sinceMotion' <= commandAge'
    OBVIOUS
  <2>1. /\ commands' = IF active THEN hw_commands ELSE commands
        /\ commandAge' = IF active THEN 0 ELSE commandAge
    BY DEF PluginWrite, Write
  <2>2. CASE active
    BY <1>3, <2>1, <2>2
  <2>3. CASE ~active
    BY <1>3, <2>1, <2>3 DEF LinkInv, MotionInv
  <2> QED
    BY <2>2, <2>3
<1>5. OdometryInOneBoot'
  BY <1>1 DEF LinkInv, PluginInv, BootInv, Halted, OdometryInOneBoot, awayVars
<1>6. ResetInv'
  BY <1>1 DEF LinkInv, ResetInv, boardVars, netVars, awayVars
<1> QED
  BY <1>1, <1>2, <1>3, <1>4, <1>5, <1>6, PluginKeeps

\* An activation that has not yet heard of a reset comes before the outage is
\* long.
LEMMA PluginActivateKeeps ==
  ASSUME LinkInv, PluginActivate, NoteHalt,
         UNCHANGED <<boardVars, netVars, awayVars, positionBoot>>
  PROVE  LinkInv'
<1>1. /\ received_state /\ stateAge < StateTimeout /\ commands' = Zero
      /\ active' = TRUE /\ commandAge' = 0
      /\ UNCHANGED <<fault, received_state, stateAge, sinceMotion>>
      /\ originBoot' = positionBoot
  BY DEF PluginActivate, Activate, StateFresh
<1>2. PluginInv'
  BY <1>1 DEF LinkInv, PluginInv
<1>3. sinceMotion' \in 0..MotionBound /\ sinceMotion' <= sinceMotion
  BY <1>1, BoundsType DEF LinkInv, MotionInv
<1>4. ResetInv'
  <2>1. CASE positionBoot = boot
    BY <1>1, <2>1 DEF ResetInv, awayVars
  <2>2. CASE positionBoot # boot
    <3>1. stateAge \in Nat /\ outage \in Nat /\ outage <= stateAge + MaxDelay
      BY <1>1, <2>2, BoundsType DEF LinkInv, PluginInv, BoardInv, BootInv
    <3>2. outage < StateTimeout + MaxDelay
      BY <1>1, <3>1, TimeoutAssumption
    <3>3. ~(outage > StateTimeout + 2 * MaxDelay)
      BY <3>1, <3>2, TimeoutAssumption
    <3>4. \A m \in commandNet : outage <= StateTimeout + MaxDelay + m.age
      BY <3>1, <3>2, TimeoutAssumption DEF LinkInv, NetInv
    <3> QED
      BY <3>3, <3>4 DEF ResetInv, boardVars, netVars, awayVars
  <2> QED
    BY <2>1, <2>2
<1>5. OdometryInOneBoot'
  BY <1>1 DEF OdometryInOneBoot, awayVars
<1> QED
  BY <1>1, <1>2, <1>3, <1>4, <1>5, PluginKeeps

LEMMA PluginStepKeeps == ASSUME LinkInv, PluginStep PROVE LinkInv'
  BY PluginOtherKeeps, PluginWriteKeeps, PluginActivateKeeps DEF PluginStep

-----------------------------------------------------------------------------
\* What goes out is zero, or comes from an active plugin whose state and whose
\* command are within their timeouts.
LEMMA Published ==
  ASSUME PluginInv, CommandTimer \/ FinalStop
  PROVE  /\ PluginInv'
         /\ UNCHANGED <<active, received_state, commands, stateAge, commandAge>>
         /\ ~Halted' => ~Halted
         /\ published' # Zero =>
              /\ ~Halted' /\ received_state /\ commands # Zero
              /\ stateAge <= StateTimeout /\ commandAge <= CommandTimeout
<1>1. /\ UNCHANGED <<active, received_state, commands, stateAge, commandAge>>
      /\ Publish
  BY DEF CommandTimer, FinalStop, EndStop, flagVars, ageVars, positionVars
<1>2. fault' \in BOOLEAN /\ (fault => fault')
  BY <1>1 DEF Publish, PluginInv
<1>3. PluginInv'
  BY <1>1, <1>2 DEF PluginInv
<1>4. published' # Zero =>
        /\ active /\ ~fault' /\ commands # Zero
        /\ ~StateLost /\ ~(commandAge > CommandTimeout)
  BY <1>1 DEF Publish
<1>5. published' # Zero =>
        stateAge <= StateTimeout /\ commandAge <= CommandTimeout
  BY <1>4 DEF StateLost, PluginInv
<1> QED
  BY <1>1, <1>2, <1>3, <1>4, <1>5 DEF Halted, StateLost

LEMMA SendCommandKeeps == ASSUME LinkInv, SendCommand PROVE LinkInv'
<1> USE DEF LinkInv, boardVars, awayVars, bootVars
<1> DEFINE sent == [moving |-> published' # Zero, age |-> 0]
<1>1. /\ CommandTimer \/ FinalStop
      /\ \A m \in commandNet' : m \in commandNet \/ m = sent
      /\ UNCHANGED <<boardVars, stateNet, bootVars, sinceMotion>> /\ NoteHalt
  BY PutMember DEF SendCommand
<1>2. sent \in [moving : BOOLEAN, age : 0..MaxDelay] /\ sent.age = 0
  OBVIOUS
<1>3. sent.moving => published' # Zero
  OBVIOUS
<1> HIDE DEF sent
<1>4. PluginInv'
  BY <1>1, Published
<1>5. BoardInv' /\ NetInv'
  BY <1>1, <1>2 DEF BoardInv, NetInv
<1>6. MotionInv'
  <2>1. sent.moving => sinceMotion <= CommandTimeout + sent.age
    <3>1. published' # Zero => commands # Zero /\ commandAge <= CommandTimeout
      BY <1>1, Published
    <3> QED
      BY <1>2, <1>3, <3>1, BoundsType DEF MotionInv, PluginInv
  <2>2. \A m \in commandNet' : m.moving => sinceMotion <= CommandTimeout + m.age
    BY <1>1, <2>1 DEF MotionInv
  <2> QED
    BY <1>1, <2>2, Published DEF MotionInv
<1>7. HaltInv'
  <2>1. sent.moving => sinceHalt' <= sent.age
    <3>1. published' # Zero => ~Halted'
      BY <1>1, Published
    <3>2. ~Halted' => sinceHalt' = 0
      BY <1>1, NoteHaltKeeps DEF boardVars
    <3> QED
      BY <1>2, <1>3, <3>1, <3>2
  <2> QED
    BY <1>1, <2>1, NoteHaltKeeps DEF HaltInv
<1>8. BootInv'
  BY <1>1, Published DEF BootInv, OdometryInOneBoot
<1>9. ResetInv'
  <2>1. sent.moving /\ originBoot # boot => outage <= StateTimeout + MaxDelay + sent.age
    <3> SUFFICES ASSUME sent.moving, originBoot # boot
                 PROVE  outage <= StateTimeout + MaxDelay
      BY <1>2, TimeoutAssumption DEF BoardInv
    <3>1. ~Halted /\ received_state /\ stateAge <= StateTimeout
      BY <1>1, <1>3, Published
    <3>2. CASE positionBoot # boot
      BY <3>1, <3>2, TimeoutAssumption DEF BootInv, PluginInv, BoardInv
    <3>3. CASE positionBoot = boot
      BY <3>1, <3>3, TimeoutAssumption, BoundsType DEF BootInv, OdometryInOneBoot, BoardInv
    <3> QED
      BY <3>2, <3>3
  <2> QED
    BY <1>1, <2>1 DEF ResetInv
<1> QED
  BY <1>4, <1>5, <1>6, <1>7, <1>8, <1>9

-----------------------------------------------------------------------------
\* The board gives back of its lease, and samples go.
LEMMA LessKeeps ==
  ASSUME LinkInv,
         commandNet' \subseteq commandNet, stateNet' \subseteq stateNet,
         UNCHANGED <<vars, boot, outage, positionBoot, originBoot, haltVars>>,
         lease' \in 0..lease,
         up' \in BOOLEAN, driving' \in BOOLEAN, driving' => lease' > 0,
         opened' \in BOOLEAN, opened => opened', up' => up \/ opened'
  PROVE  LinkInv'
<1> USE DEF LinkInv, haltVars
<1>1. PluginInv'
  BY DEF PluginInv, vars, flagVars, ageVars
<1>2. BoardInv'
  <2>1. lease' \in 0..LeaseTime /\ (lease = 0 => lease' = 0)
    BY DEF BoardInv
  <2> QED
    BY <2>1 DEF BoardInv
<1>3. NetInv'
  BY DEF NetInv
<1>4. Halted' = Halted /\ UNCHANGED <<commands, commandAge, received_state, stateAge>>
  BY DEF Halted, vars, flagVars, ageVars
<1>5. lease' > 0 => lease > 0 /\ lease' <= lease /\ lease' \in Nat /\ lease \in Nat
  BY DEF BoardInv
<1>6. MotionInv'
  <2>1. lease' > 0 => sinceMotion + lease' <= MotionBound
    <3>1. sinceMotion \in Nat /\ (lease > 0 => sinceMotion + lease <= MotionBound)
      BY BoundsType DEF MotionInv
    <3> QED
      BY <1>5, <3>1, BoundsType, SumMonotone, Zenon
  <2> QED
    BY <1>4, <2>1 DEF MotionInv
<1>7. HaltInv'
  <2>1. lease' > 0 => sinceHalt + lease' <= HaltBound
    <3>1. sinceHalt \in Nat /\ (lease > 0 => sinceHalt + lease <= HaltBound)
      BY BoundsType DEF HaltInv
    <3> QED
      BY <1>5, <3>1, BoundsType, SumMonotone, Zenon
  <2> QED
    BY <1>4, <2>1 DEF HaltInv
<1>8. BootInv'
  BY <1>4 DEF BootInv, OdometryInOneBoot
<1>9. ResetInv'
  BY <1>5 DEF ResetInv
<1> QED
  BY <1>1, <1>2, <1>3, <1>6, <1>7, <1>8, <1>9

\* A command for motion that arrives was sent by a plugin of the present boot,
\* recently enough for a whole lease.
LEMMA GrantKeeps ==
  ASSUME LinkInv, NEW m \in commandNet, m.moving, Board!Grant,
         commandNet' = commandNet \ {m},
         UNCHANGED <<vars, stateNet, bootVars, haltVars>>
  PROVE  LinkInv'
<1> USE DEF LinkInv, awayVars, bootVars, haltVars
<1>1. /\ up /\ lease' = LeaseTime /\ UNCHANGED <<up, driving>>
  BY DEF Board!Grant
<1>2. m.age \in 0..MaxDelay /\ opened
  BY <1>1 DEF NetInv, BoardInv
<1>3. Halted' = Halted /\ UNCHANGED <<commands, commandAge, received_state, stateAge>>
  BY DEF Halted, vars, flagVars, ageVars
<1>4. PluginInv'
  BY DEF PluginInv, vars, flagVars, ageVars
<1>5. BoardInv' /\ NetInv'
  BY <1>1, <1>2 DEF BoardInv, NetInv
<1>6. MotionInv'
  <2>1. sinceMotion + LeaseTime <= MotionBound
    BY <1>2 DEF MotionInv, MotionBound
  <2> QED
    BY <1>1, <1>3, <2>1 DEF MotionInv
<1>7. HaltInv'
  <2>1. sinceHalt + LeaseTime <= HaltBound
    BY <1>2 DEF HaltInv, HaltBound
  <2> QED
    BY <1>1, <1>3, <2>1 DEF HaltInv
<1>8. BootInv'
  BY <1>1, <1>3 DEF BootInv, OdometryInOneBoot
<1>9. ResetInv'
  <2>1. outage > StateTimeout + 2 * MaxDelay => originBoot = boot
    BY <1>2, TimeoutAssumption, BoundsType DEF ResetInv, BoardInv
  <2> QED
    BY <2>1 DEF ResetInv
<1> QED
  BY <1>4, <1>5, <1>6, <1>7, <1>8, <1>9

LEMMA WithdrawLeaves ==
  ASSUME BoardInv, Board!Withdraw
  PROVE  lease' \in 0..lease /\ (driving => lease' > 0)
  BY DEF Board!Withdraw, Board!AtMost, BoardInv

LEMMA DeliverCommandKeeps ==
  ASSUME LinkInv, NEW m \in commandNet, DeliverCommand(m) PROVE LinkInv'
<1>1. CASE m.moving
  BY <1>1, GrantKeeps DEF DeliverCommand
<1>2. CASE ~m.moving
  <2>1. Board!Withdraw /\ UNCHANGED <<up, driving>>
    BY <1>2 DEF DeliverCommand, Board!Revoke
  <2>2. /\ commandNet' \subseteq commandNet /\ stateNet' \subseteq stateNet
        /\ UNCHANGED <<vars, awayVars, boot, opened, outage, positionBoot, originBoot,
                       haltVars>>
    BY <1>2 DEF DeliverCommand, awayVars, bootVars
  <2>3. BoardInv
    BY DEF LinkInv
  <2>4. /\ up' \in BOOLEAN /\ driving' \in BOOLEAN /\ opened' \in BOOLEAN
        /\ up' => up
    BY <2>1, <2>2, <2>3 DEF BoardInv
  <2> QED
    BY <2>1, <2>2, <2>3, <2>4, WithdrawLeaves, LessKeeps
<1> QED
  BY <1>1, <1>2

LEMMA LoseKeeps == ASSUME LinkInv, Lose PROVE LinkInv'
<1>1. /\ commandNet' \subseteq commandNet /\ stateNet' \subseteq stateNet
      /\ UNCHANGED <<vars, boardVars, bootVars, haltVars>>
  BY DEF Lose
<1>2. /\ BoardInv /\ UNCHANGED <<up, lease, driving>>
      /\ UNCHANGED <<boot, opened, outage, positionBoot, originBoot>>
  BY <1>1 DEF LinkInv, boardVars, awayVars, bootVars
<1>3. lease' \in 0..lease /\ (driving' => lease' > 0)
  BY <1>2 DEF BoardInv
<1>4. /\ up' \in BOOLEAN /\ driving' \in BOOLEAN /\ opened' \in BOOLEAN
      /\ up' => up
  BY <1>2 DEF BoardInv
<1> QED
  BY <1>1, <1>2, <1>3, <1>4, LessKeeps

LEMMA BoardStepKeeps == ASSUME LinkInv, BoardStep PROVE LinkInv'
<1>1. /\ commandNet' \subseteq commandNet /\ stateNet' \subseteq stateNet
      /\ UNCHANGED <<vars, positionBoot, originBoot, haltVars>>
      /\ BoardOpens \/ ((Board!Close \/ Board!Drive) /\ UNCHANGED awayVars)
  BY DEF BoardStep, netVars
<1>2. BoardInv
  BY DEF LinkInv
<1>3. CASE BoardOpens
  <2>1. /\ UNCHANGED <<lease, driving, boot, outage>>
        /\ up' = TRUE /\ opened' = TRUE
    BY <1>3 DEF BoardOpens, Board!Open
  <2>2. lease' \in 0..lease /\ (driving' => lease' > 0)
    BY <1>2, <2>1 DEF BoardInv
  <2>3. up' \in BOOLEAN /\ driving' \in BOOLEAN /\ opened' \in BOOLEAN
    BY <1>2, <2>1 DEF BoardInv
  <2> QED
    BY <1>1, <2>1, <2>2, <2>3, LessKeeps
<1>4. CASE Board!Close /\ UNCHANGED awayVars
  <2>1. /\ UNCHANGED <<driving, boot, opened, outage>> /\ up' = FALSE
        /\ Board!Withdraw
    BY <1>4 DEF Board!Close, awayVars
  <2>2. lease' \in 0..lease /\ (driving' => lease' > 0)
    BY <1>2, <2>1, WithdrawLeaves
  <2>3. up' \in BOOLEAN /\ driving' \in BOOLEAN /\ opened' \in BOOLEAN /\ ~up'
    BY <1>2, <2>1 DEF BoardInv
  <2> QED
    BY <1>1, <2>1, <2>2, <2>3, LessKeeps
<1>5. CASE Board!Drive /\ UNCHANGED awayVars
  <2>1. /\ UNCHANGED <<up, boot, opened, outage>> /\ driving' \in BOOLEAN
        /\ lease' \in 0..lease /\ (driving' => lease' > 0)
    BY <1>5 DEF Board!Drive, awayVars
  <2>2. up' \in BOOLEAN /\ opened' \in BOOLEAN /\ (up' => up)
    BY <1>2, <2>1 DEF BoardInv
  <2> QED
    BY <1>1, <2>1, <2>2, LessKeeps
<1> QED
  BY <1>1, <1>3, <1>4, <1>5

\* A reset takes the lease and the session; what the plugin has heard, and will
\* still hear, of the boot before is not older than it.
LEMMA BoardResetKeeps == ASSUME LinkInv, BoardReset PROVE LinkInv'
<1> USE DEF LinkInv
<1>1. /\ boot' = boot + 1 /\ lease' = 0 /\ up' = FALSE /\ driving' = FALSE
      /\ opened' = FALSE /\ outage' = IF opened THEN 0 ELSE outage
      /\ UNCHANGED <<vars, netVars, positionBoot, originBoot, haltVars>>
  BY DEF BoardReset, Board!Reset
<1>2. /\ Halted' = Halted
      /\ UNCHANGED <<commands, commandAge, received_state, stateAge>>
      /\ UNCHANGED <<commandNet, stateNet, sinceMotion, sinceHalt>>
  BY <1>1 DEF Halted, vars, flagVars, ageVars, netVars, haltVars
<1>3. PluginInv'
  BY <1>1 DEF PluginInv, vars, flagVars, ageVars
<1>4. BoardInv' /\ NetInv'
  <2>1. /\ up' \in BOOLEAN /\ driving' \in BOOLEAN /\ opened' \in BOOLEAN
        /\ ~driving' /\ ~up'
    BY <1>1
  <2>2. lease' \in 0..LeaseTime /\ outage' \in 0..OutageBound /\ lease' = 0
    BY <1>1, BoundsType DEF BoardInv
  <2>3. NetInv'
    BY <1>1, <1>2 DEF NetInv
  <2> QED
    BY <2>1, <2>2, <2>3 DEF BoardInv
<1>5. MotionInv' /\ HaltInv'
  BY <1>1, <1>2 DEF MotionInv, HaltInv
<1>6. BootInv'
  <2>1. /\ positionBoot < boot' /\ positionBoot <= boot' /\ positionBoot # boot'
        /\ originBoot < boot' /\ originBoot <= boot'
    BY <1>1 DEF NetInv, BootInv
  <2>2. \A m \in stateNet : m.boot < boot' /\ m.boot <= boot'
    BY <1>1 DEF NetInv, BootInv
  <2>3. CASE opened
    <3>1. outage' = 0
      BY <1>1, <2>3
    <3>2. \A m \in stateNet : outage' <= m.age
      BY <3>1 DEF NetInv
    <3>3. received_state => outage' <= stateAge + MaxDelay
      BY <3>1, TimeoutAssumption DEF PluginInv
    <3> QED
      BY <1>1, <1>2, <2>1, <2>2, <3>2, <3>3 DEF BootInv, OdometryInOneBoot
  <2>4. CASE ~opened
    <3>1. outage' = outage
      BY <1>1, <2>4
    <3>2. \A m \in stateNet : outage' <= m.age
      BY <2>4, <3>1 DEF BootInv, NetInv
    <3>3. received_state => stateAge > StateTimeout \/ outage' <= stateAge + MaxDelay
      BY <2>4, <3>1 DEF BootInv, NetInv
    <3> QED
      BY <1>1, <1>2, <2>1, <2>2, <3>2, <3>3 DEF BootInv, OdometryInOneBoot
  <2> QED
    BY <2>3, <2>4
<1>7. ResetInv'
  <2>1. \A m \in commandNet : m.moving => outage' <= StateTimeout + MaxDelay + m.age
    <3>1. CASE opened
      BY <1>1, <3>1, TimeoutAssumption DEF NetInv
    <3>2. CASE ~opened
      BY <1>1, <3>2 DEF BootInv, ResetInv, NetInv
    <3> QED
      BY <3>1, <3>2
  <2> QED
    BY <1>1, <1>2, <2>1 DEF ResetInv
<1> QED
  BY <1>3, <1>4, <1>5, <1>6, <1>7

-----------------------------------------------------------------------------
\* A state is sent only in a session of the present boot.
LEMMA SendStateKeeps == ASSUME LinkInv, SendState PROVE LinkInv'
<1> USE DEF LinkInv
<1> DEFINE sent == [boot |-> boot, age |-> 0]
<1>1. /\ up /\ \A m \in stateNet' : m \in stateNet \/ m = sent
      /\ UNCHANGED <<vars, boardVars, commandNet, bootVars, haltVars>>
  BY PutMember DEF SendState
<1>2. sent \in [boot : Nat, age : 0..MaxDelay] /\ sent.boot = boot
  BY DEF NetInv
<1> HIDE DEF sent
<1>3. /\ Halted' = Halted
      /\ UNCHANGED <<commands, commandAge, received_state, stateAge>>
      /\ UNCHANGED <<up, lease, driving, boot, opened, outage, positionBoot,
                     originBoot, sinceMotion, sinceHalt, commandNet>>
  BY <1>1 DEF Halted, vars, flagVars, ageVars, boardVars, awayVars, bootVars, haltVars
<1>4. PluginInv'
  BY <1>1 DEF PluginInv, vars, flagVars, ageVars
<1>5. BoardInv' /\ NetInv'
  BY <1>1, <1>2, <1>3 DEF BoardInv, NetInv
<1>6. MotionInv' /\ HaltInv'
  BY <1>3 DEF MotionInv, HaltInv
<1>7. BootInv'
  <2>1. opened
    BY <1>1 DEF BoardInv
  <2>2. \A m \in stateNet' : /\ m.boot <= boot
                             /\ m.boot # boot => outage <= m.age
    BY <1>1, <1>2 DEF BootInv, NetInv
  <2> QED
    BY <1>3, <2>1, <2>2 DEF BootInv, OdometryInOneBoot
<1>8. ResetInv'
  BY <1>3 DEF ResetInv
<1> QED
  BY <1>4, <1>5, <1>6, <1>7, <1>8

\* The first state after a long outage arrives after the timeout, and the
\* callback latches the fault by it, however small the jump.
LEMMA DeliverStateKeeps ==
  ASSUME LinkInv, NEW m \in stateNet, NEW sample, DeliverState(m, sample)
  PROVE  LinkInv'
<1> USE DEF LinkInv
<1>1. /\ JointStateCallback(sample) /\ positionBoot' = m.boot
      /\ stateNet' = stateNet \ {m} /\ NoteHalt
      /\ UNCHANGED <<boardVars, commandNet, awayVars, originBoot, sinceMotion>>
  BY DEF DeliverState
<1>2. /\ received_state' = TRUE /\ stateAge' = 0
      /\ UNCHANGED <<active, commands, commandAge>>
      /\ fault => fault'
      /\ active /\ received_state /\ stateAge > StateTimeout => fault'
  BY <1>1 DEF JointStateCallback, ageVars
<1>3. fault' \in BOOLEAN
  BY <1>1 DEF JointStateCallback, PluginInv
<1>4. PluginInv'
  <2>1. stateAge' \in 0..(StateTimeout + 1) /\ commandAge' \in 0..(CommandTimeout + 1)
    BY <1>2 DEF PluginInv
  <2>2. active' \in BOOLEAN /\ received_state' \in BOOLEAN
    BY <1>2 DEF PluginInv
  <2> QED
    BY <1>2, <1>3, <2>1, <2>2 DEF PluginInv
<1>5. BoardInv' /\ NetInv'
  BY <1>1 DEF BoardInv, NetInv, boardVars, awayVars
<1>6. MotionInv'
  BY <1>1, <1>2 DEF MotionInv, boardVars
<1>7. HaltInv'
  BY <1>1, NoteHaltKeeps DEF HaltInv, boardVars
<1>8. BootInv'
  <2>1. \A n \in stateNet' : n \in stateNet
    BY <1>1
  <2>2. m.boot \in Int /\ m.boot <= boot /\ (~opened => m.boot < boot)
    BY DEF BootInv, NetInv
  <2>3. m.boot # boot => outage <= 0 + MaxDelay
    BY DEF BootInv, BoardInv, NetInv
  <2>4. OdometryInOneBoot'
    <3> SUFFICES ASSUME ~Halted', m.boot = boot, outage > StateTimeout + MaxDelay
                 PROVE  originBoot = boot
      BY <1>1 DEF OdometryInOneBoot, awayVars
    <3>1. ~Halted /\ received_state /\ ~(stateAge > StateTimeout)
      BY <1>2 DEF Halted, PluginInv
    <3>2. positionBoot = boot
      BY <3>1, TimeoutAssumption, BoundsType DEF BootInv, PluginInv, BoardInv
    <3> QED
      BY <3>1, <3>2 DEF BootInv, OdometryInOneBoot
  <2> QED
    BY <1>1, <1>2, <2>1, <2>2, <2>3, <2>4 DEF BootInv, awayVars
<1>9. ResetInv'
  BY <1>1 DEF ResetInv, boardVars, awayVars
<1> QED
  BY <1>4, <1>5, <1>6, <1>7, <1>8, <1>9

-----------------------------------------------------------------------------
\* One tick: ages grow together, and the lease shrinks as fast as the others
\* grow.
LEMMA UpToStep ==
  ASSUME NEW n \in Nat, NEW cap \in Nat
  PROVE  UpTo(n + 1, cap) \in 0..cap /\ UpTo(n + 1, cap) <= n + 1
  BY DEF UpTo

LEMMA AgedMember ==
  ASSUME NEW net, NEW n \in Aged(net)
  PROVE  \E m \in net : n = [m EXCEPT !.age = @ + 1]
  BY DEF Aged

LEMMA TickNets ==
  ASSUME LinkInv, LinkTick
  PROVE  /\ NetInv'
         /\ \A n \in commandNet' : \E m \in commandNet :
              m.age \in Nat /\ n.age = m.age + 1 /\ n.moving = m.moving
         /\ \A n \in stateNet' : \E m \in stateNet :
              m.age \in Nat /\ n.age = m.age + 1 /\ n.boot = m.boot
<1> USE DEF LinkInv
<1>1. /\ commandNet' = Aged(commandNet) /\ stateNet' = Aged(stateNet)
      /\ \A m \in commandNet \cup stateNet : m.age < MaxDelay
      /\ UNCHANGED boot
  BY DEF LinkTick
<1>2. \A n \in commandNet' : \E m \in commandNet :
        /\ m.age \in Nat /\ n.age = m.age + 1 /\ n.moving = m.moving
        /\ n \in [moving : BOOLEAN, age : 0..MaxDelay]
  <2> SUFFICES ASSUME NEW n \in commandNet'
               PROVE  \E m \in commandNet :
                        /\ m.age \in Nat /\ n.age = m.age + 1 /\ n.moving = m.moving
                        /\ n \in [moving : BOOLEAN, age : 0..MaxDelay]
    OBVIOUS
  <2>1. PICK m \in commandNet : n = [m EXCEPT !.age = @ + 1]
    BY <1>1, AgedMember
  <2>2. m \in [moving : BOOLEAN, age : 0..MaxDelay] /\ m.age < MaxDelay
    BY <1>1 DEF NetInv
  <2>3. m.age + 1 \in 0..MaxDelay /\ m.age \in Nat
    BY <2>2
  <2>4. n.age = m.age + 1 /\ n.moving = m.moving
    BY <2>1, <2>2
  <2>5. n \in [moving : BOOLEAN, age : 0..MaxDelay]
    BY <2>1, <2>2, <2>3
  <2> QED
    BY <2>3, <2>4, <2>5
<1>3. \A n \in stateNet' : \E m \in stateNet :
        /\ m.age \in Nat /\ n.age = m.age + 1 /\ n.boot = m.boot
        /\ n \in [boot : Nat, age : 0..MaxDelay]
  <2> SUFFICES ASSUME NEW n \in stateNet'
               PROVE  \E m \in stateNet :
                        /\ m.age \in Nat /\ n.age = m.age + 1 /\ n.boot = m.boot
                        /\ n \in [boot : Nat, age : 0..MaxDelay]
    OBVIOUS
  <2>1. PICK m \in stateNet : n = [m EXCEPT !.age = @ + 1]
    BY <1>1, AgedMember
  <2>2. m \in [boot : Nat, age : 0..MaxDelay] /\ m.age < MaxDelay
    BY <1>1 DEF NetInv
  <2>3. m.age + 1 \in 0..MaxDelay /\ m.age \in Nat
    BY <2>2
  <2>4. n.age = m.age + 1 /\ n.boot = m.boot
    BY <2>1, <2>2
  <2>5. n \in [boot : Nat, age : 0..MaxDelay]
    BY <2>1, <2>2, <2>3
  <2> QED
    BY <2>3, <2>4, <2>5
<1>4. NetInv'
  BY <1>1, <1>2, <1>3 DEF NetInv
<1> QED
  BY <1>2, <1>3, <1>4

\* What a tick does to the numbers.
LEMMA TickNumbers ==
  ASSUME LinkInv, LinkTick
  PROVE  /\ stateAge' \in 0..(StateTimeout + 1)
         /\ stateAge' = IF stateAge > StateTimeout THEN stateAge ELSE stateAge + 1
         /\ commandAge' \in 0..(CommandTimeout + 1)
         /\ commandAge' = IF commandAge > CommandTimeout THEN commandAge
                                                       ELSE commandAge + 1
         /\ sinceMotion' \in 0..MotionBound /\ sinceMotion' <= sinceMotion + 1
         /\ sinceHalt' \in 0..HaltBound /\ sinceHalt' <= sinceHalt + 1
         /\ ~Halted => sinceHalt' = 0
         /\ outage' \in 0..OutageBound /\ outage' <= outage + 1
         /\ opened => outage' = outage
         /\ lease' \in 0..LeaseTime
         /\ lease' = IF lease > 0 THEN lease - 1 ELSE 0
         /\ driving => lease' > 0
<1> USE DEF LinkInv
<1>1. /\ Tick /\ Board!Tick
      /\ sinceMotion' = UpTo(sinceMotion + 1, MotionBound)
      /\ sinceHalt' = IF Halted THEN UpTo(sinceHalt + 1, HaltBound) ELSE 0
      /\ outage' = IF opened THEN outage ELSE UpTo(outage + 1, OutageBound)
  BY DEF LinkTick
<1>2. /\ stateAge' \in 0..(StateTimeout + 1)
      /\ stateAge' = IF stateAge > StateTimeout THEN stateAge ELSE stateAge + 1
  BY <1>1 DEF Tick, Older, UpTo, PluginInv
<1>3. /\ commandAge' \in 0..(CommandTimeout + 1)
      /\ commandAge' = IF commandAge > CommandTimeout THEN commandAge
                                                    ELSE commandAge + 1
  BY <1>1 DEF Tick, Older, UpTo, PluginInv
<1>4. sinceMotion' \in 0..MotionBound /\ sinceMotion' <= sinceMotion + 1
  BY <1>1, BoundsType, UpToStep DEF MotionInv
<1>5. sinceHalt' \in 0..HaltBound /\ sinceHalt' <= sinceHalt + 1
  BY <1>1, BoundsType, UpToStep DEF HaltInv
<1>6. /\ outage' \in 0..OutageBound /\ outage' <= outage + 1
      /\ opened => outage' = outage
  BY <1>1, BoundsType, UpToStep DEF BoardInv
<1>7. /\ lease' \in 0..LeaseTime
      /\ lease' = IF lease > 0 THEN lease - 1 ELSE 0
      /\ driving => lease' > 0
  BY <1>1 DEF Board!Tick, BoardInv
<1> QED
  BY <1>1, <1>2, <1>3, <1>4, <1>5, <1>6, <1>7

LEMMA TickOthers ==
  ASSUME LinkTick
  PROVE  /\ Halted' = Halted
         /\ UNCHANGED <<active, fault, received_state, commands, up, driving,
                       boot, opened, positionBoot, originBoot>>
  BY DEF LinkTick, Tick, Board!Tick, Halted, flagVars

LEMMA LinkTickKeeps == ASSUME LinkInv, LinkTick PROVE LinkInv'
<1> USE DEF LinkInv
<1>1. PluginInv'
  <2>1. active' \in BOOLEAN /\ fault' \in BOOLEAN /\ received_state' \in BOOLEAN
    BY TickOthers DEF PluginInv
  <2>2. active' => received_state'
    BY TickOthers DEF PluginInv
  <2> QED
    BY <2>1, <2>2, TickNumbers DEF PluginInv
<1>2. BoardInv'
  <2>1. up' \in BOOLEAN /\ driving' \in BOOLEAN /\ (driving' => lease' > 0)
    BY TickNumbers, TickOthers DEF BoardInv
  <2>2. opened' \in BOOLEAN /\ (~opened' => ~up')
    BY TickOthers DEF BoardInv
  <2>3. ~opened' => lease' = 0
    BY TickNumbers, TickOthers DEF BoardInv
  <2> QED
    BY <2>1, <2>2, <2>3, TickNumbers DEF BoardInv
<1>3. NetInv'
  BY TickNets
<1>4. MotionInv'
  <2>1. commands' # Zero => \/ commandAge' > CommandTimeout
                            \/ sinceMotion' <= commandAge'
    BY TickNumbers, TickOthers, BoundsType DEF MotionInv, PluginInv
  <2>2. \A n \in commandNet' : n.moving => sinceMotion' <= CommandTimeout + n.age
    <3> SUFFICES ASSUME NEW n \in commandNet', n.moving
                 PROVE  sinceMotion' <= CommandTimeout + n.age
      OBVIOUS
    <3>1. PICK m \in commandNet :
            m.age \in Nat /\ n.age = m.age + 1 /\ n.moving = m.moving
      BY TickNets
    <3>2. sinceMotion <= CommandTimeout + m.age
      BY <3>1 DEF MotionInv
    <3> QED
      BY <3>1, <3>2, TickNumbers, BoundsType DEF MotionInv
  <2>3. lease' > 0 => sinceMotion' + lease' <= MotionBound
    BY TickNumbers, BoundsType DEF MotionInv, BoardInv
  <2> QED
    BY <2>1, <2>2, <2>3, TickNumbers DEF MotionInv
<1>5. HaltInv'
  <2>1. ~Halted' => sinceHalt' = 0
    BY TickNumbers, TickOthers
  <2>2. \A n \in commandNet' : n.moving => sinceHalt' <= n.age
    <3> SUFFICES ASSUME NEW n \in commandNet', n.moving
                 PROVE  sinceHalt' <= n.age
      OBVIOUS
    <3>1. PICK m \in commandNet :
            m.age \in Nat /\ n.age = m.age + 1 /\ n.moving = m.moving
      BY TickNets
    <3>2. sinceHalt <= m.age
      BY <3>1 DEF HaltInv
    <3> QED
      BY <3>1, <3>2, TickNumbers, BoundsType DEF HaltInv
  <2>3. lease' > 0 => sinceHalt' + lease' <= HaltBound
    BY TickNumbers, BoundsType DEF HaltInv, BoardInv
  <2> QED
    BY <2>1, <2>2, <2>3, TickNumbers DEF HaltInv
<1>6. BootInv'
  <2>1. \A n \in stateNet' : /\ n.boot <= boot /\ (~opened => n.boot < boot)
                             /\ n.boot # boot => outage' <= n.age
    <3> SUFFICES ASSUME NEW n \in stateNet'
                 PROVE  /\ n.boot <= boot /\ (~opened => n.boot < boot)
                        /\ n.boot # boot => outage' <= n.age
      OBVIOUS
    <3>1. PICK m \in stateNet :
            m.age \in Nat /\ n.age = m.age + 1 /\ n.boot = m.boot
      BY TickNets
    <3>2. m.boot # boot => outage <= m.age
      BY DEF BootInv
    <3> QED
      BY <3>1, <3>2, TickNumbers, BoundsType DEF BoardInv, BootInv
  <2>2. received_state /\ positionBoot # boot =>
          stateAge' > StateTimeout \/ outage' <= stateAge' + MaxDelay
    BY TickNumbers, BoundsType DEF BootInv, PluginInv, BoardInv
  <2>3. OdometryInOneBoot'
    <3>1. CASE opened
      BY <3>1, TickNumbers, TickOthers DEF BootInv, OdometryInOneBoot
    <3>2. CASE ~opened
      BY <3>2, TickOthers DEF BootInv, OdometryInOneBoot
    <3> QED
      BY <3>1, <3>2
  <2> QED
    BY <2>1, <2>2, <2>3, TickOthers DEF BootInv
<1>7. ResetInv'
  <2>1. lease' > 0 /\ outage' > StateTimeout + 2 * MaxDelay => originBoot = boot
    <3>1. lease' > 0 => lease > 0 /\ opened
      BY TickNumbers DEF BoardInv
    <3> QED
      BY <3>1, TickNumbers DEF ResetInv
  <2>2. originBoot # boot =>
          \A n \in commandNet' :
            n.moving => outage' <= StateTimeout + MaxDelay + n.age
    <3> SUFFICES ASSUME originBoot # boot, NEW n \in commandNet', n.moving
                 PROVE  outage' <= StateTimeout + MaxDelay + n.age
      OBVIOUS
    <3>1. PICK m \in commandNet :
            m.age \in Nat /\ n.age = m.age + 1 /\ n.moving = m.moving
      BY TickNets
    <3>2. outage <= StateTimeout + MaxDelay + m.age
      BY <3>1 DEF ResetInv
    <3> QED
      BY <3>1, <3>2, TickNumbers, TimeoutAssumption, BoundsType DEF BoardInv
  <2> QED
    BY <2>1, <2>2, TickOthers DEF ResetInv
<1> QED
  BY <1>1, <1>2, <1>3, <1>4, <1>5, <1>6, <1>7

-----------------------------------------------------------------------------
LEMMA LinkNextInv == LinkInv /\ [LinkNext]_linkVars => LinkInv'
<1> SUFFICES ASSUME LinkInv, [LinkNext]_linkVars PROVE LinkInv'
  OBVIOUS
<1>1. CASE LinkNext
  BY <1>1, PluginStepKeeps, SendCommandKeeps, SendStateKeeps, LoseKeeps,
     DeliverCommandKeeps, DeliverStateKeeps, BoardStepKeeps, BoardResetKeeps,
     LinkTickKeeps DEF LinkNext
<1>2. CASE UNCHANGED linkVars
  <2>1. /\ commandNet' \subseteq commandNet /\ stateNet' \subseteq stateNet
        /\ UNCHANGED <<vars, haltVars, up, lease, driving>>
        /\ UNCHANGED <<boot, opened, outage, positionBoot, originBoot>>
    BY <1>2 DEF linkVars, boardVars, netVars, awayVars, bootVars
  <2>2. BoardInv
    BY DEF LinkInv
  <2>3. lease' \in 0..lease /\ (driving' => lease' > 0)
    BY <2>1, <2>2 DEF BoardInv
  <2>4. /\ up' \in BOOLEAN /\ driving' \in BOOLEAN /\ opened' \in BOOLEAN
        /\ up' => up
    BY <2>1, <2>2 DEF BoardInv
  <2> QED
    BY <2>1, <2>3, <2>4, LessKeeps
<1> QED
  BY <1>1, <1>2

LEMMA LinkInvariance == LinkSpec => []LinkInv
  BY LinkInitInv, LinkNextInv, PTL DEF LinkSpec

\* A motor that turns was asked to by a controller at most the command timeout
\* of the plugin, one delay and one lease ago.
THEOREM MotionIsRecentAlways == LinkSpec => []MotionIsRecent
<1>1. LinkInv => MotionIsRecent
  BY BoundsType DEF LinkInv, BoardInv, MotionInv, MotionIsRecent
<1> QED
  BY <1>1, LinkInvariance, PTL

\* A plugin that was deactivated, has a fault or was killed leaves the motors
\* turning for less than one delay and one lease, whatever is lost.
THEOREM HaltReachesMotorsAlways == LinkSpec => []HaltReachesMotors
<1>1. LinkInv => HaltReachesMotors
  BY BoundsType DEF LinkInv, BoardInv, HaltInv, HaltReachesMotors
<1> QED
  BY <1>1, LinkInvariance, PTL

\* After an outage longer than the state timeout and one delay a plugin without
\* a fault does not mix positions of two boots, whatever number of resets there
\* was and however the states of the boots before overtook each other.
THEOREM OdometryInOneBootAlways == LinkSpec => []OdometryInOneBoot
<1>1. LinkInv => OdometryInOneBoot
  BY DEF LinkInv, BootInv, OdometryInOneBoot
<1> QED
  BY <1>1, LinkInvariance, PTL

\* After an outage longer than the state timeout and two delays nothing moves
\* until an activation with positions counted since the reset.
THEOREM ResetNeedsActivationAlways == LinkSpec => []ResetNeedsActivation
<1>1. LinkInv => ResetNeedsActivation
  BY DEF LinkInv, BoardInv, ResetInv, ResetNeedsActivation
<1> QED
  BY <1>1, LinkInvariance, PTL

-----------------------------------------------------------------------------
\* A step of the link is one of the plugin as DiffBotSystem has it, leaves it
\* alone, or starts it anew.
LEMMA LinkPluginStep == [LinkNext]_linkVars => [Next]_vars \/ Init'
<1> SUFFICES ASSUME [LinkNext]_linkVars PROVE [Next]_vars \/ Init'
  OBVIOUS
<1>1. CASE PluginStep
  <2>1. CASE PluginWrite \/ PluginActivate
    BY <2>1 DEF PluginWrite, PluginActivate, Next, Lifecycle
  <2>2. CASE PluginOther
    <3>1. CASE PluginRestarts
      BY <3>1 DEF PluginRestarts, Init, Zero
    <3>2. ASSUME NEW c \in Command, ControllerUpdate(c) PROVE Next
      <4>1. c \in [Wheel -> Speed \cup {NotFinite}]
        BY DEF Command
      <4> QED
        BY <3>2, <4>1 DEF Next
    <3> QED
      BY <2>2, <3>1, <3>2 DEF PluginOther, Next, Lifecycle
  <2> QED
    BY <1>1, <2>1, <2>2 DEF PluginStep
<1>2. CASE SendCommand
  BY <1>2 DEF SendCommand, Next, Lifecycle
<1>3. ASSUME NEW m \in stateNet, NEW sample \in [Wheel -> Position],
             DeliverState(m, sample)
      PROVE  Next
  BY <1>3 DEF DeliverState, Next
<1>4. CASE LinkTick
  BY <1>4 DEF LinkTick, Next
<1>5. ASSUME SendState \/ Lose \/ BoardStep \/ BoardReset
               \/ \E m \in commandNet : DeliverCommand(m)
      PROVE  UNCHANGED vars
  BY <1>5 DEF SendState, Lose, BoardStep, BoardReset, DeliverCommand
<1>6. CASE UNCHANGED linkVars
  BY <1>6 DEF linkVars
<1> QED
  BY <1>1, <1>2, <1>3, <1>4, <1>5, <1>6 DEF LinkNext

\* What was proved of one life of the plugin holds on the link through any
\* number of restarts of its process and whatever the board and the link do:
\* no command, stop or origin of an earlier life is taken for one of this.
THEOREM PluginAcrossRestarts ==
  LinkSpec => [](/\ TypeOK /\ ActiveMatchesLifecycle /\ StopIsLastWord
                 /\ NoLeftoverCommand /\ OdometryWithinReach)
<1>1. LinkInit => IInv
  BY InitIInv DEF LinkInit
<1>2. Init' => IInv'
  BY InitIInv, PTL
<1>3. IInv /\ [LinkNext]_linkVars => IInv'
  BY <1>2, LinkPluginStep, NextIInv
<1>4. IInv => /\ TypeOK /\ ActiveMatchesLifecycle /\ StopIsLastWord
              /\ NoLeftoverCommand /\ OdometryWithinReach
  BY DEF IInv, PhaseInv, StopInv, CommandInv, OdometryInv, ActiveMatchesLifecycle,
         StopIsLastWord, NoLeftoverCommand, OdometryWithinReach
<1> QED
  BY <1>1, <1>3, <1>4, PTL DEF LinkSpec

\* The board of the link takes no liberty with DriveLease, which the firmware
\* implements, so that the theorems end to end speak of the firmware.  The link
\* does not look at the board's clock, which the instance leaves at one value.
THEOREM BoardOnLink == LinkSpec => Board!Spec
<1>1. LinkInit => Board!Init
  BY DEF LinkInit
<1>2. [LinkNext]_linkVars => [Board!Next]_Board!vars
  <2> SUFFICES ASSUME [LinkNext]_linkVars PROVE [Board!Next]_Board!vars
    OBVIOUS
  <2>1. CASE PluginStep \/ SendCommand \/ SendState \/ Lose
    <3>1. UNCHANGED boardVars
      BY <2>1 DEF PluginStep, SendCommand, SendState, Lose
    <3> QED
      BY <3>1 DEF boardVars, Board!vars
  <2>2. ASSUME NEW m \in commandNet, DeliverCommand(m) PROVE Board!Next
    BY <2>2 DEF DeliverCommand, Board!Next
  <2>3. ASSUME NEW m \in stateNet, NEW sample \in [Wheel -> Position],
               DeliverState(m, sample)
        PROVE  UNCHANGED Board!vars
    BY <2>3 DEF DeliverState, boardVars, Board!vars
  <2>4. CASE BoardStep \/ BoardReset \/ LinkTick
    BY <2>4 DEF BoardStep, BoardOpens, BoardReset, LinkTick, Board!Next
  <2>5. CASE UNCHANGED linkVars
    BY <2>5 DEF linkVars, boardVars, Board!vars
  <2> QED
    BY <2>1, <2>2, <2>3, <2>4, <2>5 DEF LinkNext
<1> QED
  BY <1>1, <1>2, PTL DEF LinkSpec, Board!Spec
=============================================================================
