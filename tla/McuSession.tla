----------------------------- MODULE McuSession -----------------------------
(***************************************************************************)
(* The session of the firmware with its agent, entity by entity            *)
(* (src/arduino/micro_ros_client.ino, createEntities, destroyEntities and  *)
(* loop).  McuFirmware takes each of the two functions as one step of      *)
(* loop(); here every call in them that may block or fail is a step, with  *)
(* controlTask, time and resets in between.  A step of McuFirmware's       *)
(* loop() waits for the function that is under way.                        *)
(***************************************************************************)
EXTENDS McuFirmware, Sequences, FiniteSetsExt

CONSTANT MaxResets  \* bound on the resets of the board

ASSUME SessionAssumption == MaxResets \in Nat

VARIABLES
  live,      \* the handles that hold an entity
  ready,     \* the handles whose _ready flag is set
  attached,  \* the executor has the subscription
  closing,   \* destroyEntities has begun
  obstacle,  \* the step of the present createEntities that will fail
  \* history variables
  lost,      \* entities whose handle was zeroed while it held them
  boots      \* resets so far

sessionVars == <<live, ready, attached, closing, obstacle, lost, boots>>
allVars == <<vars, sessionVars>>
-----------------------------------------------------------------------------
CreateOrder == <<"support", "node", "sub", "state_pub", "imu_pub",
                 "battery_pub", "executor">>
Handle == {CreateOrder[i] : i \in DOMAIN CreateOrder}
Entities == Len(CreateOrder)

\* Mutant: the publisher of the IMU, added later, is forgotten.
DestroyOrderWithoutImu == <<"executor", "sub", "state_pub", "battery_pub",
                            "node", "support">>
DestroyOrder == <<"executor", "sub", "state_pub", "battery_pub", "imu_pub",
                  "node", "support">>

\* What an entity refers to as long as it lives: its context or node, and for
\* the executor the subscription too.
Uses(h) == CASE h = "support" -> {}
             [] h = "node" -> {"support"}
             [] h = "executor" -> {"support"} \cup (IF attached THEN {"sub"} ELSE {})
             [] OTHER -> {"node"}

Idle == ~closing /\ loop # "create"
Built == Cardinality(ready)

SessionInit ==
  /\ Init
  /\ live = {} /\ ready = {} /\ attached = FALSE /\ closing = FALSE
  /\ obstacle = 0 /\ lost = {} /\ boots = 0

\* Everything of loop() that leaves the entities alone.
LoopStep ==
  /\ Idle
  /\ \/ PingAgent \/ PingUnanswered \/ BeginLoop \/ PingSucceeds
     \/ \E m \in Message : CommandCallback(m)
     \/ NoCommand \/ PublishState \/ EndLoop
  /\ UNCHANGED sessionVars

\* The agent has answered and createEntities zeroes every handle.  What the
\* agent and the heap will refuse in this attempt is chosen here: one of the
\* entities, adding the subscription to the executor, or nothing (0).
BeginCreate(fails) ==
  /\ Idle /\ PingAnswered
  /\ obstacle' = fails
  /\ live' = {} /\ lost' = lost \cup live
  /\ attached' = FALSE
  /\ UNCHANGED <<ready, closing, boots>>

CreateEntity ==
  /\ loop = "create" /\ Built < Entities /\ obstacle # Built + 1
  /\ LET h == CreateOrder[Built + 1]
     IN live' = live \cup {h} /\ ready' = ready \cup {h}
  /\ UNCHANGED <<vars, attached, closing, obstacle, lost, boots>>

\* rclc_executor_add_subscription, the last call that may fail.
AddSubscription ==
  /\ loop = "create" /\ Built = Entities /\ ~attached
  /\ obstacle # Entities + 1
  /\ attached' = TRUE
  /\ UNCHANGED <<vars, live, ready, closing, obstacle, lost, boots>>

FinishCreate == attached /\ CreateSucceeds /\ UNCHANGED sessionVars

BeginDestroy == /\ closing' = TRUE /\ obstacle' = 0
                /\ UNCHANGED <<live, ready, attached, lost, boots>>

\* Mutant: a flag is set before the call that then fails.
FailCreateFlagSet ==
  /\ loop = "create" /\ obstacle = Built + 1 /\ CreateFails
  /\ ready' = {CreateOrder[i] : i \in 1..UpTo(Built + 1, Entities)}
  /\ closing' = TRUE /\ obstacle' = 0 /\ UNCHANGED <<live, attached, lost, boots>>

\* createEntities returns false at its obstacle, and loop() cleans up.
FailCreate == /\ loop = "create" /\ obstacle = Built + 1
              /\ CreateFails /\ BeginDestroy

\* An open session is lost: a ping, the spin or a publication fails.
LoseSession == Idle /\ (PingFails \/ LinkFails) /\ BeginDestroy

\* The next of the _fini calls whose flag is set; destroyEntities returns after
\* the last.  What the calls return is ignored, and they release the entity.
DestroyEntity ==
  /\ closing
  /\ IF \E i \in DOMAIN DestroyOrder : DestroyOrder[i] \in ready
     THEN LET first == Min({i \in DOMAIN DestroyOrder : DestroyOrder[i] \in ready})
              h == DestroyOrder[first]
          IN /\ live' = live \ {h} /\ ready' = ready \ {h}
             /\ attached' = (attached /\ h # "executor")
             /\ UNCHANGED closing
     ELSE closing' = FALSE /\ UNCHANGED <<live, ready, attached>>
  /\ UNCHANGED <<vars, obstacle, lost, boots>>

\* The memory of the board is gone, and with it what the handles held.
SessionReset ==
  /\ boots < MaxResets /\ boots' = boots + 1
  /\ Reset
  /\ live' = {} /\ ready' = {} /\ attached' = FALSE /\ closing' = FALSE
  /\ obstacle' = 0 /\ lost' = lost

Create == CreateEntity \/ AddSubscription \/ FinishCreate \/ FailCreate
Begin == \E fails \in 0..(Entities + 1) : BeginCreate(fails)

SessionNext ==
  \/ LoopStep \/ Begin \/ Create \/ LoseSession \/ DestroyEntity
  \/ (Control \/ Tick) /\ UNCHANGED sessionVars
  \/ SessionReset

\* As in McuFirmware: without a session calls return, and an agent that is
\* asked time and again at last answers and refuses nothing.
SessionFairness ==
  /\ WF_allVars(Tick /\ UNCHANGED sessionVars)
  /\ WF_allVars(Control /\ UNCHANGED sessionVars)
  /\ SF_allVars(PingAgent /\ LoopStep)
  /\ WF_allVars((PingUnanswered /\ LoopStep) \/ Begin)
  /\ SF_allVars(BeginCreate(0))
  /\ WF_allVars(Create \/ DestroyEntity)
SessionSpec == SessionInit /\ [][SessionNext]_allVars /\ SessionFairness
-----------------------------------------------------------------------------
\* Nothing leaks from one session to the next: whatever step of createEntities
\* failed, or whichever call lost the session, every entity is released before
\* its handle is zeroed by the next attempt.
NothingLeaks == lost = {}

\* While sessions are opened, fail half way and are closed: no entity outlives
\* what it refers to (an executor its subscription, a publisher its node, a node
\* its context), loop() pings, spins and publishes only with every entity alive,
\* and no flag speaks for a handle that is zero.
EntitiesLive ==
  /\ \A h \in live : Uses(h) \subseteq live
  /\ ready \subseteq live
  /\ Idle /\ loop \in {"ping", "spin", "state", "imu"} => live = Handle /\ attached
=============================================================================
