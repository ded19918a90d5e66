----------------------------- MODULE DriveLease -----------------------------
(***************************************************************************)
(* What the wheel controller promises to whoever sends it commands, free   *)
(* of tasks, clocks and sessions: the motors turn only on a lease.  A      *)
(* command that asks for motion renews the lease; a stop, a refused        *)
(* command or the loss of the session leaves it at most StopTime; time     *)
(* consumes it.  The firmware (McuFirmware) implements this module, and    *)
(* DriveLink composes it with the hardware plugin.                         *)
(***************************************************************************)
EXTENDS Integers

CONSTANTS
  LeaseTime,   \* how long one command may keep the motors turning
  StopTime,    \* how long they may turn once told to stop, at most LeaseTime
  OpenDelay,   \* time from a reset to the first session
  Wrap         \* number of values of the clock

VARIABLES
  up,       \* a session with the agent is open
  lease,    \* remaining ticks during which a motor may turn
  driving,  \* a motor turns
  uptime,   \* time since the last reset, counted up to OpenDelay
  clock     \* the board's clock, which only Tick advances

vars == <<up, lease, driving, uptime, clock>>

AtMost(n, cap) == IF n < cap THEN n ELSE cap

Init == /\ up = FALSE /\ lease = 0 /\ driving = FALSE
        /\ uptime = 0 /\ clock = 0

Reset == /\ up' = FALSE /\ lease' = 0 /\ driving' = FALSE
         /\ uptime' = 0 /\ clock' = 0

Open == /\ ~up /\ uptime = OpenDelay
        /\ up' = TRUE
        /\ UNCHANGED <<lease, driving, uptime, clock>>

\* The lease is given back down to what is needed to come to a stop.
Withdraw == lease' \in 0..AtMost(lease, StopTime) /\ (driving => lease' > 0)

Close == up' = FALSE /\ Withdraw /\ UNCHANGED <<driving, uptime, clock>>

Grant == /\ up
         /\ lease' = LeaseTime
         /\ UNCHANGED <<up, driving, uptime, clock>>

Revoke == up /\ Withdraw /\ UNCHANGED <<up, driving, uptime, clock>>

\* The motors follow the command, or stop, within the lease.
Drive == /\ driving' \in BOOLEAN
         /\ lease' \in 0..lease
         /\ driving' => lease' > 0
         /\ UNCHANGED <<up, uptime, clock>>

\* Mutant: there is no watchdog.
TickWithoutWatchdog ==
  /\ uptime' = AtMost(uptime + 1, OpenDelay)
  /\ clock' = IF clock = Wrap - 1 THEN 0 ELSE clock + 1
  /\ UNCHANGED <<up, driving, lease>>

\* No time passes over the end of a lease while a motor turns.
Tick == /\ driving => lease > 1
        /\ lease' = IF lease > 0 THEN lease - 1 ELSE 0
        /\ uptime' = AtMost(uptime + 1, OpenDelay)
        /\ clock' = IF clock = Wrap - 1 THEN 0 ELSE clock + 1
        /\ UNCHANGED <<up, driving>>

Next == Reset \/ Open \/ Close \/ Grant \/ Revoke \/ Drive \/ Tick

Spec == Init /\ [][Next]_vars
=============================================================================
