-------------------------- MODULE MCDiffBotSystem --------------------------
(***************************************************************************)
(* Small instances of DiffBotSystem: wheel positions -1..1, wheel speeds   *)
(* 0 and 1, all timeouts a few ticks long and different from each other.   *)
(***************************************************************************)
EXTENDS DiffBotSystem

SmallPositions == -1..1
=============================================================================
