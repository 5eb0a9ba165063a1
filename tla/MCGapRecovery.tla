---------------------------- MODULE MCGapRecovery ----------------------------
(***************************************************************************)
(* GapRecovery for TLC, where what it promises is refuted.                 *)
(***************************************************************************)
EXTENDS GapRecovery
=============================================================================
