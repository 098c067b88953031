-------------------------- MODULE MCSavingsVaults ---------------------------
(***************************************************************************)
(* SavingsVaults for TLC: three requests on one vault.                     *)
(***************************************************************************)
EXTENDS SavingsVaults

CONSTANTS r1, r2, r3, v1

MCRequests == {r1, r2, r3}
MCVaults == {v1}
MCAmounts == {1}
=============================================================================
