------------------------------ MODULE MCEscrow ------------------------------
(***************************************************************************)
(* Escrow for TLC.  The fee rates make the fee zero, rounded, and the      *)
(* whole amount; with MaxI128 = 29999 the largest product overflows, so a  *)
(* release that aborts is part of the run.                                 *)
(***************************************************************************)
EXTENDS Escrow

CONSTANTS alice, bob, carol

MCAccounts == {alice, bob, carol}
MCBalances == [a \in MCAccounts |-> 3]
MCAmounts == {0, 1, 3}
MCFeeRates == {0, 3334, 10000, 10001}
MCUnlocks == {1, 3}
MCLocks == {0, 1, 2}
=============================================================================
