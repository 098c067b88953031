------------------------------- MODULE MCHtlc -------------------------------
(***************************************************************************)
(* Htlc for TLC.  The vectors of approved signers are the empty one, two   *)
(* different addresses, and one address twice.                             *)
(***************************************************************************)
EXTENDS Htlc

CONSTANTS alice, bob, carol

MCAccounts == {alice, bob, carol}
MCBalances == [a \in MCAccounts |-> 2]
MCAmounts == {0, 1, 2}
MCTimelocks == {0, 1, 3}
MCApproved == {<<>>, <<alice, bob>>, <<carol, carol>>}
MCRequired == {0, 1, 2, 3}
=============================================================================
