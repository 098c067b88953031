------------------------------- MODULE Vault --------------------------------
(***************************************************************************)
(* What a custody contract promises, whatever its rules of release are: it *)
(* takes one deposit and pays the whole of it out in one step, once.       *)
(* Escrow and Htlc are shown to implement it.                              *)
(***************************************************************************)
EXTENDS Naturals

VARIABLES
  stage,  \* "empty", then "holding", then "paid"
  held    \* tokens in the contract's own account

vaultVars == <<stage, held>>

Init == stage = "empty" /\ held = 0

\* One deposit of a positive amount.
Deposit ==
  /\ stage = "empty"
  /\ stage' = "holding"
  /\ held' \in Nat \ {0}

\* One payout, of everything.
PayOut ==
  /\ stage = "holding"
  /\ stage' = "paid"
  /\ held' = 0

Next == Deposit \/ PayOut

Spec == Init /\ [][Next]_vaultVars
=============================================================================
