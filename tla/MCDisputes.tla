----------------------------- MODULE MCDisputes -----------------------------
(***************************************************************************)
(* Disputes for TLC: three requests, so that one can open a dispute two    *)
(* others race to close, or post a reversal others retry and announce.     *)
(***************************************************************************)
EXTENDS Disputes

CONSTANTS r1, r2, r3

MCRequests == {r1, r2, r3}
=============================================================================
