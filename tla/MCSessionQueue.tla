--------------------------- MODULE MCSessionQueue ---------------------------
(***************************************************************************)
(* SessionQueue for TLC: three requests of one session key, enough for one *)
(* to run, one to wait and one to find the queue dropped, full or cleared. *)
(* The theorems of SessionQueueProofs are about any number of keys.        *)
(***************************************************************************)
EXTENDS SessionQueue

CONSTANTS r1, r2, r3, orange

MCRequests == {r1, r2, r3}
MCKeys == {orange}
MCKeyOf == [r \in MCRequests |-> orange]
MCExpiries == {0, 1}
=============================================================================
