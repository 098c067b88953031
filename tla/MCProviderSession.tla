------------------------- MODULE MCProviderSession --------------------------
(***************************************************************************)
(* ProviderSession for TLC: two calls with two queue entries each, so that *)
(* a call that is retried meets the other one.  Sessions live for two      *)
(* ticks and are refreshed in the second, or expire when a cookie says: at *)
(* once or soon, or after the last tick.                                   *)
(***************************************************************************)
EXTENDS ProviderSession

CONSTANTS a1, a2, b1, b2, c1, c2, airtel

MCCalls == {c1, c2}
MCRequests == {a1, a2, b1, b2}
MCFirst == [c \in MCCalls |-> IF c = c1 THEN a1 ELSE a2]
MCAgain == [c \in MCCalls |-> IF c = c1 THEN b1 ELSE b2]
MCKeys == {airtel}
MCKeyOf == [r \in MCRequests |-> airtel]
MCExpiries == {0}
MCCookieTimes == {1, 4}
=============================================================================
