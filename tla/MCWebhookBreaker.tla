-------------------------- MODULE MCWebhookBreaker --------------------------
(***************************************************************************)
(* WebhookBreaker for TLC: three deliveries, so that a probe, a late       *)
(* answer from before the breaker opened and a fresh request can meet.     *)
(***************************************************************************)
EXTENDS WebhookBreaker

CONSTANTS d1, d2, d3
=============================================================================
