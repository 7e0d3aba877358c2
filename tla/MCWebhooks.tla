---------------------------- MODULE MCWebhooks ----------------------------
(***************************************************************************)
(* A small instance of Webhooks: one webhook, two events (one of them not  *)
(* subscribed to, so only sent as a test), two overlapping drivers.        *)
(***************************************************************************)
EXTENDS Webhooks, TLC

CONSTANTS h1, e1, e2

MCWants == h1 :> {e1}
=============================================================================
