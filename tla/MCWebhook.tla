------------------------------ MODULE MCWebhook ------------------------------
(***************************************************************************)
(* Webhook for TLC: the updates of one account as model values.            *)
(***************************************************************************)
EXTENDS Webhook, TLC
=============================================================================
