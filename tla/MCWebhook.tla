----------------------------- MODULE MCWebhook -----------------------------
(* Webhook for TLC, with the default five attempts. *)
EXTENDS Webhook
============================================================================
