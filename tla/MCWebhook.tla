----------------------------- MODULE MCWebhook -----------------------------
(* Outgoing webhooks on small instances: one call and two configurations    *)
(* with two handlers at work on them, and two calls to one configuration.   *)
EXTENDS Webhook
=============================================================================
