----------------------------- MODULE MCPayment -----------------------------
(* Payment on a small instance: two requests that may share a key, one      *)
(* refunding the other's transaction, clients that leave and restarts.      *)
EXTENDS Payment
=============================================================================
