---------------------------- MODULE MCRateLimit ----------------------------
(* Three requests at a time of one client, over three windows.              *)
EXTENDS RateLimit, TLC

RequestSymmetry == Permutations(Requests)
=============================================================================
