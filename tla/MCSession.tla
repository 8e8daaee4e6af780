----------------------------- MODULE MCSession -----------------------------
(* Two requests at a time, for any number of requests one after another.    *)
EXTENDS Session, TLC

RequestSymmetry == Permutations(Requests)
=============================================================================
