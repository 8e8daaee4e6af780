----------------------------- MODULE MCBilling -----------------------------
(* Two jobs at a time on one row, for any number of jobs one after another, *)
(* and interval counts of either sign.                                      *)
EXTENDS Billing, TLC

Counts == {-1, 0, 1}

JobSymmetry == Permutations(Jobs)
=============================================================================
