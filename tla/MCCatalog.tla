----------------------------- MODULE MCCatalog -----------------------------
(* Two requests at a time, for any number of requests one after another,    *)
(* with prices of either sign.                                              *)
EXTENDS Catalog, TLC

SomePrices == {-1, 0, 1, 2}

RequestSymmetry == Permutations(Requests)
=============================================================================
