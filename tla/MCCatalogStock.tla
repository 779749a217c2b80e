--------------------------- MODULE MCCatalogStock ---------------------------
(***************************************************************************)
(* An instance of CatalogStock for TLC: carts of two pieces of each sku.   *)
(***************************************************************************)
EXTENDS CatalogStock, TLC

MCCarts == {[s \in Skus |-> 2]}

MCSymmetry ==
    Permutations(Skus) \cup Permutations(POs) \cup Permutations(Checkouts)

=============================================================================
