-------------------------- MODULE MCCatalogPayments --------------------------
(***************************************************************************)
(* An instance of CatalogPayments for TLC.                                 *)
(***************************************************************************)
EXTENDS CatalogPayments, TLC

MCSymmetry == Permutations(Payments) \cup Permutations(Checkouts)

=============================================================================
