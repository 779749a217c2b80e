------------------------ MODULE MCIntegrityRegistry ------------------------
(***************************************************************************)
(* Instances of IntegrityRegistry for TLC.  Versions, roots and components *)
(* are only compared for equality, so permuting them is sound.             *)
(***************************************************************************)
EXTENDS IntegrityRegistry, TLC

MCSymmetry ==
    Permutations(Components) \cup Permutations(Versions) \cup Permutations(Roots)

=============================================================================
