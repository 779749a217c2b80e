-------------------------- MODULE MCSitePublishing --------------------------
(***************************************************************************)
(* Instances of SitePublishing for TLC.                                    *)
(***************************************************************************)
EXTENDS SitePublishing

MCSymmetry == Permutations(Pages) \cup Permutations(Versions) \cup Permutations(Contents)

=============================================================================
