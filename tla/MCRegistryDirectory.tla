------------------------ MODULE MCRegistryDirectory ------------------------
(***************************************************************************)
(* Instances of RegistryDirectory.  A wildcard pattern covers the host.    *)
(***************************************************************************)
EXTENDS RegistryDirectory, TLC

MCCovers == Hosts \X Domains
MCDomainLists == {Domains}
MCSymmetry == Permutations(Versions)
=============================================================================
