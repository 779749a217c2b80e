---------------------------- MODULE MCRequestGate ----------------------------
(***************************************************************************)
(* Instances of RequestGate for TLC.                                       *)
(***************************************************************************)
EXTENDS RequestGate, TLC

\* Client clocks that agree with the server or are one second ahead.
AheadOrNot == {0, 1}

MCSymmetry == Permutations(Nonces) \cup Permutations(Rids) \cup Permutations(Scopes)

=============================================================================
