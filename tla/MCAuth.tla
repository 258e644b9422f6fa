------------------------------- MODULE MCAuth -------------------------------
(* An instance of Auth for TLC.                                             *)
EXTENDS Auth, TLC

MCSymmetry == Permutations(Browsers) \cup Permutations(Sessions)
=============================================================================
