---------------------------- MODULE MCInstaller -----------------------------
(* Instances of Installer for TLC.                                          *)
EXTENDS Installer, TLC

\* Releases, tokens and certificates are only ever compared for equality.
MCSymmetry ==
    Permutations(Tags) \cup Permutations(Tokens) \cup Permutations(Authorities)
=============================================================================
