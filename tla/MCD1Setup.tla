----------------------------- MODULE MCD1Setup -----------------------------
(***************************************************************************)
(* D1Setup for TLC.                                                        *)
(***************************************************************************)
EXTENDS D1Setup, TLC

CONSTANTS s1, s2, s3, w1

Symmetry == Permutations(Setups)
=============================================================================
