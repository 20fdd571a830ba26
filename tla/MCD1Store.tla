----------------------------- MODULE MCD1Store -----------------------------
(***************************************************************************)
(* D1Store for TLC.                                                        *)
(***************************************************************************)
EXTENDS D1Store, MCInputs, TLC

Symmetry == Permutations(Calls)
=============================================================================
