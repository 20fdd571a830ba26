-------------------------- MODULE MCPostgresStore --------------------------
(***************************************************************************)
(* PostgresStore for TLC.                                                  *)
(***************************************************************************)
EXTENDS PostgresStore, MCInputs, TLC

Symmetry == Permutations(Calls)
=============================================================================
