-------------------------- MODULE MCPostgresPlugin --------------------------
(***************************************************************************)
(* PostgresPlugin for TLC.                                                 *)
(***************************************************************************)
EXTENDS PostgresPlugin, MCInputs

CONSTANTS p1, p2, p3
=============================================================================
