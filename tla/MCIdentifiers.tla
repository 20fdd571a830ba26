--------------------------- MODULE MCIdentifiers ---------------------------
(***************************************************************************)
(* Identifiers for TLC: limits small enough to be met and exceeded.        *)
(***************************************************************************)
EXTENDS Identifiers

\* Three callers, one that is none, and one that is too long.
MCNames ==
  {<<"lower">>, <<"upper">>, <<"lower", "slash", "dot">>, <<"lower", "slash">>,
   <<"lower", "lower", "lower", "lower">>}
=============================================================================
