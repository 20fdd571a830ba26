--------------------------- MODULE MCCapability ---------------------------
(***************************************************************************)
(* Capability for TLC: a caller, two relays and a provider, and a later    *)
(* release with one more code and one more operation.                      *)
(***************************************************************************)
EXTENDS Capability

MCNewCodes == {"quota_exceeded"}
MCNewOperations == {"delegate"}
=============================================================================
