------------------------------ MODULE D1Setup ------------------------------
(***************************************************************************)
(* Installing the D1 profile and starting on it: setup(database) and       *)
(* readiness() of lenso-business-approval-d1-plugin's store.mjs, with the  *)
(* plugin's prepare hook.                                                  *)
(*                                                                         *)
(* Setups run wherever somebody runs the script, several at a time and     *)
(* again after a failure; each of their statements runs on its own, and    *)
(* the DDL is one atomic batch.  In the same database another release      *)
(* installs or migrates its own version, and another application may       *)
(* create tables of the same names: neither is in this repository.         *)
(***************************************************************************)
CONSTANTS
  Setups,   \* setup runs that may be under way at once
  Workers,  \* instances of the plugin
  None,     \* there is no lenso_approval_schema
  Empty     \* there is one, without a row

SCHEMA_VERSION == 1
Later == 2   \* the version of the other release

Versions == {None, Empty, SCHEMA_VERSION, Later}

ASSUME SetupAssumption ==
  None # Empty /\ None \notin {SCHEMA_VERSION, Later} /\ Empty \notin {SCHEMA_VERSION, Later}

VARIABLES
  version,   \* lenso_approval_schema and its row
  requests,  \* whose business_approval_requests there is
  pc,        \* the next statement of each setup
  outcome,   \* what each setup's latest run ended with
  begun,     \* history: the version when that run began
  ready      \* the workers that were found ready

setupVars == <<version, requests, pc, outcome, begun, ready>>

Outcomes == {"none", "ok", "approval_schema_unmanaged", "approval_schema_incompatible", "lost"}

SetupTypeOK ==
  /\ version \in Versions
  /\ requests \in {"none", "ours", "other", "foreign"}
  /\ pc \in [Setups -> {"idle", "unlisted", "listed", "batch", "confirm"}]
  /\ outcome \in [Setups -> Outcomes]
  /\ begun \in [Setups -> Versions]
  /\ ready \subseteq Workers

-----------------------------------------------------------------------------
(* setup(database) *)

Goto(s, step) == pc' = [pc EXCEPT ![s] = step] /\ UNCHANGED outcome

End(s, result) ==
  /\ pc' = [pc EXCEPT ![s] = "idle"]
  /\ outcome' = [outcome EXCEPT ![s] = result]

\* Fault: the requests table is looked for whatever was found.
ListIgnored(s) ==
  /\ pc[s] = "idle"
  /\ pc' = [pc EXCEPT ![s] = "unlisted"]
  /\ outcome' = [outcome EXCEPT ![s] = "none"]
  /\ begun' = [begun EXCEPT ![s] = version]
  /\ UNCHANGED <<version, requests, ready>>

\* Is there a lenso_approval_schema?
List(s) ==
  /\ pc[s] = "idle"
  /\ pc' = [pc EXCEPT ![s] = IF version = None THEN "unlisted" ELSE "listed"]
  /\ outcome' = [outcome EXCEPT ![s] = "none"]
  /\ begun' = [begun EXCEPT ![s] = version]
  /\ UNCHANGED <<version, requests, ready>>

\* If not, a business_approval_requests is somebody else's.
LookForRequests(s) ==
  /\ pc[s] = "unlisted"
  /\ \/ requests = "none" /\ Goto(s, "batch")
     \/ requests # "none" /\ End(s, "approval_schema_unmanaged")
  /\ UNCHANGED <<version, requests, begun, ready>>

\* If so, it has to have a row, of our version.
LookAtVersion(s) ==
  /\ pc[s] = "listed"
  /\ \/ version = SCHEMA_VERSION /\ Goto(s, "batch")
     \/ version # SCHEMA_VERSION /\ End(s, "approval_schema_incompatible")
  /\ UNCHANGED <<version, requests, begun, ready>>

\* Fault: ON CONFLICT DO UPDATE.
BatchOverwriting(s) ==
  /\ pc[s] = "batch"
  /\ version' = SCHEMA_VERSION
  /\ requests' = IF requests = "none" THEN "ours" ELSE requests
  /\ Goto(s, "confirm")
  /\ UNCHANGED <<begun, ready>>

\* Fault: the statements of the batch run one by one, and one may be the last.
BatchTorn(s) ==
  /\ pc[s] = "batch"
  /\ version' = IF version \in {None, Empty} THEN SCHEMA_VERSION ELSE version
  /\ \/ requests' = (IF requests = "none" THEN "ours" ELSE requests) /\ Goto(s, "confirm")
     \/ UNCHANGED requests /\ End(s, "lost")
  /\ UNCHANGED <<begun, ready>>

\* The DDL, which creates what is missing and leaves the rest; its reply may be
\* lost.
Batch(s) ==
  /\ pc[s] = "batch"
  /\ version' = IF version \in {None, Empty} THEN SCHEMA_VERSION ELSE version
  /\ requests' = IF requests = "none" THEN "ours" ELSE requests
  /\ Goto(s, "confirm") \/ End(s, "lost")
  /\ UNCHANGED <<begun, ready>>

\* Fault: the version is not read again.
ConfirmUnread(s) ==
  /\ pc[s] = "confirm"
  /\ End(s, "ok")
  /\ UNCHANGED <<version, requests, begun, ready>>

Confirm(s) ==
  /\ pc[s] = "confirm"
  /\ \/ version = SCHEMA_VERSION /\ End(s, "ok")
     \/ version # SCHEMA_VERSION /\ End(s, "approval_schema_incompatible")
  /\ UNCHANGED <<version, requests, begun, ready>>

\* A statement fails, or the script is stopped.
Lose(s) ==
  /\ pc[s] # "idle"
  /\ End(s, "lost")
  /\ UNCHANGED <<version, requests, begun, ready>>

-----------------------------------------------------------------------------
(* Workers and the rest of the database *)

Readiness == version = SCHEMA_VERSION

\* prepare: readiness finds our version, or the worker does not start.
Prepare(w) ==
  /\ ready' = IF Readiness THEN ready \cup {w} ELSE ready \ {w}
  /\ UNCHANGED <<version, requests, pc, outcome, begun>>

ReleaseInstalls ==
  /\ version = None /\ requests = "none"
  /\ version' = Later
  /\ requests' = "other"
  /\ UNCHANGED <<pc, outcome, begun, ready>>

ReleaseMigrates ==
  /\ version = SCHEMA_VERSION
  /\ version' = Later
  /\ UNCHANGED <<requests, pc, outcome, begun, ready>>

ForeignTable ==
  /\ requests = "none"
  /\ requests' = "foreign"
  /\ UNCHANGED <<version, pc, outcome, begun, ready>>

ForeignSchema ==
  /\ version = None
  /\ version' = Empty
  /\ UNCHANGED <<requests, pc, outcome, begun, ready>>

-----------------------------------------------------------------------------

SetupInit ==
  /\ version = None
  /\ requests = "none"
  /\ pc = [s \in Setups |-> "idle"]
  /\ outcome = [s \in Setups |-> "none"]
  /\ begun = [s \in Setups |-> None]
  /\ ready = {}

SetupStep(s) ==
  \/ List(s) \/ LookForRequests(s) \/ LookAtVersion(s) \/ Batch(s) \/ Confirm(s) \/ Lose(s)

SetupNext ==
  \/ \E s \in Setups : SetupStep(s)
  \/ \E w \in Workers : Prepare(w)
  \/ ReleaseInstalls \/ ReleaseMigrates \/ ForeignTable \/ ForeignSchema

SetupSpec == SetupInit /\ [][SetupNext]_setupVars

-----------------------------------------------------------------------------
(* Properties *)

\* Whatever setup is stopped and wherever, a database with a version has the
\* table that version is of, so a setup run again completes and a worker that
\* was found ready has a table to work on.
InstalledWhole == version \in {SCHEMA_VERSION, Later} => requests # "none"

\* No setup reports success, and no worker starts, on tables another release
\* installed while the setup was between its statements.
NotAnothers ==
  (\E s \in Setups : outcome[s] = "ok") \/ ready # {} => requests \in {"ours", "foreign"}

\* A refusal has its reason: a setup that began where there was a schema is never
\* told that there is none, and incompatible is only another release's version, or
\* a schema that had none when the setup began.
HonestRefusals ==
  \A s \in Setups :
    /\ outcome[s] = "approval_schema_unmanaged" => begun[s] = None /\ requests # "none"
    /\ outcome[s] = "approval_schema_incompatible" => begun[s] = Empty \/ version = Later

\* Nothing that is there is replaced: no table, and no version but by the
\* release that migrates it, whatever setups are still under way.
NothingReplaced ==
  [][/\ requests # "none" => requests' = requests
     /\ version = Later => version' = Later]_setupVars

\* What tests/d1-store.test.mjs says, "setup refuses an existing unowned
\* aggregate instead of silently adopting it".  It looks for the table before
\* the batch, and the batch takes the table it finds.
NothingAdopted == \A s \in Setups : outcome[s] = "ok" => requests # "foreign"

-----------------------------------------------------------------------------
(* The inductive invariant *)

SetupInv ==
  /\ SetupTypeOK
  /\ InstalledWhole
  /\ requests = "other" => version = Later
  /\ requests = "ours" => version \in {SCHEMA_VERSION, Later}
  /\ \A s \in Setups :
       /\ pc[s] = "unlisted" => begun[s] = None
       /\ pc[s] = "listed" => version # None /\ (version = Empty => begun[s] = Empty)
       /\ pc[s] = "confirm" => version \in {SCHEMA_VERSION, Later}
  /\ NotAnothers
  /\ HonestRefusals
=============================================================================
