--------------------------- MODULE ApprovalModel ---------------------------
(***************************************************************************)
(* The persistent aggregate: lenso-business-approval-core/src/model.rs and *)
(* the table of migrations 001 and 002.                                    *)
(*                                                                         *)
(* `matter' stands for the immutable content of a request the store only   *)
(* compares: requested_by, approval_kind, subject kind and id, digest.     *)
(* Times are nanoseconds in miniature: Resolution of them make one of the  *)
(* microseconds that stored timestamps are cut to.                         *)
(***************************************************************************)
EXTENDS Integers

CONSTANTS
  RequestIds,    \* client-chosen request ids
  Instances,     \* exact Plugin Instance keys
  Keys,          \* idempotency keys
  Matters,       \* request contents, see above
  Actors,        \* opaque human actor references
  EvidenceRefs,  \* opaque decision evidence references
  Reasons,       \* free-text reasons
  MaxTime,       \* bound on every clock
  Resolution,    \* clock units per stored unit
  None           \* SQL NULL and Rust None

Times == 0..MaxTime

\* What the text of a deadline can name.  A UTC offset can carry it past the last
\* instant a timestamp holds, which MaxTime stands for too.
Deadlines == 0..MaxTime + Resolution

ASSUME ModelAssumption ==
  /\ MaxTime \in Nat
  /\ Resolution \in Nat \ {0}
  /\ None \notin Instances \cup Actors \cup EvidenceRefs \cup Reasons \cup Times

Statuses == {"pending", "approved", "rejected", "cancelled", "expired"}

RequestIntent ==
  [request_id: RequestIds, requester_instance: Instances, idempotency_key: Keys,
   matter: Matters, requested_at: Times, expires_at: Times]

StoredApproval ==
  [request_id: RequestIds, requester_instance: Instances, idempotency_key: Keys,
   matter: Matters, requested_at: Times, expires_at: Times,
   status: Statuses, revision: Nat,
   terminal_caller_instance: Instances \cup {None},
   terminal_actor: Actors \cup {None},
   evidence_ref: EvidenceRefs \cup {None},
   reason: Reasons \cup {None},
   terminal_at: Times \cup {None}]

ASSUME RowAssumption == None \notin StoredApproval

IsPending(approval) == approval.status = "pending"

\* Timestamps are cut, not rounded, to the resolution of the store.  For a deadline
\* past the last of Times the conversion fails, see Unrepresentable.
Normalize(t) == t - (t % Resolution)

(***************************************************************************)
(* validate_evidence: which fields each status must and must not carry.    *)
(***************************************************************************)
Unset(approval, fields) == \A f \in fields : approval[f] = None
Set(approval, fields) == \A f \in fields : approval[f] # None

ValidEvidence(approval) ==
  /\ approval.status = "pending" =>
       /\ approval.revision = 1
       /\ Unset(approval, {"terminal_caller_instance", "terminal_actor",
                           "evidence_ref", "reason", "terminal_at"})
  /\ approval.status # "pending" =>
       /\ approval.revision = 2
       /\ Set(approval, {"terminal_caller_instance", "terminal_at"})
  /\ approval.status \in {"approved", "rejected"} =>
       Set(approval, {"terminal_actor", "evidence_ref"})
  /\ approval.status = "cancelled" =>
       Set(approval, {"terminal_actor"}) /\ Unset(approval, {"evidence_ref"})
  /\ approval.status = "expired" =>
       Unset(approval, {"terminal_actor", "evidence_ref", "reason"})

\* The table's CHECK constraints; their last one has the shape of ValidEvidence.
TableCheck(approval) ==
  /\ approval.status \in Statuses
  /\ approval.revision >= 1
  /\ approval.expires_at > approval.requested_at
  /\ ValidEvidence(approval)

\* The table's PRIMARY KEY and UNIQUE constraints, between two rows.
Conflicts(a, b) ==
  \/ a.request_id = b.request_id
  \/ /\ a.requester_instance = b.requester_instance
     /\ a.idempotency_key = b.idempotency_key

\* Fault: the moment a request was asked counts as part of its intent.
SameIntentAndTime(approval, intent) ==
  /\ approval.request_id = intent.request_id
  /\ approval.requester_instance = intent.requester_instance
  /\ approval.idempotency_key = intent.idempotency_key
  /\ approval.matter = intent.matter
  /\ approval.expires_at = intent.expires_at
  /\ approval.requested_at = intent.requested_at

\* A replay repeats everything but the moment it was asked.
SameIntent(approval, intent) ==
  /\ approval.request_id = intent.request_id
  /\ approval.requester_instance = intent.requester_instance
  /\ approval.idempotency_key = intent.idempotency_key
  /\ approval.matter = intent.matter
  /\ approval.expires_at = intent.expires_at

\* The row an INSERT creates.
PendingApproval(intent) ==
  [request_id |-> intent.request_id,
   requester_instance |-> intent.requester_instance,
   idempotency_key |-> intent.idempotency_key,
   matter |-> intent.matter,
   requested_at |-> intent.requested_at,
   expires_at |-> intent.expires_at,
   status |-> "pending", revision |-> 1,
   terminal_caller_instance |-> None, terminal_actor |-> None,
   evidence_ref |-> None, reason |-> None, terminal_at |-> None]
=============================================================================
