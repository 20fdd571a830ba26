-------------------------- MODULE ApprovalService --------------------------
(***************************************************************************)
(* lenso-business-approval-core/src/lib.rs: what ApprovalService does      *)
(* before and after its store, as operators on one call.  It keeps no      *)
(* state.  A call's input is one record for all five operations; the       *)
(* fields an operation does not have are ignored.                          *)
(*   human        FALSE when the sealed assertion is a scoped delegation,  *)
(*                not of a user, or malformed (denies_human_context)       *)
(*   well_formed  every identifier, reference, kind, reason and timestamp  *)
(*                of the input passes its format check                     *)
(*   expires_at   the instant a deadline's text names; a text that names   *)
(*                none is not well formed, and counts as one in Times      *)
(***************************************************************************)
EXTENDS ApprovalModel

CONSTANTS
  Requesters, Deciders, Expirers,  \* ApprovalPolicy
  Undigested,    \* the matters of kind "management-operation" with no digest
  Inputs         \* the inputs callers may send

Ops == {"request", "decide", "cancel", "read", "expire"}

Input ==
  [op: Ops, caller: Instances \cup {None}, human: BOOLEAN, well_formed: BOOLEAN,
   request_id: RequestIds, idempotency_key: Keys, matter: Matters, expires_at: Deadlines,
   decision: {"approved", "rejected"}, actor: Actors, evidence_ref: EvidenceRefs,
   reason: Reasons \cup {None}]

ASSUME ServiceAssumption ==
  /\ Requesters \subseteq Instances
  /\ Deciders \subseteq Instances
  /\ Expirers \subseteq Instances
  /\ Undigested \subseteq Matters
  /\ Inputs \subseteq Input
  /\ None \notin Inputs

-----------------------------------------------------------------------------
(* Admission *)

\* The instances each operation is open to.
Allowed(op) ==
  CASE op \in {"request", "cancel"} -> Requesters
    [] op = "decide" -> Deciders
    [] op = "expire" -> Expirers
    [] op = "read" -> Requesters \cup Deciders \cup Expirers

Forbidden(in) ==
  \/ in.caller \notin Allowed(in.op)
  \/ in.op = "decide" /\ ~in.human

\* normalize_timestamp fails on the deadline, before any format check is made.
Unrepresentable(in) == in.op = "request" /\ Normalize(in.expires_at) > MaxTime

\* `at' is the service's own clock reading, which only a request looks at.
InvalidRequest(in, at) ==
  \/ ~in.well_formed
  \/ /\ in.op = "request"
     /\ \/ in.matter \in Undigested
        \/ Normalize(in.expires_at) <= Normalize(at)

Admitted(in, at) == ~Forbidden(in) /\ ~Unrepresentable(in) /\ ~InvalidRequest(in, at)

\* Fault: the deadline of a request is taken for a duration.
IntentForDuration(in, at) ==
  [request_id |-> in.request_id, requester_instance |-> in.caller,
   idempotency_key |-> in.idempotency_key, matter |-> in.matter,
   requested_at |-> at, expires_at |-> at + Normalize(in.expires_at)]

IntentOf(in, at) ==
  [request_id |-> in.request_id, requester_instance |-> in.caller,
   idempotency_key |-> in.idempotency_key, matter |-> in.matter,
   requested_at |-> at, expires_at |-> Normalize(in.expires_at)]

\* The row a transition writes, at transaction time `at'.
Terminated(approval, in, at) ==
  [approval EXCEPT
     !.status = CASE in.op = "decide" -> in.decision
                  [] in.op = "cancel" -> "cancelled"
                  [] in.op = "expire" -> "expired",
     !.revision = @ + 1,
     !.terminal_caller_instance = in.caller,
     !.terminal_actor = IF in.op = "expire" THEN None ELSE in.actor,
     !.evidence_ref = IF in.op = "decide" THEN in.evidence_ref ELSE None,
     !.reason = IF in.op = "expire" THEN None ELSE in.reason,
     !.terminal_at = at]

\* Fault: a read never constrains the requester.
ReadableByAll(in, approval) == in.caller \in Allowed("read")

\* A caller that may only request reads its own requests.
Readable(in, approval) ==
  \/ in.caller \in Deciders \cup Expirers
  \/ approval.requester_instance = in.caller

\* Fault: any requester may cancel.
ForeignNever(in, approval) == FALSE

\* cancel: only the instance that asked may withdraw the request.
Foreign(in, approval) ==
  in.op = "cancel" /\ approval.requester_instance # in.caller

\* Fault: a deadline one tick ahead counts as due.
IsDueSoon(approval, at) == approval.expires_at <= at + 1

\* expire: the deadline has passed at transaction time `at'.
IsDue(approval, at) == approval.expires_at <= at

-----------------------------------------------------------------------------
(* Answers *)

DomainFailures ==
  {"Forbidden", "InvalidRequest", "IdempotencyConflict", "RequestNotFound",
   "AlreadyTerminal", "NotRequester", "NotDue"}

\* What a runtime failure means inside; the caller is told none of it apart.
\* Database is an outage, OutOfRange a deadline that cannot be converted; the
\* others are defences that should never act.
RuntimeFailures ==
  {"Database", "OutOfRange", "InvalidEvidence", "InconsistentIdempotency",
   "InvalidTerminal", "Unexplained"}

Answers ==
  [kind: {"none", "ok", "refused", "unavailable"},
   error: DomainFailures \cup RuntimeFailures \cup {"none"},
   created: BOOLEAN, approval: StoredApproval \cup {None}]

Reply(kind, error, created, approval) ==
  [kind |-> kind, error |-> error, created |-> created, approval |-> approval]

NoAnswer == Reply("none", "none", FALSE, None)
Refused(failure) == Reply("refused", failure, FALSE, None)
Unavailable(failure) == Reply("unavailable", failure, FALSE, None)

\* The answer to a call that is not admitted.
Rejection(in) ==
  CASE Forbidden(in) -> Refused("Forbidden")
    [] ~Forbidden(in) /\ Unrepresentable(in) -> Unavailable("OutOfRange")
    [] OTHER -> Refused("InvalidRequest")

\* The runtime failures there is a reason for: an outage, which may strike any
\* call, and a deadline no timestamp holds.
Expected(in, failure) ==
  \/ failure = "Database"
  \/ failure = "OutOfRange" /\ Unrepresentable(in)

\* The failures each operation's error type can name; any other is InvalidRequest.
Named(op) ==
  CASE op = "request" -> {"IdempotencyConflict"}
    [] op = "cancel" -> {"RequestNotFound", "AlreadyTerminal", "NotRequester"}
    [] op = "expire" -> {"RequestNotFound", "AlreadyTerminal", "NotDue"}
    [] op = "decide" -> {"RequestNotFound", "AlreadyTerminal"}
    [] op = "read" -> {"RequestNotFound"}

Failure(in, failure) ==
  Refused(IF failure \in Named(in.op) THEN failure ELSE "InvalidRequest")

\* The checks decide_response, cancel_response and expire_response make of the
\* row they present; request and read present any row with a revision.
Presentable(in, approval) ==
  /\ approval.revision >= 1
  /\ in.op \in {"decide", "cancel", "expire"} =>
       /\ approval.terminal_caller_instance # None
       /\ approval.terminal_at # None
       /\ approval.status \in (CASE in.op = "decide" -> {"approved", "rejected"}
                                 [] in.op = "cancel" -> {"cancelled"}
                                 [] in.op = "expire" -> {"expired"})

Response(in, created, approval) ==
  IF Presentable(in, approval)
  THEN Reply("ok", "none", created, approval)
  ELSE Unavailable("InvalidTerminal")
=============================================================================
