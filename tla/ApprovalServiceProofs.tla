----------------------- MODULE ApprovalServiceProofs -----------------------
(***************************************************************************)
(* Lemmas about the rows and answers of ApprovalModel and ApprovalService, *)
(* used by the proofs about the stores.                                    *)
(***************************************************************************)
EXTENDS ApprovalService, TLAPS

\* A stored timestamp is a moment of the clock it was cut from, never later:
\* normalize_timestamp rounds down.
LEMMA NormalizeNat ==
  ASSUME NEW t \in Nat
  PROVE  Normalize(t) \in 0 .. t
<1>1. Resolution \in Nat /\ Resolution > 0
  BY ModelAssumption
<1>2. t % Resolution \in 0 .. (Resolution - 1)
  BY <1>1
<1>3. t % Resolution <= t
  <2>1. t = Resolution * (t \div Resolution) + (t % Resolution)
    BY <1>1
  <2>2. t \div Resolution \in Nat
    BY <1>1
  <2>3. Resolution * (t \div Resolution) \in Nat
    BY <1>1, <2>2
  <2> QED BY <2>1, <2>3, <1>2
<1> QED BY <1>1, <1>2, <1>3 DEF Normalize

LEMMA NormalizeDown ==
  ASSUME NEW t \in Times
  PROVE  Normalize(t) \in Times /\ Normalize(t) <= t
BY NormalizeNat, ModelAssumption DEF Times

\* The deadline of a request that passed the conversion can be stored.
LEMMA DeadlineStored ==
  ASSUME NEW in \in Inputs, in.op = "request", ~Unrepresentable(in)
  PROVE  Normalize(in.expires_at) \in Times
<1>1. in.expires_at \in Nat
  BY ServiceAssumption, ModelAssumption DEF Input, Deadlines
<1> QED BY <1>1, NormalizeNat, ModelAssumption DEF Unrepresentable, Times

\* The row a request inserts is a pending row of its caller that the table's
\* CHECK constraints accept: a request that was admitted never trips them.
LEMMA PendingRow ==
  ASSUME NEW in \in Inputs, in.op = "request", ~Unrepresentable(in),
         NEW at \in Times, in.caller \in Instances, at < Normalize(in.expires_at)
  PROVE  LET row == PendingApproval(IntentOf(in, at))
         IN  /\ row \in StoredApproval
             /\ row.request_id = in.request_id
             /\ row.requester_instance = in.caller
             /\ row.requested_at = at
             /\ row.expires_at = Normalize(in.expires_at)
             /\ IsPending(row)
             /\ TableCheck(row)
<1>1. in \in Input
  BY ServiceAssumption
<1>2. Normalize(in.expires_at) \in Times
  BY DeadlineStored
<1> DEFINE row == PendingApproval(IntentOf(in, at))
<1>3. /\ row.request_id = in.request_id
      /\ row.requester_instance = in.caller
      /\ row.requested_at = at
      /\ row.expires_at = Normalize(in.expires_at)
      /\ row.status = "pending" /\ row.revision = 1
      /\ row.terminal_caller_instance = None /\ row.terminal_actor = None
      /\ row.evidence_ref = None /\ row.reason = None /\ row.terminal_at = None
  BY DEF PendingApproval, IntentOf
<1>4. row \in StoredApproval
  BY <1>1, <1>2 DEF Input, StoredApproval, PendingApproval, IntentOf, Statuses
<1>5. ValidEvidence(row)
  BY <1>3 DEF ValidEvidence, Unset
<1>6. TableCheck(row)
  BY <1>2, <1>3, <1>5 DEF TableCheck, Statuses, Times
<1> QED BY <1>3, <1>4, <1>6 DEF IsPending

\* The row a transition writes keeps the request and carries valid evidence: a
\* transition of a pending row never trips the CHECK constraints either.
LEMMA TerminatedRow ==
  ASSUME NEW row \in StoredApproval, IsPending(row), TableCheck(row),
         NEW in \in Inputs, in.op \in {"decide", "cancel", "expire"},
         in.caller \in Instances, NEW at \in Times
  PROVE  LET after == Terminated(row, in, at)
         IN  /\ after \in StoredApproval
             /\ SameIntent(after, row)
             /\ after.requested_at = row.requested_at
             /\ after.terminal_caller_instance = in.caller
             /\ after.terminal_at = at
             /\ ~IsPending(after)
             /\ after.status \in {"approved", "rejected"} <=> in.op = "decide"
             /\ after.status = "cancelled" <=> in.op = "cancel"
             /\ after.status = "expired" <=> in.op = "expire"
             /\ TableCheck(after)
<1> DEFINE after == Terminated(row, in, at)
           outcome == CASE in.op = "decide" -> in.decision
                        [] in.op = "cancel" -> "cancelled"
                        [] in.op = "expire" -> "expired"
<1>1. in \in Input
  BY ServiceAssumption
<1>2. /\ in.op = "decide" => outcome = in.decision
      /\ in.op = "cancel" => outcome = "cancelled"
      /\ in.op = "expire" => outcome = "expired"
  OBVIOUS
<1>3. in.decision \in {"approved", "rejected"}
  BY <1>1 DEF Input
<1>4. /\ outcome \in {"approved", "rejected"} <=> in.op = "decide"
      /\ outcome = "cancelled" <=> in.op = "cancel"
      /\ outcome = "expired" <=> in.op = "expire"
      /\ outcome \in Statuses \ {"pending"}
  <2> HIDE DEF outcome
  <2> QED BY <1>2, <1>3 DEF Statuses
<1>5. after = [row EXCEPT
                 !.status = outcome, !.revision = row.revision + 1,
                 !.terminal_caller_instance = in.caller,
                 !.terminal_actor = IF in.op = "expire" THEN None ELSE in.actor,
                 !.evidence_ref = IF in.op = "decide" THEN in.evidence_ref ELSE None,
                 !.reason = IF in.op = "expire" THEN None ELSE in.reason,
                 !.terminal_at = at]
  BY DEF Terminated
<1> HIDE DEF outcome, after
<1>6. row.revision = 1
  BY DEF IsPending, TableCheck, ValidEvidence
<1>7. /\ after.request_id = row.request_id
      /\ after.requester_instance = row.requester_instance
      /\ after.idempotency_key = row.idempotency_key
      /\ after.matter = row.matter
      /\ after.requested_at = row.requested_at
      /\ after.expires_at = row.expires_at
      /\ after.status = outcome
      /\ after.revision = 2
      /\ after.terminal_caller_instance = in.caller
      /\ after.terminal_actor = IF in.op = "expire" THEN None ELSE in.actor
      /\ after.evidence_ref = IF in.op = "decide" THEN in.evidence_ref ELSE None
      /\ after.reason = IF in.op = "expire" THEN None ELSE in.reason
      /\ after.terminal_at = at
  BY <1>5, <1>6 DEF StoredApproval
<1>8. after \in StoredApproval
  <2>1. DOMAIN after = DOMAIN row
    BY <1>5
  <2>2. after = [f \in DOMAIN row |-> after[f]]
    BY <1>5, <2>1
  <2>3. after = [request_id |-> after.request_id,
                 requester_instance |-> after.requester_instance,
                 idempotency_key |-> after.idempotency_key,
                 matter |-> after.matter,
                 requested_at |-> after.requested_at,
                 expires_at |-> after.expires_at,
                 status |-> after.status, revision |-> after.revision,
                 terminal_caller_instance |-> after.terminal_caller_instance,
                 terminal_actor |-> after.terminal_actor,
                 evidence_ref |-> after.evidence_ref,
                 reason |-> after.reason, terminal_at |-> after.terminal_at]
    BY <2>1, <2>2 DEF StoredApproval
  <2> QED BY <1>1, <1>4, <1>7, <2>3 DEF StoredApproval, Input, Statuses
<1>9. in.caller # None /\ at # None /\ in.actor # None /\ in.evidence_ref # None
  BY <1>1, ModelAssumption DEF Input
<1>10. ValidEvidence(after)
  BY <1>4, <1>7, <1>9 DEF ValidEvidence, Set, Unset
<1>11. TableCheck(after)
  BY <1>4, <1>7, <1>10 DEF TableCheck
<1>12. SameIntent(after, row)
  BY <1>7 DEF SameIntent
<1>13. ~IsPending(after)
  BY <1>4, <1>7 DEF IsPending
<1> QED BY <1>4, <1>7, <1>8, <1>11, <1>12, <1>13 DEF after

\* Every answer is typed, and a refusal, a failed statement's answer and the
\* answer of a presentable row are outages at worst, never an internal fault.
LEMMA AnswerTypes ==
  /\ NoAnswer \in Answers
  /\ \A failure \in DomainFailures :
       Refused(failure) \in Answers /\ Refused(failure).kind = "refused"
  /\ \A failure \in RuntimeFailures :
       /\ Unavailable(failure) \in Answers
       /\ Unavailable(failure).error = failure
BY DEF NoAnswer, Refused, Unavailable, Reply, Answers

LEMMA FailureType ==
  ASSUME NEW in, NEW failure \in DomainFailures
  PROVE  Failure(in, failure) \in Answers /\ Failure(in, failure).kind = "refused"
BY AnswerTypes DEF Failure, DomainFailures

\* A call turned away at admission is refused, or fails for its own deadline.
LEMMA RejectionType ==
  ASSUME NEW in
  PROVE  /\ Rejection(in) \in Answers
         /\ \/ Rejection(in).kind = "refused"
            \/ Rejection(in).kind = "unavailable" /\ Rejection(in).error = "OutOfRange"
         /\ Rejection(in).kind = "unavailable" => Expected(in, Rejection(in).error)
<1>1. /\ \A failure \in {"Forbidden", "InvalidRequest"} :
           Refused(failure) \in Answers /\ Refused(failure).kind = "refused"
      /\ Unavailable("OutOfRange") \in Answers
      /\ Unavailable("OutOfRange").error = "OutOfRange"
      /\ Unavailable("OutOfRange").kind = "unavailable"
  BY AnswerTypes DEF DomainFailures, RuntimeFailures, Unavailable, Reply
<1>2. CASE Forbidden(in)
  BY <1>1, <1>2 DEF Rejection
<1>3. CASE ~Forbidden(in) /\ Unrepresentable(in)
  BY <1>1, <1>3 DEF Rejection, Expected
<1>4. CASE ~Forbidden(in) /\ ~Unrepresentable(in)
  BY <1>1, <1>4 DEF Rejection
<1> QED BY <1>2, <1>3, <1>4

LEMMA ResponseType ==
  ASSUME NEW in, NEW created \in BOOLEAN, NEW row \in StoredApproval, Presentable(in, row)
  PROVE  /\ Response(in, created, row) \in Answers
         /\ Response(in, created, row).kind = "ok"
BY DEF Response, Reply, Answers

\* Reads and replays present any stored row, and a transition presents the row
\* it wrote: the response checks never refuse one.
LEMMA StoredPresentable ==
  ASSUME NEW in, in.op \in {"request", "read"}, NEW row \in StoredApproval, TableCheck(row)
  PROVE  Presentable(in, row)
BY DEF Presentable, TableCheck

LEMMA TerminatedPresentable ==
  ASSUME NEW row \in StoredApproval, IsPending(row), TableCheck(row),
         NEW in \in Inputs, in.op \in {"decide", "cancel", "expire"},
         in.caller \in Instances, NEW at \in Times
  PROVE  Presentable(in, Terminated(row, in, at))
<1> DEFINE after == Terminated(row, in, at)
<1>1. /\ after.terminal_caller_instance # None
      /\ after.terminal_at # None
      /\ after.status \in {"approved", "rejected"} <=> in.op = "decide"
      /\ after.status = "cancelled" <=> in.op = "cancel"
      /\ after.status = "expired" <=> in.op = "expire"
      /\ after.revision >= 1
  BY TerminatedRow, ModelAssumption DEF TableCheck
<1> HIDE DEF after
<1>2. after.status \in (CASE in.op = "decide" -> {"approved", "rejected"}
                          [] in.op = "cancel" -> {"cancelled"}
                          [] in.op = "expire" -> {"expired"})
  <2>1. CASE in.op = "decide"
    BY <1>1, <2>1
  <2>2. CASE in.op = "cancel"
    BY <1>1, <2>2
  <2>3. CASE in.op = "expire"
    BY <1>1, <2>3
  <2> QED BY <2>1, <2>2, <2>3
<1> QED BY <1>1, <1>2 DEF Presentable, after
=============================================================================
