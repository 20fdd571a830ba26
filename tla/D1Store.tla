------------------------------ MODULE D1Store -------------------------------
(***************************************************************************)
(* The five operations served from Cloudflare D1:                          *)
(* lenso-business-approval-d1-plugin/src/host_facilities.rs and            *)
(* host_facilities/store.mjs behind ApprovalService.                       *)
(*                                                                         *)
(* A call reads its worker's clock, then sends one batch, which D1 runs    *)
(* alone on the primary.  What the worker does with the receipt touches    *)
(* nothing shared, so it is part of the batch's step.  A call fails before *)
(* its batch, or after it with the receipt lost, malformed or cut off by   *)
(* the end of the event.  Every worker shares the table; a retry is a new  *)
(* call with the same input.                                               *)
(***************************************************************************)
EXTENDS ApprovalService

CONSTANTS
  Calls,        \* call slots
  Skew,         \* how far a worker's clock may be from `now'
  Millisecond   \* Date.now() shows multiples of this many units

ASSUME StoreAssumption ==
  /\ Skew \in Nat
  /\ Millisecond \in Nat \ {0}
  /\ Millisecond % Resolution = 0

VARIABLES
  table,   \* business_approval_requests: columns, and record_json
  now,     \* the time
  pc,      \* the next step of each call
  input,   \* each call's input
  stamp,   \* `requested_at' of a request, `at' of a transition
  due,     \* `now' of a transition, which an expiry compares the deadline with
  answer,  \* each call's latest answer
  wrote    \* history: the call's batch changed the table

vars == <<table, now, pc, input, stamp, due, answer, wrote>>

Transitions == {"decide", "cancel", "expire"}

Steps == {"idle", "stamp", "deadline", "batch"}

Columns ==
  [request_id: RequestIds, requester_instance: Instances, idempotency_key: Keys,
   status: Statuses, revision: {1, 2}, expires_us: Times]

TypeOK ==
  /\ table \subseteq [columns: Columns, record: StoredApproval]
  /\ now \in Times
  /\ pc \in [Calls -> Steps]
  /\ input \in [Calls -> Inputs \cup {None}]
  /\ stamp \in [Calls -> Times \cup {None}]
  /\ due \in [Calls -> Times \cup {None}]
  /\ answer \in [Calls -> Answers]
  /\ wrote \in [Calls -> BOOLEAN]

-----------------------------------------------------------------------------
(* The worker *)

\* What Date.now() may show.
DateNow ==
  {t \in Times :
     t % Millisecond = 0 /\ t <= now + Skew /\ now - Skew < t + Millisecond}

\* The call is over.
Finish(c, reply) ==
  /\ pc' = [pc EXCEPT ![c] = "idle"]
  /\ stamp' = [stamp EXCEPT ![c] = None]
  /\ due' = [due EXCEPT ![c] = None]
  /\ answer' = [answer EXCEPT ![c] = reply]
  /\ UNCHANGED <<now, input>>

\* A batch leaves `rows'; its receipt comes back as `reply', or does not.
Receipt(c, rows, reply) ==
  /\ table' = rows
  /\ wrote' = [wrote EXCEPT ![c] = rows # table]
  /\ Finish(c, reply) \/ Finish(c, Unavailable("Database"))

\* Admission answers a call outright or lets it through.  A request needs the
\* store's clock first, and fails without it.
Invoke(c) ==
  \E in \in Inputs, at \in DateNow :
    /\ pc[c] = "idle"
    /\ input' = [input EXCEPT ![c] = in]
    /\ wrote' = [wrote EXCEPT ![c] = FALSE]
    /\ \/ /\ ~Admitted(in, at)
          /\ answer' = [answer EXCEPT ![c] = Rejection(in)]
          /\ UNCHANGED <<pc, stamp>>
       \/ /\ ~Forbidden(in) /\ in.op = "request"
          /\ answer' = [answer EXCEPT ![c] = Unavailable("Database")]
          /\ UNCHANGED <<pc, stamp>>
       \/ /\ Admitted(in, at)
          /\ answer' = [answer EXCEPT ![c] = NoAnswer]
          /\ pc' = [pc EXCEPT ![c] = IF in.op \in Transitions THEN "stamp" ELSE "batch"]
          /\ stamp' = [stamp EXCEPT ![c] = IF in.op = "request" THEN Normalize(at) ELSE None]
    /\ UNCHANGED <<table, now, due>>

\* at = new Date().toISOString(), recorded as terminal_at.
StampAt(c) ==
  /\ pc[c] = "stamp"
  /\ \E at \in DateNow : stamp' = [stamp EXCEPT ![c] = at]
  /\ pc' = [pc EXCEPT ![c] = "deadline"]
  /\ UNCHANGED <<table, now, input, due, answer, wrote>>

\* now = Date.now(): a second reading, which may show a later or earlier time.
ReadNow(c) ==
  /\ pc[c] = "deadline"
  /\ \E at \in DateNow : due' = [due EXCEPT ![c] = at]
  /\ pc' = [pc EXCEPT ![c] = "batch"]
  /\ UNCHANGED <<table, now, input, stamp, answer, wrote>>

-----------------------------------------------------------------------------
(* Batches *)

\* The row of an INSERT.
NewRow(intent) ==
  [columns |-> [request_id |-> intent.request_id,
                requester_instance |-> intent.requester_instance,
                idempotency_key |-> intent.idempotency_key,
                status |-> "pending", revision |-> 1,
                expires_us |-> intent.expires_at],
   record |-> PendingApproval(intent)]

\* The only row selected is an answer if it is of the same intent.
Replayed(in, intent, created, approval) ==
  CASE ~ValidEvidence(approval) -> Unavailable("InvalidEvidence")
    [] ValidEvidence(approval) /\ ~SameIntent(approval, intent) ->
         Failure(in, "IdempotencyConflict")
    [] OTHER -> Response(in, created, approval)

\* Fault: INSERT OR REPLACE.
RequestReplace(c) ==
  LET intent == IntentOf(input[c], stamp[c])
      new == NewRow(intent)
      others == {row \in table : ~Conflicts(row.columns, new.columns)}
  IN  /\ pc[c] = "batch" /\ input[c].op = "request"
      /\ Receipt(c, others \cup {new}, Response(input[c], TRUE, new.record))

\* request: INSERT ... ON CONFLICT DO NOTHING, then SELECT by key or id.
Request(c) ==
  LET intent == IntentOf(input[c], stamp[c])
      new == NewRow(intent)
      there == {row \in table : Conflicts(row.columns, new.columns)}
      created == there = {}
      after == IF created THEN table \cup {new} ELSE table
      selected == {row.record : row \in {r \in after : Conflicts(r.columns, new.columns)}}
  IN  /\ pc[c] = "batch" /\ input[c].op = "request"
      /\ \/ /\ \A approval \in selected : selected # {approval}
            /\ Receipt(c, after, Failure(input[c], "IdempotencyConflict"))
         \/ \E approval \in selected :
              /\ selected = {approval}
              /\ Receipt(c, after, Replayed(input[c], intent, created, approval))

\* read: one SELECT, with the requester constraint in its WHERE clause.
Read(c) ==
  LET shown == {row.record : row \in {r \in table :
                  /\ r.columns.request_id = input[c].request_id
                  /\ Readable(input[c], r.columns)}}
  IN  /\ pc[c] = "batch" /\ input[c].op = "read"
      /\ \/ shown = {} /\ Receipt(c, table, Failure(input[c], "RequestNotFound"))
         \/ \E approval \in shown :
              Receipt(c, table, IF ValidEvidence(approval)
                                THEN Response(input[c], FALSE, approval)
                                ELSE Unavailable("InvalidEvidence"))

\* Fault: the UPDATE takes a terminal row too.
MatchesTerminal(columns, in, deadline) ==
  /\ columns.request_id = in.request_id
  /\ in.op = "cancel" => columns.requester_instance = in.caller
  /\ in.op = "expire" => columns.expires_us <= deadline

\* Fault: expire's UPDATE does not compare the deadline.
MatchesEarly(columns, in, deadline) ==
  /\ columns.request_id = in.request_id
  /\ columns.status = "pending" /\ columns.revision = 1
  /\ in.op = "cancel" => columns.requester_instance = in.caller

\* Fault: cancel's UPDATE is not constrained to the requester.
MatchesAnyone(columns, in, deadline) ==
  /\ columns.request_id = in.request_id
  /\ columns.status = "pending" /\ columns.revision = 1
  /\ in.op = "expire" => columns.expires_us <= deadline

\* Fault: every transition is constrained to the requester.
MatchesOwn(columns, in, deadline) ==
  /\ columns.request_id = in.request_id
  /\ columns.status = "pending" /\ columns.revision = 1
  /\ columns.requester_instance = in.caller
  /\ in.op = "expire" => columns.expires_us <= deadline

\* The WHERE clause of the UPDATE, over columns only.
Matches(columns, in, deadline) ==
  /\ columns.request_id = in.request_id
  /\ columns.status = "pending" /\ columns.revision = 1
  /\ in.op = "cancel" => columns.requester_instance = in.caller
  /\ in.op = "expire" => columns.expires_us <= deadline

\* Fault: json_set leaves the revision in the record alone.
EndedColumns(row, in, at) ==
  LET record == [Terminated(row.record, in, at) EXCEPT !.revision = row.record.revision]
  IN  [columns |-> [row.columns EXCEPT !.status = record.status, !.revision = 2],
       record |-> record]

\* The SET clause: the status and the revision in the columns and, by json_set,
\* with the evidence in the record.
Ended(row, in, at) ==
  LET record == [Terminated(row.record, in, at) EXCEPT !.revision = 2]
  IN  [columns |-> [row.columns EXCEPT !.status = record.status, !.revision = 2],
       record |-> record]

\* How the worker explains a transition that changed nothing, in its order.
Unchanged(in, approval) ==
  CASE Foreign(in, approval) -> Failure(in, "NotRequester")
    [] ~Foreign(in, approval) /\ ~IsPending(approval) -> Failure(in, "AlreadyTerminal")
    [] ~Foreign(in, approval) /\ IsPending(approval) /\ in.op = "expire" ->
         Failure(in, "NotDue")
    [] OTHER -> Unavailable("Unexplained")

\* Fault: the row is selected before the UPDATE.
TransitionSelectFirst(c) ==
  LET in == input[c]
      hit(row) == Matches(row.columns, in, due[c])
      changed == \E row \in table : hit(row)
      after == {IF hit(row) THEN Ended(row, in, stamp[c]) ELSE row : row \in table}
      shown == {row.record : row \in {r \in table : r.columns.request_id = in.request_id}}
  IN  /\ pc[c] = "batch" /\ in.op \in Transitions
      /\ \/ shown = {} /\ Receipt(c, after, Failure(in, "RequestNotFound"))
         \/ \E approval \in shown :
              Receipt(c, after,
                IF changed THEN Response(in, FALSE, approval) ELSE Unchanged(in, approval))

\* decide, cancel, expire: a conditional UPDATE, then SELECT by id.
Transition(c) ==
  LET in == input[c]
      hit(row) == Matches(row.columns, in, due[c])
      changed == \E row \in table : hit(row)
      after == {IF hit(row) THEN Ended(row, in, stamp[c]) ELSE row : row \in table}
      shown == {row.record : row \in {r \in after : r.columns.request_id = in.request_id}}
  IN  /\ pc[c] = "batch" /\ in.op \in Transitions
      /\ \/ shown = {} /\ Receipt(c, after, Failure(in, "RequestNotFound"))
         \/ \E approval \in shown :
              Receipt(c, after,
                CASE ~ValidEvidence(approval) -> Unavailable("InvalidEvidence")
                  [] ValidEvidence(approval) /\ changed -> Response(in, FALSE, approval)
                  [] OTHER -> Unchanged(in, approval))

-----------------------------------------------------------------------------

\* The call ends without its batch: the facility throws, the event closes.
Abort(c) ==
  /\ pc[c] # "idle"
  /\ Finish(c, Unavailable("Database"))
  /\ UNCHANGED <<table, wrote>>

Tick ==
  /\ now < MaxTime
  /\ now' = now + 1
  /\ UNCHANGED <<table, pc, input, stamp, due, answer, wrote>>

Init ==
  /\ table = {}
  /\ now = 0
  /\ pc = [c \in Calls |-> "idle"]
  /\ input = [c \in Calls |-> None]
  /\ stamp = [c \in Calls |-> None]
  /\ due = [c \in Calls |-> None]
  /\ answer = [c \in Calls |-> NoAnswer]
  /\ wrote = [c \in Calls |-> FALSE]

Next ==
  \/ \E c \in Calls :
       \/ Invoke(c) \/ StampAt(c) \/ ReadNow(c)
       \/ Request(c) \/ Read(c) \/ Transition(c) \/ Abort(c)
  \/ Tick

Spec == Init /\ [][Next]_vars

-----------------------------------------------------------------------------
(* Properties *)

Records == {row.record : row \in table}

\* The columns an UPDATE tests and the record the callers are shown tell the
\* same: a row is stored twice, and every batch writes both.
ColumnsAgree ==
  \A row \in table :
    /\ \A f \in {"request_id", "requester_instance", "idempotency_key", "status", "revision"} :
         row.columns[f] = row.record[f]
    /\ row.columns.expires_us = row.record.expires_at

\* Who ended a request, as in PostgresStore; here the requester of a
\* cancellation is compared by the UPDATE itself.
TerminalAuthority ==
  \A record \in Records :
    /\ record.requester_instance \in Requesters
    /\ record.status \in {"approved", "rejected"} => record.terminal_caller_instance \in Deciders
    /\ record.status = "cancelled" =>
         record.terminal_caller_instance = record.requester_instance
    /\ record.status = "expired" => record.terminal_caller_instance \in Expirers

\* The record tells of the call: the request it made, or the outcome it decided.
Effected(in, record) ==
  /\ record.request_id = in.request_id
  /\ in.op = "request" => SameIntent(record, IntentOf(in, record.requested_at))
  /\ in.op # "request" => record.terminal_caller_instance = in.caller
  /\ in.op = "decide" => record.status = in.decision
  /\ in.op = "cancel" => record.status = "cancelled"
  /\ in.op = "expire" => record.status = "expired"

\* What a call's batch did stays done, whatever its caller was told and whoever
\* comes after: the row it created is there, with its intent; the transition it
\* made is the row's outcome, in its own name.
EffectsDurable ==
  \A c \in Calls : wrote[c] => \E record \in Records : Effected(input[c], record)

\* An outcome once shown, by any operation, is the stored outcome from then on.
OutcomesStand ==
  \A c \in Calls :
    answer[c].kind = "ok" /\ ~IsPending(answer[c].approval)
      => answer[c].approval \in Records

\* An answer agrees with what the call's batch did: a success of decide, cancel
\* or expire, or a creation, means the batch wrote; a refusal, a read or a replay
\* means it did not.
HonestAnswers ==
  \A c \in Calls :
    /\ answer[c].kind = "refused" => ~wrote[c]
    /\ answer[c].kind = "ok" =>
         wrote[c] <=> (answer[c].created \/ input[c].op \in Transitions)

\* However workers race, one batch creates a request and one ends it.
SingleWinner ==
  \A c, d \in Calls :
    c # d /\ wrote[c] /\ wrote[d] /\ input[c].request_id = input[d].request_id
      => {input[c].op, input[d].op} \cap Transitions # {}
         /\ "request" \in {input[c].op, input[d].op}

\* The record stands in the way of the request: it has its id or its key, and is
\* not the same request.
InTheWay(in, record) ==
  /\ \/ record.request_id = in.request_id
     \/ record.requester_instance = in.caller /\ record.idempotency_key = in.idempotency_key
  /\ \/ record.request_id # in.request_id
     \/ record.requester_instance # in.caller
     \/ record.idempotency_key # in.idempotency_key
     \/ record.matter # in.matter
     \/ record.expires_at # Normalize(in.expires_at)

\* A refusal is true of the rows from then on.
TruthfulRefusals ==
  \A c \in Calls :
    LET named == {record \in Records : record.request_id = input[c].request_id}
    IN  /\ answer[c].error = "AlreadyTerminal" => \E record \in named : ~IsPending(record)
        /\ answer[c].error = "NotRequester" =>
             \E record \in named : record.requester_instance # input[c].caller
        /\ answer[c].error = "IdempotencyConflict" =>
             \E record \in Records : InTheWay(input[c], record)

\* An instance that may only request is never shown another's request.
RequesterIsolation ==
  \A c \in Calls :
    answer[c].kind = "ok" /\ input[c].caller \notin Deciders \cup Expirers
      => answer[c].approval.requester_instance = input[c].caller

\* What callers are told is what was done, is theirs to know, and stays true,
\* whichever workers, clocks and lost receipts were between: all that PostgreSQL
\* gets from its row locks D1 has to get from single batches.
AnswersStand ==
  OutcomesStand /\ HonestAnswers /\ SingleWinner /\ TruthfulRefusals /\ RequesterIsolation

\* A terminal row never changes, and a pending one only by being ended.
TerminalFrozen ==
  [][\A row \in table :
       \E after \in table' :
         /\ SameIntent(after.record, row.record)
         /\ after.record.requested_at = row.record.requested_at
         /\ after = row \/ IsPending(row.record)]_vars

\* No request is expired before its deadline by more than a worker's clock may
\* be ahead, though the deadline was accepted by another worker's clock.
ExpiredAfterDeadline ==
  \A record \in Records :
    record.status = "expired" => record.expires_at <= now + Skew

\* A call fails only for an outage, or for a deadline no timestamp holds: a
\* transition that changed nothing always finds the reason in the row it is shown,
\* and no row is malformed.
DefencesIdle ==
  \A c \in Calls :
    answer[c].kind = "unavailable" => Expected(input[c], answer[c].error)

\* Date.now() may be behind the time by up to this: the skew, and the rest of a
\* millisecond.
ClockError == Skew + Millisecond - 1

Ledger ==
  INSTANCE ApprovalLedger WITH
    Skew <- ClockError,
    Drift <- ClockError,
    table <- Records,
    busy <- {c \in Calls : pc[c] # "idle"}

\* D1 keeps the promise PostgreSQL keeps: every call takes effect at one instant
\* between its arrival and its answer.  Unlike there, an expiry records one
\* clock reading and compares the deadline with another.
ImplementsLedger == Ledger!LedgerSpec

-----------------------------------------------------------------------------
(* The inductive invariant *)

\* A call under way carries an admitted input; once a transition has read its
\* clock, that reading was not ahead by more than the skew.
Serving(c) ==
  /\ wrote[c] => input[c] \in Inputs /\ input[c].op # "read"
  /\ pc[c] = "idle" => stamp[c] = None /\ due[c] = None
  /\ pc[c] # "idle" =>
       /\ input[c] \in Inputs
       /\ input[c].caller \in Allowed(input[c].op)
       /\ ~wrote[c]
       /\ answer[c] = NoAnswer
       /\ pc[c] \in {"stamp", "deadline"} => input[c].op \in Transitions
       /\ pc[c] = "stamp" => stamp[c] = None /\ due[c] = None
       /\ pc[c] = "deadline" => due[c] = None
       /\ input[c].op = "read" => stamp[c] = None
       /\ input[c].op \notin Transitions => due[c] = None
       /\ ~Unrepresentable(input[c])
       /\ input[c].op = "request" =>
            stamp[c] \in Times /\ stamp[c] < Normalize(input[c].expires_at)
       /\ input[c].op \in Transitions /\ pc[c] # "stamp" => stamp[c] \in Times
       /\ input[c].op \in Transitions /\ pc[c] = "batch" =>
            due[c] \in Times /\ due[c] <= now + Skew

\* Neither a request id nor a requester's key names two rows.
UniqueRows == \A a, b \in table : Conflicts(a.columns, b.columns) => a = b

\* Every record would pass the CHECK constraints of the PostgreSQL table, which
\* this table does not have.
Sound == \A record \in Records : TableCheck(record)

IInv ==
  /\ TypeOK
  /\ \A c \in Calls : Serving(c)
  /\ ColumnsAgree /\ UniqueRows /\ Sound
  /\ TerminalAuthority /\ ExpiredAfterDeadline
  /\ EffectsDurable /\ OutcomesStand
  /\ DefencesIdle
=============================================================================
