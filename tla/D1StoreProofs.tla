--------------------------- MODULE D1StoreProofs ---------------------------
(***************************************************************************)
(* The safety of D1Store for every set of calls, ids, keys, inputs and     *)
(* times, and that it implements ApprovalLedger.                           *)
(***************************************************************************)
EXTENDS D1Store, ApprovalServiceProofs

\* Nothing is stored or under way at first.
LEMMA InitIInv == Init => IInv
<1> SUFFICES ASSUME Init PROVE IInv
  OBVIOUS
<1> USE DEF Init
<1>1. 0 \in Times
  BY ModelAssumption DEF Times
<1>2. TypeOK
  BY <1>1, AnswerTypes DEF TypeOK, Steps
<1>3. \A c \in Calls : Serving(c)
  BY DEF Serving
<1>4. ColumnsAgree /\ UniqueRows /\ Sound /\ TerminalAuthority /\ ExpiredAfterDeadline
  BY DEF ColumnsAgree, UniqueRows, Sound, TerminalAuthority, ExpiredAfterDeadline, Records
<1>5. EffectsDurable /\ OutcomesStand /\ DefencesIdle
  BY DEF EffectsDurable, OutcomesStand, DefencesIdle, NoAnswer, Reply
<1> QED BY <1>2, <1>3, <1>4, <1>5 DEF IInv

-----------------------------------------------------------------------------
(* Steps of one call *)

\* The invariants of the rows.
RowsSound == ColumnsAgree /\ UniqueRows /\ Sound /\ TerminalAuthority /\ ExpiredAfterDeadline

\* Every row is still there, of the same intent, and the same if it was terminal.
Carried ==
  \A row \in table :
    \E after \in table' :
      /\ SameIntent(after.record, row.record)
      /\ after = row \/ IsPending(row.record)

OthersKeep(c) ==
  /\ now' = now
  /\ \A d \in Calls \ {c} :
       /\ pc'[d] = pc[d] /\ input'[d] = input[d] /\ stamp'[d] = stamp[d] /\ due'[d] = due[d]
       /\ answer'[d] = answer[d] /\ wrote'[d] = wrote[d]

\* Any effect on record and any outcome shown survives a step that carries rows.
LEMMA EffectKept ==
  ASSUME Carried, TypeOK, NEW in \in Inputs, NEW record \in Records, Effected(in, record),
         in.op # "read"
  PROVE  \E after \in Records' : Effected(in, after)
<1>1. PICK row \in table : row.record = record
  BY DEF Records
<1>2. PICK after \in table' :
        /\ SameIntent(after.record, row.record)
        /\ after = row \/ IsPending(row.record)
  BY DEF Carried
<1>3. after.record \in Records'
  BY DEF Records
<1>4. in \in Input
  BY ServiceAssumption
<1>5. CASE after = row
  BY <1>1, <1>3, <1>5
<1>6. CASE IsPending(row.record)
  <2>1. in.op = "request"
    BY <1>1, <1>4, <1>6 DEF Effected, IsPending, Input, Ops
  <2>2. SameIntent(after.record, IntentOf(in, after.record.requested_at))
    BY <1>1, <1>2, <2>1 DEF Effected, SameIntent, IntentOf
  <2>3. after.record.request_id = in.request_id
    BY <1>1, <1>2 DEF Effected, SameIntent
  <2> QED BY <1>3, <2>1, <2>2, <2>3 DEF Effected
<1> QED BY <1>2, <1>5, <1>6

\* A step of one call preserves the invariant if it carries the rows, leaves
\* sound ones, and leaves the moving call served, truthful and without a fault.
LEMMA CallStep ==
  ASSUME IInv, NEW c \in Calls, OthersKeep(c), TypeOK', RowsSound', Carried, Serving(c)',
         wrote'[c] => \E record \in Records' : Effected(input'[c], record),
         answer'[c].kind = "ok" /\ ~IsPending(answer'[c].approval)
           => answer'[c].approval \in Records',
         answer'[c].kind = "unavailable" => Expected(input'[c], answer'[c].error)
  PROVE  IInv'
<1> USE DEF IInv, OthersKeep
<1>1. \A d \in Calls : Serving(d)'
  <2> SUFFICES ASSUME NEW d \in Calls, d # c PROVE Serving(d)'
    OBVIOUS
  <2>1. Serving(d)
    OBVIOUS
  <2> QED BY <2>1 DEF Serving
<1>2. EffectsDurable'
  <2> SUFFICES ASSUME NEW d \in Calls, d # c, wrote'[d]
               PROVE  \E record \in Records' : Effected(input'[d], record)
    BY DEF EffectsDurable
  <2>1. wrote[d] /\ input'[d] = input[d]
    OBVIOUS
  <2>2. input[d] \in Inputs /\ input[d].op # "read"
    BY <2>1 DEF Serving
  <2>3. PICK record \in Records : Effected(input[d], record)
    BY <2>1 DEF EffectsDurable
  <2> QED BY <2>1, <2>2, <2>3, EffectKept
<1>3. \A record \in Records : ~IsPending(record) => record \in Records'
  BY DEF Carried, Records
<1>4. OutcomesStand'
  <2> SUFFICES ASSUME NEW d \in Calls, d # c, answer[d].kind = "ok", ~IsPending(answer[d].approval)
               PROVE  answer[d].approval \in Records'
    BY DEF OutcomesStand
  <2> QED BY <1>3 DEF OutcomesStand
<1>5. DefencesIdle'
  BY DEF DefencesIdle
<1> QED BY <1>1, <1>2, <1>4, <1>5 DEF RowsSound

RowType == [columns: Columns, record: StoredApproval]

\* A step that leaves the rows alone leaves them sound.
LEMMA SameRows ==
  ASSUME IInv, table' = table, now' = now
  PROVE  RowsSound' /\ Carried
BY DEF IInv, RowsSound, ColumnsAgree, UniqueRows, Sound, TerminalAuthority,
       ExpiredAfterDeadline, Carried, SameIntent, Records

\* A call that is over is idle, holds no reading, and has the reply.
LEMMA Finished ==
  ASSUME TypeOK, NEW c \in Calls, NEW reply \in Answers, Finish(c, reply),
         table' \subseteq RowType, wrote' \in [Calls -> BOOLEAN],
         \A d \in Calls \ {c} : wrote'[d] = wrote[d]
  PROVE  /\ TypeOK' /\ OthersKeep(c)
         /\ pc'[c] = "idle" /\ stamp'[c] = None /\ due'[c] = None
         /\ answer'[c] = reply /\ input'[c] = input[c]
BY DEF TypeOK, Finish, OthersKeep, Steps, RowType

\* A batch that leaves sound rows and gets a truthful reply, received or not.
LEMMA ReceiptStep ==
  ASSUME IInv, NEW c \in Calls, pc[c] = "batch", NEW reply \in Answers,
         NEW rows, Receipt(c, rows, reply), rows \subseteq RowType,
         RowsSound', Carried,
         rows # table => /\ input[c].op # "read"
                         /\ \E record \in Records' : Effected(input[c], record),
         reply.kind # "unavailable",
         reply.kind = "ok" /\ ~IsPending(reply.approval) => reply.approval \in Records'
  PROVE  IInv'
<1> USE DEF IInv
<1>1. Unavailable("Database") \in Answers /\ Unavailable("Database").error = "Database"
  BY AnswerTypes DEF RuntimeFailures
<1>2. Unavailable("Database").kind # "ok"
  BY DEF Unavailable, Reply
<1>3. PICK said \in {reply, Unavailable("Database")} : Finish(c, said)
  BY DEF Receipt
<1>4. table' = rows /\ wrote' = [wrote EXCEPT ![c] = rows # table]
  BY DEF Receipt
<1>5. wrote' \in [Calls -> BOOLEAN]
  BY <1>4 DEF TypeOK
<1>6. /\ TypeOK' /\ OthersKeep(c)
      /\ pc'[c] = "idle" /\ stamp'[c] = None /\ due'[c] = None
      /\ answer'[c] = said /\ input'[c] = input[c]
  BY <1>1, <1>3, <1>4, <1>5, Finished DEF TypeOK
<1>7. wrote'[c] = (rows # table)
  BY <1>4 DEF TypeOK
<1>8. input[c] \in Inputs
  BY DEF Serving
<1>9. Serving(c)'
  BY <1>6, <1>7, <1>8 DEF Serving
<1> QED BY <1>1, <1>2, <1>6, <1>7, <1>9, CallStep DEF Expected

-----------------------------------------------------------------------------
(* The worker *)

\* A step that changes neither the rows nor the answer of a call under way, and
\* keeps it served.
LEMMA QuietStep ==
  ASSUME IInv, NEW c \in Calls, UNCHANGED <<table, now, input, answer, wrote>>,
         OthersKeep(c), TypeOK', Serving(c)'
  PROVE  IInv'
<1>1. RowsSound' /\ Carried
  BY SameRows
<1>2. wrote'[c] => \E record \in Records' : Effected(input'[c], record)
  BY DEF IInv, EffectsDurable, Records
<1>3. answer'[c].kind = "ok" /\ ~IsPending(answer'[c].approval) => answer'[c].approval \in Records'
  BY DEF IInv, OutcomesStand, Records
<1>4. answer'[c].kind = "unavailable" => Expected(input'[c], answer'[c].error)
  BY DEF IInv, DefencesIdle
<1> QED BY <1>1, <1>2, <1>3, <1>4, CallStep

\* Admission lets in only inputs the later steps can rely on.
LEMMA InvokeStep ==
  ASSUME IInv, NEW c \in Calls, Invoke(c)
  PROVE  IInv'
<1> USE DEF IInv
<1>1. PICK in \in Inputs, at \in DateNow :
        /\ pc[c] = "idle"
        /\ input' = [input EXCEPT ![c] = in]
        /\ wrote' = [wrote EXCEPT ![c] = FALSE]
        /\ \/ /\ \E reply \in {Rejection(in), Unavailable("Database")} :
                   answer' = [answer EXCEPT ![c] = reply]
              /\ UNCHANGED <<pc, stamp>>
           \/ /\ Admitted(in, at)
              /\ answer' = [answer EXCEPT ![c] = NoAnswer]
              /\ pc' = [pc EXCEPT ![c] = IF in.op \in Transitions THEN "stamp" ELSE "batch"]
              /\ stamp' = [stamp EXCEPT ![c] = IF in.op = "request" THEN Normalize(at) ELSE None]
        /\ UNCHANGED <<table, now, due>>
  BY DEF Invoke
<1>2. in \in Input /\ at \in Times /\ Normalize(at) \in Times
  BY ServiceAssumption, NormalizeDown DEF DateNow
<1>3. \A reply \in {Rejection(in), Unavailable("Database"), NoAnswer} :
        /\ reply \in Answers /\ reply.kind # "ok"
        /\ reply.kind = "unavailable" => Expected(in, reply.error)
  <2>1. \A reply \in {Unavailable("Database"), NoAnswer} : reply \in Answers
    BY AnswerTypes DEF RuntimeFailures
  <2>2. /\ Unavailable("Database").kind = "unavailable"
        /\ Expected(in, Unavailable("Database").error)
        /\ NoAnswer.kind = "none"
    BY DEF Unavailable, NoAnswer, Reply, Expected
  <2> HIDE DEF IInv
  <2> QED BY <2>1, <2>2, RejectionType
<1>4. PICK reply \in {Rejection(in), Unavailable("Database"), NoAnswer} :
        /\ answer' = [answer EXCEPT ![c] = reply]
        /\ \/ UNCHANGED <<pc, stamp>>
           \/ /\ Admitted(in, at) /\ reply = NoAnswer
              /\ pc' = [pc EXCEPT ![c] = IF in.op \in Transitions THEN "stamp" ELSE "batch"]
              /\ stamp' = [stamp EXCEPT ![c] = IF in.op = "request" THEN Normalize(at) ELSE None]
  BY <1>1
<1> HIDE DEF IInv
<1>5. TypeOK'
  BY <1>1, <1>2, <1>3, <1>4 DEF IInv, TypeOK, Steps
<1>6. OthersKeep(c) /\ answer'[c] = reply /\ input'[c] = in /\ wrote'[c] = FALSE
  BY <1>1, <1>4 DEF IInv, TypeOK, OthersKeep
<1>7. Serving(c)'
  <2>1. pc[c] = "idle" /\ stamp[c] = None /\ due[c] = None
    BY <1>1 DEF IInv, Serving
  <2>2. CASE UNCHANGED <<pc, stamp>>
    BY <1>1, <1>6, <2>1, <2>2 DEF Serving
  <2>3. CASE /\ Admitted(in, at) /\ reply = NoAnswer
             /\ pc' = [pc EXCEPT ![c] = IF in.op \in Transitions THEN "stamp" ELSE "batch"]
             /\ stamp' = [stamp EXCEPT ![c] = IF in.op = "request" THEN Normalize(at) ELSE None]
    <3>1. /\ pc'[c] = IF in.op \in Transitions THEN "stamp" ELSE "batch"
          /\ stamp'[c] = IF in.op = "request" THEN Normalize(at) ELSE None
          /\ due'[c] = None
      BY <1>1, <2>1, <2>3 DEF IInv, TypeOK
    <3>2. /\ in.caller \in Allowed(in.op) /\ ~Unrepresentable(in)
          /\ in.op = "request" => Normalize(at) < Normalize(in.expires_at)
      <4>1. in.op = "request" /\ ~Unrepresentable(in) => Normalize(in.expires_at) \in Times
        BY DeadlineStored
      <4> QED BY <1>2, <2>3, <4>1, ModelAssumption DEF Admitted, Forbidden, InvalidRequest, Times
    <3> QED BY <1>2, <1>6, <2>3, <3>1, <3>2 DEF Serving, Transitions
  <2> QED BY <1>4, <2>2, <2>3
<1>8. RowsSound' /\ Carried
  BY <1>1, SameRows
<1> QED BY <1>3, <1>5, <1>6, <1>7, <1>8, CallStep

\* The two clock readings.
LEMMA StampAtStep ==
  ASSUME IInv, NEW c \in Calls, StampAt(c)
  PROVE  IInv'
<1>1. PICK at \in DateNow :
        /\ pc[c] = "stamp" /\ stamp' = [stamp EXCEPT ![c] = at]
        /\ pc' = [pc EXCEPT ![c] = "deadline"]
        /\ UNCHANGED <<table, now, input, due, answer, wrote>>
  BY DEF StampAt
<1>2. TypeOK /\ Serving(c) /\ at \in Times
  BY DEF IInv, DateNow
<1>3. TypeOK' /\ OthersKeep(c) /\ pc'[c] = "deadline" /\ stamp'[c] = at
  BY <1>1, <1>2 DEF TypeOK, OthersKeep, Steps
<1>4. Serving(c)'
  BY <1>1, <1>2, <1>3 DEF Serving, Transitions
<1> QED BY <1>1, <1>3, <1>4, QuietStep

LEMMA ReadNowStep ==
  ASSUME IInv, NEW c \in Calls, ReadNow(c)
  PROVE  IInv'
<1>1. PICK at \in DateNow :
        /\ pc[c] = "deadline" /\ due' = [due EXCEPT ![c] = at]
        /\ pc' = [pc EXCEPT ![c] = "batch"]
        /\ UNCHANGED <<table, now, input, stamp, answer, wrote>>
  BY DEF ReadNow
<1>2. TypeOK /\ Serving(c) /\ at \in Times /\ at <= now + Skew
  BY DEF IInv, DateNow
<1>3. TypeOK' /\ OthersKeep(c) /\ pc'[c] = "batch" /\ due'[c] = at
  BY <1>1, <1>2 DEF TypeOK, OthersKeep, Steps
<1>4. Serving(c)'
  BY <1>1, <1>2, <1>3 DEF Serving, Transitions
<1> QED BY <1>1, <1>3, <1>4, QuietStep

\* A call that ends without its batch is an outage.
LEMMA AbortStep ==
  ASSUME IInv, NEW c \in Calls, Abort(c)
  PROVE  IInv'
<1>1. Unavailable("Database") \in Answers /\ Unavailable("Database").error = "Database"
      /\ Unavailable("Database").kind # "ok"
  BY AnswerTypes DEF RuntimeFailures, Unavailable, Reply
<1>2. TypeOK /\ Serving(c) /\ pc[c] # "idle"
  BY DEF IInv, Abort
<1>3. /\ TypeOK' /\ OthersKeep(c)
      /\ pc'[c] = "idle" /\ stamp'[c] = None /\ due'[c] = None
      /\ answer'[c] = Unavailable("Database") /\ input'[c] = input[c] /\ wrote' = wrote
  BY <1>1, <1>2, Finished DEF Abort, TypeOK, RowType
<1>4. RowsSound' /\ Carried
  BY SameRows DEF Abort, Finish
<1>5. Serving(c)' /\ ~wrote'[c]
  BY <1>2, <1>3 DEF Serving
<1> QED BY <1>1, <1>3, <1>4, <1>5, CallStep DEF Expected

-----------------------------------------------------------------------------
(* The batches *)

\* The rows and records of a sound table.
LEMMA RowFacts ==
  ASSUME IInv, NEW row \in table
  PROVE  /\ row \in RowType
         /\ row.columns \in Columns /\ row.record \in StoredApproval
         /\ TableCheck(row.record) /\ ValidEvidence(row.record)
         /\ row.columns.request_id = row.record.request_id
         /\ row.columns.requester_instance = row.record.requester_instance
         /\ row.columns.idempotency_key = row.record.idempotency_key
         /\ row.columns.status = row.record.status
         /\ row.columns.revision = row.record.revision
         /\ row.columns.expires_us = row.record.expires_at
         /\ row.record \in Records
<1>1. row \in RowType /\ row.columns \in Columns /\ row.record \in StoredApproval
  BY DEF IInv, TypeOK, RowType
<1>2. row.record \in Records
  BY DEF Records
<1>3. TableCheck(row.record) /\ ValidEvidence(row.record)
  BY <1>2 DEF IInv, Sound, TableCheck
<1> QED BY <1>1, <1>2, <1>3 DEF IInv, ColumnsAgree

\* What a request says of a row it finds is a refusal, or that row.
LEMMA ReplayedReply ==
  ASSUME NEW in, in.op = "request", NEW intent, NEW created \in BOOLEAN,
         NEW approval \in StoredApproval, TableCheck(approval)
  PROVE  LET reply == Replayed(in, intent, created, approval)
         IN  /\ reply \in Answers /\ reply.kind # "unavailable"
             /\ reply.kind = "ok" => reply.approval = approval
             /\ reply = IF SameIntent(approval, intent)
                        THEN Reply("ok", "none", created, approval)
                        ELSE Failure(in, "IdempotencyConflict")
<1>1. ValidEvidence(approval)
  BY DEF TableCheck
<1>2. Response(in, created, approval) = Reply("ok", "none", created, approval)
  BY StoredPresentable DEF Response
<1>3. /\ Failure(in, "IdempotencyConflict") \in Answers
      /\ Failure(in, "IdempotencyConflict").kind = "refused"
  BY FailureType DEF DomainFailures
<1>4. CASE SameIntent(approval, intent)
  <2>1. Replayed(in, intent, created, approval) = Response(in, created, approval)
    BY <1>1, <1>4 DEF Replayed
  <2> QED BY <1>2, <1>4, <2>1 DEF Reply, Answers
<1>5. CASE ~SameIntent(approval, intent)
  <2>1. Replayed(in, intent, created, approval) = Failure(in, "IdempotencyConflict")
    BY <1>1, <1>5 DEF Replayed
  <2> QED BY <1>3, <1>5, <2>1
<1> QED BY <1>4, <1>5

\* The row of an admitted request.
LEMMA NewRowFacts ==
  ASSUME IInv, NEW c \in Calls, pc[c] = "batch", input[c].op = "request"
  PROVE  LET intent == IntentOf(input[c], stamp[c])
             new == NewRow(intent)
         IN  /\ new \in RowType
             /\ new.record = PendingApproval(intent)
             /\ new.record \in StoredApproval /\ TableCheck(new.record)
             /\ IsPending(new.record)
             /\ new.record.requester_instance = input[c].caller
             /\ input[c].caller \in Requesters
             /\ \A f \in {"request_id", "requester_instance", "idempotency_key",
                          "status", "revision"} : new.columns[f] = new.record[f]
             /\ new.columns.expires_us = new.record.expires_at
             /\ Effected(input[c], new.record)
             /\ SameIntent(new.record, intent)
<1> DEFINE intent == IntentOf(input[c], stamp[c])
           new == NewRow(intent)
<1>1. /\ input[c] \in Inputs /\ input[c].caller \in Allowed("request")
      /\ ~Unrepresentable(input[c])
      /\ stamp[c] \in Times /\ stamp[c] < Normalize(input[c].expires_at)
  BY DEF IInv, Serving
<1>2. input[c].caller \in Requesters /\ input[c].caller \in Instances
  BY <1>1, ServiceAssumption DEF Allowed
<1>3. new.record = PendingApproval(intent)
  BY DEF NewRow
<1>4. /\ new.record \in StoredApproval /\ TableCheck(new.record) /\ IsPending(new.record)
      /\ new.record.request_id = input[c].request_id
      /\ new.record.requester_instance = input[c].caller
      /\ new.record.requested_at = stamp[c]
  BY <1>1, <1>2, <1>3, PendingRow
<1>5. /\ \A f \in {"request_id", "requester_instance", "idempotency_key",
                   "status", "revision"} : new.columns[f] = new.record[f]
      /\ new.columns.expires_us = new.record.expires_at
  BY DEF NewRow, PendingApproval
<1>6. SameIntent(new.record, intent)
  BY DEF NewRow, PendingApproval, SameIntent
<1>7. Effected(input[c], new.record)
  BY <1>4, <1>6 DEF Effected
<1>8. new \in RowType
  <2>1. new.columns \in Columns
    BY <1>4 DEF NewRow, PendingApproval, Columns, StoredApproval, Statuses
  <2> QED BY <1>4, <2>1 DEF NewRow, RowType
<1> QED BY <1>2, <1>3, <1>4, <1>5, <1>6, <1>7, <1>8

\* Inserting it where nothing conflicts leaves sound rows.
LEMMA InsertRows ==
  ASSUME IInv, NEW c \in Calls, pc[c] = "batch", input[c].op = "request",
         now' = now,
         table' = table \cup {NewRow(IntentOf(input[c], stamp[c]))},
         \A row \in table :
           ~Conflicts(row.columns, NewRow(IntentOf(input[c], stamp[c])).columns)
  PROVE  RowsSound' /\ Carried
<1> DEFINE new == NewRow(IntentOf(input[c], stamp[c]))
<1>1. /\ TableCheck(new.record) /\ IsPending(new.record)
      /\ new.record.requester_instance \in Requesters
      /\ \A f \in {"request_id", "requester_instance", "idempotency_key",
                   "status", "revision"} : new.columns[f] = new.record[f]
      /\ new.columns.expires_us = new.record.expires_at
  BY NewRowFacts
<1> HIDE DEF new
<1>2. /\ table' = table \cup {new}
      /\ \A row \in table : ~Conflicts(row.columns, new.columns)
  BY DEF new
<1>3. Records' = Records \cup {new.record}
  BY <1>2 DEF Records
<1>4. ColumnsAgree'
  BY <1>1, <1>2 DEF IInv, ColumnsAgree
<1>5. UniqueRows'
  BY <1>2 DEF IInv, UniqueRows, Conflicts
<1>6. Sound' /\ TerminalAuthority' /\ ExpiredAfterDeadline'
  BY <1>1, <1>3 DEF IInv, Sound, TerminalAuthority, ExpiredAfterDeadline, IsPending
<1>7. Carried
  BY <1>2 DEF Carried, SameIntent
<1> QED BY <1>4, <1>5, <1>6, <1>7 DEF RowsSound

LEMMA RequestStep ==
  ASSUME IInv, NEW c \in Calls, Request(c)
  PROVE  IInv'
<1> DEFINE in == input[c]
           intent == IntentOf(in, stamp[c])
           new == NewRow(intent)
           there == {row \in table : Conflicts(row.columns, new.columns)}
           created == there = {}
           after == IF created THEN table \cup {new} ELSE table
           selected == {row.record : row \in {r \in after : Conflicts(r.columns, new.columns)}}
<1>1. /\ pc[c] = "batch" /\ in.op = "request"
      /\ \/ Receipt(c, after, Failure(in, "IdempotencyConflict"))
         \/ \E approval \in selected : Receipt(c, after, Replayed(in, intent, created, approval))
  BY DEF Request
<1>2. new \in RowType /\ new.record \in StoredApproval /\ TableCheck(new.record)
      /\ Effected(in, new.record)
  BY <1>1, NewRowFacts
<1>3. table \subseteq RowType /\ \A row \in table : row.record \in StoredApproval /\ TableCheck(row.record)
  BY RowFacts DEF IInv, TypeOK, RowType
<1>4. after \subseteq RowType
  BY <1>2, <1>3
<1>5. table' = after /\ now' = now
  BY <1>1 DEF Receipt, Finish
<1>6. RowsSound' /\ Carried
  <2>1. CASE created
    BY <1>1, <1>5, <2>1, InsertRows
  <2>2. CASE ~created
    BY <1>5, <2>2, SameRows
  <2> QED BY <2>1, <2>2
<1>7. after # table => \E record \in Records' : Effected(in, record)
  BY <1>2, <1>5 DEF Records
<1>8. \A approval \in selected :
        approval \in Records' /\ approval \in StoredApproval /\ TableCheck(approval)
  <2>1. \A row \in after : row.record \in StoredApproval /\ TableCheck(row.record)
    BY <1>2, <1>3
  <2> HIDE DEF after
  <2> QED BY <1>5, <2>1 DEF Records
<1>9. created \in BOOLEAN
  OBVIOUS
<1>10. PICK reply \in Answers :
         /\ Receipt(c, after, reply) /\ reply.kind # "unavailable"
         /\ reply.kind = "ok" => reply.approval \in Records'
  <2> HIDE DEF selected, after, created, intent
  <2>1. CASE Receipt(c, after, Failure(in, "IdempotencyConflict"))
    BY <2>1, FailureType DEF DomainFailures
  <2>2. ASSUME NEW approval \in selected, Receipt(c, after, Replayed(in, intent, created, approval))
        PROVE  \E reply \in Answers :
                 /\ Receipt(c, after, reply) /\ reply.kind # "unavailable"
                 /\ reply.kind = "ok" => reply.approval \in Records'
    BY <1>1, <1>8, <1>9, <2>2, ReplayedReply
  <2> QED BY <1>1, <2>1, <2>2
<1> HIDE DEF after
<1> QED BY <1>1, <1>4, <1>6, <1>7, <1>10, ReceiptStep

\* What an UPDATE makes of a pending row: the columns and the record agree, and
\* the record is the one PostgreSQL would have stored.
LEMMA EndedRow ==
  ASSUME IInv, NEW old \in table, IsPending(old.record),
         NEW in \in Inputs, in.op \in Transitions, in.caller \in Allowed(in.op),
         NEW at \in Times
  PROVE  LET new == Ended(old, in, at)
         IN  /\ new.record = Terminated(old.record, in, at)
             /\ new \in RowType
             /\ SameIntent(new.record, old.record)
             /\ TableCheck(new.record) /\ ~IsPending(new.record)
             /\ new.record.terminal_caller_instance = in.caller
             /\ new.record.status \in {"approved", "rejected"} <=> in.op = "decide"
             /\ new.record.status = "cancelled" <=> in.op = "cancel"
             /\ new.record.status = "expired" <=> in.op = "expire"
             /\ \A f \in {"request_id", "requester_instance", "idempotency_key",
                          "status", "revision"} : new.columns[f] = new.record[f]
             /\ new.columns.expires_us = new.record.expires_at
             /\ in.op = "decide" => new.record.status = in.decision
<1> DEFINE new == Ended(old, in, at)
           record == Terminated(old.record, in, at)
<1>1. in.caller \in Instances
  BY ServiceAssumption DEF Allowed, Transitions
<1>2. /\ record \in StoredApproval /\ TableCheck(record) /\ ~IsPending(record)
      /\ SameIntent(record, old.record)
      /\ record.terminal_caller_instance = in.caller
      /\ record.status \in {"approved", "rejected"} <=> in.op = "decide"
      /\ record.status = "cancelled" <=> in.op = "cancel"
      /\ record.status = "expired" <=> in.op = "expire"
  BY <1>1, RowFacts, TerminatedRow DEF Transitions
<1>3. record.revision = 2
  BY <1>2 DEF TableCheck, ValidEvidence, IsPending
<1>4. in.op = "decide" => record.status = in.decision
  BY RowFacts DEF Terminated, StoredApproval
<1> HIDE DEF record
<1>5. [record EXCEPT !.revision = 2] = record
  BY <1>2, <1>3 DEF StoredApproval
<1>6. /\ new.record = record
      /\ new.columns = [old.columns EXCEPT !.status = record.status, !.revision = 2]
  BY <1>5 DEF Ended, record
<1>7. /\ old.columns \in Columns
      /\ old.columns.request_id = record.request_id
      /\ old.columns.requester_instance = record.requester_instance
      /\ old.columns.idempotency_key = record.idempotency_key
      /\ old.columns.expires_us = record.expires_at
  BY <1>2, RowFacts DEF SameIntent
<1>8. /\ \A f \in {"request_id", "requester_instance", "idempotency_key",
                   "status", "revision"} : new.columns[f] = new.record[f]
      /\ new.columns.expires_us = new.record.expires_at
  BY <1>3, <1>6, <1>7 DEF Columns
<1>9. new \in RowType
  <2>1. new.columns \in Columns
    BY <1>2, <1>6, <1>7 DEF Columns, StoredApproval
  <2> QED BY <1>2, <1>6, <2>1 DEF Ended, RowType
<1> QED BY <1>2, <1>6, <1>8, <1>4, <1>9 DEF record

\* The rows after a transition's UPDATE.
UpdateHits(c, row) == Matches(row.columns, input[c], due[c])

Updated(c) ==
  {IF UpdateHits(c, row) THEN Ended(row, input[c], stamp[c]) ELSE row : row \in table}

\* It leaves the table alone, or ends one pending row that its operation may end
\* now.
LEMMA UpdatedRows ==
  ASSUME IInv, NEW c \in Calls, pc[c] = "batch", input[c].op \in Transitions
  PROVE  \/ /\ \A row \in table : ~UpdateHits(c, row)
            /\ Updated(c) = table
         \/ \E old \in table :
              /\ UpdateHits(c, old) /\ IsPending(old.record)
              /\ old.record.request_id = input[c].request_id
              /\ ~Foreign(input[c], old.record)
              /\ input[c].op = "expire" => IsDue(old.record, due[c])
              /\ Updated(c) = {row \in table : row # old} \cup {Ended(old, input[c], stamp[c])}
              /\ \A row \in table : row.record.request_id = input[c].request_id => row = old
<1>1. CASE \A row \in table : ~UpdateHits(c, row)
  BY <1>1 DEF Updated
<1>2. ASSUME NEW old \in table, UpdateHits(c, old)
      PROVE  /\ IsPending(old.record)
             /\ old.record.request_id = input[c].request_id
             /\ ~Foreign(input[c], old.record)
             /\ input[c].op = "expire" => IsDue(old.record, due[c])
             /\ Updated(c) = {row \in table : row # old} \cup {Ended(old, input[c], stamp[c])}
             /\ \A row \in table : row.record.request_id = input[c].request_id => row = old
  <2>1. /\ IsPending(old.record)
        /\ old.columns.request_id = input[c].request_id
        /\ old.record.request_id = input[c].request_id
        /\ ~Foreign(input[c], old.record)
        /\ input[c].op = "expire" => IsDue(old.record, due[c])
    BY <1>2, RowFacts DEF UpdateHits, Matches, IsPending, Foreign, IsDue
  <2>2. \A row \in table : row.columns.request_id = input[c].request_id => row = old
    BY <2>1 DEF IInv, UniqueRows, Conflicts
  <2>3. \A row \in table : UpdateHits(c, row) <=> row = old
    BY <1>2, <2>2 DEF UpdateHits, Matches
  <2>4. Updated(c) = {row \in table : row # old} \cup {Ended(old, input[c], stamp[c])}
    BY <2>3 DEF Updated
  <2>5. \A row \in table : row.record.request_id = input[c].request_id => row = old
    BY <2>2, RowFacts
  <2> QED BY <2>1, <2>4, <2>5
<1> QED BY <1>1, <1>2

\* Ending a row leaves sound rows.
LEMMA UpdateRows ==
  ASSUME IInv, NEW c \in Calls, pc[c] = "batch", input[c].op \in Transitions,
         now' = now, table' = Updated(c)
  PROVE  /\ RowsSound' /\ Carried /\ Updated(c) \subseteq RowType
         /\ Updated(c) # table => \E record \in Records' : Effected(input[c], record)
<1>1. CASE Updated(c) = table
  BY <1>1, SameRows, RowFacts
<1>2. ASSUME NEW old \in table,
             UpdateHits(c, old), IsPending(old.record),
             old.record.request_id = input[c].request_id,
             ~Foreign(input[c], old.record),
             input[c].op = "expire" => IsDue(old.record, due[c]),
             Updated(c) = {row \in table : row # old} \cup {Ended(old, input[c], stamp[c])}
      PROVE  /\ RowsSound' /\ Carried /\ Updated(c) \subseteq RowType
             /\ \E record \in Records' : Effected(input[c], record)
  <2> DEFINE new == Ended(old, input[c], stamp[c])
  <2>1. /\ input[c] \in Inputs /\ input[c].caller \in Allowed(input[c].op)
        /\ stamp[c] \in Times /\ due[c] \in Times /\ due[c] <= now + Skew
    BY DEF IInv, Serving
  <2>2. /\ new \in RowType /\ SameIntent(new.record, old.record)
        /\ TableCheck(new.record) /\ ~IsPending(new.record)
        /\ new.record.terminal_caller_instance = input[c].caller
        /\ new.record.status \in {"approved", "rejected"} <=> input[c].op = "decide"
        /\ new.record.status = "cancelled" <=> input[c].op = "cancel"
        /\ new.record.status = "expired" <=> input[c].op = "expire"
        /\ \A f \in {"request_id", "requester_instance", "idempotency_key",
                     "status", "revision"} : new.columns[f] = new.record[f]
        /\ new.columns.expires_us = new.record.expires_at
        /\ input[c].op = "decide" => new.record.status = input[c].decision
    BY <1>2, <2>1, EndedRow
  <2> HIDE DEF new
  <2>3. table' = {row \in table : row # old} \cup {new}
    BY <1>2 DEF new
  <2>4. /\ new.record \in Records'
        /\ \A record \in Records' : record \in Records \/ record = new.record
    BY <2>3 DEF Records
  <2>5. ColumnsAgree'
    BY <2>2, <2>3 DEF IInv, ColumnsAgree
  <2>6. /\ new.columns.request_id = old.columns.request_id
        /\ new.columns.requester_instance = old.columns.requester_instance
        /\ new.columns.idempotency_key = old.columns.idempotency_key
    BY <2>2, RowFacts DEF SameIntent
  <2>7. UniqueRows'
    BY <2>3, <2>6 DEF IInv, UniqueRows, Conflicts
  <2>8. Sound'
    BY <2>2, <2>4 DEF IInv, Sound
  <2>9. TerminalAuthority'
    <3>1. new.record.requester_instance \in Requesters
      BY <2>2, RowFacts DEF IInv, TerminalAuthority, SameIntent
    <3>2. new.record.status = "cancelled" =>
            new.record.terminal_caller_instance = new.record.requester_instance
      BY <1>2, <2>2 DEF Foreign, SameIntent
    <3>3. /\ new.record.status \in {"approved", "rejected"} =>
               new.record.terminal_caller_instance \in Deciders
          /\ new.record.status = "expired" =>
               new.record.terminal_caller_instance \in Expirers
      BY <2>1, <2>2 DEF Allowed
    <3> QED BY <2>4, <3>1, <3>2, <3>3 DEF IInv, TerminalAuthority
  <2>10. ExpiredAfterDeadline'
    <3>1. new.record.status = "expired" => new.record.expires_at <= now + Skew
      <4>1. old.record.expires_at \in Times
        BY RowFacts DEF StoredApproval
      <4> QED BY <1>2, <2>1, <2>2, <4>1, ModelAssumption, StoreAssumption
              DEF IsDue, SameIntent, Times, IInv, TypeOK
    <3> QED BY <2>4, <3>1 DEF IInv, ExpiredAfterDeadline
  <2>11. Carried
    <3> SUFFICES ASSUME NEW row \in table
                 PROVE  \E after \in table' :
                          /\ SameIntent(after.record, row.record)
                          /\ after = row \/ IsPending(row.record)
      BY DEF Carried
    <3>1. CASE row = old
      BY <1>2, <2>2, <2>3, <3>1
    <3>2. CASE row # old
      BY <2>3, <3>2 DEF SameIntent
    <3> QED BY <3>1, <3>2
  <2>12. Updated(c) \subseteq RowType
    BY <1>2, <2>2, RowFacts DEF new
  <2>13. Effected(input[c], new.record)
    BY <1>2, <2>2 DEF Effected, SameIntent, Transitions
  <2> QED BY <2>4, <2>5, <2>7, <2>8, <2>9, <2>10, <2>11, <2>12, <2>13 DEF RowsSound
<1> QED BY <1>1, <1>2, UpdatedRows

\* A transition that hits nothing finds the reason in the row it is shown.
LEMMA Explained ==
  ASSUME IInv, NEW c \in Calls, pc[c] = "batch", input[c].op \in Transitions,
         NEW row \in table, row.record.request_id = input[c].request_id,
         ~UpdateHits(c, row)
  PROVE  \/ /\ Foreign(input[c], row.record)
            /\ Unchanged(input[c], row.record) = Failure(input[c], "NotRequester")
         \/ /\ ~Foreign(input[c], row.record) /\ ~IsPending(row.record)
            /\ Unchanged(input[c], row.record) = Failure(input[c], "AlreadyTerminal")
         \/ /\ ~Foreign(input[c], row.record) /\ IsPending(row.record)
            /\ input[c].op = "expire" /\ ~IsDue(row.record, due[c])
            /\ Unchanged(input[c], row.record) = Failure(input[c], "NotDue")
<1>1. CASE Foreign(input[c], row.record)
  BY <1>1 DEF Unchanged
<1>2. CASE ~Foreign(input[c], row.record) /\ ~IsPending(row.record)
  BY <1>2 DEF Unchanged
<1>3. CASE ~Foreign(input[c], row.record) /\ IsPending(row.record)
  <2>1. row.columns.status = "pending" /\ row.columns.revision = 1
        /\ row.columns.request_id = input[c].request_id
    BY <1>3, RowFacts DEF IsPending, ValidEvidence
  <2>2. input[c].op = "cancel" => row.columns.requester_instance = input[c].caller
    BY <1>3, RowFacts DEF Foreign
  <2>3. input[c].op = "expire" /\ ~IsDue(row.record, due[c])
    BY <2>1, <2>2, RowFacts DEF UpdateHits, Matches, IsDue
  <2> QED BY <1>3, <2>3 DEF Unchanged
<1> QED BY <1>1, <1>2, <1>3

\* What a transition's batch does and says.
Missed(c) ==
  /\ \A row \in table : row.record.request_id # input[c].request_id
  /\ Receipt(c, table, Failure(input[c], "RequestNotFound"))

Refusing(c, row) ==
  /\ row.record.request_id = input[c].request_id
  /\ ~UpdateHits(c, row)
  /\ Receipt(c, table, Unchanged(input[c], row.record))

Ending(c, old) ==
  /\ UpdateHits(c, old) /\ IsPending(old.record)
  /\ old.record.request_id = input[c].request_id
  /\ Updated(c) = {row \in table : row # old} \cup {Ended(old, input[c], stamp[c])}
  /\ Receipt(c, Updated(c),
       Reply("ok", "none", FALSE, Terminated(old.record, input[c], stamp[c])))

LEMMA TransitionCases ==
  ASSUME IInv, NEW c \in Calls, Transition(c)
  PROVE  /\ pc[c] = "batch" /\ input[c].op \in Transitions
         /\ Missed(c) \/ \E row \in table : Refusing(c, row) \/ Ending(c, row)
<1> DEFINE in == input[c]
           changed == \E row \in table : UpdateHits(c, row)
           after == Updated(c)
           shown == {row.record : row \in {r \in after : r.columns.request_id = in.request_id}}
<1>1. /\ pc[c] = "batch" /\ in.op \in Transitions
      /\ \/ shown = {} /\ Receipt(c, after, Failure(in, "RequestNotFound"))
         \/ \E approval \in shown :
              Receipt(c, after,
                CASE ~ValidEvidence(approval) -> Unavailable("InvalidEvidence")
                  [] ValidEvidence(approval) /\ changed -> Response(in, FALSE, approval)
                  [] OTHER -> Unchanged(in, approval))
  BY DEF Transition, Updated, UpdateHits
<1>2. \A approval : ValidEvidence(approval) =>
        (CASE ~ValidEvidence(approval) -> Unavailable("InvalidEvidence")
           [] ValidEvidence(approval) /\ changed -> Response(in, FALSE, approval)
           [] OTHER -> Unchanged(in, approval))
        = IF changed THEN Response(in, FALSE, approval) ELSE Unchanged(in, approval)
  BY Zenon
<1>3. CASE ~changed
  <2>1. after = table
    BY <1>1, <1>3, UpdatedRows
  <2>2. CASE shown = {} /\ Receipt(c, after, Failure(in, "RequestNotFound"))
    BY <1>1, <2>1, <2>2, RowFacts DEF Missed
  <2>3. ASSUME NEW approval \in shown,
               Receipt(c, after,
                 CASE ~ValidEvidence(approval) -> Unavailable("InvalidEvidence")
                   [] ValidEvidence(approval) /\ changed -> Response(in, FALSE, approval)
                   [] OTHER -> Unchanged(in, approval))
        PROVE  \E row \in table : Refusing(c, row)
    <3>1. PICK row \in table : row.record = approval /\ row.columns.request_id = in.request_id
      BY <2>1
    <3>2. ValidEvidence(approval) /\ row.record.request_id = in.request_id
      BY <3>1, RowFacts
    <3>3. Receipt(c, table, Unchanged(in, approval))
      BY <1>2, <1>3, <2>1, <2>3, <3>2
    <3> QED BY <1>3, <3>1, <3>2, <3>3 DEF Refusing
  <2> QED BY <1>1, <2>2, <2>3
<1>4. CASE changed
  <2>1. PICK old \in table :
          /\ UpdateHits(c, old) /\ IsPending(old.record)
          /\ old.record.request_id = in.request_id
          /\ after = {row \in table : row # old} \cup {Ended(old, in, stamp[c])}
          /\ \A row \in table : row.record.request_id = in.request_id => row = old
    BY <1>1, <1>4, UpdatedRows
  <2> DEFINE new == Ended(old, in, stamp[c])
  <2>2. in \in Inputs /\ in.caller \in Allowed(in.op) /\ stamp[c] \in Times
    BY <1>1 DEF IInv, Serving
  <2>3. /\ new.record = Terminated(old.record, in, stamp[c])
        /\ SameIntent(new.record, old.record)
        /\ TableCheck(new.record)
        /\ new.columns["request_id"] = new.record["request_id"]
        /\ new.record \in StoredApproval
    BY <1>1, <2>1, <2>2, EndedRow DEF RowType
  <2>4. new.columns.request_id = in.request_id
    BY <2>1, <2>3 DEF SameIntent
  <2> HIDE DEF new
  <2>5. shown = {new.record}
    <3>1. \A row \in after : row.columns.request_id = in.request_id <=> row = new
      BY <2>1, <2>4, RowFacts DEF new
    <3>2. new \in after
      BY <2>1 DEF new
    <3> HIDE DEF after
    <3> QED BY <3>1, <3>2
  <2>6. Receipt(c, after, Response(in, FALSE, new.record))
    BY <1>1, <1>2, <1>4, <2>3, <2>5 DEF TableCheck
  <2>7. Presentable(in, new.record)
    <3>1. in.caller \in Instances
      BY <1>1, <2>2, ServiceAssumption DEF Allowed, Transitions
    <3> QED BY <1>1, <2>1, <2>2, <2>3, <3>1, RowFacts, TerminatedPresentable DEF Transitions
  <2>8. Ending(c, old)
    BY <2>1, <2>3, <2>6, <2>7 DEF Ending, Response, new
  <2> QED BY <1>1, <2>8
<1> QED BY <1>1, <1>3, <1>4

LEMMA TransitionStep ==
  ASSUME IInv, NEW c \in Calls, Transition(c)
  PROVE  IInv'
<1>1. /\ pc[c] = "batch" /\ input[c].op \in Transitions
      /\ Missed(c) \/ \E row \in table : Refusing(c, row) \/ Ending(c, row)
  BY TransitionCases
<1>2. table \subseteq RowType /\ input[c].op # "read"
  BY <1>1, RowFacts DEF Transitions
<1>3. ASSUME NEW failure \in DomainFailures, Receipt(c, table, Failure(input[c], failure))
      PROVE  IInv'
  <2>1. /\ Failure(input[c], failure) \in Answers
        /\ Failure(input[c], failure).kind = "refused"
    BY FailureType
  <2>2. RowsSound' /\ Carried
    BY <1>3, SameRows DEF Receipt, Finish
  <2> QED BY <1>1, <1>2, <1>3, <2>1, <2>2, ReceiptStep
<1>4. CASE Missed(c)
  BY <1>3, <1>4 DEF Missed, DomainFailures
<1>5. ASSUME NEW row \in table, Refusing(c, row)
      PROVE  IInv'
  BY <1>1, <1>3, <1>5, Explained DEF Refusing, DomainFailures
<1>6. ASSUME NEW old \in table, Ending(c, old)
      PROVE  IInv'
  <2> DEFINE new == Ended(old, input[c], stamp[c])
             reply == Reply("ok", "none", FALSE, Terminated(old.record, input[c], stamp[c]))
  <2>1. table' = Updated(c) /\ now' = now /\ Receipt(c, Updated(c), reply)
    BY <1>6 DEF Ending, Receipt, Finish
  <2>2. /\ RowsSound' /\ Carried /\ Updated(c) \subseteq RowType
        /\ Updated(c) # table => \E record \in Records' : Effected(input[c], record)
    BY <1>1, <2>1, UpdateRows
  <2>3. input[c] \in Inputs /\ input[c].caller \in Allowed(input[c].op) /\ stamp[c] \in Times
    BY <1>1 DEF IInv, Serving
  <2>4. new.record = Terminated(old.record, input[c], stamp[c]) /\ new.record \in StoredApproval
    BY <1>1, <1>6, <2>3, EndedRow DEF Ending, RowType
  <2>5. new.record \in Records'
    BY <1>6, <2>1 DEF Ending, Records
  <2>6. reply \in Answers /\ reply.kind = "ok" /\ reply.approval \in Records'
    BY <2>4, <2>5 DEF Reply, Answers
  <2> HIDE DEF reply
  <2> QED BY <1>1, <1>2, <2>1, <2>2, <2>6, ReceiptStep
<1> QED BY <1>1, <1>4, <1>5, <1>6

\* A read shows a stored record, or none.
LEMMA ReadCases ==
  ASSUME IInv, NEW c \in Calls, Read(c)
  PROVE  /\ pc[c] = "batch" /\ input[c].op = "read"
         /\ \/ /\ \A row \in table : row.record.request_id = input[c].request_id
                                       => ~Readable(input[c], row.record)
               /\ Receipt(c, table, Failure(input[c], "RequestNotFound"))
            \/ \E row \in table :
                 /\ row.record.request_id = input[c].request_id
                 /\ Readable(input[c], row.record)
                 /\ Receipt(c, table, Reply("ok", "none", FALSE, row.record))
<1>1. \A row \in table : Readable(input[c], row.columns) <=> Readable(input[c], row.record)
  BY RowFacts DEF Readable
<1>2. pc[c] = "batch" /\ input[c].op = "read"
  BY DEF Read
<1>3. \A row \in table : Response(input[c], FALSE, row.record) = Reply("ok", "none", FALSE, row.record)
  <2> SUFFICES ASSUME NEW row \in table
               PROVE  Response(input[c], FALSE, row.record) = Reply("ok", "none", FALSE, row.record)
    OBVIOUS
  <2>1. Presentable(input[c], row.record)
    BY <1>2, RowFacts, StoredPresentable
  <2> QED BY <2>1 DEF Response
<1> DEFINE mine == {r \in table : /\ r.columns.request_id = input[c].request_id
                                 /\ Readable(input[c], r.columns)}
           shown == {row.record : row \in mine}
<1>4. CASE shown = {} /\ Receipt(c, table, Failure(input[c], "RequestNotFound"))
  <2>1. \A row \in table : row \notin mine
    BY <1>4
  <2>2. \A row \in table : row.record.request_id = input[c].request_id
                          => ~Readable(input[c], row.record)
    BY <2>1, <1>1, RowFacts
  <2> QED BY <1>2, <1>4, <2>2
<1>5. ASSUME NEW approval \in shown,
             Receipt(c, table, IF ValidEvidence(approval)
                               THEN Response(input[c], FALSE, approval)
                               ELSE Unavailable("InvalidEvidence"))
      PROVE  \E row \in table :
               /\ row.record.request_id = input[c].request_id
               /\ Readable(input[c], row.record)
               /\ Receipt(c, table, Reply("ok", "none", FALSE, row.record))
  <2>1. PICK row \in mine : approval = row.record
    OBVIOUS
  <2>2. row \in table /\ ValidEvidence(row.record)
    BY RowFacts
  <2>3. row.record.request_id = input[c].request_id /\ Readable(input[c], row.record)
    BY <2>2, <1>1, RowFacts
  <2> QED BY <1>3, <1>5, <2>1, <2>2, <2>3
<1> QED BY <1>2, <1>4, <1>5 DEF Read

LEMMA ReadStep ==
  ASSUME IInv, NEW c \in Calls, Read(c)
  PROVE  IInv'
<1>1. pc[c] = "batch"
  BY ReadCases
<1>2. PICK reply \in Answers :
        /\ Receipt(c, table, reply) /\ reply.kind # "unavailable"
        /\ reply.kind = "ok" => reply.approval \in Records
  <2>1. CASE Receipt(c, table, Failure(input[c], "RequestNotFound"))
    BY <2>1, FailureType DEF DomainFailures
  <2>2. ASSUME NEW row \in table, Receipt(c, table, Reply("ok", "none", FALSE, row.record))
        PROVE  \E reply \in Answers :
                 /\ Receipt(c, table, reply) /\ reply.kind # "unavailable"
                 /\ reply.kind = "ok" => reply.approval \in Records
    <3>1. row.record \in StoredApproval /\ row.record \in Records
      BY RowFacts
    <3>2. /\ Reply("ok", "none", FALSE, row.record) \in Answers
          /\ Reply("ok", "none", FALSE, row.record).kind = "ok"
          /\ Reply("ok", "none", FALSE, row.record).approval = row.record
      BY <3>1 DEF Reply, Answers
    <3> QED BY <2>2, <3>1, <3>2
  <2> QED BY <2>1, <2>2, ReadCases
<1>3. table' = table /\ now' = now
  BY <1>2 DEF Receipt, Finish
<1>4. RowsSound' /\ Carried /\ Records' = Records /\ table \subseteq RowType
  BY <1>3, SameRows, RowFacts DEF Records
<1> QED BY <1>1, <1>2, <1>4, ReceiptStep

\* Time passing takes no reading back.
LEMMA TickStep ==
  ASSUME IInv, Tick
  PROVE  IInv'
<1>1. /\ now \in Times /\ now' = now + 1 /\ now' \in Times
      /\ UNCHANGED <<table, pc, input, stamp, due, answer, wrote>>
  BY ModelAssumption DEF IInv, TypeOK, Tick, Times
<1>2. TypeOK'
  BY <1>1 DEF IInv, TypeOK
<1>3. \A c \in Calls : Serving(c)'
  <2> SUFFICES ASSUME NEW c \in Calls PROVE Serving(c)'
    OBVIOUS
  <2>1. Serving(c)
    BY DEF IInv
  <2> QED BY <1>1, <2>1, StoreAssumption DEF Serving, Times
<1>4. ColumnsAgree' /\ UniqueRows' /\ Sound' /\ TerminalAuthority'
  BY <1>1 DEF IInv, ColumnsAgree, UniqueRows, Sound, TerminalAuthority, Records
<1>5. ExpiredAfterDeadline'
  <2>1. \A record \in Records : record.expires_at \in Times
    BY DEF IInv, TypeOK, Records, StoredApproval
  <2> QED BY <1>1, <2>1, StoreAssumption DEF IInv, ExpiredAfterDeadline, Records, Times
<1>6. EffectsDurable' /\ OutcomesStand' /\ DefencesIdle'
  BY <1>1 DEF IInv, EffectsDurable, OutcomesStand, DefencesIdle, Records
<1> QED BY <1>2, <1>3, <1>4, <1>5, <1>6 DEF IInv

-----------------------------------------------------------------------------
(* The theorems *)

\* The inductive invariant holds in every behaviour, for every set of calls,
\* inputs and times.
THEOREM Invariance == Spec => []IInv
<1>1. Init => IInv
  BY InitIInv
<1>2. IInv /\ [Next]_vars => IInv'
  <2> SUFFICES ASSUME IInv, [Next]_vars PROVE IInv'
    OBVIOUS
  <2>1. ASSUME NEW c \in Calls,
               Invoke(c) \/ StampAt(c) \/ ReadNow(c) \/ Request(c) \/ Read(c) \/ Transition(c)
               \/ Abort(c)
        PROVE  IInv'
    BY <2>1, InvokeStep, StampAtStep, ReadNowStep, RequestStep, ReadStep, TransitionStep,
       AbortStep
  <2>2. CASE Tick
    BY <2>2, TickStep
  <2>3. CASE UNCHANGED vars
    BY <2>3 DEF vars, IInv, TypeOK, Serving, ColumnsAgree, UniqueRows, Sound,
       TerminalAuthority, ExpiredAfterDeadline, EffectsDurable, OutcomesStand,
       DefencesIdle, Records
  <2> QED BY <2>1, <2>2, <2>3 DEF Next
<1> QED BY <1>1, <1>2, PTL DEF Spec

\* Every variable keeps its type.
THEOREM TypeCorrect == Spec => []TypeOK
<1>1. IInv => TypeOK
  BY DEF IInv
<1> QED BY <1>1, Invariance, PTL

\* No id and no requester's idempotency key ever names two rows.
THEOREM Uniqueness == Spec => []UniqueRows
<1>1. IInv => UniqueRows
  BY DEF IInv
<1> QED BY <1>1, Invariance, PTL

\* The columns an UPDATE tests never part from the record the callers see.
THEOREM Agreement == Spec => []ColumnsAgree
<1>1. IInv => ColumnsAgree
  BY DEF IInv
<1> QED BY <1>1, Invariance, PTL

\* Only deciders decide, only the requester cancels, only expirers expire.
THEOREM Authorised == Spec => []TerminalAuthority
<1>1. IInv => TerminalAuthority
  BY DEF IInv
<1> QED BY <1>1, Invariance, PTL

\* Nothing expires before its deadline by more than a worker's clock is ahead.
THEOREM NotEarly == Spec => []ExpiredAfterDeadline
<1>1. IInv => ExpiredAfterDeadline
  BY DEF IInv
<1> QED BY <1>1, Invariance, PTL

\* What a batch did is never undone, whatever its caller was told.
THEOREM Durable == Spec => []EffectsDurable
<1>1. IInv => EffectsDurable
  BY DEF IInv
<1> QED BY <1>1, Invariance, PTL

\* An outcome once shown to a caller is the outcome.
THEOREM Final == Spec => []OutcomesStand
<1>1. IInv => OutcomesStand
  BY DEF IInv
<1> QED BY <1>1, Invariance, PTL

\* Every transition that changed nothing is explained, and every failure is an
\* outage or that of a deadline no timestamp holds.
THEOREM DefencesNeverAct == Spec => []DefencesIdle
<1>1. IInv => DefencesIdle
  BY DEF IInv
<1> QED BY <1>1, Invariance, PTL

-----------------------------------------------------------------------------
(* What calls are told *)

\* AnswersStand, of one call that did what it is told of.
Told(records, in, reply, did) ==
  LET named == {record \in records : record.request_id = in.request_id}
  IN  /\ reply.kind = "refused" => ~did
      /\ reply.kind = "ok" => (did <=> (reply.created \/ in.op \in Transitions))
      /\ reply.error = "AlreadyTerminal" => \E record \in named : ~IsPending(record)
      /\ reply.error = "NotRequester" =>
           \E record \in named : record.requester_instance # in.caller
      /\ reply.error = "IdempotencyConflict" => \E record \in records : InTheWay(in, record)
      /\ reply.kind = "ok" /\ in.caller \notin Deciders \cup Expirers
           => reply.approval.requester_instance = in.caller

\* One of two effects on a request is the call that made it, the other ended it.
Apart(a, b) ==
  a.request_id = b.request_id
    => {a.op, b.op} \cap Transitions # {} /\ "request" \in {a.op, b.op}

AllTold ==
  /\ \A c \in Calls : Told(Records, input[c], answer[c], wrote[c])
  /\ \A c, d \in Calls : c # d /\ wrote[c] /\ wrote[d] => Apart(input[c], input[d])

\* What was said of the rows is true of the rows carried on.
LEMMA ToldOn ==
  ASSUME Carried, NEW in, NEW reply, NEW did, Told(Records, in, reply, did)
  PROVE  Told(Records', in, reply, did)
<1>1. \A record \in Records : \E after \in Records' :
        SameIntent(after, record) /\ (after = record \/ IsPending(record))
  BY DEF Carried, Records
<1>2. ASSUME NEW record \in Records, InTheWay(in, record)
      PROVE  \E after \in Records' : InTheWay(in, after)
  BY <1>1, <1>2 DEF InTheWay, SameIntent
<1>3. ASSUME NEW record \in Records, record.request_id = in.request_id, ~IsPending(record)
      PROVE  \E after \in Records' : after.request_id = in.request_id /\ ~IsPending(after)
  BY <1>1, <1>3
<1>4. ASSUME NEW record \in Records, record.request_id = in.request_id,
             record.requester_instance # in.caller
      PROVE  \E after \in Records' :
               after.request_id = in.request_id /\ after.requester_instance # in.caller
  BY <1>1, <1>4 DEF SameIntent
<1> QED BY <1>2, <1>3, <1>4 DEF Told

\* A step of one call keeps what the others were told; what it writes itself, it
\* must be the first to write.
LEMMA ToldStep ==
  ASSUME AllTold, Carried, NEW c \in Calls, OthersKeep(c),
         Told(Records', input'[c], answer'[c], wrote'[c]),
         \A d \in Calls \ {c} : wrote'[c] /\ wrote[d] => Apart(input'[c], input[d])
  PROVE  AllTold'
<1>1. \A d \in Calls \ {c} :
        input'[d] = input[d] /\ answer'[d] = answer[d] /\ wrote'[d] = wrote[d]
  BY DEF OthersKeep
<1>2. \A d \in Calls \ {c} : Told(Records', input'[d], answer'[d], wrote'[d])
  BY <1>1, ToldOn DEF AllTold
<1>3. \A a, b : Apart(a, b) => Apart(b, a)
  BY DEF Apart
<1>4. \A a, b \in Calls : a # b /\ wrote'[a] /\ wrote'[b] => Apart(input'[a], input'[b])
  BY <1>1, <1>3 DEF AllTold
<1> QED BY <1>2, <1>4 DEF AllTold

\* A batch, and its reply or none.
LEMMA ToldReceipt ==
  ASSUME AllTold, IInv, Carried, NEW c \in Calls, NEW rows, NEW reply,
         Receipt(c, rows, reply), Told(Records', input[c], reply, rows # table),
         \A d \in Calls \ {c} : rows # table /\ wrote[d] => Apart(input[c], input[d])
  PROVE  AllTold'
<1>1. TypeOK
  BY DEF IInv
<1>2. PICK said \in {reply, Unavailable("Database")} : Finish(c, said)
  BY DEF Receipt
<1>3. wrote' = [wrote EXCEPT ![c] = rows # table]
  BY DEF Receipt
<1>4. OthersKeep(c) /\ answer'[c] = said /\ input' = input /\ wrote'[c] = (rows # table)
  BY <1>1, <1>2, <1>3 DEF Finish, OthersKeep, TypeOK
<1>5. \A did : Told(Records', input[c], Unavailable("Database"), did)
  BY DEF Told, Unavailable, Reply
<1>6. Told(Records', input'[c], answer'[c], wrote'[c])
  BY <1>2, <1>4, <1>5
<1> QED BY <1>4, <1>6, ToldStep

\* The batch of a request creates the row, finds it, or finds another in its way.
LEMMA RequestCases ==
  ASSUME IInv, NEW c \in Calls, Request(c)
  PROVE  LET intent == IntentOf(input[c], stamp[c])
             new == NewRow(intent)
         IN  /\ pc[c] = "batch" /\ input[c].op = "request"
             /\ \/ /\ \A row \in table : ~Conflicts(row.columns, new.columns)
                   /\ Receipt(c, table \cup {new}, Reply("ok", "none", TRUE, new.record))
                \/ \E row \in table :
                     /\ SameIntent(row.record, intent)
                     /\ Receipt(c, table, Reply("ok", "none", FALSE, row.record))
                \/ \E row \in table :
                     /\ Conflicts(row.record, intent) /\ ~SameIntent(row.record, intent)
                     /\ Receipt(c, table, Failure(input[c], "IdempotencyConflict"))
<1> DEFINE in == input[c]
           intent == IntentOf(in, stamp[c])
           new == NewRow(intent)
           there == {row \in table : Conflicts(row.columns, new.columns)}
           created == there = {}
           after == IF created THEN table \cup {new} ELSE table
           selected == {row.record : row \in {r \in after : Conflicts(r.columns, new.columns)}}
<1>1. /\ pc[c] = "batch" /\ in.op = "request"
      /\ \/ /\ \A approval \in selected : selected # {approval}
            /\ Receipt(c, after, Failure(in, "IdempotencyConflict"))
         \/ \E approval \in selected :
              /\ selected = {approval}
              /\ Receipt(c, after, Replayed(in, intent, created, approval))
  BY DEF Request
<1>2. /\ new.record \in StoredApproval /\ TableCheck(new.record)
      /\ SameIntent(new.record, intent)
      /\ Conflicts(new.columns, new.columns)
      /\ \A f \in {"request_id", "requester_instance", "idempotency_key"} :
           new.columns[f] = new.record[f]
  BY <1>1, NewRowFacts DEF Conflicts
<1>3. \A row \in table : /\ Conflicts(row.columns, new.columns) <=> Conflicts(row.record, intent)
                         /\ row.record \in StoredApproval /\ TableCheck(row.record)
  BY <1>2, RowFacts DEF Conflicts, SameIntent
<1> HIDE DEF new
<1>4. CASE created
  <2>1. selected = {new.record} /\ after = table \cup {new}
    BY <1>2, <1>4
  <2>2. Receipt(c, table \cup {new}, Replayed(in, intent, TRUE, new.record))
    BY <1>1, <1>4, <2>1
  <2>3. Replayed(in, intent, TRUE, new.record) = Reply("ok", "none", TRUE, new.record)
    BY <1>1, <1>2, ReplayedReply
  <2>4. Receipt(c, table \cup {new}, Reply("ok", "none", TRUE, new.record))
    BY <2>2, <2>3
  <2> QED BY <1>1, <1>4, <2>4 DEF new
<1>5. CASE ~created
  <2>1. after = table /\ selected = {row.record : row \in there}
    BY <1>5
  <2> HIDE DEF selected, after, created, intent
  <2>2. CASE /\ \A approval \in selected : selected # {approval}
             /\ Receipt(c, table, Failure(in, "IdempotencyConflict"))
    <3>1. PICK row \in there : ~SameIntent(row.record, intent)
      <4>1. PICK one \in there : TRUE
        BY <1>5 DEF created
      <4>2. PICK other \in there : other # one
        BY <2>1, <2>2, <4>1
      <4>3. one.columns.request_id # other.columns.request_id
        BY <4>2 DEF IInv, UniqueRows, Conflicts
      <4>4. one.record.request_id # other.record.request_id
        BY <4>3, RowFacts
      <4> QED BY <4>4 DEF SameIntent
    <3>2. Conflicts(row.record, intent)
      BY <1>3
    <3> QED BY <1>1, <2>2, <3>1, <3>2 DEF intent
  <2>3. ASSUME NEW approval \in selected,
               Receipt(c, table, Replayed(in, intent, created, approval))
        PROVE  \E row \in table :
                 \/ /\ SameIntent(row.record, intent)
                    /\ Receipt(c, table, Reply("ok", "none", FALSE, row.record))
                 \/ /\ Conflicts(row.record, intent) /\ ~SameIntent(row.record, intent)
                    /\ Receipt(c, table, Failure(in, "IdempotencyConflict"))
    <3>1. PICK row \in there : row.record = approval
      BY <2>1
    <3>2. created = FALSE
      BY <1>5 DEF created
    <3>3. Replayed(in, intent, FALSE, approval)
            = IF SameIntent(approval, intent)
              THEN Reply("ok", "none", FALSE, approval)
              ELSE Failure(in, "IdempotencyConflict")
      BY <1>1, <1>3, <3>1, ReplayedReply
    <3> QED BY <1>3, <2>3, <3>1, <3>2, <3>3
  <2> QED BY <1>1, <2>1, <2>2, <2>3 DEF intent
<1> QED BY <1>4, <1>5

\* A batch changes the rows only by adding one or by ending one.
LEMMA CarriedStep ==
  ASSUME IInv, [Next]_vars
  PROVE  Carried
<1>1. ASSUME UNCHANGED <<table, now>> PROVE Carried
  BY <1>1, SameRows
<1>2. ASSUME table' = table PROVE Carried
  BY <1>2 DEF Carried, SameIntent
<1>3. ASSUME NEW c \in Calls, Request(c) PROVE Carried
  <2> DEFINE new == NewRow(IntentOf(input[c], stamp[c]))
  <2>1. /\ pc[c] = "batch" /\ input[c].op = "request" /\ now' = now
        /\ \/ table' = table
           \/ /\ table' = table \cup {new}
              /\ \A row \in table : ~Conflicts(row.columns, new.columns)
    BY <1>3, RequestCases DEF Receipt, Finish
  <2> QED BY <1>2, <2>1, InsertRows
<1>4. ASSUME NEW c \in Calls, Transition(c) PROVE Carried
  <2>1. /\ pc[c] = "batch" /\ input[c].op \in Transitions /\ now' = now
        /\ table' = table \/ table' = Updated(c)
    BY <1>4, TransitionCases DEF Missed, Refusing, Ending, Receipt, Finish
  <2> QED BY <1>2, <2>1, UpdateRows
<1>5. ASSUME NEW c \in Calls, Read(c) PROVE Carried
  BY <1>2, <1>5, ReadCases DEF Receipt
<1>6. CASE \/ \E c \in Calls : Invoke(c) \/ StampAt(c) \/ ReadNow(c) \/ Abort(c)
           \/ Tick \/ UNCHANGED vars
  BY <1>2, <1>6 DEF Invoke, StampAt, ReadNow, Abort, Tick, vars
<1> QED BY <1>3, <1>4, <1>5, <1>6 DEF Next

\* A failure is told as itself or as an invalid request.
LEMMA FailureSays ==
  ASSUME NEW in, NEW failure
  PROVE  LET reply == Failure(in, failure)
         IN  reply.kind = "refused" /\ reply.error \in {failure, "InvalidRequest"}
BY DEF Failure, Refused, Reply

\* Batches that write nothing are told of nothing they did.
LEMMA ToldRefusal ==
  ASSUME AllTold, IInv, Carried, NEW c \in Calls, NEW failure,
         Receipt(c, table, Failure(input[c], failure)),
         failure = "AlreadyTerminal" =>
           \E record \in Records : record.request_id = input[c].request_id /\ ~IsPending(record),
         failure = "NotRequester" =>
           \E record \in Records : /\ record.request_id = input[c].request_id
                                   /\ record.requester_instance # input[c].caller,
         failure = "IdempotencyConflict" => \E record \in Records : InTheWay(input[c], record)
  PROVE  AllTold'
<1>1. Told(Records, input[c], Failure(input[c], failure), FALSE)
  BY FailureSays DEF Told
<1>2. Told(Records', input[c], Failure(input[c], failure), FALSE)
  BY <1>1, ToldOn
<1> QED BY <1>2, ToldReceipt

\* A caller that is shown a row without having written is one that may see it.
LEMMA ToldRow ==
  ASSUME AllTold, IInv, Carried, NEW c \in Calls, NEW approval,
         input[c].op \notin Transitions,
         Receipt(c, table, Reply("ok", "none", FALSE, approval)),
         input[c].caller \notin Deciders \cup Expirers =>
           approval.requester_instance = input[c].caller
  PROVE  AllTold'
<1>1. Told(Records', input[c], Reply("ok", "none", FALSE, approval), FALSE)
  BY DEF Told, Reply
<1> QED BY <1>1, ToldReceipt

LEMMA RequestTold ==
  ASSUME AllTold, IInv, Carried, NEW c \in Calls, Request(c)
  PROVE  AllTold'
<1> DEFINE in == input[c]
           intent == IntentOf(in, stamp[c])
           new == NewRow(intent)
<1>1. in.op = "request" /\ pc[c] = "batch"
  BY RequestCases
<1>2. /\ intent.request_id = in.request_id /\ intent.requester_instance = in.caller
      /\ intent.idempotency_key = in.idempotency_key /\ intent.matter = in.matter
      /\ intent.expires_at = Normalize(in.expires_at)
  BY DEF IntentOf
<1>3. /\ new.record.request_id = in.request_id /\ new.record.requester_instance = in.caller
      /\ new.columns.request_id = in.request_id
  BY <1>2 DEF NewRow, PendingApproval
<1> HIDE DEF intent, new
<1>4. CASE /\ \A row \in table : ~Conflicts(row.columns, new.columns)
           /\ Receipt(c, table \cup {new}, Reply("ok", "none", TRUE, new.record))
  <2>1. new \notin table
    BY <1>4 DEF Conflicts
  <2>2. Told(Records', in, Reply("ok", "none", TRUE, new.record), TRUE)
    BY <1>3 DEF Told, Reply
  <2>3. ASSUME NEW d \in Calls \ {c}, wrote[d]
        PROVE  input[d].request_id # in.request_id
    <3>1. PICK record \in Records : Effected(input[d], record)
      BY <2>3 DEF IInv, EffectsDurable
    <3>2. PICK row \in table : row.record = record
      BY DEF Records
    <3> QED BY <1>3, <1>4, <3>1, <3>2, RowFacts DEF Effected, Conflicts
  <2>4. (table \cup {new} # table) = TRUE
    BY <2>1
  <2> QED BY <1>4, <2>2, <2>3, <2>4, ToldReceipt DEF Apart
<1>5. ASSUME NEW row \in table, SameIntent(row.record, intent),
             Receipt(c, table, Reply("ok", "none", FALSE, row.record))
      PROVE  AllTold'
  <2>1. row.record.requester_instance = in.caller /\ in.op \notin Transitions
    BY <1>1, <1>2, <1>5 DEF SameIntent, Transitions
  <2> QED BY <1>5, <2>1, ToldRow
<1>6. ASSUME NEW row \in table, Conflicts(row.record, intent), ~SameIntent(row.record, intent),
             Receipt(c, table, Failure(in, "IdempotencyConflict"))
      PROVE  AllTold'
  <2>1. row.record \in Records /\ InTheWay(in, row.record)
    BY <1>2, <1>6, RowFacts DEF InTheWay, Conflicts, SameIntent
  <2> QED BY <1>6, <2>1, ToldRefusal
<1> QED BY <1>4, <1>5, <1>6, RequestCases DEF new, intent

LEMMA ReadTold ==
  ASSUME AllTold, IInv, Carried, NEW c \in Calls, Read(c)
  PROVE  AllTold'
<1>1. CASE Receipt(c, table, Failure(input[c], "RequestNotFound"))
  BY <1>1, ToldRefusal
<1>2. ASSUME NEW row \in table, Readable(input[c], row.record), input[c].op = "read",
             Receipt(c, table, Reply("ok", "none", FALSE, row.record))
      PROVE  AllTold'
  BY <1>2, ToldRow DEF Readable, Transitions
<1> QED BY <1>1, <1>2, ReadCases

LEMMA TransitionTold ==
  ASSUME AllTold, IInv, Carried, NEW c \in Calls, Transition(c)
  PROVE  AllTold'
<1> DEFINE in == input[c]
<1>1. /\ pc[c] = "batch" /\ in.op \in Transitions
      /\ Missed(c) \/ \E row \in table : Refusing(c, row) \/ Ending(c, row)
  BY TransitionCases
<1>2. CASE Missed(c)
  <2>1. Receipt(c, table, Failure(in, "RequestNotFound"))
    BY <1>2 DEF Missed
  <2> QED BY <2>1, ToldRefusal
<1>3. ASSUME NEW row \in table, Refusing(c, row)
      PROVE  AllTold'
  <2>1. row.record \in Records /\ row.record.request_id = in.request_id
    BY <1>3, RowFacts DEF Refusing
  <2>2. PICK failure \in {"NotRequester", "AlreadyTerminal", "NotDue"} :
          /\ Unchanged(in, row.record) = Failure(in, failure)
          /\ failure = "NotRequester" => Foreign(in, row.record)
          /\ failure = "AlreadyTerminal" => ~IsPending(row.record)
    BY <1>1, <1>3, Explained DEF Refusing
  <2>3. Receipt(c, table, Failure(in, failure))
    BY <1>3, <2>2 DEF Refusing
  <2> QED BY <2>1, <2>2, <2>3, ToldRefusal DEF Foreign
<1>4. ASSUME NEW old \in table, Ending(c, old)
      PROVE  AllTold'
  <2> DEFINE new == Ended(old, in, stamp[c])
             after == Terminated(old.record, in, stamp[c])
             reply == Reply("ok", "none", FALSE, after)
  <2>1. /\ in \in Inputs /\ in.caller \in Allowed(in.op) /\ stamp[c] \in Times
    BY <1>1 DEF IInv, Serving
  <2>2. /\ IsPending(old.record) /\ old.record.request_id = in.request_id
        /\ old.columns.requester_instance = old.record.requester_instance
        /\ UpdateHits(c, old)
        /\ Receipt(c, Updated(c), reply)
        /\ Updated(c) = {row \in table : row # old} \cup {new}
    BY <1>4, RowFacts DEF Ending
  <2>3. new.record = after /\ SameIntent(after, old.record) /\ ~IsPending(after)
    BY <1>1, <2>1, <2>2, EndedRow
  <2>4. old \notin Updated(c)
    BY <2>2, <2>3
  <2>5. (Updated(c) # table) = TRUE
    BY <2>4
  <2>6. in.caller \notin Deciders \cup Expirers => after.requester_instance = in.caller
    <3>1. in.op = "cancel" \/ in.caller \in Deciders \cup Expirers
      BY <1>1, <2>1 DEF Allowed, Transitions
    <3>2. in.op = "cancel" => old.record.requester_instance = in.caller
      BY <2>2 DEF UpdateHits, Matches
    <3> QED BY <2>3, <3>1, <3>2 DEF SameIntent
  <2> HIDE DEF after, new
  <2>7. Told(Records', in, reply, TRUE)
    BY <1>1, <2>6 DEF Told, Reply
  <2>8. ASSUME NEW d \in Calls \ {c}, wrote[d]
        PROVE  Apart(in, input[d])
    <3>1. SUFFICES ASSUME input[d].request_id = in.request_id
          PROVE  input[d].op = "request"
      BY <1>1 DEF Apart
    <3>2. PICK record \in Records : Effected(input[d], record)
      BY <2>8 DEF IInv, EffectsDurable
    <3>3. PICK row \in table : row.record = record
      BY DEF Records
    <3>4. row = old
      <4>1. row.columns.request_id = old.columns.request_id
        BY <2>2, <3>1, <3>2, <3>3, RowFacts DEF Effected
      <4> QED BY <4>1 DEF IInv, UniqueRows, Conflicts
    <3>5. record.status = "pending"
      BY <2>2, <3>3, <3>4 DEF IsPending
    <3>6. input[d] \in Input /\ input[d].op # "read"
      BY <2>8, ServiceAssumption DEF IInv, Serving
    <3> QED BY <3>2, <3>5, <3>6 DEF Effected, Input, Ops
  <2> HIDE DEF reply
  <2> QED BY <2>2, <2>5, <2>7, <2>8, ToldReceipt
<1> QED BY <1>1, <1>2, <1>3, <1>4

LEMMA InvokeTold ==
  ASSUME AllTold, IInv, Carried, NEW c \in Calls, Invoke(c)
  PROVE  AllTold'
<1>1. TypeOK
  BY DEF IInv
<1>2. PICK reply \in {Refused("Forbidden"), Refused("InvalidRequest"), Unavailable("OutOfRange"),
                      Unavailable("Database"), NoAnswer} :
        answer' = [answer EXCEPT ![c] = reply]
  BY DEF Invoke, Rejection
<1>3. OthersKeep(c) /\ answer'[c] = reply /\ ~wrote'[c]
  BY <1>1, <1>2 DEF Invoke, OthersKeep, TypeOK
<1>4. Told(Records', input'[c], reply, wrote'[c])
  BY <1>3 DEF Told, Refused, Unavailable, NoAnswer, Reply
<1> QED BY <1>3, <1>4, ToldStep

LEMMA AbortTold ==
  ASSUME AllTold, IInv, Carried, NEW c \in Calls, Abort(c)
  PROVE  AllTold'
<1>1. TypeOK
  BY DEF IInv
<1>2. OthersKeep(c) /\ answer'[c] = Unavailable("Database") /\ input' = input /\ wrote' = wrote
  BY <1>1 DEF Abort, Finish, OthersKeep, TypeOK
<1>3. Told(Records', input'[c], answer'[c], wrote'[c])
  BY <1>2 DEF Told, Unavailable, Reply
<1>4. \A d \in Calls \ {c} : wrote'[c] /\ wrote[d] => Apart(input'[c], input[d])
  BY <1>2 DEF AllTold
<1> QED BY <1>2, <1>3, <1>4, ToldStep

\* What callers were told, of all calls, survives every step.
LEMMA ToldKept == AllTold /\ IInv /\ [Next]_vars => AllTold'
<1> SUFFICES ASSUME AllTold, IInv, [Next]_vars PROVE AllTold'
  OBVIOUS
<1>1. Carried
  BY CarriedStep
<1>2. ASSUME NEW c \in Calls, Request(c) \/ Read(c) \/ Transition(c) \/ Invoke(c) \/ Abort(c)
      PROVE  AllTold'
  BY <1>1, <1>2, RequestTold, ReadTold, TransitionTold, InvokeTold, AbortTold
<1>3. CASE (\E c \in Calls : StampAt(c) \/ ReadNow(c)) \/ Tick \/ UNCHANGED vars
  <2>1. UNCHANGED <<table, input, answer, wrote>>
    BY <1>3 DEF StampAt, ReadNow, Tick, vars
  <2> QED BY <2>1 DEF AllTold, Records
<1> QED BY <1>2, <1>3 DEF Next

\* Whatever a caller has been told is what its batch did, is its own or within
\* its right to see, and is true of the rows from then on; no two calls both
\* create or both end a request.
THEOREM AnswersHold == Spec => []AnswersStand
<1>1. Init => AllTold
  BY DEF Init, AllTold, Told, NoAnswer, Reply
<1>2. IInv /\ AllTold => AnswersStand
  BY DEF IInv, AllTold, Told, Apart, AnswersStand, HonestAnswers, SingleWinner,
         TruthfulRefusals, RequesterIsolation
<1> QED BY <1>1, <1>2, ToldKept, Invariance, PTL DEF Spec

\* A terminal row is never changed again, and a pending one only by being ended.
THEOREM TerminalRowsFrozen == Spec => TerminalFrozen
<1> DEFINE Frozen ==
      \A row \in table :
        \E after \in table' :
          /\ SameIntent(after.record, row.record)
          /\ after.record.requested_at = row.record.requested_at
          /\ after = row \/ IsPending(row.record)
<1>1. IInv /\ [Next]_vars => [Frozen]_vars
  <2> SUFFICES ASSUME IInv, Next PROVE Frozen
    OBVIOUS
  <2>1. ASSUME table \subseteq table' PROVE Frozen
    BY <2>1 DEF SameIntent
  <2>2. ASSUME NEW c \in Calls, NEW old \in table, Ending(c, old), Transition(c)
        PROVE  Frozen
    <3> DEFINE new == Ended(old, input[c], stamp[c])
    <3>1. pc[c] = "batch" /\ input[c].op \in Transitions
      BY <2>2, TransitionCases
    <3>2. /\ input[c] \in Inputs /\ input[c].caller \in Allowed(input[c].op)
          /\ stamp[c] \in Times
      BY <3>1 DEF IInv, Serving
    <3>3. /\ IsPending(old.record)
          /\ table' = {row \in table : row # old} \cup {new}
      BY <2>2 DEF Ending, Receipt
    <3>4. /\ new.record = Terminated(old.record, input[c], stamp[c])
          /\ SameIntent(new.record, old.record)
      BY <3>1, <3>2, <3>3, EndedRow
    <3>5. new.record.requested_at = old.record.requested_at
      <4>1. input[c].caller \in Instances
        BY <3>1, <3>2, ServiceAssumption DEF Allowed, Transitions
      <4> QED BY <3>1, <3>2, <3>3, <3>4, <4>1, RowFacts, TerminatedRow DEF Transitions
    <3> HIDE DEF new
    <3> QED BY <3>3, <3>4, <3>5 DEF SameIntent
  <2>3. ASSUME NEW c \in Calls, Transition(c) PROVE Frozen
    BY <2>1, <2>2, <2>3, TransitionCases DEF Missed, Refusing, Receipt
  <2>4. ASSUME NEW c \in Calls, Request(c) PROVE Frozen
    BY <2>1, <2>4, RequestCases DEF Receipt
  <2>5. ASSUME NEW c \in Calls, Read(c) PROVE Frozen
    BY <2>1, <2>5, ReadCases DEF Receipt
  <2>6. CASE (\E c \in Calls : Invoke(c) \/ StampAt(c) \/ ReadNow(c) \/ Abort(c)) \/ Tick
    BY <2>1, <2>6 DEF Invoke, StampAt, ReadNow, Abort, Tick
  <2> QED BY <2>3, <2>4, <2>5, <2>6 DEF Next
<1> QED BY <1>1, Invariance, PTL DEF Spec, TerminalFrozen

-----------------------------------------------------------------------------
(* D1Store implements ApprovalLedger: a batch, with its receipt, is the       *)
(* instant at which a call takes effect; the clock readings and the failures  *)
(* before a batch are the ledger's own; nothing else of a worker is seen.     *)

\* The ledger speaks of the same service.
LEMMA SameService ==
  /\ Ledger!Times = Times
  /\ \A t : Ledger!Normalize(t) = Normalize(t)
  /\ \A in : Ledger!Forbidden(in) = Forbidden(in)
  /\ \A in, at : Ledger!Admitted(in, at) = Admitted(in, at)
  /\ \A in : Ledger!Unrepresentable(in) = Unrepresentable(in)
  /\ \A in, at : Ledger!IntentOf(in, at) = IntentOf(in, at)
  /\ \A in, row : Ledger!Readable(in, row) = Readable(in, row)
  /\ \A in, row : Ledger!Foreign(in, row) = Foreign(in, row)
  /\ \A row, at : Ledger!IsDue(row, at) = IsDue(row, at)
  /\ \A row, in, at : Ledger!Terminated(row, in, at) = Terminated(row, in, at)
<1> USE DEF Ledger!Times, Times, Ledger!Normalize, Normalize
<1>1. \A in : Ledger!Allowed(in.op) = Allowed(in.op)
  BY DEF Ledger!Allowed, Allowed
<1>2. \A in : Ledger!Forbidden(in) = Forbidden(in)
  BY <1>1 DEF Ledger!Forbidden, Forbidden
<1>7. \A in : Ledger!Unrepresentable(in) = Unrepresentable(in)
  BY DEF Ledger!Unrepresentable, Unrepresentable
<1>3. \A in, at : Ledger!Admitted(in, at) = Admitted(in, at)
  BY <1>2, <1>7 DEF Ledger!Admitted, Admitted, Ledger!InvalidRequest, InvalidRequest
<1>4. \A in, at : Ledger!IntentOf(in, at) = IntentOf(in, at)
  BY DEF Ledger!IntentOf, IntentOf
<1>5. /\ \A in, row : Ledger!Readable(in, row) = Readable(in, row)
      /\ \A in, row : Ledger!Foreign(in, row) = Foreign(in, row)
      /\ \A row, at : Ledger!IsDue(row, at) = IsDue(row, at)
  BY DEF Ledger!Readable, Readable, Ledger!Foreign, Foreign, Ledger!IsDue, IsDue
<1>6. \A row, in, at : Ledger!Terminated(row, in, at) = Terminated(row, in, at)
  BY DEF Ledger!Terminated, Terminated
<1> QED BY <1>2, <1>3, <1>4, <1>5, <1>6, <1>7

LEMMA SameRowTerms ==
  /\ \A row : Ledger!IsPending(row) = IsPending(row)
  /\ \A intent : Ledger!PendingApproval(intent) = PendingApproval(intent)
  /\ \A a, b : Ledger!Conflicts(a, b) = Conflicts(a, b)
  /\ \A a, b : Ledger!SameIntent(a, b) = SameIntent(a, b)
BY DEF Ledger!IsPending, IsPending, Ledger!PendingApproval, PendingApproval,
       Ledger!Conflicts, Conflicts, Ledger!SameIntent, SameIntent

LEMMA SameAnswers ==
  /\ Ledger!NoAnswer = NoAnswer
  /\ \A e : Ledger!Refused(e) = Refused(e)
  /\ \A e : Ledger!Unavailable(e) = Unavailable(e)
  /\ \A in, e : Ledger!Failure(in, e) = Failure(in, e)
  /\ \A in : Ledger!Rejection(in) = Rejection(in)
  /\ \A in, created, row : Ledger!Response(in, created, row) = Response(in, created, row)
<1>1. \A k, e, created, row : Ledger!Reply(k, e, created, row) = Reply(k, e, created, row)
  BY DEF Ledger!Reply, Reply
<1>2. /\ Ledger!NoAnswer = NoAnswer
      /\ \A e : Ledger!Refused(e) = Refused(e)
      /\ \A e : Ledger!Unavailable(e) = Unavailable(e)
  BY <1>1 DEF Ledger!NoAnswer, NoAnswer, Ledger!Refused, Refused, Ledger!Unavailable, Unavailable
<1>3. \A in, e : Ledger!Failure(in, e) = Failure(in, e)
  <2>1. \A op : Ledger!Named(op) = Named(op)
    BY DEF Ledger!Named, Named
  <2> QED BY <1>2, <2>1 DEF Ledger!Failure, Failure
<1>4. \A in, row : Ledger!Presentable(in, row) = Presentable(in, row)
  BY DEF Ledger!Presentable, Presentable
<1>5. \A in, created, row : Ledger!Response(in, created, row) = Response(in, created, row)
  BY <1>1, <1>2, <1>4 DEF Ledger!Response, Response
<1>6. \A in : Ledger!Rejection(in) = Rejection(in)
  BY <1>2, SameService DEF Ledger!Rejection, Rejection
<1> QED BY <1>2, <1>3, <1>5, <1>6

-----------------------------------------------------------------------------
(* The meaning of a call, operation by operation *)

Busy == {c \in Calls : pc[c] # "idle"}

\* A clock a worker may show is one the ledger allows.
LEMMA ClockAllowed ==
  ASSUME IInv, NEW at \in DateNow
  PROVE  /\ at \in Times
         /\ now - ClockError <= at /\ at <= now + ClockError
<1>1. at \in Int /\ now \in Int /\ at \in Times
  BY ModelAssumption DEF DateNow, Times, IInv, TypeOK
<1>2. at <= now + Skew /\ now - Skew < at + Millisecond
  BY DEF DateNow
<1> QED BY <1>1, <1>2, StoreAssumption DEF ClockError

\* What is cut to milliseconds is cut to the stored units.
LEMMA MillisecondsStored ==
  ASSUME NEW at \in DateNow
  PROVE  Normalize(at) = at
<1>1. /\ at \in Nat /\ at % Millisecond = 0
      /\ Millisecond \in Nat \ {0} /\ Resolution \in Nat \ {0}
      /\ Millisecond % Resolution = 0
  BY ModelAssumption, StoreAssumption DEF DateNow, Times
<1>2. /\ at = Millisecond * (at \div Millisecond) + (at % Millisecond)
      /\ at \div Millisecond \in Nat
  BY <1>1
<1>3. /\ Millisecond = Resolution * (Millisecond \div Resolution) + (Millisecond % Resolution)
      /\ Millisecond \div Resolution \in Nat
  BY <1>1
<1>4. \E n \in Nat : at = Resolution * n
  <2> DEFINE q == at \div Millisecond
             p == Millisecond \div Resolution
  <2>1. at = Millisecond * q /\ Millisecond = Resolution * p /\ p \in Nat /\ q \in Nat
    BY <1>1, <1>2, <1>3
  <2> HIDE DEF p, q
  <2>2. p * q \in Nat /\ at = Resolution * (p * q)
    BY <1>1, <2>1
  <2> QED BY <2>2
<1>5. at % Resolution = 0
  BY <1>1, <1>4
<1> QED BY <1>1, <1>5 DEF Normalize

\* A batch and its receipt are the step at which the ledger serves the call.
LEMMA ServeMaps ==
  ASSUME IInv, NEW c \in Calls, pc[c] = "batch", NEW rows, NEW reply,
         Receipt(c, rows, reply),
         \E outcome \in Ledger!Outcomes(Records, input[c], stamp[c], due[c]) :
           outcome.rows = {row.record : row \in rows} /\ outcome.reply = reply
  PROVE  Ledger!Serve(c)
<1>1. /\ Serving(c) /\ TypeOK
      /\ pc \in [Calls -> Steps] /\ answer \in [Calls -> Answers]
  BY DEF IInv, TypeOK
<1>2. PICK said \in {reply, Unavailable("Database")} : Finish(c, said)
  BY DEF Receipt
<1>3. /\ Records' = {row.record : row \in rows}
      /\ Busy' = Busy \ {c} /\ c \in Busy
      /\ input' = input /\ now' = now
  BY <1>1, <1>2 DEF Receipt, Finish, Records, Busy
<1>4. Ledger!Leave(c)
  BY <1>2, <1>3 DEF Ledger!Leave, Finish, Busy
<1>5. /\ input[c].op # "read" => stamp[c] # None
      /\ input[c].op = "expire" => due[c] # None
  BY <1>1, ModelAssumption, ServiceAssumption DEF Serving, Transitions, Input, Ops
<1>6. \E outcome \in Ledger!Outcomes(Records, input[c], stamp[c], due[c]) :
        /\ Records' = outcome.rows
        /\ \E r \in {outcome.reply, Ledger!Unavailable("Database")} :
             answer' = [answer EXCEPT ![c] = r]
  BY <1>2, <1>3, SameAnswers DEF Finish
<1> QED BY <1>3, <1>4, <1>5, <1>6 DEF Ledger!Serve, Busy

LEMMA RequestOutcome ==
  ASSUME NEW rows, NEW in, in.op = "request", NEW at, NEW deadline
  PROVE  Ledger!Outcomes(rows, in, at, deadline) = {Ledger!Requested(rows, in, at)}
BY Zenon DEF Ledger!Outcomes

\* The rows a read may show.
Seen(rows, in) == {row \in {r \in rows : r.request_id = in.request_id} : Readable(in, row)}

LEMMA ReadOutcome ==
  ASSUME NEW rows, NEW in, in.op = "read", NEW at, NEW deadline
  PROVE  Ledger!Outcomes(rows, in, at, deadline) =
           IF Seen(rows, in) = {}
           THEN {[rows |-> rows, reply |-> Failure(in, "RequestNotFound")]}
           ELSE {[rows |-> rows, reply |-> Response(in, FALSE, row)] : row \in Seen(rows, in)}
<1>1. in.op # "request"
  OBVIOUS
<1>2. \A row : Ledger!Readable(in, row) = Readable(in, row)
  BY SameService
<1>3. /\ Ledger!Failure(in, "RequestNotFound") = Failure(in, "RequestNotFound")
      /\ \A row : Ledger!Response(in, FALSE, row) = Response(in, FALSE, row)
  BY SameAnswers
<1> DEFINE named == {row \in rows : row.request_id = in.request_id}
<1>4. Ledger!Outcomes(rows, in, at, deadline) =
        LET seen == {row \in named : Ledger!Readable(in, row)}
        IN  IF seen = {} THEN {Ledger!Kept(rows, Ledger!Failure(in, "RequestNotFound"))}
            ELSE {Ledger!Kept(rows, Ledger!Response(in, FALSE, row)) : row \in seen}
  BY <1>1, Zenon DEF Ledger!Outcomes
<1>5. {row \in named : Ledger!Readable(in, row)} = Seen(rows, in)
  BY <1>2 DEF Seen
<1>6. /\ Ledger!Kept(rows, Ledger!Failure(in, "RequestNotFound"))
           = [rows |-> rows, reply |-> Failure(in, "RequestNotFound")]
      /\ \A row : Ledger!Kept(rows, Ledger!Response(in, FALSE, row))
                  = [rows |-> rows, reply |-> Response(in, FALSE, row)]
  BY <1>3 DEF Ledger!Kept
<1> QED BY <1>4, <1>5, <1>6

\* The rows a transition may end.
Having(rows, in) == {row \in rows : row.request_id = in.request_id}

LEMMA TransitionOutcome ==
  ASSUME NEW rows, NEW in, in.op \in Transitions, NEW at, NEW deadline
  PROVE  /\ Having(rows, in) = {} =>
              Ledger!Kept(rows, Failure(in, "RequestNotFound"))
                \in Ledger!Outcomes(rows, in, at, deadline)
         /\ \A row \in Having(rows, in) :
              Ledger!Transitioned(rows, row, in, at, deadline)
                \in Ledger!Outcomes(rows, in, at, deadline)
<1>1. in.op # "request" /\ in.op # "read"
  BY DEF Transitions
<1>2. Ledger!Failure(in, "RequestNotFound") = Failure(in, "RequestNotFound")
  BY SameAnswers
<1>3. Ledger!Outcomes(rows, in, at, deadline) =
        IF Having(rows, in) = {} THEN {Ledger!Kept(rows, Ledger!Failure(in, "RequestNotFound"))}
        ELSE {Ledger!Transitioned(rows, row, in, at, deadline) : row \in Having(rows, in)}
  BY <1>1, Zenon DEF Ledger!Outcomes, Having
<1> QED BY <1>2, <1>3

\* What the ledger makes of a transition of one row, in its order.
LEMMA LedgerForeign ==
  ASSUME NEW rows, NEW row, NEW in, NEW at, NEW deadline, Foreign(in, row)
  PROVE  Ledger!Transitioned(rows, row, in, at, deadline)
           = Ledger!Kept(rows, Failure(in, "NotRequester"))
<1>1. Ledger!Foreign(in, row) /\ Ledger!Failure(in, "NotRequester") = Failure(in, "NotRequester")
  BY SameService, SameAnswers
<1> QED BY <1>1 DEF Ledger!Transitioned

LEMMA LedgerTerminal ==
  ASSUME NEW rows, NEW row, NEW in, NEW at, NEW deadline, ~Foreign(in, row), ~IsPending(row)
  PROVE  Ledger!Transitioned(rows, row, in, at, deadline)
           = Ledger!Kept(rows, Failure(in, "AlreadyTerminal"))
<1>1. /\ ~Ledger!Foreign(in, row) /\ ~Ledger!IsPending(row)
      /\ Ledger!Failure(in, "AlreadyTerminal") = Failure(in, "AlreadyTerminal")
  BY SameService, SameRowTerms, SameAnswers
<1> QED BY <1>1 DEF Ledger!Transitioned

LEMMA LedgerEarly ==
  ASSUME NEW rows, NEW row, NEW in, NEW at, NEW deadline, ~Foreign(in, row), IsPending(row),
         in.op = "expire", ~IsDue(row, deadline)
  PROVE  Ledger!Transitioned(rows, row, in, at, deadline)
           = Ledger!Kept(rows, Failure(in, "NotDue"))
<1>1. /\ ~Ledger!Foreign(in, row) /\ Ledger!IsPending(row) /\ ~Ledger!IsDue(row, deadline)
      /\ Ledger!Failure(in, "NotDue") = Failure(in, "NotDue")
  BY SameService, SameRowTerms, SameAnswers
<1> QED BY <1>1 DEF Ledger!Transitioned

\* The row is replaced by the ended one, which is shown.
EndedAs(rows, row, in, ended) ==
  Ledger!Kept((rows \ {row}) \cup {ended}, Response(in, FALSE, ended))

LEMMA LedgerEnded ==
  ASSUME NEW rows, NEW row, NEW in, NEW at, NEW deadline, ~Foreign(in, row), IsPending(row),
         in.op = "expire" => IsDue(row, deadline)
  PROVE  Ledger!Transitioned(rows, row, in, at, deadline)
           = EndedAs(rows, row, in, Terminated(row, in, at))
<1>1. /\ ~Ledger!Foreign(in, row) /\ Ledger!IsPending(row)
      /\ Ledger!IsDue(row, deadline) = IsDue(row, deadline)
  BY SameService, SameRowTerms
<1>2. /\ Ledger!Terminated(row, in, at) = Terminated(row, in, at)
      /\ Ledger!Response(in, FALSE, Terminated(row, in, at))
           = Response(in, FALSE, Terminated(row, in, at))
  BY SameService, SameAnswers
<1>3. Ledger!Transitioned(rows, row, in, at, deadline)
        = [rows |-> (rows \ {row}) \cup {Ledger!Terminated(row, in, at)},
           reply |-> Ledger!Response(in, FALSE, Ledger!Terminated(row, in, at))]
  BY <1>1 DEF Ledger!Transitioned
<1> QED BY <1>2, <1>3 DEF EndedAs, Ledger!Kept

\* What the ledger makes of a request, from the rows it conflicts with.
Rivals(rows, new) == {row \in rows : Conflicts(row, new)}

LEMMA RequestedAs ==
  ASSUME NEW rows, NEW in, NEW at, NEW new, new = PendingApproval(IntentOf(in, at)),
         NEW same, same = Rivals(rows, new)
  PROVE  /\ same = {} =>
              Ledger!Requested(rows, in, at)
                = [rows |-> rows \cup {new}, reply |-> Response(in, TRUE, new)]
         /\ \A row : same = {row} /\ SameIntent(row, new) =>
              Ledger!Requested(rows, in, at)
                = [rows |-> rows, reply |-> Response(in, FALSE, row)]
         /\ same # {} /\ (\A row \in same : ~(same = {row} /\ SameIntent(row, new))) =>
              Ledger!Requested(rows, in, at)
                = [rows |-> rows, reply |-> Failure(in, "IdempotencyConflict")]
<1>1. /\ new = Ledger!PendingApproval(Ledger!IntentOf(in, at))
      /\ same = {row \in rows : Ledger!Conflicts(row, new)}
      /\ \A row : Ledger!SameIntent(row, new) = SameIntent(row, new)
  BY SameService, SameRowTerms DEF Rivals
<1>2. /\ \A e : Ledger!Kept(rows, Ledger!Failure(in, e)) = [rows |-> rows, reply |-> Failure(in, e)]
      /\ \A row : Ledger!Kept(rows, Ledger!Response(in, FALSE, row))
                    = [rows |-> rows, reply |-> Response(in, FALSE, row)]
      /\ Ledger!Response(in, TRUE, new) = Response(in, TRUE, new)
  BY SameAnswers DEF Ledger!Kept
<1>3. Ledger!Requested(rows, in, at)
        = CASE same = {} -> [rows |-> rows \cup {new}, reply |-> Ledger!Response(in, TRUE, new)]
            [] \E row \in same : same = {row} /\ Ledger!SameIntent(row, new) ->
                 Ledger!Kept(rows, Ledger!Response(in, FALSE, CHOOSE row \in same : TRUE))
            [] OTHER -> Ledger!Kept(rows, Ledger!Failure(in, "IdempotencyConflict"))
  BY <1>1, Zenon DEF Ledger!Requested
<1>4. CASE same = {}
  <2>1. Ledger!Requested(rows, in, at)
          = [rows |-> rows \cup {new}, reply |-> Ledger!Response(in, TRUE, new)]
    BY <1>3, <1>4
  <2> QED BY <1>2, <1>4, <2>1
<1>5. ASSUME NEW row, same = {row}, SameIntent(row, new)
      PROVE  Ledger!Requested(rows, in, at)
               = [rows |-> rows, reply |-> Response(in, FALSE, row)]
  <2>1. /\ same # {}
        /\ \E r \in same : same = {r} /\ Ledger!SameIntent(r, new)
        /\ (CHOOSE r \in same : TRUE) = row
    BY <1>1, <1>5
  <2>2. Ledger!Requested(rows, in, at)
          = Ledger!Kept(rows, Ledger!Response(in, FALSE, CHOOSE r \in same : TRUE))
    BY <1>3, <2>1
  <2> QED BY <1>2, <2>1, <2>2
<1>6. CASE same # {} /\ \A row \in same : ~(same = {row} /\ SameIntent(row, new))
  <2>1. ~\E r \in same : same = {r} /\ Ledger!SameIntent(r, new)
    BY <1>1, <1>6
  <2>2. Ledger!Requested(rows, in, at) = Ledger!Kept(rows, Ledger!Failure(in, "IdempotencyConflict"))
    BY <1>3, <1>6, <2>1
  <2> QED BY <1>2, <1>6, <2>2
<1> QED BY <1>4, <1>5, <1>6

-----------------------------------------------------------------------------
(* Every step maps to a step *)

LEMMA RequestMaps ==
  ASSUME IInv, NEW c \in Calls, Request(c)
  PROVE  Ledger!Serve(c)
<1> DEFINE in == input[c]
           at == stamp[c]
           intent == IntentOf(in, at)
           new == NewRow(intent)
           there == {row \in table : Conflicts(row.columns, new.columns)}
           created == there = {}
           after == IF created THEN table \cup {new} ELSE table
           selected == {row.record : row \in {r \in after : Conflicts(r.columns, new.columns)}}
           same == Rivals(Records, new.record)
           rows == {row.record : row \in after}
<1>1. /\ pc[c] = "batch" /\ in.op = "request"
      /\ \/ /\ \A approval \in selected : selected # {approval}
            /\ Receipt(c, after, Failure(in, "IdempotencyConflict"))
         \/ \E approval \in selected :
              /\ selected = {approval}
              /\ Receipt(c, after, Replayed(in, intent, created, approval))
  BY DEF Request
<1>2. /\ new.record = PendingApproval(intent)
      /\ new.record \in StoredApproval /\ TableCheck(new.record)
      /\ SameIntent(new.record, intent)
      /\ Conflicts(new.columns, new.columns)
      /\ \A f \in {"request_id", "requester_instance", "idempotency_key"} :
           new.columns[f] = new.record[f]
  BY <1>1, NewRowFacts DEF Conflicts
<1> HIDE DEF new
<1>3. \A row \in table : /\ Conflicts(row.columns, new.columns) <=> Conflicts(row.record, new.record)
                         /\ row.record \in StoredApproval /\ TableCheck(row.record)
  BY <1>2, RowFacts DEF Conflicts
<1>4. same = {row.record : row \in there}
  BY <1>3 DEF Records, Rivals
<1>5. \A record : SameIntent(record, new.record) <=> SameIntent(record, intent)
  BY <1>2 DEF SameIntent
<1>6. /\ same = {} =>
           Ledger!Requested(Records, in, at)
             = [rows |-> Records \cup {new.record}, reply |-> Response(in, TRUE, new.record)]
      /\ \A row : same = {row} /\ SameIntent(row, new.record) =>
           Ledger!Requested(Records, in, at)
             = [rows |-> Records, reply |-> Response(in, FALSE, row)]
      /\ same # {} /\ (\A row \in same : ~(same = {row} /\ SameIntent(row, new.record))) =>
           Ledger!Requested(Records, in, at)
             = [rows |-> Records, reply |-> Failure(in, "IdempotencyConflict")]
  BY <1>2, RequestedAs
<1>7. Ledger!Outcomes(Records, in, at, due[c]) = {Ledger!Requested(Records, in, at)}
  BY <1>1, RequestOutcome
<1>8. SUFFICES ASSUME NEW reply, Receipt(c, after, reply),
                      Ledger!Requested(Records, in, at) = [rows |-> rows, reply |-> reply]
               PROVE  Ledger!Serve(c)
  <2>1. \E reply : /\ Receipt(c, after, reply)
                   /\ Ledger!Requested(Records, in, at) = [rows |-> rows, reply |-> reply]
    <3>1. CASE created
      <4>1. same = {} /\ selected = {new.record} /\ rows = Records \cup {new.record}
        BY <1>2, <1>4, <3>1 DEF Records
      <4>2. Ledger!Requested(Records, in, at)
              = [rows |-> Records \cup {new.record}, reply |-> Response(in, TRUE, new.record)]
        BY <4>1, <1>6
      <4>3. Replayed(in, intent, created, new.record) = Response(in, TRUE, new.record)
        <5>1. ValidEvidence(new.record)
          BY <1>2 DEF TableCheck
        <5> QED BY <1>2, <3>1, <5>1 DEF Replayed
      <4>4. Receipt(c, after, Replayed(in, intent, created, new.record))
        BY <1>1, <4>1
      <4> HIDE DEF rows, after
      <4> QED BY <4>1, <4>2, <4>3, <4>4
    <3>2. CASE ~created
      <4>1. selected = same /\ same # {} /\ rows = Records
        BY <1>4, <3>2 DEF Records
      <4> HIDE DEF rows, after, selected, created
      <4>2. CASE /\ \A approval \in same : same # {approval}
                 /\ Receipt(c, after, Failure(in, "IdempotencyConflict"))
        <5>1. Ledger!Requested(Records, in, at)
                = [rows |-> Records, reply |-> Failure(in, "IdempotencyConflict")]
          BY <1>6, <4>1, <4>2
        <5> QED BY <4>1, <4>2, <5>1
      <4>3. ASSUME NEW approval \in same, same = {approval},
                   Receipt(c, after, Replayed(in, intent, created, approval))
            PROVE  \E reply : /\ Receipt(c, after, reply)
                              /\ Ledger!Requested(Records, in, at) = [rows |-> rows, reply |-> reply]
        <5>1. ValidEvidence(approval)
          BY <1>3, <1>4 DEF TableCheck
        <5>2. created = FALSE
          BY <3>2 DEF created
        <5>3. CASE SameIntent(approval, intent)
          <6>1. Replayed(in, intent, created, approval) = Response(in, FALSE, approval)
            BY <5>1, <5>2, <5>3 DEF Replayed
          <6>2. Ledger!Requested(Records, in, at)
                  = [rows |-> Records, reply |-> Response(in, FALSE, approval)]
            BY <1>5, <1>6, <4>3, <5>3
          <6> QED BY <4>1, <4>3, <6>1, <6>2
        <5>4. CASE ~SameIntent(approval, intent)
          <6>1. Replayed(in, intent, created, approval) = Failure(in, "IdempotencyConflict")
            BY <5>1, <5>4 DEF Replayed
          <6>2. \A row \in same : ~(same = {row} /\ SameIntent(row, new.record))
            BY <1>5, <4>3, <5>4
          <6>3. Ledger!Requested(Records, in, at)
                  = [rows |-> Records, reply |-> Failure(in, "IdempotencyConflict")]
            BY <1>6, <4>1, <6>2
          <6> QED BY <4>1, <4>3, <6>1, <6>3
        <5> QED BY <5>3, <5>4
      <4> QED BY <1>1, <4>1, <4>2, <4>3
    <3> QED BY <3>1, <3>2
  <2> HIDE DEF rows, after
  <2> QED BY <2>1
<1>9. \E outcome \in Ledger!Outcomes(Records, in, at, due[c]) :
        outcome.rows = rows /\ outcome.reply = reply
  BY <1>7, <1>8
<1> HIDE DEF after
<1> QED BY <1>1, <1>8, <1>9, ServeMaps

LEMMA ReadMaps ==
  ASSUME IInv, NEW c \in Calls, Read(c)
  PROVE  Ledger!Serve(c)
<1> DEFINE in == input[c]
           seen == Seen(Records, in)
<1>1. pc[c] = "batch" /\ in.op = "read"
  BY ReadCases
<1>2. Ledger!Outcomes(Records, in, stamp[c], due[c]) =
        IF seen = {} THEN {[rows |-> Records, reply |-> Failure(in, "RequestNotFound")]}
        ELSE {[rows |-> Records, reply |-> Response(in, FALSE, record)] : record \in seen}
  BY <1>1, ReadOutcome
<1>3. CASE /\ \A row \in table : row.record.request_id = in.request_id
                                 => ~Readable(in, row.record)
           /\ Receipt(c, table, Failure(in, "RequestNotFound"))
  <2>1. seen = {}
    BY <1>3 DEF Records, Seen
  <2>2. \E outcome \in Ledger!Outcomes(Records, in, stamp[c], due[c]) :
          outcome.rows = Records /\ outcome.reply = Failure(in, "RequestNotFound")
    BY <1>2, <2>1
  <2> QED BY <1>1, <1>3, <2>2, ServeMaps DEF Records
<1>4. ASSUME NEW row \in table, row.record.request_id = in.request_id,
             Readable(in, row.record),
             Receipt(c, table, Reply("ok", "none", FALSE, row.record))
      PROVE  Ledger!Serve(c)
  <2>1. row.record \in seen
    BY <1>4 DEF Records, Seen
  <2>2. Response(in, FALSE, row.record) = Reply("ok", "none", FALSE, row.record)
    <3>1. Presentable(in, row.record)
      BY <1>1, RowFacts, StoredPresentable
    <3> QED BY <3>1 DEF Response
  <2>3. \E outcome \in Ledger!Outcomes(Records, in, stamp[c], due[c]) :
          outcome.rows = Records /\ outcome.reply = Reply("ok", "none", FALSE, row.record)
    <3> DEFINE shown(record) == [rows |-> Records, reply |-> Response(in, FALSE, record)]
    <3>1. Ledger!Outcomes(Records, in, stamp[c], due[c]) = {shown(record) : record \in seen}
      BY <1>2, <2>1
    <3>2. shown(row.record) \in Ledger!Outcomes(Records, in, stamp[c], due[c])
      BY <2>1, <3>1
    <3> QED BY <2>2, <3>2
  <2> QED BY <1>1, <1>4, <2>3, ServeMaps DEF Records
<1> QED BY <1>3, <1>4, ReadCases

LEMMA TransitionMaps ==
  ASSUME IInv, NEW c \in Calls, Transition(c)
  PROVE  Ledger!Serve(c)
<1> DEFINE in == input[c]
           at == stamp[c]
           named == Having(Records, in)
           outcomes == Ledger!Outcomes(Records, in, at, due[c])
<1>1. pc[c] = "batch" /\ in.op \in Transitions
  BY TransitionCases
<1>2. /\ named = {} => Ledger!Kept(Records, Failure(in, "RequestNotFound")) \in outcomes
      /\ \A record \in named :
           Ledger!Transitioned(Records, record, in, at, due[c]) \in outcomes
  BY <1>1, TransitionOutcome
<1>3. CASE Missed(c)
  <2>1. Ledger!Kept(Records, Failure(in, "RequestNotFound")) \in outcomes
    BY <1>2, <1>3 DEF Missed, Records, Having
  <2>2. \E outcome \in outcomes :
          outcome.rows = Records /\ outcome.reply = Failure(in, "RequestNotFound")
    BY <2>1 DEF Ledger!Kept
  <2> QED BY <1>1, <1>3, <2>2, ServeMaps DEF Missed, Records
<1>4. ASSUME NEW row \in table, Refusing(c, row)
      PROVE  Ledger!Serve(c)
  <2>1. row.record \in named
    BY <1>4 DEF Refusing, Records, Having
  <2>2. Ledger!Transitioned(Records, row.record, in, at, due[c])
          = Ledger!Kept(Records, Unchanged(in, row.record))
    BY <1>1, <1>4, Explained, LedgerForeign, LedgerTerminal, LedgerEarly DEF Refusing
  <2>3. \E outcome \in outcomes :
          outcome.rows = Records /\ outcome.reply = Unchanged(in, row.record)
    BY <1>2, <2>1, <2>2 DEF Ledger!Kept
  <2> QED BY <1>1, <1>4, <2>3, ServeMaps DEF Refusing, Records
<1>5. ASSUME NEW old \in table, Ending(c, old)
      PROVE  Ledger!Serve(c)
  <2> DEFINE ended == Terminated(old.record, in, at)
  <2>1. /\ UpdateHits(c, old) /\ IsPending(old.record)
        /\ old.record.request_id = in.request_id
        /\ Updated(c) = {row \in table : row # old} \cup {Ended(old, in, at)}
        /\ Receipt(c, Updated(c), Reply("ok", "none", FALSE, ended))
    BY <1>5 DEF Ending
  <2>2. /\ ~Foreign(in, old.record)
        /\ in.op = "expire" => IsDue(old.record, due[c])
        /\ \A row \in table : row.record.request_id = in.request_id => row = old
    BY <1>1, <2>1, UpdatedRows
  <2>3. in \in Inputs /\ in.caller \in Allowed(in.op) /\ at \in Times
    BY <1>1 DEF IInv, Serving
  <2>4. Ended(old, in, at).record = ended
    BY <1>1, <2>1, <2>3, EndedRow
  <2>5. in.caller \in Instances
    BY <1>1, <2>3, ServiceAssumption DEF Allowed, Transitions
  <2>6. Response(in, FALSE, ended) = Reply("ok", "none", FALSE, ended)
    <3>1. Presentable(in, ended)
      BY <1>1, <2>1, <2>3, <2>5, RowFacts, TerminatedPresentable DEF Transitions
    <3> QED BY <3>1 DEF Response
  <2>7. {row.record : row \in Updated(c)} = (Records \ {old.record}) \cup {ended}
    <3>1. \A row \in table : row.record = old.record => row = old
      BY <2>1, <2>2
    <3> QED BY <2>1, <2>4, <3>1 DEF Records
  <2>8. Ledger!Transitioned(Records, old.record, in, at, due[c])
          = EndedAs(Records, old.record, in, ended)
    BY <2>1, <2>2, LedgerEnded
  <2>9. old.record \in named
    BY <2>1 DEF Records, Having
  <2>10. \E outcome \in outcomes :
           /\ outcome.rows = {row.record : row \in Updated(c)}
           /\ outcome.reply = Reply("ok", "none", FALSE, ended)
    <3> DEFINE outcome == EndedAs(Records, old.record, in, ended)
    <3>1. outcome \in outcomes
      BY <1>2, <2>8, <2>9
    <3>2. outcome.rows = {row.record : row \in Updated(c)}
      <4>1. outcome.rows = (Records \ {old.record}) \cup {ended}
        BY DEF EndedAs, Ledger!Kept
      <4> QED BY <2>7, <4>1
    <3>3. outcome.reply = Reply("ok", "none", FALSE, ended)
      BY <2>6 DEF EndedAs, Ledger!Kept
    <3> HIDE DEF outcome
    <3> QED BY <3>1, <3>2, <3>3
  <2> QED BY <1>1, <2>1, <2>10, ServeMaps
<1> QED BY <1>3, <1>4, <1>5, TransitionCases

LEMMA AbortMaps ==
  ASSUME IInv, NEW c \in Calls, Abort(c)
  PROVE  Ledger!GiveUp(c)
<1>1. pc \in [Calls -> Steps] /\ c \in Busy
  BY DEF IInv, TypeOK, Abort, Busy
<1>2. Records' = Records /\ Busy' = Busy \ {c} /\ input' = input /\ now' = now
  BY <1>1 DEF Abort, Finish, Records, Busy
<1>3. answer' = [answer EXCEPT ![c] = Ledger!Unavailable("Database")]
  BY SameAnswers DEF Abort, Finish
<1> QED BY <1>1, <1>2, <1>3 DEF Abort, Finish, Ledger!GiveUp, Ledger!Leave, Busy

LEMMA InvokeMaps ==
  ASSUME IInv, NEW c \in Calls, Invoke(c)
  PROVE  Ledger!Arrive(c)
<1>1. PICK in \in Inputs, at \in DateNow :
        /\ pc[c] = "idle"
        /\ input' = [input EXCEPT ![c] = in]
        /\ \/ /\ ~Admitted(in, at)
              /\ answer' = [answer EXCEPT ![c] = Rejection(in)]
              /\ UNCHANGED <<pc, stamp>>
           \/ /\ ~Forbidden(in) /\ in.op = "request"
              /\ answer' = [answer EXCEPT ![c] = Unavailable("Database")]
              /\ UNCHANGED <<pc, stamp>>
           \/ /\ Admitted(in, at)
              /\ answer' = [answer EXCEPT ![c] = NoAnswer]
              /\ pc' = [pc EXCEPT ![c] = IF in.op \in Transitions THEN "stamp" ELSE "batch"]
              /\ stamp' = [stamp EXCEPT ![c] = IF in.op = "request" THEN Normalize(at) ELSE None]
        /\ UNCHANGED <<table, now, due>>
  BY DEF Invoke
<1>2. /\ pc \in [Calls -> Steps] /\ due \in [Calls -> Times \cup {None}]
      /\ due[c] = None /\ c \notin Busy
  BY <1>1 DEF IInv, TypeOK, Serving, Busy
<1>3. due' = [due EXCEPT ![c] = None] /\ Records' = Records /\ now' = now
  BY <1>1, <1>2 DEF Records
<1>4. at \in Times /\ now - ClockError <= at /\ at <= now + ClockError
  BY ClockAllowed
<1>5. CASE pc' = pc
  <2>1. Busy' = Busy
    BY <1>5 DEF Busy
  <2>2. CASE ~Admitted(in, at) /\ stamp' = stamp
             /\ answer' = [answer EXCEPT ![c] = Rejection(in)]
    BY <1>1, <1>2, <1>3, <1>4, <2>1, <2>2, SameService, SameAnswers DEF Ledger!Arrive, Busy
  <2>3. CASE ~Forbidden(in) /\ answer' = [answer EXCEPT ![c] = Unavailable("Database")]
             /\ stamp' = stamp
    BY <1>1, <1>2, <1>3, <1>4, <2>1, <2>3, SameService, SameAnswers DEF Ledger!Arrive, Busy
  <2>4. pc' # [pc EXCEPT ![c] = IF in.op \in Transitions THEN "stamp" ELSE "batch"]
    BY <1>1, <1>2, <1>5
  <2> QED BY <1>1, <2>2, <2>3, <2>4
<1>6. CASE /\ Admitted(in, at)
           /\ answer' = [answer EXCEPT ![c] = NoAnswer]
           /\ pc' = [pc EXCEPT ![c] = IF in.op \in Transitions THEN "stamp" ELSE "batch"]
           /\ stamp' = [stamp EXCEPT ![c] = IF in.op = "request" THEN Normalize(at) ELSE None]
  <2>1. Busy' = Busy \cup {c}
    BY <1>2, <1>6 DEF Busy
  <2> QED BY <1>1, <1>2, <1>3, <1>4, <1>6, <2>1, SameService, SameAnswers
          DEF Ledger!Arrive, Busy
<1> QED BY <1>1, <1>5, <1>6

\* Either clock reading is one of the ledger's.
LEMMA ClockMaps ==
  ASSUME IInv, NEW c \in Calls, StampAt(c) \/ ReadNow(c)
  PROVE  Ledger!ReadClock(c)
<1>1. /\ pc \in [Calls -> Steps] /\ c \in Busy /\ input[c].op \in Transitions
      /\ Busy' = Busy /\ Records' = Records
      /\ UNCHANGED <<now, input, answer>>
  <2>1. pc \in [Calls -> Steps] /\ Serving(c)
    BY DEF IInv, TypeOK
  <2>2. CASE StampAt(c)
    BY <2>1, <2>2 DEF StampAt, Serving, Busy, Records
  <2>3. CASE ReadNow(c)
    BY <2>1, <2>3 DEF ReadNow, Serving, Busy, Records
  <2> QED BY <2>1, <2>2, <2>3
<1>2. DateNow \subseteq Ledger!Readings(ClockError)
  BY ClockAllowed, MillisecondsStored, SameService DEF Ledger!Readings
<1>3. \E t \in Ledger!Readings(ClockError) :
        \/ stamp' = [stamp EXCEPT ![c] = t] /\ UNCHANGED due
        \/ due' = [due EXCEPT ![c] = t] /\ UNCHANGED stamp
  BY <1>2 DEF StampAt, ReadNow
<1> QED BY <1>1, <1>3 DEF Ledger!ReadClock, Busy, Transitions

LEMMA TickMaps ==
  ASSUME IInv, Tick
  PROVE  Ledger!ClockAdvances
<1>1. now \in Times /\ now' = now + 1 /\ now' \in Times /\ now' > now
  BY ModelAssumption DEF IInv, TypeOK, Tick, Times
<1> QED BY <1>1, SameService DEF Tick, Ledger!ClockAdvances, Records

-----------------------------------------------------------------------------

\* Every behaviour of the D1 store, its failures, lost receipts, drifting clocks
\* and racing batches included, is one in which each call takes effect at one
\* instant between its arrival and its answer.
THEOREM Implements == Spec => ImplementsLedger
<1>1. Init => Ledger!LedgerInit
  <2> SUFFICES ASSUME Init PROVE Ledger!LedgerInit
    OBVIOUS
  <2>1. Records = {} /\ {c \in Calls : pc[c] # "idle"} = {}
    BY DEF Init, Records
  <2> QED BY <2>1, SameAnswers DEF Init, Ledger!LedgerInit
<1>2. IInv /\ [Next]_vars => [Ledger!LedgerNext]_(Ledger!ledgerVars)
  <2> SUFFICES ASSUME IInv, [Next]_vars
               PROVE  Ledger!LedgerNext \/ UNCHANGED Ledger!ledgerVars
    OBVIOUS
  <2>1. ASSUME NEW c \in Calls,
               Invoke(c) \/ StampAt(c) \/ ReadNow(c) \/ Request(c) \/ Read(c) \/ Transition(c)
               \/ Abort(c)
        PROVE  Ledger!Arrive(c) \/ Ledger!ReadClock(c) \/ Ledger!Serve(c) \/ Ledger!GiveUp(c)
    BY <2>1, InvokeMaps, ClockMaps, RequestMaps, ReadMaps, TransitionMaps, AbortMaps
  <2>2. CASE Tick
    BY <2>2, TickMaps DEF Ledger!LedgerNext
  <2>3. CASE UNCHANGED vars
    BY <2>3 DEF vars, Records, Ledger!ledgerVars
  <2> QED BY <2>1, <2>2, <2>3 DEF Next, Ledger!LedgerNext
<1> QED BY <1>1, <1>2, Invariance, PTL DEF Spec, ImplementsLedger, Ledger!LedgerSpec
=============================================================================
