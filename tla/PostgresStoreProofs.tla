------------------------ MODULE PostgresStoreProofs ------------------------
(***************************************************************************)
(* The safety of PostgresStore for every set of calls, ids, keys, inputs   *)
(* and times: IInv is inductive, and the invariants and the action         *)
(* property the runs check follow from it; so do, from AnswersInv, the     *)
(* properties of what calls are told and, from Queued, who can deadlock.   *)
(***************************************************************************)
EXTENDS PostgresStore, ApprovalServiceProofs

\* Nothing is stored or under way at first.
LEMMA InitIInv == Init => IInv
<1> SUFFICES ASSUME Init PROVE IInv
  OBVIOUS
<1> USE DEF Init
<1>1. 0 \in Times
  BY ModelAssumption DEF Times
<1>2. TypeOK
  BY <1>1, AnswerTypes DEF TypeOK, Steps
<1>3. \A c \in Calls : Serving(c) /\ Transitioning(c) /\ Requesting(c)
  BY DEF Serving, Transitioning, Requesting
<1>4. InsertsDisjoint
  BY DEF InsertsDisjoint, Inserted
<1>5. UniqueRows /\ TerminalAuthority /\ ExpiredAfterDeadline
  BY DEF UniqueRows, TerminalAuthority, ExpiredAfterDeadline
<1>6. DefencesIdle
  BY DEF DefencesIdle, NoAnswer, Reply
<1> QED BY <1>2, <1>3, <1>4, <1>5, <1>6 DEF IInv

-----------------------------------------------------------------------------
(* Steps of one call that leave the table and the clock alone *)

\* Everything but the moving call keeps its place, and every lock another call
\* holds stays held.
OthersKeep(c) ==
  /\ table' = table /\ now' = now
  /\ \A d \in Calls \ {c} :
       /\ pc'[d] = pc[d] /\ input'[d] = input[d] /\ stamp'[d] = stamp[d]
       /\ draft'[d] = draft[d] /\ answer'[d] = answer[d]
  /\ \A id \in RequestIds : locks[id] \in Calls \ {c} => locks'[id] = locks[id]

\* Such a step preserves the invariant if it does so for the moving call and
\* does not put a conflicting insert in flight.
LEMMA LocalStep ==
  ASSUME IInv, NEW c \in Calls, OthersKeep(c), TypeOK',
         (Serving(c) /\ Transitioning(c) /\ Requesting(c))',
         \A d \in Calls \ {c} : Inserted(c)' /\ Inserted(d) => ~Conflicts(draft'[c], draft[d]),
         answer'[c].kind = "unavailable" => Expected(input'[c], answer'[c].error)
  PROVE  IInv'
<1> USE DEF IInv
<1>1. ASSUME NEW d \in Calls \ {c}
      PROVE  (Serving(d) /\ Transitioning(d) /\ Requesting(d))'
  <2>1. Serving(d) /\ Transitioning(d) /\ Requesting(d) /\ TypeOK
    BY <1>1
  <2>2. Serving(d)'
    BY <2>1 DEF OthersKeep, Serving
  <2>3. \A row \in table : Ready(d, row) => Ready(d, row)'
    BY <2>1 DEF OthersKeep, Ready, TypeOK, StoredApproval
  <2>4. Transitioning(d)'
    BY <2>1, <2>3 DEF OthersKeep, Transitioning, Ready
  <2>5. Requesting(d)'
    BY <2>1 DEF OthersKeep, Requesting, Replaying, Fresh, Wanted, TypeOK, StoredApproval
  <2> QED BY <2>2, <2>4, <2>5
<1>2. InsertsDisjoint'
  <2> SUFFICES ASSUME NEW d \in Calls, NEW e \in Calls, d # e, Inserted(d)', Inserted(e)'
               PROVE  ~Conflicts(draft'[d], draft'[e])
    BY DEF InsertsDisjoint
  <2>1. \A f \in Calls \ {c} : Inserted(f)' => Inserted(f) /\ draft'[f] = draft[f]
    BY DEF OthersKeep, Inserted
  <2>2. CASE d = c
    BY <2>1, <2>2
  <2>3. CASE e = c
    BY <2>1, <2>3 DEF Conflicts
  <2>4. CASE d # c /\ e # c
    BY <2>1, <2>4 DEF InsertsDisjoint
  <2> QED BY <2>2, <2>3, <2>4
<1>3. (\A row \in table : TableCheck(row))' /\ UniqueRows' /\ TerminalAuthority'
  BY DEF OthersKeep, UniqueRows, TerminalAuthority
<1>4. ExpiredAfterDeadline'
  BY DEF OthersKeep, ExpiredAfterDeadline
<1>5. DefencesIdle'
  BY DEF OthersKeep, DefencesIdle
<1> QED BY <1>1, <1>2, <1>3, <1>4, <1>5

\* Answering without a commit, with no failure but an outage.
LEMMA ReturnStep ==
  ASSUME IInv, NEW c \in Calls, NEW reply \in Answers, Return(c, reply),
         reply.kind = "unavailable" => reply.error = "Database"
  PROVE  IInv'
<1> USE DEF IInv, Return, Finish
<1>1. TypeOK'
  <2>1. locks' \in [RequestIds -> Calls \cup {None}]
    BY DEF Released, TypeOK
  <2> QED BY <2>1 DEF TypeOK, Steps
<1>2. pc'[c] = "idle" /\ answer'[c] = reply
  BY DEF TypeOK
<1>3. OthersKeep(c)
  BY DEF OthersKeep, Released, TypeOK
<1>4. (Serving(c) /\ Transitioning(c) /\ Requesting(c))'
  BY <1>2 DEF Serving, Transitioning, Requesting
<1>5. ~Inserted(c)'
  BY <1>2 DEF Inserted
<1>6. answer'[c].kind = "unavailable" => Expected(input'[c], answer'[c].error)
  BY <1>2 DEF Expected
<1> QED BY <1>1, <1>3, <1>4, <1>5, <1>6, LocalStep

\* A refusal or an outage is such an answer.
LEMMA RefusalStep ==
  ASSUME IInv, NEW c \in Calls, NEW failure \in DomainFailures, Fail(c, failure)
  PROVE  IInv'
<1>1. /\ Failure(input[c], failure) \in Answers
      /\ Failure(input[c], failure).kind = "refused"
  BY FailureType
<1> QED BY <1>1, ReturnStep DEF Fail

LEMMA OutageStep ==
  ASSUME IInv, NEW c \in Calls, Return(c, Unavailable("Database"))
  PROVE  IInv'
BY ReturnStep, AnswerTypes DEF RuntimeFailures

-----------------------------------------------------------------------------
(* The actions *)

\* Admission lets in only inputs the later statements can rely on.
LEMMA InvokeStep ==
  ASSUME IInv, NEW c \in Calls, Invoke(c)
  PROVE  IInv'
<1> USE DEF IInv
<1>1. PICK in \in Inputs, at \in Times :
        /\ pc[c] = "idle"
        /\ input' = [input EXCEPT ![c] = in]
        /\ wrote' = [wrote EXCEPT ![c] = FALSE]
        /\ \/ /\ answer' = [answer EXCEPT ![c] = Rejection(in)]
              /\ UNCHANGED <<pc, stamp>>
           \/ /\ Admitted(in, at)
              /\ answer' = [answer EXCEPT ![c] = NoAnswer]
              /\ Goto(c, IF in.op = "read" THEN "select" ELSE "begin")
              /\ stamp' = [stamp EXCEPT ![c] = IF in.op = "request" THEN Normalize(at) ELSE None]
        /\ UNCHANGED <<table, locks, now, todo, draft>>
  BY DEF Invoke
<1>2. in \in Input /\ Normalize(at) \in Times
  BY ServiceAssumption, NormalizeDown
<1>3. TypeOK'
  <2>1. answer' \in [Calls -> Answers]
    BY <1>1, AnswerTypes, RejectionType DEF TypeOK
  <2> QED BY <1>1, <1>2, <2>1 DEF TypeOK, Goto, Steps
<1>4. OthersKeep(c)
  BY <1>1 DEF OthersKeep, Goto, TypeOK
<1>5. answer'[c].kind = "unavailable" => Expected(input'[c], answer'[c].error)
  BY <1>1, RejectionType DEF TypeOK, NoAnswer, Reply
<1>6. pc'[c] \in {"idle", "select", "begin"}
  BY <1>1 DEF Goto, TypeOK
<1>7. Serving(c)'
  <2>1. CASE pc'[c] = "idle"
    BY <2>1 DEF Serving
  <2>2. CASE pc'[c] # "idle"
    <3>1. /\ Admitted(in, at)
          /\ pc'[c] = IF in.op = "read" THEN "select" ELSE "begin"
          /\ stamp'[c] = IF in.op = "request" THEN Normalize(at) ELSE None
          /\ input'[c] = in
      BY <1>1, <2>2 DEF Goto, TypeOK
    <3>2. in.caller \in Allowed(in.op) /\ ~Unrepresentable(in)
      BY <3>1 DEF Admitted, Forbidden
    <3>3. in.op = "request" => Normalize(at) < Normalize(in.expires_at)
      <4>1. in.op = "request" => Normalize(in.expires_at) \in Times
        BY <3>2, DeadlineStored
      <4> QED BY <3>1, <4>1, <1>2, ModelAssumption DEF Admitted, InvalidRequest, Times
    <3> QED BY <3>1, <3>2, <3>3, <1>2, <1>6 DEF Serving, Transitions
  <2> QED BY <2>1, <2>2
<1>8. Transitioning(c)' /\ Requesting(c)' /\ ~Inserted(c)'
  BY <1>6 DEF Transitioning, Requesting, Inserted
<1> QED BY <1>3, <1>4, <1>5, <1>7, <1>8, LocalStep

LEMMA BeginStep ==
  ASSUME IInv, NEW c \in Calls, Begin(c)
  PROVE  IInv'
<1> USE DEF IInv
<1>1. Serving(c) /\ TypeOK /\ pc[c] = "begin" /\ now \in Times
  BY DEF Begin, TypeOK
<1>2. Normalize(now) \in Times /\ Normalize(now) <= now
  BY <1>1, NormalizeDown
<1>3. TypeOK' /\ OthersKeep(c) /\ pc'[c] \in {"insert", "lock"}
  BY <1>1, <1>2 DEF Begin, Goto, TypeOK, OthersKeep, Steps
<1>4. Serving(c)'
  <2>1. /\ input[c] \in Inputs /\ input[c].op # "read"
        /\ input[c].op \in Ops
    BY <1>1, ServiceAssumption DEF Serving, Input
  <2> QED BY <1>1, <1>2, <2>1 DEF Begin, Goto, Serving, TypeOK, Transitions, Ops
<1>5. Transitioning(c)' /\ Requesting(c)' /\ ~Inserted(c)' /\ UNCHANGED <<input, answer>>
  BY <1>3 DEF Begin, Transitioning, Requesting, Inserted
<1> QED BY <1>3, <1>4, <1>5, LocalStep DEF DefencesIdle

LEMMA SelectStep ==
  ASSUME IInv, NEW c \in Calls, Select(c)
  PROVE  IInv'
<1> USE DEF IInv
<1>1. CASE Fail(c, "RequestNotFound")
  BY <1>1, RefusalStep DEF DomainFailures
<1>2. ASSUME NEW row \in RowsOf(input[c].request_id),
             Return(c, Response(input[c], FALSE, row))
      PROVE  IInv'
  <2>1. row \in table /\ row \in StoredApproval /\ TableCheck(row)
    BY <1>2 DEF RowsOf, TypeOK
  <2>2. input[c].op = "read"
    BY DEF Select, Serving
  <2>3. Presentable(input[c], row)
    BY <2>1, <2>2, StoredPresentable
  <2>4. /\ Response(input[c], FALSE, row) \in Answers
        /\ Response(input[c], FALSE, row).kind = "ok"
    BY <2>1, <2>3, ResponseType
  <2> QED BY <1>2, <2>4, ReturnStep
<1>3. \A row \in RowsOf(input[c].request_id) : ValidEvidence(row)
  BY DEF RowsOf, TableCheck
<1> QED BY <1>1, <1>2, <1>3 DEF Select, Decoded

\* What a request writes or looks for, by the lemma about pending rows.
LEMMA WantedRow ==
  ASSUME IInv, NEW c \in Calls, pc[c] # "idle", input[c].op = "request"
  PROVE  /\ Wanted(c) \in StoredApproval
         /\ Wanted(c).requester_instance \in Requesters
         /\ Wanted(c).requested_at < Wanted(c).expires_at
         /\ IsPending(Wanted(c))
         /\ TableCheck(Wanted(c))
<1>1. /\ input[c] \in Inputs
      /\ input[c].caller \in Requesters /\ ~Unrepresentable(input[c])
      /\ stamp[c] \in Times /\ stamp[c] < Normalize(input[c].expires_at)
  BY DEF IInv, Serving, Allowed
<1>2. input[c].caller \in Instances
  BY <1>1, ServiceAssumption
<1> QED BY <1>1, <1>2, PendingRow DEF Wanted

\* An insert nothing stored or in flight conflicts with.
LEMMA InsertStep ==
  ASSUME IInv, NEW c \in Calls, Insert(c)
  PROVE  IInv'
<1> USE DEF IInv
<1>1. /\ pc[c] = "insert" /\ input[c].op = "request"
      /\ \A d \in Calls : Uncommitted(d) => ~Conflicts(draft[d], Wanted(c))
      /\ UNCHANGED <<table, now, input, stamp, answer>>
      /\ \/ /\ \E other \in table : Conflicts(other, Wanted(c))
            /\ Goto(c, "resolve")
            /\ UNCHANGED <<locks, todo, draft, wrote>>
         \/ /\ ~\E other \in table : Conflicts(other, Wanted(c))
            /\ Goto(c, "commit")
            /\ draft' = [draft EXCEPT ![c] = Wanted(c)]
            /\ UNCHANGED <<locks, todo, wrote>>
  <2>1. pc[c] = "insert" /\ input[c].op = "request"
    BY DEF Insert, Serving
  <2>2. TableCheck(Wanted(c))
    BY <2>1, WantedRow
  <2> QED BY <2>1, <2>2 DEF Insert, Write, Wanted
<1>2. Wanted(c) \in StoredApproval
  BY <1>1, WantedRow
<1>3. TypeOK' /\ OthersKeep(c) /\ pc'[c] \in {"resolve", "commit"}
  BY <1>1, <1>2 DEF TypeOK, OthersKeep, Goto, Steps
<1>4. Serving(c)'
  BY <1>1, <1>3 DEF Serving, Transitions
<1>5. Transitioning(c)'
  BY <1>1, <1>3 DEF Transitioning, Transitions
<1>6. Requesting(c)'
  BY <1>1, <1>3 DEF Requesting, Fresh, Wanted, Goto, TypeOK
<1>7. ASSUME NEW d \in Calls \ {c}, Inserted(c)', Inserted(d)
      PROVE  ~Conflicts(draft'[c], draft[d])
  <2>1. draft'[c] = Wanted(c) /\ Uncommitted(d)
    BY <1>1, <1>7 DEF Inserted, Uncommitted, Goto, TypeOK
  <2> QED BY <1>1, <2>1 DEF Conflicts
<1> QED BY <1>1, <1>3, <1>4, <1>5, <1>6, <1>7, LocalStep DEF DefencesIdle

LEMMA ResolveStep ==
  ASSUME IInv, NEW c \in Calls, Resolve(c)
  PROVE  IInv'
<1> USE DEF IInv
<1> DEFINE ids == {other.request_id : other \in {r \in table : Conflicts(r, Wanted(c))}}
<1>1. pc[c] = "resolve" /\ Serving(c) /\ Requesting(c) /\ TypeOK
  BY DEF Resolve
<1>2. ids # {} /\ ids \subseteq RequestIds
  BY <1>1 DEF Requesting, TypeOK, StoredApproval
<1>3. /\ Goto(c, "gather")
      /\ todo' = [todo EXCEPT ![c] = ids]
      /\ UNCHANGED <<table, locks, now, input, stamp, draft, answer, wrote>>
  BY <1>2 DEF Resolve, Wanted
<1> HIDE DEF ids
<1>4. TypeOK' /\ OthersKeep(c) /\ pc'[c] = "gather"
  BY <1>1, <1>2, <1>3 DEF TypeOK, OthersKeep, Goto, Steps
<1>5. Serving(c)' /\ Transitioning(c)' /\ Requesting(c)' /\ ~Inserted(c)'
  BY <1>1, <1>3, <1>4 DEF Serving, Transitioning, Requesting, Inserted
<1> QED BY <1>3, <1>4, <1>5, LocalStep DEF DefencesIdle

LEMMA GatherStep ==
  ASSUME IInv, NEW c \in Calls, Gather(c)
  PROVE  IInv'
<1> USE DEF IInv
<1>1. PICK id \in todo[c] :
        /\ Free(id, c)
        /\ locks' = [locks EXCEPT ![id] = c]
        /\ todo' = [todo EXCEPT ![c] = @ \ {id}]
        /\ Goto(c, IF todo[c] = {id} THEN "compare" ELSE "gather")
  BY DEF Gather
<1>2. pc[c] = "gather" /\ Serving(c) /\ TypeOK
      /\ UNCHANGED <<table, now, input, stamp, draft, answer, wrote>>
  BY DEF Gather
<1>3. TypeOK' /\ OthersKeep(c) /\ pc'[c] \in {"gather", "compare"}
  <2>1. \A d \in Calls \ {c} : locks[id] # d
    BY <1>1, StoreAssumption DEF Free
  <2> QED BY <1>1, <1>2, <2>1 DEF TypeOK, OthersKeep, Goto, Steps, Free
<1>4. Serving(c)' /\ Transitioning(c)' /\ Requesting(c)' /\ ~Inserted(c)'
  BY <1>2, <1>3 DEF Serving, Transitioning, Requesting, Inserted
<1> QED BY <1>2, <1>3, <1>4, LocalStep DEF DefencesIdle

\* Stored rows decode, so a replay keeps the one row it locked.
LEMMA CompareStep ==
  ASSUME IInv, NEW c \in Calls, Compare(c)
  PROVE  IInv'
<1> USE DEF IInv
<1> DEFINE rows == {row \in table : row.request_id \in Held(c)}
<1>1. CASE Fail(c, "IdempotencyConflict")
  BY <1>1, RefusalStep DEF DomainFailures
<1>2. ASSUME NEW row \in rows,
             Goto(c, "commit"),
             draft' = [draft EXCEPT ![c] = row],
             UNCHANGED <<table, locks, now, input, stamp, todo, answer, wrote>>
      PROVE  IInv'
  <2>1. row \in table /\ row \in StoredApproval /\ locks[row.request_id] = c
    BY <1>2 DEF Held, TypeOK
  <2>2. pc[c] = "compare" /\ Serving(c) /\ input[c].op = "request"
    BY DEF Compare, Serving
  <2>3. TypeOK' /\ OthersKeep(c) /\ pc'[c] = "commit" /\ draft'[c] = row
    BY <1>2, <2>1 DEF TypeOK, OthersKeep, Goto, Steps
  <2>4. Serving(c)' /\ Transitioning(c)' /\ Requesting(c)' /\ ~Inserted(c)'
    BY <1>2, <2>1, <2>2, <2>3
       DEF Serving, Transitioning, Transitions, Requesting, Replaying, Inserted
  <2> QED BY <1>2, <2>3, <2>4, LocalStep DEF DefencesIdle
<1>3. ASSUME NEW row \in rows,
             Decoded(c, row,
               \/ ~SameIntent(row, IntentOf(input[c], stamp[c])) /\ Fail(c, "IdempotencyConflict")
               \/ /\ SameIntent(row, IntentOf(input[c], stamp[c]))
                  /\ Goto(c, "commit")
                  /\ draft' = [draft EXCEPT ![c] = row]
                  /\ UNCHANGED <<table, locks, now, input, stamp, todo, answer, wrote>>)
      PROVE  IInv'
  <2>1. ValidEvidence(row)
    BY DEF TableCheck
  <2> QED BY <1>1, <1>2, <1>3, <2>1 DEF Decoded
<1> QED BY <1>1, <1>3 DEF Compare

LEMMA LockStep ==
  ASSUME IInv, NEW c \in Calls, Lock(c)
  PROVE  IInv'
<1> USE DEF IInv
<1> DEFINE id == input[c].request_id
<1>1. CASE Fail(c, "RequestNotFound")
  BY <1>1, RefusalStep DEF DomainFailures
<1>2. ASSUME NEW row \in RowsOf(id), Free(id, c),
             Decoded(c, row,
               /\ Goto(c, "check")
               /\ locks' = [locks EXCEPT ![id] = c]
               /\ draft' = [draft EXCEPT ![c] = row]
               /\ UNCHANGED <<table, now, input, stamp, todo, answer, wrote>>)
      PROVE  IInv'
  <2>1. row \in table /\ row \in StoredApproval /\ ValidEvidence(row) /\ row.request_id = id
    BY DEF RowsOf, TypeOK, TableCheck
  <2>2. /\ Goto(c, "check")
        /\ locks' = [locks EXCEPT ![id] = c]
        /\ draft' = [draft EXCEPT ![c] = row]
        /\ UNCHANGED <<table, now, input, stamp, todo, answer, wrote>>
    BY <1>2, <2>1 DEF Decoded
  <2>3. pc[c] = "lock" /\ Serving(c) /\ id \in RequestIds
    BY <2>1 DEF Lock, StoredApproval
  <2>4. \A d \in Calls \ {c} : locks[id] # d
    BY <1>2, StoreAssumption DEF Free
  <2>5. TypeOK' /\ OthersKeep(c) /\ pc'[c] = "check" /\ draft'[c] = row /\ locks'[id] = c
    BY <2>1, <2>2, <2>3, <2>4 DEF TypeOK, OthersKeep, Goto, Steps
  <2>6. Ready(c, row)'
    BY <2>1, <2>2, <2>5 DEF Ready
  <2>7. Serving(c)' /\ Transitioning(c)' /\ Requesting(c)' /\ ~Inserted(c)'
    BY <2>2, <2>3, <2>5, <2>6 DEF Serving, Transitioning, Requesting, Inserted
  <2> QED BY <2>2, <2>5, <2>7, LocalStep DEF DefencesIdle
<1> QED BY <1>1, <1>2 DEF Lock

LEMMA CheckStep ==
  ASSUME IInv, NEW c \in Calls, Check(c)
  PROVE  IInv'
<1> USE DEF IInv
<1>1. CASE Fail(c, "NotRequester") \/ Fail(c, "AlreadyTerminal")
  BY <1>1, RefusalStep DEF DomainFailures
<1>2. CASE /\ ~Foreign(input[c], draft[c]) /\ IsPending(draft[c])
           /\ Goto(c, IF input[c].op = "expire" THEN "due" ELSE "update")
           /\ UNCHANGED <<table, locks, now, input, stamp, todo, draft, answer, wrote>>
  <2>1. pc[c] = "check" /\ Serving(c) /\ Ready(c, draft[c])
    BY DEF Check, Transitioning
  <2>2. TypeOK' /\ OthersKeep(c)
        /\ pc'[c] = IF input[c].op = "expire" THEN "due" ELSE "update"
    BY <1>2 DEF TypeOK, OthersKeep, Goto, Steps
  <2>3. Ready(c, draft[c])'
    BY <1>2, <2>1, <2>2 DEF Ready
  <2>4. Serving(c)' /\ Transitioning(c)' /\ Requesting(c)' /\ ~Inserted(c)'
    BY <1>2, <2>1, <2>2, <2>3 DEF Serving, Transitioning, Requesting, Inserted
  <2> QED BY <1>2, <2>2, <2>4, LocalStep DEF DefencesIdle
<1> QED BY <1>1, <1>2 DEF Check

LEMMA DueStep ==
  ASSUME IInv, NEW c \in Calls, Due(c)
  PROVE  IInv'
<1> USE DEF IInv
<1>1. CASE Fail(c, "NotDue")
  BY <1>1, RefusalStep DEF DomainFailures
<1>2. ASSUME NEW row \in RowsOf(input[c].request_id), IsDue(row, stamp[c]), Goto(c, "update"),
             UNCHANGED <<table, locks, now, input, stamp, todo, draft, answer, wrote>>
      PROVE  IInv'
  <2>1. pc[c] = "due" /\ Serving(c) /\ Ready(c, draft[c])
    BY DEF Due, Transitioning
  <2>2. row = draft[c]
    BY <2>1, <1>2 DEF Ready, RowsOf, UniqueRows, Conflicts
  <2>3. TypeOK' /\ OthersKeep(c) /\ pc'[c] = "update"
    BY <1>2 DEF TypeOK, OthersKeep, Goto, Steps
  <2>4. Ready(c, draft[c])'
    BY <1>2, <2>1, <2>2, <2>3 DEF Ready
  <2>5. Serving(c)' /\ Transitioning(c)' /\ Requesting(c)' /\ ~Inserted(c)'
    BY <1>2, <2>1, <2>3, <2>4 DEF Serving, Transitioning, Requesting, Inserted
  <2> QED BY <1>2, <2>3, <2>5, LocalStep DEF DefencesIdle
<1> QED BY <1>1, <1>2 DEF Due

\* The row the UPDATE meets is the pending one the call locked, so the row it
\* writes passes the CHECK constraints although the UPDATE tests no status.
LEMMA UpdateStep ==
  ASSUME IInv, NEW c \in Calls, Update(c)
  PROVE  IInv'
<1> USE DEF IInv
<1> DEFINE id == input[c].request_id
<1>1. PICK row \in RowsOf(id) :
        Free(id, c) /\ Write(c, Terminated(row, input[c], stamp[c]), [locks EXCEPT ![id] = c])
  BY DEF Update
<1>2. pc[c] = "update" /\ Serving(c) /\ Ready(c, draft[c])
  BY DEF Update, Transitioning
<1>3. row = draft[c]
  BY <1>2 DEF Ready, RowsOf, UniqueRows, Conflicts
<1>4. /\ row \in table /\ row \in StoredApproval /\ TableCheck(row) /\ IsPending(row)
      /\ row.request_id = id /\ id \in RequestIds /\ locks[id] = c
  BY <1>2, <1>3 DEF Ready, TypeOK, StoredApproval
<1>5. /\ input[c] \in Inputs /\ input[c].op \in Transitions
      /\ input[c].caller \in Instances /\ stamp[c] \in Times
  <2>1. input[c] \in Inputs /\ input[c].op \in Transitions /\ stamp[c] \in Times
        /\ input[c].caller \in Allowed(input[c].op)
    BY <1>2 DEF Serving
  <2>2. Allowed(input[c].op) \subseteq Instances
    BY <2>1, ServiceAssumption DEF Allowed, Transitions
  <2> QED BY <2>1, <2>2
<1> DEFINE updated == Terminated(row, input[c], stamp[c])
<1>6. updated \in StoredApproval /\ TableCheck(updated)
  BY <1>4, <1>5, TerminatedRow DEF Transitions
<1>7. /\ Goto(c, "commit")
      /\ draft' = [draft EXCEPT ![c] = updated]
      /\ locks' = [locks EXCEPT ![id] = c]
      /\ UNCHANGED <<table, now, input, stamp, todo, answer, wrote>>
  BY <1>1, <1>6 DEF Write
<1> HIDE DEF updated
<1>8. TypeOK' /\ OthersKeep(c) /\ pc'[c] = "commit" /\ draft'[c] = updated
  BY <1>4, <1>6, <1>7 DEF TypeOK, OthersKeep, Goto, Steps
<1>9. Ready(c, row)'
  BY <1>2, <1>3, <1>4, <1>7, <1>8 DEF Ready, TypeOK
<1>10. Serving(c)' /\ Transitioning(c)' /\ Requesting(c)' /\ ~Inserted(c)'
  BY <1>2, <1>4, <1>5, <1>7, <1>8, <1>9
     DEF Serving, Transitioning, Transitions, Requesting, Inserted, updated
<1> QED BY <1>7, <1>8, <1>10, LocalStep DEF DefencesIdle

-----------------------------------------------------------------------------
(* Commit *)

\* Who may have ended a row, and when it may have expired: the two row
\* invariants, of one row.
Authority(row) ==
  /\ row.requester_instance \in Requesters
  /\ row.status \in {"approved", "rejected"} => row.terminal_caller_instance \in Deciders
  /\ row.status = "cancelled" => row.terminal_caller_instance = row.requester_instance
  /\ row.status = "expired" => row.terminal_caller_instance \in Expirers

Punctual(row) ==
  /\ row.requested_at < row.expires_at
  /\ row.status = "expired" => row.expires_at <= row.terminal_at /\ row.terminal_at <= now

\* The row it replaces is the committed one of the same id, whose lock the call
\* holds, unchanged or pending.
Replaces(c, old) ==
  /\ old \in table
  /\ SameIntent(draft[c], old) /\ draft[c].requested_at = old.requested_at
  /\ locks[old.request_id] = c
  /\ draft[c] = old \/ IsPending(old)

\* What a call commits: a sound row that replaces its own locked predecessor or
\* stands against no stored row at all.
LEMMA Committed ==
  ASSUME IInv, NEW c \in Calls, pc[c] = "commit"
  PROVE  /\ draft[c] \in StoredApproval /\ TableCheck(draft[c])
         /\ Authority(draft[c]) /\ Punctual(draft[c])
         /\ Presentable(input[c], draft[c])
         /\ \/ \E old \in table : Replaces(c, old)
            \/ Inserted(c) /\ \A row \in table : ~Conflicts(row, draft[c])
<1> USE DEF IInv
<1>1. /\ TypeOK /\ Serving(c) /\ Transitioning(c) /\ Requesting(c)
      /\ input[c] \in Inputs /\ input[c].caller \in Allowed(input[c].op)
      /\ input[c] \in Input
  BY ServiceAssumption DEF Serving
<1>2. input[c].op = "request" \/ input[c].op \in Transitions
  BY <1>1 DEF Serving, Input, Ops, Transitions
<1>3. CASE input[c].op = "request" /\ Replaying(c)
  <2>1. /\ draft[c] \in table /\ draft[c] \in StoredApproval
        /\ TableCheck(draft[c]) /\ Authority(draft[c]) /\ Punctual(draft[c])
    BY <1>1, <1>3 DEF Replaying, TypeOK, TerminalAuthority, ExpiredAfterDeadline, Authority, Punctual
  <2>2. Replaces(c, draft[c])
    BY <1>3, <2>1 DEF Replaying, Replaces, SameIntent
  <2> QED BY <1>3, <2>1, <2>2, StoredPresentable
<1>4. CASE input[c].op = "request" /\ Fresh(c)
  <2>1. /\ draft[c] \in StoredApproval /\ TableCheck(draft[c]) /\ IsPending(draft[c])
        /\ draft[c].requester_instance \in Requesters
        /\ draft[c].requested_at < draft[c].expires_at
    BY <1>4, WantedRow DEF Fresh
  <2>2. draft[c] \notin table
    BY <1>4 DEF Fresh, Conflicts
  <2>3. Authority(draft[c]) /\ Punctual(draft[c])
    BY <2>1 DEF Authority, Punctual, IsPending
  <2> QED BY <1>4, <2>1, <2>2, <2>3, StoredPresentable DEF Fresh, Inserted
<1>5. CASE input[c].op \in Transitions
  <2>1. PICK row \in table : Ready(c, row) /\ draft[c] = Terminated(row, input[c], stamp[c])
    BY <1>1, <1>5 DEF Transitioning
  <2>2. /\ row \in StoredApproval /\ TableCheck(row) /\ IsPending(row)
        /\ row.requester_instance \in Requesters
        /\ row.requested_at < row.expires_at
        /\ locks[row.request_id] = c /\ ~Foreign(input[c], row)
        /\ input[c].op = "expire" => row.expires_at <= stamp[c]
    BY <1>1, <2>1 DEF TypeOK, Ready, TerminalAuthority, ExpiredAfterDeadline, IsDue
  <2>3. /\ stamp[c] \in Times /\ stamp[c] <= now
        /\ input[c].caller \in Instances
        /\ input[c].op = "decide" => input[c].caller \in Deciders
        /\ input[c].op = "expire" => input[c].caller \in Expirers
        /\ input[c].op = "cancel" => input[c].caller = row.requester_instance
    <3>1. stamp[c] \in Times /\ stamp[c] <= now
      BY <1>1, <1>5 DEF Serving
    <3>2. Allowed(input[c].op) \subseteq Instances
      BY <1>5, ServiceAssumption DEF Allowed, Transitions
    <3>3. Allowed("decide") = Deciders /\ Allowed("expire") = Expirers
      BY DEF Allowed
    <3> QED BY <1>1, <2>2, <3>1, <3>2, <3>3 DEF Foreign
  <2>4. /\ draft[c] \in StoredApproval /\ TableCheck(draft[c])
        /\ SameIntent(draft[c], row) /\ draft[c].requested_at = row.requested_at
        /\ draft[c].terminal_caller_instance = input[c].caller
        /\ draft[c].terminal_at = stamp[c]
        /\ draft[c].status \in {"approved", "rejected"} <=> input[c].op = "decide"
        /\ draft[c].status = "cancelled" <=> input[c].op = "cancel"
        /\ draft[c].status = "expired" <=> input[c].op = "expire"
    BY <1>1, <1>5, <2>1, <2>2, <2>3, TerminatedRow DEF Transitions
  <2>5. Presentable(input[c], draft[c])
    BY <1>1, <1>5, <2>1, <2>2, <2>3, TerminatedPresentable DEF Transitions
  <2>6. Authority(draft[c]) /\ Punctual(draft[c])
    BY <2>2, <2>3, <2>4 DEF Authority, Punctual, SameIntent
  <2>7. Replaces(c, row)
    BY <2>1, <2>2, <2>4 DEF Replaces
  <2> QED BY <2>4, <2>5, <2>6, <2>7
<1> QED BY <1>1, <1>2, <1>3, <1>4, <1>5 DEF Requesting

\* The table after a commit: the other ids' rows and the call's own.
LEMMA CommitStep ==
  ASSUME IInv, NEW c \in Calls, Commit(c)
  PROVE  IInv'
<1> USE DEF IInv
<1> DEFINE new == draft[c]
<1>1. /\ pc[c] = "commit" /\ TypeOK
      /\ new \in StoredApproval /\ TableCheck(new)
      /\ Authority(new) /\ Punctual(new) /\ Presentable(input[c], new)
      /\ \/ \E old \in table : Replaces(c, old)
         \/ Inserted(c) /\ \A row \in table : ~Conflicts(row, new)
  BY Committed DEF Commit
<1>2. PICK reply \in Answers :
        /\ Finish(c, reply)
        /\ reply.kind = "unavailable" => reply.error = "Database"
  <2>1. Commit(c)
    OBVIOUS
  <2>2. ASSUME NEW created \in BOOLEAN
        PROVE  /\ Response(input[c], created, new) \in Answers
               /\ Response(input[c], created, new).kind = "ok"
    BY <1>1, ResponseType
  <2>3. Unavailable("Database") \in Answers /\ Unavailable("Database").error = "Database"
    BY AnswerTypes DEF RuntimeFailures
  <2> QED BY <2>1, <2>2, <2>3 DEF Commit, Uncommitted
<1>3. /\ table' = {other \in table : other.request_id # new.request_id} \cup {new}
      /\ wrote' \in [Calls -> BOOLEAN]
      /\ UNCHANGED <<now, input>>
  BY <1>1 DEF Commit, Stored, TypeOK
<1>4. /\ pc' = [pc EXCEPT ![c] = "idle"]
      /\ locks' = [id \in RequestIds |-> IF locks[id] = c THEN None ELSE locks[id]]
      /\ stamp' = [stamp EXCEPT ![c] = None]
      /\ todo' = [todo EXCEPT ![c] = {}]
      /\ draft' = [draft EXCEPT ![c] = None]
      /\ answer' = [answer EXCEPT ![c] = reply]
  BY <1>2 DEF Finish, Released
<1>5. TypeOK'
  <2>1. table' \subseteq StoredApproval
    BY <1>1, <1>3 DEF TypeOK
  <2>2. locks' \in [RequestIds -> Calls \cup {None}]
    BY <1>1, <1>4 DEF TypeOK
  <2> QED BY <1>1, <1>2, <1>3, <1>4, <2>1, <2>2 DEF TypeOK, Steps
<1>6. \A row \in table' : TableCheck(row) /\ Authority(row) /\ Punctual(row)
  BY <1>1, <1>3 DEF TerminalAuthority, ExpiredAfterDeadline, Authority, Punctual
<1>7. \A old \in table : \E row \in table' :
        row.request_id = old.request_id /\ row.requester_instance = old.requester_instance
        /\ row.idempotency_key = old.idempotency_key
  BY <1>1, <1>3 DEF Replaces, SameIntent, UniqueRows, Conflicts
<1>8. \A row \in table : row \in table' \/ locks[row.request_id] = c
  BY <1>1, <1>3 DEF Replaces, SameIntent, UniqueRows, Conflicts
<1>9. ASSUME NEW row \in table'
      PROVE  \/ row = new
             \/ row \in table /\ ~Conflicts(row, new) /\ ~Conflicts(new, row)
  BY <1>1, <1>3 DEF Replaces, SameIntent, UniqueRows, Conflicts
<1>10. UniqueRows'
  BY <1>9 DEF UniqueRows
<1>11. ASSUME NEW d \in Calls \ {c}
       PROVE  (Serving(d) /\ Transitioning(d) /\ Requesting(d))'
  <2>1. /\ Serving(d) /\ Transitioning(d) /\ Requesting(d)
        /\ pc'[d] = pc[d] /\ input'[d] = input[d] /\ stamp'[d] = stamp[d] /\ draft'[d] = draft[d]
    BY <1>1, <1>3, <1>4 DEF TypeOK
  <2>2. \A id \in RequestIds : locks[id] = d => locks'[id] = d
    BY <1>4
  <2>3. \A row \in table : row.request_id \in RequestIds
    BY <1>1 DEF TypeOK, StoredApproval
  <2>4. Serving(d)'
    BY <1>3, <2>1 DEF Serving
  <2>5. \A row \in table : Ready(d, row) => Ready(d, row)'
    BY <1>8, <2>1, <2>2, <2>3 DEF Ready
  <2>6. Transitioning(d)'
    BY <2>1, <2>5 DEF Transitioning, Ready
  <2>7. Wanted(d)' = Wanted(d)
    BY <2>1 DEF Wanted
  <2>8. pc[d] = "resolve" => (\E row \in table : Conflicts(row, Wanted(d)))'
    BY <1>7, <2>1, <2>7 DEF Requesting, Conflicts
  <2>9. Replaying(d) => Replaying(d)'
    BY <1>8, <2>1, <2>2, <2>3 DEF Replaying
  <2>10. pc[d] = "commit" /\ input[d].op = "request" /\ Fresh(d) => Fresh(d)'
    <3> SUFFICES ASSUME pc[d] = "commit", input[d].op = "request", Fresh(d)
                 PROVE  Fresh(d)'
      OBVIOUS
    <3>1. Inserted(d)
      BY DEF Fresh, Inserted, Conflicts
    <3>2. ~Conflicts(new, draft[d])
      <4>1. CASE \E old \in table : Replaces(c, old)
        BY <4>1 DEF Replaces, SameIntent, Fresh, Conflicts
      <4>2. CASE Inserted(c)
        BY <3>1, <4>2 DEF InsertsDisjoint
      <4> QED BY <1>1, <4>1, <4>2
    <3> QED BY <1>3, <2>1, <2>7, <3>2 DEF Fresh
  <2>11. Requesting(d)'
    BY <2>1, <2>8, <2>9, <2>10 DEF Requesting
  <2> QED BY <2>4, <2>6, <2>11
<1>12. (Serving(c) /\ Transitioning(c) /\ Requesting(c))'
  BY <1>1, <1>4 DEF Serving, Transitioning, Requesting, TypeOK
<1>13. InsertsDisjoint'
  <2>1. \A d \in Calls : Inserted(d)' => d # c /\ Inserted(d) /\ draft'[d] = draft[d]
    <3> SUFFICES ASSUME NEW d \in Calls, Inserted(d)'
                 PROVE  d # c /\ Inserted(d) /\ draft'[d] = draft[d]
      OBVIOUS
    <3>1. d # c /\ pc[d] = "commit" /\ input[d].op = "request" /\ draft'[d] = draft[d]
      BY <1>1, <1>3, <1>4 DEF Inserted, TypeOK
    <3>2. draft[d] \notin table' /\ (Replaying(d) \/ Fresh(d))
      BY <3>1 DEF Inserted, Requesting
    <3>3. draft[d] \notin table
      <4>1. Fresh(d) => draft[d] \notin table
        BY DEF Fresh, Conflicts
      <4>2. Replaying(d) => locks[draft[d].request_id] # c
        BY <3>1 DEF Replaying
      <4> QED BY <1>8, <3>2, <4>1, <4>2
    <3> QED BY <3>1, <3>3 DEF Inserted
  <2> QED BY <2>1 DEF InsertsDisjoint
<1>14. TerminalAuthority' /\ ExpiredAfterDeadline'
  BY <1>6, <1>3 DEF TerminalAuthority, ExpiredAfterDeadline, Authority, Punctual
<1>15. DefencesIdle'
  BY <1>1, <1>2, <1>3, <1>4 DEF DefencesIdle, Expected, TypeOK
<1> QED BY <1>5, <1>6, <1>10, <1>11, <1>12, <1>13, <1>14, <1>15

-----------------------------------------------------------------------------
(* The theorems *)

\* Time passing ages no transaction's clock reading.
LEMMA TickStep ==
  ASSUME IInv, Tick
  PROVE  IInv'
<1> USE DEF IInv, Tick
<1>1. now \in Times /\ now' \in Times /\ now <= now'
  BY ModelAssumption DEF TypeOK, Times
<1>2. TypeOK'
  BY <1>1 DEF TypeOK
<1>3. ASSUME NEW c \in Calls
      PROVE  (Serving(c) /\ Transitioning(c) /\ Requesting(c))'
  <2>1. Serving(c)'
    BY <1>1 DEF Serving, Times
  <2>2. Transitioning(c)'
    BY DEF Transitioning, Ready
  <2>3. Requesting(c)'
    BY DEF Requesting, Replaying, Fresh, Wanted
  <2> QED BY <2>1, <2>2, <2>3
<1>4. InsertsDisjoint' /\ UniqueRows' /\ TerminalAuthority' /\ DefencesIdle'
  BY DEF InsertsDisjoint, Inserted, UniqueRows, TerminalAuthority, DefencesIdle
<1>5. ExpiredAfterDeadline'
  <2>1. \A row \in table : row.terminal_at \in Times \cup {None}
    BY DEF TypeOK, StoredApproval
  <2>2. ASSUME NEW row \in table, row.status = "expired"
        PROVE  row.terminal_at \in Times
    BY <2>1, <2>2 DEF TableCheck, ValidEvidence, Set
  <2> QED BY <1>1, <2>2, ModelAssumption DEF ExpiredAfterDeadline, Times
<1> QED BY <1>2, <1>3, <1>4, <1>5

\* The inductive invariant holds in every behaviour, for every set of calls,
\* inputs and times.
THEOREM Invariance == Spec => []IInv
<1>1. Init => IInv
  BY InitIInv
<1>2. IInv /\ [Next]_vars => IInv'
  <2> SUFFICES ASSUME IInv, [Next]_vars PROVE IInv'
    OBVIOUS
  <2>1. ASSUME NEW c \in Calls, Invoke(c) PROVE IInv'
    BY <2>1, InvokeStep
  <2>2. ASSUME NEW c \in Calls, Statement(c) PROVE IInv'
    BY <2>2, BeginStep, SelectStep, InsertStep, ResolveStep, GatherStep, CompareStep,
       LockStep, CheckStep, DueStep, UpdateStep, CommitStep DEF Statement
  <2>3. ASSUME NEW c \in Calls, Abort(c) \/ DeadlockVictim(c) PROVE IInv'
    BY <2>3, OutageStep DEF Abort, DeadlockVictim
  <2>4. CASE Tick
    BY <2>4, TickStep
  <2>5. CASE UNCHANGED vars
    BY <2>5 DEF vars, IInv, TypeOK, Serving, Transitioning, Ready, Requesting, Replaying,
       Fresh, Wanted, InsertsDisjoint, Inserted, UniqueRows, TerminalAuthority,
       ExpiredAfterDeadline, DefencesIdle
  <2> QED BY <2>1, <2>2, <2>3, <2>4, <2>5 DEF Next
<1> QED BY <1>1, <1>2, PTL DEF Spec

\* Every variable keeps its type.
THEOREM TypeCorrect == Spec => []TypeOK
<1>1. IInv => TypeOK
  BY DEF IInv
<1> QED BY <1>1, Invariance, PTL

\* No id and no requester's idempotency key ever names two rows.
THEOREM Uniqueness == Spec => []UniqueRows
<1>1. IInv => UniqueRows
  BY DEF IInv
<1> QED BY <1>1, Invariance, PTL

\* Only deciders decide, only the requester cancels, only expirers expire.
THEOREM Authorised == Spec => []TerminalAuthority
<1>1. IInv => TerminalAuthority
  BY DEF IInv
<1> QED BY <1>1, Invariance, PTL

\* Nothing expires before its deadline.
THEOREM NotEarly == Spec => []ExpiredAfterDeadline
<1>1. IInv => ExpiredAfterDeadline
  BY DEF IInv
<1> QED BY <1>1, Invariance, PTL

\* The defensive branches never act: every failure is an outage, or that of a
\* deadline no timestamp holds.
THEOREM DefencesNeverAct == Spec => []DefencesIdle
<1>1. IInv => DefencesIdle
  BY DEF IInv
<1> QED BY <1>1, Invariance, PTL

\* Rows are never lost, their intent never changes, and a terminal row never
\* changes at all.
Frozen ==
  \A row \in table :
    \E after \in table' :
      /\ SameIntent(after, row) /\ after.requested_at = row.requested_at
      /\ after = row \/ IsPending(row)

LEMMA FrozenStep == IInv /\ [Next]_vars => Frozen
<1> SUFFICES ASSUME IInv, [Next]_vars, NEW row \in table
             PROVE  \E after \in table' :
                      /\ SameIntent(after, row) /\ after.requested_at = row.requested_at
                      /\ after = row \/ IsPending(row)
  BY DEF Frozen
<1>1. CASE table' = table
  BY <1>1 DEF SameIntent
<1>2. ASSUME NEW c \in Calls, Commit(c)
      PROVE  \E after \in table' :
               /\ SameIntent(after, row) /\ after.requested_at = row.requested_at
               /\ after = row \/ IsPending(row)
  <2>1. \/ \E old \in table : Replaces(c, old)
        \/ \A other \in table : ~Conflicts(other, draft[c])
    BY <1>2, Committed DEF Commit
  <2>2. table' = {other \in table : other.request_id # draft[c].request_id} \cup {draft[c]}
    BY <1>2 DEF Commit, Stored
  <2>3. CASE row.request_id # draft[c].request_id
    BY <2>2, <2>3 DEF SameIntent
  <2>4. CASE row.request_id = draft[c].request_id
    BY <2>1, <2>2, <2>4 DEF IInv, UniqueRows, Replaces, Conflicts, SameIntent
  <2> QED BY <2>3, <2>4
<1>3. ASSUME NEW c \in Calls,
             Invoke(c) \/ (Statement(c) /\ ~Commit(c)) \/ Abort(c) \/ DeadlockVictim(c)
      PROVE  table' = table
  <2>1. Invoke(c) => table' = table
    BY DEF Invoke
  <2>2. Abort(c) \/ DeadlockVictim(c) => table' = table
    BY DEF Abort, DeadlockVictim, Return
  <2>3. Begin(c) \/ Gather(c) \/ Check(c) \/ Due(c) => table' = table
    BY DEF Begin, Gather, Check, Due, Fail, Return
  <2>4. Select(c) \/ Insert(c) \/ Resolve(c) \/ Update(c) => table' = table
    BY DEF Select, Decoded, Insert, Resolve, Update, Write, Fail, Return
  <2>5. Compare(c) \/ Lock(c) => table' = table
    BY DEF Compare, Lock, Decoded, Fail, Return
  <2> QED BY <1>3, <2>1, <2>2, <2>3, <2>4, <2>5 DEF Statement
<1>4. CASE Tick \/ UNCHANGED vars
  BY <1>1, <1>4 DEF Tick, vars
<1> QED BY <1>1, <1>2, <1>3, <1>4 DEF Next, Statement

\* No outcome is ever overwritten.
THEOREM TerminalRowsFrozen == Spec => TerminalFrozen
<1>1. IInv /\ [Next]_vars => [Frozen]_vars
  BY FrozenStep
<1> QED BY <1>1, Invariance, PTL DEF Spec, TerminalFrozen, Frozen

-----------------------------------------------------------------------------
(* What calls are told: an answer agrees with what its call did, a refusal   *)
(* stays true of the table, one call creates a request and one ends it, and  *)
(* requesters see nothing of one another.                                    *)

(* The inductive invariant *)

InTheWay(c) == {row.request_id : row \in {r \in table : Conflicts(r, Wanted(c))}}

\* What a reply to the input must have in the table: TruthfulRefusals and
\* RequesterIsolation of one reply.
BlocksRequest(in, row) ==
  /\ \/ row.request_id = in.request_id
     \/ row.requester_instance = in.caller /\ row.idempotency_key = in.idempotency_key
  /\ \/ row.request_id # in.request_id
     \/ row.requester_instance # in.caller
     \/ row.idempotency_key # in.idempotency_key
     \/ row.matter # in.matter
     \/ row.expires_at # Normalize(in.expires_at)

TrueOf(in, reply) ==
  /\ reply.error = "AlreadyTerminal" =>
       \E row \in RowsOf(in.request_id) : ~IsPending(row)
  /\ reply.error = "NotRequester" =>
       \E row \in RowsOf(in.request_id) : row.requester_instance # in.caller
  /\ reply.error = "IdempotencyConflict" => \E row \in table : BlocksRequest(in, row)
  /\ reply.kind = "ok" /\ in.caller \notin Deciders \cup Expirers =>
       reply.approval.requester_instance = in.caller

Agrees(in, reply, did) ==
  /\ reply.kind = "refused" => ~did
  /\ reply.kind = "ok" => (did <=> (reply.created \/ in.op \in Transitions))

\* A write leaves a row behind, and a transition's is terminal.
Traced(in, did) ==
  did => /\ in.op \in Transitions \cup {"request"}
         /\ \E row \in RowsOf(in.request_id) : in.op \in Transitions => ~IsPending(row)

Standing(c) ==
  /\ TrueOf(input[c], answer[c])
  /\ Agrees(input[c], answer[c], wrote[c])
  /\ Traced(input[c], wrote[c])

\* A request locks only rows that are in its way, and once it compares them it
\* has one at least.
Locking(c) ==
  /\ pc[c] \in {"idle", "insert", "resolve"} => Held(c) = {}
  /\ pc[c] = "begin" => Held(c) = {}
  /\ pc[c] \in {"gather", "compare"} => Held(c) \cup todo[c] \subseteq InTheWay(c)
  /\ pc[c] = "compare" => Held(c) # {}

\* A call under way has neither answered nor written.
Engaged(c) ==
  /\ pc[c] # "idle" => answer[c] = NoAnswer /\ ~wrote[c]
  /\ pc[c] = "commit" /\ input[c].op = "request" =>
       draft[c].requester_instance = input[c].caller
  /\ Locking(c)

AnswersInv ==
  /\ \A c \in Calls : Standing(c) /\ Engaged(c)
  /\ SingleWinner

-----------------------------------------------------------------------------
(* What one call's step leaves to the others *)

\* Everything but the moving call keeps its place and its locks.
OthersStay(c) ==
  \A d \in Calls \ {c} :
    /\ pc'[d] = pc[d] /\ input'[d] = input[d] /\ stamp'[d] = stamp[d] /\ todo'[d] = todo[d]
    /\ draft'[d] = draft[d] /\ answer'[d] = answer[d] /\ wrote'[d] = wrote[d]
    /\ Held(d)' = Held(d)

\* What a reply says of the table stays true of it, since rows persist.
LEMMA StaysTrue ==
  ASSUME Frozen, NEW in, NEW reply, TrueOf(in, reply)
  PROVE  TrueOf(in, reply)'
<1>1. \A row \in table : \E after \in table' :
        /\ SameIntent(after, row)
        /\ after = row \/ IsPending(row)
  BY DEF Frozen
<1>2. \A row \in RowsOf(in.request_id) : ~IsPending(row) => row \in RowsOf(in.request_id)'
  BY <1>1 DEF RowsOf
<1>3. (\E row \in RowsOf(in.request_id) : row.requester_instance # in.caller)
        => (\E row \in RowsOf(in.request_id) : row.requester_instance # in.caller)'
  BY <1>1 DEF RowsOf, SameIntent
<1>4. (\E row \in table : BlocksRequest(in, row)) => (\E row \in table : BlocksRequest(in, row))'
  BY <1>1 DEF BlocksRequest, SameIntent
<1> QED BY <1>2, <1>3, <1>4 DEF TrueOf

LEMMA StaysTraced ==
  ASSUME Frozen, NEW in, NEW did, Traced(in, did)
  PROVE  Traced(in, did)'
<1>1. \A row \in table : \E after \in table' :
        /\ SameIntent(after, row)
        /\ after = row \/ IsPending(row)
  BY DEF Frozen
<1> QED BY <1>1 DEF Traced, RowsOf, SameIntent

\* A call that does not move stays as it stands.
LEMMA BystanderKeeps ==
  ASSUME AnswersInv, Frozen, NEW c \in Calls, OthersStay(c), NEW d \in Calls \ {c}
  PROVE  (Standing(d) /\ Engaged(d))'
<1>1. /\ pc'[d] = pc[d] /\ input'[d] = input[d] /\ stamp'[d] = stamp[d] /\ todo'[d] = todo[d]
      /\ draft'[d] = draft[d] /\ answer'[d] = answer[d] /\ wrote'[d] = wrote[d]
      /\ Held(d)' = Held(d)
      /\ Standing(d) /\ Engaged(d)
  BY DEF OthersStay, AnswersInv
<1>2. TrueOf(input[d], answer[d])' /\ Traced(input[d], wrote[d])'
  <2>1. TrueOf(input[d], answer[d]) /\ Traced(input[d], wrote[d])
    BY <1>1 DEF Standing
  <2>2. ASSUME NEW in, NEW reply, NEW did, in = input[d], reply = answer[d], did = wrote[d]
        PROVE  TrueOf(in, reply)' /\ Traced(in, did)'
    BY <2>1, <2>2, StaysTrue, StaysTraced
  <2> QED BY <1>1, <2>2 DEF TrueOf, Traced
<1>3. Standing(d)'
  BY <1>1, <1>2 DEF Standing, Agrees
<1>4. InTheWay(d) \subseteq InTheWay(d)'
  <2>1. Wanted(d)' = Wanted(d)
    BY <1>1 DEF Wanted
  <2>2. \A row \in table : \E after \in table' : SameIntent(after, row)
    BY DEF Frozen
  <2> QED BY <2>1, <2>2 DEF InTheWay, SameIntent, Conflicts
<1>5. Engaged(d)'
  BY <1>1, <1>4 DEF Engaged, Locking
<1> QED BY <1>3, <1>5

\* A step of a call that writes nothing need only keep what its own call stands
\* for.
LEMMA CallStepKeeps ==
  ASSUME AnswersInv, Frozen, NEW c \in Calls, OthersStay(c), (Standing(c) /\ Engaged(c))',
         ~wrote'[c]
  PROVE  AnswersInv'
<1>1. \A d \in Calls : (Standing(d) /\ Engaged(d))'
  BY BystanderKeeps
<1>2. SingleWinner'
  BY DEF AnswersInv, SingleWinner, OthersStay
<1> QED BY <1>1, <1>2 DEF AnswersInv

\* A step that leaves the call under way need only keep its locking.
LEMMA UnderWayKeeps ==
  ASSUME AnswersInv, Frozen, NEW c \in Calls, OthersStay(c), pc[c] # "idle",
         UNCHANGED <<table, input, answer, wrote>>, Locking(c)',
         pc'[c] = "commit" /\ input[c].op = "request" =>
           draft'[c].requester_instance = input[c].caller
  PROVE  AnswersInv'
<1>1. answer[c] = NoAnswer /\ ~wrote[c] /\ Standing(c)
  BY DEF AnswersInv, Engaged
<1>2. Standing(c)'
  BY <1>1 DEF Standing, TrueOf, Agrees, Traced, RowsOf
<1>3. Engaged(c)'
  BY <1>1 DEF Engaged
<1> QED BY <1>1, <1>2, <1>3, CallStepKeeps

\* Ending a call without a commit need only be true of the table.
LEMMA ReturnKeeps ==
  ASSUME AnswersInv, Frozen, TypeOK, NEW c \in Calls, pc[c] # "idle", NEW reply, Return(c, reply),
         TrueOf(input[c], reply),
         reply.kind = "ok" => ~reply.created /\ input[c].op \notin Transitions
  PROVE  AnswersInv'
<1>1. ~wrote[c]
  BY DEF AnswersInv, Engaged
<1>2. /\ pc' = [pc EXCEPT ![c] = "idle"]
      /\ locks' = [id \in RequestIds |-> IF locks[id] = c THEN None ELSE locks[id]]
      /\ stamp' = [stamp EXCEPT ![c] = None]
      /\ todo' = [todo EXCEPT ![c] = {}]
      /\ draft' = [draft EXCEPT ![c] = None]
      /\ answer' = [answer EXCEPT ![c] = reply]
      /\ UNCHANGED <<table, input, wrote>>
  BY DEF Return, Finish, Released
<1>3. OthersStay(c)
  BY <1>2, StoreAssumption DEF OthersStay, Held, TypeOK
<1>4. Held(c)' = {}
  BY <1>2, StoreAssumption DEF Held
<1>5. Standing(c)'
  BY <1>1, <1>2 DEF Standing, TrueOf, Agrees, Traced, RowsOf, TypeOK
<1>6. Engaged(c)'
  BY <1>2, <1>4 DEF Engaged, Locking, TypeOK
<1> QED BY <1>1, <1>2, <1>3, <1>5, <1>6, CallStepKeeps

\* A failure is fit to return when what it says, if it says it, is true.
LEMMA FailKeeps ==
  ASSUME AnswersInv, Frozen, TypeOK, NEW c \in Calls, pc[c] # "idle", NEW failure,
         Fail(c, failure), failure \in {"RequestNotFound", "NotDue"} \/ TrueOf(input[c], Refused(failure))
  PROVE  AnswersInv'
<1>1. \/ Failure(input[c], failure) = Refused(failure)
      \/ Failure(input[c], failure) = Refused("InvalidRequest")
  BY DEF Failure
<1>2. /\ TrueOf(input[c], Refused("InvalidRequest"))
      /\ TrueOf(input[c], Refused("RequestNotFound"))
      /\ TrueOf(input[c], Refused("NotDue"))
  BY DEF TrueOf, Refused, Reply
<1>3. TrueOf(input[c], Failure(input[c], failure))
  BY <1>1, <1>2
<1>4. Failure(input[c], failure).kind = "refused"
  BY <1>1 DEF Refused, Reply
<1> QED BY <1>3, <1>4, ReturnKeeps DEF Fail

LEMMA OutageKeeps ==
  ASSUME AnswersInv, Frozen, TypeOK, NEW c \in Calls, pc[c] # "idle",
         NEW failure \in RuntimeFailures, Return(c, Unavailable(failure))
  PROVE  AnswersInv'
<1>1. /\ TrueOf(input[c], Unavailable(failure))
      /\ Unavailable(failure).kind = "unavailable"
  BY DEF TrueOf, Unavailable, Reply, RuntimeFailures
<1> QED BY <1>1, ReturnKeeps

-----------------------------------------------------------------------------
(* The steps of a call, before its commit *)

LEMMA InvokeKeeps ==
  ASSUME AnswersInv, IInv, Frozen, NEW c \in Calls, Invoke(c)
  PROVE  AnswersInv'
<1>1. PICK in \in Inputs, at \in Times :
        /\ pc[c] = "idle"
        /\ input' = [input EXCEPT ![c] = in]
        /\ wrote' = [wrote EXCEPT ![c] = FALSE]
        /\ \/ /\ \E reply \in {Refused("Forbidden"), Refused("InvalidRequest"),
                                Unavailable("OutOfRange")} :
                   answer' = [answer EXCEPT ![c] = reply]
              /\ UNCHANGED <<pc, stamp>>
           \/ /\ answer' = [answer EXCEPT ![c] = NoAnswer]
              /\ Goto(c, IF in.op = "read" THEN "select" ELSE "begin")
              /\ stamp' = [stamp EXCEPT ![c] = IF in.op = "request" THEN Normalize(at) ELSE None]
        /\ UNCHANGED <<table, locks, now, todo, draft>>
  BY DEF Invoke, Rejection
<1>2. TypeOK /\ Held(c) = {}
  BY <1>1 DEF IInv, AnswersInv, Engaged, Locking
<1>3. OthersStay(c) /\ Held(c)' = {} /\ ~wrote'[c]
  BY <1>1, <1>2 DEF OthersStay, Held, Goto, TypeOK
<1>4. Standing(c)'
  BY <1>1, <1>2 DEF Standing, TrueOf, Agrees, Traced, TypeOK, NoAnswer, Refused, Unavailable, Reply
<1>5. Engaged(c)'
  BY <1>1, <1>2, <1>3 DEF Engaged, Locking, Goto, TypeOK
<1> QED BY <1>3, <1>4, <1>5, CallStepKeeps

LEMMA BeginKeeps ==
  ASSUME AnswersInv, IInv, Frozen, NEW c \in Calls, Begin(c)
  PROVE  AnswersInv'
<1>1. TypeOK /\ Engaged(c) /\ pc[c] = "begin"
  BY DEF IInv, AnswersInv, Begin
<1>2. /\ pc' \in [Calls -> Steps] /\ pc'[c] \in {"insert", "lock"}
      /\ \A d \in Calls \ {c} : pc'[d] = pc[d] /\ stamp'[d] = stamp[d]
      /\ UNCHANGED <<table, locks, now, input, todo, draft, answer, wrote>>
  BY <1>1 DEF Begin, Goto, TypeOK, Steps
<1>3. OthersStay(c) /\ Held(c)' = {}
  BY <1>1, <1>2 DEF OthersStay, Held, Engaged, Locking
<1>4. Locking(c)'
  BY <1>2, <1>3 DEF Locking
<1> QED BY <1>1, <1>2, <1>3, <1>4, UnderWayKeeps

LEMMA SelectKeeps ==
  ASSUME AnswersInv, IInv, Frozen, NEW c \in Calls, Select(c)
  PROVE  AnswersInv'
<1>1. TypeOK /\ Serving(c) /\ pc[c] = "select" /\ input[c].op = "read"
  BY DEF IInv, Select, Serving
<1>2. CASE Fail(c, "RequestNotFound")
  BY <1>1, <1>2, FailKeeps
<1>3. ASSUME NEW row \in RowsOf(input[c].request_id), Readable(input[c], row),
             Return(c, Response(input[c], FALSE, row))
      PROVE  AnswersInv'
  <2>1. CASE Response(input[c], FALSE, row) = Reply("ok", "none", FALSE, row)
    <3>1. TrueOf(input[c], Reply("ok", "none", FALSE, row))
      BY <1>3 DEF TrueOf, Reply, Readable
    <3>2. ~Reply("ok", "none", FALSE, row).created
      BY DEF Reply
    <3> QED BY <1>1, <1>3, <2>1, <3>1, <3>2, ReturnKeeps DEF Transitions
  <2>2. CASE Response(input[c], FALSE, row) = Unavailable("InvalidTerminal")
    BY <1>1, <1>3, <2>2, OutageKeeps DEF RuntimeFailures
  <2> QED BY <2>1, <2>2 DEF Response
<1>4. CASE Return(c, Unavailable("InvalidEvidence"))
  BY <1>1, <1>4, OutageKeeps DEF IInv, RuntimeFailures
<1> QED BY <1>2, <1>3, <1>4 DEF Select, Decoded

\* Writing a row moves the call to its commit, or is an outage.
LEMMA WriteKeeps ==
  ASSUME AnswersInv, IInv, Frozen, NEW c \in Calls, pc[c] # "idle", NEW row, NEW held,
         Write(c, row, held),
         \A d \in Calls \ {c} : \A id \in RequestIds : held[id] = d <=> locks[id] = d,
         input[c].op = "request" => row.requester_instance = input[c].caller
  PROVE  AnswersInv'
<1>1. TypeOK
  BY DEF IInv
<1>2. CASE Return(c, Unavailable("InvalidEvidence"))
  BY <1>1, <1>2, OutageKeeps DEF RuntimeFailures
<1>3. CASE /\ Goto(c, "commit")
           /\ draft' = [draft EXCEPT ![c] = row]
           /\ locks' = held
           /\ UNCHANGED <<table, now, input, stamp, todo, answer, wrote>>
  <2>1. OthersStay(c) /\ pc'[c] = "commit" /\ draft'[c] = row
    BY <1>1, <1>3 DEF OthersStay, Held, Goto, TypeOK
  <2>2. Locking(c)'
    BY <2>1 DEF Locking
  <2> QED BY <1>3, <2>1, <2>2, UnderWayKeeps
<1> QED BY <1>2, <1>3 DEF Write

LEMMA InsertKeeps ==
  ASSUME AnswersInv, IInv, Frozen, NEW c \in Calls, Insert(c)
  PROVE  AnswersInv'
<1>1. TypeOK /\ Engaged(c) /\ pc[c] = "insert"
  BY DEF IInv, AnswersInv, Insert
<1>2. CASE /\ Goto(c, "resolve")
           /\ UNCHANGED <<table, locks, now, input, stamp, todo, draft, answer, wrote>>
  <2>1. OthersStay(c) /\ pc'[c] = "resolve" /\ Held(c)' = {}
    BY <1>1, <1>2 DEF OthersStay, Held, Goto, TypeOK, Engaged, Locking
  <2>2. Locking(c)'
    BY <2>1 DEF Locking
  <2> QED BY <1>1, <1>2, <2>1, <2>2, UnderWayKeeps
<1>3. CASE Write(c, Wanted(c), locks)
  BY <1>1, <1>3, WriteKeeps DEF Wanted, PendingApproval, IntentOf
<1> QED BY <1>2, <1>3 DEF Insert, Wanted

LEMMA ResolveKeeps ==
  ASSUME AnswersInv, IInv, Frozen, NEW c \in Calls, Resolve(c)
  PROVE  AnswersInv'
<1>1. TypeOK /\ Engaged(c) /\ pc[c] = "resolve"
  BY DEF IInv, AnswersInv, Resolve
<1>2. CASE Return(c, Unavailable("InconsistentIdempotency"))
  BY <1>1, <1>2, OutageKeeps DEF RuntimeFailures
<1>3. CASE /\ Goto(c, "gather")
           /\ todo' = [todo EXCEPT ![c] = InTheWay(c)]
           /\ UNCHANGED <<table, locks, now, input, stamp, draft, answer, wrote>>
  <2>1. OthersStay(c) /\ pc'[c] = "gather" /\ Held(c)' = {} /\ todo'[c] = InTheWay(c)
    BY <1>1, <1>3 DEF OthersStay, Held, Goto, TypeOK, Engaged, Locking
  <2>2. InTheWay(c)' = InTheWay(c)
    BY <1>3 DEF InTheWay, Wanted
  <2>3. Locking(c)'
    BY <2>1, <2>2 DEF Locking
  <2> QED BY <1>1, <1>3, <2>1, <2>3, UnderWayKeeps
<1> QED BY <1>2, <1>3 DEF Resolve, InTheWay, Wanted

LEMMA GatherKeeps ==
  ASSUME AnswersInv, IInv, Frozen, NEW c \in Calls, Gather(c)
  PROVE  AnswersInv'
<1>1. TypeOK /\ Engaged(c) /\ pc[c] = "gather"
  BY DEF IInv, AnswersInv, Gather
<1>2. PICK id \in todo[c] :
        /\ Free(id, c)
        /\ locks' = [locks EXCEPT ![id] = c]
        /\ todo' = [todo EXCEPT ![c] = @ \ {id}]
        /\ Goto(c, IF todo[c] = {id} THEN "compare" ELSE "gather")
        /\ UNCHANGED <<table, now, input, stamp, draft, answer, wrote>>
  BY DEF Gather
<1>3. id \in RequestIds
  BY <1>1 DEF TypeOK
<1>4. OthersStay(c) /\ Held(c)' = Held(c) \cup {id} /\ todo'[c] = todo[c] \ {id}
      /\ pc'[c] \in {"gather", "compare"}
  BY <1>1, <1>2, <1>3, StoreAssumption DEF OthersStay, Held, Free, Goto, TypeOK
<1>5. InTheWay(c)' = InTheWay(c)
  BY <1>2 DEF InTheWay, Wanted
<1>6. Locking(c)'
  BY <1>1, <1>4, <1>5 DEF Engaged, Locking
<1> QED BY <1>1, <1>2, <1>4, <1>6, UnderWayKeeps

\* Rows that are in the way, unless there is one and it is a replay, block the
\* request.
LEMMA CompareKeeps ==
  ASSUME AnswersInv, IInv, Frozen, NEW c \in Calls, Compare(c)
  PROVE  AnswersInv'
<1> DEFINE rows == {row \in table : row.request_id \in Held(c)}
           intent == IntentOf(input[c], stamp[c])
<1>1. /\ TypeOK /\ UniqueRows /\ pc[c] = "compare" /\ input[c].op = "request"
      /\ Held(c) # {} /\ Held(c) \subseteq InTheWay(c)
  BY DEF IInv, AnswersInv, Compare, Serving, Engaged, Locking
<1>2. \A row \in rows : Conflicts(row, Wanted(c))
  BY <1>1 DEF InTheWay, UniqueRows, Conflicts
<1>3. PICK first \in rows : TRUE
  BY <1>1 DEF InTheWay
<1>4. /\ Wanted(c).request_id = input[c].request_id
      /\ Wanted(c).requester_instance = input[c].caller
      /\ Wanted(c).idempotency_key = input[c].idempotency_key
      /\ intent.request_id = input[c].request_id
      /\ intent.requester_instance = input[c].caller
      /\ intent.idempotency_key = input[c].idempotency_key
      /\ intent.matter = input[c].matter
      /\ intent.expires_at = Normalize(input[c].expires_at)
  BY DEF Wanted, PendingApproval, IntentOf
<1>5. ASSUME NEW row \in table, BlocksRequest(input[c], row), Fail(c, "IdempotencyConflict")
      PROVE  AnswersInv'
  <2>1. TrueOf(input[c], Refused("IdempotencyConflict"))
    BY <1>5 DEF TrueOf, Refused, Reply
  <2> QED BY <1>1, <1>5, <2>1, FailKeeps
<1> HIDE DEF intent
<1>6. CASE (\A row \in rows : rows # {row}) /\ Fail(c, "IdempotencyConflict")
  <2>1. PICK second \in rows : second # first
    BY <1>3, <1>6
  <2>2. first.request_id # second.request_id
    BY <1>1, <2>1 DEF UniqueRows, Conflicts
  <2>3. BlocksRequest(input[c], first) \/ BlocksRequest(input[c], second)
    BY <1>2, <1>4, <2>2 DEF Conflicts, BlocksRequest
  <2> QED BY <1>5, <1>6, <2>3
<1>7. ASSUME NEW row \in rows, ~SameIntent(row, intent), Fail(c, "IdempotencyConflict")
      PROVE  AnswersInv'
  BY <1>2, <1>4, <1>5, <1>7 DEF SameIntent, Conflicts, BlocksRequest
<1>8. ASSUME NEW row \in rows, SameIntent(row, intent), Goto(c, "commit"),
             draft' = [draft EXCEPT ![c] = row],
             UNCHANGED <<table, locks, now, input, stamp, todo, answer, wrote>>
      PROVE  AnswersInv'
  <2>1. OthersStay(c) /\ pc'[c] = "commit" /\ draft'[c] = row
    BY <1>1, <1>8 DEF OthersStay, Held, Goto, TypeOK
  <2>2. Locking(c)'
    BY <2>1 DEF Locking
  <2> QED BY <1>1, <1>4, <1>8, <2>1, <2>2, UnderWayKeeps DEF SameIntent
<1>9. CASE Return(c, Unavailable("InvalidEvidence"))
  BY <1>1, <1>9, OutageKeeps DEF RuntimeFailures
<1> QED BY <1>6, <1>7, <1>8, <1>9 DEF Compare, Decoded, intent

LEMMA LockKeeps ==
  ASSUME AnswersInv, IInv, Frozen, NEW c \in Calls, Lock(c)
  PROVE  AnswersInv'
<1> DEFINE id == input[c].request_id
<1>1. TypeOK /\ pc[c] = "lock"
  BY DEF IInv, Lock
<1>2. CASE Fail(c, "RequestNotFound")
  BY <1>1, <1>2, FailKeeps
<1>3. CASE Return(c, Unavailable("InvalidEvidence"))
  BY <1>1, <1>3, OutageKeeps DEF RuntimeFailures
<1>4. ASSUME NEW row \in RowsOf(id), Free(id, c), Goto(c, "check"),
             locks' = [locks EXCEPT ![id] = c], draft' = [draft EXCEPT ![c] = row],
             UNCHANGED <<table, now, input, stamp, todo, answer, wrote>>
      PROVE  AnswersInv'
  <2>1. OthersStay(c) /\ pc'[c] = "check"
    BY <1>1, <1>4, StoreAssumption DEF OthersStay, Held, Free, Goto, TypeOK
  <2>2. Locking(c)'
    BY <2>1 DEF Locking
  <2> QED BY <1>1, <1>4, <2>1, <2>2, UnderWayKeeps
<1> QED BY <1>2, <1>3, <1>4 DEF Lock, Decoded

LEMMA CheckKeeps ==
  ASSUME AnswersInv, IInv, Frozen, NEW c \in Calls, Check(c)
  PROVE  AnswersInv'
<1>1. /\ TypeOK /\ pc[c] = "check"
      /\ draft[c] \in RowsOf(input[c].request_id)
  BY DEF IInv, Check, Transitioning, Ready, RowsOf
<1>2. CASE Foreign(input[c], draft[c]) /\ Fail(c, "NotRequester")
  <2>1. TrueOf(input[c], Refused("NotRequester"))
    BY <1>1, <1>2 DEF TrueOf, Refused, Reply, Foreign
  <2> QED BY <1>1, <1>2, <2>1, FailKeeps
<1>3. CASE ~IsPending(draft[c]) /\ Fail(c, "AlreadyTerminal")
  <2>1. TrueOf(input[c], Refused("AlreadyTerminal"))
    BY <1>1, <1>3 DEF TrueOf, Refused, Reply
  <2> QED BY <1>1, <1>3, <2>1, FailKeeps
<1>4. CASE /\ Goto(c, IF input[c].op = "expire" THEN "due" ELSE "update")
           /\ UNCHANGED <<table, locks, now, input, stamp, todo, draft, answer, wrote>>
  <2>1. OthersStay(c) /\ pc'[c] \in {"due", "update"}
    BY <1>1, <1>4 DEF OthersStay, Held, Goto, TypeOK
  <2>2. Locking(c)'
    BY <2>1 DEF Locking
  <2> QED BY <1>1, <1>4, <2>1, <2>2, UnderWayKeeps
<1> QED BY <1>2, <1>3, <1>4 DEF Check

LEMMA DueKeeps ==
  ASSUME AnswersInv, IInv, Frozen, NEW c \in Calls, Due(c)
  PROVE  AnswersInv'
<1>1. TypeOK /\ pc[c] = "due"
  BY DEF IInv, Due
<1>2. CASE Fail(c, "NotDue")
  BY <1>1, <1>2, FailKeeps
<1>3. CASE /\ Goto(c, "update")
           /\ UNCHANGED <<table, locks, now, input, stamp, todo, draft, answer, wrote>>
  <2>1. OthersStay(c) /\ pc'[c] = "update"
    BY <1>1, <1>3 DEF OthersStay, Held, Goto, TypeOK
  <2>2. Locking(c)'
    BY <2>1 DEF Locking
  <2> QED BY <1>1, <1>3, <2>1, <2>2, UnderWayKeeps
<1> QED BY <1>2, <1>3 DEF Due

LEMMA UpdateKeeps ==
  ASSUME AnswersInv, IInv, Frozen, NEW c \in Calls, Update(c)
  PROVE  AnswersInv'
<1> DEFINE id == input[c].request_id
           held == [locks EXCEPT ![id] = c]
<1>1. TypeOK /\ Serving(c) /\ pc[c] = "update" /\ Free(id, c) /\ input[c].op \in Transitions
  BY DEF IInv, Update, Serving
<1>2. \E row \in RowsOf(id) : Write(c, Terminated(row, input[c], stamp[c]), held)
  BY DEF Update
<1>3. \A d \in Calls \ {c} : \A other \in RequestIds : held[other] = d <=> locks[other] = d
  BY <1>1, StoreAssumption DEF Free, TypeOK
<1>4. pc[c] # "idle" /\ input[c].op # "request"
  BY <1>1 DEF Transitions
<1> HIDE DEF id, held
<1>5. ASSUME NEW after, Write(c, after, held) PROVE AnswersInv'
  BY <1>3, <1>4, <1>5, WriteKeeps
<1> QED BY <1>2, <1>5

-----------------------------------------------------------------------------
(* The commit *)

\* A transition's row was pending in the table, so the terminal one is new; a
\* request's is new unless the call replays it.
LEMMA Written ==
  ASSUME IInv, NEW c \in Calls, pc[c] = "commit"
  PROVE  /\ input[c].op \in Transitions \cup {"request"}
         /\ input[c].op = "request" /\ draft[c] \notin table =>
              /\ draft[c].request_id = input[c].request_id
              /\ RowsOf(input[c].request_id) = {}
         /\ input[c].op \in Transitions =>
              /\ draft[c] \notin table /\ ~IsPending(draft[c])
              /\ draft[c].request_id = input[c].request_id
              /\ \E row \in RowsOf(input[c].request_id) : IsPending(row)
              /\ input[c].caller \notin Deciders \cup Expirers =>
                   draft[c].requester_instance = input[c].caller
<1>1. /\ TypeOK /\ Serving(c) /\ Transitioning(c) /\ Requesting(c) /\ UniqueRows
      /\ input[c] \in Input
  BY ServiceAssumption DEF IInv, Serving
<1>2. input[c].op \in Transitions \cup {"request"}
  BY <1>1 DEF Serving, Input, Ops, Transitions
<1>3. CASE input[c].op = "request"
  BY <1>1, <1>2, <1>3 
     DEF Requesting, Replaying, Fresh, Conflicts, RowsOf, Wanted, PendingApproval, IntentOf,
         Transitions
<1>4. CASE input[c].op \in Transitions
  <2>1. PICK row \in table : Ready(c, row) /\ draft[c] = Terminated(row, input[c], stamp[c])
    BY <1>1, <1>4 DEF Transitioning
  <2>2. /\ row \in StoredApproval /\ TableCheck(row) /\ IsPending(row)
        /\ row.request_id = input[c].request_id
    BY <1>1, <2>1 DEF IInv, TypeOK, Ready
  <2>3. stamp[c] \in Times /\ input[c].caller \in Instances /\ input[c] \in Inputs
    <3>1. Allowed(input[c].op) \subseteq Instances
      BY <1>4, ServiceAssumption DEF Allowed, Transitions
    <3> QED BY <1>1, <1>4, <3>1 DEF Serving
  <2>4. SameIntent(draft[c], row) /\ ~IsPending(draft[c])
    BY <1>4, <2>1, <2>2, <2>3, TerminatedRow DEF Transitions, IsPending
  <2>5. draft[c] \notin table
    BY <1>1, <2>1, <2>2, <2>4 DEF UniqueRows, Conflicts, SameIntent
  <2>6. input[c].caller \notin Deciders \cup Expirers =>
          draft[c].requester_instance = input[c].caller
    <3>1. Allowed("decide") = Deciders /\ Allowed("expire") = Expirers
      BY DEF Allowed
    <3> QED BY <1>1, <1>4, <2>1, <2>4, <3>1
            DEF Serving, Ready, Foreign, SameIntent, Transitions
  <2> QED BY <1>2, <1>4, <2>1, <2>2, <2>4, <2>5, <2>6 DEF SameIntent, RowsOf, Transitions
<1> QED BY <1>2, <1>3, <1>4

LEMMA CommitKeeps ==
  ASSUME AnswersInv, IInv, Frozen, NEW c \in Calls, Commit(c)
  PROVE  AnswersInv'
<1> DEFINE new == draft[c]
           did == new \notin table
           reply == Reply("ok", "none", did /\ input[c].op = "request", new)
<1>1. /\ TypeOK /\ UniqueRows /\ pc[c] = "commit" /\ Engaged(c)
  BY DEF IInv, AnswersInv, Commit
<1>2. /\ table' = {other \in table : other.request_id # new.request_id} \cup {new}
      /\ wrote' = [wrote EXCEPT ![c] = did]
      /\ UNCHANGED <<now, input>>
  BY DEF Commit, Stored
<1>3. Finish(c, reply) \/ Finish(c, Unavailable("Database"))
  <2>1. Presentable(input[c], new)
    BY <1>1, Committed
  <2>2. Response(input[c], Uncommitted(c) /\ input[c].op = "request", new) = reply
    BY <1>1, <2>1 DEF Response, Uncommitted
  <2> QED BY <2>2 DEF Commit
<1>4. /\ input[c].op \in Transitions \cup {"request"}
      /\ did => new.request_id = input[c].request_id
      /\ input[c].op \in Transitions => did /\ ~IsPending(new)
      /\ input[c].caller \notin Deciders \cup Expirers => new.requester_instance = input[c].caller
  BY <1>1, Written DEF Engaged
<1>5. /\ pc' = [pc EXCEPT ![c] = "idle"]
      /\ locks' = [id \in RequestIds |-> IF locks[id] = c THEN None ELSE locks[id]]
      /\ stamp' = [stamp EXCEPT ![c] = None]
      /\ todo' = [todo EXCEPT ![c] = {}]
      /\ draft' = [draft EXCEPT ![c] = None]
      /\ answer' \in {[answer EXCEPT ![c] = reply], [answer EXCEPT ![c] = Unavailable("Database")]}
  BY <1>3 DEF Finish, Released
<1>6. OthersStay(c) /\ Held(c)' = {}
  BY <1>1, <1>2, <1>5, StoreAssumption DEF OthersStay, Held, TypeOK
<1>7. /\ wrote'[c] = did /\ pc'[c] = "idle" /\ input'[c] = input[c]
      /\ answer'[c] \in {reply, Unavailable("Database")}
  BY <1>1, <1>2, <1>5 DEF TypeOK
<1>8. Engaged(c)'
  BY <1>6, <1>7 DEF Engaged, Locking
<1>9. Standing(c)'
  <2>1. did => new \in RowsOf(input[c].request_id)'
    BY <1>2, <1>4 DEF RowsOf
  <2>2. Traced(input[c], wrote[c])'
    BY <1>2, <1>4, <1>7, <2>1 DEF Traced
  <2>3. /\ reply.kind = "ok" /\ reply.error = "none" /\ reply.approval = new
        /\ reply.created <=> did /\ input[c].op = "request"
        /\ Unavailable("Database").kind = "unavailable"
        /\ Unavailable("Database").error = "Database"
    BY DEF Reply, Unavailable
  <2> HIDE DEF reply
  <2>4. TrueOf(input[c], answer[c])'
    BY <1>4, <1>7, <2>3 DEF TrueOf
  <2>5. Agrees(input[c], answer[c], wrote[c])'
    BY <1>4, <1>7, <2>3 DEF Agrees, Transitions
  <2> QED BY <2>2, <2>4, <2>5 DEF Standing
<1>10. ASSUME NEW d \in Calls \ {c}, wrote'[c], wrote'[d],
              input'[c].request_id = input'[d].request_id
       PROVE  /\ input'[c].op \in Transitions \/ input'[d].op \in Transitions
              /\ "request" \in {input'[c].op, input'[d].op}
  <2>1. /\ did /\ wrote[d] /\ input'[d] = input[d]
        /\ input[c].request_id = input[d].request_id
        /\ Traced(input[d], wrote[d])
    BY <1>2, <1>6, <1>7, <1>10 DEF OthersStay, AnswersInv, Standing
  <2>2. input[c].op \in Transitions
    BY <1>1, <2>1, Written DEF Traced
  <2>3. input[d].op \notin Transitions
    BY <1>1, <2>1, <2>2, Written DEF Traced, RowsOf, UniqueRows, Conflicts
  <2> QED BY <1>7, <2>1, <2>2, <2>3 DEF Traced
<1>11. SingleWinner'
  <2>1. SingleWinner /\ \A d \in Calls \ {c} : wrote'[d] = wrote[d] /\ input'[d] = input[d]
    BY <1>6 DEF AnswersInv, OthersStay
  <2> QED BY <2>1, <1>10 DEF SingleWinner
<1>12. \A d \in Calls : (Standing(d) /\ Engaged(d))'
  BY <1>6, <1>8, <1>9, BystanderKeeps
<1> QED BY <1>11, <1>12 DEF AnswersInv

-----------------------------------------------------------------------------
(* The theorems *)

LEMMA AnswersKeep == AnswersInv /\ IInv /\ [Next]_vars => AnswersInv'
<1> SUFFICES ASSUME AnswersInv, IInv, [Next]_vars PROVE AnswersInv'
  OBVIOUS
<1>1. Frozen /\ TypeOK
  BY FrozenStep DEF IInv
<1>2. ASSUME NEW c \in Calls, Invoke(c) \/ Statement(c) PROVE AnswersInv'
  BY <1>1, <1>2, InvokeKeeps, BeginKeeps, SelectKeeps, InsertKeeps, ResolveKeeps, GatherKeeps,
     CompareKeeps, LockKeeps, CheckKeeps, DueKeeps, UpdateKeeps, CommitKeeps DEF Statement
<1>3. ASSUME NEW c \in Calls, Abort(c) \/ DeadlockVictim(c) PROVE AnswersInv'
  <2>1. pc[c] # "idle" /\ Return(c, Unavailable("Database"))
    BY <1>3 DEF Abort, DeadlockVictim, Deadlocked
  <2> QED BY <1>1, <2>1, OutageKeeps DEF RuntimeFailures
<1>4. CASE Tick \/ UNCHANGED vars
  <2>1. UNCHANGED <<table, locks, pc, input, stamp, todo, draft, answer, wrote>>
    BY <1>4 DEF Tick, vars
  <2> QED BY <2>1 DEF AnswersInv, SingleWinner, Standing, TrueOf, RowsOf, BlocksRequest, Agrees,
             Traced, Engaged, Locking, Held, InTheWay, Wanted
<1> QED BY <1>2, <1>3, <1>4 DEF Next

THEOREM AnswersInvariance == Spec => []AnswersInv
<1>1. Init => AnswersInv
  <2> SUFFICES ASSUME Init PROVE AnswersInv
    OBVIOUS
  <2>1. ASSUME NEW c \in Calls PROVE Standing(c) /\ Engaged(c)
    BY StoreAssumption
    DEF Init, Standing, TrueOf, Agrees, Traced, Engaged, Locking, Held, NoAnswer, Reply
  <2> QED BY <2>1 DEF Init, SingleWinner, AnswersInv
<1> QED BY <1>1, AnswersKeep, Invariance, PTL DEF Spec

\* Answers agree with what the call did.
THEOREM Honesty == Spec => []HonestAnswers
<1>1. AnswersInv => HonestAnswers
  BY DEF AnswersInv, Standing, Agrees, HonestAnswers
<1> QED BY <1>1, AnswersInvariance, PTL

\* One call creates a request, one call ends it.
THEOREM OneWinner == Spec => []SingleWinner
<1>1. AnswersInv => SingleWinner
  BY DEF AnswersInv
<1> QED BY <1>1, AnswersInvariance, PTL

\* Refusals are true, and stay true.
THEOREM RefusalsTrue == Spec => []TruthfulRefusals
<1>1. AnswersInv => TruthfulRefusals
  BY DEF AnswersInv, Standing, TrueOf, BlocksRequest, TruthfulRefusals
<1> QED BY <1>1, AnswersInvariance, PTL

\* A requester is shown no other requester's approval.
THEOREM Isolation == Spec => []RequesterIsolation
<1>1. AnswersInv => RequesterIsolation
  BY DEF AnswersInv, Standing, TrueOf, RequesterIsolation
<1> QED BY <1>1, AnswersInvariance, PTL

-----------------------------------------------------------------------------
(* Who can be in a deadlock *)

\* c waits for d to end: d's insert conflicts with the one c is to make, or d has
\* a lock that c is to take.
WaitsFor(c, d) ==
  \/ pc[c] = "insert" /\ Uncommitted(d) /\ Conflicts(draft[d], Wanted(c))
  \/ pc[c] = "gather" /\ \E id \in todo[c] : locks[id] = d
  \/ pc[c] \in {"lock", "update"} /\ locks[input[c].request_id] = d

\* A call that has not locked anything yet holds nothing, and one that locks rows
\* has some left to lock and has none of them already.
Queued(c) ==
  /\ pc[c] \in {"idle", "begin", "select", "insert", "resolve", "lock"} => Held(c) = {}
  /\ pc[c] = "gather" => todo[c] # {} /\ Held(c) \cap todo[c] = {}

QueuedAll == \A c \in Calls : Queued(c)

\* A cycle of waits, or several that meet, runs through requests that lock the
\* rows in their way (Gather) and through nothing else, so that to look for
\* deadlocks there, as Deadlocked does, is to look everywhere: no transition and
\* no insert is ever part of one.
CyclesAreOfRequests ==
  \A group \in SUBSET Calls :
    (\A c \in group : /\ \E d \in group \ {c} : WaitsFor(c, d)
                      /\ \E d \in group \ {c} : WaitsFor(d, c))
      => \A c \in group : pc[c] = "gather" /\ input[c].op = "request"

\* The step of one call touches no lock but its own.
LEMMA QueueLocal ==
  ASSUME QueuedAll, TypeOK, NEW c \in Calls, Queued(c)',
         \A d \in Calls \ {c} :
           pc'[d] = pc[d] /\ todo'[d] = todo[d] /\ Held(d)' = Held(d)
  PROVE  QueuedAll'
BY DEF QueuedAll, Queued

\* A transaction that ends gives its locks up.
LEMMA QueueFinish ==
  ASSUME QueuedAll, TypeOK, NEW c \in Calls, NEW reply, Finish(c, reply)
  PROVE  QueuedAll'
<1>1. pc'[c] = "idle" /\ Held(c)' = {}
  BY StoreAssumption DEF Finish, Released, Held, TypeOK
<1>2. \A d \in Calls \ {c} :
        pc'[d] = pc[d] /\ todo'[d] = todo[d] /\ Held(d)' = Held(d)
  BY StoreAssumption DEF Finish, Released, Held, TypeOK
<1> QED BY <1>1, <1>2, QueueLocal DEF Queued

LEMMA QueueStep == QueuedAll /\ IInv /\ [Next]_vars => QueuedAll'
<1> SUFFICES ASSUME QueuedAll, IInv, [Next]_vars PROVE QueuedAll'
  OBVIOUS
<1>1. TypeOK
  BY DEF IInv
<1>2. ASSUME NEW c \in Calls, NEW reply, Return(c, reply) PROVE QueuedAll'
  BY <1>1, <1>2, QueueFinish DEF Return
<1>3. ASSUME NEW c \in Calls, NEW failure, Fail(c, failure) PROVE QueuedAll'
  BY <1>2, <1>3 DEF Fail
\* The statements that go on without a lock, or with those they have.
<1>4. ASSUME NEW c \in Calls, UNCHANGED <<locks, todo>>, pc' = [pc EXCEPT ![c] = pc'[c]],
             \/ pc[c] \in {"idle", "begin"} /\ pc'[c] \in {"idle", "begin", "select", "insert", "lock"}
             \/ pc[c] = "insert" /\ pc'[c] = "resolve"
             \/ pc'[c] \in {"due", "update", "commit"}
      PROVE  QueuedAll'
  <2>1. \A d \in Calls \ {c} : pc'[d] = pc[d] /\ todo'[d] = todo[d] /\ Held(d)' = Held(d)
    BY <1>1, <1>4 DEF Held, TypeOK
  <2>2. Queued(c)'
    BY <1>4 DEF Queued, QueuedAll, Held
  <2> QED BY <1>1, <2>1, <2>2, QueueLocal
<1>5. ASSUME NEW c \in Calls, Invoke(c) \/ Begin(c) PROVE QueuedAll'
  <2>1. UNCHANGED <<locks, todo>> /\ pc' = [pc EXCEPT ![c] = pc'[c]]
    BY <1>1, <1>5 DEF Invoke, Begin, Goto, TypeOK
  <2>2. pc[c] \in {"idle", "begin"} /\ pc'[c] \in {"idle", "begin", "select", "insert", "lock"}
    BY <1>1, <1>5 DEF Invoke, Begin, Goto, TypeOK
  <2> QED BY <1>4, <2>1, <2>2
<1>6. ASSUME NEW c \in Calls, Select(c) \/ Abort(c) \/ DeadlockVictim(c) PROVE QueuedAll'
  BY <1>2, <1>3, <1>6 DEF Select, Decoded, Abort, DeadlockVictim
<1>7. ASSUME NEW c \in Calls, Insert(c) PROVE QueuedAll'
  <2>1. CASE Goto(c, "resolve") /\ UNCHANGED <<locks, todo>>
    BY <1>1, <1>4, <1>7, <2>1 DEF Insert, Goto, TypeOK
  <2>2. CASE Goto(c, "commit") /\ locks' = locks /\ UNCHANGED todo
    BY <1>1, <1>4, <2>2 DEF Goto, TypeOK
  <2> QED BY <1>2, <1>7, <2>1, <2>2 DEF Insert, Write
<1>8. ASSUME NEW c \in Calls, Resolve(c) PROVE QueuedAll'
  <2>1. ASSUME NEW ids, ids # {}, pc[c] = "resolve", Goto(c, "gather"),
               todo' = [todo EXCEPT ![c] = ids], UNCHANGED locks
        PROVE  QueuedAll'
    <3>1. Held(c)' = {}
      BY <2>1 DEF QueuedAll, Queued, Held
    <3>2. Queued(c)'
      BY <1>1, <2>1, <3>1 DEF Queued, Goto, TypeOK
    <3>3. \A d \in Calls \ {c} : pc'[d] = pc[d] /\ todo'[d] = todo[d] /\ Held(d)' = Held(d)
      BY <1>1, <2>1 DEF Goto, Held, TypeOK
    <3> QED BY <1>1, <3>2, <3>3, QueueLocal
  <2> QED BY <1>2, <1>8, <2>1 DEF Resolve
<1>9. ASSUME NEW c \in Calls, NEW id \in RequestIds, Free(id, c),
             locks' = [locks EXCEPT ![id] = c],
             \A d \in Calls \ {c} : pc'[d] = pc[d] /\ todo'[d] = todo[d],
             Queued(c)'
      PROVE  QueuedAll'
  <2>1. \A d \in Calls \ {c} : Held(d)' = Held(d)
    BY <1>1, <1>9, StoreAssumption DEF Free, Held, TypeOK
  <2> QED BY <1>1, <1>9, <2>1, QueueLocal
<1>10. ASSUME NEW c \in Calls, Gather(c) PROVE QueuedAll'
  <2>1. PICK id \in todo[c] :
          /\ Free(id, c)
          /\ locks' = [locks EXCEPT ![id] = c]
          /\ todo' = [todo EXCEPT ![c] = @ \ {id}]
          /\ Goto(c, IF todo[c] = {id} THEN "compare" ELSE "gather")
    BY <1>10 DEF Gather
  <2>2. id \in RequestIds /\ pc[c] = "gather" /\ Held(c) \cap todo[c] = {}
    BY <1>1, <1>10 DEF Gather, QueuedAll, Queued, TypeOK
  <2>3. Held(c)' = Held(c) \cup {id}
    BY <1>1, <2>1, <2>2 DEF Held, TypeOK
  <2>4. Queued(c)'
    BY <1>1, <2>1, <2>2, <2>3 DEF Queued, Goto, TypeOK
  <2>5. \A d \in Calls \ {c} : pc'[d] = pc[d] /\ todo'[d] = todo[d]
    BY <1>1, <2>1 DEF Goto, TypeOK
  <2> QED BY <1>9, <2>1, <2>2, <2>4, <2>5
<1>11. ASSUME NEW c \in Calls, Compare(c) PROVE QueuedAll'
  <2>1. CASE Goto(c, "commit") /\ UNCHANGED <<locks, todo>>
    BY <1>1, <1>4, <2>1 DEF Goto, TypeOK
  <2> QED BY <1>2, <1>3, <1>11, <2>1 DEF Compare, Decoded
<1>12. ASSUME NEW c \in Calls, NEW step \in {"check", "commit"}, NEW row,
              Free(input[c].request_id, c), input[c] \in Inputs, Goto(c, step),
              locks' = [locks EXCEPT ![input[c].request_id] = c], UNCHANGED todo
       PROVE  QueuedAll'
  <2>1. input[c].request_id \in RequestIds
    BY <1>12, ServiceAssumption DEF Input
  <2>2. Queued(c)' /\ \A d \in Calls \ {c} : pc'[d] = pc[d] /\ todo'[d] = todo[d]
    BY <1>1, <1>12 DEF Queued, Goto, TypeOK
  <2> QED BY <1>9, <1>12, <2>1, <2>2
<1>13. ASSUME NEW c \in Calls, Lock(c) \/ Update(c) PROVE QueuedAll'
  <2>1. input[c] \in Inputs
    BY <1>13 DEF IInv, Serving, Lock, Update
  <2> QED BY <1>2, <1>3, <1>12, <1>13, <2>1 DEF Lock, Update, Decoded, Write
<1>14. ASSUME NEW c \in Calls, Check(c) \/ Due(c) PROVE QueuedAll'
  <2>1. CASE (Goto(c, "due") \/ Goto(c, "update")) /\ UNCHANGED <<locks, todo>>
    BY <1>1, <1>4, <2>1 DEF Goto, TypeOK
  <2> QED BY <1>3, <1>14, <2>1 DEF Check, Due
<1>15. ASSUME NEW c \in Calls, Commit(c) PROVE QueuedAll'
  BY <1>1, <1>15, QueueFinish DEF Commit
<1>16. CASE Tick \/ UNCHANGED vars
  BY <1>16 DEF Tick, vars, QueuedAll, Queued, Held
<1> QED
  BY <1>5, <1>6, <1>7, <1>8, <1>10, <1>11, <1>13, <1>14, <1>15, <1>16 DEF Next, Statement

\* Locks are held and awaited in the order Queued says, in every behaviour.
THEOREM Queues == Spec => []QueuedAll
<1>1. Init => QueuedAll
  BY StoreAssumption DEF Init, QueuedAll, Queued, Held
<1> QED BY <1>1, QueueStep, Invariance, PTL DEF Spec

\* Only crossing requests ever deadlock.
THEOREM OnlyRequestsCross == Spec => []CyclesAreOfRequests
<1>1. IInv /\ QueuedAll => CyclesAreOfRequests
  <2> SUFFICES ASSUME IInv, QueuedAll, NEW group \in SUBSET Calls, NEW c \in group,
                      NEW d \in group \ {c}, WaitsFor(c, d),
                      NEW e \in group \ {c}, WaitsFor(e, c)
               PROVE  pc[c] = "gather" /\ input[c].op = "request"
    BY DEF CyclesAreOfRequests
  <2>1. pc[c] \in {"insert", "gather", "lock", "update"}
    BY DEF WaitsFor
  <2>2. pc[c] # "update"
    <3> SUFFICES ASSUME pc[c] = "update" PROVE FALSE
      OBVIOUS
    <3>1. Ready(c, draft[c])
      BY DEF IInv, Transitioning
    <3> QED BY <3>1 DEF Ready, WaitsFor
  <2>3. Uncommitted(c) \/ \E id \in RequestIds : locks[id] = c
    <3>1. TypeOK /\ (pc[e] # "idle" => input[e] \in Inputs)
      BY DEF IInv, Serving
    <3>2. input[e] \in Inputs => input[e].request_id \in RequestIds
      BY ServiceAssumption DEF Input
    <3> QED BY <3>1, <3>2 DEF WaitsFor, TypeOK
  <2>4. pc[c] = "gather"
    BY <2>1, <2>2, <2>3 DEF Uncommitted, Held, QueuedAll, Queued
  <2> QED BY <2>4 DEF IInv, Serving
<1> QED BY <1>1, Queues, Invariance, PTL
=============================================================================
