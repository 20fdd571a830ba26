--------------------------- MODULE PostgresStore ---------------------------
(***************************************************************************)
(* The five operations served from PostgreSQL, one statement a step:       *)
(* lenso-business-approval-postgres-plugin/src/storage.rs behind           *)
(* ApprovalService.  Every pooled connection, of any process on the same   *)
(* schema, is a call slot; a retry is a new call with the same input.      *)
(*                                                                         *)
(* Of PostgreSQL it uses READ COMMITTED statements, row locks held to the  *)
(* end of the transaction, inserts that wait for a conflicting insert in   *)
(* flight, and a deadlock detector.  A call can fail at every statement    *)
(* (connection lost, caller cancelled, pool closed), which rolls back, and *)
(* a commit's reply can be lost after it took effect.                      *)
(***************************************************************************)
EXTENDS ApprovalService

CONSTANTS
  Calls,   \* call slots
  Skew     \* how far the service's clock may be from the database's

ASSUME StoreAssumption == Skew \in Nat /\ None \notin Calls

VARIABLES
  table,   \* the committed rows of business_approval_requests
  locks,   \* the call holding each row's lock
  now,     \* the database's clock
  pc,      \* the next statement of each call
  input,   \* each call's input
  stamp,   \* requested_at of a request, transaction_timestamp() of a transition;
           \* None before it is read
  todo,    \* ids of the rows a SELECT ... FOR UPDATE matched and has yet to lock
  draft,   \* the row a call decoded or wrote, and will answer with
  answer,  \* each call's latest answer
  wrote    \* history: the call's commit changed the table

vars == <<table, locks, now, pc, input, stamp, todo, draft, answer, wrote>>

Steps == {"idle", "begin", "insert", "resolve", "gather", "compare",
          "lock", "check", "due", "update", "commit", "select"}

TypeOK ==
  /\ table \subseteq StoredApproval
  /\ locks \in [RequestIds -> Calls \cup {None}]
  /\ now \in Times
  /\ pc \in [Calls -> Steps]
  /\ input \in [Calls -> Inputs \cup {None}]
  /\ stamp \in [Calls -> Times \cup {None}]
  /\ todo \in [Calls -> SUBSET RequestIds]
  /\ draft \in [Calls -> StoredApproval \cup {None}]
  /\ answer \in [Calls -> Answers]
  /\ wrote \in [Calls -> BOOLEAN]

-----------------------------------------------------------------------------
(* Statements *)

RowsOf(id) == {row \in table : row.request_id = id}

\* An UPDATE by primary key, or the insert of a row whose id is new.
Stored(row) == {other \in table : other.request_id # row.request_id} \cup {row}

Held(c) == {id \in RequestIds : locks[id] = c}

\* A row lock is granted when nobody else has it.
Free(id, c) == locks[id] \in {None, c}

\* The call has written a row version it has not committed.
Uncommitted(c) == pc[c] = "commit" /\ draft[c] \notin table

\* Fault: an ended transaction keeps its locks.
ReleasedNever(c) == locks

\* Ending a transaction, by commit or rollback, drops its locks.
Released(c) == [id \in RequestIds |-> IF locks[id] = c THEN None ELSE locks[id]]

\* The handler returns `reply' and its transaction, if any, is over.
Finish(c, reply) ==
  /\ pc' = [pc EXCEPT ![c] = "idle"]
  /\ locks' = Released(c)
  /\ stamp' = [stamp EXCEPT ![c] = None]
  /\ todo' = [todo EXCEPT ![c] = {}]
  /\ draft' = [draft EXCEPT ![c] = None]
  /\ answer' = [answer EXCEPT ![c] = reply]

\* Finishing without a commit.
Return(c, reply) ==
  /\ Finish(c, reply)
  /\ UNCHANGED <<table, now, input, wrote>>

Fail(c, failure) == Return(c, Failure(input[c], failure))

Goto(c, step) == pc' = [pc EXCEPT ![c] = step]

\* decode_approval refuses a row whose evidence does not fit its status.
Decoded(c, row, next) ==
  IF ValidEvidence(row) THEN next ELSE Return(c, Unavailable("InvalidEvidence"))

\* An INSERT or UPDATE ... RETURNING, refused by the table's CHECK constraints.
Write(c, row, held) ==
  IF TableCheck(row)
  THEN /\ Goto(c, "commit")
       /\ draft' = [draft EXCEPT ![c] = row]
       /\ locks' = held
       /\ UNCHANGED <<table, now, input, stamp, todo, answer, wrote>>
  ELSE Return(c, Unavailable("InvalidEvidence"))

-----------------------------------------------------------------------------
(* Calls *)

\* A call arrives at a service whose clock reads `at'.  Admission answers it
\* outright or lets it through to the store.
Invoke(c) ==
  \E in \in Inputs, at \in Times :
    /\ pc[c] = "idle"
    /\ now - Skew <= at /\ at <= now + Skew
    /\ input' = [input EXCEPT ![c] = in]
    /\ wrote' = [wrote EXCEPT ![c] = FALSE]
    /\ \/ /\ ~Admitted(in, at)
          /\ answer' = [answer EXCEPT ![c] = Rejection(in)]
          /\ UNCHANGED <<pc, stamp>>
       \/ /\ Admitted(in, at)
          /\ answer' = [answer EXCEPT ![c] = NoAnswer]
          /\ Goto(c, IF in.op = "read" THEN "select" ELSE "begin")
          /\ stamp' = [stamp EXCEPT ![c] = IF in.op = "request" THEN Normalize(at) ELSE None]
    /\ UNCHANGED <<table, locks, now, todo, draft>>

\* BEGIN fixes transaction_timestamp(), however long the transaction then waits.
Begin(c) ==
  /\ pc[c] = "begin"
  /\ IF input[c].op = "request"
     THEN Goto(c, "insert") /\ UNCHANGED stamp
     ELSE Goto(c, "lock") /\ stamp' = [stamp EXCEPT ![c] = Normalize(now)]
  /\ UNCHANGED <<table, locks, now, input, todo, draft, answer, wrote>>

\* read: one SELECT, with the requester constraint in its WHERE clause.
Select(c) ==
  LET rows == {row \in RowsOf(input[c].request_id) : Readable(input[c], row)}
  IN  /\ pc[c] = "select"
      /\ \/ rows = {} /\ Fail(c, "RequestNotFound")
         \/ \E row \in rows : Decoded(c, row, Return(c, Response(input[c], FALSE, row)))

-----------------------------------------------------------------------------
(* request *)

\* Fault: INSERT ... ON CONFLICT (request_id) DO UPDATE, with no other conflict.
InsertUpsert(c) ==
  /\ pc[c] = "insert"
  /\ Write(c, PendingApproval(IntentOf(input[c], stamp[c])), locks)

\* INSERT ... ON CONFLICT DO NOTHING waits out a conflicting write in flight.
Insert(c) ==
  LET row == PendingApproval(IntentOf(input[c], stamp[c]))
      conflict == \E other \in table : Conflicts(other, row)
  IN  /\ pc[c] = "insert"
      /\ \A d \in Calls : Uncommitted(d) => ~Conflicts(draft[d], row)
      /\ \/ /\ conflict
            /\ Goto(c, "resolve")
            /\ UNCHANGED <<table, locks, now, input, stamp, todo, draft, answer, wrote>>
         \/ ~conflict /\ Write(c, row, locks)

\* SELECT ... WHERE (requester and key) OR id FOR UPDATE: the rows it will lock.
Resolve(c) ==
  LET row == PendingApproval(IntentOf(input[c], stamp[c]))
      ids == {other.request_id : other \in {r \in table : Conflicts(r, row)}}
  IN  /\ pc[c] = "resolve"
      /\ IF ids = {}
         THEN Return(c, Unavailable("InconsistentIdempotency"))
         ELSE /\ Goto(c, "gather")
              /\ todo' = [todo EXCEPT ![c] = ids]
              /\ UNCHANGED <<table, locks, now, input, stamp, draft, answer, wrote>>

\* It locks them one by one; with no ORDER BY the plan chooses the order.
Gather(c) ==
  /\ pc[c] = "gather"
  /\ \E id \in todo[c] :
       /\ Free(id, c)
       /\ locks' = [locks EXCEPT ![id] = c]
       /\ todo' = [todo EXCEPT ![c] = @ \ {id}]
       /\ Goto(c, IF todo[c] = {id} THEN "compare" ELSE "gather")
  /\ UNCHANGED <<table, now, input, stamp, draft, answer, wrote>>

\* Exactly one row, of the same intent, makes the request a replay.
Compare(c) ==
  LET rows == {row \in table : row.request_id \in Held(c)}
      replay(row) == SameIntent(row, IntentOf(input[c], stamp[c]))
  IN  /\ pc[c] = "compare"
      /\ \/ (\A row \in rows : rows # {row}) /\ Fail(c, "IdempotencyConflict")
         \/ \E row \in rows :
              /\ rows = {row}
              /\ Decoded(c, row,
                   \/ ~replay(row) /\ Fail(c, "IdempotencyConflict")
                   \/ /\ replay(row)
                      /\ Goto(c, "commit")
                      /\ draft' = [draft EXCEPT ![c] = row]
                      /\ UNCHANGED <<table, locks, now, input, stamp, todo, answer, wrote>>)

-----------------------------------------------------------------------------
(* decide, cancel and expire *)

\* Fault: lock_request without FOR UPDATE.
LockShared(c) ==
  /\ pc[c] = "lock"
  /\ \/ RowsOf(input[c].request_id) = {} /\ Fail(c, "RequestNotFound")
     \/ \E row \in RowsOf(input[c].request_id) :
          /\ Goto(c, "check")
          /\ draft' = [draft EXCEPT ![c] = row]
          /\ UNCHANGED <<table, locks, now, input, stamp, todo, answer, wrote>>

\* lock_request: SELECT ... FOR UPDATE returns the row as committed once the
\* lock is granted.
Lock(c) ==
  LET id == input[c].request_id
  IN  /\ pc[c] = "lock"
      /\ \/ RowsOf(id) = {} /\ Fail(c, "RequestNotFound")
         \/ \E row \in RowsOf(id) :
              /\ Free(id, c)
              /\ Decoded(c, row,
                   /\ Goto(c, "check")
                   /\ locks' = [locks EXCEPT ![id] = c]
                   /\ draft' = [draft EXCEPT ![c] = row]
                   /\ UNCHANGED <<table, now, input, stamp, todo, answer, wrote>>)

\* Fault: the status of the locked row is not looked at.
CheckRequesterOnly(c) ==
  /\ pc[c] = "check"
  /\ \/ Foreign(input[c], draft[c]) /\ Fail(c, "NotRequester")
     \/ /\ ~Foreign(input[c], draft[c])
        /\ Goto(c, IF input[c].op = "expire" THEN "due" ELSE "update")
        /\ UNCHANGED <<table, locks, now, input, stamp, todo, draft, answer, wrote>>

\* Fault: the status is looked at before the requester.
CheckStatusFirst(c) ==
  /\ pc[c] = "check"
  /\ \/ ~IsPending(draft[c]) /\ Fail(c, "AlreadyTerminal")
     \/ IsPending(draft[c]) /\ Foreign(input[c], draft[c]) /\ Fail(c, "NotRequester")
     \/ /\ IsPending(draft[c]) /\ ~Foreign(input[c], draft[c])
        /\ Goto(c, IF input[c].op = "expire" THEN "due" ELSE "update")
        /\ UNCHANGED <<table, locks, now, input, stamp, todo, draft, answer, wrote>>

\* The early returns on the row just locked; each rolls back.
Check(c) ==
  /\ pc[c] = "check"
  /\ \/ Foreign(input[c], draft[c]) /\ Fail(c, "NotRequester")
     \/ /\ ~Foreign(input[c], draft[c]) /\ ~IsPending(draft[c])
        /\ Fail(c, "AlreadyTerminal")
     \/ /\ ~Foreign(input[c], draft[c]) /\ IsPending(draft[c])
        /\ Goto(c, IF input[c].op = "expire" THEN "due" ELSE "update")
        /\ UNCHANGED <<table, locks, now, input, stamp, todo, draft, answer, wrote>>

\* SELECT expires_at <= transaction_timestamp().
Due(c) ==
  /\ pc[c] = "due"
  /\ \E row \in RowsOf(input[c].request_id) :
       \/ /\ IsDue(row, stamp[c])
          /\ Goto(c, "update")
          /\ UNCHANGED <<table, locks, now, input, stamp, todo, draft, answer, wrote>>
       \/ ~IsDue(row, stamp[c]) /\ Fail(c, "NotDue")

\* UPDATE ... RETURNING by primary key alone; it does not look at the status.
Update(c) ==
  LET id == input[c].request_id
  IN  /\ pc[c] = "update"
      /\ Free(id, c)
      /\ \E row \in RowsOf(id) :
           Write(c, Terminated(row, input[c], stamp[c]), [locks EXCEPT ![id] = c])

-----------------------------------------------------------------------------
(* Endings *)

\* Fault: the handler answers and drops its transaction uncommitted.
CommitForgotten(c) ==
  /\ pc[c] = "commit"
  /\ Return(c, Response(input[c], Uncommitted(c) /\ input[c].op = "request", draft[c]))

\* COMMIT, and the answer unless its reply is lost.  A replay commits no change.
Commit(c) ==
  /\ pc[c] = "commit"
  /\ table' = Stored(draft[c])
  /\ wrote' = [wrote EXCEPT ![c] = draft[c] \notin table]
  /\ \/ Finish(c, Response(input[c], Uncommitted(c) /\ input[c].op = "request", draft[c]))
     \/ Finish(c, Unavailable("Database"))
  /\ UNCHANGED <<now, input>>

\* No connection, a failed statement, or a caller that stopped waiting.
Abort(c) == pc[c] # "idle" /\ Return(c, Unavailable("Database"))

\* A set of calls each waiting for a row another of them holds.
Deadlocked(group) ==
  \A c \in group :
    /\ pc[c] = "gather"
    /\ \A id \in todo[c] : locks[id] \in group \ {c}

\* PostgreSQL cancels a member of such a set.
DeadlockVictim(c) ==
  /\ \E group \in SUBSET Calls : c \in group /\ Deadlocked(group)
  /\ Return(c, Unavailable("Database"))

Tick ==
  /\ now + Resolution <= MaxTime
  /\ now' = now + Resolution
  /\ UNCHANGED <<table, locks, pc, input, stamp, todo, draft, answer, wrote>>

Init ==
  /\ table = {}
  /\ locks = [id \in RequestIds |-> None]
  /\ now = 0
  /\ pc = [c \in Calls |-> "idle"]
  /\ input = [c \in Calls |-> None]
  /\ stamp = [c \in Calls |-> None]
  /\ todo = [c \in Calls |-> {}]
  /\ draft = [c \in Calls |-> None]
  /\ answer = [c \in Calls |-> NoAnswer]
  /\ wrote = [c \in Calls |-> FALSE]

Statement(c) ==
  \/ Begin(c) \/ Select(c) \/ Insert(c) \/ Resolve(c) \/ Gather(c) \/ Compare(c)
  \/ Lock(c) \/ Check(c) \/ Due(c) \/ Update(c) \/ Commit(c)

Next ==
  \/ \E c \in Calls : Invoke(c) \/ Statement(c) \/ Abort(c) \/ DeadlockVictim(c)
  \/ Tick

Spec == Init /\ [][Next]_vars

(***************************************************************************)
(* Fairness: the server runs every statement it can run, grants a waiting  *)
(* transaction its lock in turn (its wait queues are FIFO), and breaks     *)
(* every deadlock.  Nothing makes a caller call, or a call fail.           *)
(***************************************************************************)
FairSpec ==
  /\ Spec
  /\ \A c \in Calls : SF_vars(Statement(c))
  /\ WF_vars(\E c \in Calls : DeadlockVictim(c))

-----------------------------------------------------------------------------
(* Properties *)

Transitions == {"decide", "cancel", "expire"}

\* Rows that hold a key: neither a request id nor a requester's idempotency key
\* ever names two rows, whatever requests raced to insert.
UniqueRows == \A a, b \in table : Conflicts(a, b) => a = b

\* Who ended a request: a decision comes from a decider, a cancellation from the
\* very instance that asked, an expiry from an expirer, all of them on a row a
\* permitted requester created.
TerminalAuthority ==
  \A row \in table :
    /\ row.requester_instance \in Requesters
    /\ row.status \in {"approved", "rejected"} => row.terminal_caller_instance \in Deciders
    /\ row.status = "cancelled" => row.terminal_caller_instance = row.requester_instance
    /\ row.status = "expired" => row.terminal_caller_instance \in Expirers

\* A request expires no earlier than its deadline by the database's clock, even
\* though the deadline was accepted by the service's clock and the transaction
\* time was taken before the wait for the row.
ExpiredAfterDeadline ==
  \A row \in table :
    /\ row.requested_at < row.expires_at
    /\ row.status = "expired" => row.expires_at <= row.terminal_at /\ row.terminal_at <= now

\* A row once committed is there for good, its intent never changes, and once it
\* is terminal nothing of it changes: no racing decide, cancel, expire or
\* request overwrites an earlier outcome.
TerminalFrozen ==
  [][\A row \in table :
       \E after \in table' :
         /\ SameIntent(after, row) /\ after.requested_at = row.requested_at
         /\ after = row \/ IsPending(row)]_vars

\* An answer agrees with what the call did: a success of decide, cancel or
\* expire, or a creation, means its own commit wrote the row it shows; a
\* refusal, a read or a replay means it wrote nothing.
HonestAnswers ==
  \A c \in Calls :
    LET reply == answer[c]
    IN  /\ reply.kind = "refused" => ~wrote[c]
        /\ reply.kind = "ok" =>
             wrote[c] <=> (reply.created \/ input[c].op \in Transitions)

\* However calls race, a request is created by one call and ended by one call.
SingleWinner ==
  \A c, d \in Calls :
    c # d /\ wrote[c] /\ wrote[d] /\ input[c].request_id = input[d].request_id
      => {input[c].op, input[d].op} \cap Transitions # {}
         /\ "request" \in {input[c].op, input[d].op}

\* A refusal is true of the table from then on: the terminal row, the other
\* requester's row or the row in the way of the request is really there.
TruthfulRefusals ==
  \A c \in Calls :
    LET in == input[c]
        named == RowsOf(in.request_id)
    IN  /\ answer[c].error = "AlreadyTerminal" => \E row \in named : ~IsPending(row)
        /\ answer[c].error = "NotRequester" =>
             \E row \in named : row.requester_instance # in.caller
        /\ answer[c].error = "IdempotencyConflict" =>
             \E row \in table :
               /\ \/ row.request_id = in.request_id
                  \/ row.requester_instance = in.caller
                     /\ row.idempotency_key = in.idempotency_key
               /\ \/ row.request_id # in.request_id
                  \/ row.requester_instance # in.caller
                  \/ row.idempotency_key # in.idempotency_key
                  \/ row.matter # in.matter
                  \/ row.expires_at # Normalize(in.expires_at)

\* An instance that may only request is never shown another instance's request,
\* through any operation.
RequesterIsolation ==
  \A c \in Calls :
    answer[c].kind = "ok" /\ input[c].caller \notin Deciders \cup Expirers
      => answer[c].approval.requester_instance = input[c].caller

\* A call fails only for an outage, or for a deadline no timestamp holds: no row
\* the operations write or meet trips the table's CHECKs, the evidence checks, the
\* missing-row branch of a replay or the checks of a response.
DefencesIdle ==
  \A c \in Calls :
    answer[c].kind = "unavailable" => Expected(input[c], answer[c].error)

\* Every call is answered, also when crossing requests deadlock on two rows.
Answered == \A c \in Calls : pc[c] # "idle" ~> pc[c] = "idle"

\* A transaction has one clock reading, fixed by its server, for both uses.
Ledger ==
  INSTANCE ApprovalLedger WITH
    Drift <- 0,
    busy <- {c \in Calls : pc[c] # "idle"},
    due <- [c \in Calls |->
              IF input[c] # None /\ input[c].op = "request" THEN None ELSE stamp[c]]

\* Every call takes effect at one instant between its arrival and its answer:
\* the statements, locks and waits implement the atomic ledger.
ImplementsLedger == Ledger!LedgerSpec

\* What the documentation says of retries (README.md): an identical request is
\* never refused once its row is stored.  The service compares the deadline with
\* its clock before it asks the store, so a late retry is.
IdenticalRetryAnswered ==
  [][\A c \in Calls :
       LET refusal == /\ answer'[c].kind = "refused"
                      /\ <<input'[c], answer'[c]>> # <<input[c], answer[c]>>
           retry == /\ input'[c].op = "request" /\ input'[c].well_formed
                    /\ \E row \in table : SameIntent(row, IntentOf(input'[c], now))
       IN  ~(refusal /\ retry)]_vars

\* What docs/management-security.md says of decisions, "decision-time expiry":
\* one is taken before the deadline.  decide never reads expires_at.
DecidedInTime ==
  \A row \in table :
    row.status \in {"approved", "rejected"} => row.terminal_at < row.expires_at

-----------------------------------------------------------------------------
(* The inductive invariant *)

\* The row a request inserts or looks for.
Wanted(c) == PendingApproval(IntentOf(input[c], stamp[c]))

\* Each call under way carries an admitted input, is where its operation takes
\* it, and once it has read the time it acts at that time is not in the future.
Serving(c) ==
  pc[c] # "idle" =>
    /\ input[c] \in Inputs
    /\ input[c].caller \in Allowed(input[c].op)
    /\ pc[c] = "select" <=> input[c].op = "read"
    /\ pc[c] \in {"insert", "resolve", "gather", "compare"} => input[c].op = "request"
    /\ pc[c] \in {"lock", "check", "due", "update"} => input[c].op \in Transitions
    /\ ~Unrepresentable(input[c])
    /\ input[c].op = "request" =>
         stamp[c] \in Times /\ stamp[c] < Normalize(input[c].expires_at)
    /\ input[c].op \in Transitions /\ pc[c] # "begin" =>
         stamp[c] \in Times /\ stamp[c] <= now

\* A transition past its lock holds the stored row it decoded: nobody else has
\* the lock, the row is pending once checked, and due once the deadline is.
Ready(c, row) ==
  /\ row \in table
  /\ row.request_id = input[c].request_id
  /\ locks[row.request_id] = c
  /\ pc[c] # "check" => IsPending(row) /\ ~Foreign(input[c], row)
  /\ pc[c] \in {"update", "commit"} /\ input[c].op = "expire" => IsDue(row, stamp[c])

Transitioning(c) ==
  /\ pc[c] \in {"check", "due", "update"} => Ready(c, draft[c])
  /\ pc[c] = "commit" /\ input[c].op \in Transitions =>
       \E row \in table : Ready(c, row) /\ draft[c] = Terminated(row, input[c], stamp[c])

\* A request in doubt has a stored row in its way.  At its commit it holds the
\* stored row of its own intent, or has written one that no stored row and no
\* other insert in flight conflicts with.
Fresh(c) ==
  /\ draft[c] = Wanted(c)
  /\ \A row \in table : ~Conflicts(row, draft[c])

Replaying(c) ==
  /\ draft[c] \in table
  /\ locks[draft[c].request_id] = c

Requesting(c) ==
  /\ pc[c] = "resolve" => \E row \in table : Conflicts(row, Wanted(c))
  /\ pc[c] = "commit" /\ input[c].op = "request" => Replaying(c) \/ Fresh(c)

Inserted(c) == pc[c] = "commit" /\ input[c].op = "request" /\ draft[c] \notin table

InsertsDisjoint ==
  \A c, d \in Calls :
    c # d /\ Inserted(c) /\ Inserted(d) => ~Conflicts(draft[c], draft[d])

IInv ==
  /\ TypeOK
  /\ \A c \in Calls : Serving(c) /\ Transitioning(c) /\ Requesting(c)
  /\ InsertsDisjoint
  /\ \A row \in table : TableCheck(row)
  /\ UniqueRows /\ TerminalAuthority /\ ExpiredAfterDeadline
  /\ DefencesIdle
=============================================================================
