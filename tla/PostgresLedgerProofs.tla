------------------------ MODULE PostgresLedgerProofs ------------------------
(***************************************************************************)
(* PostgresStore implements ApprovalLedger, for every set of calls, ids,   *)
(* keys, inputs and times: the statement that answers a call, a COMMIT or  *)
(* one that finds a reason to roll back, is the instant at which the call  *)
(* takes effect; BEGIN reads the clock; every other statement is unseen.   *)
(***************************************************************************)
EXTENDS PostgresStoreProofs

\* The ledger speaks of the same service.
LEMMA SameService ==
  /\ Ledger!Times = Times
  /\ \A t : Ledger!Normalize(t) = Normalize(t)
  /\ \A in : Ledger!Forbidden(in) = Forbidden(in)
  /\ \A in, at : Ledger!Admitted(in, at) = Admitted(in, at)
  /\ \A in : Ledger!Unrepresentable(in) = Unrepresentable(in)
  /\ \A in, at : Ledger!IntentOf(in, at) = IntentOf(in, at)
  /\ \A in, row : Ledger!Readable(in, row) = Readable(in, row)
  /\ \A in, row : Ledger!Foreign(in, row) = Foreign(in, row)
  /\ \A row, at : Ledger!IsDue(row, at) = IsDue(row, at)
  /\ \A row, in, at : Ledger!Terminated(row, in, at) = Terminated(row, in, at)
<1> USE DEF Ledger!Times, Times, Ledger!Normalize, Normalize
<1>1. \A in : Ledger!Allowed(in.op) = Allowed(in.op)
  BY DEF Ledger!Allowed, Allowed
<1>2. \A in : Ledger!Forbidden(in) = Forbidden(in)
  BY <1>1 DEF Ledger!Forbidden, Forbidden
<1>7. \A in : Ledger!Unrepresentable(in) = Unrepresentable(in)
  BY DEF Ledger!Unrepresentable, Unrepresentable
<1>3. \A in, at : Ledger!Admitted(in, at) = Admitted(in, at)
  BY <1>2, <1>7 DEF Ledger!Admitted, Admitted, Ledger!InvalidRequest, InvalidRequest
<1>4. \A in, at : Ledger!IntentOf(in, at) = IntentOf(in, at)
  BY DEF Ledger!IntentOf, IntentOf
<1>5. /\ \A in, row : Ledger!Readable(in, row) = Readable(in, row)
      /\ \A in, row : Ledger!Foreign(in, row) = Foreign(in, row)
      /\ \A row, at : Ledger!IsDue(row, at) = IsDue(row, at)
  BY DEF Ledger!Readable, Readable, Ledger!Foreign, Foreign, Ledger!IsDue, IsDue
<1>6. \A row, in, at : Ledger!Terminated(row, in, at) = Terminated(row, in, at)
  BY DEF Ledger!Terminated, Terminated
<1> QED BY <1>2, <1>3, <1>4, <1>5, <1>6, <1>7

LEMMA SameRowTerms ==
  /\ \A row : Ledger!IsPending(row) = IsPending(row)
  /\ \A intent : Ledger!PendingApproval(intent) = PendingApproval(intent)
  /\ \A a, b : Ledger!Conflicts(a, b) = Conflicts(a, b)
  /\ \A a, b : Ledger!SameIntent(a, b) = SameIntent(a, b)
BY DEF Ledger!IsPending, IsPending, Ledger!PendingApproval, PendingApproval,
       Ledger!Conflicts, Conflicts, Ledger!SameIntent, SameIntent

LEMMA SameAnswers ==
  /\ Ledger!NoAnswer = NoAnswer
  /\ \A e : Ledger!Refused(e) = Refused(e)
  /\ \A e : Ledger!Unavailable(e) = Unavailable(e)
  /\ \A in, e : Ledger!Failure(in, e) = Failure(in, e)
  /\ \A in : Ledger!Rejection(in) = Rejection(in)
  /\ \A in, created, row : Ledger!Response(in, created, row) = Response(in, created, row)
<1>1. \A k, e, created, row : Ledger!Reply(k, e, created, row) = Reply(k, e, created, row)
  BY DEF Ledger!Reply, Reply
<1>2. /\ Ledger!NoAnswer = NoAnswer
      /\ \A e : Ledger!Refused(e) = Refused(e)
      /\ \A e : Ledger!Unavailable(e) = Unavailable(e)
  BY <1>1 DEF Ledger!NoAnswer, NoAnswer, Ledger!Refused, Refused, Ledger!Unavailable, Unavailable
<1>3. \A in, e : Ledger!Failure(in, e) = Failure(in, e)
  <2>1. \A op : Ledger!Named(op) = Named(op)
    BY DEF Ledger!Named, Named
  <2> QED BY <1>2, <2>1 DEF Ledger!Failure, Failure
<1>4. \A in, row : Ledger!Presentable(in, row) = Presentable(in, row)
  BY DEF Ledger!Presentable, Presentable
<1>5. \A in, created, row : Ledger!Response(in, created, row) = Response(in, created, row)
  BY <1>1, <1>2, <1>4 DEF Ledger!Response, Response
<1>6. \A in : Ledger!Rejection(in) = Rejection(in)
  BY <1>2, SameService DEF Ledger!Rejection, Rejection
<1> QED BY <1>2, <1>3, <1>5, <1>6

-----------------------------------------------------------------------------
(* The meaning of a call, operation by operation *)

Busy == {c \in Calls : pc[c] # "idle"}

\* The refinement's reading of the one clock of a transaction.
Deadline == [c \in Calls |->
               IF input[c] # None /\ input[c].op = "request" THEN None ELSE stamp[c]]

LEMMA RequestOutcome ==
  ASSUME NEW rows, NEW in, in.op = "request", NEW at, NEW deadline
  PROVE  Ledger!Outcomes(rows, in, at, deadline) = {Ledger!Requested(rows, in, at)}
BY Zenon DEF Ledger!Outcomes

\* The rows a read may show.
Seen(rows, in) == {row \in {r \in rows : r.request_id = in.request_id} : Readable(in, row)}

LEMMA ReadOutcome ==
  ASSUME NEW rows, NEW in, in.op = "read", NEW at, NEW deadline
  PROVE  Ledger!Outcomes(rows, in, at, deadline) =
           IF Seen(rows, in) = {}
           THEN {[rows |-> rows, reply |-> Failure(in, "RequestNotFound")]}
           ELSE {[rows |-> rows, reply |-> Response(in, FALSE, row)] : row \in Seen(rows, in)}
<1>1. in.op # "request"
  OBVIOUS
<1>2. \A row : Ledger!Readable(in, row) = Readable(in, row)
  BY SameService
<1>3. /\ Ledger!Failure(in, "RequestNotFound") = Failure(in, "RequestNotFound")
      /\ \A row : Ledger!Response(in, FALSE, row) = Response(in, FALSE, row)
  BY SameAnswers
<1> DEFINE named == {row \in rows : row.request_id = in.request_id}
<1>4. Ledger!Outcomes(rows, in, at, deadline) =
        LET seen == {row \in named : Ledger!Readable(in, row)}
        IN  IF seen = {} THEN {Ledger!Kept(rows, Ledger!Failure(in, "RequestNotFound"))}
            ELSE {Ledger!Kept(rows, Ledger!Response(in, FALSE, row)) : row \in seen}
  BY <1>1, Zenon DEF Ledger!Outcomes
<1>5. {row \in named : Ledger!Readable(in, row)} = Seen(rows, in)
  BY <1>2 DEF Seen
<1>6. /\ Ledger!Kept(rows, Ledger!Failure(in, "RequestNotFound"))
           = [rows |-> rows, reply |-> Failure(in, "RequestNotFound")]
      /\ \A row : Ledger!Kept(rows, Ledger!Response(in, FALSE, row))
                  = [rows |-> rows, reply |-> Response(in, FALSE, row)]
  BY <1>3 DEF Ledger!Kept
<1> QED BY <1>4, <1>5, <1>6

\* The rows a transition may end.
Having(rows, in) == {row \in rows : row.request_id = in.request_id}

LEMMA TransitionOutcome ==
  ASSUME NEW rows, NEW in, in.op \in Transitions, NEW at, NEW deadline
  PROVE  /\ Having(rows, in) = {} =>
              Ledger!Kept(rows, Failure(in, "RequestNotFound"))
                \in Ledger!Outcomes(rows, in, at, deadline)
         /\ \A row \in Having(rows, in) :
              Ledger!Transitioned(rows, row, in, at, deadline)
                \in Ledger!Outcomes(rows, in, at, deadline)
<1>1. in.op # "request" /\ in.op # "read"
  BY DEF Transitions
<1>2. Ledger!Failure(in, "RequestNotFound") = Failure(in, "RequestNotFound")
  BY SameAnswers
<1>3. Ledger!Outcomes(rows, in, at, deadline) =
        IF Having(rows, in) = {} THEN {Ledger!Kept(rows, Ledger!Failure(in, "RequestNotFound"))}
        ELSE {Ledger!Transitioned(rows, row, in, at, deadline) : row \in Having(rows, in)}
  BY <1>1, Zenon DEF Ledger!Outcomes, Having
<1> QED BY <1>2, <1>3

\* What the ledger makes of a transition of one row, in its order.
LEMMA LedgerForeign ==
  ASSUME NEW rows, NEW row, NEW in, NEW at, NEW deadline, Foreign(in, row)
  PROVE  Ledger!Transitioned(rows, row, in, at, deadline)
           = Ledger!Kept(rows, Failure(in, "NotRequester"))
<1>1. Ledger!Foreign(in, row) /\ Ledger!Failure(in, "NotRequester") = Failure(in, "NotRequester")
  BY SameService, SameAnswers
<1> QED BY <1>1 DEF Ledger!Transitioned

LEMMA LedgerTerminal ==
  ASSUME NEW rows, NEW row, NEW in, NEW at, NEW deadline, ~Foreign(in, row), ~IsPending(row)
  PROVE  Ledger!Transitioned(rows, row, in, at, deadline)
           = Ledger!Kept(rows, Failure(in, "AlreadyTerminal"))
<1>1. /\ ~Ledger!Foreign(in, row) /\ ~Ledger!IsPending(row)
      /\ Ledger!Failure(in, "AlreadyTerminal") = Failure(in, "AlreadyTerminal")
  BY SameService, SameRowTerms, SameAnswers
<1> QED BY <1>1 DEF Ledger!Transitioned

LEMMA LedgerEarly ==
  ASSUME NEW rows, NEW row, NEW in, NEW at, NEW deadline, ~Foreign(in, row), IsPending(row),
         in.op = "expire", ~IsDue(row, deadline)
  PROVE  Ledger!Transitioned(rows, row, in, at, deadline)
           = Ledger!Kept(rows, Failure(in, "NotDue"))
<1>1. /\ ~Ledger!Foreign(in, row) /\ Ledger!IsPending(row) /\ ~Ledger!IsDue(row, deadline)
      /\ Ledger!Failure(in, "NotDue") = Failure(in, "NotDue")
  BY SameService, SameRowTerms, SameAnswers
<1> QED BY <1>1 DEF Ledger!Transitioned

\* The row is replaced by the ended one, which is shown.
EndedAs(rows, row, in, ended) ==
  Ledger!Kept((rows \ {row}) \cup {ended}, Response(in, FALSE, ended))

LEMMA LedgerEnded ==
  ASSUME NEW rows, NEW row, NEW in, NEW at, NEW deadline, ~Foreign(in, row), IsPending(row),
         in.op = "expire" => IsDue(row, deadline)
  PROVE  Ledger!Transitioned(rows, row, in, at, deadline)
           = EndedAs(rows, row, in, Terminated(row, in, at))
<1>1. /\ ~Ledger!Foreign(in, row) /\ Ledger!IsPending(row)
      /\ Ledger!IsDue(row, deadline) = IsDue(row, deadline)
  BY SameService, SameRowTerms
<1>2. /\ Ledger!Terminated(row, in, at) = Terminated(row, in, at)
      /\ Ledger!Response(in, FALSE, Terminated(row, in, at))
           = Response(in, FALSE, Terminated(row, in, at))
  BY SameService, SameAnswers
<1>3. Ledger!Transitioned(rows, row, in, at, deadline)
        = [rows |-> (rows \ {row}) \cup {Ledger!Terminated(row, in, at)},
           reply |-> Ledger!Response(in, FALSE, Ledger!Terminated(row, in, at))]
  BY <1>1 DEF Ledger!Transitioned
<1> QED BY <1>2, <1>3 DEF EndedAs, Ledger!Kept

\* What the ledger makes of a request, from the rows it conflicts with.
Rivals(rows, new) == {row \in rows : Conflicts(row, new)}

LEMMA RequestMade ==
  ASSUME NEW rows, NEW in, in.op = "request", NEW at, NEW deadline,
         NEW new, new = PendingApproval(IntentOf(in, at)),
         NEW same, same = Rivals(rows, new)
  PROVE  /\ same = {} =>
              [rows |-> rows \cup {new}, reply |-> Response(in, TRUE, new)]
                \in Ledger!Outcomes(rows, in, at, deadline)
         /\ \A row : same = {row} /\ SameIntent(row, new) =>
              [rows |-> rows, reply |-> Response(in, FALSE, row)]
                \in Ledger!Outcomes(rows, in, at, deadline)
         /\ same # {} /\ (\A row \in same : ~(same = {row} /\ SameIntent(row, new))) =>
              Ledger!Kept(rows, Failure(in, "IdempotencyConflict"))
                \in Ledger!Outcomes(rows, in, at, deadline)
<1>0. Ledger!Outcomes(rows, in, at, deadline) = {Ledger!Requested(rows, in, at)}
  BY RequestOutcome
<1>1. /\ new = Ledger!PendingApproval(Ledger!IntentOf(in, at))
      /\ same = {row \in rows : Ledger!Conflicts(row, new)}
      /\ \A row : Ledger!SameIntent(row, new) = SameIntent(row, new)
  BY SameService, SameRowTerms DEF Rivals
<1>2. /\ \A e : Ledger!Kept(rows, Ledger!Failure(in, e)) = [rows |-> rows, reply |-> Failure(in, e)]
      /\ \A row : Ledger!Kept(rows, Ledger!Response(in, FALSE, row))
                    = [rows |-> rows, reply |-> Response(in, FALSE, row)]
      /\ Ledger!Response(in, TRUE, new) = Response(in, TRUE, new)
  BY SameAnswers DEF Ledger!Kept
<1>3. Ledger!Requested(rows, in, at)
        = CASE same = {} -> [rows |-> rows \cup {new}, reply |-> Ledger!Response(in, TRUE, new)]
            [] \E row \in same : same = {row} /\ Ledger!SameIntent(row, new) ->
                 Ledger!Kept(rows, Ledger!Response(in, FALSE, CHOOSE row \in same : TRUE))
            [] OTHER -> Ledger!Kept(rows, Ledger!Failure(in, "IdempotencyConflict"))
  BY <1>1, Zenon DEF Ledger!Requested
<1>4. ASSUME same = {}
      PROVE  [rows |-> rows \cup {new}, reply |-> Response(in, TRUE, new)]
               \in Ledger!Outcomes(rows, in, at, deadline)
  <2>1. Ledger!Requested(rows, in, at)
          = [rows |-> rows \cup {new}, reply |-> Ledger!Response(in, TRUE, new)]
    BY <1>3, <1>4
  <2> QED BY <1>0, <1>2, <2>1
<1>5. ASSUME NEW row, same = {row}, SameIntent(row, new)
      PROVE  [rows |-> rows, reply |-> Response(in, FALSE, row)]
               \in Ledger!Outcomes(rows, in, at, deadline)
  <2>1. /\ same # {}
        /\ \E r \in same : same = {r} /\ Ledger!SameIntent(r, new)
        /\ (CHOOSE r \in same : TRUE) = row
    BY <1>1, <1>5
  <2>2. Ledger!Requested(rows, in, at)
          = Ledger!Kept(rows, Ledger!Response(in, FALSE, CHOOSE r \in same : TRUE))
    BY <1>3, <2>1
  <2> QED BY <1>0, <1>2, <2>1, <2>2
<1>6. ASSUME same # {}, \A row \in same : ~(same = {row} /\ SameIntent(row, new))
      PROVE  Ledger!Kept(rows, Failure(in, "IdempotencyConflict"))
               \in Ledger!Outcomes(rows, in, at, deadline)
  <2>1. ~\E r \in same : same = {r} /\ Ledger!SameIntent(r, new)
    BY <1>1, <1>6
  <2>2. Ledger!Requested(rows, in, at) = Ledger!Kept(rows, Ledger!Failure(in, "IdempotencyConflict"))
    BY <1>3, <1>6, <2>1
  <2>3. Ledger!Failure(in, "IdempotencyConflict") = Failure(in, "IdempotencyConflict")
    BY SameAnswers
  <2> QED BY <1>0, <2>2, <2>3
<1> QED BY <1>4, <1>5, <1>6, Zenon

-----------------------------------------------------------------------------
(* What the refinement needs of the store's states *)

\* The database's clock shows whole stored units, an idle call has no time, the
\* deadline is looked at for an expiry only, and a request commits a row of its
\* own intent.
Acting(c) ==
  /\ pc[c] = "idle" => stamp[c] = None
  /\ pc[c] = "due" => input[c].op = "expire"
  /\ pc[c] = "commit" /\ input[c].op = "request" => SameIntent(draft[c], Wanted(c))

ActingInv ==
  /\ now % Resolution = 0
  /\ \A c \in Calls : Acting(c)

\* A step of one call that ends it, or leaves it before its commit.
LEMMA ActingKept ==
  ASSUME ActingInv, TypeOK, NEW c \in Calls, now' = now,
         \A d \in Calls \ {c} : /\ pc'[d] = pc[d] /\ input'[d] = input[d]
                                /\ stamp'[d] = stamp[d] /\ draft'[d] = draft[d],
         Acting(c)'
  PROVE  ActingInv'
<1>1. ASSUME NEW d \in Calls \ {c} PROVE Acting(d)'
  BY DEF ActingInv, Acting, Wanted
<1> QED BY <1>1 DEF ActingInv

LEMMA ReturnActs ==
  ASSUME ActingInv, TypeOK, NEW c \in Calls, NEW reply, Return(c, reply)
  PROVE  ActingInv'
<1>1. /\ pc' = [pc EXCEPT ![c] = "idle"]
      /\ stamp' = [stamp EXCEPT ![c] = None]
      /\ draft' = [draft EXCEPT ![c] = None]
      /\ UNCHANGED <<now, input>>
  BY DEF Return, Finish
<1>2. Acting(c)'
  BY <1>1 DEF TypeOK, Acting
<1> QED BY <1>1, <1>2, ActingKept DEF TypeOK

\* A statement that leaves the call under way.
LEMMA GotoActs ==
  ASSUME ActingInv, TypeOK, NEW c \in Calls, NEW step, Goto(c, step), step # "idle",
         UNCHANGED <<now, input>>,
         \A d \in Calls \ {c} : stamp'[d] = stamp[d] /\ draft'[d] = draft[d],
         step = "due" => input[c].op = "expire",
         step = "commit" /\ input[c].op = "request" => SameIntent(draft'[c], Wanted(c)')
  PROVE  ActingInv'
<1>1. pc' = [pc EXCEPT ![c] = step]
  BY DEF Goto
<1>2. Acting(c)'
  BY <1>1 DEF TypeOK, Acting
<1> QED BY <1>1, <1>2, ActingKept DEF TypeOK

LEMMA OwnIntent ==
  ASSUME NEW c, NEW row
  PROVE  /\ SameIntent(row, IntentOf(input[c], stamp[c])) <=> SameIntent(row, Wanted(c))
         /\ SameIntent(Wanted(c), Wanted(c))
BY DEF SameIntent, Wanted, PendingApproval, IntentOf

LEMMA WriteActs ==
  ASSUME ActingInv, TypeOK, NEW c \in Calls, NEW row, NEW held, Write(c, row, held),
         input[c].op = "request" => row = Wanted(c)
  PROVE  ActingInv'
<1>1. CASE Return(c, Unavailable("InvalidEvidence"))
  BY <1>1, ReturnActs
<1>2. CASE /\ Goto(c, "commit")
           /\ draft' = [draft EXCEPT ![c] = row]
           /\ UNCHANGED <<table, now, input, stamp, todo, answer, wrote>>
  <2>1. Wanted(c)' = Wanted(c) /\ draft'[c] = row
    BY <1>2 DEF Wanted, TypeOK
  <2> QED BY <1>2, <2>1, GotoActs, OwnIntent DEF TypeOK
<1> QED BY <1>1, <1>2 DEF Write

LEMMA Multiples ==
  ASSUME NEW r \in Nat \ {0}, NEW t \in Nat
  PROVE  t % r = 0 <=> \E n \in Nat : t = r * n
<1>1. ASSUME t % r = 0 PROVE \E n \in Nat : t = r * n
  <2>1. t = r * (t \div r) + (t % r) /\ t \div r \in Nat
    OBVIOUS
  <2>2. t = r * (t \div r)
    BY <1>1, <2>1
  <2> QED BY <2>1, <2>2
<1>2. ASSUME \E n \in Nat : t = r * n PROVE t % r = 0
  BY <1>2
<1> QED BY <1>1, <1>2

\* The next whole unit.
LEMMA NextUnit ==
  ASSUME NEW t \in Nat, t % Resolution = 0, NEW u, u = t + Resolution
  PROVE  u % Resolution = 0
<1>1. Resolution \in Nat \ {0} /\ u \in Nat
  BY ModelAssumption
<1>2. PICK q \in Nat : t = Resolution * q
  BY <1>1, Multiples
<1>3. u = Resolution * (q + 1) /\ q + 1 \in Nat
  BY <1>1, <1>2
<1> QED BY <1>1, <1>3, Multiples

LEMMA TickActs ==
  ASSUME ActingInv, TypeOK, Tick
  PROVE  ActingInv'
<1>1. now \in Nat /\ now % Resolution = 0
  BY ModelAssumption DEF ActingInv, TypeOK, Times
<1>2. now' % Resolution = 0
  BY <1>1, NextUnit DEF Tick
<1> QED BY <1>2 DEF Tick, ActingInv, Acting, Wanted

LEMMA StatementActs ==
  ASSUME ActingInv, IInv, NEW c \in Calls, Statement(c) \/ Invoke(c)
  PROVE  ActingInv'
<1> TypeOK
  BY DEF IInv
<1>1. CASE Invoke(c)
  <2>1. PICK in \in Inputs, at \in Times :
          /\ pc[c] = "idle"
          /\ input' = [input EXCEPT ![c] = in]
          /\ \/ UNCHANGED <<pc, stamp>>
             \/ /\ Goto(c, IF in.op = "read" THEN "select" ELSE "begin")
                /\ stamp' = [stamp EXCEPT ![c] = IF in.op = "request" THEN Normalize(at) ELSE None]
          /\ UNCHANGED <<table, locks, now, todo, draft>>
    BY <1>1 DEF Invoke
  <2>2. Acting(c)'
    BY <2>1 DEF ActingInv, Acting, TypeOK, Goto
  <2>3. \A d \in Calls \ {c} : /\ pc'[d] = pc[d] /\ input'[d] = input[d]
                               /\ stamp'[d] = stamp[d] /\ draft'[d] = draft[d]
    BY <2>1 DEF Goto, TypeOK
  <2> QED BY <2>1, <2>2, <2>3, ActingKept
<1>2. CASE Begin(c)
  <2>1. \/ Goto(c, "insert") /\ UNCHANGED stamp
        \/ Goto(c, "lock") /\ stamp' = [stamp EXCEPT ![c] = Normalize(now)]
    BY <1>2 DEF Begin
  <2> QED BY <1>2, <2>1, GotoActs DEF Begin, TypeOK
<1>3. CASE Select(c)
  BY <1>3, ReturnActs DEF Select, Decoded, Fail
<1>4. CASE Insert(c)
  <2>1. \/ /\ Goto(c, "resolve")
           /\ UNCHANGED <<table, locks, now, input, stamp, todo, draft, answer, wrote>>
        \/ Write(c, Wanted(c), locks)
    BY <1>4 DEF Insert, Wanted
  <2> QED BY <2>1, GotoActs, WriteActs
<1>5. CASE Resolve(c)
  <2>1. \/ Return(c, Unavailable("InconsistentIdempotency"))
        \/ /\ Goto(c, "gather")
           /\ UNCHANGED <<table, locks, now, input, stamp, draft, answer, wrote>>
    BY <1>5 DEF Resolve
  <2> QED BY <2>1, GotoActs, ReturnActs
<1>6. CASE Gather(c)
  <2>1. /\ Goto(c, "gather") \/ Goto(c, "compare")
        /\ UNCHANGED <<table, now, input, stamp, draft, answer, wrote>>
    BY <1>6 DEF Gather
  <2> QED BY <2>1, GotoActs
<1>7. CASE Compare(c)
  <2>1. CASE \E reply : Return(c, reply)
    BY <2>1, ReturnActs
  <2>2. ASSUME NEW row, SameIntent(row, IntentOf(input[c], stamp[c])), Goto(c, "commit"),
               draft' = [draft EXCEPT ![c] = row],
               UNCHANGED <<table, locks, now, input, stamp, todo, answer, wrote>>
        PROVE  ActingInv'
    <3>1. SameIntent(draft'[c], Wanted(c)')
      <4>1. draft'[c] = row /\ Wanted(c)' = Wanted(c)
        BY <2>2 DEF TypeOK, Wanted
      <4> QED BY <2>2, <4>1, OwnIntent
    <3> QED BY <2>2, <3>1, GotoActs DEF TypeOK
  <2> QED BY <1>7, <2>1, <2>2 DEF Compare, Decoded, Fail
<1>8. CASE Lock(c)
  <2>1. CASE \E reply : Return(c, reply)
    BY <2>1, ReturnActs
  <2>2. ASSUME NEW row, Goto(c, "check"), draft' = [draft EXCEPT ![c] = row],
               UNCHANGED <<table, now, input, stamp, todo, answer, wrote>>
        PROVE  ActingInv'
    BY <2>2, GotoActs DEF TypeOK
  <2> QED BY <1>8, <2>1, <2>2 DEF Lock, Decoded, Fail
<1>9. CASE Check(c)
  <2>1. CASE \E reply : Return(c, reply)
    BY <2>1, ReturnActs
  <2>2. CASE /\ Goto(c, IF input[c].op = "expire" THEN "due" ELSE "update")
             /\ UNCHANGED <<table, locks, now, input, stamp, todo, draft, answer, wrote>>
    BY <2>2, GotoActs
  <2> QED BY <1>9, <2>1, <2>2 DEF Check, Fail
<1>10. CASE Due(c)
  <2>1. CASE \E reply : Return(c, reply)
    BY <2>1, ReturnActs
  <2>2. CASE /\ Goto(c, "update")
             /\ UNCHANGED <<table, locks, now, input, stamp, todo, draft, answer, wrote>>
    BY <2>2, GotoActs
  <2> QED BY <1>10, <2>1, <2>2 DEF Due, Fail
<1>11. CASE Update(c)
  <2>1. input[c].op # "request"
    BY <1>11 DEF IInv, Serving, Update, Transitions
  <2>2. PICK row, held : Write(c, row, held)
    BY <1>11 DEF Update
  <2> QED BY <2>1, <2>2, WriteActs
<1>12. CASE Commit(c)
  <2>1. /\ pc' = [pc EXCEPT ![c] = "idle"]
        /\ stamp' = [stamp EXCEPT ![c] = None]
        /\ draft' = [draft EXCEPT ![c] = None]
        /\ UNCHANGED <<now, input>>
    BY <1>12 DEF Commit, Finish
  <2>2. Acting(c)'
    BY <2>1 DEF TypeOK, Acting
  <2> QED BY <2>1, <2>2, ActingKept DEF TypeOK
<1> QED BY <1>1, <1>2, <1>3, <1>4, <1>5, <1>6, <1>7, <1>8, <1>9, <1>10, <1>11, <1>12 DEF Statement

-----------------------------------------------------------------------------
(* Every step maps to a step *)

\* A statement that leaves the call under way, and its time alone, is unseen.
LEMMA UnderWayMaps ==
  ASSUME TypeOK, NEW c \in Calls, pc[c] # "idle", NEW step, step # "idle", Goto(c, step),
         UNCHANGED <<table, now, input, stamp, answer>>
  PROVE  UNCHANGED Ledger!ledgerVars
<1>1. {d \in Calls : pc'[d] # "idle"} = {d \in Calls : pc[d] # "idle"}
  BY DEF Goto, TypeOK
<1> QED BY <1>1 DEF Ledger!ledgerVars

\* The end of a call, in the refinement's words.
LEMMA FinishMaps ==
  ASSUME TypeOK, NEW c \in Calls, pc[c] # "idle", NEW reply, Finish(c, reply),
         UNCHANGED <<now, input>>
  PROVE  /\ Ledger!Leave(c) /\ c \in Busy
         /\ answer' = [answer EXCEPT ![c] = reply]
<1>1. /\ pc' = [pc EXCEPT ![c] = "idle"]
      /\ stamp' = [stamp EXCEPT ![c] = None]
      /\ answer' = [answer EXCEPT ![c] = reply]
  BY DEF Finish
<1>2. {d \in Calls : pc'[d] # "idle"} = {d \in Calls : pc[d] # "idle"} \ {c}
  BY <1>1 DEF TypeOK
<1>3. Deadline' = [Deadline EXCEPT ![c] = None]
  BY <1>1 DEF Deadline, TypeOK
<1> QED BY <1>1, <1>2, <1>3 DEF Ledger!Leave, Busy, Deadline

\* The statement that answers a call is the step at which the ledger serves it.
LEMMA ServeMaps ==
  ASSUME IInv, NEW c \in Calls, pc[c] \notin {"idle", "begin"}, NEW reply,
         NEW said \in {reply, Unavailable("Database")}, Finish(c, said),
         UNCHANGED <<now, input>>,
         \E outcome \in Ledger!Outcomes(table, input[c], stamp[c], Deadline[c]) :
           outcome.rows = table' /\ outcome.reply = reply
  PROVE  Ledger!Serve(c)
<1>1. TypeOK /\ Serving(c)
  BY DEF IInv
<1>2. /\ Ledger!Leave(c) /\ c \in Busy
      /\ answer' = [answer EXCEPT ![c] = said]
  BY <1>1, FinishMaps
<1>3. /\ input[c].op # "read" => stamp[c] # None
      /\ input[c].op = "expire" => Deadline[c] # None
  <2>1. input[c].op \in Ops /\ input[c] # None
    BY <1>1, ServiceAssumption DEF Serving, Input
  <2>2. input[c].op # "read" => stamp[c] \in Times
    BY <1>1, <2>1 DEF Serving, Ops, Transitions
  <2> QED BY <2>1, <2>2, ModelAssumption DEF Deadline
<1>4. \E outcome \in Ledger!Outcomes(table, input[c], stamp[c], Deadline[c]) :
        /\ table' = outcome.rows
        /\ \E r \in {outcome.reply, Ledger!Unavailable("Database")} :
             answer' = [answer EXCEPT ![c] = r]
  BY <1>2, SameAnswers
<1> QED BY <1>2, <1>3, <1>4 DEF Ledger!Serve, Busy, Deadline

\* A refusal the ledger would make too.
LEMMA FailMaps ==
  ASSUME IInv, NEW c \in Calls, pc[c] \notin {"idle", "begin"}, NEW failure, Fail(c, failure),
         Ledger!Kept(table, Failure(input[c], failure))
           \in Ledger!Outcomes(table, input[c], stamp[c], Deadline[c])
  PROVE  Ledger!Serve(c)
<1> DEFINE reply == Failure(input[c], failure)
<1>1. Finish(c, reply) /\ UNCHANGED <<table, now, input>>
  BY DEF Fail, Return
<1>2. \E outcome \in Ledger!Outcomes(table, input[c], stamp[c], Deadline[c]) :
        outcome.rows = table' /\ outcome.reply = reply
  <2>1. Ledger!Kept(table, reply).rows = table /\ Ledger!Kept(table, reply).reply = reply
    BY DEF Ledger!Kept
  <2> QED BY <1>1, <2>1
<1> HIDE DEF reply
<1> QED BY <1>1, <1>2, ServeMaps

\* A rollback for a lost connection, a caller gone or a deadlock.
LEMMA OutageMaps ==
  ASSUME IInv, NEW c \in Calls, pc[c] # "idle", Return(c, Unavailable("Database"))
  PROVE  Ledger!GiveUp(c)
<1>1. TypeOK /\ Finish(c, Unavailable("Database")) /\ UNCHANGED <<table, now, input>>
  BY DEF IInv, Return
<1>2. /\ Ledger!Leave(c) /\ c \in Busy
      /\ answer' = [answer EXCEPT ![c] = Unavailable("Database")]
  BY <1>1, FinishMaps
<1> QED BY <1>1, <1>2, SameAnswers DEF Ledger!GiveUp, Busy

\* No call that was let in ends with a fault of the service's own, since in the
\* next state too every failure has its reason.
LEMMA NoFault ==
  ASSUME IInv, IInv', NEW c \in Calls, pc[c] # "idle",
         NEW failure, Return(c, Unavailable(failure))
  PROVE  failure = "Database"
<1>1. answer'[c] = Unavailable(failure) /\ input' = input
  BY DEF Return, Finish, IInv, TypeOK
<1>2. Expected(input[c], failure)
  BY <1>1 DEF IInv, DefencesIdle, Unavailable, Reply
<1>3. ~Unrepresentable(input[c])
  BY DEF IInv, Serving
<1> QED BY <1>2, <1>3 DEF Expected

LEMMA InvokeMaps ==
  ASSUME IInv, ActingInv, NEW c \in Calls, Invoke(c)
  PROVE  Ledger!Arrive(c)
<1>1. PICK in \in Inputs, at \in Times :
        /\ pc[c] = "idle"
        /\ now - Skew <= at /\ at <= now + Skew
        /\ input' = [input EXCEPT ![c] = in]
        /\ \/ /\ ~Admitted(in, at)
              /\ answer' = [answer EXCEPT ![c] = Rejection(in)]
              /\ UNCHANGED <<pc, stamp>>
           \/ /\ Admitted(in, at)
              /\ answer' = [answer EXCEPT ![c] = NoAnswer]
              /\ Goto(c, IF in.op = "read" THEN "select" ELSE "begin")
              /\ stamp' = [stamp EXCEPT ![c] = IF in.op = "request" THEN Normalize(at) ELSE None]
        /\ UNCHANGED <<table, locks, now, todo, draft>>
  BY DEF Invoke
<1>2. TypeOK /\ stamp[c] = None /\ c \notin Busy /\ in # None
  BY <1>1, ServiceAssumption DEF IInv, ActingInv, Acting, Busy
<1>3. Deadline' = [Deadline EXCEPT ![c] = None] /\ Deadline[c] = None
  BY <1>1, <1>2 DEF Deadline, TypeOK
<1>4. CASE UNCHANGED <<pc, stamp>>
  <2>1. Busy' = Busy /\ Deadline' = Deadline
    <3>1. [Deadline EXCEPT ![c] = None] = Deadline
      BY <1>3 DEF Deadline
    <3> QED BY <1>3, <1>4, <3>1 DEF Busy
  <2>2. CASE ~Admitted(in, at) /\ answer' = [answer EXCEPT ![c] = Rejection(in)]
    BY <1>1, <1>2, <1>4, <2>1, <2>2, SameService, SameAnswers
    DEF Ledger!Arrive, Busy, Deadline
  <2>3. ~Goto(c, IF in.op = "read" THEN "select" ELSE "begin")
    BY <1>1, <1>2, <1>4 DEF Goto, TypeOK
  <2> QED BY <1>1, <2>2, <2>3
<1>5. CASE /\ Admitted(in, at)
           /\ answer' = [answer EXCEPT ![c] = NoAnswer]
           /\ Goto(c, IF in.op = "read" THEN "select" ELSE "begin")
           /\ stamp' = [stamp EXCEPT ![c] = IF in.op = "request" THEN Normalize(at) ELSE None]
  <2>1. Busy' = Busy \cup {c}
    BY <1>2, <1>5 DEF Busy, Goto, TypeOK
  <2> QED BY <1>1, <1>2, <1>3, <1>5, <2>1, SameService, SameAnswers
          DEF Ledger!Arrive, Busy, Deadline
<1> QED BY <1>1, <1>4, <1>5

\* BEGIN of a transition is the one reading of the clock for both uses.
LEMMA BeginMaps ==
  ASSUME IInv, ActingInv, NEW c \in Calls, Begin(c)
  PROVE  Ledger!ReadClock(c) \/ UNCHANGED Ledger!ledgerVars
<1>1. TypeOK /\ Serving(c) /\ pc[c] = "begin" /\ c \in Busy
  BY DEF IInv, Begin, Busy
<1>2. CASE input[c].op = "request"
  <2>1. Goto(c, "insert") /\ UNCHANGED <<table, now, input, stamp, answer>>
    BY <1>2 DEF Begin
  <2> QED BY <1>1, <2>1, UnderWayMaps
<1>3. CASE input[c].op # "request"
  <2>1. /\ Goto(c, "lock") /\ stamp' = [stamp EXCEPT ![c] = Normalize(now)]
        /\ UNCHANGED <<table, now, input, answer>>
    BY <1>3 DEF Begin
  <2>2. Normalize(now) = now /\ now \in Times /\ now - 0 <= now /\ now <= now + 0
    BY <1>1, ModelAssumption DEF TypeOK, Times, ActingInv, Normalize
  <2>3. input[c].op \in {"decide", "cancel", "expire"}
    BY <1>1, <1>3, ServiceAssumption DEF Serving, Input, Ops
  <2>4. Busy' = Busy
    BY <1>1, <2>1 DEF Busy, Goto, TypeOK
  <2>5. Deadline' = [Deadline EXCEPT ![c] = now]
    BY <1>1, <1>3, <2>1, <2>2 DEF Deadline, TypeOK
  <2>6. now \in Ledger!Readings(0)
    BY <2>2, SameService DEF Ledger!Readings
  <2> QED BY <1>1, <2>1, <2>2, <2>3, <2>4, <2>5, <2>6 DEF Ledger!ReadClock, Busy, Deadline
<1> QED BY <1>2, <1>3

\* Of one call's clock readings, a transition's two are one.
LEMMA OneReading ==
  ASSUME NEW c \in Calls, input[c].op # "request"
  PROVE  Deadline[c] = stamp[c]
BY DEF Deadline

LEMMA SelectMaps ==
  ASSUME IInv, NEW c \in Calls, Select(c)
  PROVE  Ledger!Serve(c)
<1> DEFINE in == input[c]
           seen == Seen(table, in)
<1>1. pc[c] = "select" /\ in.op = "read"
  BY DEF IInv, Select, Serving
<1>2. Ledger!Outcomes(table, in, stamp[c], Deadline[c]) =
        IF seen = {} THEN {[rows |-> table, reply |-> Failure(in, "RequestNotFound")]}
        ELSE {[rows |-> table, reply |-> Response(in, FALSE, row)] : row \in seen}
  BY <1>1, ReadOutcome
<1>3. seen = {row \in RowsOf(in.request_id) : Readable(in, row)}
  BY DEF Seen, RowsOf
<1>4. CASE seen = {} /\ Fail(c, "RequestNotFound")
  BY <1>1, <1>2, <1>4, FailMaps DEF Ledger!Kept
<1>5. ASSUME NEW row \in seen, Return(c, Response(in, FALSE, row))
      PROVE  Ledger!Serve(c)
  <2> DEFINE shown(r) == [rows |-> table, reply |-> Response(in, FALSE, r)]
  <2>1. shown(row) \in Ledger!Outcomes(table, in, stamp[c], Deadline[c])
    BY <1>2, <1>5
  <2>2. \E outcome \in Ledger!Outcomes(table, in, stamp[c], Deadline[c]) :
          outcome.rows = table' /\ outcome.reply = Response(in, FALSE, row)
    <3>1. shown(row).rows = table /\ shown(row).reply = Response(in, FALSE, row)
      OBVIOUS
    <3>2. table' = table
      BY <1>5 DEF Return
    <3> HIDE DEF shown
    <3> QED BY <2>1, <3>1, <3>2
  <2>3. Finish(c, Response(in, FALSE, row)) /\ UNCHANGED <<now, input>>
    BY <1>5 DEF Return
  <2> QED BY <1>1, <2>2, <2>3, ServeMaps
<1>6. \A row \in seen : ValidEvidence(row)
  BY <1>3 DEF IInv, RowsOf, TableCheck
<1> HIDE DEF seen
<1> QED BY <1>3, <1>4, <1>5, <1>6 DEF Select, Decoded

LEMMA InsertMaps ==
  ASSUME IInv, IInv', NEW c \in Calls, Insert(c)
  PROVE  UNCHANGED Ledger!ledgerVars
<1>1. TypeOK /\ pc[c] = "insert"
  BY DEF IInv, Insert
<1>2. CASE /\ Goto(c, "resolve")
           /\ UNCHANGED <<table, locks, now, input, stamp, todo, draft, answer, wrote>>
  BY <1>1, <1>2, UnderWayMaps
<1>3. CASE Write(c, Wanted(c), locks)
  <2>1. ~Return(c, Unavailable("InvalidEvidence"))
    BY <1>1, NoFault
  <2>2. Goto(c, "commit") /\ UNCHANGED <<table, now, input, stamp, answer>>
    BY <1>3, <2>1 DEF Write
  <2> QED BY <1>1, <2>2, UnderWayMaps
<1> QED BY <1>2, <1>3 DEF Insert, Wanted

LEMMA ResolveMaps ==
  ASSUME IInv, IInv', NEW c \in Calls, Resolve(c)
  PROVE  UNCHANGED Ledger!ledgerVars
<1>1. TypeOK /\ pc[c] = "resolve"
  BY DEF IInv, Resolve
<1>2. ~Return(c, Unavailable("InconsistentIdempotency"))
  BY <1>1, NoFault
<1>3. Goto(c, "gather") /\ UNCHANGED <<table, now, input, stamp, answer>>
  BY <1>2 DEF Resolve
<1> QED BY <1>1, <1>3, UnderWayMaps

LEMMA GatherMaps ==
  ASSUME IInv, NEW c \in Calls, Gather(c)
  PROVE  UNCHANGED Ledger!ledgerVars
<1>1. TypeOK /\ pc[c] = "gather"
  BY DEF IInv, Gather
<1>2. (Goto(c, "gather") \/ Goto(c, "compare")) /\ UNCHANGED <<table, now, input, stamp, answer>>
  BY DEF Gather
<1> QED BY <1>1, <1>2, UnderWayMaps

\* The rows a request holds when it compares are in its way still.
LEMMA CompareMaps ==
  ASSUME IInv, IInv', AnswersInv, NEW c \in Calls, Compare(c)
  PROVE  Ledger!Serve(c) \/ UNCHANGED Ledger!ledgerVars
<1> DEFINE rows == {row \in table : row.request_id \in Held(c)}
           same == Rivals(table, Wanted(c))
<1>1. /\ TypeOK /\ UniqueRows /\ pc[c] = "compare" /\ input[c].op = "request"
      /\ Held(c) # {} /\ Held(c) \subseteq InTheWay(c)
  BY DEF IInv, AnswersInv, Compare, Serving, Engaged, Locking
<1>2. rows \subseteq same /\ rows # {}
  <2>1. \A row \in rows : Conflicts(row, Wanted(c))
    BY <1>1 DEF InTheWay, UniqueRows, Conflicts
  <2>2. rows # {}
    BY <1>1 DEF InTheWay
  <2> QED BY <2>1, <2>2 DEF Rivals
<1>3. CASE /\ Fail(c, "IdempotencyConflict")
           /\ \A row \in same : ~(same = {row} /\ SameIntent(row, Wanted(c)))
  <2>1. same # {}
    BY <1>2
  <2> HIDE DEF same, rows
  <2>2. Ledger!Kept(table, Failure(input[c], "IdempotencyConflict"))
          \in Ledger!Outcomes(table, input[c], stamp[c], Deadline[c])
    BY <1>1, <1>3, <2>1, RequestMade DEF same, Wanted
  <2> QED BY <1>1, <1>3, <2>2, FailMaps
<1>4. ASSUME \A row \in rows : rows # {row}
      PROVE  \A row \in same : same # {row}
  BY <1>2, <1>4
<1>5. ASSUME NEW row \in rows, rows = {row}, ~SameIntent(row, IntentOf(input[c], stamp[c]))
      PROVE  \A r \in same : ~(same = {r} /\ SameIntent(r, Wanted(c)))
  <2>1. ~SameIntent(row, Wanted(c)) /\ row \in same
    BY <1>2, <1>5, OwnIntent
  <2> QED BY <2>1
<1>6. CASE Goto(c, "commit") /\ UNCHANGED <<table, locks, now, input, stamp, todo, answer, wrote>>
  BY <1>1, <1>6, UnderWayMaps
<1>7. ~Return(c, Unavailable("InvalidEvidence"))
  BY <1>1, NoFault
<1>8. \/ (\A row \in rows : rows # {row}) /\ Fail(c, "IdempotencyConflict")
      \/ \E row \in rows : rows = {row} /\ ~SameIntent(row, IntentOf(input[c], stamp[c]))
                           /\ Fail(c, "IdempotencyConflict")
      \/ Goto(c, "commit") /\ UNCHANGED <<table, locks, now, input, stamp, todo, answer, wrote>>
  BY <1>7 DEF Compare, Decoded
<1> HIDE DEF rows, same
<1> QED BY <1>3, <1>4, <1>5, <1>6, <1>8

\* A transition refused on its row, in the ledger's order.
LEMMA RefusalMaps ==
  ASSUME IInv, NEW c \in Calls, pc[c] \notin {"idle", "begin"}, input[c].op \in Transitions,
         NEW failure, Fail(c, failure),
         \/ Having(table, input[c]) = {} /\ failure = "RequestNotFound"
         \/ \E row \in Having(table, input[c]) :
              Ledger!Transitioned(table, row, input[c], stamp[c], stamp[c])
                = Ledger!Kept(table, Failure(input[c], failure))
  PROVE  Ledger!Serve(c)
<1>1. input[c].op # "request"
  BY DEF Transitions
<1>2. Ledger!Kept(table, Failure(input[c], failure))
        \in Ledger!Outcomes(table, input[c], stamp[c], stamp[c])
  BY TransitionOutcome
<1> QED BY <1>1, <1>2, FailMaps, OneReading

LEMMA LockMaps ==
  ASSUME IInv, IInv', NEW c \in Calls, Lock(c)
  PROVE  Ledger!Serve(c) \/ UNCHANGED Ledger!ledgerVars
<1>1. TypeOK /\ pc[c] = "lock" /\ input[c].op \in Transitions
  BY DEF IInv, Lock, Serving
<1>2. CASE RowsOf(input[c].request_id) = {} /\ Fail(c, "RequestNotFound")
  <2>1. Having(table, input[c]) = {}
    BY <1>2 DEF Having, RowsOf
  <2> QED BY <1>1, <1>2, <2>1, RefusalMaps
<1>3. ~Return(c, Unavailable("InvalidEvidence"))
  BY <1>1, NoFault
<1>4. CASE Goto(c, "check") /\ UNCHANGED <<table, now, input, stamp, todo, answer, wrote>>
  BY <1>1, <1>4, UnderWayMaps
<1> QED BY <1>2, <1>3, <1>4 DEF Lock, Decoded

LEMMA CheckMaps ==
  ASSUME IInv, NEW c \in Calls, Check(c)
  PROVE  Ledger!Serve(c) \/ UNCHANGED Ledger!ledgerVars
<1>1. /\ TypeOK /\ pc[c] = "check" /\ input[c].op \in Transitions
      /\ draft[c] \in Having(table, input[c])
  BY DEF IInv, Check, Serving, Transitioning, Ready, Having
<1>2. CASE Foreign(input[c], draft[c]) /\ Fail(c, "NotRequester")
  <2>1. Ledger!Transitioned(table, draft[c], input[c], stamp[c], stamp[c])
          = Ledger!Kept(table, Failure(input[c], "NotRequester"))
    BY <1>2, LedgerForeign
  <2> QED BY <1>1, <1>2, <2>1, RefusalMaps
<1>3. CASE /\ ~Foreign(input[c], draft[c]) /\ ~IsPending(draft[c])
           /\ Fail(c, "AlreadyTerminal")
  <2>1. Ledger!Transitioned(table, draft[c], input[c], stamp[c], stamp[c])
          = Ledger!Kept(table, Failure(input[c], "AlreadyTerminal"))
    BY <1>3, LedgerTerminal
  <2> QED BY <1>1, <1>3, <2>1, RefusalMaps
<1>4. CASE /\ Goto(c, IF input[c].op = "expire" THEN "due" ELSE "update")
           /\ UNCHANGED <<table, locks, now, input, stamp, todo, draft, answer, wrote>>
  BY <1>1, <1>4, UnderWayMaps
<1> QED BY <1>2, <1>3, <1>4 DEF Check

LEMMA DueMaps ==
  ASSUME IInv, ActingInv, NEW c \in Calls, Due(c)
  PROVE  Ledger!Serve(c) \/ UNCHANGED Ledger!ledgerVars
<1>1. /\ TypeOK /\ UniqueRows /\ pc[c] = "due" /\ input[c].op = "expire"
      /\ Ready(c, draft[c])
  BY DEF IInv, ActingInv, Acting, Due, Transitioning
<1>2. input[c].op \in Transitions
  BY <1>1 DEF Transitions
<1>3. PICK row \in RowsOf(input[c].request_id) :
        \/ /\ Goto(c, "update")
           /\ UNCHANGED <<table, locks, now, input, stamp, todo, draft, answer, wrote>>
        \/ ~IsDue(row, stamp[c]) /\ Fail(c, "NotDue")
  BY DEF Due
<1>4. row = draft[c] /\ row \in Having(table, input[c])
  BY <1>1 DEF Ready, RowsOf, UniqueRows, Conflicts, Having
<1>5. IsPending(row) /\ ~Foreign(input[c], row)
  BY <1>1, <1>4 DEF Ready
<1>6. CASE ~IsDue(row, stamp[c]) /\ Fail(c, "NotDue")
  <2>1. Ledger!Transitioned(table, row, input[c], stamp[c], stamp[c])
          = Ledger!Kept(table, Failure(input[c], "NotDue"))
    BY <1>1, <1>5, <1>6, LedgerEarly
  <2> QED BY <1>1, <1>2, <1>4, <1>6, <2>1, RefusalMaps
<1>7. CASE Goto(c, "update") /\ UNCHANGED <<table, locks, now, input, stamp, todo, draft, answer, wrote>>
  BY <1>1, <1>7, UnderWayMaps
<1> QED BY <1>3, <1>6, <1>7

LEMMA UpdateMaps ==
  ASSUME IInv, IInv', NEW c \in Calls, Update(c)
  PROVE  UNCHANGED Ledger!ledgerVars
<1>1. TypeOK /\ pc[c] = "update"
  BY DEF IInv, Update
<1>2. ~Return(c, Unavailable("InvalidEvidence"))
  BY <1>1, NoFault
<1>3. Goto(c, "commit") /\ UNCHANGED <<table, now, input, stamp, answer>>
  BY <1>2 DEF Update, Write
<1> QED BY <1>1, <1>3, UnderWayMaps

\* COMMIT of a request that found nothing in its way, or of a replay.
LEMMA CommitRequestMaps ==
  ASSUME IInv, ActingInv, NEW c \in Calls, Commit(c), input[c].op = "request"
  PROVE  Ledger!Serve(c)
<1> DEFINE in == input[c]
           new == Wanted(c)
           same == Rivals(table, new)
           reply == Response(in, Uncommitted(c) /\ in.op = "request", draft[c])
<1>1. /\ pc[c] = "commit" /\ UNCHANGED <<now, input>>
      /\ table' = Stored(draft[c])
      /\ \E said \in {reply, Unavailable("Database")} : Finish(c, said)
  BY DEF Commit
<1>2. /\ TypeOK /\ UniqueRows
      /\ Replaying(c) \/ Fresh(c)
      /\ SameIntent(draft[c], new)
  BY <1>1 DEF IInv, Requesting, ActingInv, Acting
<1>3. \E outcome \in Ledger!Outcomes(table, in, stamp[c], Deadline[c]) :
        outcome.rows = table' /\ outcome.reply = reply
  <2>1. CASE Replaying(c)
    <3>1. /\ draft[c] \in table /\ Stored(draft[c]) = table
      BY <1>2, <2>1 DEF Replaying, Stored, UniqueRows, Conflicts
    <3>2. same = {draft[c]}
      BY <1>2, <3>1 DEF Rivals, SameIntent, Conflicts, UniqueRows
    <3>3. reply = Response(in, FALSE, draft[c])
      BY <3>1 DEF Uncommitted
    <3> DEFINE outcome == [rows |-> table, reply |-> Response(in, FALSE, draft[c])]
    <3> HIDE DEF same, reply
    <3>4. outcome \in Ledger!Outcomes(table, in, stamp[c], Deadline[c])
      BY <1>2, <3>2, RequestMade DEF same, Wanted
    <3>5. outcome.rows = table' /\ outcome.reply = reply
      BY <1>1, <3>1, <3>3
    <3> HIDE DEF outcome
    <3> QED BY <3>4, <3>5
  <2>2. CASE Fresh(c)
    <3>1. draft[c] = new /\ same = {} /\ Conflicts(new, new)
      BY <2>2 DEF Fresh, Rivals, Conflicts
    <3>2. Stored(draft[c]) = table \cup {new} /\ draft[c] \notin table
      BY <2>2, <3>1 DEF Fresh, Stored, Conflicts
    <3>3. reply = Response(in, TRUE, new)
      BY <1>1, <3>1, <3>2 DEF Uncommitted
    <3> DEFINE outcome == [rows |-> table \cup {new}, reply |-> Response(in, TRUE, new)]
    <3> HIDE DEF same, reply
    <3>4. outcome \in Ledger!Outcomes(table, in, stamp[c], Deadline[c])
      BY <3>1, RequestMade DEF same, Wanted
    <3>5. outcome.rows = table' /\ outcome.reply = reply
      BY <1>1, <3>2, <3>3
    <3> HIDE DEF outcome
    <3> QED BY <3>4, <3>5
  <2> QED BY <1>2, <2>1, <2>2
<1> HIDE DEF reply
<1> QED BY <1>1, <1>3, ServeMaps

\* COMMIT of a decide, cancel or expire.
LEMMA CommitTransitionMaps ==
  ASSUME IInv, NEW c \in Calls, Commit(c), input[c].op \in Transitions
  PROVE  Ledger!Serve(c)
<1> DEFINE in == input[c]
           reply == Response(in, Uncommitted(c) /\ in.op = "request", draft[c])
<1>1. /\ pc[c] = "commit" /\ UNCHANGED <<now, input>>
      /\ table' = Stored(draft[c])
      /\ \E said \in {reply, Unavailable("Database")} : Finish(c, said)
  BY DEF Commit
<1>2. TypeOK /\ UniqueRows /\ Serving(c) /\ in.op # "request"
  BY DEF IInv, Transitions
<1>3. PICK row \in table : Ready(c, row) /\ draft[c] = Terminated(row, in, stamp[c])
  BY <1>1 DEF IInv, Transitioning
<1> DEFINE ended == Terminated(row, in, stamp[c])
<1>4. /\ row \in Having(table, in) /\ ~Foreign(in, row) /\ IsPending(row)
      /\ in.op = "expire" => IsDue(row, stamp[c])
  BY <1>1, <1>3 DEF Ready, Having
<1>5. Stored(draft[c]) = (table \ {row}) \cup {ended}
  <2>1. row.request_id = in.request_id /\ draft[c].request_id = row.request_id
    <3>1. row \in StoredApproval
      BY <1>2 DEF TypeOK
    <3> QED BY <1>3, <3>1 DEF Ready, Terminated, StoredApproval
  <2>2. \A other \in table : other.request_id = row.request_id => other = row
    BY <1>2 DEF UniqueRows, Conflicts
  <2> HIDE DEF ended
  <2> QED BY <1>3, <2>1, <2>2 DEF Stored, ended
<1>6. reply = Response(in, FALSE, ended)
  BY <1>2, <1>3
<1> HIDE DEF reply, ended
<1>7. \E outcome \in Ledger!Outcomes(table, in, stamp[c], Deadline[c]) :
        outcome.rows = table' /\ outcome.reply = reply
  <2>1. Ledger!Transitioned(table, row, in, stamp[c], stamp[c]) = EndedAs(table, row, in, ended)
    BY <1>4, LedgerEnded DEF ended
  <2>2. EndedAs(table, row, in, ended) \in Ledger!Outcomes(table, in, stamp[c], Deadline[c])
    BY <1>2, <1>4, <2>1, TransitionOutcome, OneReading
  <2>3. /\ EndedAs(table, row, in, ended).rows = table'
        /\ EndedAs(table, row, in, ended).reply = reply
    BY <1>1, <1>5, <1>6 DEF EndedAs, Ledger!Kept
  <2> QED BY <2>2, <2>3
<1> QED BY <1>1, <1>7, ServeMaps

LEMMA TickMaps ==
  ASSUME IInv, Tick
  PROVE  Ledger!ClockAdvances
<1>1. now \in Times /\ now' \in Times /\ now' > now
  BY ModelAssumption DEF IInv, TypeOK, Tick, Times
<1> QED BY <1>1, SameService DEF Tick, Ledger!ClockAdvances

-----------------------------------------------------------------------------

LEMMA ActingKeep == ActingInv /\ IInv /\ [Next]_vars => ActingInv'
<1> SUFFICES ASSUME ActingInv, IInv, [Next]_vars PROVE ActingInv'
  OBVIOUS
<1>1. TypeOK
  BY DEF IInv
<1>2. ASSUME NEW c \in Calls, Invoke(c) \/ Statement(c) PROVE ActingInv'
  BY <1>2, StatementActs
<1>3. ASSUME NEW c \in Calls, Abort(c) \/ DeadlockVictim(c) PROVE ActingInv'
  BY <1>1, <1>3, ReturnActs DEF Abort, DeadlockVictim
<1>4. CASE Tick
  BY <1>1, <1>4, TickActs
<1>5. CASE UNCHANGED vars
  BY <1>5 DEF vars, ActingInv, Acting, Wanted
<1> QED BY <1>2, <1>3, <1>4, <1>5 DEF Next

LEMMA StatementMaps ==
  ASSUME IInv, IInv', ActingInv, AnswersInv, NEW c \in Calls, Statement(c)
  PROVE  Ledger!ReadClock(c) \/ Ledger!Serve(c) \/ UNCHANGED Ledger!ledgerVars
<1>1. CASE Commit(c)
  <2>1. input[c].op = "request" \/ input[c].op \in Transitions
    <3>1. pc[c] = "commit" /\ Serving(c)
      BY <1>1 DEF IInv, Commit
    <3>2. input[c].op \in Ops /\ input[c].op # "read"
      BY <3>1, ServiceAssumption DEF Serving, Input
    <3> QED BY <3>2 DEF Ops, Transitions
  <2> QED BY <1>1, <2>1, CommitRequestMaps, CommitTransitionMaps
<1> QED BY <1>1, BeginMaps, SelectMaps, InsertMaps, ResolveMaps, GatherMaps, CompareMaps,
           LockMaps, CheckMaps, DueMaps, UpdateMaps DEF Statement

\* Every behaviour of the PostgreSQL store, its waits, deadlocks, rollbacks and
\* lost commit replies included, is one in which each call takes effect at one
\* instant between its arrival and its answer.
THEOREM Implements == Spec => ImplementsLedger
<1>1. Init => ActingInv /\ Ledger!LedgerInit
  <2> SUFFICES ASSUME Init PROVE ActingInv /\ Ledger!LedgerInit
    OBVIOUS
  <2>1. ActingInv
    <3>1. 0 % Resolution = 0
      BY ModelAssumption
    <3> QED BY <3>1 DEF Init, ActingInv, Acting
  <2>2. {c \in Calls : pc[c] # "idle"} = {}
    BY DEF Init
  <2>3. [c \in Calls |-> IF input[c] # None /\ input[c].op = "request" THEN None ELSE stamp[c]]
          = [c \in Calls |-> None]
    BY DEF Init
  <2> QED BY <2>1, <2>2, <2>3, SameAnswers DEF Init, Ledger!LedgerInit
<1>2. IInv /\ IInv' /\ AnswersInv /\ ActingInv /\ [Next]_vars
        => [Ledger!LedgerNext]_(Ledger!ledgerVars)
  <2> SUFFICES ASSUME IInv, IInv', AnswersInv, ActingInv, [Next]_vars
               PROVE  Ledger!LedgerNext \/ UNCHANGED Ledger!ledgerVars
    OBVIOUS
  <2>1. ASSUME NEW c \in Calls, Invoke(c) \/ Statement(c) \/ Abort(c) \/ DeadlockVictim(c)
        PROVE  \/ Ledger!Arrive(c) \/ Ledger!ReadClock(c) \/ Ledger!Serve(c) \/ Ledger!GiveUp(c)
               \/ UNCHANGED Ledger!ledgerVars
    <3>1. CASE Abort(c) \/ DeadlockVictim(c)
      BY <3>1, OutageMaps DEF Abort, DeadlockVictim, Deadlocked
    <3> QED BY <2>1, <3>1, InvokeMaps, StatementMaps
  <2>2. CASE Tick
    BY <2>2, TickMaps DEF Ledger!LedgerNext
  <2>3. CASE UNCHANGED vars
    BY <2>3 DEF vars, Ledger!ledgerVars
  <2> QED BY <2>1, <2>2, <2>3 DEF Next, Ledger!LedgerNext
<1> QED BY <1>1, <1>2, ActingKeep, Invariance, AnswersInvariance, PTL
        DEF Spec, ImplementsLedger, Ledger!LedgerSpec
=============================================================================
