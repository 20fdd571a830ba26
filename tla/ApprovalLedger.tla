--------------------------- MODULE ApprovalLedger ---------------------------
(***************************************************************************)
(* What the five operations promise, whatever the store: every call that   *)
(* is let through takes effect at one instant between its arrival and its  *)
(* answer, on one shared table.  A request's time is read as it arrives;   *)
(* the time a transition records, and the time an expiry compares the      *)
(* deadline with, while the call is under way.  A call may be answered     *)
(* `unavailable' whether or not it took effect.                            *)
(***************************************************************************)
EXTENDS ApprovalService

CONSTANTS
  Calls,   \* call slots
  Skew,    \* how far the clock a request is stamped by may be from `now'
  Drift    \* the same of the clock transitions read

VARIABLES
  table,   \* the rows
  now,     \* the time
  busy,    \* the calls under way
  input,   \* each call's input
  stamp,   \* the time each call acts at
  due,     \* the time an expiry compares the deadline with
  answer   \* each call's latest answer

ledgerVars == <<table, now, busy, input, stamp, due, answer>>

-----------------------------------------------------------------------------
(* The sequential meaning of a call: the table and the answer it leaves *)

Kept(rows, reply) == [rows |-> rows, reply |-> reply]

Requested(rows, in, at) ==
  LET new == PendingApproval(IntentOf(in, at))
      same == {row \in rows : Conflicts(row, new)}
  IN  CASE same = {} ->
             [rows |-> rows \cup {new}, reply |-> Response(in, TRUE, new)]
        [] \E row \in same : same = {row} /\ SameIntent(row, new) ->
             Kept(rows, Response(in, FALSE, CHOOSE row \in same : TRUE))
        [] OTHER -> Kept(rows, Failure(in, "IdempotencyConflict"))

Transitioned(rows, row, in, at, deadline) ==
  CASE Foreign(in, row) -> Kept(rows, Failure(in, "NotRequester"))
    [] ~Foreign(in, row) /\ ~IsPending(row) ->
         Kept(rows, Failure(in, "AlreadyTerminal"))
    [] OTHER ->
         IF in.op = "expire" /\ ~IsDue(row, deadline)
         THEN Kept(rows, Failure(in, "NotDue"))
         ELSE [rows |-> (rows \ {row}) \cup {Terminated(row, in, at)},
               reply |-> Response(in, FALSE, Terminated(row, in, at))]

\* The outcomes of a call on a table whose ids are unique: one.
Outcomes(rows, in, at, deadline) ==
  LET named == {row \in rows : row.request_id = in.request_id}
      seen == {row \in named : Readable(in, row)}
  IN  CASE in.op = "request" -> {Requested(rows, in, at)}
        [] in.op = "read" ->
             IF seen = {} THEN {Kept(rows, Failure(in, "RequestNotFound"))}
             ELSE {Kept(rows, Response(in, FALSE, row)) : row \in seen}
        [] OTHER ->
             IF named = {} THEN {Kept(rows, Failure(in, "RequestNotFound"))}
             ELSE {Transitioned(rows, row, in, at, deadline) : row \in named}

-----------------------------------------------------------------------------

\* What a clock off by up to `error' may show, in stored units.
Readings(error) ==
  {t \in Times : Normalize(t) = t /\ now - error <= t /\ t <= now + error}

\* A call arrives and is refused, fails at once, or is let through.
Arrive(c) ==
  /\ c \notin busy
  /\ UNCHANGED <<table, now>>
  /\ \E in \in Inputs, at \in Times :
       /\ input' = [input EXCEPT ![c] = in]
       /\ now - Skew <= at /\ at <= now + Skew
       /\ \/ /\ ~Admitted(in, at)
             /\ answer' = [answer EXCEPT ![c] = Rejection(in)]
             /\ UNCHANGED <<busy, stamp, due>>
          \/ /\ ~Forbidden(in)
             /\ answer' = [answer EXCEPT ![c] = Unavailable("Database")]
             /\ UNCHANGED <<busy, stamp, due>>
          \/ /\ Admitted(in, at)
             /\ busy' = busy \cup {c}
             /\ answer' = [answer EXCEPT ![c] = NoAnswer]
             /\ stamp' = [stamp EXCEPT ![c] = IF in.op = "request" THEN Normalize(at) ELSE None]
             /\ due' = [due EXCEPT ![c] = None]

ReadClock(c) ==
  /\ c \in busy
  /\ input[c].op \in {"decide", "cancel", "expire"}
  /\ UNCHANGED <<table, now, busy, input, answer>>
  /\ \E t \in Readings(Drift) :
       \/ stamp' = [stamp EXCEPT ![c] = t] /\ due' = [due EXCEPT ![c] = t]
       \/ stamp' = [stamp EXCEPT ![c] = t] /\ UNCHANGED due
       \/ due' = [due EXCEPT ![c] = t] /\ UNCHANGED stamp

Leave(c) ==
  /\ busy' = busy \ {c}
  /\ stamp' = [stamp EXCEPT ![c] = None]
  /\ due' = [due EXCEPT ![c] = None]

\* The call takes effect and is answered, or its answer is lost.
Serve(c) ==
  /\ c \in busy
  /\ Leave(c)
  /\ UNCHANGED <<now, input>>
  /\ input[c].op # "read" => stamp[c] # None
  /\ input[c].op = "expire" => due[c] # None
  /\ \E outcome \in Outcomes(table, input[c], stamp[c], due[c]) :
       /\ table' = outcome.rows
       /\ \E reply \in {outcome.reply, Unavailable("Database")} :
            answer' = [answer EXCEPT ![c] = reply]

\* The call fails without having taken effect.
GiveUp(c) ==
  /\ c \in busy
  /\ Leave(c)
  /\ answer' = [answer EXCEPT ![c] = Unavailable("Database")]
  /\ UNCHANGED <<table, now, input>>

ClockAdvances ==
  /\ now' \in {t \in Times : t > now}
  /\ UNCHANGED <<table, busy, input, stamp, due, answer>>

LedgerInit ==
  /\ table = {}
  /\ now = 0
  /\ busy = {}
  /\ input = [c \in Calls |-> None]
  /\ stamp = [c \in Calls |-> None]
  /\ due = [c \in Calls |-> None]
  /\ answer = [c \in Calls |-> NoAnswer]

LedgerNext ==
  \/ \E c \in Calls : Arrive(c) \/ ReadClock(c) \/ Serve(c) \/ GiveUp(c)
  \/ ClockAdvances

LedgerSpec == LedgerInit /\ [][LedgerNext]_ledgerVars
=============================================================================
