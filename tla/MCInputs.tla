----------------------------- MODULE MCInputs ------------------------------
(***************************************************************************)
(* Inputs for the stores' instances.  `shop' and `rival' may request,      *)
(* `board' may decide, `timer' may expire.                                 *)
(***************************************************************************)
EXTENDS ApprovalService

CONSTANTS c1, c2, c3, shop, rival, board, timer, r1, r2, k1, k2, m1, m2, m3, alice, note

MCInstances == {shop, rival, board, timer}
MCRequesters == {shop, rival}

MCDeadline == 2   \* the deadline of every request

Asking ==
  [op |-> "request", caller |-> shop, human |-> TRUE, well_formed |-> TRUE,
   request_id |-> r1, idempotency_key |-> k1, matter |-> m1, expires_at |-> MCDeadline,
   decision |-> "approved", actor |-> alice, evidence_ref |-> note, reason |-> None]

\* A malformed request whose deadline is past the last instant.
Overlong == [Asking EXCEPT !.expires_at = MaxTime + Resolution, !.well_formed = FALSE]

Deciding == [Asking EXCEPT !.op = "decide", !.caller = board]
Cancelling == [Asking EXCEPT !.op = "cancel"]
Expiring == [Asking EXCEPT !.op = "expire", !.caller = timer]
Reading == [Asking EXCEPT !.op = "read"]

\* One request and everything that can happen to it.
LifecycleInputs ==
  {Asking, Deciding, [Deciding EXCEPT !.decision = "rejected"], Cancelling,
   [Cancelling EXCEPT !.caller = rival], Expiring, Reading, [Reading EXCEPT !.caller = rival],
   [Deciding EXCEPT !.human = FALSE], [Deciding EXCEPT !.caller = shop], Overlong}

\* Requests that agree or disagree on id, key, matter and deadline, two of them
\* crossing the ids and keys of the others.
ReplayInputs ==
  {Asking, [Asking EXCEPT !.matter = m2],
   [Asking EXCEPT !.expires_at = MCDeadline + 1],
   [Asking EXCEPT !.expires_at = MCDeadline + 2],
   [Asking EXCEPT !.request_id = r2, !.idempotency_key = k2],
   [Asking EXCEPT !.idempotency_key = k2],
   [Asking EXCEPT !.request_id = r2],
   [Asking EXCEPT !.matter = m3], [Asking EXCEPT !.well_formed = FALSE], Overlong}

\* A lifecycle with one decision, and requests that collide with its request.
D1Inputs ==
  {Asking, [Asking EXCEPT !.idempotency_key = k2], [Asking EXCEPT !.matter = m2],
   Deciding, Cancelling, [Cancelling EXCEPT !.caller = rival], Expiring,
   Reading, [Reading EXCEPT !.caller = rival], Overlong}

\* Two rows to lock in either order, and a transition that waits for one.
CrossingInputs ==
  {Asking, [Asking EXCEPT !.request_id = r2, !.idempotency_key = k2],
   [Asking EXCEPT !.idempotency_key = k2], Expiring}

\* A request, its expiry and its reading, around a lifecycle.
PluginInputs == {[in EXCEPT !.expires_at = 1] : in \in {Asking, Expiring, Reading}}
=============================================================================
