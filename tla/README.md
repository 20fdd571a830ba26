# Business approvals in TLA+

A verification development beside the Lenso Business Approval plugins: TLA+
modules translated from the source, TLC runs on small instances, and proofs
that TLAPS checks for every value of the constants. Paths below are relative
to `src/`; `core` is `crates/lenso-business-approval-core`, `postgres-plugin`
is `crates/lenso-business-approval-postgres-plugin`, `d1-plugin` is
`crates/lenso-business-approval-d1-plugin`.

## The system

A business plugin asks for approval of something (`request`), a decider
approves or rejects it (`decide`), the requester may withdraw it (`cancel`), a
trusted executor ends it after its deadline (`expire`), and all of them may
look at it (`read`). One row per request goes from `pending`, revision 1, to
one of four terminal statuses, revision 2, and never moves again. Callers are
plugin instances, admitted by three exact lists; requests are idempotent per
requester instance and key.

| component | state | operations | talks to |
|---|---|---|---|
| core: aggregate and service (`core/src/model.rs`, `lib.rs`) | none | admission, intent, evidence rules, error mapping, responses | a store, through the `ApprovalStore` trait |
| PostgreSQL store (`postgres-plugin/src/storage.rs`, `service.rs`, `migrations/`) | the table; per call a transaction and its row locks | `request`, `read`, `decide`, `cancel`, `expire`, one SQL statement after another | PostgreSQL through a pool |
| PostgreSQL plugin (`postgres-plugin/src/lib.rs`) | the cell with the prepared pool | `activate`, `deactivate`, the five operations | the kernel, secrets, `lenso_postgres_kit` |
| schema plan, operator (`schema.rs`, `operator.rs`) | the owned schema | setup, upgrade, verify | `lenso_postgres_kit` |
| D1 store (`d1-plugin/src/host_facilities.rs`, `store.mjs`) | the table, its columns repeated inside `record_json` | the five operations, one atomic batch each | Workers D1 |
| D1 setup and readiness (`store.mjs`, `d1-plugin/src/lib.rs`) | schema version row | `setup`, `readiness`, `prepare` | Workers D1 |
| validators (`core/src/lib.rs`, 366-371 and 464-536) | none | identifiers, references, kinds, reasons, digests, caller lists | - |
| capability contract (`crates/lenso-capability-business-approval`) | none | wire types, dispatch by type or by name, error codecs | the kernel, lanes of other processes |

What is hard about it:

- *Concurrency.* Several processes and connections work on one row. The
  `UPDATE` of a transition tests no status: the lock of an earlier
  `SELECT ... FOR UPDATE`, the status test on the locked row and, last, the
  table's `CHECK` constraints keep a second outcome out.
- *Idempotency.* A request is inserted unless its id or its key is taken, then
  looked up again and compared. Two rows can stand in the way of one request,
  and locking them in no stated order can deadlock two crossing requests.
- *Failure.* A statement can fail anywhere, a caller can stop waiting, and a
  commit's reply can be lost after it took effect ("a submitted transition may
  have committed", `core/src/model.rs:94`). The caller then retries.
- *Two stores, one promise.* D1 has no interactive transactions: a transition
  is one conditional `UPDATE` and a `SELECT` in a batch, the status and the
  deadline are tested on columns that repeat what `record_json` says, and the
  reason for an unchanged row is worked out afterwards.
- *Time.* `requested_at` and the admission of the deadline use the service's
  clock, `terminal_at` and expiry the database's, which is read when the
  transaction begins and not when the row is locked. On D1 every worker uses
  its own clock, and a transition reads it twice, once for `terminal_at` and once
  for the deadline. Deadlines are cut to
  microseconds before they are stored and compared, and one whose UTC offset
  carries it past the last instant of a timestamp cannot be cut at all.
- *Hooks.* A call clones the pool when it arrives and uses it after awaits;
  `deactivate` takes the pool and waits for its close meanwhile, the kernel may
  abandon either hook, and the next activation opens another pool.
- *Setup.* The D1 setup looks, creates and looks again in statements of their
  own, beside other setups, releases and applications; the PostgreSQL plan has
  two migrations and may stop after the first.
- *Releases.* An error passes through instances that may not know its code, in
  one process or over lanes, and is decoded and encoded at each lane.

What makes it correct: one outcome per request, recorded by somebody entitled
to it and never changed; expiry not before the deadline; one row per id and
per key; answers that tell the truth about what was committed; no requester
sees another's request; no pool is left open, nothing runs on half a schema,
and closed means closed; errors arrive whole; every call is answered; and, above them all, that each
call takes effect at one instant between its arrival and its answer.

## Modules

| module | what it is |
|---|---|
| `ApprovalModel` | the row, the intent, `validate_evidence`, `same_intent`, `normalize_timestamp`, the table's constraints |
| `ApprovalService` | what the core does before and after its store, as operators on one call: admission, the intent, the row a transition writes, who may read or cancel, the answers |
| `ApprovalLedger` | the abstract specification: one table, each admitted call takes effect at one instant (`Serve`), or fails without effect, and its answer may be lost |
| `PostgresStore` | `storage.rs`, one SQL statement a step; its properties, its refinement of `ApprovalLedger` and its inductive invariant |
| `D1Store` | `host_facilities.rs` and `store.mjs`, one clock reading or one batch a step; its properties, its refinement of the same ledger and its inductive invariant |
| `PostgresPlugin` | one instance of the PostgreSQL plugin around `PostgresStore`: hooks, pools, the schema's workflows; its refinement of the store and its inductive invariant |
| `D1Setup` | `setup`, `readiness` and `prepare` of the D1 profile, one statement a step, and its inductive invariant |
| `Identifiers` | the validators, as operators over texts and lists, next to the published schemas |
| `Capability` | a call through several instances: dispatch, results and error codecs of the generated crate |
| `MCInputs` | the sets of inputs the runs choose from |
| `MCPostgresStore`, `MCD1Store`, `MCPostgresPlugin`, `MCD1Setup`, `MCIdentifiers`, `MCCapability` | the modules with their inputs, and symmetry where it is used, for TLC |
| `ApprovalServiceProofs` | lemmas about rows and answers, used by both stores' proofs |
| `PostgresStoreProofs` | the invariance proof of `PostgresStore` and its theorems; that what its callers are told is true; who can deadlock |
| `PostgresLedgerProofs` | that `PostgresStore` implements `ApprovalLedger` |
| `PostgresPluginProofs` | that the plugin is the store, hence the ledger, and the theorems about its hooks |
| `D1StoreProofs` | the invariance proof of `D1Store` and its theorems; that what its callers are told is true; that it implements `ApprovalLedger` |
| `D1SetupProofs` | the invariance proof of `D1Setup` and its theorems |
| `IdentifiersProofs` | the properties of `Identifiers`, for texts and lists of any length |
| `CapabilityProofs` | the inductive invariant of `Capability` and its properties, for any number of instances |

Both stores extend `ApprovalService`, as both plugins wrap one
`ApprovalService<S: ApprovalStore>`, and both instantiate `ApprovalLedger`.
`PostgresPlugin` extends `PostgresStore` and composes with it through the pool a
call holds. `D1Setup` meets `D1Store` only at the worker that `prepare` found
ready; `Identifiers` only at the verdict `well_formed`; `Capability` at the
responses and error codes. They are checked apart. A
call of the ledger arrives (`Arrive`: it is refused, fails at once, or is let
through with the time it was asked), reads a clock if it is a transition
(`ReadClock`), and is served or given up. `Skew` and `Drift` bound the error of
the two clocks. For PostgreSQL `Drift` is 0 and one reading serves as the time
recorded (`stamp`) and the time compared with the deadline (`due`); a D1 worker
reads the two apart.

### How PostgresStore follows the code

A *call slot* (`Calls`) is a pooled connection of any process on the schema,
used by one call after another, so a slot that calls again with the same input
is a retry. `pc[c]` names the next statement of the call:

| action | code |
|---|---|
| `Invoke` | the operation in `core/src/lib.rs` up to the store call: caller list, human context (decide), conversion of the deadline (request), format checks, digest rule and deadline (request); what is not admitted is answered here (`Rejection`) |
| `Begin` | `pool().begin()`; fixes `transaction_timestamp()` |
| `Insert` | `INSERT ... ON CONFLICT DO NOTHING RETURNING`, storage.rs 36-60; waits while a conflicting row version is uncommitted |
| `Resolve`, `Gather`, `Compare` | the lookup by key or id `FOR UPDATE`, the locks it takes one by one, then `rows.len()`, decoding and `same_intent`, 62-81 |
| `Lock` | `lock_request`, 220-232: waits for the row, returns it as committed |
| `Check` | the early returns of `cancel` (requester first, then status), `decide` and `expire` |
| `Due` | the deadline query of `expire`, 186-195 |
| `Update` | `UPDATE ... WHERE request_id = $1 RETURNING`, decoded |
| `Select` | `read`, one statement, decoded |
| `Commit` | `commit` and the response, or the loss of its reply |
| `Abort` | failure of any statement, closed pool, caller gone: rollback, `Unavailable` |
| `DeadlockVictim` | PostgreSQL cancels one of a set of calls waiting for each other |
| `Tick` | the database's clock |

`Write` is the pair of an `INSERT` or `UPDATE` and the `CHECK` constraints;
`Decoded` is `decode_approval`. Their refusals are modelled as internal faults
(`RuntimeFailures` other than `Database` and `OutOfRange`) so that the
development can show that they never happen; the caller sees all of them as one
runtime failure. `OutOfRange` does happen: `normalize_timestamp` fails on a deadline
that parses but lies past the last instant of a timestamp in UTC, such as
`9999-12-31T23:59:59-01:00`, and does so before any format check is made
(`core/src/lib.rs:127`). `Deadlines` go one stored unit beyond `Times` for it, and
`Rejection` keeps the order of the early returns. `DefencesIdle` says that a
runtime failure is an outage or the answer to such a request, and nothing else.
`wrote` is a history variable. The `matter` of a request stands for all its
immutable content that the code only compares; `well_formed` stands for every
byte-level format check of an input; `Undigested` are the matters of kind
`management-operation` without a digest, which the service refuses.

Of PostgreSQL the model takes: READ COMMITTED statements that see what is
committed when they start, row locks until the end of the transaction, inserts
that wait for conflicting versions in flight, deadlock detection, and
`transaction_timestamp()`. `Held`, `Free`, `Released`, `Uncommitted`, `Gather`,
`Deadlocked`, `DeadlockVictim`, `Tick` and the fairness are therefore external.

### How D1Store follows the code

A call slot is a call of any worker; all workers share the table through
`withSession("first-primary")`, and D1 runs a batch alone.

| action | code |
|---|---|
| `Invoke` | the operation in `core/src/lib.rs` up to the store call; a request reads `now_us` (store.mjs:28) and fails without it |
| `StampAt`, `ReadNow` | `at` and `now`, store.mjs:15: two readings, any order of values |
| `Request` | the batch `INSERT ... ON CONFLICT DO NOTHING`, `SELECT`, store.mjs:30-36, then host_facilities.rs:158-173 |
| `Read` | the constrained `SELECT`, store.mjs:37 |
| `Transition` | the batch of `UPDATE` and `SELECT`, store.mjs:17-25, then the explanation of host_facilities.rs:84-110 |
| `Abort` | the facility throws, or the event closes, before the batch |
| `Tick` | the time, which the workers' clocks follow within `Skew` |

`Receipt` gives each batch two outcomes: the reply comes back, or it is lost,
malformed (`assertBatch`) or cut off, and the caller hears `Unavailable` of a
batch that took effect. `Matches` is the `WHERE` clause and sees only columns;
`Ended` is the `SET` clause and writes columns and record separately, so that
`ColumnsAgree` is a fact about them and not an assumption. `DateNow` shows
multiples of `Millisecond`, within `Skew` of `now`. As on PostgreSQL, `decide`
does not look at `expires_at`. The recorded `terminal_at` of an expiry may lie
before the deadline, because `due` and not `stamp` is compared with it; no
text of the repository says otherwise. A request that selects no row at all is
answered as a conflict (host_facilities.rs:158); the batch rules that out.

### How PostgresPlugin follows the code

The instance runs on one thread, so whatever the code does between two awaits
is one step; the steps of the store are those of `PostgresStore`.

| action | code |
|---|---|
| `Call` | `service()` clones the cell (postgres-plugin/src/lib.rs), then `Invoke`; the clone (`handle`) lives as long as the call |
| `Serve` | a statement; `BEGIN` and `read`'s `SELECT` wait for a connection of an open pool, later statements have it |
| `Refuse` | `PostgresStore::prepared` finds no pool, or the pool is closed |
| `Lose` | `Abort`, `DeadlockVictim` |
| `Activate`, `ResolveSecret`, `Prepare` | `activate` up to its await of the secret, the secret or its failure, `OwnedPostgres::prepare` and the store into the cell |
| `Deactivate`, `Closed`, `AbandonClose` | `deactivate` takes the cell and marks the pool closed; `close().await` returns; the kernel stops waiting |
| `Setup`, `Upgrade` | operator.rs, which may stop after any migration of `Plan` |

What a pool does when it is closed, and that the kernel activates only an
instance that is inactive, are facts about sqlx and the kernel, and external.
`NoPoolLeft` rests on the second: `activate` itself would replace a pool without
closing it. The reverse holds by the code: a hook that fails or is abandoned
leaves an instance that can be activated again.

### How D1Setup follows the code

`List`, `LookForRequests`, `LookAtVersion`, `Batch` and `Confirm` are the
statements of `setup(database)`, store.mjs:8 and its `DDL`, in their order; `Lose` stops it
before or after any of them, and `Batch` may take effect and lose its reply.
`Prepare` is the plugin's hook with `readiness()`. `ReleaseInstalls`,
`ReleaseMigrates` and `ForeignTable` are what else may happen in that database;
they are no code of this repository, and without them most properties would
hold trivially. So is `ForeignSchema`, a `lenso_approval_schema` without a row, which
the code takes for an incompatible one (`Empty`) and not for a missing one (`None`). `requests` says whose table there is, since the statements tell
only whether there is one. `begun` is a history variable.

### How Identifiers follows the code

The validators are pure, so the module has no protocol: its behaviours
enumerate every text and every list up to a length, and its invariants compare
what the code accepts with what the published schemas say. A text is a sequence
of *kinds* of character, told apart as far as a validator tells them apart;
`Bytes` counts the wide ones twice, as `str::len` would (any width above one
makes the same difference), and blanks and control characters may be wide too, as
U+3000 and U+0085 are to `trim` and `is_control`. `Segments` are the parts of `str::split('/')`, empty
ones included, as stretches between two neighbouring slashes: the validators
ask of all parts alike, so their order does not matter.

### How Capability follows the code

Instance `Hops` calls, instance 0 provides, each instance between them passes
the call on and the result back with `?`. `release` and `link` are chosen once:
of which release each instance is, and whether it reaches the next in its own
process (`native`) or over a lane (`portable`).

| action | code |
|---|---|
| `InvokeTyped` | the typed endpoint of the same release, in the same process |
| `InvokeErased` | the erased endpoint: the operation by name, then the downcast of the request; over a lane, what was decoded |
| `NoObject` | the provider's object is gone |
| `Provide`, `ProvideForeign` | a method of this crate's trait returns; a provider written without it writes JSON of its own, which may not decode, as an error or as a success |
| `Return` | `IntoResult` onto the provider trait, the codec if there is a lane, `ClientResult`; or the lane loses it |

`Serialize` and `Deserialize` are the error codecs, by form (a bare string, an
object, anything else). Left out: an `Unknown` error some plugin builds by hand
with the extra keys `code` or `payload`, which no decoder produces. That a
failure to decode at a lane is a runtime failure is the kernel's, and external.

Operators whose comment starts with "Fault" are wrong variants of the operator
that follows them; nothing uses them. Each is a bug the code could have had,
and substituting it makes TLC report the property it is paired with in
`PROJECT.json`, which is how each property is known to say something.

## Runs

| run | question | size |
|---|---|---|
| `lifecycle` | two connections, one request, all operations with two decisions, a foreign requester's cancel and read, a non-human decision, an unlisted decider, a malformed request with a deadline past the last instant; clock 0..3, deadline 2, service clock up to 1 off | 226,000 states |
| `replay` | two connections, two ids, two keys: identical, changed and crossing requests, deadlines that differ below and above the stored resolution (2 units), inadmissible ones | 86,000 states |
| `answers` | under `FairSpec` every call is answered: crossing requests and transitions on the same rows | 72,000 states |
| `d1_lifecycle` | two workers, one request, the inputs of `lifecycle` but for the second decision, which differs from the first only in a value the `UPDATE` carries, and the two inadmissible ones, and requests that collide with it by key or matter; clock 0..3 shown in steps of 2, up to 1 off | 159,000 states |
| `plugin` | two calls over two pools of one connection each, all hooks and workflows, under `PluginFairSpec` | 103,000 states |
| `d1_setup` | three setups, a worker, another release and another application | 12,500 states |
| `identifiers` | every text of up to four characters of twelve kinds, every list of up to four of five names, against limits of two to four | 23,000 states |
| `capability` | a caller, two relays and a provider, each of either release or, the provider, foreign; a new code and a new operation | 22,000 states |
| `late_retry`, `late_decision`, `d1_adoption`, `reasons` | four statements of the documentation that the code does not keep, see below | |

`lifecycle`, `replay`, `d1_lifecycle` and `d1_setup` use symmetry between call
slots or setups, which nothing distinguishes; no run that checks liveness does.

`lifecycle` checks `TerminalAuthority`, `ExpiredAfterDeadline`, `HonestAnswers`,
`SingleWinner`, `RequesterIsolation`, `DefencesIdle`, `TerminalFrozen` and
`ImplementsLedger`, that every behaviour is one of the ledger. `replay` checks
`UniqueRows`, `TruthfulRefusals` and the inductive invariant `IInv` where
inserts race, and `ImplementsLedger` again. `d1_lifecycle` checks
`TerminalAuthority`, `EffectsDurable`, `AnswersStand` (what callers are told is
what was done and stays true, the five statements it conjoins), `ExpiredAfterDeadline`,
`DefencesIdle`, `IInv` and `ImplementsLedger`. `plugin` checks `PluginInv`,
`TransactionsOnPlan`, `NoPoolLeft`, `QuietOnceClosed`, `ImplementsStore`, and
that `deactivate` returns (`Deactivates`) and calls are answered with or without
a pool (`CallsAnswered`). `d1_setup` checks `SetupInv`, `NotAnothers`,
`HonestRefusals` and `NothingReplaced`; `identifiers` `AcceptsAsPublished`,
`ReasonsStorable`, `CallersUnambiguous`, `SecretsStayInside` and `ListsAreSets`;
`capability` `ErrorsWhole`, `Recognised`, `VerdictsKept` and
`FailuresExplained`. Every property is stated in a sentence above its
definition.

*Bounds.* Two call slots make every pairwise race; they are reused without
limit, so sequences of calls are as long as the state space allows, and the
proofs cover any number of slots. Two ids and two keys are the fewest with
which requests cross and deadlock. Clocks run to `MaxTime`; a deadline of 2
leaves room before, at and after it, and a skew of 1 puts the service on either
side. On D1 a clock that shows every second tick, up to one off, gives a worker
readings before and after the same instant. Two pools are an activation, a
deactivation and another activation while a call holds the first pool, and one
connection for two calls is a pool that is full. Three setups are one that
decides, one that overtakes it and one that is run again. The limits of
`identifiers` are miniatures of the code's, and texts and lists go one beyond
the smaller ones and reach the largest; `a/..`, the shortest reference that
climbs at its end, has four characters. Three hops put a relay of either
release next to the caller and next to the provider. Nothing else is bounded:
there are no counters.

*Fairness* (`FairSpec`). Strong fairness of each call's statements: PostgreSQL
runs what it is sent, and its lock queues are first come, first served, so a
waiter is not overtaken for ever. Weak fairness of the deadlock detector.
None for `Invoke`, `Abort` or `Tick`: nobody has to call, fail or age.
`PluginFairSpec` takes the same for the calls of an instance, where a strongly
fair `Serve` also says that the pool hands out connections first come, first
served; a call that finds no pool is told so, and `close()` returns once every
connection is back. The hooks are under no fairness: the kernel need not run
them.

Deadlock checking is on wherever the system goes on for ever: there TLC's
deadlock would be a state where nobody can even call or abort. It is off in
`identifiers` and `reasons`, where the enumeration ends, and in `capability`,
where a call is over when it is answered.

## What is proved

`PostgresStoreProofs` proves, for all sets of calls, ids, keys, callers and
inputs, all clock bounds, skews and resolutions, and all policies:

- `Invariance`: `Spec => []IInv`;
- from it `TypeCorrect`, `Uniqueness`, `Authorised`, `NotEarly`, `DefencesNeverAct`;
- `TerminalRowsFrozen`: the action property that rows are never lost, intents
  never change and terminal rows never change at all.

It proves `AnswersInvariance` and from it `Honesty`,
`OneWinner`, `RefusalsTrue` and `Isolation`: the answers of the store are true,
one call creates a request and one ends it, and no mere requester is shown
another's. And it proves `OnlyRequestsCross`: a cycle of waits runs through crossing requests and nothing else, so `Deadlocked`, which
looks for deadlocks only there, misses none. `PostgresLedgerProofs` proves
`Implements`: `Spec => ImplementsLedger`.

`PostgresPluginProofs` proves `PluginIsStore` (`PluginSpec => Spec`), from it
`PluginIsLedger` and `PluginAnswers`, that the plugin with all its hooks
implements the ledger and answers as truly as the store, and of the hooks
`PluginInvariance`, `Usable`, `OnPlan`, `NoneLeft` and `QuietAfterClose`.
`D1SetupProofs` proves `SetupInvariance`, `WholeSchema`, `NeverAnothers`,
`RefusalsHonest` and `Preserved`, for any number of setups and workers.

`D1StoreProofs` proves for `D1Store`, as generally, `Invariance` and from it
`TypeCorrect`, `Uniqueness`, `Agreement`, `Authorised`, `NotEarly`, `Durable`,
`Final` and `DefencesNeverAct`; then `AnswersHold`, `TerminalRowsFrozen` and
`Implements`: `Spec => ImplementsLedger`.

`IdentifiersProofs` proves `AsPublished`, `Reasons`, `Unambiguous`,
`SecretsInside` and `Lists` for every set of names, every limit and texts and
lists of any length, so nothing rests on the miniature limits of the runs.
`CapabilityProofs` proves `WireInvariance` and from it `Whole`,
`RecognisedByAll`, `Verdicts` and `Explanations` for any number of hops, any
choice of releases and links, and any codes, operations, payloads and keys.

The assumptions are the named ones on the constants: `ModelAssumption`
(times are naturals, the resolution is positive, `None` is no value),
`RowAssumption`, `ServiceAssumption` (the policy lists name instances, inputs are
typed), `StoreAssumption` of either store (skews are naturals; on D1, a
millisecond is a whole number of stored units), `PluginAssumption` (a pool has a
connection), `SetupAssumption` (no version is `None` or `Empty`, and these differ), `LimitsAssumption` (the
limits are naturals), `NamesAssumption` (the names lists are filled with are
texts) and `CapabilityAssumption` (there is a hop; "no payload" is no payload). TLC evaluates them in the runs of their modules.

None of the row invariants is inductive alone: an `Update` that tests no status
is harmless only because of what happened two statements earlier. `IInv` adds
what each call knows at its statement. `Serving`: it was admitted, is where its
operation takes it, and the time it acts at is in the past. `Transitioning`:
past `Lock` it owns the lock of a stored row, pending once checked and due once
tested, and its draft is that row terminated. `Requesting`: in doubt, some row is in
its way; at its commit it owns the stored row of its replay or has written a row
no stored row conflicts with. `InsertsDisjoint`: two inserts in flight never
conflict. The proof has one lemma per action. `LocalStep` reduces every action
but `Commit` and `Tick` to the moving call, since it changes neither the table
nor anybody else's lock; `Committed` says what a commit can bring to the table
and is also what `TerminalRowsFrozen` rests on. `TerminatedRow` and `PendingRow`
say that the rows the operations write satisfy the `CHECK` constraints, so the
defences never act.

`IInv` says what is stored and held, and nothing of what was told. `AnswersInv`
adds, for every call, that its last answer is true of the table (`TrueOf`),
agrees with what it wrote (`Agrees`), and that what it wrote is still there
(`Traced`); a call under way has neither answered nor written, and the rows a
request has locked are in its way (`Locking`), which is why a lookup that finds
only a replay may call it one. Every part is stable because rows persist and
outcomes do not change (`StaysTrue`, `StaysTraced`), so a step of another call keeps it
(`BystanderKeeps`) and each action has to be looked at for its own call only.

The refinement maps a transaction to the instant of its answer: a commit,
whether or not its reply is lost, or a refusal, is the ledger's `Serve`
(`ServeMaps`); a failed transaction is the ledger's failure (`FailMaps`); what
went before leaves the ledger as it is (`UnderWayMaps`). The reading of the
database's clock, at `Begin`, is the ledger's `ReadClock`. `ActingInv` adds what
this needs: the database's clock shows whole stored units, so that `stamp` and
`due` are one reading, and a request commits a row of its own intent. That the
refusal at `Lock`, `Check` or `Due` is the ledger's at that instant is where the
row lock is used.

`PluginInv` says that exactly the pool in the cell is open and that a pool with a
transaction is not yet closed; a schema never loses a migration, so a pool once
prepared stays on the whole plan. `SetupInv` ties the version to the table: the
batch is atomic, so neither is ever there for our release without the other.

`IInv` of `D1Store` is simpler, since nothing is held between batches. `Serving`
says what a call under way has been admitted for and which of its clocks it has
read; `UniqueRows` makes the row an `UPDATE` hits the only one the `SELECT` can
show; `Sound` says that records satisfy the `CHECK` constraints this table does
not have; `ColumnsAgree` carries what the `WHERE` clause found in the columns over
to the record. `ReceiptStep` reduces every batch to three facts: the rows it
leaves are sound, it carries every older row along (`Carried`: same intent, and
the same row if it was terminal), and its reply is one the store may give.
`TransitionCases` and `ReadCases` say what a batch does in terms of records, and
serve both the invariant and the refinement: there, `ServeMaps` maps a batch with
its receipt to the ledger's `Serve`, and `LedgerForeign`, `LedgerTerminal`,
`LedgerEarly` and `LedgerEnded` meet the worker's explanation in the ledger's order.

What a D1 call is told is proved from `AllTold`, which says of every answered
call what its answer and its write still have in the records (`Told`), and of
every two that they did not both create or both end one request (`Apart`). A
batch is the only step that answers with a row, and `ReceiptStep` has already
said that rows are carried along, so `ToldStep` leaves each operation to show
that its own answer is true of the rows its batch left: `FailureSays` does that
for the explanations of `host_facilities.rs:84-110`, which are given without a
lock and are nevertheless final.

Who can deadlock follows from `Queued`: a call that waits to insert or to lock
its one row holds nothing, a transition that updates already has its lock, and
a request locking rows has none of those it still wants. So a call that both
waits and is waited for is at `Gather`.

The validators are proved without induction over texts. Each tests a property
of every character, or of every stretch between two slashes, and the schemas'
grammar, written from them as positions, is met position by position; a list
has as many members as places exactly when no two places agree (`NoneTwice`).

`WireInv` says what has happened up to the instance `at` that holds the call or its result. On the way down, a native link that was passed
joined equal releases (`PassedLink`), and once the provider has spoken all were.
On the way back, the result is the provider's success, or a runtime failure whose
cause is somewhere below (`Explained`), or its domain error with every detail,
a variant of the enum exactly if every release it came through knows the code
(`DomainInv`). A step of `Return` adds one instance to those it quantifies over,
so no induction over hops is needed; `Relayed` and `Decoded` are what the codecs
do to one error.

Only model-checked: liveness (`Answered`, `Deactivates`, `CallsAnswered`), which
is outside TLAPS. The proofs that no transaction is stuck behind a cycle the
detector does not see (`OnlyRequestsCross`) and that the store is quiet after
`deactivate` (`QuietAfterClose`) are the safety part of it. Every invariant and
every other action property of a passing run is proved.

## Where code and documentation differ

- `late_retry`: README.md:15 promises that an identical retry returns the
  existing approval. The deadline is compared with the service's clock before
  the store is asked (`core/src/lib.rs:139`), so a retry after the deadline is
  refused as an invalid request, even when the first reply was lost.
- `late_decision`: docs/management-security.md:25 speaks of "decision-time
  expiry". `decide` never reads `expires_at`: until an executor calls
  `expire`, a request past its deadline can be approved.

- `d1_adoption`: tests/d1-store.test.mjs:14 says that setup "refuses an existing
  unowned aggregate instead of silently adopting it". It looks for the table in a
  statement of its own (`store.mjs:8`); a table that appears between that and the
  batch is adopted by `CREATE TABLE IF NOT EXISTS`.
- `reasons`: decide-request.schema.json:11 publishes a reason as any text of up to
  1000 characters. The service refuses a blank one and one with a control
  character, and counts bytes (`core/src/lib.rs:529`).

## Not modelled

Everything in the repository that keeps state or decides anything is in some
module. Left out are

- `lenso_postgres_kit`, sqlx, PostgreSQL, Workers D1 and the Lenso kernel with
  its admission of instances, which are not in the repository: they appear as what
  the code uses of them, marked external in `PROJECT.json`;
- the plain record types of `generated.rs` and their derived codecs, which do
  nothing but carry fields, and the plan macros, which are static text;
- what digests are of, the wording of errors, packaging scripts and CI.

A worker of an older release that goes on after another release migrated its
database is not followed into `D1Store`: what that release's tables look like is
not in this repository.
