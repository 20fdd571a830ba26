--------------------------- MODULE PostgresPlugin ---------------------------
(***************************************************************************)
(* One instance of the PostgreSQL plugin around its store:                 *)
(* lenso-business-approval-postgres-plugin/src/lib.rs, with the schema     *)
(* workflows of operator.rs and schema.rs.  The instance runs on one       *)
(* thread, so what the code does between two awaits is one step.           *)
(*                                                                         *)
(* The kernel activates an instance that is not active and deactivates one *)
(* that is; it may stop waiting for either hook.  A pool (sqlx) that is    *)
(* being closed hands out no connection, and is closed when the last one   *)
(* is back; a call keeps its connection from BEGIN to the end of its       *)
(* transaction.  Both are outside this repository.                         *)
(***************************************************************************)
EXTENDS PostgresStore, FiniteSets

CONSTANTS
  Pools,     \* the pools the activations may open
  PoolSize   \* connections per pool

Plan == 2   \* MIGRATIONS: create-business-approval, bind-immutable-intent

ASSUME PluginAssumption == PoolSize \in Nat \ {0} /\ None \notin Pools \cup 0..Plan

VARIABLES
  hook,      \* where the lifecycle hooks are
  prepared,  \* the `prepared' cell of the plugin
  taken,     \* the pool a deactivation has taken out of it
  pools,     \* the state of each pool
  handle,    \* the pool each call cloned out of `prepared'
  installed  \* the last migration of the schema, None while there is no schema

pluginVars == <<vars, hook, prepared, taken, pools, handle, installed>>
lifecycle == <<hook, prepared, taken, pools, installed>>

PluginTypeOK ==
  /\ hook \in {"inactive", "resolving", "preparing", "active", "closing"}
  /\ prepared \in Pools \cup {None}
  /\ taken \in Pools \cup {None}
  /\ pools \in [Pools -> {"unused", "open", "closing", "closed"}]
  /\ handle \in [Calls -> Pools \cup {None}]
  /\ installed \in 0..Plan \cup {None}

-----------------------------------------------------------------------------
(* Calls *)

\* The steps that still have to get a connection.
Unconnected == {"begin", "select"}

Connected(p) == {c \in Calls : handle[c] = p /\ pc[c] \notin Unconnected \cup {"idle"}}

IsOpen(p) == p # None /\ pools[p] = "open"

Acquirable(p) == IsOpen(p) /\ Cardinality(Connected(p)) < PoolSize

\* A call that is answered drops its clone.
KeepHandle(c) ==
  /\ handle' = [handle EXCEPT ![c] = IF pc'[c] = "idle" THEN None ELSE @]
  /\ UNCHANGED lifecycle

\* service() clones the cell before anything of the call is looked at.
Call(c) ==
  /\ Invoke(c)
  /\ handle' = [handle EXCEPT ![c] = IF pc'[c] = "idle" THEN None ELSE prepared]
  /\ UNCHANGED lifecycle

\* Fault: the deadline query takes a second connection.
ServeTwice(c) ==
  /\ Statement(c)
  /\ pc[c] \in Unconnected \cup {"due"} => Acquirable(handle[c])
  /\ KeepHandle(c)

\* A statement of the store, the first one once a connection is free.
Serve(c) ==
  /\ Statement(c)
  /\ pc[c] \in Unconnected => Acquirable(handle[c])
  /\ KeepHandle(c)

\* Fault: a missing pool is blamed on the request.
RefuseInvalid(c) ==
  /\ pc[c] \in Unconnected /\ ~IsOpen(handle[c])
  /\ Return(c, Refused("InvalidRequest"))
  /\ KeepHandle(c)

\* PostgresStore::prepared finds no pool, or the pool is closed.
Refuse(c) ==
  /\ pc[c] \in Unconnected /\ ~IsOpen(handle[c])
  /\ Return(c, Unavailable("Database"))
  /\ KeepHandle(c)

Lose(c) == (Abort(c) \/ DeadlockVictim(c)) /\ KeepHandle(c)

-----------------------------------------------------------------------------
(* Lifecycle hooks *)

Activate ==
  /\ hook = "inactive"
  /\ hook' = "resolving"
  /\ UNCHANGED <<vars, prepared, taken, pools, handle, installed>>

\* The secret comes back, or is rejected, late or cancelled.
ResolveSecret ==
  /\ hook = "resolving"
  /\ hook' \in {"preparing", "inactive"}
  /\ UNCHANGED <<vars, prepared, taken, pools, handle, installed>>

\* Fault: activation does not look at the schema.
PrepareUnverified ==
  /\ hook = "preparing"
  /\ \E p \in Pools :
       /\ pools[p] = "unused"
       /\ pools' = [pools EXCEPT ![p] = "open"]
       /\ prepared' = p
  /\ hook' = "active"
  /\ UNCHANGED <<vars, taken, handle, installed>>

\* OwnedPostgres::prepare connects and finds exactly the plan, or activation
\* fails; the pool is put into the cell in the same step.
Prepare ==
  /\ hook = "preparing"
  /\ \/ /\ installed = Plan
        /\ \E p \in Pools :
             /\ pools[p] = "unused"
             /\ pools' = [pools EXCEPT ![p] = "open"]
             /\ prepared' = p
        /\ hook' = "active"
     \/ hook' = "inactive" /\ UNCHANGED <<prepared, pools>>
  /\ UNCHANGED <<vars, taken, handle, installed>>

\* Fault: the pool is closed where it is, and stays in the cell.
DeactivateInPlace ==
  /\ hook = "active"
  /\ hook' = "closing"
  /\ taken' = prepared
  /\ pools' = [pools EXCEPT ![prepared] = "closing"]
  /\ UNCHANGED <<vars, prepared, handle, installed>>

\* Fault: the pool is dropped and not closed.
DeactivateDropping ==
  /\ hook = "active"
  /\ hook' = "inactive"
  /\ prepared' = None
  /\ UNCHANGED <<vars, taken, pools, handle, installed>>

\* The pool leaves the cell and is marked closed without an await in between.
Deactivate ==
  /\ hook = "active"
  /\ hook' = "closing"
  /\ taken' = prepared
  /\ prepared' = None
  /\ pools' = [pools EXCEPT ![prepared] = "closing"]
  /\ UNCHANGED <<vars, handle, installed>>

\* Fault: nobody awaits close().
ClosedAtOnce ==
  /\ hook = "closing"
  /\ hook' = "inactive"
  /\ pools' = [pools EXCEPT ![taken] = "closed"]
  /\ taken' = None
  /\ UNCHANGED <<vars, prepared, handle, installed>>

\* close().await returns and with it the hook.
Closed ==
  /\ hook = "closing"
  /\ Connected(taken) = {}
  /\ hook' = "inactive"
  /\ pools' = [pools EXCEPT ![taken] = "closed"]
  /\ taken' = None
  /\ UNCHANGED <<vars, prepared, handle, installed>>

\* The kernel stops waiting; the pool goes on refusing connections.
AbandonClose ==
  /\ hook = "closing"
  /\ hook' = "inactive"
  /\ taken' = None
  /\ UNCHANGED <<vars, prepared, pools, handle, installed>>

-----------------------------------------------------------------------------
(* The schema operator, a process of its own.  A failure may leave the       *)
(* migrations applied so far.                                                *)

Setup ==
  /\ installed = None
  /\ installed' \in 0..Plan
  /\ UNCHANGED <<vars, hook, prepared, taken, pools, handle>>

Upgrade ==
  /\ installed # None
  /\ installed' \in installed..Plan
  /\ UNCHANGED <<vars, hook, prepared, taken, pools, handle>>

-----------------------------------------------------------------------------

\* A new instance, on a schema that may be missing, old or complete.
PluginInit ==
  /\ Init
  /\ hook = "inactive"
  /\ prepared = None
  /\ taken = None
  /\ pools = [p \in Pools |-> "unused"]
  /\ handle = [c \in Calls |-> None]
  /\ installed \in 0..Plan \cup {None}

CallStep(c) == Call(c) \/ Serve(c) \/ Refuse(c) \/ Lose(c)

HookStep == Activate \/ ResolveSecret \/ Prepare \/ Deactivate \/ Closed \/ AbandonClose

PluginNext ==
  \/ \E c \in Calls : CallStep(c)
  \/ HookStep
  \/ Setup \/ Upgrade
  \/ Tick /\ UNCHANGED <<lifecycle, handle>>

PluginSpec == PluginInit /\ [][PluginNext]_pluginVars

(***************************************************************************)
(* Fairness: that of the store, with connections handed out first come,    *)
(* first served; a call told that there is no pool answers, and close()    *)
(* returns once it can.  Nothing makes the kernel run or abandon a hook.   *)
(***************************************************************************)
PluginFairSpec ==
  /\ PluginSpec
  /\ \A c \in Calls : SF_pluginVars(Serve(c)) /\ WF_pluginVars(Refuse(c))
  /\ WF_pluginVars(\E c \in Calls : DeadlockVictim(c) /\ KeepHandle(c))
  /\ WF_pluginVars(Closed)

-----------------------------------------------------------------------------
(* Properties *)

\* The pool in the cell can be used: it is open, and the schema it leads to has
\* the whole plan, also when operators and earlier activations failed halfway.
PreparedUsable == prepared # None => IsOpen(prepared) /\ installed = Plan

\* No transaction runs on a schema without the whole plan, however long ago its
\* call cloned the pool.
TransactionsOnPlan ==
  \A c \in Calls : pc[c] \notin Unconnected \cup {"idle"} => installed = Plan

\* No pool is lost open: any that was opened is in the cell, or was told to close.
NoPoolLeft == \A p \in Pools : pools[p] = "open" => prepared = p

\* Once deactivate has returned, a call that still holds that pool is told that
\* the store is unavailable and leaves the table as it is.
QuietOnceClosed ==
  [][\A c \in Calls :
       handle[c] # None /\ pools[handle[c]] = "closed" /\ pc'[c] # pc[c]
         => table' = table /\ answer'[c].kind = "unavailable"]_pluginVars

\* deactivate returns: the calls it waits for all end, also where more calls
\* want connections than the pool has.
Deactivates == hook = "closing" ~> hook # "closing"

\* Every call is answered, with or without a pool.
CallsAnswered == \A c \in Calls : pc[c] # "idle" ~> pc[c] = "idle"

\* The plugin is a store: pools, hooks and schema workflows only delay or fail
\* calls, so all that is true of PostgresStore is true of it.
ImplementsStore == Spec

-----------------------------------------------------------------------------
(* The inductive invariant *)

PluginInv ==
  /\ PluginTypeOK
  /\ prepared # None <=> hook = "active"
  /\ taken # None <=> hook = "closing"
  /\ taken # None => pools[taken] = "closing"
  /\ \A p \in Pools : pools[p] # "unused" => installed = Plan
  /\ \A p \in Pools : pools[p] = "open" <=> prepared = p
  /\ \A c \in Calls :
       /\ handle[c] # None => pools[handle[c]] # "unused"
       /\ pc[c] = "idle" => handle[c] = None
       /\ pc[c] \notin Unconnected \cup {"idle"} =>
            handle[c] # None /\ pools[handle[c]] # "closed"
=============================================================================
