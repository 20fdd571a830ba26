------------------------ MODULE PostgresPluginProofs ------------------------
(***************************************************************************)
(* The plugin is a store, and through it the ledger, and its calls, hooks  *)
(* and schema workflows keep PluginInv, for every set of calls, of pools   *)
(* and every pool size.                                                    *)
(***************************************************************************)
EXTENDS PostgresPlugin, PostgresLedgerProofs

-----------------------------------------------------------------------------
(* The refinement *)

\* Every step of the plugin is a step of the store, or leaves it alone.
LEMMA StoreStep == [PluginNext]_pluginVars => [Next]_vars
<1> SUFFICES ASSUME [PluginNext]_pluginVars PROVE [Next]_vars
  OBVIOUS
<1>1. ASSUME NEW c \in Calls, CallStep(c) PROVE Next
  <2>1. Call(c) => Invoke(c)
    BY DEF Call
  <2>2. Serve(c) => Statement(c)
    BY DEF Serve
  <2>3. Refuse(c) => Abort(c)
    BY DEF Refuse, Abort, Unconnected
  <2>4. Lose(c) => Abort(c) \/ DeadlockVictim(c)
    BY DEF Lose
  <2> QED BY <1>1, <2>1, <2>2, <2>3, <2>4 DEF CallStep, Next
<1>2. HookStep \/ Setup \/ Upgrade => UNCHANGED vars
  BY DEF HookStep, Setup, Upgrade, Activate, ResolveSecret, Prepare, Deactivate, Closed,
     AbandonClose
<1>3. UNCHANGED pluginVars => UNCHANGED vars
  BY DEF pluginVars
<1> QED BY <1>1, <1>2, <1>3 DEF PluginNext, Next

\* Pools, hooks and schema workflows only delay or fail calls: the plugin
\* implements the store.
THEOREM PluginIsStore == PluginSpec => ImplementsStore
<1>1. PluginInit => Init
  BY DEF PluginInit
<1> QED BY <1>1, StoreStep, PTL DEF PluginSpec, ImplementsStore, Spec

\* What is proved of the store holds of the plugin around it.
THEOREM PluginStoreInvariance == PluginSpec => []IInv
BY PluginIsStore, Invariance, PTL DEF ImplementsStore

\* The two refinements compose: to a caller, activation, deactivation, pools
\* that run out or close and schema workflows are delays and outages of a ledger
\* on which each call takes effect at one instant.
THEOREM PluginIsLedger == PluginSpec => ImplementsLedger
BY PluginIsStore, Implements, PTL DEF ImplementsStore

\* What callers are told through the plugin is as true, and as private, as what
\* the store tells them, also of calls its hooks abort.
THEOREM PluginAnswers ==
  PluginSpec =>
    /\ [](HonestAnswers /\ SingleWinner /\ TruthfulRefusals /\ RequesterIsolation)
    /\ TerminalFrozen
BY PluginIsStore, Honesty, OneWinner, RefusalsTrue, Isolation, TerminalRowsFrozen, PTL
   DEF ImplementsStore

-----------------------------------------------------------------------------
(* The steps of a call *)

\* A statement moves its own call on, to a step that needs a connection.
LEMMA StatementMoves ==
  ASSUME TypeOK, NEW c \in Calls, Statement(c)
  PROVE  /\ pc[c] # "idle"
         /\ \E step \in Steps \ Unconnected : pc' = [pc EXCEPT ![c] = step]
<1> USE DEF Steps, Unconnected
<1>1. ASSUME NEW reply, Return(c, reply)
      PROVE  pc' = [pc EXCEPT ![c] = "idle"]
  BY <1>1 DEF Return, Finish
<1>2. ASSUME NEW failure, Fail(c, failure)
      PROVE  pc' = [pc EXCEPT ![c] = "idle"]
  BY <1>1, <1>2 DEF Fail
<1>3. Begin(c) \/ Gather(c) => \E step \in Steps \ Unconnected : pc' = [pc EXCEPT ![c] = step]
  BY DEF Begin, Gather, Goto
<1>4. Select(c) \/ Resolve(c) => \E step \in Steps \ Unconnected : pc' = [pc EXCEPT ![c] = step]
  BY <1>1, <1>2 DEF Select, Decoded, Resolve, Goto
<1>5. Insert(c) \/ Update(c) => \E step \in Steps \ Unconnected : pc' = [pc EXCEPT ![c] = step]
  BY <1>1 DEF Insert, Update, Write, Goto
<1>6. Compare(c) \/ Lock(c) => \E step \in Steps \ Unconnected : pc' = [pc EXCEPT ![c] = step]
  BY <1>1, <1>2 DEF Compare, Lock, Decoded, Goto
<1>7. Check(c) \/ Due(c) => \E step \in Steps \ Unconnected : pc' = [pc EXCEPT ![c] = step]
  BY <1>2 DEF Check, Due, Goto
<1>8. Commit(c) => \E step \in Steps \ Unconnected : pc' = [pc EXCEPT ![c] = step]
  BY DEF Commit, Finish
<1>9. pc[c] # "idle"
  BY DEF Statement, Begin, Select, Insert, Resolve, Gather, Compare, Lock, Check, Due,
     Update, Commit
<1> QED BY <1>3, <1>4, <1>5, <1>6, <1>7, <1>8, <1>9 DEF Statement

\* What is asked of a call's own handle and step.
Carried(c) ==
  /\ handle[c] # None => pools[handle[c]] # "unused"
  /\ pc[c] = "idle" => handle[c] = None
  /\ pc[c] \notin Unconnected \cup {"idle"} =>
       handle[c] # None /\ pools[handle[c]] # "closed"

\* A call that is answered, and no longer holds a pool, disturbs nothing.
LEMMA AnswerKeeps ==
  ASSUME PluginInv, TypeOK, NEW c \in Calls, pc' = [pc EXCEPT ![c] = "idle"], KeepHandle(c)
  PROVE  PluginInv'
<1>1. /\ pc \in [Calls -> Steps] /\ handle \in [Calls -> Pools \cup {None}]
      /\ handle' = [handle EXCEPT ![c] = None]
      /\ UNCHANGED <<hook, prepared, taken, pools, installed>>
  BY DEF TypeOK, PluginInv, PluginTypeOK, KeepHandle, lifecycle
<1>2. PluginTypeOK'
  BY <1>1 DEF PluginInv, PluginTypeOK
<1>3. \A d \in Calls : Carried(d)'
  BY <1>1 DEF PluginInv, Carried
<1> QED BY <1>1, <1>2, <1>3 DEF PluginInv, Carried

LEMMA CallKeeps ==
  ASSUME PluginInv, TypeOK, NEW c \in Calls, Call(c)
  PROVE  PluginInv'
<1>1. /\ pc[c] = "idle"
      /\ \E step \in Unconnected \cup {"idle"} : pc' = [pc EXCEPT ![c] = step]
  BY DEF Call, Invoke, Goto, Unconnected, TypeOK
<1>2. /\ handle' = [handle EXCEPT ![c] = IF pc'[c] = "idle" THEN None ELSE prepared]
      /\ UNCHANGED <<hook, prepared, taken, pools, installed>>
  BY DEF Call, lifecycle
<1>3. PluginTypeOK'
  BY <1>2 DEF PluginInv, PluginTypeOK
<1>4. prepared # None => pools[prepared] = "open"
  BY DEF PluginInv, PluginTypeOK
<1>5. \A d \in Calls : Carried(d)'
  BY <1>1, <1>2, <1>4 DEF PluginInv, PluginTypeOK, TypeOK, Carried, Unconnected
<1> QED BY <1>2, <1>3, <1>5 DEF PluginInv, Carried

\* A call's first statement takes a connection of an open pool.
LEMMA ServeKeeps ==
  ASSUME PluginInv, TypeOK, NEW c \in Calls, Serve(c)
  PROVE  PluginInv'
<1>1. PICK step \in Steps \ Unconnected : pc[c] # "idle" /\ pc' = [pc EXCEPT ![c] = step]
  BY StatementMoves DEF Serve
<1>2. CASE step = "idle"
  BY <1>1, <1>2, AnswerKeeps DEF Serve
<1>3. CASE step # "idle"
  <2>1. /\ pc \in [Calls -> Steps] /\ handle \in [Calls -> Pools \cup {None}]
        /\ handle' = handle
        /\ UNCHANGED <<hook, prepared, taken, pools, installed>>
    BY <1>1, <1>3 DEF TypeOK, PluginInv, PluginTypeOK, Serve, KeepHandle, lifecycle
  <2>2. handle[c] # None /\ pools[handle[c]] # "closed"
    BY <1>1 DEF Serve, Acquirable, IsOpen, PluginInv
  <2>3. pc'[c] = step /\ \A d \in Calls \ {c} : pc'[d] = pc[d]
    BY <1>1, <2>1
  <2>4. \A d \in Calls : Carried(d)'
    BY <1>3, <2>1, <2>2, <2>3 DEF PluginInv, Carried
  <2> QED BY <2>1, <2>4 DEF PluginInv, PluginTypeOK, Carried
<1> QED BY <1>2, <1>3

LEMMA FailureKeeps ==
  ASSUME PluginInv, TypeOK, NEW c \in Calls, Refuse(c) \/ Lose(c)
  PROVE  PluginInv'
<1>1. Return(c, Unavailable("Database")) /\ KeepHandle(c)
  BY DEF Refuse, Lose, Abort, DeadlockVictim
<1> QED BY <1>1, AnswerKeeps DEF Return, Finish

-----------------------------------------------------------------------------
(* The hooks and the operator *)

\* A hook that only moves the state of a pool keeps what calls are asked.
LEMMA HookKeeps ==
  ASSUME PluginInv, HookStep
  PROVE  PluginInv'
<1> USE DEF PluginInv, PluginTypeOK
<1>1. UNCHANGED <<pc, handle, installed>>
  BY DEF HookStep, Activate, ResolveSecret, Prepare, Deactivate, Closed, AbandonClose, vars
<1>2. CASE Activate \/ ResolveSecret \/ AbandonClose
  BY <1>1, <1>2 DEF Activate, ResolveSecret, AbandonClose
<1>3. CASE Prepare
  <2>1. CASE UNCHANGED <<prepared, pools>>
    BY <1>1, <1>3, <2>1 DEF Prepare
  <2>2. CASE ~UNCHANGED <<prepared, pools>>
    <3>1. PICK p \in Pools :
            /\ pools[p] = "unused" /\ pools' = [pools EXCEPT ![p] = "open"]
            /\ prepared' = p /\ hook' = "active" /\ installed = Plan
            /\ hook = "preparing" /\ taken' = taken
      BY <1>3, <2>2 DEF Prepare
    <3>2. p # None /\ prepared = None /\ taken = None
      BY <3>1, PluginAssumption
    <3>3. \A c \in Calls : Carried(c)'
      BY <1>1, <3>1 DEF Carried
    <3>4. \A q \in Pools : pools'[q] = "open" <=> prepared' = q
      <4>1. \A q \in Pools : pools[q] # "open"
        BY <3>2, PluginAssumption
      <4> QED BY <3>1, <4>1
    <3>5. PluginTypeOK'
      BY <1>1, <3>1, <3>2
    <3> QED BY <1>1, <3>1, <3>2, <3>3, <3>4, <3>5 DEF Carried
  <2> QED BY <2>1, <2>2
<1>4. CASE Deactivate
  <2>1. prepared \in Pools /\ pools[prepared] = "open" /\ taken = None
    BY <1>4 DEF Deactivate
  <2>2. /\ pools' = [pools EXCEPT ![prepared] = "closing"]
        /\ hook' = "closing" /\ taken' = prepared /\ prepared' = None
    BY <1>4 DEF Deactivate
  <2>3. \A c \in Calls : Carried(c)'
    BY <1>1, <2>1, <2>2 DEF Carried
  <2> QED BY <1>1, <2>1, <2>2, <2>3, PluginAssumption DEF Carried
<1>5. CASE Closed
  <2>1. taken \in Pools /\ pools[taken] = "closing" /\ prepared = None
    BY <1>5 DEF Closed
  <2>2. /\ pools' = [pools EXCEPT ![taken] = "closed"]
        /\ hook' = "inactive" /\ taken' = None /\ prepared' = prepared
        /\ Connected(taken) = {}
    BY <1>5 DEF Closed
  <2>3. \A c \in Calls : Carried(c)'
    BY <1>1, <2>1, <2>2 DEF Carried, Connected
  <2> QED BY <1>1, <2>1, <2>2, <2>3 DEF Carried
<1> QED BY <1>2, <1>3, <1>4, <1>5 DEF HookStep

\* No migration is ever taken back, so a pool opened on the plan stays on it.
LEMMA OperatorKeeps ==
  ASSUME PluginInv, Setup \/ Upgrade
  PROVE  PluginInv'
<1>1. UNCHANGED <<pc, hook, prepared, taken, pools, handle>>
  BY DEF Setup, Upgrade, vars
<1>2. installed' \in 0..Plan \cup {None}
  BY DEF Setup, Upgrade, PluginInv, PluginTypeOK, Plan
<1>3. installed = Plan => installed' = Plan
  <2>1. installed = Plan => ~Setup
    BY PluginAssumption DEF Setup, Plan
  <2>2. installed = Plan => (Upgrade => installed' = Plan)
    BY DEF Upgrade, Plan
  <2> QED BY <2>1, <2>2
<1> QED BY <1>1, <1>2, <1>3 DEF PluginInv, PluginTypeOK

-----------------------------------------------------------------------------
(* The theorems *)

LEMMA PluginKeeps == PluginInv /\ TypeOK /\ [PluginNext]_pluginVars => PluginInv'
<1> SUFFICES ASSUME PluginInv, TypeOK, [PluginNext]_pluginVars PROVE PluginInv'
  OBVIOUS
<1>1. ASSUME NEW c \in Calls, CallStep(c) PROVE PluginInv'
  BY <1>1, CallKeeps, ServeKeeps, FailureKeeps DEF CallStep
<1>2. CASE HookStep
  BY <1>2, HookKeeps
<1>3. CASE Setup \/ Upgrade
  BY <1>3, OperatorKeeps
<1>4. CASE UNCHANGED <<lifecycle, handle, pc>>
  BY <1>4 DEF lifecycle, PluginInv, PluginTypeOK
<1>5. Tick \/ UNCHANGED pluginVars => UNCHANGED pc
  BY DEF Tick, pluginVars, vars
<1> QED BY <1>1, <1>2, <1>3, <1>4, <1>5 DEF PluginNext, pluginVars, lifecycle

\* Cell, pools, clones and schema fit together in every behaviour.
THEOREM PluginInvariance == PluginSpec => []PluginInv
<1>1. PluginInit => PluginInv
  BY PluginAssumption DEF PluginInit, Init, PluginInv, PluginTypeOK
<1>2. IInv => TypeOK
  BY DEF IInv
<1> QED BY <1>1, <1>2, PluginKeeps, PluginStoreInvariance, PTL DEF PluginSpec

\* The pool calls are given is open, on the whole plan.
THEOREM Usable == PluginSpec => []PreparedUsable
<1>1. PluginInv => PreparedUsable
  BY DEF PluginInv, PluginTypeOK, PreparedUsable, IsOpen
<1> QED BY <1>1, PluginInvariance, PTL

\* No transaction meets half a schema.
THEOREM OnPlan == PluginSpec => []TransactionsOnPlan
<1>1. PluginInv => TransactionsOnPlan
  BY DEF PluginInv, PluginTypeOK, TransactionsOnPlan
<1> QED BY <1>1, PluginInvariance, PTL

\* No pool is left open and forgotten.
THEOREM NoneLeft == PluginSpec => []NoPoolLeft
<1>1. PluginInv => NoPoolLeft
  BY DEF PluginInv, NoPoolLeft
<1> QED BY <1>1, PluginInvariance, PTL

\* A call that outlives its pool writes nothing and says so.
THEOREM QuietAfterClose == PluginSpec => QuietOnceClosed
<1> DEFINE Quiet ==
      \A c \in Calls :
        handle[c] # None /\ pools[handle[c]] = "closed" /\ pc'[c] # pc[c]
          => table' = table /\ answer'[c].kind = "unavailable"
<1>1. PluginInv /\ TypeOK /\ [PluginNext]_pluginVars => [Quiet]_pluginVars
  <2> SUFFICES ASSUME PluginInv, TypeOK, PluginNext, NEW c \in Calls,
                      handle[c] # None, pools[handle[c]] = "closed", pc'[c] # pc[c]
               PROVE  table' = table /\ answer'[c].kind = "unavailable"
    OBVIOUS
  <2>1. pc[c] \in Unconnected /\ ~Acquirable(handle[c])
    BY DEF PluginInv, Acquirable, IsOpen
  <2>2. \E d \in Calls : CallStep(d)
    BY DEF PluginNext, HookStep, Setup, Upgrade, Activate, ResolveSecret, Prepare,
       Deactivate, Closed, AbandonClose, Tick, vars
  <2>3. CallStep(c)
    <3>1. ASSUME NEW d \in Calls, CallStep(d), d # c PROVE pc'[c] = pc[c]
      <4>1. Invoke(d) => pc'[c] = pc[c]
        BY <3>1 DEF Invoke, Goto, TypeOK
      <4>2. Statement(d) => pc'[c] = pc[c]
        BY <3>1, StatementMoves DEF TypeOK
      <4>3. Abort(d) \/ DeadlockVictim(d) \/ Refuse(d) => pc'[c] = pc[c]
        BY <3>1 DEF Abort, DeadlockVictim, Refuse, Return, Finish, TypeOK
      <4> QED BY <3>1, <4>1, <4>2, <4>3 DEF CallStep, Call, Serve, Lose
    <3> QED BY <2>2, <3>1
  <2>4. ~Call(c) /\ ~Serve(c)
    BY <2>1 DEF Call, Invoke, Serve, Unconnected
  <2>5. Return(c, Unavailable("Database"))
    BY <2>3, <2>4 DEF CallStep, Refuse, Lose, Abort, DeadlockVictim
  <2>6. answer'[c] = Unavailable("Database") /\ table' = table
    BY <2>5 DEF Return, Finish, TypeOK
  <2> QED BY <2>6 DEF Unavailable, Reply
<1>2. IInv => TypeOK
  BY DEF IInv
<1> QED BY <1>1, <1>2, PluginInvariance, PluginStoreInvariance, PTL DEF PluginSpec, QuietOnceClosed
=============================================================================
