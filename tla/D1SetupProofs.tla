--------------------------- MODULE D1SetupProofs ---------------------------
(***************************************************************************)
(* Setups, workers and other releases keep SetupInv, however many of them  *)
(* there are.                                                              *)
(***************************************************************************)
EXTENDS D1Setup, TLAPS

\* What a setup step that writes no table has to keep.
LEMMA QuietStep ==
  ASSUME SetupInv, NEW s \in Setups, SetupTypeOK',
         UNCHANGED <<version, requests, ready>>,
         \A t \in Setups \ {s} :
           pc'[t] = pc[t] /\ outcome'[t] = outcome[t] /\ begun'[t] = begun[t],
         pc'[s] = "unlisted" => begun'[s] = None,
         pc'[s] = "listed" => version # None /\ (version = Empty => begun'[s] = Empty),
         pc'[s] = "confirm" => version \in {SCHEMA_VERSION, Later},
         outcome'[s] = "ok" => outcome[s] = "ok" \/ version = SCHEMA_VERSION,
         outcome'[s] = "approval_schema_unmanaged" =>
           begun'[s] = None /\ requests # "none",
         outcome'[s] = "approval_schema_incompatible" => begun'[s] = Empty \/ version = Later
  PROVE  SetupInv'
<1>1. InstalledWhole'
  BY DEF SetupInv, InstalledWhole
<1>2. \A t \in Setups :
        /\ pc'[t] = "unlisted" => begun'[t] = None
        /\ pc'[t] = "listed" => version' # None /\ (version' = Empty => begun'[t] = Empty)
        /\ pc'[t] = "confirm" => version' \in {SCHEMA_VERSION, Later}
  BY DEF SetupInv
<1>3. NotAnothers'
  <2>1. version = SCHEMA_VERSION => requests \in {"ours", "foreign"}
    BY SetupAssumption DEF SetupInv, SetupTypeOK, Versions, InstalledWhole, SCHEMA_VERSION, Later
  <2> QED BY <2>1 DEF SetupInv, NotAnothers
<1>4. HonestRefusals'
  BY DEF SetupInv, HonestRefusals
<1> QED BY <1>1, <1>2, <1>3, <1>4 DEF SetupInv

LEMMA SetupKeeps ==
  ASSUME SetupInv, NEW s \in Setups, SetupStep(s)
  PROVE  SetupInv'
<1> USE SetupAssumption DEF SetupInv, SetupTypeOK, Versions, Outcomes, SCHEMA_VERSION, Later
<1>1. CASE List(s)
  BY <1>1, QuietStep DEF List
<1>2. CASE LookForRequests(s)
  <2>1. /\ UNCHANGED <<version, requests, begun, ready>>
        /\ SetupTypeOK'
        /\ \A t \in Setups \ {s} : pc'[t] = pc[t] /\ outcome'[t] = outcome[t]
        /\ pc'[s] \in {"batch", "idle"}
    BY <1>2 DEF LookForRequests, Goto, End
  <2>2. \/ outcome'[s] = outcome[s] /\ pc'[s] = "batch"
        \/ outcome'[s] = "approval_schema_unmanaged" /\ requests # "none"
    BY <1>2 DEF LookForRequests, Goto, End
  <2>3. /\ outcome[s] = "ok" => requests \in {"ours", "foreign"}
        /\ begun[s] = None
    BY <1>2 DEF LookForRequests, NotAnothers
  <2> QED BY <2>1, <2>2, <2>3 DEF InstalledWhole, NotAnothers, HonestRefusals
<1>3. CASE LookAtVersion(s)
  BY <1>3, QuietStep DEF LookAtVersion, Goto, End, HonestRefusals
<1>4. CASE Confirm(s)
  BY <1>4, QuietStep DEF Confirm, End, HonestRefusals
<1>5. CASE Lose(s)
  BY <1>5, QuietStep DEF Lose, End, HonestRefusals
<1>6. CASE Batch(s)
  <2>1. SetupTypeOK'
    BY <1>6 DEF Batch, Goto, End
  <2>2. /\ version \notin {None, Empty} => version' = version
        /\ version' \in {SCHEMA_VERSION, Later}
        /\ requests' # "none"
        /\ requests # "none" => requests' = requests
        /\ requests = "none" => requests' = "ours"
    BY <1>6 DEF Batch
  <2>3. /\ \A t \in Setups \ {s} : pc'[t] = pc[t] /\ outcome'[t] = outcome[t]
        /\ pc'[s] \in {"confirm", "idle"}
        /\ outcome'[s] = outcome[s] \/ outcome'[s] = "lost"
        /\ UNCHANGED <<begun, ready>>
    BY <1>6 DEF Batch, Goto, End
  <2>4. requests' = "other" => version' = Later
    BY <2>2
  <2>5. NotAnothers'
    BY <2>2, <2>3 DEF NotAnothers
  <2>6. HonestRefusals'
    BY <2>2, <2>3 DEF HonestRefusals
  <2> QED BY <2>1, <2>2, <2>3, <2>4, <2>5, <2>6 DEF InstalledWhole
<1> QED BY <1>1, <1>2, <1>3, <1>4, <1>5, <1>6 DEF SetupStep

LEMMA SurroundingsKeep ==
  ASSUME SetupInv,
         (\E w \in Workers : Prepare(w)) \/ ReleaseInstalls \/ ReleaseMigrates \/ ForeignTable
           \/ ForeignSchema
  PROVE  SetupInv'
<1> USE SetupAssumption
    DEF SetupInv, SetupTypeOK, Versions, SCHEMA_VERSION, Later, InstalledWhole, NotAnothers,
        HonestRefusals
<1>1. ASSUME NEW w \in Workers, Prepare(w) PROVE SetupInv'
  BY <1>1 DEF Prepare, Readiness
<1>2. CASE ReleaseInstalls
  BY <1>2 DEF ReleaseInstalls
<1>3. CASE ReleaseMigrates
  BY <1>3 DEF ReleaseMigrates
<1>4. CASE ForeignTable
  BY <1>4 DEF ForeignTable
<1>5. CASE ForeignSchema
  BY <1>5 DEF ForeignSchema
<1> QED BY <1>1, <1>2, <1>3, <1>4, <1>5

\* The inductive invariant holds for any number of setups and workers.
THEOREM SetupInvariance == SetupSpec => []SetupInv
<1>1. SetupInit => SetupInv
  BY SetupAssumption
  DEF SetupInit, SetupInv, SetupTypeOK, Versions, Outcomes, InstalledWhole, NotAnothers,
      HonestRefusals
<1>2. SetupInv /\ [SetupNext]_setupVars => SetupInv'
  <2>1. SetupInv /\ UNCHANGED setupVars => SetupInv'
    BY DEF setupVars, SetupInv, SetupTypeOK, InstalledWhole, NotAnothers, HonestRefusals
  <2> QED BY <2>1, SetupKeeps, SurroundingsKeep DEF SetupNext
<1> QED BY <1>1, <1>2, PTL DEF SetupSpec

\* A stopped setup leaves all of the schema or nothing.
THEOREM WholeSchema == SetupSpec => []InstalledWhole
<1>1. SetupInv => InstalledWhole
  BY DEF SetupInv
<1> QED BY <1>1, SetupInvariance, PTL

\* Success, and readiness, are never on another release's tables.
THEOREM NeverAnothers == SetupSpec => []NotAnothers
<1>1. SetupInv => NotAnothers
  BY DEF SetupInv
<1> QED BY <1>1, SetupInvariance, PTL

\* Refusals have their reason.
THEOREM RefusalsHonest == SetupSpec => []HonestRefusals
<1>1. SetupInv => HonestRefusals
  BY DEF SetupInv
<1> QED BY <1>1, SetupInvariance, PTL

\* Late batches replace nothing.
THEOREM Preserved == SetupSpec => NothingReplaced
<1>1. [SetupNext]_setupVars
        => [/\ requests # "none" => requests' = requests
            /\ version = Later => version' = Later]_setupVars
  BY SetupAssumption
  DEF SetupNext, SetupStep, List, LookForRequests, LookAtVersion, Batch, Confirm, Lose,
      Prepare, Readiness, ReleaseInstalls, ReleaseMigrates, ForeignTable, ForeignSchema,
      SCHEMA_VERSION, Later
<1> QED BY <1>1, PTL DEF SetupSpec, NothingReplaced
=============================================================================
