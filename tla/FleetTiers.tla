------------------------------- MODULE FleetTiers -------------------------------
(***************************************************************************)
(* How alive an asset is shown to be (hooks/useFleetTiers.ts,              *)
(* lib/assetTier.ts): the tier that its last sample's age, its health and  *)
(* its edge's link give, and the hysteresis that keeps a silent asset      *)
(* silent until enough samples came.  The tiers are computed at every      *)
(* change of the fleet and at a tick each second.  Assets do not touch     *)
(* each other's tracker: one asset is modelled.  Left out: what a tier     *)
(* looks like.                                                             *)
(***************************************************************************)
EXTENDS Naturals, FiniteSets

CONSTANTS
    StaleAfter, LostAfter,      \* stale_after_s, lost_after_s
    RecoverySamples,            \* recovery_samples_n
    RecoveryWindow,             \* recovery_window_s
    MaxClock                    \* seconds of a behaviour

\* The defaults are 30, 300, 3 and 10.  A deployment may give a window that is
\* longer than stale_after_s: samples from before the silence would then count.
ASSUME TiersAssumption ==
    /\ StaleAfter \in Nat /\ LostAfter \in Nat /\ RecoveryWindow \in Nat
    /\ RecoverySamples \in Nat \ {0} /\ MaxClock \in Nat \ {0}
    /\ RecoveryWindow <= StaleAfter /\ StaleAfter < LostAfter

VARIABLES
    ftClock,
    ftRow,      \* the asset's row: [at, broken], NoRow: not in the fleet
    ftSevered,  \* edgeLinkSevered
    ftSamples,  \* the tracker's samples
    ftTier,     \* its lastTier; "none": null
    ftHeard     \* history: the samples that came since the asset was last live

tierVars == <<ftClock, ftRow, ftSevered, ftSamples, ftTier, ftHeard>>

NoRow == [at |-> 0, broken |-> FALSE]
Live == {"ACTIVE", "DEGRADED"}
Silent == {"STALE", "COMM_LOST", "LOST"}

TiersTypeOK ==
    /\ ftClock \in 1..MaxClock /\ ftRow \in [at : 0..MaxClock, broken : BOOLEAN]
    /\ ftSevered \in BOOLEAN /\ ftSamples \subseteq 1..MaxClock /\ ftHeard \subseteq 1..MaxClock
    /\ ftTier \in Live \cup Silent \cup {"none"}

TiersInit ==
    /\ ftClock = 1 /\ ftRow = NoRow /\ ftSevered = FALSE
    /\ ftSamples = {} /\ ftTier = "none" /\ ftHeard = {}

-----------------------------------------------------------------------------
\* classifyAssetTier
Classify(row, severed, now) ==
    LET age == now - row.at
    IN  CASE age > LostAfter                         -> "LOST"
          [] age > StaleAfter /\ age <= LostAfter    -> IF severed THEN "COMM_LOST" ELSE "STALE"
          [] OTHER                                   -> IF row.broken THEN "DEGRADED" ELSE "ACTIVE"

\* applyRecoveryHysteresis
Recovered(last, candidate, samples) ==
    IF last \in Silent /\ candidate \in Live /\ Cardinality(samples) < RecoverySamples
    THEN last ELSE candidate

\* [mutant] The samples that have left the window are kept.
TrimCapOnly(samples, now) ==
    {t \in samples : Cardinality({u \in samples : u > t}) < RecoverySamples}

\* The newest recovery_samples_n of the samples within the window.
Trim(samples, now) ==
    {t \in samples : t + RecoveryWindow >= now /\ Cardinality({u \in samples : u > t}) < RecoverySamples}

\* A reading of the row that is newer than every sample of the tracker is one.
Recorded(samples, row) ==
    IF \A t \in samples : row.at > t THEN samples \cup {row.at} ELSE samples

\* One computation of the map.  An asset that is not in the fleet has no tracker.
Compute(row, severed, now) ==
    LET samples == Trim(Recorded(ftSamples, row), now)
        tier == Recovered(ftTier, Classify(row, severed, now), samples)
        since == IF ftTier \in Live THEN {} ELSE ftHeard
    IN  /\ ftRow' = row /\ ftSevered' = severed /\ ftClock' = now
        /\ IF row = NoRow THEN ftSamples' = {} /\ ftTier' = "none" /\ ftHeard' = {}
           ELSE /\ ftSamples' = samples /\ ftTier' = tier
                /\ ftHeard' = IF row.at > ftRow.at THEN since \cup {row.at} ELSE since

\* A sample reaches the row: it may be late, and rows of an older one do not come.
SampleComes ==
    \E at \in 1..ftClock, broken \in BOOLEAN :
        at > ftRow.at /\ Compute([at |-> at, broken |-> broken], ftSevered, ftClock)

\* The row leaves the shape's data: a new subscription begins without rows.
RowLeaves == ftRow # NoRow /\ Compute(NoRow, ftSevered, ftClock)

LinkChanges == \E severed \in BOOLEAN : severed # ftSevered /\ Compute(ftRow, severed, ftClock)

\* The 1 Hz heartbeat.
Heartbeat == ftClock < MaxClock /\ Compute(ftRow, ftSevered, ftClock + 1)

TiersNext == SampleComes \/ RowLeaves \/ LinkChanges \/ Heartbeat

TiersSpec == TiersInit /\ [][TiersNext]_tierVars

-----------------------------------------------------------------------------
\* A silent asset is shown alive only after recovery_samples_n samples came
\* since it was last alive: one late sample, or those of before the silence,
\* do not bring it back (useFleetTiers.ts, "a single momentary reconnect
\* doesn't yank it back"; recording, trimming and hysteresis 101-143).
RecoveryIsEarned ==
    [][(ftTier \in Silent /\ ftTier' \in Live)
           => Cardinality(ftHeard') >= RecoverySamples]_tierVars
=============================================================================
