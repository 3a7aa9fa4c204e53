----------------------------- MODULE ForcePosture -----------------------------
(***************************************************************************)
(* The theater's force posture (hq/TheaterReadinessPosture.tsx): the fleet *)
(* by class and severity, and by FOB; and the table of its edges           *)
(* (hq/EdgeAttribution.tsx).  Three feeds meet in them, each at its own    *)
(* pace: the fleet's rows, the logistics rows that give an asset its       *)
(* severity and may outlive it, and the munitions in flight.               *)
(*                                                                         *)
(* External: the feeds.  FOBs have distinct edges.                         *)
(***************************************************************************)
EXTENDS Integers, FiniteSets, Functions

CONSTANTS
    PostureAssets,  \* asset ids
    FobEdges,       \* the edges that have a FOB
    FleetRows,      \* rows an asset may have: a set of [class, edge]
    Severities,     \* the severities logistics may give
    Flying,         \* munitions: a set of [n, edge, launcher]
    MaxFeeds        \* bound: changes of the feeds

AssetClasses == {"SENSOR", "LAUNCHER", "FACILITY", "MUNITION", "PLATFORM", "UNKNOWN"}

ASSUME ForcePostureAssumption ==
    /\ \A row \in FleetRows : row.class \in AssetClasses
    /\ \A m \in Flying : m.launcher \in PostureAssets \cup {"none"}
    /\ IsFiniteSet(FobEdges) /\ IsFiniteSet(Severities)
    /\ MaxFeeds \in Nat

VARIABLES
    fpFleet,    \* the fleet row of each asset that has one
    fpSeverity, \* the severity of each asset that has a logistics row
    fpFlying,   \* the munitions in flight
    fpFeeds     \* changes made

postureVars == <<fpFleet, fpSeverity, fpFlying, fpFeeds>>

PostureTypeOK ==
    /\ DOMAIN fpFleet \subseteq PostureAssets /\ \A a \in DOMAIN fpFleet : fpFleet[a] \in FleetRows
    /\ DOMAIN fpSeverity \subseteq PostureAssets /\ \A a \in DOMAIN fpSeverity : fpSeverity[a] \in Severities
    /\ fpFlying \subseteq Flying /\ fpFeeds \in 0..MaxFeeds

-----------------------------------------------------------------------------
Categories == {"sensors", "launchers", "facilities", "inflight", "other"}

CategoryOf(class) ==
    CASE class = "SENSOR" -> "sensors" [] class = "LAUNCHER" -> "launchers" [] class = "FACILITY" -> "facilities"
      [] class = "MUNITION" -> "inflight" [] OTHER -> "other"

SeverityOf(a) == IF a \in DOMAIN fpSeverity THEN fpSeverity[a] ELSE "UNSPECIFIED"

Buckets == {"ready", "degraded", "offline", "unknown"}

BucketOf(severity) ==
    CASE severity = "OK" -> "ready" [] severity = "DEGRADED" -> "degraded"
      [] severity \in {"CRITICAL", "NON_OPERATIONAL"} -> "offline" [] OTHER -> "unknown"

\* buildPostureRollups: driven by the fleet, each asset in one bucket.
PostureRollups ==
    [c \in Categories |->
        [b \in Buckets \cup {"total"} |->
            Cardinality({a \in DOMAIN fpFleet : /\ CategoryOf(fpFleet[a].class) = c
                                                /\ b \in {"total", BucketOf(SeverityOf(a))}})]]

\* A track is its own edge's, else its launcher's.
TrackEdge(m) ==
    IF m.edge # "none" THEN m.edge
    ELSE IF m.launcher \in DOMAIN fpFleet THEN fpFleet[m.launcher].edge ELSE "none"

\* buildFobMetrics: munitions are counted from the tracks, not from the fleet.
FobMetrics(fob) ==
    LET here == {a \in DOMAIN fpFleet : fpFleet[a].edge = fob} IN
    [total |-> Cardinality(here),
     bySeverity |-> [s \in Severities \cup {"UNSPECIFIED"} |-> Cardinality({a \in here : SeverityOf(a) = s})],
     composition |->
        [c \in Categories |->
            IF c = "inflight" THEN Cardinality({m \in fpFlying : TrackEdge(m) = fob})
            ELSE Cardinality({a \in here : CategoryOf(fpFleet[a].class) = c})]]

\* EdgeAttribution: the hardware and the tracks by edge, "none" too; munitions among the
\* fleet's rows are left out, as launchers too.
Hardware == {a \in DOMAIN fpFleet : fpFleet[a].class # "MUNITION"}
AttributedTo(m) ==
    IF m.edge # "none" THEN m.edge ELSE IF m.launcher \in Hardware THEN fpFleet[m.launcher].edge ELSE "none"
EdgesSeen == {fpFleet[a].edge : a \in Hardware} \cup {AttributedTo(m) : m \in fpFlying}
EdgeRow(edge) ==
    [hardware |-> Cardinality({a \in Hardware : fpFleet[a].edge = edge}),
     inflight |-> Cardinality({m \in fpFlying : AttributedTo(m) = edge})]

-----------------------------------------------------------------------------
PostureInit == fpFleet = << >> /\ fpSeverity = << >> /\ fpFlying = {} /\ fpFeeds = 0

FeedTurn == fpFeeds < MaxFeeds /\ fpFeeds' = fpFeeds + 1

\* A row comes or is replaced, or leaves the store.
WithRow(f, a, row) == [b \in DOMAIN f \cup {a} |-> IF b = a THEN row ELSE f[b]]
WithoutRow(f, a) == [b \in DOMAIN f \ {a} |-> f[b]]

FleetFeeds(a) ==
    /\ FeedTurn
    /\ \/ \E row \in FleetRows : fpFleet' = WithRow(fpFleet, a, row)
       \/ a \in DOMAIN fpFleet /\ fpFleet' = WithoutRow(fpFleet, a)
    /\ UNCHANGED <<fpSeverity, fpFlying>>

LogisticsFeeds(a) ==
    /\ FeedTurn
    /\ \/ \E s \in Severities : fpSeverity' = WithRow(fpSeverity, a, s)
       \/ a \in DOMAIN fpSeverity /\ fpSeverity' = WithoutRow(fpSeverity, a)
    /\ UNCHANGED <<fpFleet, fpFlying>>

TracksFeed(m) ==
    /\ FeedTurn
    /\ \E flying \in {fpFlying \cup {m}, fpFlying \ {m}} : fpFlying' = flying
    /\ UNCHANGED <<fpFleet, fpSeverity>>

PostureNext ==
    \/ \E a \in PostureAssets : FleetFeeds(a) \/ LogisticsFeeds(a)
    \/ \E m \in Flying : TracksFeed(m)

PostureSpec == PostureInit /\ [][PostureNext]_postureVars

-----------------------------------------------------------------------------
(* Properties. *)

Total(rollup) == rollup["total"]

\* Every asset of the fleet is in one class and one bucket, whatever the feeds
\* have brought of it: the classes sum to the fleet, the buckets to the class,
\* and a logistics row without an asset adds nothing.
RollupsAddUp ==
    /\ SumFunction([c \in Categories |-> Total(PostureRollups[c])]) = Cardinality(DOMAIN fpFleet)
    /\ \A c \in Categories :
          Total(PostureRollups[c]) = SumFunctionOnSet(PostureRollups[c], Buckets)

\* The FOBs' figures are parts of the theater's: no asset and no munition is
\* counted at two of them, and what stands at none is only what has no FOB.
FobsAddUp ==
    /\ SumFunction([f \in FobEdges |-> FobMetrics(f).total])
         = Cardinality({a \in DOMAIN fpFleet : fpFleet[a].edge \in FobEdges})
    /\ SumFunction([f \in FobEdges |-> FobMetrics(f).composition["inflight"]]) <= Cardinality(fpFlying)
    /\ \A f \in FobEdges : SumFunction(FobMetrics(f).bySeverity) = FobMetrics(f).total
    /\ \A c \in Categories \ {"inflight"} :
          SumFunction([f \in FobEdges |-> FobMetrics(f).composition[c]]) <= Total(PostureRollups[c])

\* The table of edges and the posture's FOBs are two counts of the same rows, and agree
\* but for munitions that a munition launched; the table loses none.
EdgesAgree ==
    /\ SumFunction([e \in EdgesSeen |-> EdgeRow(e).hardware]) = Cardinality(Hardware)
    /\ SumFunction([e \in EdgesSeen |-> EdgeRow(e).inflight]) = Cardinality(fpFlying)
    /\ \A f \in FobEdges :
          /\ EdgeRow(f).hardware = FobMetrics(f).total - Cardinality({a \in DOMAIN fpFleet \ Hardware : fpFleet[a].edge = f})
          /\ (\A m \in fpFlying : m.launcher \notin DOMAIN fpFleet \ Hardware) =>
                EdgeRow(f).inflight = FobMetrics(f).composition["inflight"]

PostureAddsUp == RollupsAddUp /\ FobsAddUp /\ EdgesAgree
=============================================================================
