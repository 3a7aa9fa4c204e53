------------------------------ MODULE FiguresProofs ------------------------------
(***************************************************************************)
(* What the panes show in figures, for every instance: the force posture,  *)
(* the theater's rollups, the marks of the map, the rounds and times of    *)
(* the move panel and the munitions' ledger.  A figure counts or sums the  *)
(* parts of a whole; that the parts share nothing and leave nothing out is *)
(* what each proof shows (CardParts, SumParts).                            *)
(***************************************************************************)
EXTENDS MovePanel, RegionMap, MunitionsLedger, ForcePosture, RegionRollups, FoldProofs

-----------------------------------------------------------------------------
(* The force posture. *)

LEMMA FiniteTwo ==
  ASSUME NEW x, NEW y
  PROVE  IsFiniteSet({x, y})
  <1>1. IsFiniteSet({x}) /\ {x, y} = {x} \cup {y}
    BY FS_Singleton
  <1> QED
    BY <1>1, FS_AddElement

PostureInv == PostureTypeOK /\ IsFiniteSet(DOMAIN fpFleet) /\ IsFiniteSet(fpFlying)

LEMMA PostureInvInit == PostureInit => PostureInv
  <1> SUFFICES ASSUME PostureInit PROVE PostureInv
    OBVIOUS
  <1>1. DOMAIN fpFleet = {} /\ DOMAIN fpSeverity = {} /\ fpFlying = {}
    BY DEF PostureInit
  <1> QED
    BY <1>1, FS_EmptySet, ForcePostureAssumption DEF PostureInit, PostureInv, PostureTypeOK

LEMMA PostureInvStep == PostureInv /\ [PostureNext]_postureVars => PostureInv'
  <1> SUFFICES ASSUME PostureInv, [PostureNext]_postureVars PROVE PostureInv'
    OBVIOUS
  <1> USE DEF PostureInv, PostureTypeOK
  <1>1. ASSUME NEW a \in PostureAssets, FleetFeeds(a) PROVE PostureInv'
    <2>1. DOMAIN fpFleet' \subseteq DOMAIN fpFleet \cup {a} /\ \A b \in DOMAIN fpFleet' : fpFleet'[b] \in FleetRows
      BY <1>1 DEF FleetFeeds, WithRow, WithoutRow
    <2>2. IsFiniteSet(DOMAIN fpFleet \cup {a})
      BY FS_AddElement
    <2>3. IsFiniteSet(DOMAIN fpFleet')
      BY <2>1, <2>2, FS_Subset
    <2> QED
      BY <2>1, <2>3, <1>1, ForcePostureAssumption DEF FleetFeeds, FeedTurn
  <1>2. ASSUME NEW a \in PostureAssets, LogisticsFeeds(a) PROVE PostureInv'
    <2>1. DOMAIN fpSeverity' \subseteq PostureAssets /\ \A b \in DOMAIN fpSeverity' : fpSeverity'[b] \in Severities
      BY <1>2 DEF LogisticsFeeds, WithRow, WithoutRow
    <2> QED
      BY <2>1, <1>2, ForcePostureAssumption DEF LogisticsFeeds, FeedTurn
  <1>3. ASSUME NEW m \in Flying, TracksFeed(m) PROVE PostureInv'
    <2>1. IsFiniteSet(fpFlying \cup {m}) /\ IsFiniteSet(fpFlying \ {m})
      BY FS_AddElement, FS_RemoveElement
    <2>2. fpFlying' = fpFlying \cup {m} \/ fpFlying' = fpFlying \ {m}
      BY <1>3 DEF TracksFeed
    <2>3. fpFlying' \subseteq Flying /\ IsFiniteSet(fpFlying')
      BY <2>1, <2>2
    <2> QED
      BY <2>3, <1>3, ForcePostureAssumption DEF TracksFeed, FeedTurn
  <1>4. CASE UNCHANGED postureVars
    BY <1>4 DEF postureVars
  <1> QED
    BY <1>1, <1>2, <1>3, <1>4 DEF PostureNext

\* Every asset is in one of the categories, its severity in one of the buckets.
LEMMA RollupsAreParts == PostureInv => RollupsAddUp
  <1> SUFFICES ASSUME PostureInv PROVE RollupsAddUp
    OBVIOUS
  <1> DEFINE S == DOMAIN fpFleet
             P == [c \in Categories |-> {a \in S : CategoryOf(fpFleet[a].class) = c}]
             h == [c \in Categories |-> Total(PostureRollups[c])]
  <1>1. IsFiniteSet(S) /\ IsFiniteSet(Categories) /\ IsFiniteSet(Buckets)
    <2>1. \A x, y : IsFiniteSet({x, y})
      BY FiniteTwo
    <2>2. /\ Categories = ({"sensors", "launchers"} \cup {"facilities", "inflight"}) \cup {"other", "other"}
          /\ Buckets = {"ready", "degraded"} \cup {"offline", "unknown"}
      BY DEF Categories, Buckets
    <2>3. \A w, x, y, z : IsFiniteSet({w, x} \cup {y, z})
      BY <2>1, FS_Union
    <2>4. IsFiniteSet(({"sensors", "launchers"} \cup {"facilities", "inflight"}) \cup {"other", "other"})
      BY <2>1, <2>3, FS_Union
    <2> QED
      BY <2>2, <2>3, <2>4 DEF PostureInv
  <1>2. \A c \in Categories : h[c] = Cardinality(P[c])
    BY DEF Total, PostureRollups
  <1>3. Apart(P, Categories, S) /\ Whole(P, Categories) = S
    <2>1. \A a \in S : CategoryOf(fpFleet[a].class) \in Categories
      BY DEF CategoryOf, Categories
    <2>2. Whole(P, Categories) = S
      BY <2>1 DEF Whole
    <2> QED
      BY <2>2 DEF Apart
  <1>4. SumFunction(h) = Cardinality(S)
    <2>1. DOMAIN h = Categories
      OBVIOUS
    <2> HIDE DEF h, P, S
    <2>2. SumFunctionOnSet(h, Categories) = Cardinality(Whole(P, Categories))
      BY <1>1, <1>2, <1>3, CardParts
    <2> QED
      BY <2>1, <2>2, <1>3 DEF SumFunction
  <1>5. ASSUME NEW c \in Categories PROVE Total(PostureRollups[c]) = SumFunctionOnSet(PostureRollups[c], Buckets)
    <2> DEFINE Q == [b \in Buckets |-> {a \in P[c] : BucketOf(SeverityOf(a)) = b}]
               k == PostureRollups[c]
    <2>1. \A b \in Buckets : k[b] = Cardinality(Q[b])
      <3>1. \A b \in Buckets : b # "total"
        BY DEF Buckets
      <3>2. ASSUME NEW b \in Buckets PROVE k[b] = Cardinality({a \in S : /\ CategoryOf(fpFleet[a].class) = c
                                                                      /\ b \in {"total", BucketOf(SeverityOf(a))}})
        BY DEF PostureRollups
      <3>3. ASSUME NEW b \in Buckets PROVE Q[b] = {a \in S : /\ CategoryOf(fpFleet[a].class) = c
                                                           /\ b \in {"total", BucketOf(SeverityOf(a))}}
        BY <3>1
      <3> QED
        BY <3>2, <3>3
    <2>2. Apart(Q, Buckets, P[c]) /\ Whole(Q, Buckets) = P[c]
      <3>1. \A a : BucketOf(SeverityOf(a)) \in Buckets
        BY DEF BucketOf, Buckets
      <3> HIDE DEF P
      <3>2. Whole(Q, Buckets) = P[c]
        BY <3>1 DEF Whole
      <3> QED
        BY <3>2 DEF Apart
    <2>3. IsFiniteSet(P[c])
      <3>1. P[c] \subseteq S
        OBVIOUS
      <3> QED
        BY <3>1, <1>1, FS_Subset
    <2>4. Total(k) = Cardinality(P[c])
      BY <1>2
    <2> HIDE DEF Q, k, P
    <2>5. SumFunctionOnSet(k, Buckets) = Cardinality(Whole(Q, Buckets))
      BY <1>1, <2>1, <2>2, <2>3, CardParts
    <2> QED
      BY <2>2, <2>4, <2>5 DEF k
  <1> QED
    BY <1>4, <1>5 DEF RollupsAddUp

\* A FOB's assets are those of its edge, and of an edge there is one FOB; munitions
\* are counted where TrackEdge has them.
LEMMA FobsAreParts == PostureInv => FobsAddUp
  <1> SUFFICES ASSUME PostureInv PROVE FobsAddUp
    OBVIOUS
  <1> DEFINE S == DOMAIN fpFleet
             Here(f) == {a \in S : fpFleet[a].edge = f}
             P == [f \in FobEdges |-> Here(f)]
             F == [f \in FobEdges |-> {m \in fpFlying : TrackEdge(m) = f}]
  <1>1. IsFiniteSet(S) /\ IsFiniteSet(fpFlying) /\ IsFiniteSet(FobEdges) /\ IsFiniteSet(Severities)
    BY ForcePostureAssumption DEF PostureInv
  <1>2. Apart(P, FobEdges, S) /\ Whole(P, FobEdges) = {a \in S : fpFleet[a].edge \in FobEdges}
    BY DEF Apart, Whole
  <1>3. Apart(F, FobEdges, fpFlying) /\ Whole(F, FobEdges) \subseteq fpFlying
    BY DEF Apart, Whole
  <1>4. SumFunction([f \in FobEdges |-> FobMetrics(f).total]) = Cardinality({a \in S : fpFleet[a].edge \in FobEdges})
    <2> DEFINE h == [f \in FobEdges |-> FobMetrics(f).total]
    <2>1. DOMAIN h = FobEdges /\ \A f \in FobEdges : h[f] = Cardinality(P[f])
      BY DEF FobMetrics
    <2> HIDE DEF h, P
    <2>2. SumFunctionOnSet(h, FobEdges) = Cardinality(Whole(P, FobEdges))
      BY <1>1, <1>2, <2>1, CardParts
    <2>3. SumFunction(h) = Cardinality({a \in S : fpFleet[a].edge \in FobEdges})
      BY <1>2, <2>1, <2>2 DEF SumFunction
    <2> QED
      BY <2>3 DEF h
  <1>5. SumFunction([f \in FobEdges |-> FobMetrics(f).composition["inflight"]]) <= Cardinality(fpFlying)
    <2> DEFINE h == [f \in FobEdges |-> FobMetrics(f).composition["inflight"]]
    <2>1. DOMAIN h = FobEdges /\ \A f \in FobEdges : h[f] = Cardinality(F[f])
      BY DEF FobMetrics, Categories
    <2> HIDE DEF h, F
    <2>2. SumFunctionOnSet(h, FobEdges) = Cardinality(Whole(F, FobEdges))
      BY <1>1, <1>3, <2>1, CardParts
    <2>3. Cardinality(Whole(F, FobEdges)) <= Cardinality(fpFlying)
      BY <1>1, <1>3, FS_Subset
    <2>4. SumFunction(h) <= Cardinality(fpFlying)
      BY <2>1, <2>2, <2>3 DEF SumFunction
    <2> QED
      BY <2>4 DEF h
  <1>6. ASSUME NEW f \in FobEdges PROVE SumFunction(FobMetrics(f).bySeverity) = FobMetrics(f).total
    <2> DEFINE T == Severities \cup {"UNSPECIFIED"}
               Q == [s \in T |-> {a \in P[f] : SeverityOf(a) = s}]
               h == FobMetrics(f).bySeverity
    <2>1. /\ DOMAIN h = T /\ \A s \in T : h[s] = Cardinality(Q[s])
          /\ FobMetrics(f).total = Cardinality(P[f])
      BY DEF FobMetrics
    <2>2. \A a \in S : SeverityOf(a) \in T
      BY DEF SeverityOf, PostureInv, PostureTypeOK
    <2>3. P[f] \subseteq S
      OBVIOUS
    <2>4. IsFiniteSet(P[f]) /\ IsFiniteSet(T)
      BY <2>3, <1>1, FS_Subset, FS_AddElement
    <2> HIDE DEF P, S
    <2>5. Apart(Q, T, P[f])
      BY DEF Apart
    <2> HIDE DEF T
    <2>6. Whole(Q, T) = P[f]
      <3>1. \A a \in P[f] : SeverityOf(a) \in T /\ a \in Q[SeverityOf(a)]
        BY <2>2, <2>3
      <3>2. \A s \in T : Q[s] \subseteq P[f]
        OBVIOUS
      <3> HIDE DEF Q
      <3> QED
        BY <3>1, <3>2 DEF Whole
    <2> HIDE DEF h, Q
    <2>7. SumFunctionOnSet(h, T) = Cardinality(Whole(Q, T))
      BY <2>1, <2>4, <2>5, CardParts
    <2> QED
      BY <2>1, <2>6, <2>7 DEF SumFunction, h
  <1>7. ASSUME NEW c \in Categories \ {"inflight"}
        PROVE  SumFunction([f \in FobEdges |-> FobMetrics(f).composition[c]]) <= Total(PostureRollups[c])
    <2> DEFINE h == [f \in FobEdges |-> FobMetrics(f).composition[c]]
               C == {a \in S : CategoryOf(fpFleet[a].class) = c}
               Q == [f \in FobEdges |-> {a \in C : fpFleet[a].edge = f}]
    <2>1. DOMAIN h = FobEdges /\ Total(PostureRollups[c]) = Cardinality(C)
      BY DEF FobMetrics, PostureRollups, Total
    <2>2. ASSUME NEW f \in FobEdges PROVE h[f] = Cardinality(Q[f])
      <3>1. h[f] = Cardinality({a \in Here(f) : CategoryOf(fpFleet[a].class) = c})
        BY DEF FobMetrics
      <3>2. {a \in Here(f) : CategoryOf(fpFleet[a].class) = c} = Q[f]
        OBVIOUS
      <3> QED
        BY <3>1, <3>2
    <2>3. C \subseteq S
      OBVIOUS
    <2>4. IsFiniteSet(C)
      BY <2>3, <1>1, FS_Subset
    <2>5. Apart(Q, FobEdges, C) /\ Whole(Q, FobEdges) \subseteq C
      BY DEF Apart, Whole
    <2> HIDE DEF h, Q, C
    <2>6. SumFunctionOnSet(h, FobEdges) = Cardinality(Whole(Q, FobEdges))
      BY <1>1, <2>2, <2>4, <2>5, CardParts
    <2>7. Cardinality(Whole(Q, FobEdges)) <= Cardinality(C)
      BY <2>4, <2>5, FS_Subset
    <2>8. SumFunction(h) <= Total(PostureRollups[c])
      BY <2>1, <2>6, <2>7 DEF SumFunction
    <2> QED
      BY <2>8 DEF h
  <1> QED
    BY <1>4, <1>5, <1>6, <1>7 DEF FobsAddUp

\* The table has a row for every edge it meets.
LEMMA EdgesAreParts == PostureInv => EdgesAgree
  <1> SUFFICES ASSUME PostureInv PROVE EdgesAgree
    OBVIOUS
  <1> DEFINE S == DOMAIN fpFleet
             H == [e \in EdgesSeen |-> {a \in Hardware : fpFleet[a].edge = e}]
             F == [e \in EdgesSeen |-> {m \in fpFlying : AttributedTo(m) = e}]
  <1>1. IsFiniteSet(S) /\ IsFiniteSet(fpFlying) /\ Hardware \subseteq S
    BY DEF PostureInv, Hardware
  <1>2. IsFiniteSet(Hardware)
    BY <1>1, FS_Subset
  <1>3. IsFiniteSet(EdgesSeen)
    <2> DEFINE e == [a \in Hardware |-> fpFleet[a].edge]
               t == [m \in fpFlying |-> AttributedTo(m)]
    <2>1. IsFiniteSet({e[a] : a \in Hardware}) /\ IsFiniteSet({t[m] : m \in fpFlying})
      <3> HIDE DEF e, t
      <3> QED
        BY <1>1, <1>2, ImageFinite
    <2>2. EdgesSeen = {e[a] : a \in Hardware} \cup {t[m] : m \in fpFlying}
      BY DEF EdgesSeen
    <2> HIDE DEF e, t
    <2> QED
      BY <2>1, <2>2, FS_Union
  <1>4. Apart(H, EdgesSeen, Hardware) /\ Whole(H, EdgesSeen) = Hardware
    <2>1. \A a \in Hardware : fpFleet[a].edge \in EdgesSeen
      BY DEF EdgesSeen
    <2> QED
      BY <2>1 DEF Apart, Whole
  <1>5. Apart(F, EdgesSeen, fpFlying) /\ Whole(F, EdgesSeen) = fpFlying
    <2>1. \A m \in fpFlying : AttributedTo(m) \in EdgesSeen
      BY DEF EdgesSeen
    <2> QED
      BY <2>1 DEF Apart, Whole
  <1>6. SumFunction([e \in EdgesSeen |-> EdgeRow(e).hardware]) = Cardinality(Hardware)
    <2> DEFINE h == [e \in EdgesSeen |-> EdgeRow(e).hardware]
    <2>1. DOMAIN h = EdgesSeen /\ \A e \in EdgesSeen : h[e] = Cardinality(H[e])
      BY DEF EdgeRow
    <2> HIDE DEF h, H
    <2>2. SumFunctionOnSet(h, EdgesSeen) = Cardinality(Whole(H, EdgesSeen))
      BY <1>2, <1>3, <1>4, <2>1, CardParts
    <2>3. SumFunction(h) = Cardinality(Hardware)
      BY <1>4, <2>1, <2>2 DEF SumFunction
    <2> QED
      BY <2>3 DEF h
  <1>7. SumFunction([e \in EdgesSeen |-> EdgeRow(e).inflight]) = Cardinality(fpFlying)
    <2> DEFINE h == [e \in EdgesSeen |-> EdgeRow(e).inflight]
    <2>1. DOMAIN h = EdgesSeen /\ \A e \in EdgesSeen : h[e] = Cardinality(F[e])
      BY DEF EdgeRow
    <2> HIDE DEF h, F
    <2>2. SumFunctionOnSet(h, EdgesSeen) = Cardinality(Whole(F, EdgesSeen))
      BY <1>1, <1>3, <1>5, <2>1, CardParts
    <2>3. SumFunction(h) = Cardinality(fpFlying)
      BY <1>5, <2>1, <2>2 DEF SumFunction
    <2> QED
      BY <2>3 DEF h
  <1>8. ASSUME NEW f \in FobEdges
        PROVE  EdgeRow(f).hardware = FobMetrics(f).total - Cardinality({a \in S \ Hardware : fpFleet[a].edge = f})
    <2> DEFINE All == {a \in S : fpFleet[a].edge = f}
               Hard == {a \in Hardware : fpFleet[a].edge = f}
               Soft == {a \in S \ Hardware : fpFleet[a].edge = f}
    <2>1. All = Hard \cup Soft /\ Hard \cap Soft = {} /\ All \subseteq S /\ Hard \subseteq S /\ Soft \subseteq S
      BY <1>1
    <2>2. FobMetrics(f).total = Cardinality(All) /\ EdgeRow(f).hardware = Cardinality(Hard)
      BY DEF FobMetrics, EdgeRow
    <2>3. Cardinality({}) = 0
      BY FS_EmptySet
    <2> HIDE DEF All, Hard, Soft
    <2>4. IsFiniteSet(Hard) /\ IsFiniteSet(Soft)
      BY <1>1, <2>1, FS_Subset
    <2>5. Cardinality(All) = Cardinality(Hard) + Cardinality(Soft) - Cardinality({})
      BY <2>1, <2>4, FS_Union
    <2>6. Cardinality(Hard) \in Nat /\ Cardinality(Soft) \in Nat
      BY <2>4, FS_CardinalityType
    <2>7. Cardinality(Hard) = Cardinality(All) - Cardinality(Soft)
      BY <2>3, <2>5, <2>6
    <2> QED
      BY <2>2, <2>7 DEF Soft
  <1>9. ASSUME NEW f \in FobEdges, \A m \in fpFlying : m.launcher \notin S \ Hardware
        PROVE  EdgeRow(f).inflight = FobMetrics(f).composition["inflight"]
    <2>1. \A m \in fpFlying : AttributedTo(m) = TrackEdge(m)
      BY <1>1, <1>9 DEF AttributedTo, TrackEdge
    <2>2. {m \in fpFlying : AttributedTo(m) = f} = {m \in fpFlying : TrackEdge(m) = f}
      BY <2>1
    <2>3. FobMetrics(f).composition["inflight"] = Cardinality({m \in fpFlying : TrackEdge(m) = f})
      BY DEF FobMetrics, Categories
    <2> QED
      BY <2>2, <2>3 DEF EdgeRow
  <1> QED
    BY <1>6, <1>7, <1>8, <1>9 DEF EdgesAgree

LEMMA PostureAdds == PostureInv => PostureAddsUp
  BY RollupsAreParts, FobsAreParts, EdgesAreParts DEF PostureAddsUp

-----------------------------------------------------------------------------
(* The theater's rollups. *)

RollupsRowsOK ==
    /\ \A n \in DOMAIN rrFleet : rrFleet[n] \in FleetCounts
    /\ \A n \in DOMAIN rrFactors : rrFactors[n] \in FactorCounts
    /\ \A n \in DOMAIN rrWear : rrWear[n] \in WearLists

\* The factors of a region of one row are kept and shown as they were emitted.
LoneRow(n) == OfRegion(rrFactors, RollupRegion[n]) = {n}
LoneRowsShown ==
    \A n \in DOMAIN rrFactors :
        LoneRow(n) => rrMapped[n] = rrFactors[n] /\ rrShown[RollupRegion[n]] = rrFactors[n]

RollupsInv == RollupsTypeOK /\ RollupsRowsOK /\ LoneRowsShown

\* A render of a region of one row changes nothing of it.
LEMMA LoneRowStands ==
  ASSUME NEW rows, NEW n \in DOMAIN rows, n \in RollupRows, OfRegion(rows, RollupRegion[n]) = {n},
         rows[n] \in [DOMAIN rows[n] -> Nat]
  PROVE  RowsMerged(rows)[n] = rows[n] /\ MergedFactors(rows, RollupRegion[n]) = rows[n]
  <1>1. ASSUME NEW f \in DOMAIN rows[n] PROVE CountOf(rows, {n}, f) = rows[n][f]
    <2> DEFINE c == [m \in {m \in {n} : f \in DOMAIN rows[m]} |-> rows[m][f]]
    <2>1. DOMAIN c = {n} /\ c[n] = rows[n][f] /\ \A m \in {n} : c[m] \in Int
      BY <1>1
    <2>2. CountOf(rows, {n}, f) = SumFunctionOnSet(c, DOMAIN c)
      BY DEF CountOf, SumFunction
    <2> HIDE DEF c
    <2>3. IsFiniteSet({n}) /\ n \in {n} /\ {n} \ {n} = {}
      BY FS_Singleton
    <2>4. SumFunctionOnSet(c, {n}) = c[n] + SumFunctionOnSet(c, {n} \ {n})
      BY <2>1, <2>3, SumStep
    <2>5. SumFunctionOnSet(c, {}) = 0
      BY SumNothing
    <2> QED
      BY <2>1, <2>2, <2>3, <2>4, <2>5
  <1>2. NamedIn(rows, RollupRegion[n]) = DOMAIN rows[n]
    BY DEF NamedIn
  <1>3. [f \in DOMAIN rows[n] |-> CountOf(rows, {n}, f)] = rows[n]
    BY <1>1
  <1>4. IsFirst(rows, n)
    BY RollupAssumption DEF IsFirst
  <1> QED
    BY <1>2, <1>3, <1>4 DEF RowsMerged, MergedFactors

LEMMA RenderKeeps ==
  ASSUME NEW rows, DOMAIN rows \subseteq RollupRows, RenderOf(rows)
  PROVE  /\ DOMAIN rrMapped' = DOMAIN rows /\ DOMAIN rrShown' = RollupRegions
         /\ \A n \in DOMAIN rows : DOMAIN rrMapped'[n] = DOMAIN rows[n]
         /\ \A n \in DOMAIN rows :
               OfRegion(rows, RollupRegion[n]) = {n} /\ rows[n] \in [DOMAIN rows[n] -> Nat]
                   => rrMapped'[n] = rows[n] /\ rrShown'[RollupRegion[n]] = rows[n]
  <1>1. rrMapped' = RowsMerged(rows) /\ rrShown' = [r \in RollupRegions |-> MergedFactors(rows, r)]
    BY DEF RenderOf
  <1>2. /\ DOMAIN RowsMerged(rows) = DOMAIN rows
        /\ \A n \in DOMAIN rows : DOMAIN RowsMerged(rows)[n] = DOMAIN rows[n]
    BY DEF RowsMerged
  <1>3. ASSUME NEW n \in DOMAIN rows, OfRegion(rows, RollupRegion[n]) = {n}, rows[n] \in [DOMAIN rows[n] -> Nat]
        PROVE  rrMapped'[n] = rows[n] /\ rrShown'[RollupRegion[n]] = rows[n]
    <2>1. RowsMerged(rows)[n] = rows[n] /\ MergedFactors(rows, RollupRegion[n]) = rows[n]
      BY <1>3, LoneRowStands
    <2>2. RollupRegion[n] \in RollupRegions
      BY DEF RollupRegions
    <2> QED
      BY <1>1, <2>1, <2>2
  <1> QED
    BY <1>1, <1>2, <1>3

LEMMA RollupsInvInit == RollupsInit => RollupsInv
  <1> SUFFICES ASSUME RollupsInit PROVE RollupsInv
    OBVIOUS
  <1>1. /\ DOMAIN rrFleet = {} /\ DOMAIN rrFactors = {} /\ DOMAIN rrWear = {} /\ DOMAIN rrMapped = {}
        /\ DOMAIN rrShown = RollupRegions
    BY DEF RollupsInit
  <1> QED
    BY <1>1, RollupAssumption DEF RollupsInit, RollupsInv, RollupsTypeOK, RollupsRowsOK, LoneRowsShown

\* A render of the kept rows, whatever else comes.
LEMMA KeptRender ==
  ASSUME RollupsInv, RenderOf(rrMapped), rrFactors' = rrFactors
  PROVE  /\ DOMAIN rrMapped' = DOMAIN rrFactors' /\ DOMAIN rrShown' = RollupRegions
         /\ \A n \in DOMAIN rrMapped' : DOMAIN rrMapped'[n] = DOMAIN rrFactors'[n]
         /\ LoneRowsShown'
  <1> USE DEF RollupsInv, RollupsTypeOK
  <1>1. DOMAIN rrMapped = DOMAIN rrFactors /\ DOMAIN rrMapped \subseteq RollupRows
    OBVIOUS
  <1>2. /\ DOMAIN rrMapped' = DOMAIN rrMapped /\ DOMAIN rrShown' = RollupRegions
        /\ \A n \in DOMAIN rrMapped : DOMAIN rrMapped'[n] = DOMAIN rrMapped[n]
        /\ \A n \in DOMAIN rrMapped :
               OfRegion(rrMapped, RollupRegion[n]) = {n} /\ rrMapped[n] \in [DOMAIN rrMapped[n] -> Nat]
                   => rrMapped'[n] = rrMapped[n] /\ rrShown'[RollupRegion[n]] = rrMapped[n]
    BY <1>1, RenderKeeps
  <1>3. ASSUME NEW n \in DOMAIN rrFactors, LoneRow(n)
        PROVE  rrMapped'[n] = rrFactors[n] /\ rrShown'[RollupRegion[n]] = rrFactors[n]
    <2>1. rrMapped[n] = rrFactors[n]
      BY <1>3 DEF LoneRowsShown
    <2>2. rrFactors[n] \in [DOMAIN rrFactors[n] -> Nat]
      BY RollupAssumption DEF RollupsRowsOK
    <2>3. OfRegion(rrMapped, RollupRegion[n]) = {n}
      BY <1>1, <1>3 DEF LoneRow, OfRegion
    <2> QED
      BY <1>1, <1>2, <2>1, <2>2, <2>3
  <1>4. LoneRowsShown'
    BY <1>3 DEF LoneRowsShown, LoneRow, OfRegion
  <1> QED
    BY <1>1, <1>2, <1>4

LEMMA RollupsInvStep == RollupsInv /\ [RollupsNext]_rollupVars => RollupsInv'
  <1> SUFFICES ASSUME RollupsInv, [RollupsNext]_rollupVars PROVE RollupsInv'
    OBVIOUS
  <1> USE DEF RollupsInv
  <1>1. CASE Rerender
    <2>1. /\ RenderOf(rrMapped) /\ UNCHANGED <<rrFleet, rrFactors, rrWear, rrEmitted>> /\ rrRerenders' \in 0..MaxRerenders
      BY <1>1, RollupAssumption DEF Rerender, RollupsTypeOK
    <2>2. /\ DOMAIN rrMapped' = DOMAIN rrFactors' /\ DOMAIN rrShown' = RollupRegions
          /\ \A n \in DOMAIN rrMapped' : DOMAIN rrMapped'[n] = DOMAIN rrFactors'[n]
          /\ LoneRowsShown'
      BY <2>1, KeptRender
    <2> QED
      BY <2>1, <2>2 DEF RollupsTypeOK, RollupsRowsOK
  <1>2. ASSUME NEW n \in RollupRows, FleetEmitted(n) PROVE RollupsInv'
    <2>1. /\ RenderOf(rrMapped) /\ UNCHANGED <<rrFactors, rrWear, rrRerenders>> /\ rrEmitted' \in 0..MaxEmitted
          /\ \E row \in FleetCounts : rrFleet' = WithEmitted(rrFleet, n, row)
      BY <1>2, RollupAssumption DEF FleetEmitted, Emitted, RollupsTypeOK
    <2>2. /\ DOMAIN rrMapped' = DOMAIN rrFactors' /\ DOMAIN rrShown' = RollupRegions
          /\ \A m \in DOMAIN rrMapped' : DOMAIN rrMapped'[m] = DOMAIN rrFactors'[m]
          /\ LoneRowsShown'
      BY <2>1, KeptRender
    <2>3. DOMAIN rrFleet' = DOMAIN rrFleet \cup {n} /\ \A m \in DOMAIN rrFleet' : rrFleet'[m] \in FleetCounts
      BY <2>1 DEF WithEmitted, RollupsRowsOK
    <2> QED
      BY <2>1, <2>2, <2>3 DEF RollupsTypeOK, RollupsRowsOK
  <1>3. ASSUME NEW n \in RollupRows, WearEmitted(n) PROVE RollupsInv'
    <2>1. /\ RenderOf(rrMapped) /\ UNCHANGED <<rrFleet, rrFactors, rrRerenders>> /\ rrEmitted' \in 0..MaxEmitted
          /\ \E row \in WearLists : rrWear' = WithEmitted(rrWear, n, row)
      BY <1>3, RollupAssumption DEF WearEmitted, Emitted, RollupsTypeOK
    <2>2. /\ DOMAIN rrMapped' = DOMAIN rrFactors' /\ DOMAIN rrShown' = RollupRegions
          /\ \A m \in DOMAIN rrMapped' : DOMAIN rrMapped'[m] = DOMAIN rrFactors'[m]
          /\ LoneRowsShown'
      BY <2>1, KeptRender
    <2>3. DOMAIN rrWear' = DOMAIN rrWear \cup {n} /\ \A m \in DOMAIN rrWear' : rrWear'[m] \in WearLists
      BY <2>1 DEF WithEmitted, RollupsRowsOK
    <2> QED
      BY <2>1, <2>2, <2>3 DEF RollupsTypeOK, RollupsRowsOK
  <1>4. ASSUME NEW n \in RollupRows, FactorsEmitted(n) PROVE RollupsInv'
    <2>1. /\ RenderOf(rrFactors') /\ UNCHANGED <<rrFleet, rrWear, rrRerenders>> /\ rrEmitted' \in 0..MaxEmitted
          /\ \E row \in FactorCounts : rrFactors' = WithEmitted(rrFactors, n, row)
      BY <1>4, RollupAssumption DEF FactorsEmitted, Emitted, RollupsTypeOK
    <2>2. DOMAIN rrFactors' = DOMAIN rrFactors \cup {n} /\ \A m \in DOMAIN rrFactors' : rrFactors'[m] \in FactorCounts
      BY <2>1 DEF WithEmitted, RollupsRowsOK
    <2>3. DOMAIN rrFactors' \subseteq RollupRows
      BY <2>2 DEF RollupsTypeOK
    <2>4. /\ DOMAIN rrMapped' = DOMAIN rrFactors' /\ DOMAIN rrShown' = RollupRegions
          /\ \A m \in DOMAIN rrFactors' : DOMAIN rrMapped'[m] = DOMAIN rrFactors'[m]
          /\ \A m \in DOMAIN rrFactors' :
               OfRegion(rrFactors', RollupRegion[m]) = {m} /\ rrFactors'[m] \in [DOMAIN rrFactors'[m] -> Nat]
                   => rrMapped'[m] = rrFactors'[m] /\ rrShown'[RollupRegion[m]] = rrFactors'[m]
      BY <2>1, <2>3, RenderKeeps
    <2>5. \A m \in DOMAIN rrFactors' : rrFactors'[m] \in [DOMAIN rrFactors'[m] -> Nat]
      BY <2>2, RollupAssumption
    <2>6. LoneRowsShown'
      BY <2>4, <2>5 DEF LoneRowsShown, LoneRow, OfRegion
    <2> QED
      BY <2>1, <2>2, <2>3, <2>4, <2>6 DEF RollupsTypeOK, RollupsRowsOK
  <1>5. CASE UNCHANGED rollupVars
    BY <1>5 DEF rollupVars, RollupsTypeOK, RollupsRowsOK, LoneRowsShown, LoneRow, OfRegion
  <1> QED
    BY <1>1, <1>2, <1>3, <1>4, <1>5 DEF RollupsNext

\* What a list of components says of one id and unit.
WearIds == UNION {{c.id : c \in ToSet(list)} : list \in WearLists}
WearUnits == UNION {{c.unit : c \in ToSet(list)} : list \in WearLists}
Worn == [id : WearIds, unit : WearUnits, rul : Nat, assets : Nat]
WornFigures == {"rul", "assets"}
PlacesOf(list, id, unit) == {i \in DOMAIN list : list[i].id = id /\ list[i].unit = unit}
FigureAt(list, k) == [i \in DOMAIN list |-> list[i][k]]
Weight(list, id, unit, k) == SumFunctionOnSet(FigureAt(list, k), PlacesOf(list, id, unit))
OneUnit(id, unit) == {list \in Seq(Worn) : \A i \in DOMAIN list : list[i].id = id => list[i].unit = unit}

LEMMA WearTyped == \A list \in WearLists : list \in Seq(Worn)
  <1> SUFFICES ASSUME NEW list \in WearLists PROVE list \in Seq(Worn)
    OBVIOUS
  <1>1. list \in Seq(ToSet(list)) /\ \A c \in ToSet(list) : IsComponent(c)
    BY RollupAssumption
  <1>2. ASSUME NEW c \in ToSet(list) PROVE c \in Worn
    <2>1. c.id \in WearIds /\ c.unit \in WearUnits
      BY DEF WearIds, WearUnits
    <2> QED
      BY <2>1, <1>1 DEF IsComponent, Worn
  <1> QED
    BY <1>1, <1>2

LEMMA WeightTyped ==
  ASSUME NEW list \in Seq(Worn), NEW id, NEW unit, NEW k \in WornFigures
  PROVE  /\ IsFiniteSet(DOMAIN list) /\ \A i \in DOMAIN list : FigureAt(list, k)[i] \in Nat
         /\ IsFiniteSet(PlacesOf(list, id, unit)) /\ Weight(list, id, unit, k) \in Nat
  <1>1. IsFiniteSet(DOMAIN list)
    <2>1. DOMAIN list = 1..Len(list) /\ Len(list) \in Nat
      OBVIOUS
    <2> QED
      BY <2>1, FS_Interval
  <1>2. ASSUME NEW i \in DOMAIN list PROVE FigureAt(list, k)[i] \in Nat
    <2>1. list[i] \in Worn
      OBVIOUS
    <2>2. list[i].rul \in Nat /\ list[i].assets \in Nat
      BY <2>1 DEF Worn
    <2>3. k = "rul" \/ k = "assets"
      BY DEF WornFigures
    <2> QED
      BY <2>2, <2>3 DEF FigureAt
  <1>3. PlacesOf(list, id, unit) \subseteq DOMAIN list
    BY DEF PlacesOf
  <1>4. IsFiniteSet(PlacesOf(list, id, unit))
    BY <1>1, <1>3, FS_Subset
  <1>5. \A i \in PlacesOf(list, id, unit) : FigureAt(list, k)[i] \in Nat
    BY <1>2, <1>3
  <1>6. Weight(list, id, unit, k) \in Nat
    BY <1>4, <1>5, SumNat DEF Weight
  <1> QED
    BY <1>1, <1>2, <1>4, <1>6

\* A component that is added adds its figures, once.
LEMMA AddedAtTheEnd ==
  ASSUME NEW id, NEW unit, NEW k \in WornFigures, NEW list \in OneUnit(id, unit), NEW c \in Worn,
         c.id = id => c.unit = unit
  PROVE  /\ Append(list, c) \in OneUnit(id, unit)
         /\ Weight(Append(list, c), id, unit, k) = Weight(list, id, unit, k) + IF c.id = id THEN c[k] ELSE 0
  <1> DEFINE n == Len(list)
             new == Append(list, c)
             f == FigureAt(list, k)
             g == FigureAt(new, k)
             S == PlacesOf(list, id, unit)
             T == PlacesOf(new, id, unit)
  <1>1. list \in Seq(Worn) /\ n \in Nat /\ DOMAIN list = 1..n
    BY DEF OneUnit
  <1>2. /\ new \in Seq(Worn) /\ DOMAIN new = 1..(n + 1) /\ new[n + 1] = c
        /\ \A i \in 1..n : new[i] = list[i] /\ i \in 1..(n + 1) /\ i # n + 1
    BY <1>1
  <1>3. \A i \in 1..(n + 1) : i \in 1..n \/ i = n + 1
    BY <1>1
  <1> HIDE DEF n, new
  <1>4. new \in OneUnit(id, unit)
    BY <1>1, <1>2, <1>3 DEF OneUnit
  <1>5. \A i \in 1..n : f[i] = g[i]
    BY <1>1, <1>2 DEF FigureAt
  <1>6. S \subseteq 1..n /\ T \ {n + 1} = S
    BY <1>1, <1>2, <1>3 DEF PlacesOf
  <1>7. n + 1 \in T <=> c.id = id
    BY <1>1, <1>2 DEF PlacesOf
  <1>8. /\ IsFiniteSet(S) /\ IsFiniteSet(T) /\ (\A i \in 1..n : f[i] \in Nat) /\ \A i \in 1..(n + 1) : g[i] \in Nat
    BY <1>1, <1>2, WeightTyped
  <1>9. g[n + 1] = c[k] /\ n + 1 \in 1..(n + 1)
    BY <1>1, <1>2 DEF FigureAt
  <1>10. Weight(list, id, unit, k) = SumFunctionOnSet(f, S) /\ Weight(new, id, unit, k) = SumFunctionOnSet(g, T)
    BY DEF Weight
  <1>11. T \subseteq 1..(n + 1)
    BY <1>2 DEF PlacesOf
  <1> HIDE DEF f, g, S, T
  <1>12. SumFunctionOnSet(g, S) = SumFunctionOnSet(f, S) /\ SumFunctionOnSet(f, S) \in Nat
    <2>1. \A i \in S : f[i] \in Int /\ f[i] \in Nat /\ g[i] = f[i]
      BY <1>5, <1>6, <1>8
    <2> QED
      BY <1>8, <2>1, SumEqual, SumNat
  <1>13. CASE c.id = id
    <2>1. \A i \in T : g[i] \in Int
      BY <1>8, <1>11
    <2>2. SumFunctionOnSet(g, T) = g[n + 1] + SumFunctionOnSet(g, T \ {n + 1})
      BY <1>7, <1>8, <1>13, <2>1, SumStep
    <2>3. g[n + 1] \in Nat
      BY <1>8, <1>9
    <2>4. Weight(new, id, unit, k) = Weight(list, id, unit, k) + c[k]
      BY <1>6, <1>9, <1>10, <1>12, <2>2, <2>3
    <2> QED
      BY <1>4, <1>13, <2>4 DEF new
  <1>14. CASE c.id # id
    <2>1. T = S
      BY <1>6, <1>7, <1>14
    <2>2. Weight(new, id, unit, k) = Weight(list, id, unit, k) + 0
      BY <1>10, <1>12, <2>1
    <2> QED
      BY <1>4, <1>14, <2>2 DEF new
  <1> QED
    BY <1>13, <1>14

LEMMA MergedWorn ==
  ASSUME NEW hit \in Worn, NEW c \in Worn, NEW k \in WornFigures
  PROVE  /\ MergeHit(hit, c) \in Worn /\ MergeHit(hit, c).id = hit.id /\ MergeHit(hit, c).unit = hit.unit
         /\ MergeHit(hit, c)[k] = hit[k] + c[k]
  <1>1. hit.rul \in Nat /\ hit.assets \in Nat /\ c.rul \in Nat /\ c.assets \in Nat
    BY DEF Worn
  <1>2. PICK r \in Nat, a \in Nat : r = hit.rul + c.rul /\ a = hit.assets + c.assets
    BY <1>1
  <1>3. PICK new : new = MergeHit(hit, c)
    OBVIOUS
  <1>4. new = [hit EXCEPT !.rul = r, !.assets = a]
    BY <1>2, <1>3 DEF MergeHit
  <1>5. new \in Worn /\ new.id = hit.id /\ new.unit = hit.unit /\ new.rul = r /\ new.assets = a
    BY <1>4 DEF Worn
  <1> QED
    BY <1>2, <1>3, <1>5 DEF WornFigures

IsPut(new, list, m, sum) == new = [list EXCEPT ![m] = sum]

LEMMA AddedToOne ==
  ASSUME NEW id, NEW unit, NEW k \in WornFigures, NEW list \in OneUnit(id, unit), NEW c \in Worn,
         c.id = id => c.unit = unit, NEW m \in DOMAIN list, list[m].id = c.id,
         NEW sum \in Worn, sum.id = list[m].id, sum.unit = list[m].unit, sum[k] = list[m][k] + c[k],
         NEW new, IsPut(new, list, m, sum)
  PROVE  /\ new \in OneUnit(id, unit)
         /\ Weight(new, id, unit, k) = Weight(list, id, unit, k) + IF c.id = id THEN c[k] ELSE 0
  <1> DEFINE D == DOMAIN list
             n == Len(list)
             f == FigureAt(list, k)
             g == FigureAt(new, k)
             S == PlacesOf(list, id, unit)
  <1>1. /\ list \in Seq(Worn) /\ n \in Nat /\ D = 1..n
        /\ \A i \in D : list[i] \in Worn /\ (list[i].id = id => list[i].unit = unit)
    BY DEF OneUnit
  <1>2. new = [i \in D |-> IF i = m THEN sum ELSE list[i]]
    BY <1>1 DEF IsPut
  <1>3. list[m][k] \in Nat /\ c[k] \in Nat
    <2>1. list[m] \in Worn /\ c \in Worn
      BY <1>1
    <2> QED
      BY <2>1 DEF Worn, WornFigures
  <1>4. new \in Seq(Worn) /\ DOMAIN new = D /\ new[m] = sum /\ \A i \in D : i # m => new[i] = list[i]
    <2>1. new \in [1..n -> Worn]
      BY <1>1, <1>2
    <2> HIDE DEF n
    <2>2. new \in Seq(Worn)
      BY <1>1, <2>1, IsSeq
    <2> QED
      BY <1>2, <2>2
  <1>5. \A i \in D : new[i].id = list[i].id /\ new[i].unit = list[i].unit
    BY <1>4
  <1>6. new \in OneUnit(id, unit)
    <2>1. \A i \in DOMAIN new : new[i].id = id => new[i].unit = unit
      BY <1>1, <1>4, <1>5
    <2> QED
      BY <1>4, <2>1 DEF OneUnit
  <1>7. PlacesOf(new, id, unit) = S
    BY <1>4, <1>5 DEF PlacesOf
  <1>8. S \subseteq D /\ (m \in S <=> c.id = id)
    BY <1>1 DEF PlacesOf
  <1>9. IsFiniteSet(S) /\ (\A i \in D : f[i] \in Nat) /\ \A i \in D : g[i] \in Nat
    BY <1>1, <1>4, WeightTyped
  <1>10. (\A i \in D \ {m} : g[i] = f[i]) /\ g[m] = f[m] + c[k]
    BY <1>3, <1>4 DEF FigureAt
  <1>11. Weight(list, id, unit, k) = SumFunctionOnSet(f, S) /\ Weight(new, id, unit, k) = SumFunctionOnSet(g, S)
    BY <1>7 DEF Weight
  <1> HIDE DEF f, g, S, D
  <1>12. CASE c.id = id
    <2> DEFINE R == S \ {m}
    <2>1. /\ (\A i \in S : f[i] \in Int /\ g[i] \in Int) /\ m \in S
          /\ \A i \in R : f[i] \in Int /\ f[i] \in Nat /\ g[i] = f[i]
      BY <1>8, <1>9, <1>10, <1>12
    <2>2. SumFunctionOnSet(f, S) = f[m] + SumFunctionOnSet(f, R)
      BY <1>9, <2>1, SumStep
    <2>3. SumFunctionOnSet(g, S) = g[m] + SumFunctionOnSet(g, R)
      BY <1>9, <2>1, SumStep
    <2>4. IsFiniteSet(R)
      BY <1>9, FS_Subset
    <2> HIDE DEF R
    <2>5. SumFunctionOnSet(g, R) = SumFunctionOnSet(f, R) /\ SumFunctionOnSet(f, R) \in Nat
      BY <2>1, <2>4, SumEqual, SumNat
    <2>6. f[m] \in Nat
      BY <1>8, <1>9, <2>1
    <2> QED
      BY <1>3, <1>6, <1>10, <1>11, <1>12, <2>2, <2>3, <2>5, <2>6
  <1>13. CASE c.id # id
    <2>1. \A i \in S : f[i] \in Int /\ f[i] \in Nat /\ g[i] = f[i]
      BY <1>8, <1>9, <1>10, <1>13
    <2>2. SumFunctionOnSet(g, S) = SumFunctionOnSet(f, S) /\ SumFunctionOnSet(f, S) \in Nat
      BY <1>9, <2>1, SumEqual, SumNat
    <2> QED
      BY <1>6, <1>11, <1>13, <2>2
  <1> QED
    BY <1>12, <1>13

LEMMA AddedComponent ==
  ASSUME NEW id, NEW unit, NEW k \in WornFigures, NEW list \in OneUnit(id, unit), NEW c \in Worn,
         c.id = id => c.unit = unit
  PROVE  /\ AddComponent(list, c) \in OneUnit(id, unit)
         /\ Weight(AddComponent(list, c), id, unit, k)
              = Weight(list, id, unit, k) + IF c.id = id THEN c[k] ELSE 0
  <1> DEFINE hits == {i \in DOMAIN list : list[i].id = c.id}
  <1>1. CASE hits = {}
    <2>1. AddComponent(list, c) = Append(list, c)
      BY <1>1 DEF AddComponent
    <2> QED
      BY <2>1, AddedAtTheEnd
  <1>2. CASE hits # {}
    <2>1. Len(list) \in Nat /\ hits \in SUBSET (1..Len(list))
      BY DEF OneUnit
    <2>2. AddComponent(list, c) = [list EXCEPT ![Max(hits)] = MergeHit(@, c)]
      BY <1>2 DEF AddComponent
    <2> HIDE DEF hits
    <2>3. Max(hits) \in hits
      BY <1>2, <2>1, MaxIn
    <2>4. PICK m : m = Max(hits)
      OBVIOUS
    <2>5. m \in DOMAIN list /\ list[m].id = c.id
      BY <2>3, <2>4 DEF hits
    <2>6. PICK sum : sum = MergeHit(list[m], c)
      OBVIOUS
    <2>7. IsPut(AddComponent(list, c), list, m, sum)
      BY <2>2, <2>4, <2>6 DEF IsPut
    <2>8. list[m] \in Worn
      BY <2>5 DEF OneUnit
    <2>9. sum \in Worn /\ sum.id = list[m].id /\ sum.unit = list[m].unit /\ sum[k] = list[m][k] + c[k]
      BY <2>6, <2>8, MergedWorn
    <2> QED
      BY <2>5, <2>7, <2>9, AddedToOne
  <1> QED
    BY <1>1, <1>2

LEMMA AddedList ==
  ASSUME NEW id, NEW unit, NEW k \in WornFigures, NEW list \in OneUnit(id, unit), NEW more \in OneUnit(id, unit)
  PROVE  /\ AddList(more, list) \in OneUnit(id, unit)
         /\ Weight(AddList(more, list), id, unit, k) = Weight(list, id, unit, k) + Weight(more, id, unit, k)
  <1> DEFINE V == OneUnit(id, unit)
             n == Len(more)
             o == [p \in V \X (1..n) |-> AddComponent(p[1], more[p[2]])]
             Is(it) == it = [S \in SUBSET (1..n) |-> IF S = {} THEN list ELSE AddComponent(it[S \ {Max(S)}], more[Max(S)])]
             iter == CHOOSE it : Is(it)
             F == FigureAt(more, k)
             P == PlacesOf(more, id, unit)
  <1>1. /\ n \in Nat /\ DOMAIN more = 1..n /\ more \in Seq(Worn)
        /\ \A i \in 1..n : more[i] \in Worn /\ (more[i].id = id => more[i].unit = unit)
    BY DEF OneUnit
  <1>2. AddList(more, list) = iter[1..n]
    BY <1>1 DEF AddList, FoldLeft, MapThenFoldSet
  <1>3. \A v \in V, i \in 1..n : o[<<v, i>>] = AddComponent(v, more[i]) /\ AddComponent(v, more[i]) \in V
    BY <1>1, AddedComponent
  <1>4. o \in [V \X (1..n) -> V]
    BY <1>3
  <1>5. list \in V
    OBVIOUS
  <1>6. IsFiniteSet(P) /\ \A i \in P : F[i] \in Nat /\ i \in 1..n
    <2>1. P \subseteq 1..n
      BY <1>1 DEF PlacesOf
    <2> QED
      BY <1>1, <2>1, WeightTyped
  <1>7. \A i \in 1..n : (i \in P <=> more[i].id = id) /\ F[i] = more[i][k]
    BY <1>1 DEF PlacesOf, FigureAt
  <1>8. Weight(more, id, unit, k) = SumFunctionOnSet(F, P) /\ Weight(list, id, unit, k) \in Nat
    BY WeightTyped DEF Weight, OneUnit
  <1>9. \A v \in V, i \in 1..n : Weight(o[<<v, i>>], id, unit, k)
                                    = Weight(v, id, unit, k) + IF more[i].id = id THEN more[i][k] ELSE 0
    <2> SUFFICES ASSUME NEW v \in V, NEW i \in 1..n
                 PROVE  Weight(o[<<v, i>>], id, unit, k)
                          = Weight(v, id, unit, k) + IF more[i].id = id THEN more[i][k] ELSE 0
      OBVIOUS
    <2>1. PICK c \in Worn : c = more[i]
      BY <1>1
    <2>2. c.id = id => c.unit = unit
      BY <1>1, <2>1
    <2>3. o[<<v, i>>] = AddComponent(v, c)
      BY <1>3, <2>1
    <2>4. Weight(AddComponent(v, c), id, unit, k) = Weight(v, id, unit, k) + IF c.id = id THEN c[k] ELSE 0
      BY <2>2, AddedComponent
    <2> QED
      BY <2>1, <2>3, <2>4
  <1> HIDE DEF n, V, o, F, P
  <1>10. PICK f \in [SUBSET (1..n) -> V] : Folded(f, list, n, o)
    BY <1>1, <1>4, <1>5, FoldExists
  <1>11. ASSUME NEW S \in SUBSET (1..n), S # {} PROVE Max(S) \in 1..n /\ S \ {Max(S)} \in SUBSET (1..n)
    BY <1>1, <1>11, MaxIn
  <1>12. f = [S \in SUBSET (1..n) |-> IF S = {} THEN list ELSE AddComponent(f[S \ {Max(S)}], more[Max(S)])]
    BY <1>10, <1>11, <1>3 DEF Folded
  <1>13. Is(iter)
    BY <1>12
  <1> HIDE DEF iter
  <1>14. iter[{}] = list
    BY <1>13
  <1>15. ASSUME NEW T \in SUBSET (1..n), T # {}, iter[T \ {Max(T)}] \in V
         PROVE  iter[T] = o[<<iter[T \ {Max(T)}], Max(T)>>]
    BY <1>15, <1>13, <1>11, <1>3
  <1>16. PICK c \in [0..n -> V] : c[0] = list /\ (\A i \in 1..n : c[i] = o[<<c[i - 1], i>>]) /\ iter[1..n] = c[n]
    <2>1. StepsBy(iter, V, list, n, o)
      BY <1>14, <1>15 DEF StepsBy
    <2>2. ChainTo(V, list, n, o, iter[1..n])
      BY <2>1, <1>1, <1>4, <1>5, FoldChain
    <2> QED
      BY <2>2 DEF ChainTo
  <1> DEFINE Pre(i) == {j \in P : j <= i}
             T == {i \in 0..n : Weight(c[i], id, unit, k) = Weight(list, id, unit, k) + SumFunctionOnSet(F, Pre(i))}
  <1>17. 0 \in T
    <2>1. Pre(0) = {}
      BY <1>6
    <2>2. SumFunctionOnSet(F, Pre(0)) = 0
      BY <2>1, SumNothing
    <2> HIDE DEF Pre
    <2> QED
      BY <2>2, <1>1, <1>8, <1>16
  <1>18. ASSUME NEW i \in 0..(n - 1), i \in T PROVE i + 1 \in T
    <2>1. i + 1 \in 1..n /\ i + 1 \in 0..n /\ (i + 1) - 1 = i /\ i \in 0..n
      BY <1>1
    <2>2. c[i] \in V /\ c[i + 1] = o[<<c[i], i + 1>>]
      BY <1>16, <2>1
    <2>3. Weight(c[i + 1], id, unit, k)
            = Weight(c[i], id, unit, k) + IF more[i + 1].id = id THEN more[i + 1][k] ELSE 0
      BY <1>9, <2>1, <2>2
    <2>4. Weight(c[i], id, unit, k) = Weight(list, id, unit, k) + SumFunctionOnSet(F, Pre(i))
      BY <1>18
    <2>5. Pre(i) \subseteq P /\ Pre(i + 1) \subseteq P
      OBVIOUS
    <2>6. IsFiniteSet(Pre(i)) /\ IsFiniteSet(Pre(i + 1))
      BY <1>6, <2>5, FS_Subset
    <2>7. SumFunctionOnSet(F, Pre(i)) \in Nat
      <3>1. \A j \in Pre(i) : F[j] \in Nat
        BY <1>6
      <3> HIDE DEF Pre
      <3> QED
        BY <2>6, <3>1, SumNat
    <2>8. SumFunctionOnSet(F, Pre(i + 1))
            = SumFunctionOnSet(F, Pre(i)) + IF more[i + 1].id = id THEN more[i + 1][k] ELSE 0
      <3>1. CASE more[i + 1].id = id
        <4>1. i + 1 \in Pre(i + 1)
          BY <1>7, <2>1, <3>1
        <4>2. Pre(i + 1) \ {i + 1} = Pre(i)
          BY <1>6, <2>1
        <4>3. (\A j \in Pre(i + 1) : F[j] \in Int) /\ F[i + 1] = more[i + 1][k]
          BY <1>6, <1>7, <2>1
        <4>4. F[i + 1] \in Nat
          BY <1>6, <4>1
        <4> HIDE DEF Pre
        <4>5. SumFunctionOnSet(F, Pre(i + 1)) = F[i + 1] + SumFunctionOnSet(F, Pre(i + 1) \ {i + 1})
          BY <2>6, <4>1, <4>3, SumStep
        <4>6. PICK a \in Nat, b \in Nat : a = F[i + 1] /\ b = SumFunctionOnSet(F, Pre(i))
          BY <2>7, <4>4
        <4>7. SumFunctionOnSet(F, Pre(i + 1)) = a + b
          BY <4>2, <4>5, <4>6
        <4>8. SumFunctionOnSet(F, Pre(i + 1)) = SumFunctionOnSet(F, Pre(i)) + more[i + 1][k]
          BY <4>3, <4>6, <4>7
        <4> QED
          BY <3>1, <4>8
      <3>2. CASE more[i + 1].id # id
        <4>1. i + 1 \notin P
          BY <1>7, <2>1, <3>2
        <4>2. Pre(i + 1) = Pre(i)
          BY <1>6, <2>1, <4>1
        <4> HIDE DEF Pre
        <4> QED
          BY <2>7, <3>2, <4>2
      <3> QED
        BY <3>1, <3>2
    <2>9. (IF more[i + 1].id = id THEN more[i + 1][k] ELSE 0) \in Nat
      <3>1. more[i + 1] \in Worn
        BY <1>1, <2>1
      <3> QED
        BY <3>1 DEF Worn, WornFigures
    <2> HIDE DEF Pre
    <2> QED
      BY <2>1, <2>3, <2>4, <2>7, <2>8, <2>9, <1>8
  <1> HIDE DEF T
  <1>19. 0..n \subseteq T
    BY <1>1, <1>17, <1>18, UpTo
  <1>20. n \in 0..n /\ Pre(n) = P
    BY <1>1, <1>6
  <1>21. Weight(c[n], id, unit, k) = Weight(list, id, unit, k) + SumFunctionOnSet(F, P)
    <2>1. n \in T
      BY <1>19, <1>20
    <2> HIDE DEF Pre
    <2>2. Weight(c[n], id, unit, k) = Weight(list, id, unit, k) + SumFunctionOnSet(F, Pre(n))
      BY <2>1 DEF T
    <2> QED
      BY <1>20, <2>2
  <1> QED
    BY <1>2, <1>8, <1>16, <1>20, <1>21 DEF V

\* The rows of a region weigh what they weigh one by one.
RowWeights(id, unit, k) == [n \in DOMAIN rrWear |-> Weight(rrWear[n], id, unit, k)]

LEMMA RowsInOneUnit ==
  ASSUME RollupsInv, NEW id, NEW unit, UnitsOf(id) = {unit}
  PROVE  \A n \in DOMAIN rrWear : rrWear[n] \in OneUnit(id, unit)
  <1> SUFFICES ASSUME NEW n \in DOMAIN rrWear PROVE rrWear[n] \in OneUnit(id, unit)
    OBVIOUS
  <1>1. rrWear[n] \in Seq(Worn)
    BY WearTyped DEF RollupsInv, RollupsRowsOK
  <1>2. ASSUME NEW i \in DOMAIN rrWear[n], rrWear[n][i].id = id PROVE rrWear[n][i].unit = unit
    <2>1. PICK c : c = rrWear[n][i]
      OBVIOUS
    <2>2. c \in ToSet(rrWear[n])
      BY <2>1 DEF ToSet
    <2>3. <<c.id, c.unit>> \in {<<d.id, d.unit>> : d \in ToSet(rrWear[n])}
      BY <2>2
    <2>4. <<c.id, c.unit>> \in ComponentsOf(rrWear)
      BY <2>3 DEF ComponentsOf
    <2>5. PICK y \in ComponentsOf(rrWear) : y = <<c.id, c.unit>>
      BY <2>4
    <2>6. y[1] = id /\ y[2] = c.unit
      BY <2>1, <2>5, <1>2
    <2>7. y[2] \in UnitsOf(id)
      BY <2>6 DEF UnitsOf
    <2> QED
      BY <2>1, <2>6, <2>7
  <1> QED
    BY <1>1, <1>2 DEF OneUnit

LEMMA RegionWeighed ==
  ASSUME RollupsInv, NEW id, NEW unit, UnitsOf(id) = {unit}, NEW r, NEW k \in WornFigures
  PROVE  /\ RegionWear(r) \in OneUnit(id, unit)
         /\ Weight(RegionWear(r), id, unit, k)
              = SumFunctionOnSet(RowWeights(id, unit, k), OfRegion(rrWear, r))
  <1> DEFINE V == OneUnit(id, unit)
             ns == OfRegion(rrWear, r)
             w == RowWeights(id, unit, k)
             W == [l \in V |-> Weight(l, id, unit, k)]
             first == Min(ns)
             S == ns \ {first}
             b == rrWear[first]
             ch == [T \in SUBSET S |-> Max(T)]
             o == [p \in S \X V |-> AddList(rrWear[p[1]], p[2])]
             Is(it) == it = [T \in SUBSET S |-> IF T = {} THEN b ELSE AddList(rrWear[Max(T)], it[T \ {Max(T)}])]
             iter == CHOOSE it : Is(it)
  <1>1. /\ ns \subseteq Nat /\ ns \subseteq DOMAIN rrWear /\ IsFiniteSet(ns)
    <2>1. ns \subseteq RollupRows
      BY DEF OfRegion, RollupsInv, RollupsTypeOK
    <2>2. RollupRows \subseteq Nat /\ IsFiniteSet(RollupRows)
      BY RollupAssumption
    <2>3. IsFiniteSet(ns)
      BY <2>1, <2>2, FS_Subset
    <2> QED
      BY <2>1, <2>2, <2>3 DEF OfRegion
  <1>2. \A n \in ns : rrWear[n] \in V /\ w[n] = Weight(rrWear[n], id, unit, k) /\ w[n] \in Nat
    <2> SUFFICES ASSUME NEW n \in ns
                 PROVE  rrWear[n] \in V /\ w[n] = Weight(rrWear[n], id, unit, k) /\ w[n] \in Nat
      OBVIOUS
    <2>1. n \in DOMAIN rrWear
      BY <1>1
    <2>2. rrWear[n] \in V
      BY <2>1, RowsInOneUnit
    <2>3. rrWear[n] \in Seq(Worn)
      BY <2>2 DEF OneUnit
    <2>4. Weight(rrWear[n], id, unit, k) \in Nat
      BY <2>3, WeightTyped
    <2> QED
      BY <2>1, <2>2, <2>4 DEF RowWeights
  <1>3. CASE ns = {}
    <2>1. RegionWear(r) = << >>
      BY <1>3 DEF RegionWear
    <2>2. << >> \in OneUnit(id, unit) /\ PlacesOf(<< >>, id, unit) = {}
      BY DEF OneUnit, PlacesOf
    <2>3. Weight(<< >>, id, unit, k) = 0
      BY <2>2, SumNothing DEF Weight
    <2> QED
      BY <1>3, <2>1, <2>2, <2>3, SumNothing
  <1>4. CASE ns # {}
    <2>1. RegionWear(r) = iter[S]
      BY <1>4 DEF RegionWear, MapThenFoldSet
    <2>2. first \in ns
      <3> HIDE DEF ns
      <3> QED
        BY <1>1, <1>4, SmallestOf
    <2>3. S \subseteq ns /\ IsFiniteSet(S) /\ S \subseteq Nat
      <3> HIDE DEF ns
      <3>1. S \subseteq ns
        OBVIOUS
      <3> QED
        BY <3>1, <1>1, FS_Subset
    <2>4. b \in V
      BY <1>2, <2>2
    <2>5. \A x \in S, v \in V :
             /\ o[<<x, v>>] = AddList(rrWear[x], v) /\ AddList(rrWear[x], v) \in V
             /\ W[o[<<x, v>>]] = W[v] + w[x]
      <3> SUFFICES ASSUME NEW x \in S, NEW v \in V
                   PROVE  /\ o[<<x, v>>] = AddList(rrWear[x], v) /\ AddList(rrWear[x], v) \in V
                          /\ W[o[<<x, v>>]] = W[v] + w[x]
        OBVIOUS
      <3>1. x \in ns
        BY <2>3
      <3>2. PICK more \in V : more = rrWear[x]
        BY <1>2, <3>1
      <3>3. /\ AddList(more, v) \in V
            /\ Weight(AddList(more, v), id, unit, k) = Weight(v, id, unit, k) + Weight(more, id, unit, k)
        BY AddedList
      <3>4. o[<<x, v>>] = AddList(more, v)
        BY <3>2
      <3>5. w[x] = Weight(more, id, unit, k)
        BY <1>2, <3>1, <3>2
      <3>6. W[v] = Weight(v, id, unit, k) /\ W[AddList(more, v)] = Weight(AddList(more, v), id, unit, k)
        BY <3>3
      <3> QED
        BY <3>2, <3>3, <3>4, <3>5, <3>6
    <2>6. o \in [S \X V -> V]
      BY <2>5
    <2>7. \A v \in V : W[v] \in Nat
      <3> SUFFICES ASSUME NEW v \in V PROVE W[v] \in Nat
        OBVIOUS
      <3>1. v \in Seq(Worn)
        BY DEF OneUnit
      <3> QED
        BY <3>1, WeightTyped
    <2>8. \A n \in S : w[n] \in Nat
      BY <1>2, <2>3
    <2>9. W[b] = w[first]
      BY <1>2, <2>2
    <2>10. \A T \in SUBSET S : T # {} => Max(T) \in T /\ ch[T] = Max(T) /\ T \ {Max(T)} \in SUBSET S
      <3> SUFFICES ASSUME NEW T \in SUBSET S, T # {}
                   PROVE  Max(T) \in T /\ ch[T] = Max(T) /\ T \ {Max(T)} \in SUBSET S
        OBVIOUS
      <3>1. ch[T] = Max(T)
        OBVIOUS
      <3> HIDE DEF S, ch
      <3>2. IsFiniteSet(T) /\ T \subseteq Nat
        BY <2>3, FS_Subset
      <3>3. Max(T) \in T
        BY <3>2, LargestOf
      <3> QED
        BY <3>1, <3>3
    <2>11. w[first] + SumFunctionOnSet(w, S) = SumFunctionOnSet(w, ns)
      <3> HIDE DEF ns, w, first
      <3>1. \A n \in ns : w[n] \in Int
        BY <1>2
      <3> QED
        BY <1>1, <2>2, <3>1, SumStep
    <2> HIDE DEF V, S, b, ch, o, W, w, ns, first
    <2>12. \A T \in SUBSET S : T # {} => ch[T] \in T
      BY <2>10
    <2>13. PICK f \in [SUBSET S -> V] : SetFold(f, SUBSET S, ch, b, o)
      BY <2>3, <2>4, <2>6, <2>12, SetFoldExists
    <2>14. \A T \in SUBSET S :
              f[T] = IF T = {} THEN b ELSE AddList(rrWear[Max(T)], f[T \ {Max(T)}])
      <3> SUFFICES ASSUME NEW T \in SUBSET S
                   PROVE  f[T] = IF T = {} THEN b ELSE AddList(rrWear[Max(T)], f[T \ {Max(T)}])
        OBVIOUS
      <3>1. CASE T = {}
        BY <2>13, <3>1 DEF SetFold
      <3>2. CASE T # {}
        <4>1. Max(T) \in S /\ f[T \ {Max(T)}] \in V /\ f[T] = o[<<Max(T), f[T \ {Max(T)}]>>]
          BY <2>10, <2>13, <3>2 DEF SetFold
        <4> QED
          BY <2>5, <3>2, <4>1
      <3> QED
        BY <3>1, <3>2
    <2>15. Is(iter)
      <3>1. Is(f)
        BY <2>14
      <3> QED
        BY <3>1
    <2> HIDE DEF iter
    <2>16. SetSteps(iter, V, S, ch, b, o)
      <3>1. iter[{}] = b
        BY <2>15
      <3>2. ASSUME NEW T \in SUBSET S, T # {}, iter[T \ {ch[T]}] \in V
            PROVE  iter[T] = o[<<ch[T], iter[T \ {ch[T]}]>>]
        <4>1. Max(T) \in S /\ ch[T] = Max(T)
          BY <2>10, <3>2
        <4>2. iter[T] = AddList(rrWear[Max(T)], iter[T \ {Max(T)}])
          BY <2>15, <3>2
        <4> QED
          BY <2>5, <3>2, <4>1, <4>2
      <3> QED
        BY <3>1, <3>2 DEF SetSteps
    <2>17. PICK g \in [SUBSET S -> V] : SetFold(g, SUBSET S, ch, b, o) /\ \A T \in SUBSET S : iter[T] = g[T]
      <3>1. SameAsFold(iter, V, S, ch, b, o)
        BY <2>3, <2>4, <2>6, <2>12, <2>16, SetStepsFold
      <3> QED
        BY <3>1 DEF SameAsFold
    <2>18. Weighs(W, w, S, V, o)
      BY <2>5, <2>7, <2>8 DEF Weighs
    <2>19. W[g[S]] = W[b] + SumFunctionOnSet(w, S)
      BY <2>3, <2>4, <2>12, <2>17, <2>18, FoldWeighs
    <2>20. RegionWear(r) = g[S] /\ g[S] \in V
      BY <2>1, <2>17
    <2>21. W[g[S]] = SumFunctionOnSet(w, ns)
      BY <2>9, <2>11, <2>19
    <2> QED
      BY <2>20, <2>21 DEF V, W, w, ns
  <1> QED
    BY <1>3, <1>4

\* Lists of components weigh, together, the sum of what each weighs.
ListsWorn(lists) == IsFiniteSet(DOMAIN lists) /\ \A l \in DOMAIN lists : lists[l] \in Seq(Worn)
EachWeighs(w, lists, id, unit, k) == \A l \in DOMAIN lists : w[l] = Weight(lists[l], id, unit, k)

LEMMA WeighedTogether ==
  ASSUME NEW lists, ListsWorn(lists), NEW id, NEW unit, NEW k \in WornFigures,
         NEW w, EachWeighs(w, lists, id, unit, k)
  PROVE  /\ Weighed(lists, id, unit)[k] = SumFunctionOnSet(w, DOMAIN lists)
         /\ \A l \in DOMAIN lists : w[l] \in Nat
  <1> DEFINE L == DOMAIN lists
             all == UNION {{l} \X DOMAIN lists[l] : l \in L}
             at == {x \in all : lists[x[1]][x[2]].id = id /\ lists[x[1]][x[2]].unit = unit}
             f == [x \in at |-> lists[x[1]][x[2]][k]]
             P == [l \in L |-> {<<l, i>> : i \in PlacesOf(lists[l], id, unit)}]
  <1>1. Weighed(lists, id, unit)[k] = SumFunctionOnSet(f, at)
    <2>1. CASE k = "rul"
      BY <2>1 DEF Weighed, SumFunction
    <2>2. CASE k = "assets"
      BY <2>2 DEF Weighed, SumFunction
    <2> QED
      BY <2>1, <2>2 DEF WornFigures
  <1>2. ASSUME NEW l \in L
        PROVE  /\ IsFiniteSet(PlacesOf(lists[l], id, unit)) /\ Weight(lists[l], id, unit, k) \in Nat
               /\ \A i \in PlacesOf(lists[l], id, unit) :
                     /\ FigureAt(lists[l], k)[i] \in Nat /\ <<l, i>> \in at
                     /\ f[<<l, i>>] = FigureAt(lists[l], k)[i]
    <2>1. lists[l] \in Seq(Worn)
      BY DEF ListsWorn
    <2>2. /\ IsFiniteSet(PlacesOf(lists[l], id, unit)) /\ Weight(lists[l], id, unit, k) \in Nat
          /\ \A i \in DOMAIN lists[l] : FigureAt(lists[l], k)[i] \in Nat
      BY <2>1, WeightTyped
    <2>3. ASSUME NEW i \in PlacesOf(lists[l], id, unit)
          PROVE  <<l, i>> \in at /\ f[<<l, i>>] = FigureAt(lists[l], k)[i] /\ i \in DOMAIN lists[l]
      <3>1. /\ i \in DOMAIN lists[l] /\ lists[l][i].id = id /\ lists[l][i].unit = unit
        BY DEF PlacesOf
      <3>2. <<l, i>> \in all
        BY <3>1
      <3> HIDE DEF all
      <3>3. <<l, i>> \in at
        BY <3>1, <3>2
      <3> HIDE DEF at
      <3> QED
        BY <3>1, <3>3 DEF FigureAt
    <2> QED
      BY <2>2, <2>3
  <1>3. \A x \in at : \E l \in L : \E i \in PlacesOf(lists[l], id, unit) : x = <<l, i>>
    <2> SUFFICES ASSUME NEW x \in at PROVE \E l \in L : \E i \in PlacesOf(lists[l], id, unit) : x = <<l, i>>
      OBVIOUS
    <2>1. PICK l \in L : x \in {l} \X DOMAIN lists[l]
      OBVIOUS
    <2>2. PICK i \in DOMAIN lists[l] : x = <<l, i>>
      BY <2>1
    <2>3. i \in PlacesOf(lists[l], id, unit)
      BY <2>2 DEF PlacesOf
    <2> QED
      BY <2>2, <2>3
  <1> HIDE DEF at, f
  <1>4. \A l \in L : P[l] = {<<l, i>> : i \in PlacesOf(lists[l], id, unit)}
    OBVIOUS
  <1>5. Apart(P, L, at)
    <2>1. P \in [L -> SUBSET at]
      BY <1>2
    <2>2. \A c, d \in L : c # d => P[c] \cap P[d] = {}
      BY <1>4
    <2> HIDE DEF P
    <2> QED
      BY <2>1, <2>2 DEF Apart
  <1>6. Whole(P, L) = at
    <2>1. Whole(P, L) \subseteq at
      BY <1>5 DEF Whole, Apart
    <2>2. at \subseteq Whole(P, L)
      <3> SUFFICES ASSUME NEW x \in at PROVE x \in Whole(P, L)
        OBVIOUS
      <3>1. PICK l \in L : \E i \in PlacesOf(lists[l], id, unit) : x = <<l, i>>
        BY <1>3
      <3>2. x \in P[l]
        BY <3>1
      <3> HIDE DEF P
      <3> QED
        BY <3>2 DEF Whole
    <2> QED
      BY <2>1, <2>2
  <1>7. ASSUME NEW l \in L PROVE IsFiniteSet(P[l]) /\ w[l] = SumFunctionOnSet(f, P[l]) /\ w[l] \in Nat
    <2> DEFINE S == PlacesOf(lists[l], id, unit)
               g == FigureAt(lists[l], k)
               e == [i \in S |-> <<l, i>>]
    <2>1. P[l] = {e[i] : i \in S}
      BY <1>4
    <2>2. IsFiniteSet(S)
      BY <1>2
    <2>3. Renames(e, S, f, g)
      <3>1. \A i \in S : e[i] = <<l, i>> /\ f[e[i]] = g[i] /\ g[i] \in Int
        BY <1>2
      <3>2. \A i, j \in S : e[i] = e[j] => i = j
        OBVIOUS
      <3> HIDE DEF e, S, g
      <3> QED
        BY <3>1, <3>2 DEF Renames
    <2>4. w[l] = SumFunctionOnSet(g, S) /\ w[l] \in Nat
      BY <1>2 DEF Weight, EachWeighs
    <2> HIDE DEF e, S, g, P
    <2>5. IsFiniteSet({e[i] : i \in S})
      BY <2>2, ImageFinite
    <2>6. SumFunctionOnSet(f, {e[i] : i \in S}) = SumFunctionOnSet(g, S)
      BY <2>2, <2>3, SumRenamed
    <2> QED
      BY <2>1, <2>4, <2>5, <2>6
  <1>8. IsFiniteSet(L)
    BY DEF ListsWorn
  <1>9. IsFiniteSet(at)
    <2>1. IsFiniteSet({P[l] : l \in L})
      BY <1>8, ImageFinite
    <2>2. \A p \in {P[l] : l \in L} : IsFiniteSet(p)
      BY <1>7
    <2> HIDE DEF P
    <2>3. IsFiniteSet(UNION {P[l] : l \in L})
      BY <2>1, <2>2, FS_UNION
    <2> QED
      BY <1>6, <2>3 DEF Whole
  <1>10. \A x \in at : f[x] \in Int
    BY <1>2, <1>3
  <1>11. \A l \in L : w[l] = SumFunctionOnSet(f, P[l])
    BY <1>7
  <1> HIDE DEF P, L
  <1>12. SumFunctionOnSet(w, L) = SumFunctionOnSet(f, Whole(P, L))
    BY <1>5, <1>8, <1>9, <1>10, <1>11, SumParts
  <1> QED
    BY <1>1, <1>6, <1>7, <1>12 DEF L

\* The rows of a table, by region.
LEMMA RowsAreParts ==
  ASSUME NEW rows, DOMAIN rows \subseteq RollupRows, NEW w, \A n \in DOMAIN rows : w[n] \in Int,
         NEW h, \A r \in RollupRegions : h[r] = SumFunctionOnSet(w, OfRegion(rows, r))
  PROVE  SumFunctionOnSet(h, RollupRegions) = SumFunctionOnSet(w, DOMAIN rows)
  <1> DEFINE D == DOMAIN rows
             C == RollupRegions
             P == [r \in C |-> OfRegion(rows, r)]
  <1>1. IsFiniteSet(D)
    BY RollupAssumption, FS_Subset
  <1>2. IsFiniteSet(C)
    BY RollupAssumption, ImageFinite DEF RollupRegions
  <1>3. Apart(P, C, D)
    <2>1. P \in [C -> SUBSET D]
      BY DEF OfRegion
    <2>2. \A c, d \in C : c # d => P[c] \cap P[d] = {}
      BY DEF OfRegion
    <2> HIDE DEF P
    <2> QED
      BY <2>1, <2>2 DEF Apart
  <1>4. Whole(P, C) = D
    <2>1. Whole(P, C) \subseteq D
      BY DEF Whole, OfRegion
    <2>2. ASSUME NEW n \in D PROVE n \in P[RollupRegion[n]] /\ RollupRegion[n] \in C
      BY DEF OfRegion, RollupRegions
    <2> HIDE DEF P
    <2> QED
      BY <2>1, <2>2 DEF Whole
  <1>5. \A r \in C : h[r] = SumFunctionOnSet(w, P[r])
    OBVIOUS
  <1>6. \A n \in D : w[n] \in Int
    OBVIOUS
  <1> HIDE DEF P, C, D
  <1>7. SumFunctionOnSet(h, C) = SumFunctionOnSet(w, Whole(P, C))
    BY <1>1, <1>2, <1>3, <1>5, <1>6, SumParts
  <1> QED
    BY <1>4, <1>7 DEF C, D

\* No asset is lost or doubled between the classes, the regions and the theater.
LEMMA CountsAddUp ==
  ASSUME RollupsInv, NEW k \in CountNames
  PROVE  TheaterFleet[k] = SumFunction([n \in DOMAIN rrFleet |-> rrFleet[n].counts[k]])
  <1> DEFINE w == [n \in DOMAIN rrFleet |-> rrFleet[n].counts[k]]
             h == [r \in RollupRegions |-> RegionFleet(r).counts[k]]
  <1>1. \A n \in DOMAIN rrFleet : w[n] = rrFleet[n].counts[k] /\ w[n] \in Int
    BY RollupAssumption DEF RollupsInv, RollupsRowsOK
  <1>2. DOMAIN rrFleet \subseteq RollupRows
    BY DEF RollupsInv, RollupsTypeOK
  <1>3. ASSUME NEW r \in RollupRegions PROVE h[r] = SumFunctionOnSet(w, OfRegion(rrFleet, r))
    <2> DEFINE ns == OfRegion(rrFleet, r)
               c == [n \in ns |-> rrFleet[n].counts[k]]
    <2>1. h[r] = SumFunctionOnSet(c, DOMAIN c)
      BY DEF RegionFleet, SumFunction
    <2>2. DOMAIN c = ns /\ ns \subseteq DOMAIN rrFleet /\ \A n \in ns : c[n] = w[n]
      BY DEF OfRegion
    <2>3. IsFiniteSet(ns)
      BY <1>2, <2>2, RollupAssumption, FS_Subset
    <2>4. \A n \in ns : w[n] \in Int /\ c[n] = w[n]
      BY <1>1, <2>2
    <2> HIDE DEF ns, c, w, h
    <2>5. SumFunctionOnSet(c, ns) = SumFunctionOnSet(w, ns)
      BY <2>3, <2>4, SumEqual
    <2> QED
      BY <2>1, <2>2, <2>5 DEF ns
  <1>4. TheaterFleet[k] = SumFunctionOnSet(h, RollupRegions)
    BY DEF TheaterFleet, SumFunction
  <1>5. SumFunction(w) = SumFunctionOnSet(w, DOMAIN rrFleet)
    BY DEF SumFunction
  <1> HIDE DEF h, w
  <1>6. SumFunctionOnSet(h, RollupRegions) = SumFunctionOnSet(w, DOMAIN rrFleet)
    <2>1. \A n \in DOMAIN rrFleet : w[n] \in Int
      BY <1>1
    <2>2. \A r \in RollupRegions : h[r] = SumFunctionOnSet(w, OfRegion(rrFleet, r))
      BY <1>3
    <2> QED
      BY <1>2, <2>1, <2>2, RowsAreParts
  <1> QED
    BY <1>4, <1>5, <1>6 DEF w

\* No region claims to be fresher than its stalest row.
LEMMA StalestStands ==
  ASSUME RollupsInv, NEW n \in DOMAIN rrFleet, rrFleet[n].observed # 0
  PROVE  RegionFleet(RollupRegion[n]).observed \in 1..rrFleet[n].observed
  <1> DEFINE ns == OfRegion(rrFleet, RollupRegion[n])
             times == {rrFleet[m].observed : m \in ns} \ {0}
  <1>1. \A m \in ns : rrFleet[m].observed \in Nat
    BY RollupAssumption DEF RollupsInv, RollupsRowsOK, OfRegion
  <1>2. times \subseteq Nat \ {0} /\ rrFleet[n].observed \in times
    BY <1>1 DEF OfRegion
  <1>3. RegionFleet(RollupRegion[n]).observed = Min(times)
    <2>1. times # {}
      BY <1>2
    <2> QED
      BY <2>1 DEF RegionFleet
  <1> HIDE DEF times
  <1>4. Min(times) \in times /\ \A y \in times : Min(times) <= y
    BY <1>2, SmallestOf
  <1>5. PICK m \in Nat \ {0}, t \in Nat : m = Min(times) /\ t = rrFleet[n].observed /\ m <= t
    BY <1>2, <1>4
  <1> QED
    BY <1>3, <1>5

\* A wear trend of one unit weighs every asset once.
LEMMA WearOnce ==
  ASSUME RollupsInv, NEW id, NEW unit, UnitsOf(id) = {unit}
  PROVE  TheaterWear(id, unit) = Emits(id, unit)
  <1> DEFINE lists == [r \in RollupRegions |-> RegionWear(r)]
  <1>1. ASSUME NEW k \in WornFigures PROVE Weighed(lists, id, unit)[k] = Weighed(rrWear, id, unit)[k]
    <2> DEFINE w == RowWeights(id, unit, k)
               h == [r \in RollupRegions |-> Weight(RegionWear(r), id, unit, k)]
    <2>1. ListsWorn(rrWear) /\ EachWeighs(w, rrWear, id, unit, k) /\ DOMAIN rrWear \subseteq RollupRows
      <3>1. DOMAIN rrWear \subseteq RollupRows
        BY DEF RollupsInv, RollupsTypeOK
      <3>2. IsFiniteSet(DOMAIN rrWear)
        BY <3>1, RollupAssumption, FS_Subset
      <3>3. \A n \in DOMAIN rrWear : rrWear[n] \in Seq(Worn)
        BY WearTyped DEF RollupsInv, RollupsRowsOK
      <3> QED
        BY <3>1, <3>2, <3>3 DEF ListsWorn, EachWeighs, RowWeights
    <2>2. ListsWorn(lists) /\ EachWeighs(h, lists, id, unit, k) /\ DOMAIN lists = RollupRegions
      <3>1. IsFiniteSet(RollupRegions)
        BY RollupAssumption, ImageFinite DEF RollupRegions
      <3>2. \A r \in RollupRegions : RegionWear(r) \in Seq(Worn)
        BY RegionWeighed, <1>1 DEF OneUnit
      <3> QED
        BY <3>1, <3>2 DEF ListsWorn, EachWeighs
    <2>3. \A r \in RollupRegions : h[r] = SumFunctionOnSet(w, OfRegion(rrWear, r))
      BY RegionWeighed, <1>1
    <2> HIDE DEF w, h, lists
    <2>4. Weighed(rrWear, id, unit)[k] = SumFunctionOnSet(w, DOMAIN rrWear) /\ \A n \in DOMAIN rrWear : w[n] \in Nat
      BY <2>1, WeighedTogether
    <2>5. Weighed(lists, id, unit)[k] = SumFunctionOnSet(h, DOMAIN lists)
      BY <2>2, WeighedTogether
    <2>6. \A n \in DOMAIN rrWear : w[n] \in Int
      BY <2>4
    <2>7. SumFunctionOnSet(h, RollupRegions) = SumFunctionOnSet(w, DOMAIN rrWear)
      BY <2>1, <2>3, <2>6, RowsAreParts
    <2> QED
      BY <2>2, <2>4, <2>5, <2>7
  <1> HIDE DEF lists
  <1>2. /\ Weighed(lists, id, unit).rul = Weighed(rrWear, id, unit).rul
        /\ Weighed(lists, id, unit).assets = Weighed(rrWear, id, unit).assets
    <2>1. "rul" \in WornFigures /\ "assets" \in WornFigures
      BY DEF WornFigures
    <2> QED
      BY <2>1, <1>1
  <1>3. Weighed(lists, id, unit) = Weighed(rrWear, id, unit)
    BY <1>2 DEF Weighed
  <1> QED
    BY <1>3 DEF TheaterWear, Emits, lists

LEMMA TheaterAdds == RollupsInv => TheaterAddsUp
  <1> SUFFICES ASSUME RollupsInv PROVE TheaterAddsUp
    OBVIOUS
  <1>1. \A k \in CountNames :
          TheaterFleet[k] = SumFunction([n \in DOMAIN rrFleet |-> rrFleet[n].counts[k]])
    BY CountsAddUp
  <1>2. \A n \in DOMAIN rrFleet :
          rrFleet[n].observed # 0 => RegionFleet(RollupRegion[n]).observed \in 1..rrFleet[n].observed
    BY StalestStands
  <1>3. \A x \in ComponentsOf(rrWear) : UnitsOf(x[1]) = {x[2]} => TheaterWear(x[1], x[2]) = Emits(x[1], x[2])
    BY WearOnce
  <1>4. \A n \in DOMAIN rrFactors :
          OfRegion(rrFactors, RollupRegion[n]) = {n} => rrShown[RollupRegion[n]] = rrFactors[n]
    BY DEF RollupsInv, LoneRowsShown, LoneRow
  <1> QED
    BY <1>1, <1>2, <1>3, <1>4 DEF TheaterAddsUp

-----------------------------------------------------------------------------
(* The munitions' ledger. *)

\* What was seen of a launcher's ammo is never less than what it has.
LedgerInv == LedgerTypeOK /\ IsFiniteSet(lgTracks) /\ \A a \in Launchers : lgSeen[a] >= lgAmmo[a]

LEMMA AmmoNumbers == \A n \in Ammo : n \in Nat
  BY LedgerAssumption

LEMMA LedgerInvInit == LedgerInit => LedgerInv
  <1> SUFFICES ASSUME LedgerInit PROVE LedgerInv
    OBVIOUS
  <1>1. Max(Ammo) \in Ammo
    BY LedgerAssumption, LargestOf
  <1>2. (CHOOSE h \in Homes : TRUE) \in Homes
    BY LedgerAssumption
  <1>3. lgAmmo \in [Launchers -> Ammo] /\ lgSeen = lgAmmo
    BY <1>1 DEF LedgerInit
  <1>4. lgFleet \in [Launchers -> Homes \cup {Away, NoRegion}]
    BY <1>2 DEF LedgerInit
  <1>5. \A a \in Launchers : lgSeen[a] >= lgAmmo[a]
    BY <1>3, AmmoNumbers
  <1>6. lgTracks = {} /\ lgHere = {} /\ lgEnds \in [LaunchRows -> Outcomes] /\ lgNow = 1 /\ lgMoves = 0
    BY DEF LedgerInit, Outcomes
  <1> QED
    BY <1>3, <1>4, <1>5, <1>6, FS_EmptySet, LedgerAssumption DEF LedgerInv, LedgerTypeOK

LEMMA LedgerInvStep == LedgerInv /\ [LedgerNext]_ledgerVars => LedgerInv'
  <1> SUFFICES ASSUME LedgerInv, [LedgerNext]_ledgerVars PROVE LedgerInv'
    OBVIOUS
  <1> USE DEF LedgerInv, LedgerTypeOK
  <1>1. ASSUME NEW n \in DOMAIN Ledger, RowArrives(n) PROVE LedgerInv'
    BY <1>1 DEF RowArrives
  <1>2. ASSUME NEW n \in DOMAIN Ledger, LaunchEnds(n) PROVE LedgerInv'
    <2>1. lgEnds' \in [LaunchRows -> Outcomes]
      BY <1>2 DEF LaunchEnds
    <2> QED
      BY <1>2, <2>1 DEF LaunchEnds
  <1>3. ASSUME NEW t \in TrackPool, TracksBecome(lgTracks \cup {t}) \/ TracksBecome(lgTracks \ {t}) PROVE LedgerInv'
    <2>1. IsFiniteSet(lgTracks \cup {t}) /\ IsFiniteSet(lgTracks \ {t})
      BY FS_AddElement, FS_RemoveElement
    <2>2. lgTracks' = lgTracks \cup {t} \/ lgTracks' = lgTracks \ {t}
      BY <1>3 DEF TracksBecome
    <2>3. IsFiniteSet(lgTracks') /\ lgTracks' \subseteq TrackPool
      BY <2>1, <2>2
    <2> QED
      BY <1>3, <2>3 DEF TracksBecome
  <1>4. ASSUME Change PROVE lgMoves' \in 0..MaxFleetMoves
    BY <1>4, LedgerAssumption DEF Change
  <1>5. ASSUME NEW a \in Launchers, FleetMoves(a) PROVE LedgerInv'
    <2>1. lgFleet' \in [Launchers -> Homes \cup {Away, NoRegion}]
      BY <1>5 DEF FleetMoves
    <2> QED
      BY <1>4, <1>5, <2>1 DEF FleetMoves
  <1>6. ASSUME NEW a \in Launchers, AmmoReported(a) PROVE LedgerInv'
    <2>1. PICK n \in Ammo : /\ lgAmmo' = [lgAmmo EXCEPT ![a] = n]
                            /\ lgSeen' = [lgSeen EXCEPT ![a] = IF n > @ THEN n ELSE @]
      BY <1>6 DEF AmmoReported
    <2>2. lgAmmo' \in [Launchers -> Ammo] /\ lgSeen' \in [Launchers -> Ammo]
      BY <2>1
    <2>3. \A b \in Launchers : lgAmmo[b] \in Nat /\ lgSeen[b] \in Nat
      BY AmmoNumbers
    <2>4. \A b \in Launchers : lgSeen'[b] >= lgAmmo'[b]
      BY <2>1, <2>3, AmmoNumbers
    <2> QED
      BY <1>4, <1>6, <2>2, <2>4 DEF AmmoReported
  <1>7. CASE ResetSeen
    <2>1. lgSeen' = lgAmmo /\ UNCHANGED <<lgHere, lgEnds, lgTracks, lgFleet, lgNow, lgAmmo>> /\ Change
      BY <1>7 DEF ResetSeen
    <2>2. \A b \in Launchers : lgSeen'[b] >= lgAmmo'[b]
      BY <2>1, AmmoNumbers
    <2> QED
      BY <1>4, <2>1, <2>2
  <1>8. CASE ClockTicks
    BY <1>8, LedgerAssumption DEF ClockTicks
  <1>9. CASE UNCHANGED ledgerVars
    BY <1>9 DEF ledgerVars
  <1> QED
    BY <1>1, <1>2, <1>3, <1>5, <1>6, <1>7, <1>8, <1>9 DEF LedgerNext

\* What was seen is what is there and what is gone.
LEMMA StockIsWhole == LedgerInv => StockAddsUp
  <1> SUFFICES ASSUME LedgerInv, NEW filter \in SUBSET Launchers
               PROVE  StockOf(filter).initial = StockOf(filter).available + StockOf(filter).expended
    BY DEF StockAddsUp
  <1> DEFINE e == [a \in filter |-> StockEntry(a).expended]
  <1>1. IsFiniteSet(filter)
    BY LedgerAssumption, FS_Subset
  <1>2. \A a \in filter : lgAmmo[a] \in Nat /\ lgSeen[a] \in Nat /\ lgSeen[a] >= lgAmmo[a]
    BY AmmoNumbers DEF LedgerInv, LedgerTypeOK
  <1>3. \A a \in filter : lgAmmo[a] \in Int /\ e[a] \in Int /\ lgSeen[a] = lgAmmo[a] + e[a]
    BY <1>2 DEF StockEntry
  <1>4. StockOf(filter).expended = SumFunctionOnSet(e, filter)
    BY DEF StockOf, SumFunction
  <1> HIDE DEF e
  <1>5. SumFunctionOnSet(lgSeen, filter) = SumFunctionOnSet(lgAmmo, filter) + SumFunctionOnSet(e, filter)
    BY <1>1, <1>3, SumPlus
  <1> QED
    BY <1>4, <1>5 DEF StockOf

\* Rank(n): the places of a line among those of its launcher.
Rank(n) == <<Ledger[n].t, IF Ledger[n].kind = "fire" THEN 0 ELSE 1, n>>

LEMMA RankTyped ==
  ASSUME NEW n \in DOMAIN Ledger
  PROVE  Rank(n)[1] \in Nat /\ Rank(n)[2] \in {0, 1} /\ Rank(n)[3] = n /\ n \in Nat
  BY LedgerAssumption DEF Rank

LEMMA LaterByRank ==
  ASSUME NEW n, NEW m
  PROVE  \/ Rank(n)[1] > Rank(m)[1]
         \/ Rank(n)[1] = Rank(m)[1] /\ Rank(n)[2] > Rank(m)[2]
         \/ Rank(n)[1] = Rank(m)[1] /\ Rank(n)[2] = Rank(m)[2] /\ Rank(n)[3] > Rank(m)[3]
         => Later(n, m)
  <1> DEFINE key(i) == <<Ledger[i].t, IF Ledger[i].kind = "fire" THEN 0 ELSE 1, i>>
             At(d) == key(n)[d] > key(m)[d] /\ \A c \in 1..(d - 1) : key(n)[c] = key(m)[c]
  <1>1. Later(n, m) <=> \E d \in 1..3 : At(d)
    BY DEF Later
  <1>2. key(n) = Rank(n) /\ key(m) = Rank(m)
    BY DEF Rank
  <1> HIDE DEF key
  <1>3. Rank(n)[1] > Rank(m)[1] => At(1)
    BY <1>2
  <1>4. Rank(n)[1] = Rank(m)[1] /\ Rank(n)[2] > Rank(m)[2] => At(2)
    BY <1>2
  <1>5. Rank(n)[1] = Rank(m)[1] /\ Rank(n)[2] = Rank(m)[2] /\ Rank(n)[3] > Rank(m)[3] => At(3)
    <2>1. \A c \in 1..(3 - 1) : c = 1 \/ c = 2
      OBVIOUS
    <2> QED
      BY <1>2, <2>1
  <1>6. 1 \in 1..3 /\ 2 \in 1..3 /\ 3 \in 1..3
    OBVIOUS
  <1> HIDE DEF At
  <1> QED
    BY <1>1, <1>3, <1>4, <1>5, <1>6

\* Of some lines one is the last.
LEMMA LastLineIn ==
  ASSUME NEW rows \in SUBSET DOMAIN Ledger, rows # {}
  PROVE  LastLine(rows) \in rows
  <1> DEFINE first == [n \in rows |-> Rank(n)[1]]
             T == {first[n] : n \in rows}
             A == {n \in rows : first[n] = Max(T)}
             second == [n \in A |-> Rank(n)[2]]
             U == {second[n] : n \in A}
             B == {n \in A : second[n] = Max(U)}
  <1>1. IsFiniteSet(rows) /\ rows \subseteq Nat
    BY LedgerAssumption, FS_Subset
  <1>2. \A n \in rows : first[n] = Rank(n)[1] /\ Rank(n)[1] \in Nat /\ Rank(n)[2] \in Nat /\ Rank(n)[3] = n
    BY RankTyped
  <1>3. T \subseteq Nat /\ T # {}
    BY <1>2
  <1>4. IsFiniteSet(T)
    <2> HIDE DEF first
    <2> QED
      BY <1>1, ImageFinite
  <1>5. Max(T) \in T /\ \A y \in T : y <= Max(T)
    <2> HIDE DEF T
    <2> QED
      BY <1>3, <1>4, LargestOf
  <1>6. /\ A # {} /\ A \subseteq rows /\ \A n \in A : Rank(n)[1] = Max(T)
        /\ \A n \in rows : Rank(n)[1] <= Max(T) /\ (Rank(n)[1] = Max(T) => n \in A)
    <2>1. PICK n \in rows : first[n] = Max(T)
      BY <1>5
    <2>2. n \in A
      BY <2>1
    <2>3. \A m \in rows : first[m] \in T
      OBVIOUS
    <2> HIDE DEF T, first
    <2> QED
      BY <1>2, <1>5, <2>2, <2>3
  <1>7. Max(T) \in Nat
    BY <1>3, <1>5
  <1> HIDE DEF A, T
  <1>8. U \subseteq Nat /\ U # {} /\ \A n \in A : second[n] = Rank(n)[2]
    BY <1>2, <1>6
  <1>9. IsFiniteSet(A)
    BY <1>1, <1>6, FS_Subset
  <1>10. IsFiniteSet(U)
    <2> HIDE DEF second
    <2> QED
      BY <1>9, ImageFinite
  <1>11. Max(U) \in U /\ \A y \in U : y <= Max(U)
    <2> HIDE DEF U
    <2> QED
      BY <1>8, <1>10, LargestOf
  <1>12. /\ B # {} /\ B \subseteq A /\ \A n \in B : Rank(n)[2] = Max(U)
         /\ \A n \in A : Rank(n)[2] <= Max(U) /\ (Rank(n)[2] = Max(U) => n \in B)
    <2>1. PICK n \in A : second[n] = Max(U)
      BY <1>11
    <2>2. n \in B
      BY <2>1
    <2>3. \A m \in A : second[m] \in U
      OBVIOUS
    <2> HIDE DEF U, second
    <2> QED
      BY <1>8, <1>11, <2>2, <2>3
  <1>13. Max(U) \in Nat
    BY <1>8, <1>11
  <1> HIDE DEF B, U
  <1>14. IsFiniteSet(B) /\ B \subseteq Nat
    BY <1>1, <1>6, <1>9, <1>12, FS_Subset
  <1>15. PICK last \in B : last = Max(B) /\ \A y \in B : y <= last
    BY <1>12, <1>14, LargestOf
  <1>16. ASSUME NEW m \in rows \ {last} PROVE Later(last, m)
    <2>1. last \in rows /\ Rank(last)[1] = Max(T) /\ Rank(last)[2] = Max(U) /\ Rank(last)[3] = last /\ last \in Nat
      BY <1>1, <1>2, <1>6, <1>12, <1>15
    <2>2. PICK t \in Nat, u \in Nat : t = Max(T) /\ u = Max(U)
      BY <1>7, <1>13
    <2>3. PICK a \in Nat, b \in Nat : a = Rank(m)[1] /\ b = Rank(m)[2]
      BY <1>2
    <2>4. m \in Nat /\ Rank(m)[3] = m
      BY <1>1, <1>2
    <2>5. CASE m \notin A
      <3>1. a < t
        BY <1>6, <2>2, <2>3, <2>5
      <3> QED
        BY <3>1, <2>1, <2>2, <2>3, LaterByRank
    <2>6. CASE m \in A /\ m \notin B
      <3>1. b < u /\ a = t
        BY <1>6, <1>12, <2>2, <2>3, <2>6
      <3> QED
        BY <3>1, <2>1, <2>2, <2>3, LaterByRank
    <2>7. CASE m \in B
      <3>1. a = t /\ b = u /\ m < last
        BY <1>6, <1>12, <1>15, <2>1, <2>2, <2>3, <2>4, <2>7
      <3> QED
        BY <3>1, <2>1, <2>2, <2>3, <2>4, LaterByRank
    <2> QED
      BY <1>12, <2>5, <2>6, <2>7
  <1>17. last \in rows
    BY <1>6, <1>12
  <1>18. \E n \in rows : \A m \in rows \ {n} : Later(n, m)
    BY <1>16, <1>17
  <1> QED
    BY <1>18 DEF LastLine

Sums == [fired : Nat, received : Nat, expended : Nat]

\* What a launcher has fired, received and expended are numbers.
LEMMA ReplayedTyped ==
  ASSUME NEW rows \in SUBSET DOMAIN Ledger, NEW asOf
  PROVE  Replayed(rows, asOf) \in Sums
  <1> DEFINE step(n, sum) ==
                IF Ledger[n].kind = "fire"
                THEN [sum EXCEPT !.fired = @ + Ledger[n].q, !.expended = @ + Ledger[n].q]
                ELSE [sum EXCEPT !.received = @ + Ledger[n].q,
                                 !.expended = IF @ > Ledger[n].q THEN @ - Ledger[n].q ELSE 0]
             b == [fired |-> 0, received |-> 0, expended |-> 0]
             S == {n \in rows : Ledger[n].t <= asOf}
             Is(it) == it = [T \in SUBSET S |->
                               IF T = {} THEN b ELSE step(LastLine(T), it[T \ {LastLine(T)}])]
             iter == CHOOSE it : Is(it)
             ch == [T \in SUBSET S |-> LastLine(T)]
             o == [p \in S \X Sums |-> step(p[1], p[2])]
  <1>1. Replayed(rows, asOf) = iter[S]
    BY DEF Replayed, MapThenFoldSet
  <1>2. S \subseteq DOMAIN Ledger /\ IsFiniteSet(S)
    <2>1. S \subseteq DOMAIN Ledger /\ IsFiniteSet(DOMAIN Ledger)
      BY LedgerAssumption
    <2> HIDE DEF S
    <2> QED
      BY <2>1, FS_Subset
  <1>3. ASSUME NEW n \in S, NEW sum \in Sums PROVE step(n, sum) \in Sums
    <2>1. PICK q \in Nat : q = Ledger[n].q
      BY <1>2, LedgerAssumption
    <2>2. PICK f \in Nat, r \in Nat, e \in Nat : sum = [fired |-> f, received |-> r, expended |-> e]
      BY DEF Sums
    <2>3. CASE Ledger[n].kind = "fire"
      <3>1. step(n, sum) = [fired |-> f + q, received |-> r, expended |-> e + q]
        BY <2>1, <2>2, <2>3
      <3>2. f + q \in Nat /\ e + q \in Nat
        OBVIOUS
      <3> QED
        BY <3>1, <3>2 DEF Sums
    <2>4. CASE Ledger[n].kind # "fire"
      <3>1. step(n, sum) = [fired |-> f, received |-> r + q, expended |-> IF e > q THEN e - q ELSE 0]
        BY <2>1, <2>2, <2>4
      <3>2. r + q \in Nat /\ (IF e > q THEN e - q ELSE 0) \in Nat
        OBVIOUS
      <3> QED
        BY <3>1, <3>2 DEF Sums
    <2> QED
      BY <2>3, <2>4
  <1> HIDE DEF step
  <1>4. b \in Sums /\ o \in [S \X Sums -> Sums]
    BY <1>3 DEF Sums
  <1>5. \A T \in SUBSET S : T # {} => LastLine(T) \in T /\ LastLine(T) \in S /\ ch[T] = LastLine(T) /\ T \ {LastLine(T)} \in SUBSET S
    <2> SUFFICES ASSUME NEW T \in SUBSET S, T # {}
                 PROVE  LastLine(T) \in T /\ LastLine(T) \in S /\ ch[T] = LastLine(T) /\ T \ {LastLine(T)} \in SUBSET S
      OBVIOUS
    <2>1. ch[T] = LastLine(T)
      OBVIOUS
    <2> HIDE DEF S, ch
    <2>2. T \in SUBSET DOMAIN Ledger
      BY <1>2
    <2>3. LastLine(T) \in T
      BY <2>2, LastLineIn
    <2> QED
      BY <2>1, <2>3
  <1>6. \A n \in S, v \in Sums : o[<<n, v>>] = step(n, v)
    OBVIOUS
  <1> HIDE DEF S, ch, o, b
  <1>7. \A T \in SUBSET S : T # {} => ch[T] \in T
    BY <1>5
  <1>8. PICK f \in [SUBSET S -> Sums] : SetFold(f, SUBSET S, ch, b, o)
    BY <1>2, <1>4, <1>7, SetFoldExists
  <1>9. \A T \in SUBSET S : f[T] = IF T = {} THEN b ELSE step(LastLine(T), f[T \ {LastLine(T)}])
    <2> SUFFICES ASSUME NEW T \in SUBSET S
                 PROVE  f[T] = IF T = {} THEN b ELSE step(LastLine(T), f[T \ {LastLine(T)}])
      OBVIOUS
    <2>1. CASE T = {}
      BY <1>8, <2>1 DEF SetFold
    <2>2. CASE T # {}
      <3>1. PICK l \in S : l = LastLine(T) /\ ch[T] = l /\ T \ {l} \in SUBSET S
        BY <1>5, <2>2
      <3>2. f[T \ {l}] \in Sums /\ f[T] = o[<<l, f[T \ {l}]>>]
        BY <1>8, <2>2, <3>1 DEF SetFold
      <3>3. o[<<l, f[T \ {l}]>>] = step(l, f[T \ {l}])
        BY <1>6, <3>2
      <3> QED
        BY <2>2, <3>1, <3>2, <3>3
    <2> QED
      BY <2>1, <2>2
  <1>10. Is(iter)
    <2>1. Is(f)
      BY <1>9
    <2> QED
      BY <2>1
  <1> HIDE DEF iter
  <1>11. SetSteps(iter, Sums, S, ch, b, o)
    <2>1. iter[{}] = b
      BY <1>10
    <2>2. ASSUME NEW T \in SUBSET S, T # {}, iter[T \ {ch[T]}] \in Sums
          PROVE  iter[T] = o[<<ch[T], iter[T \ {ch[T]}]>>]
      <3>1. PICK l \in S : l = LastLine(T) /\ ch[T] = l
        BY <1>5, <2>2
      <3>2. iter[T] = step(l, iter[T \ {l}])
        BY <1>10, <2>2, <3>1
      <3>3. o[<<l, iter[T \ {l}]>>] = step(l, iter[T \ {l}])
        BY <1>6, <2>2, <3>1
      <3> QED
        BY <3>1, <3>2, <3>3
    <2> QED
      BY <2>1, <2>2 DEF SetSteps
  <1>12. SameAsFold(iter, Sums, S, ch, b, o)
    BY <1>2, <1>4, <1>7, <1>11, SetStepsFold
  <1>13. iter[S] \in Sums
    BY <1>12 DEF SameAsFold
  <1> QED
    BY <1>1, <1>13

\* The rows of the ledger: finitely many, their figures numbers.
RowFigures == {"expended", "inFlight", "unresolved", "received", "fired"}
IsLedgerRow(r) ==
    /\ \A figure \in RowFigures : r[figure] \in Nat
    /\ r.loaded # {} => \E x \in Int : r.remaining = {x}

LEMMA LoadTyped ==
  ASSUME NEW fleet, NEW a, NEW key
  PROVE  LoadOf(fleet, a, key) = {} \/ \E x \in Nat : LoadOf(fleet, a, key) = {x}
  <1> DEFINE ByAsset == a \in DOMAIN AssetLoad /\ key \in DOMAIN AssetLoad[a]
             ByVariant == /\ fleet[a] # Away /\ VariantOfLauncher[a] \in DOMAIN VariantLoad
                          /\ key \in DOMAIN VariantLoad[VariantOfLauncher[a]]
  <1>1. CASE ByAsset
    <2>1. LoadOf(fleet, a, key) = {AssetLoad[a][key]}
      BY <1>1 DEF LoadOf
    <2>2. AssetLoad[a][key] \in Nat
      BY <1>1, LedgerAssumption DEF IsLoad
    <2> QED
      BY <2>1, <2>2
  <1>2. CASE ~ByAsset /\ ByVariant
    <2>1. LoadOf(fleet, a, key) = {VariantLoad[VariantOfLauncher[a]][key]}
      BY <1>2 DEF LoadOf
    <2>2. VariantLoad[VariantOfLauncher[a]][key] \in Nat
      BY <1>2, LedgerAssumption DEF IsLoad
    <2> QED
      BY <2>1, <2>2
  <1>3. CASE ~ByAsset /\ ~ByVariant
    <2>1. LoadOf(fleet, a, key) = {}
      BY <1>3 DEF LoadOf
    <2> QED
      BY <2>1
  <1> QED
    BY <1>1, <1>2, <1>3

LEMMA RowTyped ==
  ASSUME LedgerInv, NEW a, NEW key
  PROVE  IsLedgerRow(LauncherRow(lgFleet, lgHere, lgTracks, lgEnds, lgNow, a, key))
  <1> DEFINE mine == {n \in RowsOf(a, lgHere) : Ledger[n].type = key}
             loaded == LoadOf(lgFleet, a, key)
             lost == {n \in mine \cap LaunchRows : Ledger[n].t <= lgNow /\ lgEnds[n] = "unresolved"}
             q == [n \in lost |-> Ledger[n].q]
  <1>1. PICK row : row = LauncherRow(lgFleet, lgHere, lgTracks, lgEnds, lgNow, a, key)
    OBVIOUS
  <1>2. PICK sums : sums = Replayed(mine, lgNow)
    OBVIOUS
  <1>3. /\ row.fired = sums.fired /\ row.received = sums.received /\ row.expended = sums.expended
        /\ row.inFlight = InFlightOf(a, key, lgTracks) /\ row.unresolved = QuantityOf(lost)
        /\ row.loaded = loaded /\ row.remaining = {d - sums.expended : d \in loaded}
    BY <1>1, <1>2 DEF LauncherRow
  <1>4. mine \subseteq DOMAIN Ledger /\ lost \subseteq DOMAIN Ledger
    BY DEF LedgerInv, LedgerTypeOK, RowsOf
  <1>5. sums.fired \in Nat /\ sums.received \in Nat /\ sums.expended \in Nat
    <2> HIDE DEF mine
    <2>1. sums \in Sums
      BY <1>2, <1>4, ReplayedTyped
    <2> QED
      BY <2>1 DEF Sums
  <1>6. InFlightOf(a, key, lgTracks) \in Nat
    <2> DEFINE T == {t \in lgTracks : t.who = a /\ t.type = key}
    <2>1. T \subseteq lgTracks
      OBVIOUS
    <2>2. IsFiniteSet(T)
      BY <2>1, FS_Subset DEF LedgerInv
    <2> HIDE DEF T
    <2>3. Cardinality(T) \in Nat
      BY <2>2, FS_CardinalityType
    <2> QED
      BY <2>3 DEF InFlightOf, T
  <1>7. QuantityOf(lost) \in Nat
    <2>1. \A n \in lost : q[n] \in Nat
      BY <1>4, LedgerAssumption
    <2>2. QuantityOf(lost) = SumFunctionOnSet(q, lost)
      BY DEF QuantityOf, SumFunction
    <2>3. IsFiniteSet(DOMAIN Ledger)
      BY LedgerAssumption
    <2> HIDE DEF lost, q
    <2>4. IsFiniteSet(lost)
      BY <1>4, <2>3, FS_Subset
    <2> QED
      BY <2>1, <2>2, <2>4, SumNat
  <1>8. loaded # {} => \E x \in Int : row.remaining = {x}
    <2> SUFFICES ASSUME loaded # {} PROVE \E x \in Int : row.remaining = {x}
      OBVIOUS
    <2>1. PICK x \in Nat : loaded = {x}
      BY LoadTyped
    <2>2. row.remaining = {x - sums.expended}
      BY <1>3, <2>1
    <2>3. x - sums.expended \in Int
      BY <1>5
    <2> QED
      BY <2>2, <2>3
  <1>9. \A figure \in RowFigures : row[figure] \in Nat
    BY <1>3, <1>5, <1>6, <1>7 DEF RowFigures
  <1> QED
    BY <1>1, <1>3, <1>8, <1>9 DEF IsLedgerRow

KeysOf(a) == KeysDeclared(lgFleet, a) \cup {Ledger[n].type : n \in RowsOf(a, lgHere)}
RowOf(a, key) == LauncherRow(lgFleet, lgHere, lgTracks, lgEnds, lgNow, a, key)

LEMMA TheaterRowsAre ==
  LedgerInv =>
    /\ LaunchersOf(lgFleet, lgHere) \subseteq Launchers
    /\ \A r : r \in TheaterRows <=> \E a \in LaunchersOf(lgFleet, lgHere) : \E key \in KeysOf(a) : r = RowOf(a, key)
  <1> SUFFICES ASSUME LedgerInv
               PROVE  /\ LaunchersOf(lgFleet, lgHere) \subseteq Launchers
                      /\ \A r : r \in TheaterRows
                                  <=> \E a \in LaunchersOf(lgFleet, lgHere) : \E key \in KeysOf(a) : r = RowOf(a, key)
    OBVIOUS
  <1>1. LaunchersOf(lgFleet, lgHere) \subseteq Launchers
    BY LedgerAssumption DEF LaunchersOf, LedgerInv, LedgerTypeOK
  <1>2. TheaterRows = UNION {{RowOf(a, key) : key \in KeysOf(a)} : a \in LaunchersOf(lgFleet, lgHere)}
    BY DEF TheaterRows, AllRows, RowsOfLaunchers, RowOf, KeysOf
  <1> QED
    BY <1>1, <1>2

LEMMA TheaterRowsTyped ==
  LedgerInv => IsFiniteSet(TheaterRows) /\ \A r \in TheaterRows : IsLedgerRow(r)
  <1> SUFFICES ASSUME LedgerInv PROVE IsFiniteSet(TheaterRows) /\ \A r \in TheaterRows : IsLedgerRow(r)
    OBVIOUS
  <1> DEFINE who == LaunchersOf(lgFleet, lgHere)
             P == [a \in who |-> {RowOf(a, key) : key \in KeysOf(a)}]
  <1>1. who \subseteq Launchers
    BY TheaterRowsAre
  <1>2. ASSUME NEW a PROVE IsFiniteSet(KeysOf(a))
    <2>1. IsFiniteSet(IF a \in DOMAIN AssetLoad THEN DOMAIN AssetLoad[a] ELSE {})
      BY LedgerAssumption, FS_EmptySet DEF IsLoad
    <2>2. IsFiniteSet(IF lgFleet[a] # Away /\ VariantOfLauncher[a] \in DOMAIN VariantLoad
                      THEN DOMAIN VariantLoad[VariantOfLauncher[a]] ELSE {})
      BY LedgerAssumption, FS_EmptySet DEF IsLoad
    <2>3. IsFiniteSet(KeysDeclared(lgFleet, a))
      BY <2>1, <2>2, FS_Union DEF KeysDeclared
    <2>4. IsFiniteSet({Ledger[n].type : n \in RowsOf(a, lgHere)})
      <3> DEFINE type == [n \in DOMAIN Ledger |-> Ledger[n].type]
                 R == RowsOf(a, lgHere)
      <3>1. R \subseteq DOMAIN Ledger
        BY DEF RowsOf, LedgerInv, LedgerTypeOK
      <3>2. IsFiniteSet(R)
        BY <3>1, LedgerAssumption, FS_Subset
      <3>3. {Ledger[n].type : n \in R} = {type[n] : n \in R}
        BY <3>1
      <3> HIDE DEF type, R
      <3>4. IsFiniteSet({type[n] : n \in R})
        BY <3>2, ImageFinite
      <3> QED
        BY <3>3, <3>4 DEF R
    <2> QED
      BY <2>3, <2>4, FS_Union DEF KeysOf
  <1>3. ASSUME NEW a \in who PROVE IsFiniteSet(P[a])
    <2> DEFINE K == KeysOf(a)
               row == [key \in K |-> RowOf(a, key)]
    <2>1. P[a] = {row[key] : key \in K}
      OBVIOUS
    <2>2. IsFiniteSet(K)
      BY <1>2
    <2> HIDE DEF K, row, P
    <2> QED
      BY <2>1, <2>2, ImageFinite
  <1>4. IsFiniteSet(who)
    <2>1. IsFiniteSet(Launchers)
      BY LedgerAssumption
    <2> HIDE DEF who
    <2> QED
      BY <1>1, <2>1, FS_Subset
  <1>5. TheaterRows = UNION {P[a] : a \in who}
    BY TheaterRowsAre
  <1>6. IsFiniteSet(TheaterRows)
    <2> HIDE DEF P, who
    <2>1. IsFiniteSet({P[a] : a \in who})
      BY <1>4, ImageFinite
    <2> QED
      BY <1>3, <1>5, <2>1, FS_UNION
  <1>7. ASSUME NEW r \in TheaterRows PROVE IsLedgerRow(r)
    <2>1. \E a, key : r = RowOf(a, key)
      BY TheaterRowsAre
    <2> QED
      BY <2>1, RowTyped DEF RowOf
  <1> QED
    BY <1>6, <1>7

DeclaredIn(rows) == {r \in rows : r.loaded # {}}
RemainingOf(rows) == SumFunctionOnSet([r \in rows |-> OnlyThe(r.remaining)], DeclaredIn(rows))

LEMMA RollupFigures ==
  ASSUME NEW rows, IsFiniteSet(rows), \A r \in rows : IsLedgerRow(r)
  PROVE  /\ Rollup(rows).launchers = Cardinality(rows)
         /\ Rollup(rows).undeclared = Cardinality(rows \ DeclaredIn(rows))
         /\ \A figure \in RowFigures : Rollup(rows)[figure] = SumFunctionOnSet([r \in rows |-> r[figure]], rows)
         /\ Rollup(rows).remaining # {} <=> DeclaredIn(rows) # {}
         /\ Rollup(rows).remaining # {} => OnlyThe(Rollup(rows).remaining) = RemainingOf(rows)
         /\ \A r \in DeclaredIn(rows) : OnlyThe(r.remaining) \in Int
  <1> DEFINE D == DeclaredIn(rows)
             e == [r \in D |-> OnlyThe(r.remaining)]
             f == [r \in rows |-> OnlyThe(r.remaining)]
  <1>1. D = {r \in rows : r.loaded # {}}
    BY DEF DeclaredIn
  <1>2. Rollup(rows).launchers = Cardinality(rows) /\ Rollup(rows).undeclared = Cardinality(rows \ D)
    BY <1>1 DEF Rollup
  <1>3. ASSUME NEW figure \in RowFigures
        PROVE  Rollup(rows)[figure] = SumFunctionOnSet([r \in rows |-> r[figure]], rows)
    <2>1. CASE figure = "expended"
      BY <2>1 DEF Rollup, SumFunction
    <2>2. CASE figure = "inFlight"
      BY <2>2 DEF Rollup, SumFunction
    <2>3. CASE figure = "unresolved"
      BY <2>3 DEF Rollup, SumFunction
    <2>4. CASE figure = "received"
      BY <2>4 DEF Rollup, SumFunction
    <2>5. CASE figure = "fired"
      BY <2>5 DEF Rollup, SumFunction
    <2> QED
      BY <2>1, <2>2, <2>3, <2>4, <2>5 DEF RowFigures
  <1>4. Rollup(rows).remaining = IF D = {} THEN {} ELSE {SumFunctionOnSet(e, D)}
    BY <1>1 DEF Rollup, SumFunction
  <1>5. \A r \in D : OnlyThe(r.remaining) \in Int
    <2> SUFFICES ASSUME NEW r \in D PROVE OnlyThe(r.remaining) \in Int
      OBVIOUS
    <2>1. PICK x \in Int : r.remaining = {x}
      BY <1>1 DEF IsLedgerRow
    <2> QED
      BY <2>1 DEF OnlyThe
  <1>6. SumFunctionOnSet(e, D) = SumFunctionOnSet(f, D)
    <2>1. D \subseteq rows
      BY <1>1
    <2>2. \A r \in D : e[r] = f[r] /\ f[r] \in Int
      BY <1>5, <2>1
    <2>3. IsFiniteSet(D)
      BY <2>1, FS_Subset
    <2> HIDE DEF e, f, D
    <2> QED
      BY <2>2, <2>3, SumEqual
  <1>7. \A x : OnlyThe({x}) = x
    BY DEF OnlyThe
  <1> HIDE DEF e
  <1>8. Rollup(rows).remaining # {} <=> D # {}
    BY <1>4
  <1>9. Rollup(rows).remaining # {} => OnlyThe(Rollup(rows).remaining) = RemainingOf(rows)
    BY <1>4, <1>6, <1>7 DEF RemainingOf
  <1> QED
    BY <1>2, <1>3, <1>5, <1>8, <1>9

\* For each munition the regions' figures sum to the theater's.
LEMMA RegionsAdd == LedgerInv => RegionsAddUp
  <1> SUFFICES ASSUME LedgerInv PROVE RegionsAddUp
    OBVIOUS
  <1> DEFINE groups == ByRegion(TheaterRows)
             whole == ByType(TheaterRows)
             with(key) == {g \in DOMAIN groups : key \in DOMAIN groups[g]}
  <1>1. IsFiniteSet(TheaterRows) /\ \A r \in TheaterRows : IsLedgerRow(r)
    BY TheaterRowsTyped
  <1>2. ASSUME NEW key \in DOMAIN whole
        PROVE  /\ \A figure \in {"launchers", "undeclared", "expended", "inFlight", "unresolved", "received", "fired"} :
                     whole[key][figure] = SumFunction([g \in with(key) |-> groups[g][key][figure]])
               /\ whole[key].remaining # {} =>
                     OnlyThe(whole[key].remaining)
                       = SumFunction([g \in {h \in with(key) : groups[h][key].remaining # {}} |->
                                         OnlyThe(groups[g][key].remaining)])
    <2> DEFINE R == {r \in TheaterRows : r.key = key}
               C == with(key)
               P == [g \in C |-> {r \in R : r.region = g}]
    <2>1. whole[key] = Rollup(R)
      BY DEF ByType
    <2>2. DOMAIN groups = {r.region : r \in TheaterRows}
      BY DEF ByRegion
    <2>3. ASSUME NEW g \in DOMAIN groups
          PROVE  /\ DOMAIN groups[g] = {r.key : r \in {r \in TheaterRows : r.region = g}}
                 /\ key \in DOMAIN groups[g] => groups[g][key] = Rollup({r \in {r \in TheaterRows : r.region = g} : r.key = key})
      BY <2>2 DEF ByRegion, ByType
    <2>4. C = {r.region : r \in R}
      <3>1. ASSUME NEW g \in C PROVE g \in {r.region : r \in R}
        <4>1. key \in {r.key : r \in {r \in TheaterRows : r.region = g}}
          BY <2>3
        <4>2. PICK r \in TheaterRows : r.region = g /\ r.key = key
          BY <4>1
        <4> QED
          BY <4>2
      <3>2. ASSUME NEW r \in R PROVE r.region \in C
        <4>1. r.region \in DOMAIN groups
          BY <2>2
        <4>2. key \in {s.key : s \in {s \in TheaterRows : s.region = r.region}}
          OBVIOUS
        <4> QED
          BY <2>3, <4>1, <4>2
      <3> QED
        BY <3>1, <3>2
    <2>5. \A g \in C : groups[g][key] = Rollup(P[g])
      <3> SUFFICES ASSUME NEW g \in C PROVE groups[g][key] = Rollup(P[g])
        OBVIOUS
      <3>1. {r \in {r \in TheaterRows : r.region = g} : r.key = key} = P[g]
        OBVIOUS
      <3>2. groups[g][key] = Rollup({r \in {r \in TheaterRows : r.region = g} : r.key = key})
        BY <2>3
      <3> QED
        BY <3>1, <3>2
    <2>6. R \subseteq TheaterRows /\ IsFiniteSet(R) /\ \A r \in R : IsLedgerRow(r)
      <3>1. R \subseteq TheaterRows
        OBVIOUS
      <3> QED
        BY <1>1, <3>1, FS_Subset
    <2>7. IsFiniteSet(C)
      <3> DEFINE region == [r \in R |-> r.region]
      <3>1. C = {region[r] : r \in R}
        BY <2>4
      <3> HIDE DEF region, R, C
      <3> QED
        BY <2>6, <3>1, ImageFinite
    <2> HIDE DEF R
    <2>8. \A g \in C : P[g] = {r \in R : r.region = g} /\ P[g] \subseteq R
      OBVIOUS
    <2> HIDE DEF C
    <2>9. Apart(P, C, R) /\ Whole(P, C) = R
      <3>1. P \in [C -> SUBSET R] /\ \A c, d \in C : c # d => P[c] \cap P[d] = {}
        BY <2>8
      <3>2. \A r \in R : r.region \in C /\ r \in P[r.region]
        BY <2>4, <2>8
      <3> HIDE DEF P
      <3> QED
        BY <2>8, <3>1, <3>2 DEF Apart, Whole
    <2> HIDE DEF P
    <2>10. \A g \in C : IsFiniteSet(P[g]) /\ \A r \in P[g] : IsLedgerRow(r)
      <3> SUFFICES ASSUME NEW g \in C PROVE IsFiniteSet(P[g]) /\ \A r \in P[g] : IsLedgerRow(r)
        OBVIOUS
      <3>1. P[g] \subseteq R
        BY <2>8
      <3> QED
        BY <3>1, <2>6, FS_Subset
    <2>11. whole[key].launchers = SumFunction([g \in C |-> groups[g][key].launchers])
      <3> DEFINE h == [g \in C |-> groups[g][key].launchers]
      <3>1. \A g \in C : h[g] = Cardinality(P[g])
        BY <2>5, <2>10, RollupFigures
      <3>2. SumFunction(h) = SumFunctionOnSet(h, C)
        BY DEF SumFunction
      <3>3. whole[key].launchers = Cardinality(R)
        BY <2>1, <2>6, RollupFigures
      <3> HIDE DEF h
      <3>4. SumFunctionOnSet(h, C) = Cardinality(Whole(P, C))
        BY <2>6, <2>7, <2>9, <3>1, CardParts
      <3> QED
        BY <2>9, <3>2, <3>3, <3>4 DEF h
    <2>12. whole[key].undeclared = SumFunction([g \in C |-> groups[g][key].undeclared])
      <3> DEFINE h == [g \in C |-> groups[g][key].undeclared]
                 U == R \ DeclaredIn(R)
                 Q == [g \in C |-> P[g] \ DeclaredIn(P[g])]
      <3>1. \A g \in C : h[g] = Cardinality(Q[g])
        BY <2>5, <2>10, RollupFigures
      <3>2. SumFunction(h) = SumFunctionOnSet(h, C)
        BY DEF SumFunction
      <3>3. whole[key].undeclared = Cardinality(U)
        BY <2>1, <2>6, RollupFigures
      <3>4. \A g \in C : Q[g] = P[g] \cap U
        BY <2>8 DEF DeclaredIn
      <3>5. Apart(Q, C, U) /\ Whole(Q, C) = U
        <4>1. U \subseteq R
          OBVIOUS
        <4>2. Q \in [C -> SUBSET U]
          BY <3>4
        <4> HIDE DEF Q, U
        <4> QED
          BY <2>9, <3>4, <4>1, <4>2 DEF Apart, Whole
      <3>6. IsFiniteSet(U)
        BY <2>6, FS_Subset
      <3> HIDE DEF h, Q, U
      <3>7. SumFunctionOnSet(h, C) = Cardinality(Whole(Q, C))
        BY <2>7, <3>1, <3>5, <3>6, CardParts
      <3> QED
        BY <3>2, <3>3, <3>5, <3>7 DEF h
    <2>13. ASSUME NEW figure \in RowFigures
           PROVE  whole[key][figure] = SumFunction([g \in C |-> groups[g][key][figure]])
      <3> DEFINE h == [g \in C |-> groups[g][key][figure]]
                 f == [r \in R |-> r[figure]]
      <3>1. \A r \in R : f[r] \in Int
        BY <2>6 DEF IsLedgerRow
      <3>2. ASSUME NEW g \in C PROVE h[g] = SumFunctionOnSet(f, P[g])
        <4> DEFINE e == [r \in P[g] |-> r[figure]]
        <4>1. h[g] = SumFunctionOnSet(e, P[g])
          BY <2>5, <2>10, RollupFigures
        <4>2. \A r \in P[g] : e[r] = f[r] /\ f[r] \in Int
          BY <2>8, <3>1
        <4> HIDE DEF e, f, h
        <4> QED
          BY <2>10, <4>1, <4>2, SumEqual
      <3>3. SumFunction(h) = SumFunctionOnSet(h, C)
        BY DEF SumFunction
      <3>4. whole[key][figure] = SumFunctionOnSet(f, R)
        BY <2>1, <2>6, RollupFigures
      <3> HIDE DEF h, f
      <3>5. SumFunctionOnSet(h, C) = SumFunctionOnSet(f, Whole(P, C))
        BY <2>6, <2>7, <2>9, <3>1, <3>2, SumParts
      <3> QED
        BY <2>9, <3>3, <3>4, <3>5 DEF h
    <2>14. ASSUME whole[key].remaining # {}
           PROVE  OnlyThe(whole[key].remaining)
                    = SumFunction([g \in {h \in C : groups[h][key].remaining # {}} |->
                                      OnlyThe(groups[g][key].remaining)])
      <3> DEFINE E == {h \in C : groups[h][key].remaining # {}}
                 h == [g \in E |-> OnlyThe(groups[g][key].remaining)]
                 D == DeclaredIn(R)
                 f == [r \in R |-> OnlyThe(r.remaining)]
                 Q == [g \in E |-> DeclaredIn(P[g])]
      <3>1. OnlyThe(whole[key].remaining) = SumFunctionOnSet(f, D) /\ \A r \in D : f[r] \in Int
        <4>1. OnlyThe(whole[key].remaining) = RemainingOf(R) /\ \A r \in D : OnlyThe(r.remaining) \in Int
          BY <2>1, <2>6, <2>14, RollupFigures
        <4>2. D \subseteq R
          BY DEF DeclaredIn
        <4> QED
          BY <4>1, <4>2 DEF RemainingOf
      <3>2. D \subseteq R /\ \A g \in C : DeclaredIn(P[g]) = D \cap P[g]
        BY <2>8 DEF DeclaredIn
      <3>3. E \subseteq C /\ \A g \in C : g \in E <=> DeclaredIn(P[g]) # {}
        BY <2>5, <2>10, RollupFigures
      <3>4. ASSUME NEW g \in E PROVE h[g] = SumFunctionOnSet(f, Q[g])
        <4> DEFINE e == [r \in P[g] |-> OnlyThe(r.remaining)]
        <4>1. g \in C
          OBVIOUS
        <4>2. h[g] = SumFunctionOnSet(e, Q[g])
          BY <2>5, <2>10, <4>1, RollupFigures DEF RemainingOf
        <4>3. Q[g] \subseteq P[g] /\ Q[g] \subseteq D
          BY <3>2, <4>1
        <4>4. \A r \in Q[g] : e[r] = f[r] /\ f[r] \in Int
          BY <2>8, <3>1, <4>1, <4>3
        <4>5. IsFiniteSet(Q[g])
          BY <2>10, <4>1, <4>3, FS_Subset
        <4> HIDE DEF e, f, h, Q, D, E
        <4> QED
          BY <4>2, <4>4, <4>5, SumEqual
      <3>5. SumFunction(h) = SumFunctionOnSet(h, E)
        BY DEF SumFunction
      <3>6. \A g \in E : Q[g] = D \cap P[g]
        BY <3>2
      <3>7. Q \in [E -> SUBSET D]
        BY <3>6
      <3> HIDE DEF h, f, D, Q, E
      <3>8. Apart(Q, E, D) /\ Whole(Q, E) = D
        <4>1. \A c, d \in E : c # d => Q[c] \cap Q[d] = {}
          BY <2>9, <3>3, <3>6 DEF Apart
        <4>2. Whole(Q, E) = D
          <5>1. Whole(Q, E) \subseteq D
            BY <3>6 DEF Whole
          <5>2. ASSUME NEW r \in D PROVE r \in Whole(Q, E)
            <6>1. PICK g \in C : r \in P[g]
              BY <2>9, <3>2 DEF Whole
            <6>2. g \in E
              BY <3>2, <3>3, <6>1
            <6> QED
              BY <3>6, <6>1, <6>2 DEF Whole
          <5> QED
            BY <5>1, <5>2
        <4> QED
          BY <3>7, <4>1, <4>2 DEF Apart
      <3>9. IsFiniteSet(D) /\ IsFiniteSet(E)
        BY <2>6, <2>7, <3>2, <3>3, FS_Subset
      <3>10. \A r \in D : f[r] \in Int
        BY <3>1
      <3>11. SumFunctionOnSet(h, E) = SumFunctionOnSet(f, Whole(Q, E))
        BY <3>4, <3>8, <3>9, <3>10, SumParts
      <3> QED
        BY <3>1, <3>5, <3>8, <3>11 DEF h, E
    <2> QED
      BY <2>11, <2>12, <2>13, <2>14 DEF C, RowFigures
  <1> QED
    BY <1>2 DEF RegionsAddUp

\* A region's own panel shows the theater's rows of its launchers.
LEMMA RegionScopes ==
  ASSUME LedgerInv, NEW g
  PROVE  ByType(ScopeRows(g)) =
           IF g \in DOMAIN ByRegion(TheaterRows) THEN ByRegion(TheaterRows)[g] ELSE << >>
  <1> DEFINE R == {r \in TheaterRows : r.region = g}
             inScope == {a \in LaunchersOf(lgFleet, lgHere) : LauncherRegion(lgFleet, lgHere, a) = g}
  <1>1. \A a, key : RowOf(a, key).region = LauncherRegion(lgFleet, lgHere, a)
    BY DEF RowOf, LauncherRow
  <1>2. \A r : r \in ScopeRows(g) <=> \E a \in inScope : \E key \in KeysOf(a) : r = RowOf(a, key)
    <2>1. ScopeRows(g) = UNION {{RowOf(a, key) : key \in KeysOf(a)} : a \in inScope}
      BY DEF ScopeRows, RowsOfLaunchers, RowOf, KeysOf
    <2> HIDE DEF inScope
    <2> QED
      BY <2>1
  <1>3. ScopeRows(g) = R
    BY <1>1, <1>2, TheaterRowsAre
  <1>4. DOMAIN ByRegion(TheaterRows) = {r.region : r \in TheaterRows}
    BY DEF ByRegion
  <1>5. CASE g \in {r.region : r \in TheaterRows}
    <2>1. ByRegion(TheaterRows)[g] = ByType(R)
      BY <1>5 DEF ByRegion
    <2> QED
      BY <1>3, <1>4, <1>5, <2>1
  <1>6. CASE g \notin {r.region : r \in TheaterRows}
    <2>1. R = {}
      BY <1>6
    <2>2. ByType({}) = << >>
      <3>1. ByType({}) = [key \in {} |-> Rollup({r \in {} : r.key = key})]
        BY DEF ByType
      <3> QED
        BY <3>1
    <2> QED
      BY <1>3, <1>4, <1>6, <2>1, <2>2
  <1> QED
    BY <1>5, <1>6

\* A launcher's card shows the theater's rows of it.
LEMMA CardScopes ==
  ASSUME LedgerInv, NEW a \in Launchers
  PROVE  CardRows(a) = {r \in TheaterRows : r.who = a}
  <1> DEFINE fleet == [b \in Launchers |-> IF b = a THEN lgFleet[b] ELSE Away]
             rows == RowsOf(a, lgHere)
             tracks == {t \in lgTracks : t.who = a}
             who == LaunchersOf(fleet, rows)
             mine(key) == LauncherRow(fleet, rows, tracks, lgEnds, lgNow, a, key)
             keys == KeysDeclared(fleet, a) \cup {Ledger[n].type : n \in RowsOf(a, rows)}
  <1>1. fleet[a] = lgFleet[a] /\ \A b \in Launchers : b # a => fleet[b] = Away
    OBVIOUS
  <1>2. RowsOf(a, rows) = rows /\ rows \subseteq lgHere /\ \A n \in rows : Ledger[n].who = a
    BY DEF RowsOf
  <1> HIDE DEF fleet
  <1>3. KeysDeclared(fleet, a) = KeysDeclared(lgFleet, a)
    BY <1>1 DEF KeysDeclared
  <1>4. \A key : LoadOf(fleet, a, key) = LoadOf(lgFleet, a, key)
    BY <1>1 DEF LoadOf
  <1>5. LauncherRegion(fleet, rows, a) = LauncherRegion(lgFleet, lgHere, a)
    BY <1>1, <1>2 DEF LauncherRegion, RegionByLedger
  <1>6. \A key : InFlightOf(a, key, tracks) = InFlightOf(a, key, lgTracks)
    <2> SUFFICES ASSUME NEW key PROVE InFlightOf(a, key, tracks) = InFlightOf(a, key, lgTracks)
      OBVIOUS
    <2>1. {t \in tracks : t.who = a /\ t.type = key} = {t \in lgTracks : t.who = a /\ t.type = key}
      OBVIOUS
    <2> QED
      BY <2>1 DEF InFlightOf
  <1>7. \A key : mine(key) = RowOf(a, key)
    <2> SUFFICES ASSUME NEW key PROVE mine(key) = RowOf(a, key)
      OBVIOUS
    <2> HIDE DEF tracks
    <2> QED
      BY <1>2, <1>4, <1>5, <1>6 DEF LauncherRow, RowOf
  <1>8. keys = KeysOf(a)
    BY <1>2, <1>3 DEF KeysOf
  <1>9. a \in who <=> a \in LaunchersOf(lgFleet, lgHere)
    <2>1. a \in {Ledger[n].who : n \in rows} <=> a \in {Ledger[n].who : n \in lgHere}
      BY DEF RowsOf
    <2>2. a \in {b \in Launchers : fleet[b] # Away /\ KeysDeclared(fleet, b) # {}}
            <=> a \in {b \in Launchers : lgFleet[b] # Away /\ KeysDeclared(lgFleet, b) # {}}
      BY <1>1, <1>3
    <2> HIDE DEF rows
    <2> QED
      BY <2>1, <2>2 DEF LaunchersOf
  <1>10. who \subseteq {a}
    <2>1. ASSUME NEW b \in who, b # a PROVE FALSE
      <3>1. b \in {Ledger[n].who : n \in rows} \/ (b \in Launchers /\ fleet[b] # Away)
        BY <2>1 DEF LaunchersOf
      <3>2. b \notin {Ledger[n].who : n \in rows}
        BY <1>2, <2>1
      <3> QED
        BY <1>1, <2>1, <3>1, <3>2
    <2> QED
      BY <2>1
  <1>11. \A r : r \in CardRows(a) <=> a \in who /\ \E key \in keys : r = mine(key)
    <2> DEFINE rowsOf(b) == {LauncherRow(fleet, rows, tracks, lgEnds, lgNow, b, key) :
                               key \in KeysDeclared(fleet, b) \cup {Ledger[n].type : n \in RowsOf(b, rows)}}
    <2>1. CardRows(a) = UNION {rowsOf(b) : b \in who}
      BY DEF CardRows, AllRows, RowsOfLaunchers, fleet
    <2>2. \A r : r \in rowsOf(a) <=> \E key \in keys : r = mine(key)
      OBVIOUS
    <2> HIDE DEF rowsOf, who, keys, mine
    <2> QED
      BY <1>10, <2>1, <2>2
  <1>12. \A b, key : RowOf(b, key).who = b
    BY DEF RowOf, LauncherRow
  <1>13. \A r : r \in CardRows(a) <=> a \in LaunchersOf(lgFleet, lgHere) /\ \E key \in KeysOf(a) : r = RowOf(a, key)
    <2> HIDE DEF who, keys, mine
    <2> QED
      BY <1>7, <1>8, <1>9, <1>11
  <1> QED
    BY <1>12, <1>13, TheaterRowsAre

LEMMA ScopesAreTheTheaters == LedgerInv => ScopesAgree
  BY RegionScopes, CardScopes DEF ScopesAgree

LEMMA LedgerAdds == LedgerInv => LedgerAddsUp
  BY RegionsAdd, ScopesAreTheTheaters, StockIsWhole DEF LedgerAddsUp

-----------------------------------------------------------------------------
(* The marks of the map. *)

\* A strict order of S, of its elements' pairs.
Ordering(R, S) ==
    /\ \A x \in S : <<x, x>> \notin R
    /\ \A x, y, z \in S : <<x, y>> \in R /\ <<y, z>> \in R => <<x, z>> \in R
    /\ \A x, y \in S : x = y \/ <<x, y>> \in R \/ <<y, x>> \in R

LEMMA FirstExists ==
  ASSUME NEW S, IsFiniteSet(S), S # {}, NEW R, Ordering(R, S)
  PROVE  \E x \in S : \A y \in S \ {x} : <<x, y>> \in R
  <1> DEFINE C == {T \in SUBSET S : T # {} /\ ~\E x \in T : \A y \in T \ {x} : <<x, y>> \in R}
  <1>1. C = {}
    <2> SUFFICES ASSUME C # {} PROVE FALSE
      OBVIOUS
    <2>1. C \in SUBSET SUBSET S /\ IsFiniteSet(S) /\ C # {}
      OBVIOUS
    <2> HIDE DEF C
    <2>2. PICK T \in C : \A U \in C : U \subseteq T => U = T
      BY ONLY <2>1, SmallestSet
    <2>3. T \in SUBSET S /\ T # {} /\ ~\E x \in T : \A y \in T \ {x} : <<x, y>> \in R
      BY <2>2 DEF C
    <2>4. PICK x \in T : TRUE
      BY <2>3
    <2>5. T \ {x} = {} \/ \E f \in T \ {x} : \A y \in (T \ {x}) \ {f} : <<f, y>> \in R
      <3>1. T \ {x} \notin C
        BY <2>2, <2>4
      <3> QED
        BY <2>3, <3>1 DEF C
    <2>6. CASE T \ {x} = {}
      BY <2>3, <2>4, <2>6
    <2>7. ASSUME NEW f \in T \ {x}, \A y \in (T \ {x}) \ {f} : <<f, y>> \in R PROVE FALSE
      <3>1. f \in S /\ x \in S /\ T \subseteq S /\ f # x /\ f \in T
        BY <2>3
      <3>2. CASE <<f, x>> \in R
        <4>1. \A y \in T \ {f} : <<f, y>> \in R
          BY <2>7, <3>2
        <4> QED
          BY <2>3, <3>1, <4>1
      <3>3. CASE <<x, f>> \in R
        <4>1. \A y \in T \ {x} : <<x, y>> \in R
          BY <2>7, <3>1, <3>3 DEF Ordering
        <4> QED
          BY <2>3, <2>4, <4>1
      <3> QED
        BY <3>1, <3>2, <3>3 DEF Ordering
    <2> QED
      BY <2>5, <2>6, <2>7
  <1> QED
    BY <1>1

LEMMA LastExists ==
  ASSUME NEW S, IsFiniteSet(S), S # {}, NEW R, Ordering(R, S)
  PROVE  \E x \in S : \A y \in S \ {x} : <<y, x>> \in R
  <1> DEFINE Q == {p \in S \X S : <<p[2], p[1]>> \in R}
  <1>1. \A x, y \in S : <<x, y>> \in Q <=> <<y, x>> \in R
    OBVIOUS
  <1> HIDE DEF Q
  <1>2. Ordering(Q, S)
    BY <1>1 DEF Ordering
  <1>3. PICK x \in S : \A y \in S \ {x} : <<x, y>> \in Q
    BY <1>2, FirstExists
  <1> QED
    BY <1>1, <1>3

LEMMA OrderingWithin ==
  ASSUME NEW S, NEW R, Ordering(R, S), NEW T \in SUBSET S
  PROVE  Ordering(R, T)
  BY DEF Ordering

\* The members of a mark are in an order.
MembersOrder(m) == {p \in m \X m : MemberBefore(m, p[1], p[2])}

LEMMA MembersOrdered ==
  ASSUME NEW m \in SUBSET MapAssets
  PROVE  /\ IsFiniteSet(m) /\ Ordering(MembersOrder(m), m)
         /\ \A a, b \in m : <<a, b>> \in MembersOrder(m) <=> MemberBefore(m, a, b)
  <1> DEFINE n(x) == Cardinality(Kind(m, VariantOf[x]))
  <1>1. IsFiniteSet(m)
    BY RegionAssumption, FS_Subset
  <1>2. \A a, b \in m : <<a, b>> \in MembersOrder(m) <=> MemberBefore(m, a, b)
    BY DEF MembersOrder
  <1>3. \A x \in m : n(x) \in Nat /\ VariantOf[x] \in Int /\ x \in Nat
    <2> SUFFICES ASSUME NEW x \in m PROVE n(x) \in Nat /\ VariantOf[x] \in Int /\ x \in Nat
      OBVIOUS
    <2>1. Kind(m, VariantOf[x]) \subseteq m
      BY DEF Kind
    <2>2. IsFiniteSet(Kind(m, VariantOf[x]))
      BY <1>1, <2>1, FS_Subset
    <2>3. Cardinality(Kind(m, VariantOf[x])) \in Nat
      BY <2>2, FS_CardinalityType
    <2> QED
      BY <2>3, RegionAssumption
  <1>4. \A x, y \in m : VariantOf[x] = VariantOf[y] => n(x) = n(y)
    OBVIOUS
  <1>5. \A a, b \in m : MemberBefore(m, a, b) <=> \/ n(a) > n(b)
                                                  \/ n(a) = n(b) /\ VariantOf[a] < VariantOf[b]
                                                  \/ VariantOf[a] = VariantOf[b] /\ a < b
    BY DEF MemberBefore
  <1> HIDE DEF n
  <1>6. \A x \in m : ~MemberBefore(m, x, x)
    BY <1>3, <1>5
  <1>7. ASSUME NEW x \in m, NEW y \in m, NEW z \in m, MemberBefore(m, x, y), MemberBefore(m, y, z)
        PROVE  MemberBefore(m, x, z)
    BY <1>3, <1>4, <1>5, <1>7
  <1>8. ASSUME NEW x \in m, NEW y \in m PROVE x = y \/ MemberBefore(m, x, y) \/ MemberBefore(m, y, x)
    BY <1>3, <1>4, <1>5
  <1> QED
    BY <1>1, <1>2, <1>6, <1>7, <1>8 DEF Ordering

\* The first of a mark's members among some of them.
LEMMA FirstOfIs ==
  ASSUME NEW m \in SUBSET MapAssets, NEW among \in SUBSET m, among # {}
  PROVE  FirstOf(m, among) \in among /\ \A b \in among \ {FirstOf(m, among)} : MemberBefore(m, FirstOf(m, among), b)
  <1>1. IsFiniteSet(among)
    BY MembersOrdered, FS_Subset
  <1>2. Ordering(MembersOrder(m), among)
    BY MembersOrdered, OrderingWithin
  <1>3. \E a \in among : \A b \in among \ {a} : <<a, b>> \in MembersOrder(m)
    BY <1>1, <1>2, FirstExists
  <1>4. \E a \in among : \A b \in among \ {a} : MemberBefore(m, a, b)
    BY <1>3, MembersOrdered
  <1> QED
    BY <1>4 DEF FirstOf

\* Clicks on a mark come to each of its members, from any of them.
LEMMA AllVisited ==
  ASSUME NEW m \in SUBSET MapAssets, NEW s \in (SUBSET m) \ {{}, m}
  PROVE  \E b \in s : NextOf(m, b) \notin s
  <1> DEFINE R == MembersOrder(m)
  <1>1. /\ IsFiniteSet(m) /\ Ordering(R, m)
        /\ \A a, b \in m : <<a, b>> \in R <=> MemberBefore(m, a, b)
    BY MembersOrdered
  <1>2. s \subseteq m /\ s # {} /\ m # {}
    OBVIOUS
  <1>3. PICK x \in m : x \notin s
    OBVIOUS
  <1>4. \A b \in m : /\ After(m, b) = {a \in m : MemberBefore(m, b, a)}
                     /\ After(m, b) # {} => NextOf(m, b) = FirstOf(m, After(m, b))
                     /\ After(m, b) = {} => NextOf(m, b) = FirstOf(m, m)
    BY DEF After, NextOf
  <1> HIDE DEF R
  <1>5. IsFiniteSet(s) /\ Ordering(R, s)
    BY <1>1, <1>2, FS_Subset, OrderingWithin
  <1>6. PICK last \in s : \A y \in s \ {last} : <<y, last>> \in R
    BY <1>2, <1>5, LastExists
  <1>7. CASE After(m, last) # {}
    <2>1. After(m, last) \in SUBSET m
      BY <1>2, <1>4
    <2>2. NextOf(m, last) \in After(m, last)
      <3>1. NextOf(m, last) = FirstOf(m, After(m, last))
        BY <1>2, <1>4, <1>7
      <3>2. FirstOf(m, After(m, last)) \in After(m, last)
        BY <1>7, <2>1, FirstOfIs
      <3> QED
        BY <3>1, <3>2
    <2>3. PICK z \in m : z = NextOf(m, last) /\ <<last, z>> \in R
      BY <1>1, <1>2, <1>4, <2>2
    <2>4. z \notin s
      BY <1>1, <1>2, <1>6, <2>3 DEF Ordering
    <2> QED
      BY <2>3, <2>4
  <1>8. CASE After(m, last) = {}
    <2>1. PICK y : y = FirstOf(m, m)
      OBVIOUS
    <2>2. NextOf(m, last) = y
      BY <1>2, <1>4, <1>8, <2>1
    <2>3. y \in m /\ \A b \in m \ {y} : <<y, b>> \in R
      BY <1>1, <1>2, <2>1, FirstOfIs
    <2>4. CASE y \notin s
      BY <2>2, <2>4
    <2>5. CASE y \in s
      <3> DEFINE t == {b \in s : <<b, x>> \in R}
      <3>1. t \subseteq s /\ t \subseteq m /\ y \in t
        BY <1>2, <1>3, <2>3, <2>5
      <3> HIDE DEF t
      <3>2. IsFiniteSet(t) /\ Ordering(R, t) /\ t # {}
        BY <1>5, <3>1, FS_Subset, OrderingWithin
      <3>3. PICK b \in t : \A c \in t \ {b} : <<c, b>> \in R
        BY <3>2, LastExists
      <3>4. b \in s /\ b \in m /\ <<b, x>> \in R
        BY <3>1, <3>3 DEF t
      <3>5. x \in After(m, b) /\ After(m, b) \in SUBSET m
        BY <1>1, <1>3, <1>4, <3>4
      <3>6. PICK z : z = FirstOf(m, After(m, b))
        OBVIOUS
      <3>7. z \in After(m, b) /\ \A c \in After(m, b) \ {z} : MemberBefore(m, z, c)
        BY <3>5, <3>6, FirstOfIs
      <3>8. z \in m /\ <<b, z>> \in R /\ (z = x \/ <<z, x>> \in R)
        BY <1>1, <1>3, <1>4, <3>4, <3>5, <3>7
      <3>9. z \notin s
        <4>1. SUFFICES ASSUME z \in s PROVE FALSE
          OBVIOUS
        <4>2. z \in t /\ z # b
          BY <1>1, <1>3, <3>4, <3>8, <4>1 DEF t, Ordering
        <4>3. <<z, b>> \in R
          BY <3>3, <4>2
        <4> QED
          BY <1>1, <3>4, <3>8, <4>3 DEF Ordering
      <3>10. NextOf(m, b) = z
        BY <1>4, <3>4, <3>5, <3>6
      <3> QED
        BY <3>4, <3>9, <3>10
    <2> QED
      BY <2>4, <2>5
  <1> QED
    BY <1>7, <1>8

LEMMA MapInvInit == RegionMapInit => RegionMapTypeOK
  <1> SUFFICES ASSUME RegionMapInit PROVE RegionMapTypeOK
    OBVIOUS
  <1>1. FobRegions # {} => Min(FobRegions) \in FobRegions
    BY RegionAssumption, SmallestOf
  <1>2. InitialRegion \in FobRegions \cup OtherRegions \cup {RegionScope, UrlRegion, 0}
    BY <1>1 DEF InitialRegion
  <1>3. Max(Radii) \in Radii
    BY RegionAssumption, LargestOf
  <1>4. DOMAIN rmFleet = {}
    BY DEF RegionMapInit
  <1> QED
    BY <1>2, <1>3, <1>4 DEF RegionMapInit, RegionMapTypeOK

FleetOK(fleet) == DOMAIN fleet \subseteq MapAssets /\ \A a \in DOMAIN fleet : fleet[a] \in Rows
RegionOK(r) == r \in FobRegions \cup OtherRegions \cup {RegionScope, UrlRegion, 0}
PairsOK(pairs) == \A p \in pairs : {p[2], p[3]} \subseteq MapAssets
GoalOK(goal) == goal \in {"none", "overview", "asset", "preset"}

LEMMA KeptPairs ==
  ASSUME RegionMapTypeOK, KeepPairs
  PROVE  PairsOK(rmMerged') /\ PairsOK(rmDrawn')
  BY DEF KeepPairs, RegionMapTypeOK, PairsOK

\* The pairs of the trees are of assets.
LEMMA PairsAreAssets == RegionMapTypeOK => PairsOK(MstPairs)
  <1> SUFFICES ASSUME RegionMapTypeOK, NEW q \in MstPairs PROVE {q[2], q[3]} \subseteq MapAssets
    BY DEF PairsOK
  <1>1. PICK c \in Clusters : q \in {PairKey(p) : p \in Adjacent(c)}
    BY DEF MstPairs
  <1>2. PICK p \in Adjacent(c) : q = PairKey(p)
    BY <1>1
  <1>3. c \subseteq MapAssets
    BY DEF Clusters, Renderables, RegionMapTypeOK
  <1>4. p[1] \in MapAssets /\ p[2] \in MapAssets
    BY <1>3 DEF Adjacent
  <1> DEFINE S == {p[1], p[2]}
  <1>5. S # {} /\ S \subseteq MapAssets /\ S \subseteq Nat
    BY <1>4, RegionAssumption
  <1>6. IsFiniteSet(S)
    BY FiniteTwo
  <1>7. q[2] = Min(S) /\ q[3] = Max(S)
    BY <1>2 DEF PairKey
  <1> HIDE DEF S
  <1>8. Min(S) \in S /\ Max(S) \in S
    BY <1>5, <1>6, SmallestOf, LargestOf
  <1> QED
    BY <1>5, <1>7, <1>8

\* A mark is some of the assets that are drawn.
LEMMA MarksAre == \A m \in Marks : m # {} /\ m \subseteq Renderables
  <1> SUFFICES ASSUME NEW m \in Marks PROVE m # {} /\ m \subseteq Renderables
    OBVIOUS
  <1>1. PICK g \in Groups : m \in MarksOf(g)
    BY DEF Marks
  <1>2. PICK c \in Clusters : g \in GroupsOf(c)
    BY <1>1 DEF Groups
  <1>3. c \subseteq Renderables
    BY DEF Clusters
  <1>4. g \subseteq c
    BY <1>2 DEF GroupsOf
  <1>5. \A k \in KindsOf(g) : k # {} /\ k \subseteq g
    BY DEF KindsOf, Kind
  <1>6. HiddenKinds(g) \subseteq KindsOf(g)
    BY DEF HiddenKinds
  <1>7. CASE m \in KindsOf(g) \ HiddenKinds(g)
    BY <1>3, <1>4, <1>5, <1>7
  <1>8. CASE m \in {UNION HiddenKinds(g)} \ {{}}
    <2>1. m = UNION HiddenKinds(g) /\ m # {}
      BY <1>8
    <2>2. m \subseteq g
      BY <2>1, <1>5, <1>6
    <2> QED
      BY <1>3, <1>4, <2>1, <2>2
  <1> QED
    BY <1>1, <1>7, <1>8 DEF MarksOf

LEMMA MapInvStep == RegionMapTypeOK /\ [RegionMapNext]_mapVars => RegionMapTypeOK'
  <1> SUFFICES ASSUME RegionMapTypeOK, [RegionMapNext]_mapVars PROVE RegionMapTypeOK'
    OBVIOUS
  <1>1. /\ RegionOK(rmRegion) /\ rmObserved \subseteq FobRegions \cup OtherRegions /\ FleetOK(rmFleet)
        /\ rmRadius \in Radii /\ PairsOK(rmMerged) /\ PairsOK(rmDrawn)
        /\ rmAsset \in MapAssets \cup {0} /\ GoalOK(rmGoal) /\ rmFramed \in BOOLEAN
    BY DEF RegionMapTypeOK, RegionOK, FleetOK, PairsOK, GoalOK
  <1>2. SUFFICES /\ RegionOK(rmRegion') /\ rmObserved' \subseteq FobRegions \cup OtherRegions /\ FleetOK(rmFleet')
                 /\ rmRadius' \in Radii /\ PairsOK(rmMerged') /\ PairsOK(rmDrawn')
                 /\ rmAsset' \in MapAssets \cup {0} /\ GoalOK(rmGoal') /\ rmFramed' \in BOOLEAN
    BY DEF RegionMapTypeOK, RegionOK, FleetOK, PairsOK, GoalOK
  <1>3. FleetOK(<< >>)
    BY DEF FleetOK
  <1>4. KeepPairs => PairsOK(rmMerged') /\ PairsOK(rmDrawn')
    BY KeptPairs
  <1>5. ASSUME NEW a \in MapAssets, Selected(a) PROVE rmAsset' \in MapAssets \cup {0} /\ GoalOK(rmGoal')
    BY <1>1, <1>5 DEF Selected, GoalOK
  <1>6. ASSUME NEW fleet, Framed(fleet, rmGoal) PROVE GoalOK(rmGoal') /\ rmFramed' \in BOOLEAN
    BY <1>1, <1>6 DEF Framed, GoalOK
  <1>7. CASE RegionObserved
    <2>1. rmObserved' \subseteq FobRegions \cup OtherRegions
      BY <1>1, <1>7 DEF RegionObserved
    <2>2. RegionOK(rmRegion')
      <3>1. rmRegion' = HealedRegion(rmRegion, rmObserved')
        BY <1>7 DEF RegionObserved
      <3>2. rmObserved' # {} => Min(rmObserved') \in rmObserved'
        BY <2>1, RegionAssumption, SmallestOf
      <3> QED
        BY <1>1, <2>1, <3>1, <3>2 DEF HealedRegion, RegionOK
    <2> QED
      BY <1>1, <1>3, <1>4, <1>7, <2>1, <2>2 DEF RegionObserved
  <1>8. CASE FleetRead
    <2>1. FleetOK(rmFleet')
      BY <1>8, RegionAssumption DEF FleetRead, FleetOK
    <2>2. GoalOK(rmGoal') /\ rmFramed' \in BOOLEAN
      BY <1>6, <1>8 DEF FleetRead
    <2> QED
      BY <1>1, <1>4, <1>8, <2>1, <2>2 DEF FleetRead
  <1>9. CASE RowComes
    <2>1. FleetOK(rmFleet')
      BY <1>1, <1>9 DEF RowComes, FleetOK
    <2>2. GoalOK(rmGoal') /\ rmFramed' \in BOOLEAN
      BY <1>6, <1>9 DEF RowComes
    <2> QED
      BY <1>1, <1>4, <1>9, <2>1, <2>2 DEF RowComes
  <1>10. CASE RowGoes
    <2>1. FleetOK(rmFleet')
      BY <1>1, <1>10 DEF RowGoes, FleetOK, Restrict
    <2> QED
      BY <1>1, <1>4, <1>10, <2>1 DEF RowGoes
  <1>11. CASE Frame
    <2>1. PairsOK(rmMerged') /\ PairsOK(rmDrawn')
      BY <1>1, <1>11, PairsAreAssets DEF Frame, PairsOK
    <2> QED
      BY <1>1, <1>11, <2>1 DEF Frame
  <1>12. CASE Zoom
    BY <1>1, <1>12 DEF Zoom
  <1>13. CASE ClickMark
    <2>1. PICK m \in Marks : Selected(NextOf(m, rmAsset))
      BY <1>13 DEF ClickMark
    <2>2. m # {} /\ m \in SUBSET MapAssets
      BY MarksAre DEF Renderables, RegionMapTypeOK
    <2>3. NextOf(m, rmAsset) \in m
      <3>1. After(m, rmAsset) \in SUBSET m
        BY DEF After
      <3>2. FirstOf(m, m) \in m
        BY <2>2, FirstOfIs
      <3>3. After(m, rmAsset) # {} => FirstOf(m, After(m, rmAsset)) \in After(m, rmAsset)
        BY <2>2, <3>1, FirstOfIs
      <3> QED
        BY <3>1, <3>2, <3>3 DEF NextOf
    <2> QED
      BY <1>1, <1>5, <1>13, <2>1, <2>2, <2>3 DEF ClickMark
  <1>14. CASE SelectRow
    <2>1. PICK a \in DOMAIN rmFleet : Selected(a)
      BY <1>14 DEF SelectRow
    <2> QED
      BY <1>1, <1>5, <1>14, <2>1 DEF SelectRow, FleetOK
  <1>15. CASE CloseDeepDive
    BY <1>1, <1>15 DEF CloseDeepDive
  <1>16. CASE FlyPreset
    BY <1>1, <1>16 DEF FlyPreset, GoalOK
  <1>17. CASE SelectRegion
    <2>1. RegionOK(rmRegion')
      BY <1>1, <1>17 DEF SelectRegion, AvailableRegions, RegionOK
    <2> QED
      BY <1>1, <1>3, <1>4, <1>17, <2>1 DEF SelectRegion
  <1>18. CASE UNCHANGED mapVars
    BY <1>1, <1>18 DEF mapVars
  <1> QED
    BY <1>7, <1>8, <1>9, <1>10, <1>11, <1>12, <1>13, <1>14, <1>15, <1>16, <1>17, <1>18 DEF RegionMapNext

\* The groups of a cluster are apart: members that are joined to one are joined to
\* each other.
JoinedIn(c, a, b) == \A x \in Between(c, a, b) : JoinedLeft(c, x)
GroupIn(c, a) == {b \in c : JoinedIn(c, a, b)}

LEMMA GroupsApart ==
  ASSUME NEW c, NEW a \in c, NEW b \in c, a \in GroupIn(c, b)
  PROVE  GroupIn(c, b) = GroupIn(c, a)
  <1>1. ASSUME NEW x, NEW y, NEW z, JoinedIn(c, x, y), JoinedIn(c, y, z) PROVE JoinedIn(c, x, z)
    <2>1. Between(c, x, z) \subseteq Between(c, x, y) \cup Between(c, y, z)
      BY DEF Between
    <2> QED
      BY <1>1, <2>1 DEF JoinedIn
  <1>2. \A x, y : JoinedIn(c, x, y) => JoinedIn(c, y, x)
    BY DEF JoinedIn, Between
  <1>3. JoinedIn(c, b, a) /\ JoinedIn(c, a, b)
    BY <1>2 DEF GroupIn
  <1>4. \A d \in c : JoinedIn(c, b, d) <=> JoinedIn(c, a, d)
    BY <1>1, <1>3
  <1> QED
    BY <1>4 DEF GroupIn

\* Every asset that is drawn is in one mark.
LEMMA OneMark ==
  ASSUME NEW a \in Renderables
  PROVE  \E m \in Marks : a \in m /\ \A n \in Marks \ {m} : a \notin n
  <1> DEFINE c == {b \in Renderables : ClusterKey(b) = ClusterKey(a)}
             g == GroupIn(c, a)
             k == Kind(g, VariantOf[a])
             m == IF k \in HiddenKinds(g) THEN UNION HiddenKinds(g) ELSE k
  <1>1. c \in Clusters /\ a \in c
    BY DEF Clusters
  <1>2. \A d \in Clusters : a \in d => d = c
    BY DEF Clusters
  <1> HIDE DEF c
  <1>3. a \in g /\ g \in GroupsOf(c)
    BY <1>1 DEF GroupIn, JoinedIn, Between, GroupsOf
  <1>4. ASSUME NEW h \in Groups, a \in h PROVE h = g
    <2>1. PICK d \in Clusters : h \in GroupsOf(d)
      BY DEF Groups
    <2>2. PICK b \in d : h = GroupIn(d, b)
      BY <2>1 DEF GroupsOf, GroupIn, JoinedIn
    <2>3. a \in d
      BY <1>4, <2>2 DEF GroupIn
    <2>4. d = c
      BY <1>2, <2>3
    <2> QED
      BY <1>4, <2>2, <2>3, <2>4, GroupsApart
  <1>5. g \in Groups
    BY <1>1, <1>3 DEF Groups
  <1> HIDE DEF g
  <1>6. k \in KindsOf(g) /\ a \in k
    BY <1>3 DEF KindsOf, Kind
  <1>7. \A l \in KindsOf(g) : l \subseteq g /\ (a \in l => l = k)
    BY DEF KindsOf, Kind
  <1>8. HiddenKinds(g) \subseteq KindsOf(g)
    BY DEF HiddenKinds
  <1> HIDE DEF k
  <1>9. m \in MarksOf(g) /\ a \in m
    <2>1. CASE k \in HiddenKinds(g)
      <3>1. a \in UNION HiddenKinds(g)
        BY <1>6, <2>1
      <3> QED
        BY <2>1, <3>1 DEF MarksOf
    <2>2. CASE k \notin HiddenKinds(g)
      BY <1>6, <2>2 DEF MarksOf
    <2> QED
      BY <2>1, <2>2
  <1>10. ASSUME NEW h \in Groups, NEW n \in MarksOf(h), a \in n PROVE n = m
    <2>1. n \in KindsOf(h) \ HiddenKinds(h) \/ n = UNION HiddenKinds(h)
      BY DEF MarksOf
    <2>2. \A l \in KindsOf(h) : l \subseteq h
      BY DEF KindsOf, Kind
    <2>3. HiddenKinds(h) \subseteq KindsOf(h)
      BY DEF HiddenKinds
    <2>4. a \in h
      BY <1>10, <2>1, <2>2, <2>3
    <2>5. h = g
      BY <1>4, <2>4
    <2>6. CASE n \in KindsOf(g) \ HiddenKinds(g)
      BY <1>7, <1>10, <2>6
    <2>7. CASE n = UNION HiddenKinds(g)
      <3>1. PICK l \in HiddenKinds(g) : a \in l
        BY <1>10, <2>7
      <3> QED
        BY <1>7, <1>8, <2>7, <3>1
    <2> QED
      BY <2>1, <2>5, <2>6, <2>7
  <1> HIDE DEF m
  <1>11. m \in Marks
    BY <1>5, <1>9 DEF Marks
  <1>12. \A n \in Marks : a \in n => n = m
    BY <1>10 DEF Marks
  <1> QED
    BY <1>9, <1>11, <1>12

LEMMA MapLosesNothing == RegionMapTypeOK => NothingLost
  <1> SUFFICES ASSUME RegionMapTypeOK, NEW a \in Renderables
               PROVE  \E m \in Marks :
                        /\ a \in m /\ \A n \in Marks \ {m} : a \notin n
                        /\ \A s \in (SUBSET m) \ {{}, m} : \E b \in s : NextOf(m, b) \notin s
    BY DEF NothingLost
  <1>1. PICK m \in Marks : a \in m /\ \A n \in Marks \ {m} : a \notin n
    BY OneMark
  <1>2. m \in SUBSET MapAssets
    BY MarksAre DEF Renderables, RegionMapTypeOK
  <1>3. \A s \in (SUBSET m) \ {{}, m} : \E b \in s : NextOf(m, b) \notin s
    BY <1>2, AllVisited
  <1> QED
    BY <1>1, <1>3

-----------------------------------------------------------------------------
(* The move panel: the times of a move. *)

TransitionRow == [from : Phases, to : Phases, at : 1..MaxNow, motionSince : 1..MaxNow]
Goes(n, from, to) == mvTransitions[n].from = from /\ mvTransitions[n].to = to

\* What has been written since the march order o, and how it stands to what happened.
SinceOrder(o) ==
    \/ /\ mvPosture = "march_ordered" /\ Len(mvTransitions) = o /\ mvMove.halted = NoTime
       /\ mvMotion.moving => mvMove.started = mvMotion.since
    \/ /\ mvPosture = "emplaced" /\ Len(mvTransitions) = o + 1 /\ mvMove.halted = NoTime /\ ~mvMotion.moving
       /\ Goes(o + 1, "march_ordered", "emplaced")
    \/ /\ mvPosture = "moving" /\ Len(mvTransitions) = o + 1
       /\ Goes(o + 1, "march_ordered", "moving") /\ mvTransitions[o + 1].motionSince = mvMove.started
       /\ ~mvMotion.moving => mvMove.halted = mvMotion.since
    \/ /\ mvPosture \in {"emplacing", "emplaced"} /\ ~mvMotion.moving
       /\ Len(mvTransitions) = IF mvPosture = "emplacing" THEN o + 2 ELSE o + 3
       /\ Goes(o + 1, "march_ordered", "moving") /\ mvTransitions[o + 1].motionSince = mvMove.started
       /\ Goes(o + 2, "moving", "emplacing") /\ mvTransitions[o + 2].motionSince = mvMove.halted
       /\ mvPosture = "emplaced" => Goes(o + 3, "emplacing", "emplaced") /\ mvTransitions[o + 3].at = mvMove.emplaced

MoveTrace ==
    \/ mvTransitions = << >> /\ mvPosture = "emplaced" /\ ~mvMotion.moving
    \/ \E o \in DOMAIN mvTransitions :
          mvTransitions[o].to = "march_ordered" /\ mvTransitions[o].at = mvMove.ordered /\ SinceOrder(o)

TransitionsOK ==
    /\ mvTransitions \in Seq(TransitionRow)
    /\ \A n \in DOMAIN mvTransitions : mvTransitions[n].at <= mvNow
    /\ \A n, m \in DOMAIN mvTransitions : n < m => mvTransitions[n].at < mvTransitions[m].at

LauncherOK ==
    /\ mvNow \in 1..MaxNow /\ mvPosture \in Phases
    /\ mvMotion \in [moving : BOOLEAN, since : 1..MaxNow] /\ mvMotion.since <= mvNow
    /\ mvMove \in [ordered : 0..MaxNow, started : 0..MaxNow, halted : 0..MaxNow, emplaced : 0..MaxNow]

MoveInv == LauncherOK /\ TransitionsOK /\ MoveTrace /\ mvArrived \in 0..Len(mvTransitions)

LEMMA MoveInvInit == MoveInit => MoveInv
  <1> SUFFICES ASSUME MoveInit PROVE MoveInv
    OBVIOUS
  <1>1. MaxNow \in Nat /\ 1 \in 1..MaxNow /\ 0 \in 0..MaxNow
    BY MoveAssumption
  <1>2. LauncherOK
    BY <1>1 DEF MoveInit, LauncherOK, NoMove, NoTime, Phases
  <1>3. mvTransitions = << >> /\ mvArrived = 0 /\ mvPosture = "emplaced" /\ ~mvMotion.moving
    BY DEF MoveInit
  <1>4. TransitionsOK /\ Len(mvTransitions) = 0
    BY <1>3 DEF TransitionsOK
  <1> QED
    BY <1>2, <1>3, <1>4 DEF MoveInv, MoveTrace

\* A transition's row comes after the others.
LEMMA TransitionTaken ==
  ASSUME MoveInv, NEW to \in Phases, Transition(to)
  PROVE  /\ TransitionsOK' /\ Len(mvTransitions') = Len(mvTransitions) + 1 /\ mvArrived' \in 0..Len(mvTransitions')
         /\ \A n \in 1..Len(mvTransitions) : mvTransitions'[n] = mvTransitions[n]
         /\ mvTransitions'[Len(mvTransitions) + 1]
              = [from |-> mvPosture, to |-> to, at |-> mvNow, motionSince |-> mvMotion.since]
         /\ Len(mvTransitions) \in Nat /\ DOMAIN mvTransitions = 1..Len(mvTransitions)
         /\ DOMAIN mvTransitions' = 1..(Len(mvTransitions) + 1)
  <1> DEFINE L == Len(mvTransitions)
             new == [from |-> mvPosture, to |-> to, at |-> mvNow, motionSince |-> mvMotion.since]
  <1>1. mvTransitions \in Seq(TransitionRow) /\ L \in Nat /\ DOMAIN mvTransitions = 1..L
    BY DEF MoveInv, TransitionsOK
  <1>2. new \in TransitionRow
    BY DEF MoveInv, LauncherOK, TransitionRow
  <1>3. mvTransitions' = Append(mvTransitions, new) /\ mvArrived' = mvArrived /\ mvNow' = mvNow
    BY DEF Transition
  <1>4. /\ mvTransitions' \in Seq(TransitionRow) /\ Len(mvTransitions') = L + 1
        /\ DOMAIN mvTransitions' = 1..(L + 1) /\ mvTransitions'[L + 1] = new
        /\ \A n \in 1..L : mvTransitions'[n] = mvTransitions[n]
    BY <1>1, <1>2, <1>3
  <1>5. new.at = mvNow /\ mvNow \in Nat
    BY DEF MoveInv, LauncherOK
  <1>6. \A n \in 1..L : mvTransitions[n].at < mvNow /\ mvTransitions[n].at \in Nat
    <2> SUFFICES ASSUME NEW n \in 1..L PROVE mvTransitions[n].at < mvNow /\ mvTransitions[n].at \in Nat
      OBVIOUS
    <2>1. mvTransitions[n] \in TransitionRow
      BY <1>1
    <2>2. mvTransitions[n].at \in Nat
      BY <2>1 DEF TransitionRow
    <2> QED
      BY <1>1, <2>2 DEF Transition
  <1>7. \A n \in 1..(L + 1) : n \in 1..L \/ n = L + 1
    BY <1>1
  <1> HIDE DEF new, L
  <1>8. \A n \in 1..(L + 1) : mvTransitions'[n].at <= mvNow
    BY <1>4, <1>5, <1>6, <1>7
  <1>9. ASSUME NEW n \in 1..(L + 1), NEW m \in 1..(L + 1), n < m PROVE mvTransitions'[n].at < mvTransitions'[m].at
    <2>1. n \in 1..L
      BY <1>1, <1>9
    <2>2. CASE m \in 1..L
      BY <1>1, <1>4, <1>9, <2>1, <2>2 DEF MoveInv, TransitionsOK
    <2>3. CASE m = L + 1
      BY <1>4, <1>5, <1>6, <2>1, <2>3
    <2> QED
      BY <1>7, <2>2, <2>3
  <1>10. TransitionsOK'
    BY <1>3, <1>4, <1>8, <1>9 DEF TransitionsOK
  <1>11. mvArrived' \in 0..(L + 1)
    BY <1>1, <1>3 DEF MoveInv, L
  <1> QED
    BY <1>1, <1>4, <1>10, <1>11 DEF new, L

LEMMA MoveInvStep == MoveInv /\ [MoveNext]_moveVars => MoveInv'
  <1> SUFFICES ASSUME MoveInv, [MoveNext]_moveVars PROVE MoveInv'
    OBVIOUS
  <1> DEFINE L == Len(mvTransitions)
  <1>1. L \in Nat /\ DOMAIN mvTransitions = 1..L /\ LauncherOK /\ TransitionsOK /\ MoveTrace /\ mvArrived \in 0..L
    BY DEF MoveInv, TransitionsOK
  <1>2. NoTime = 0 /\ MaxNow \in Nat \ {0}
    BY MoveAssumption DEF NoTime
  <1>3. CASE UNCHANGED <<launcherVars, mvTransitions>> /\ mvNow' \in mvNow..MaxNow /\ mvArrived' \in 0..L
    <2>1. UNCHANGED <<mvPosture, mvMotion, mvMove, mvTransitions>>
      BY <1>3 DEF launcherVars
    <2>2. LauncherOK'
      BY <1>1, <1>3, <2>1 DEF LauncherOK
    <2>3. TransitionsOK'
      <3>1. ASSUME NEW n \in 1..L PROVE mvTransitions[n].at <= mvNow'
        <4>1. mvTransitions[n] \in TransitionRow
          BY <1>1 DEF TransitionsOK
        <4>2. mvTransitions[n].at \in 1..MaxNow
          BY <4>1 DEF TransitionRow
        <4>3. mvTransitions[n].at <= mvNow
          BY <1>1 DEF TransitionsOK
        <4>4. mvNow \in 1..MaxNow
          BY <1>1 DEF LauncherOK
        <4> QED
          BY <1>2, <1>3, <4>2, <4>3, <4>4
      <3> QED
        BY <1>1, <2>1, <3>1 DEF TransitionsOK
    <2>4. MoveTrace'
      BY <1>1, <2>1 DEF MoveTrace, SinceOrder, Goes
    <2> QED
      BY <1>3, <2>1, <2>2, <2>3, <2>4 DEF MoveInv
  <1>4. CASE MarchOrdered
    <2>1. /\ mvPosture = "emplaced" /\ Transition("march_ordered") /\ mvMove' = [NoMove EXCEPT !.ordered = mvNow]
          /\ UNCHANGED <<mvNow, mvMotion>> /\ mvPosture' = "march_ordered"
      BY <1>4 DEF MarchOrdered, Transition
    <2>2. /\ TransitionsOK' /\ Len(mvTransitions') = L + 1 /\ mvArrived' \in 0..Len(mvTransitions')
          /\ DOMAIN mvTransitions' = 1..(L + 1)
          /\ mvTransitions'[L + 1] = [from |-> mvPosture, to |-> "march_ordered", at |-> mvNow, motionSince |-> mvMotion.since]
      BY <2>1, TransitionTaken DEF Phases
    <2>3. mvMove' = [ordered |-> mvNow, started |-> 0, halted |-> 0, emplaced |-> 0]
      BY <1>2, <2>1 DEF NoMove
    <2>4. LauncherOK'
      <3>1. mvNow \in 0..MaxNow /\ 0 \in 0..MaxNow
        BY <1>1, <1>2 DEF LauncherOK
      <3>2. mvMove' \in [ordered : 0..MaxNow, started : 0..MaxNow, halted : 0..MaxNow, emplaced : 0..MaxNow]
        BY <2>3, <3>1
      <3> QED
        BY <1>1, <2>1, <3>2 DEF LauncherOK, Phases
    <2>5. ~mvMotion.moving
      BY <1>1, <2>1 DEF MoveTrace, SinceOrder
    <2>6. mvMove'.ordered = mvNow /\ mvMove'.halted = NoTime /\ ~mvMotion'.moving
      BY <1>2, <2>1, <2>3, <2>5
    <2>7. MoveTrace'
      <3>1. L + 1 \in DOMAIN mvTransitions' /\ mvTransitions'[L + 1].to = "march_ordered" /\ mvTransitions'[L + 1].at = mvNow
        BY <1>1, <2>2
      <3>2. \E o \in DOMAIN mvTransitions' :
              /\ mvTransitions'[o].to = "march_ordered" /\ mvTransitions'[o].at = mvMove'.ordered
              /\ mvPosture' = "march_ordered" /\ Len(mvTransitions') = o /\ mvMove'.halted = NoTime /\ ~mvMotion'.moving
        BY <2>1, <2>2, <2>6, <3>1
      <3> QED
        BY <3>2 DEF MoveTrace, SinceOrder
    <2> QED
      BY <2>2, <2>4, <2>7 DEF MoveInv
  <1>5. CASE MotionTurns
    <2>1. /\ (mvPosture = "march_ordered" /\ ~mvMotion.moving) \/ (mvPosture = "moving" /\ mvMotion.moving)
          /\ mvMotion' = [moving |-> ~mvMotion.moving, since |-> mvNow]
          /\ mvMove' = IF mvMotion.moving THEN [mvMove EXCEPT !.halted = mvNow]
                       ELSE [mvMove EXCEPT !.started = mvNow]
          /\ UNCHANGED <<mvNow, mvPosture, mvTransitions, mvArrived>>
      BY <1>5 DEF MotionTurns
    <2>2. mvMotion.moving \in BOOLEAN /\ mvNow \in 1..MaxNow /\ mvNow \in 0..MaxNow
      BY <1>1 DEF LauncherOK
    <2>3. mvMotion' \in [moving : BOOLEAN, since : 1..MaxNow] /\ mvMotion'.since = mvNow
          /\ mvMotion'.moving = ~mvMotion.moving
      BY <2>1, <2>2
    <2>4. mvMove' \in [ordered : 0..MaxNow, started : 0..MaxNow, halted : 0..MaxNow, emplaced : 0..MaxNow]
      BY <1>1, <2>1, <2>2 DEF LauncherOK
    <2>5. LauncherOK'
      BY <1>1, <2>1, <2>2, <2>3, <2>4 DEF LauncherOK
    <2>6. PICK o \in DOMAIN mvTransitions :
             mvTransitions[o].to = "march_ordered" /\ mvTransitions[o].at = mvMove.ordered /\ SinceOrder(o)
      BY <1>1, <2>1 DEF MoveTrace
    <2>7. mvMove'.ordered = mvMove.ordered
      BY <1>1, <2>1 DEF LauncherOK
    <2>8. CASE mvPosture = "march_ordered" /\ ~mvMotion.moving
      <3>1. mvMove'.started = mvNow /\ mvMove'.halted = mvMove.halted
        BY <1>1, <2>1, <2>8 DEF LauncherOK
      <3>2. L = o /\ mvMove.halted = NoTime
        BY <2>6, <2>8 DEF SinceOrder
      <3> QED
        BY <1>1, <2>1, <2>3, <2>5, <2>6, <2>7, <2>8, <3>1, <3>2 DEF MoveInv, MoveTrace, SinceOrder, TransitionsOK
    <2>9. CASE mvPosture = "moving" /\ mvMotion.moving
      <3>1. mvMove'.halted = mvNow /\ mvMove'.started = mvMove.started
        BY <1>1, <2>1, <2>9 DEF LauncherOK
      <3>2. L = o + 1 /\ Goes(o + 1, "march_ordered", "moving") /\ mvTransitions[o + 1].motionSince = mvMove.started
        BY <2>6, <2>9 DEF SinceOrder
      <3> QED
        BY <1>1, <2>1, <2>3, <2>5, <2>6, <2>7, <2>9, <3>1, <3>2 DEF MoveInv, MoveTrace, SinceOrder, TransitionsOK, Goes
    <2> QED
      BY <2>1, <2>8, <2>9
  <1>6. CASE Moves
    <2>1. /\ mvPosture = "march_ordered" /\ mvMotion.moving /\ Transition("moving") /\ mvMove' = mvMove
          /\ UNCHANGED <<mvNow, mvMotion>> /\ mvPosture' = "moving"
      BY <1>6 DEF Moves, Transition
    <2>2. /\ TransitionsOK' /\ Len(mvTransitions') = L + 1 /\ mvArrived' \in 0..Len(mvTransitions')
          /\ DOMAIN mvTransitions' = 1..(L + 1) /\ \A n \in 1..L : mvTransitions'[n] = mvTransitions[n]
          /\ mvTransitions'[L + 1] = [from |-> mvPosture, to |-> "moving", at |-> mvNow, motionSince |-> mvMotion.since]
      BY <2>1, TransitionTaken DEF Phases
    <2>3. LauncherOK'
      BY <1>1, <2>1 DEF LauncherOK, Phases
    <2>4. PICK o \in DOMAIN mvTransitions :
             mvTransitions[o].to = "march_ordered" /\ mvTransitions[o].at = mvMove.ordered /\ SinceOrder(o)
      BY <1>1, <2>1 DEF MoveTrace
    <2>5. L = o /\ mvMove.started = mvMotion.since
      BY <2>1, <2>4 DEF SinceOrder
    <2>6. SinceOrder(o)'
      BY <2>1, <2>2, <2>5 DEF SinceOrder, Goes
    <2>7. MoveTrace'
      BY <1>1, <2>1, <2>2, <2>4, <2>6 DEF MoveTrace
    <2> QED
      BY <2>2, <2>3, <2>7 DEF MoveInv
  <1>7. CASE Halts
    <2>1. /\ mvPosture = "moving" /\ ~mvMotion.moving /\ Transition("emplacing") /\ mvMove' = mvMove
          /\ UNCHANGED <<mvNow, mvMotion>> /\ mvPosture' = "emplacing"
      BY <1>7 DEF Halts, Transition
    <2>2. /\ TransitionsOK' /\ Len(mvTransitions') = L + 1 /\ mvArrived' \in 0..Len(mvTransitions')
          /\ DOMAIN mvTransitions' = 1..(L + 1) /\ \A n \in 1..L : mvTransitions'[n] = mvTransitions[n]
          /\ mvTransitions'[L + 1] = [from |-> mvPosture, to |-> "emplacing", at |-> mvNow, motionSince |-> mvMotion.since]
      BY <2>1, TransitionTaken DEF Phases
    <2>3. LauncherOK'
      BY <1>1, <2>1 DEF LauncherOK, Phases
    <2>4. PICK o \in DOMAIN mvTransitions :
             mvTransitions[o].to = "march_ordered" /\ mvTransitions[o].at = mvMove.ordered /\ SinceOrder(o)
      BY <1>1, <2>1 DEF MoveTrace
    <2>5. /\ L = o + 1 /\ mvMove.halted = mvMotion.since /\ Goes(o + 1, "march_ordered", "moving")
          /\ mvTransitions[o + 1].motionSince = mvMove.started
      BY <2>1, <2>4 DEF SinceOrder
    <2>6. o + 1 \in 1..L /\ L + 1 = o + 2
      BY <1>1, <2>4, <2>5
    <2>7. SinceOrder(o)'
      BY <2>1, <2>2, <2>5, <2>6 DEF SinceOrder, Goes
    <2>8. MoveTrace'
      BY <1>1, <2>1, <2>2, <2>4, <2>7 DEF MoveTrace
    <2> QED
      BY <2>2, <2>3, <2>8 DEF MoveInv
  <1>8. CASE Emplaced
    <2>1. /\ mvPosture = "emplacing" \/ (mvPosture = "march_ordered" /\ ~mvMotion.moving)
          /\ Transition("emplaced") /\ mvMove' = [mvMove EXCEPT !.emplaced = mvNow]
          /\ UNCHANGED <<mvNow, mvMotion>> /\ mvPosture' = "emplaced"
      BY <1>8 DEF Emplaced, Transition
    <2>2. /\ TransitionsOK' /\ Len(mvTransitions') = L + 1 /\ mvArrived' \in 0..Len(mvTransitions')
          /\ DOMAIN mvTransitions' = 1..(L + 1) /\ \A n \in 1..L : mvTransitions'[n] = mvTransitions[n]
          /\ mvTransitions'[L + 1] = [from |-> mvPosture, to |-> "emplaced", at |-> mvNow, motionSince |-> mvMotion.since]
      BY <2>1, TransitionTaken DEF Phases
    <2>3. /\ mvMove' \in [ordered : 0..MaxNow, started : 0..MaxNow, halted : 0..MaxNow, emplaced : 0..MaxNow]
          /\ mvMove'.ordered = mvMove.ordered /\ mvMove'.started = mvMove.started /\ mvMove'.halted = mvMove.halted
          /\ mvMove'.emplaced = mvNow
      BY <1>1, <2>1 DEF LauncherOK
    <2>4. LauncherOK'
      BY <1>1, <2>1, <2>3 DEF LauncherOK, Phases
    <2>5. PICK o \in DOMAIN mvTransitions :
             mvTransitions[o].to = "march_ordered" /\ mvTransitions[o].at = mvMove.ordered /\ SinceOrder(o)
      BY <1>1, <2>1 DEF MoveTrace
    <2>6. CASE mvPosture = "march_ordered" /\ ~mvMotion.moving
      <3>1. L = o /\ mvMove.halted = NoTime
        BY <2>5, <2>6 DEF SinceOrder
      <3>2. SinceOrder(o)'
        BY <2>1, <2>2, <2>3, <2>6, <3>1 DEF SinceOrder, Goes
      <3>3. MoveTrace'
        BY <1>1, <2>1, <2>2, <2>3, <2>5, <3>2 DEF MoveTrace
      <3> QED
        BY <2>2, <2>4, <3>3 DEF MoveInv
    <2>7. CASE mvPosture = "emplacing"
      <3>1. /\ L = o + 2 /\ ~mvMotion.moving
            /\ Goes(o + 1, "march_ordered", "moving") /\ mvTransitions[o + 1].motionSince = mvMove.started
            /\ Goes(o + 2, "moving", "emplacing") /\ mvTransitions[o + 2].motionSince = mvMove.halted
        BY <2>5, <2>7 DEF SinceOrder
      <3>2. o + 1 \in 1..L /\ o + 2 \in 1..L /\ L + 1 = o + 3
        BY <1>1, <2>5, <3>1
      <3>3. SinceOrder(o)'
        BY <2>1, <2>2, <2>3, <2>7, <3>1, <3>2 DEF SinceOrder, Goes
      <3>4. MoveTrace'
        BY <1>1, <2>1, <2>2, <2>3, <2>5, <3>3 DEF MoveTrace
      <3> QED
        BY <2>2, <2>4, <3>4 DEF MoveInv
    <2> QED
      BY <2>1, <2>6, <2>7
  <1>9. mvNow \in 1..MaxNow /\ mvNow \in mvNow..MaxNow
    BY <1>1 DEF LauncherOK
  <1>10. CASE Tick
    <2>1. mvNow' \in mvNow..MaxNow
      BY <1>2, <1>9, <1>10 DEF Tick
    <2> QED
      BY <1>1, <1>3, <1>10, <2>1 DEF Tick
  <1>11. CASE Fires \/ Resupplied
    BY <1>1, <1>3, <1>9, <1>11 DEF Fires, Resupplied
  <1>12. CASE TransitionArrives
    BY <1>1, <1>3, <1>9, <1>12 DEF TransitionArrives
  <1>13. CASE RoundArrives
    BY <1>1, <1>3, <1>9, <1>13 DEF RoundArrives
  <1>14. CASE UNCHANGED moveVars
    <2>1. mvArrived' \in 0..L /\ UNCHANGED <<launcherVars, mvTransitions>> /\ mvNow' = mvNow
      BY <1>1, <1>14 DEF moveVars, launcherVars
    <2> QED
      BY <1>3, <1>9, <2>1
  <1> QED
    BY <1>4, <1>5, <1>6, <1>7, <1>8, <1>10, <1>11, <1>12, <1>13, <1>14 DEF MoveNext

\* The rows of transitions are in the order of their times, which differ.
LEMMA RowsInOrder ==
  ASSUME TransitionsOK
  PROVE  /\ Len(mvTransitions) \in Nat /\ DOMAIN mvTransitions = 1..Len(mvTransitions)
         /\ \A n \in 1..Len(mvTransitions) :
               /\ mvTransitions[n] \in TransitionRow
               /\ mvTransitions[n].at \in 1..MaxNow /\ mvTransitions[n].motionSince \in 1..MaxNow
               /\ mvTransitions[n].from \in Phases /\ mvTransitions[n].to \in Phases
         /\ \A n, m \in 1..Len(mvTransitions) : mvTransitions[n].at <= mvTransitions[m].at <=> n <= m
  <1> DEFINE L == Len(mvTransitions)
  <1>1. L \in Nat /\ DOMAIN mvTransitions = 1..L /\ mvTransitions \in Seq(TransitionRow)
    BY DEF TransitionsOK
  <1>2. \A n \in 1..L : mvTransitions[n] \in TransitionRow
    BY <1>1
  <1>3. \A n \in 1..L :
           /\ mvTransitions[n].at \in 1..MaxNow /\ mvTransitions[n].motionSince \in 1..MaxNow
           /\ mvTransitions[n].from \in Phases /\ mvTransitions[n].to \in Phases
    BY <1>2 DEF TransitionRow
  <1>4. ASSUME NEW n \in 1..L, NEW m \in 1..L PROVE mvTransitions[n].at <= mvTransitions[m].at <=> n <= m
    <2>1. n < m => mvTransitions[n].at < mvTransitions[m].at
      BY <1>1 DEF TransitionsOK
    <2>2. m < n => mvTransitions[m].at < mvTransitions[n].at
      BY <1>1 DEF TransitionsOK
    <2>3. mvTransitions[n].at \in Int /\ mvTransitions[m].at \in Int /\ (n = m => mvTransitions[n].at = mvTransitions[m].at)
      BY <1>3, MoveAssumption
    <2> QED
      BY <1>1, <2>1, <2>2, <2>3
  <1> QED
    BY <1>1, <1>2, <1>3, <1>4

\* The last of a move's rows that went somewhere, when only one did.
OnlyOne(o, n, P) == n > o /\ n \in P /\ \A m \in P : m > o => m = n
NoneIn(o, P) == \A m \in P : ~(m > o)
RowsTo(to) == {n \in DOMAIN mvTransitions : mvTransitions[n].to = to}
RowsFrom(from) == {n \in DOMAIN mvTransitions : mvTransitions[n].from = from}

\* The newest episode of all the rows is that of the last march order.
LEMMA EpisodeIs ==
  ASSUME TransitionsOK, mvArrived = Len(mvTransitions), NEW o \in DOMAIN mvTransitions,
         mvTransitions[o].to = "march_ordered", NoneIn(o, RowsTo("march_ordered"))
  PROVE  /\ Episode.ordered = mvTransitions[o].at
         /\ Episode.phase = mvTransitions[Len(mvTransitions)].to
         /\ NoneIn(o, RowsTo("moving")) => Episode.started = NoTime
         /\ \A n \in DOMAIN mvTransitions :
               OnlyOne(o, n, RowsTo("moving")) => Episode.started = mvTransitions[n].motionSince
         /\ NoneIn(o, RowsFrom("moving")) => Episode.halted = NoTime
         /\ \A n \in DOMAIN mvTransitions :
               OnlyOne(o, n, RowsFrom("moving")) => Episode.halted = mvTransitions[n].motionSince
         /\ NoneIn(o, RowsTo("emplaced")) => Episode.emplaced = NoTime
         /\ \A n \in DOMAIN mvTransitions :
               OnlyOne(o, n, RowsTo("emplaced")) => Episode.emplaced = mvTransitions[n].at
  <1> DEFINE L == Len(mvTransitions)
             T == mvTransitions
             rows == {T[n] : n \in 1..L}
             after == {t \in rows : t.at > T[o].at}
             last == {t \in after \cup {T[o]} : \A u \in after : u.at <= t.at}
  <1>1. /\ L \in Nat /\ DOMAIN T = 1..L /\ o \in 1..L
        /\ \A n \in 1..L : T[n].at \in 1..MaxNow
        /\ \A n, m \in 1..L : T[n].at <= T[m].at <=> n <= m
    BY RowsInOrder
  <1>2. \A n, m \in 1..L : T[n].at > T[m].at <=> n > m
    <2> SUFFICES ASSUME NEW n \in 1..L, NEW m \in 1..L PROVE T[n].at > T[m].at <=> n > m
      OBVIOUS
    <2>1. T[n].at \in Int /\ T[m].at \in Int /\ (T[n].at <= T[m].at <=> n <= m)
      BY <1>1, MoveAssumption
    <2> QED
      BY <1>1, <2>1
  <1>3. after = {T[n] : n \in {m \in 1..L : m > o}}
    BY <1>1, <1>2
  <1>4. LastOrder(rows) = {T[o]}
    <2>1. \A n \in 1..L : T[n].to = "march_ordered" => n <= o
      BY <1>1 DEF NoneIn, RowsTo
    <2>2. T[o] \in LastOrder(rows)
      BY <1>1, <2>1 DEF LastOrder
    <2>3. ASSUME NEW n \in 1..L, T[n] \in LastOrder(rows) PROVE n = o
      <3>1. T[n].to = "march_ordered" /\ T[o].at <= T[n].at
        BY <1>1, <2>3 DEF LastOrder
      <3> QED
        BY <1>1, <2>1, <3>1
    <2>4. LastOrder(rows) \subseteq rows
      BY DEF LastOrder
    <2> QED
      BY <2>2, <2>3, <2>4
  <1>5. \A x : The({x}) = x
    BY DEF The
  <1>6. Episode = [ordered |-> T[o].at,
                   started |-> IF Earliest({t \in after : t.to = "moving"}) = {} THEN NoTime
                               ELSE The(Earliest({t \in after : t.to = "moving"})).motionSince,
                   halted |-> IF Earliest({t \in after : t.from = "moving"}) = {} THEN NoTime
                              ELSE The(Earliest({t \in after : t.from = "moving"})).motionSince,
                   emplaced |-> IF Earliest({t \in after : t.to = "emplaced"}) = {} THEN NoTime
                                ELSE The(Earliest({t \in after : t.to = "emplaced"})).at,
                   phase |-> The(last).to]
    <2>1. TransitionRows = rows
      BY DEF TransitionRows
    <2> QED
      BY <1>4, <1>5, <2>1 DEF Episode, LatestEpisode
  <1>7. Earliest({}) = {} /\ \A n \in 1..L : Earliest({T[n]}) = {T[n]} /\ {T[n]} # {}
    BY <1>1 DEF Earliest
  <1>8. last = {T[L]}
    <2>1. L \in 1..L /\ o <= L
      BY <1>1
    <2>2. T[L] \in last
      <3>1. T[L] \in after \cup {T[o]}
        BY <1>1, <1>3, <2>1
      <3>2. \A u \in after : u.at <= T[L].at
        BY <1>1, <1>3, <2>1
      <3> QED
        BY <3>1, <3>2
    <2>3. ASSUME NEW n \in 1..L, T[n] \in last, n = o \/ n > o PROVE n = L
      <3>1. CASE o = L
        BY <1>1, <2>3, <3>1
      <3>2. CASE o < L
        <4>1. T[L] \in after
          BY <1>3, <2>1, <3>2
        <4>2. T[L].at <= T[n].at
          BY <2>3, <4>1
        <4> QED
          BY <1>1, <2>1, <4>2
      <3> QED
        BY <1>1, <2>1, <3>1, <3>2
    <2>4. \A t \in last : t \in after \/ t = T[o]
      OBVIOUS
    <2> QED
      BY <1>1, <1>3, <2>2, <2>3, <2>4
  <1> HIDE DEF rows, last
  <1>9. \A to : /\ NoneIn(o, RowsTo(to)) => {t \in after : t.to = to} = {}
                /\ \A n \in 1..L : OnlyOne(o, n, RowsTo(to)) => {t \in after : t.to = to} = {T[n]}
    BY <1>1, <1>3 DEF NoneIn, OnlyOne, RowsTo
  <1>10. \A from : /\ NoneIn(o, RowsFrom(from)) => {t \in after : t.from = from} = {}
                   /\ \A n \in 1..L : OnlyOne(o, n, RowsFrom(from)) => {t \in after : t.from = from} = {T[n]}
    BY <1>1, <1>3 DEF NoneIn, OnlyOne, RowsFrom
  <1> HIDE DEF after
  <1>11. Episode.ordered = T[o].at /\ Episode.phase = T[L].to
    BY <1>5, <1>6, <1>8
  <1>12. /\ NoneIn(o, RowsTo("moving")) => Episode.started = NoTime
         /\ \A n \in 1..L : OnlyOne(o, n, RowsTo("moving")) => Episode.started = T[n].motionSince
    BY <1>5, <1>6, <1>7, <1>9
  <1>13. /\ NoneIn(o, RowsFrom("moving")) => Episode.halted = NoTime
         /\ \A n \in 1..L : OnlyOne(o, n, RowsFrom("moving")) => Episode.halted = T[n].motionSince
    BY <1>5, <1>6, <1>7, <1>10
  <1>14. /\ NoneIn(o, RowsTo("emplaced")) => Episode.emplaced = NoTime
         /\ \A n \in 1..L : OnlyOne(o, n, RowsTo("emplaced")) => Episode.emplaced = T[n].at
    BY <1>5, <1>6, <1>7, <1>9
  <1> QED
    BY <1>1, <1>11, <1>12, <1>13, <1>14

LEMMA MoveFigures == MoveInv => MoveFiguresTrue
  <1> SUFFICES ASSUME MoveInv, HasEpisode(TransitionRows), mvArrived = Len(mvTransitions)
               PROVE  TimeShown = CASE mvPosture = "march_ordered" -> {mvNow - mvMove.ordered}
                                    [] mvPosture = "moving"        -> {mvMove.started - mvMove.ordered}
                                    [] mvPosture = "emplacing"     -> {}
                                    [] mvPosture = "emplaced"      -> IF mvMove.halted = NoTime THEN {}
                                                                      ELSE {mvMove.emplaced - mvMove.halted}
    BY DEF MoveFiguresTrue
  <1> DEFINE L == Len(mvTransitions)
             T == mvTransitions
  <1>1. /\ TransitionsOK /\ MoveTrace /\ L \in Nat /\ DOMAIN T = 1..L
        /\ \A n \in 1..L : T[n].at \in 1..MaxNow /\ T[n].motionSince \in 1..MaxNow
    BY RowsInOrder DEF MoveInv
  <1>2. NoTime = 0 /\ 0 \notin 1..MaxNow
    BY MoveAssumption DEF NoTime
  <1>3. T # << >>
    <2>1. SUFFICES ASSUME T = << >> PROVE FALSE
      OBVIOUS
    <2>2. TransitionRows = {}
      BY <2>1, <1>1 DEF TransitionRows
    <2> QED
      BY <2>2 DEF HasEpisode, LastOrder
  <1>4. PICK o \in DOMAIN T : T[o].to = "march_ordered" /\ T[o].at = mvMove.ordered /\ SinceOrder(o)
    BY <1>1, <1>3 DEF MoveTrace
  <1>5. o \in 1..L /\ o \in Nat
    BY <1>1, <1>4
  <1>6. CASE mvPosture = "march_ordered"
    <2>1. L = o
      BY <1>4, <1>6 DEF SinceOrder
    <2>2. NoneIn(o, RowsTo("march_ordered"))
      BY <1>1, <2>1 DEF NoneIn, RowsTo
    <2>3. Episode.ordered = mvMove.ordered /\ Episode.phase = "march_ordered"
      BY <1>1, <1>4, <2>1, <2>2, EpisodeIs
    <2> QED
      BY <1>6, <2>3 DEF TimeShown
  <1>7. CASE mvPosture = "emplaced" /\ L = o + 1
    <2>1. mvMove.halted = NoTime /\ T[o + 1].from = "march_ordered" /\ T[o + 1].to = "emplaced"
      BY <1>4, <1>5, <1>7 DEF SinceOrder, Goes
    <2>2. \A n \in DOMAIN T : n > o => n = o + 1
      BY <1>1, <1>5, <1>7
    <2>3. NoneIn(o, RowsTo("march_ordered")) /\ NoneIn(o, RowsFrom("moving"))
      BY <2>1, <2>2 DEF NoneIn, RowsTo, RowsFrom
    <2>4. Episode.halted = NoTime /\ Episode.phase = "emplaced"
      BY <1>1, <1>4, <1>7, <2>1, <2>3, EpisodeIs
    <2> QED
      BY <1>7, <2>1, <2>4 DEF TimeShown, EmplaceTime
  <1>8. CASE mvPosture = "moving"
    <2>1. L = o + 1 /\ T[o + 1].to = "moving" /\ T[o + 1].motionSince = mvMove.started
      BY <1>4, <1>8 DEF SinceOrder, Goes
    <2>2. o + 1 \in DOMAIN T /\ o + 1 > o /\ \A n \in DOMAIN T : n > o => n = o + 1
      BY <1>1, <1>5, <2>1
    <2>3. NoneIn(o, RowsTo("march_ordered"))
      BY <2>1, <2>2 DEF NoneIn, RowsTo
    <2>4. OnlyOne(o, o + 1, RowsTo("moving"))
      BY <2>1, <2>2 DEF OnlyOne, RowsTo
    <2>5. Episode.ordered = mvMove.ordered /\ Episode.phase = "moving" /\ Episode.started = mvMove.started
      BY <1>1, <1>4, <2>1, <2>2, <2>3, <2>4, EpisodeIs
    <2>6. mvMove.started # NoTime
      BY <1>1, <1>2, <2>1, <2>2
    <2> QED
      BY <1>8, <2>5, <2>6 DEF TimeShown, MarchOrderTime
  <1>9. CASE mvPosture = "emplacing"
    <2>1. L = o + 2 /\ Goes(o + 1, "march_ordered", "moving") /\ Goes(o + 2, "moving", "emplacing")
      BY <1>4, <1>9 DEF SinceOrder
    <2>2. \A n \in DOMAIN T : n > o => n = o + 1 \/ n = o + 2
      BY <1>1, <1>5, <2>1
    <2>3. NoneIn(o, RowsTo("march_ordered")) /\ NoneIn(o, RowsTo("emplaced"))
      BY <2>1, <2>2 DEF NoneIn, RowsTo, Goes
    <2>4. Episode.phase = "emplacing" /\ Episode.emplaced = NoTime
      BY <1>1, <1>4, <2>1, <2>3, EpisodeIs DEF Goes
    <2> QED
      BY <1>9, <2>4 DEF TimeShown, EmplaceTime
  <1>10. CASE mvPosture = "emplaced" /\ L # o + 1
    <2>1. /\ L = o + 3 /\ Goes(o + 1, "march_ordered", "moving") /\ Goes(o + 2, "moving", "emplacing")
          /\ T[o + 2].motionSince = mvMove.halted
          /\ Goes(o + 3, "emplacing", "emplaced") /\ T[o + 3].at = mvMove.emplaced
      BY <1>4, <1>10 DEF SinceOrder
    <2>2. /\ \A n \in DOMAIN T : n > o => n = o + 1 \/ n = o + 2 \/ n = o + 3
          /\ o + 2 \in DOMAIN T /\ o + 2 > o /\ o + 3 \in DOMAIN T /\ o + 3 > o
      BY <1>1, <1>5, <2>1
    <2>3. NoneIn(o, RowsTo("march_ordered"))
      BY <2>1, <2>2 DEF NoneIn, RowsTo, Goes
    <2>4. OnlyOne(o, o + 2, RowsFrom("moving")) /\ OnlyOne(o, o + 3, RowsTo("emplaced"))
      BY <2>1, <2>2 DEF OnlyOne, RowsFrom, RowsTo, Goes
    <2>5. Episode.phase = "emplaced" /\ Episode.halted = mvMove.halted /\ Episode.emplaced = mvMove.emplaced
      BY <1>1, <1>4, <2>1, <2>2, <2>3, <2>4, EpisodeIs DEF Goes
    <2>6. mvMove.halted # NoTime /\ mvMove.emplaced # NoTime
      BY <1>1, <1>2, <2>1, <2>2
    <2> QED
      BY <1>10, <2>5, <2>6 DEF TimeShown, EmplaceTime
  <1> QED
    BY <1>6, <1>7, <1>8, <1>9, <1>10 DEF MoveInv, LauncherOK, Phases

\* The instant the rounds are those of.
LEMMA AsOfIsAnInstant ==
  ASSUME MoveInv, HasEpisode(TransitionRows)
  PROVE  RoundsAsOf \in 1..mvNow
  <1>1. mvNow \in 1..MaxNow /\ mvNow \in 1..mvNow
    BY MoveAssumption DEF MoveInv, LauncherOK
  <1>2. PICK t : t \in LastOrder(TransitionRows)
    BY DEF HasEpisode
  <1>3. The(LastOrder(TransitionRows)) \in LastOrder(TransitionRows)
    BY <1>2 DEF The
  <1>4. The(LastOrder(TransitionRows)) \in TransitionRows
    BY <1>3 DEF LastOrder
  <1>5. \A n \in 1..mvArrived : mvTransitions[n].at \in 1..mvNow
    <2>1. mvArrived \in 0..Len(mvTransitions) /\ TransitionsOK
      BY DEF MoveInv
    <2> SUFFICES ASSUME NEW n \in 1..mvArrived PROVE mvTransitions[n].at \in 1..mvNow
      OBVIOUS
    <2>2. n \in 1..Len(mvTransitions)
      BY <2>1, RowsInOrder
    <2>3. mvTransitions[n].at \in 1..MaxNow /\ n \in DOMAIN mvTransitions
      BY <2>1, <2>2, RowsInOrder
    <2>4. mvTransitions[n].at <= mvNow
      BY <2>1, <2>3 DEF TransitionsOK
    <2> QED
      BY <1>1, <2>3, <2>4, MoveAssumption
  <1>6. Episode.ordered \in 1..mvNow
    BY <1>4, <1>5 DEF Episode, LatestEpisode, TransitionRows
  <1> QED
    BY <1>1, <1>6 DEF RoundsAsOf

-----------------------------------------------------------------------------
(* The move panel: the rounds. *)

RoundEvent == [t : 1..MaxNow, kind : {"fire", "resupply"}]

\* What has been expended after each row.
AfterRow(kind, spent) == IF kind = "fire" THEN spent + 1 ELSE IF spent = 0 THEN 0 ELSE spent - 1
Spends(e, rounds) ==
    /\ e \in [0..Len(rounds) -> 0..Declared] /\ e[0] = 0
    /\ \A i \in 1..Len(rounds) : e[i] = AfterRow(rounds[i].kind, e[i - 1])

\* The first c rows are those written up to an instant.
WrittenBy(t, c, rounds) == c \in 0..Len(rounds) /\ \A i \in 1..Len(rounds) : i <= c <=> rounds[i].t <= t

StockKept(e, rounds, stock, now) ==
    \A t \in 1..now : \E c \in 0..Len(rounds) : WrittenBy(t, c, rounds) /\ stock[t] = Declared - e[c]

RoundsInv ==
    /\ mvRounds \in Seq(RoundEvent) /\ mvHere \subseteq DOMAIN mvRounds
    /\ mvNow \in 1..MaxNow /\ \A i \in DOMAIN mvRounds : mvRounds[i].t <= mvNow
    /\ \A i, j \in DOMAIN mvRounds : i < j =>
          /\ mvRounds[i].t <= mvRounds[j].t
          /\ mvRounds[i].t = mvRounds[j].t /\ mvRounds[j].kind = "fire" => mvRounds[i].kind = "fire"
    /\ mvStock \in Seq(0..Declared) /\ Len(mvStock) = mvNow
    /\ \E e : Spends(e, mvRounds) /\ StockKept(e, mvRounds, mvStock, mvNow)

LEMMA RoundsInvInit == MoveInit => RoundsInv
  <1> SUFFICES ASSUME MoveInit PROVE RoundsInv
    OBVIOUS
  <1>1. MaxNow \in Nat /\ 1 \in 1..MaxNow /\ Declared \in 0..Declared /\ Declared \in Nat
    BY MoveAssumption
  <1>2. mvRounds = << >> /\ mvHere = {} /\ mvNow = 1 /\ mvStock = <<Declared>>
    BY DEF MoveInit
  <1>3. Len(mvRounds) = 0 /\ DOMAIN mvRounds = {} /\ mvStock \in Seq(0..Declared) /\ Len(mvStock) = 1 /\ mvStock[1] = Declared
    BY <1>1, <1>2
  <1> DEFINE e == [i \in 0..0 |-> 0]
  <1>4. e[0] = 0 /\ e \in [0..0 -> 0..Declared]
    BY <1>1
  <1> HIDE DEF e
  <1>5. Spends(e, mvRounds)
    BY <1>3, <1>4 DEF Spends
  <1>6. \A t \in 1..mvNow : t = 1
    BY <1>2
  <1>7. WrittenBy(1, 0, mvRounds) /\ mvStock[1] = Declared - e[0]
    BY <1>1, <1>3, <1>4 DEF WrittenBy
  <1>8. StockKept(e, mvRounds, mvStock, mvNow)
    BY <1>3, <1>6, <1>7 DEF StockKept
  <1> QED
    BY <1>1, <1>2, <1>3, <1>5, <1>8 DEF RoundsInv

\* A row written now comes after the others and changes only the stock of now.
LEMMA RoundTaken ==
  ASSUME RoundsInv, NEW kind \in {"fire", "resupply"},
         mvRounds' = Append(mvRounds, [t |-> mvNow, kind |-> kind]),
         kind = "fire" => \A i \in DOMAIN mvRounds : mvRounds[i].t = mvNow => mvRounds[i].kind = "fire",
         kind = "fire" => mvStock[mvNow] > 0,
         mvStock' = [mvStock EXCEPT ![mvNow] = IF kind = "fire" THEN @ - 1 ELSE IF @ < Declared THEN @ + 1 ELSE @],
         UNCHANGED <<mvNow, mvHere>>
  PROVE  RoundsInv'
  <1> DEFINE N == Len(mvRounds)
             new == [t |-> mvNow, kind |-> kind]
             old == mvStock[mvNow]
             left == IF kind = "fire" THEN old - 1 ELSE IF old < Declared THEN old + 1 ELSE old
  <1>1. N \in Nat /\ DOMAIN mvRounds = 1..N /\ mvRounds \in Seq(RoundEvent) /\ mvNow \in 1..MaxNow /\ mvNow \in Nat
    BY MoveAssumption DEF RoundsInv
  <1>2. new \in RoundEvent
    BY <1>1 DEF RoundEvent
  <1>3. /\ mvRounds' \in Seq(RoundEvent) /\ Len(mvRounds') = N + 1 /\ DOMAIN mvRounds' = 1..(N + 1)
        /\ \A i \in 1..N : mvRounds'[i] = mvRounds[i]
        /\ mvRounds'[N + 1] = new
    BY <1>1, <1>2
  <1>4. \A i \in 1..N : mvRounds[i].t \in Nat /\ mvRounds[i].t <= mvNow
    <2> SUFFICES ASSUME NEW i \in 1..N PROVE mvRounds[i].t \in Nat /\ mvRounds[i].t <= mvNow
      OBVIOUS
    <2>1. mvRounds[i] \in RoundEvent
      BY <1>1
    <2>2. mvRounds[i].t \in 1..MaxNow
      BY <2>1 DEF RoundEvent
    <2> QED
      BY <1>1, <2>2 DEF RoundsInv
  <1>5. \A i \in 1..(N + 1) : i \in 1..N \/ i = N + 1
    BY <1>1
  <1>6. new.t = mvNow /\ new.kind = kind
    OBVIOUS
  <1>7. mvStock \in Seq(0..Declared) /\ Len(mvStock) = mvNow /\ DOMAIN mvStock = 1..mvNow /\ Declared \in Nat /\ mvNow \in 1..mvNow
    BY <1>1, MoveAssumption DEF RoundsInv
  <1>8. old \in 0..Declared
    BY <1>7
  <1>9. left \in 0..Declared
    BY <1>7, <1>8
  <1>10. mvStock' = [mvStock EXCEPT ![mvNow] = left]
    OBVIOUS
  <1>11. PICK e : Spends(e, mvRounds) /\ StockKept(e, mvRounds, mvStock, mvNow)
    BY DEF RoundsInv
  <1> HIDE DEF N, new, old, left
  <1>12. /\ mvStock' \in Seq(0..Declared) /\ Len(mvStock') = mvNow /\ mvStock'[mvNow] = left
         /\ \A t \in 1..mvNow : t # mvNow => mvStock'[t] = mvStock[t]
    BY <1>7, <1>9, <1>10
  <1>13. \A i \in 1..(N + 1) : mvRounds'[i].t <= mvNow
    BY <1>1, <1>3, <1>4, <1>5, <1>6
  <1>14. ASSUME NEW i \in 1..(N + 1), NEW j \in 1..(N + 1), i < j
         PROVE  /\ mvRounds'[i].t <= mvRounds'[j].t
                /\ mvRounds'[i].t = mvRounds'[j].t /\ mvRounds'[j].kind = "fire" => mvRounds'[i].kind = "fire"
    <2>1. i \in 1..N
      BY <1>1, <1>14
    <2>2. CASE j \in 1..N
      BY <1>1, <1>3, <1>14, <2>1, <2>2 DEF RoundsInv
    <2>3. CASE j = N + 1
      BY <1>1, <1>3, <1>4, <1>6, <2>1, <2>3
    <2> QED
      BY <1>5, <2>2, <2>3
  <1>15. e \in [0..N -> 0..Declared] /\ e[0] = 0 /\ \A i \in 1..N : e[i] = AfterRow(mvRounds[i].kind, e[i - 1])
    BY <1>11 DEF Spends, N
  \* All the rows there were had been written by now.
  <1>16. old = Declared - e[N]
    <2>1. PICK c \in 0..N : WrittenBy(mvNow, c, mvRounds) /\ old = Declared - e[c]
      BY <1>7, <1>11 DEF StockKept, N, old
    <2>2. \A i \in 1..N : i <= c
      BY <1>4, <2>1 DEF WrittenBy, N
    <2>3. c = N
      <3>1. N = 0 \/ N \in 1..N
        BY <1>1
      <3>2. N = 0 \/ N <= c
        BY <2>2, <3>1
      <3>3. c \in Nat /\ c <= N
        BY <1>1, <2>1
      <3> QED
        BY ONLY <1>1, <3>2, <3>3
    <2> QED
      BY <2>1, <2>3
  <1>17. e[N] \in 0..Declared /\ left = Declared - AfterRow(kind, e[N]) /\ AfterRow(kind, e[N]) \in 0..Declared
    <2>1. e[N] \in 0..Declared
      BY <1>1, <1>15
    <2>2. kind = "fire" => old > 0
      BY DEF old
    <2>3. left = IF kind = "fire" THEN old - 1 ELSE IF old < Declared THEN old + 1 ELSE old
      BY DEF left
    <2>4. PICK x \in 0..Declared, y \in 0..Declared : x = e[N] /\ y = old
      BY <1>8, <2>1
    <2>5. y = Declared - x
      BY <1>16, <2>4
    <2>6. CASE kind = "fire"
      <3>1. AfterRow(kind, x) = x + 1 /\ left = y - 1 /\ y > 0
        BY <2>2, <2>3, <2>4, <2>6 DEF AfterRow
      <3>2. y - 1 = Declared - (x + 1) /\ x + 1 \in 0..Declared
        BY <1>7, <2>5, <3>1
      <3> QED
        BY <2>1, <2>4, <3>1, <3>2
    <2>7. CASE kind # "fire"
      <3>1. AfterRow(kind, x) = (IF x = 0 THEN 0 ELSE x - 1) /\ left = IF y < Declared THEN y + 1 ELSE y
        BY <2>3, <2>4, <2>7 DEF AfterRow
      <3>2. CASE x = 0
        <4>1. y = Declared /\ 0 \in 0..Declared /\ Declared = Declared - 0
          BY <1>7, <2>5, <3>2
        <4> QED
          BY <2>1, <2>4, <3>1, <3>2, <4>1
      <3>3. CASE x # 0
        <4>1. y < Declared /\ y + 1 = Declared - (x - 1) /\ x - 1 \in 0..Declared
          BY <1>7, <2>5, <3>3
        <4> QED
          BY <2>1, <2>4, <3>1, <3>3, <4>1
      <3> QED
        BY <3>2, <3>3
    <2> QED
      BY <2>6, <2>7
  <1> DEFINE next == AfterRow(kind, e[N])
             d == [i \in 0..(N + 1) |-> IF i = N + 1 THEN next ELSE e[i]]
  <1> HIDE DEF next
  <1>18. d[N + 1] = next /\ (\A i \in 0..N : d[i] = e[i]) /\ d \in [0..(N + 1) -> 0..Declared]
    <2>1. next \in 0..Declared
      BY <1>17 DEF next
    <2>2. \A i \in 0..(N + 1) : i # N + 1 => i \in 0..N
      BY <1>1
    <2>3. N + 1 \in 0..(N + 1) /\ \A i \in 0..N : i \in 0..(N + 1) /\ i # N + 1
      BY <1>1
    <2> QED
      BY <1>15, <2>1, <2>2, <2>3
  <1> HIDE DEF d
  <1>19. Spends(d, mvRounds')
    <2>1. ASSUME NEW i \in 1..(N + 1) PROVE d[i] = AfterRow(mvRounds'[i].kind, d[i - 1])
      <3>1. CASE i \in 1..N
        <4>1. i \in 0..N /\ i - 1 \in 0..N
          BY <1>1, <3>1
        <4> QED
          BY <1>3, <1>15, <1>18, <3>1, <4>1
      <3>2. CASE i = N + 1
        <4>1. i - 1 = N /\ N \in 0..N
          BY <1>1, <3>2
        <4> QED
          BY <1>3, <1>6, <1>18, <3>2, <4>1 DEF next
      <3> QED
        BY <1>5, <3>1, <3>2
    <2>2. d[0] = 0
      BY <1>1, <1>15, <1>18
    <2> QED
      BY <1>3, <1>18, <2>1, <2>2 DEF Spends
  <1>20. StockKept(d, mvRounds', mvStock', mvNow)
    <2> SUFFICES ASSUME NEW t \in 1..mvNow
                 PROVE  \E c \in 0..(N + 1) : WrittenBy(t, c, mvRounds') /\ mvStock'[t] = Declared - d[c]
      BY <1>3 DEF StockKept
    <2>1. CASE t = mvNow
      <3>1. N + 1 \in 0..(N + 1) /\ \A i \in 1..(N + 1) : i <= N + 1
        BY <1>1
      <3>2. WrittenBy(t, N + 1, mvRounds')
        BY <1>3, <1>13, <2>1, <3>1 DEF WrittenBy
      <3> QED
        BY <1>12, <1>17, <1>18, <2>1, <3>1, <3>2 DEF next
    <2>2. CASE t # mvNow
      <3>1. PICK c \in 0..N : WrittenBy(t, c, mvRounds) /\ mvStock[t] = Declared - e[c]
        BY <1>11 DEF StockKept, N
      <3>2. c \in 0..(N + 1) /\ ~(N + 1 <= c) /\ ~(mvNow <= t)
        BY <1>1, <2>2, <3>1
      <3>3. \A i \in 1..N : i <= c <=> mvRounds'[i].t <= t
        BY <1>3, <3>1 DEF WrittenBy, N
      <3>4. WrittenBy(t, c, mvRounds')
        BY <1>3, <1>5, <1>6, <3>2, <3>3 DEF WrittenBy
      <3> QED
        BY <1>12, <1>18, <2>2, <3>1, <3>2, <3>4
    <2> QED
      BY <2>1, <2>2
  <1>21. mvHere' \subseteq DOMAIN mvRounds'
    BY <1>1, <1>3 DEF RoundsInv
  <1> QED
    BY <1>1, <1>3, <1>12, <1>13, <1>14, <1>19, <1>20, <1>21 DEF RoundsInv

LEMMA RoundsInvStep == RoundsInv /\ [MoveNext]_moveVars => RoundsInv'
  <1> SUFFICES ASSUME RoundsInv, [MoveNext]_moveVars PROVE RoundsInv'
    OBVIOUS
  <1>1. CASE UNCHANGED <<mvNow, mvRounds, mvStock>> /\ mvHere' \subseteq DOMAIN mvRounds
    BY <1>1 DEF RoundsInv
  <1>2. CASE Tick
    <2> DEFINE N == Len(mvRounds)
    <2>1. /\ mvNow < MaxNow /\ mvNow' = mvNow + 1 /\ mvStock' = Append(mvStock, mvStock[mvNow])
          /\ UNCHANGED <<mvRounds, mvHere>>
      BY <1>2 DEF Tick
    <2>2. /\ N \in Nat /\ DOMAIN mvRounds = 1..N /\ mvNow \in 1..MaxNow /\ mvNow \in Nat /\ mvNow' \in 1..MaxNow
          /\ mvStock \in Seq(0..Declared) /\ Len(mvStock) = mvNow /\ mvNow \in 1..mvNow
      BY <2>1, MoveAssumption DEF RoundsInv
    <2>3. mvStock[mvNow] \in 0..Declared
      <3>1. mvStock \in Seq(0..Declared) /\ Len(mvStock) = mvNow /\ DOMAIN mvStock = 1..mvNow
        BY DEF RoundsInv
      <3>2. mvNow \in 1..mvNow /\ mvNow \in Nat /\ Declared \in Nat
        BY <2>2, MoveAssumption
      <3> QED
        BY ONLY <3>1, <3>2
    <2>4. /\ mvStock' \in Seq(0..Declared) /\ Len(mvStock') = mvNow' /\ mvStock'[mvNow + 1] = mvStock[mvNow]
          /\ \A t \in 1..mvNow : mvStock'[t] = mvStock[t]
      BY <2>1, <2>2, <2>3
    <2>5. \A i \in 1..N : mvRounds[i].t <= mvNow /\ mvRounds[i].t <= mvNow'
      <3> SUFFICES ASSUME NEW i \in 1..N PROVE mvRounds[i].t <= mvNow /\ mvRounds[i].t <= mvNow'
        OBVIOUS
      <3>1. mvRounds[i] \in RoundEvent
        BY DEF RoundsInv
      <3>2. mvRounds[i].t \in 1..MaxNow
        BY <3>1 DEF RoundEvent
      <3>3. mvRounds[i].t <= mvNow
        BY <2>2 DEF RoundsInv
      <3> QED
        BY <2>1, <2>2, <3>2, <3>3, MoveAssumption
    <2>6. PICK e : Spends(e, mvRounds) /\ StockKept(e, mvRounds, mvStock, mvNow)
      BY DEF RoundsInv
    <2>7. StockKept(e, mvRounds, mvStock', mvNow')
      <3> SUFFICES ASSUME NEW t \in 1..mvNow'
                   PROVE  \E c \in 0..Len(mvRounds) : WrittenBy(t, c, mvRounds) /\ mvStock'[t] = Declared - e[c]
        BY DEF StockKept
      <3>1. CASE t \in 1..mvNow
        BY <2>4, <2>6, <3>1 DEF StockKept
      <3>2. CASE t = mvNow + 1
        <4>1. PICK c \in 0..Len(mvRounds) : WrittenBy(mvNow, c, mvRounds) /\ mvStock[mvNow] = Declared - e[c]
          BY <2>2, <2>6 DEF StockKept
        <4>2. WrittenBy(t, c, mvRounds)
          BY <2>1, <2>5, <3>2, <4>1 DEF WrittenBy
        <4> QED
          BY <2>4, <3>2, <4>1, <4>2
      <3> QED
        BY <2>1, <2>2, <3>1, <3>2
    <2> QED
      BY <2>1, <2>2, <2>4, <2>5, <2>6, <2>7 DEF RoundsInv
  <1>3. CASE Fires
    <2>1. /\ mvStock[mvNow] > 0 /\ \A r \in DOMAIN mvRounds : mvRounds[r].t = mvNow => mvRounds[r].kind = "fire"
          /\ mvRounds' = Append(mvRounds, [t |-> mvNow, kind |-> "fire"])
          /\ mvStock' = [mvStock EXCEPT ![mvNow] = @ - 1]
          /\ UNCHANGED <<mvNow, mvHere>>
      BY <1>3 DEF Fires
    <2> QED
      BY <2>1, RoundTaken
  <1>4. CASE Resupplied
    <2>1. /\ mvRounds' = Append(mvRounds, [t |-> mvNow, kind |-> "resupply"])
          /\ mvStock' = [mvStock EXCEPT ![mvNow] = IF @ < Declared THEN @ + 1 ELSE @]
          /\ UNCHANGED <<mvNow, mvHere>>
      BY <1>4 DEF Resupplied
    <2> QED
      BY <2>1, RoundTaken
  <1>5. CASE RoundArrives
    BY <1>1, <1>5 DEF RoundArrives, RoundsInv
  <1>6. mvHere \subseteq DOMAIN mvRounds
    BY DEF RoundsInv
  <1>7. CASE MarchOrdered
    BY <1>1, <1>6, <1>7 DEF MarchOrdered, Transition
  <1>8. CASE MotionTurns
    BY <1>1, <1>6, <1>8 DEF MotionTurns
  <1>9. CASE Moves
    BY <1>1, <1>6, <1>9 DEF Moves, Transition
  <1>10. CASE Halts
    BY <1>1, <1>6, <1>10 DEF Halts, Transition
  <1>11. CASE Emplaced
    BY <1>1, <1>6, <1>11 DEF Emplaced, Transition
  <1>12. CASE TransitionArrives
    BY <1>1, <1>6, <1>12 DEF TransitionArrives
  <1>13. CASE UNCHANGED moveVars
    BY <1>1, <1>6, <1>13 DEF moveVars
  <1> QED
    BY <1>2, <1>3, <1>4, <1>5, <1>7, <1>8, <1>9, <1>10, <1>11, <1>12, <1>13 DEF MoveNext

\* The replay takes the rows in the order they were written.
RowAt(i) == [t |-> mvRounds[i].t, kind |-> mvRounds[i].kind, id |-> i]

LEMMA RowOrder ==
  ASSUME RoundsInv
  PROVE  \A i, j \in DOMAIN mvRounds : RowBefore(RowAt(i), RowAt(j)) <=> i < j
  <1> SUFFICES ASSUME NEW i \in DOMAIN mvRounds, NEW j \in DOMAIN mvRounds
               PROVE  RowBefore(RowAt(i), RowAt(j)) <=> i < j
    OBVIOUS
  <1>1. mvRounds[i] \in RoundEvent /\ mvRounds[j] \in RoundEvent /\ i \in Nat /\ j \in Nat
    BY DEF RoundsInv
  <1>2. PICK s \in Nat, t \in Nat : s = mvRounds[i].t /\ t = mvRounds[j].t
    BY <1>1, MoveAssumption DEF RoundEvent
  <1>3. PICK k \in {"fire", "resupply"}, l \in {"fire", "resupply"} : k = mvRounds[i].kind /\ l = mvRounds[j].kind
    BY <1>1 DEF RoundEvent
  <1>4. /\ i < j => s <= t /\ (s = t /\ l = "fire" => k = "fire")
        /\ j < i => t <= s /\ (s = t /\ k = "fire" => l = "fire")
    BY <1>2, <1>3 DEF RoundsInv
  <1>5. RowBefore(RowAt(i), RowAt(j)) <=> s < t \/ (s = t /\ k = "fire" /\ l = "resupply") \/ (s = t /\ k = l /\ i < j)
    BY <1>2, <1>3 DEF RowBefore, RowAt
  <1> HIDE DEF RowAt
  <1> QED
    BY <1>1, <1>2, <1>3, <1>4, <1>5

LEMMA LastRowIs ==
  ASSUME RoundsInv, NEW T \in SUBSET {RowAt(i) : i \in DOMAIN mvRounds}, NEW k \in DOMAIN mvRounds,
         RowAt(k) \in T, \A j \in DOMAIN mvRounds : RowAt(j) \in T => j <= k
  PROVE  LastRow(T) = RowAt(k)
  <1>1. DOMAIN mvRounds \subseteq Nat
    BY DEF RoundsInv
  <1>2. \A i, j \in DOMAIN mvRounds : RowAt(i) = RowAt(j) => i = j
    BY DEF RowAt
  <1>3. \A s \in T \ {RowAt(k)} : RowBefore(s, RowAt(k))
    <2> SUFFICES ASSUME NEW s \in T \ {RowAt(k)} PROVE RowBefore(s, RowAt(k))
      OBVIOUS
    <2>1. PICK j \in DOMAIN mvRounds : s = RowAt(j)
      OBVIOUS
    <2>2. j < k
      BY <1>1, <2>1
    <2> QED
      BY <2>1, <2>2, RowOrder
  <1>4. ASSUME NEW r \in T, \A s \in T \ {r} : RowBefore(s, r) PROVE r = RowAt(k)
    <2>1. PICK j \in DOMAIN mvRounds : r = RowAt(j)
      OBVIOUS
    <2>2. j <= k
      BY <2>1
    <2>3. j = k \/ k < j
      BY <1>2, <1>4, <2>1, RowOrder
    <2> QED
      BY <1>1, <2>1, <2>2, <2>3
  <1> QED
    BY <1>3, <1>4 DEF LastRow

LEMMA RoundsStock == MoveInv /\ RoundsInv => RoundsAreTheStock
  <1> SUFFICES ASSUME MoveInv, RoundsInv, HasEpisode(TransitionRows),
                      {r \in DOMAIN mvRounds : mvRounds[r].t <= RoundsAsOf} \subseteq mvHere
               PROVE  RoundsShown = mvStock[RoundsAsOf]
    BY DEF RoundsAreTheStock
  <1> DEFINE N == Len(mvRounds)
             S == {r \in RoundRows : r.t <= RoundsAsOf}
             step(r, spent) == IF r.kind = "fire" THEN spent + 1 ELSE IF spent = 0 THEN 0 ELSE spent - 1
             Is(it) == it = [T \in SUBSET S |-> IF T = {} THEN 0 ELSE step(LastRow(T), it[T \ {LastRow(T)}])]
             iter == CHOOSE it : Is(it)
             ch == [T \in SUBSET S |-> LastRow(T)]
             o == [p \in S \X Nat |-> step(p[1], p[2])]
  <1>1. RoundsShown = Declared - iter[S]
    BY DEF RoundsShown, Remaining, Replay, MapThenFoldSet
  <1>2. N \in Nat /\ DOMAIN mvRounds = 1..N /\ mvHere \subseteq 1..N /\ RoundsAsOf \in 1..mvNow
    BY AsOfIsAnInstant DEF RoundsInv
  <1>3. PICK e : Spends(e, mvRounds) /\ StockKept(e, mvRounds, mvStock, mvNow)
    BY DEF RoundsInv
  <1>4. PICK c \in 0..N : WrittenBy(RoundsAsOf, c, mvRounds) /\ mvStock[RoundsAsOf] = Declared - e[c]
    BY <1>2, <1>3 DEF StockKept
  <1>5. \A i \in 1..N : i <= c <=> mvRounds[i].t <= RoundsAsOf
    BY <1>4 DEF WrittenBy
  <1>6. \A i \in 1..c : i \in mvHere
    BY <1>2, <1>4, <1>5
  <1>7. S = {RowAt(i) : i \in 1..c}
    <2>1. ASSUME NEW i \in 1..c PROVE RowAt(i) \in S
      <3>1. i \in 1..N /\ i <= c /\ i \in mvHere
        BY <1>2, <1>4, <1>6
      <3>2. RowAt(i) \in RoundRows /\ RowAt(i).t = mvRounds[i].t
        BY <3>1 DEF RoundRows, RowAt
      <3> QED
        BY <1>5, <3>1, <3>2
    <2>2. ASSUME NEW r \in S PROVE \E i \in 1..c : r = RowAt(i)
      <3>1. PICK i \in mvHere : r = RowAt(i)
        BY DEF RoundRows, RowAt
      <3>2. i \in 1..N /\ mvRounds[i].t <= RoundsAsOf
        BY <1>2, <3>1 DEF RowAt
      <3>3. i \in 1..c
        BY <1>2, <1>4, <1>5, <3>2
      <3> QED
        BY <3>1, <3>3
    <2> QED
      BY <2>1, <2>2
  <1> HIDE DEF S
  <1>8. S \subseteq {RowAt(i) : i \in DOMAIN mvRounds} /\ IsFiniteSet(S)
    <2>1. \A i \in 1..c : i \in DOMAIN mvRounds
      BY <1>2, <1>4
    <2>2. IsFiniteSet(1..c)
      BY <1>2, <1>4, FS_Interval
    <2> DEFINE row == [i \in 1..c |-> RowAt(i)]
    <2>3. S = {row[i] : i \in 1..c}
      BY <1>7
    <2> HIDE DEF row
    <2>4. IsFiniteSet(S)
      BY <2>2, <2>3, ImageFinite
    <2> QED
      BY <1>7, <2>1, <2>4
  <1>9. ASSUME NEW r \in S, NEW x \in Nat PROVE step(r, x) \in Nat
    OBVIOUS
  <1>10. \A T \in SUBSET S : T # {} => LastRow(T) \in T
    <2> SUFFICES ASSUME NEW T \in SUBSET S, T # {} PROVE LastRow(T) \in T
      OBVIOUS
    <2> DEFINE I == {i \in 1..c : RowAt(i) \in T}
    <2>1. I # {} /\ I \subseteq Nat /\ I \subseteq 1..c
      BY <1>7
    <2>2. IsFiniteSet(I)
      <3>1. IsFiniteSet(1..c)
        BY <1>2, <1>4, FS_Interval
      <3> QED
        BY <2>1, <3>1, FS_Subset
    <2> HIDE DEF I
    <2>3. PICK k \in I : \A j \in I : j <= k
      BY <2>1, <2>2, LargestOf
    <2>4. k \in DOMAIN mvRounds /\ RowAt(k) \in T
      BY <1>2, <1>4, <2>1, <2>3 DEF I
    <2>5. ASSUME NEW j \in DOMAIN mvRounds, RowAt(j) \in T PROVE j \in I
      <3>1. PICK i \in 1..c : RowAt(j) = RowAt(i)
        BY <1>7, <2>5
      <3>2. i = j
        BY <3>1 DEF RowAt
      <3> QED
        BY <2>5, <3>1, <3>2 DEF I
    <2>6. LastRow(T) = RowAt(k)
      BY <1>8, <2>3, <2>4, <2>5, LastRowIs
    <2> QED
      BY <2>4, <2>6
  <1>11. \A T \in SUBSET S : ch[T] = LastRow(T)
    OBVIOUS
  <1>12. o \in [S \X Nat -> Nat] /\ \A r \in S, x \in Nat : o[<<r, x>>] = step(r, x)
    <2> HIDE DEF step
    <2> QED
      BY <1>9
  <1> HIDE DEF ch, o, step
  <1>13. PICK f \in [SUBSET S -> Nat] : SetFold(f, SUBSET S, ch, 0, o)
    <2>1. \A T \in SUBSET S : T # {} => ch[T] \in T
      BY <1>10, <1>11
    <2> QED
      BY <1>8, <1>12, <2>1, SetFoldExists
  <1>14. \A T \in SUBSET S : f[T] = IF T = {} THEN 0 ELSE step(LastRow(T), f[T \ {LastRow(T)}])
    <2> SUFFICES ASSUME NEW T \in SUBSET S
                 PROVE  f[T] = IF T = {} THEN 0 ELSE step(LastRow(T), f[T \ {LastRow(T)}])
      OBVIOUS
    <2>1. CASE T = {}
      BY <1>13, <2>1 DEF SetFold
    <2>2. CASE T # {}
      <3>1. PICK l \in S : l = LastRow(T) /\ ch[T] = l /\ T \ {l} \in SUBSET S
        BY <1>10, <1>11, <2>2
      <3>2. f[T \ {l}] \in Nat /\ f[T] = o[<<l, f[T \ {l}]>>]
        BY <1>13, <2>2, <3>1 DEF SetFold
      <3> QED
        BY <1>12, <2>2, <3>1, <3>2
    <2> QED
      BY <2>1, <2>2
  <1>15. Is(iter)
    <2>1. Is(f)
      BY <1>14
    <2> QED
      BY <2>1
  <1> HIDE DEF iter
  <1>16. iter[{}] = 0 /\ \A T \in SUBSET S : T # {} => iter[T] = step(LastRow(T), iter[T \ {LastRow(T)}])
    BY <1>15
  <1> HIDE DEF Is
  <1> DEFINE P(k) == {RowAt(i) : i \in 1..k}
             K == {k \in 0..c : iter[P(k)] = e[k]}
  <1>17. 0 \in K
    <2>1. P(0) = {}
      OBVIOUS
    <2>2. e[0] = 0 /\ 0 \in 0..c
      BY <1>3, <1>4 DEF Spends
    <2> QED
      BY <1>16, <2>1, <2>2
  <1>18. ASSUME NEW k \in 0..(c - 1), k \in K PROVE k + 1 \in K
    <2>1. k \in Nat /\ k + 1 \in 1..c /\ k + 1 \in 1..N /\ (k + 1) - 1 = k
      BY <1>2, <1>4
    <2>2. P(k + 1) \in SUBSET S /\ RowAt(k + 1) \in P(k + 1)
      BY <1>7, <2>1
    <2>3. ASSUME NEW j \in DOMAIN mvRounds, RowAt(j) \in P(k + 1) PROVE j <= k + 1
      <3>1. PICK i \in 1..(k + 1) : RowAt(j) = RowAt(i)
        BY <2>3
      <3>2. i = j
        BY <3>1 DEF RowAt
      <3> QED
        BY <2>1, <3>1, <3>2
    <2>4. P(k + 1) \ {RowAt(k + 1)} = P(k)
      <3>1. \A i \in 1..(k + 1) : i = k + 1 \/ i \in 1..k
        BY <2>1
      <3>2. \A i \in 1..k : i \in 1..(k + 1) /\ RowAt(i) # RowAt(k + 1)
        BY <2>1 DEF RowAt
      <3> QED
        BY <3>1, <3>2
    <2> HIDE DEF P
    <2>5. LastRow(P(k + 1)) = RowAt(k + 1)
      <3>1. P(k + 1) \in SUBSET {RowAt(i) : i \in DOMAIN mvRounds} /\ k + 1 \in DOMAIN mvRounds
        BY <1>2, <1>8, <2>1, <2>2
      <3> QED
        BY <2>2, <2>3, <3>1, LastRowIs
    <2>6. iter[P(k + 1)] = step(RowAt(k + 1), e[k])
      BY <1>16, <1>18, <2>2, <2>4, <2>5
    <2>7. e[k + 1] = AfterRow(mvRounds[k + 1].kind, e[k])
      BY <1>3, <2>1 DEF Spends
    <2> QED
      BY <2>1, <2>6, <2>7 DEF step, AfterRow, RowAt
  <1>19. c \in Nat /\ c \in 0..c
    BY <1>2, <1>4
  <1> HIDE DEF K
  <1>20. 0..c \subseteq K
    BY <1>17, <1>18, <1>19, UpTo
  <1>21. iter[P(c)] = e[c]
    BY <1>19, <1>20 DEF K
  <1> QED
    BY <1>1, <1>4, <1>7, <1>21
=============================================================================
