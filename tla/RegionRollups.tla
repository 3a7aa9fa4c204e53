------------------------------ MODULE RegionRollups ------------------------------
(***************************************************************************)
(* The theater's figures, summed on the page (HqApp.tsx,                   *)
(* useRegionFleetSummary.ts, useRegionTopFactors.ts,                       *)
(* useRegionWearTrends.ts).  The aggregator emits a row per region and     *)
(* releasability class; the hooks merge the rows of a region, and the page *)
(* those of the regions, on every render, a snapshot's or another's.  A    *)
(* snapshot's mapped rows are kept until the next (useTableShape), and are *)
(* what a render merges.                                                   *)
(*                                                                         *)
(* A row is its place in the shape's order; the classes partition the      *)
(* assets.  A mean is kept as its weighted sum.  Left out: the cut to the  *)
(* ten largest factors, their severities, and the terminal counts, which   *)
(* are summed as the others are.                                           *)
(***************************************************************************)
EXTENDS Naturals, Sequences, SequencesExt, FiniteSetsExt

CONSTANTS
    RollupRows,     \* the rows of the tables, numbers in the shape's order
    RollupRegion,   \* the region of each
    FleetCounts,    \* what a row of region_fleet_summary may say: [counts, observed]
    FactorCounts,   \* what one of region_top_factors may: its factors' counts
    WearLists,      \* what one of region_wear_trends may: a sequence of components
    MaxEmitted, MaxRerenders \* bounds: rows that the aggregator emits, renders without one

CountNames == {"nominal", "degraded", "critical", "non_operational", "asset_count"}

IsComponent(c) == c \in [id : {c.id}, unit : {c.unit}, rul : Nat, assets : Nat]

ASSUME RollupAssumption ==
    /\ IsFiniteSet(RollupRows) /\ RollupRows \subseteq Nat /\ DOMAIN RollupRegion = RollupRows
    /\ \A row \in FleetCounts : row.counts \in [CountNames -> Nat] /\ row.observed \in Nat
    /\ \A row \in FactorCounts : row \in [DOMAIN row -> Nat]
    /\ \A list \in WearLists : list \in Seq(ToSet(list)) /\ \A c \in ToSet(list) : IsComponent(c)
    /\ MaxEmitted \in Nat /\ MaxRerenders \in Nat

VARIABLES
    rrFleet, rrFactors, rrWear, \* the tables' rows, those that were emitted (external)
    rrMapped,   \* useTableShape: the mapped rows of region_top_factors
    rrShown,    \* useRegionTopFactors: what the last render made of them, by region
    rrEmitted, rrRerenders

rollupVars == <<rrFleet, rrFactors, rrWear, rrMapped, rrShown, rrEmitted, rrRerenders>>

RollupRegions == {RollupRegion[n] : n \in RollupRows}
OfRegion(rows, r) == {n \in DOMAIN rows : RollupRegion[n] = r}
NamedIn(rows, r) == UNION {DOMAIN rows[n] : n \in OfRegion(rows, r)}

RollupsTypeOK ==
    /\ DOMAIN rrFleet \cup DOMAIN rrFactors \cup DOMAIN rrWear \subseteq RollupRows
    /\ DOMAIN rrMapped = DOMAIN rrFactors /\ DOMAIN rrShown = RollupRegions
    /\ \A n \in DOMAIN rrMapped : DOMAIN rrMapped[n] = DOMAIN rrFactors[n]
    /\ rrEmitted \in 0..MaxEmitted /\ rrRerenders \in 0..MaxRerenders

RollupsInit ==
    /\ rrFleet = << >> /\ rrFactors = << >> /\ rrWear = << >>
    /\ rrMapped = << >> /\ rrShown = [r \in RollupRegions |-> << >>]
    /\ rrEmitted = 0 /\ rrRerenders = 0

-----------------------------------------------------------------------------
(* The factors of a region. *)

\* A factor's count over rows, those that have it.
CountOf(rows, ns, f) == SumFunction([n \in {m \in ns : f \in DOMAIN rows[m]} |-> rows[n][f]])

\* useRegionTopFactors: the counts are added up, of the first row's factors in that
\* row's own objects.
MergedFactors(rows, r) == [f \in NamedIn(rows, r) |-> CountOf(rows, OfRegion(rows, r), f)]
IsFirst(rows, n) == \A m \in OfRegion(rows, RollupRegion[n]) : n <= m
RowsMerged(rows) ==
    [n \in DOMAIN rows |->
        IF IsFirst(rows, n) THEN [f \in DOMAIN rows[n] |-> CountOf(rows, OfRegion(rows, RollupRegion[n]), f)]
        ELSE rows[n]]

\* A render of rows.
RenderOf(rows) ==
    /\ rrShown' = [r \in RollupRegions |-> MergedFactors(rows, r)]
    /\ rrMapped' = RowsMerged(rows)

\* The clock of the page, or another feed's news.
Rerender ==
    /\ rrRerenders < MaxRerenders /\ rrRerenders' = rrRerenders + 1
    /\ RenderOf(rrMapped)
    /\ UNCHANGED <<rrFleet, rrFactors, rrWear, rrEmitted>>

-----------------------------------------------------------------------------
(* The aggregator's rows (external), each in a snapshot of its table. *)

Emitted == rrEmitted < MaxEmitted /\ rrEmitted' = rrEmitted + 1 /\ UNCHANGED rrRerenders
WithEmitted(rows, n, row) == [m \in DOMAIN rows \cup {n} |-> IF m = n THEN row ELSE rows[m]]

FleetEmitted(n) ==
    /\ Emitted /\ \E row \in FleetCounts : rrFleet' = WithEmitted(rrFleet, n, row)
    /\ UNCHANGED <<rrFactors, rrWear>> /\ RenderOf(rrMapped)

FactorsEmitted(n) ==
    /\ Emitted /\ \E row \in FactorCounts : rrFactors' = WithEmitted(rrFactors, n, row)
    /\ UNCHANGED <<rrFleet, rrWear>> /\ RenderOf(rrFactors')

WearEmitted(n) ==
    /\ Emitted /\ \E row \in WearLists : rrWear' = WithEmitted(rrWear, n, row)
    /\ UNCHANGED <<rrFleet, rrFactors>> /\ RenderOf(rrMapped)

RollupsNext ==
    \/ Rerender
    \/ \E n \in RollupRows : FleetEmitted(n) \/ FactorsEmitted(n) \/ WearEmitted(n)

RollupsSpec == RollupsInit /\ [][RollupsNext]_rollupVars

-----------------------------------------------------------------------------
(* The fleet's counts and the wear trends, derived on every render. *)

\* useRegionFleetSummary: the counts are added up, and the oldest time stands; 0 is
\* no time.
RegionFleet(r) ==
    LET ns == OfRegion(rrFleet, r)  times == {rrFleet[n].observed : n \in ns} \ {0}
    IN [counts |-> [k \in CountNames |-> SumFunction([n \in ns |-> rrFleet[n].counts[k]])],
        observed |-> IF times = {} THEN 0 ELSE Min(times)]

\* sumFleetBuckets.
TheaterFleet == [k \in CountNames |-> SumFunction([r \in RollupRegions |-> RegionFleet(r).counts[k]])]

\* useRegionWearTrends: a component is added to the one of its id, whatever its unit.
MergeHit(hit, c) == [hit EXCEPT !.rul = @ + c.rul, !.assets = @ + c.assets]
AddComponent(list, c) ==
    LET hits == {i \in DOMAIN list : list[i].id = c.id}
    IN IF hits = {} THEN Append(list, c)
       ELSE [list EXCEPT ![Max(hits)] = MergeHit(@, c)]
AddList(list, merged) == FoldLeft(AddComponent, merged, list)
RegionWear(r) ==
    LET ns == OfRegion(rrWear, r) IN
    IF ns = {} THEN << >>
    ELSE MapThenFoldSet(AddList, rrWear[Min(ns)], LAMBDA n : rrWear[n], Max, ns \ {Min(ns)})

\* What lists of components say of one id and unit: a mean's weighted sum and its weight.
Weighed(lists, id, unit) ==
    LET at == {x \in UNION {{l} \X DOMAIN lists[l] : l \in DOMAIN lists} :
                  lists[x[1]][x[2]].id = id /\ lists[x[1]][x[2]].unit = unit}
    IN [rul |-> SumFunction([x \in at |-> lists[x[1]][x[2]].rul]),
        assets |-> SumFunction([x \in at |-> lists[x[1]][x[2]].assets])]

\* mergeWearTrends: by id and unit.
TheaterWear(id, unit) == Weighed([r \in RollupRegions |-> RegionWear(r)], id, unit)

-----------------------------------------------------------------------------
(* Properties. *)

Emits(id, unit) == Weighed(rrWear, id, unit)

ComponentsOf(lists) == UNION {{<<c.id, c.unit>> : c \in ToSet(lists[l])} : l \in DOMAIN lists}
UnitsOf(id) == {x[2] : x \in {y \in ComponentsOf(rrWear) : y[1] = id}}

\* Whatever rows have come, in whatever order, and however often the page was
\* rendered: no asset is lost or doubled between the classes, the regions and the
\* theater, no region claims to be fresher than its stalest row, a wear trend of one
\* unit weighs every asset once, and the factors of a region of one row are that row's.
TheaterAddsUp ==
    /\ \A k \in CountNames :
          TheaterFleet[k] = SumFunction([n \in DOMAIN rrFleet |-> rrFleet[n].counts[k]])
    /\ \A n \in DOMAIN rrFleet :
          rrFleet[n].observed # 0 => RegionFleet(RollupRegion[n]).observed \in 1..rrFleet[n].observed
    /\ \A x \in ComponentsOf(rrWear) : UnitsOf(x[1]) = {x[2]} => TheaterWear(x[1], x[2]) = Emits(x[1], x[2])
    /\ \A n \in DOMAIN rrFactors :
          OfRegion(rrFactors, RollupRegion[n]) = {n} => rrShown[RollupRegion[n]] = rrFactors[n]

\* "Counts for factors that DO appear are exact" (useRegionTopFactors.ts 51-52).  A
\* render adds the other rows' counts to the kept objects of a region's first row, so
\* that the next render adds them again.
FactorCountsExact ==
    \A r \in RollupRegions : \A f \in DOMAIN rrShown[r] :
        rrShown[r][f] = CountOf(rrFactors, OfRegion(rrFactors, r), f)

\* "NEVER cross-unit-mean" (useRegionWearTrends.ts 3-7): what is shown of a component
\* in a unit is of the assets that were reported in it.
UnitsStayApart == \A x \in ComponentsOf(rrWear) : TheaterWear(x[1], x[2]) = Emits(x[1], x[2])
=============================================================================
