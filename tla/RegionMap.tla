------------------------------- MODULE RegionMap -------------------------------
(***************************************************************************)
(* The regional view: which region it shows (RegionalApp.tsx,              *)
(* lib/regionScope.ts), how the assets of the region are drawn together    *)
(* and apart as the camera moves, which asset a click selects, and where   *)
(* the camera flies (RegionalSustainmentPosture.tsx, lib/clusterKinds.ts). *)
(* An asset that is hidden in 3D, or without a place, is not drawn; the    *)
(* others go into clusters by FOB or place, a cluster splits into groups,  *)
(* and a group is drawn as one symbol per kind.                            *)
(*                                                                         *)
(* Places lie on one line and the camera is the radius of a symbol, in     *)
(* tenths of a place's distance to the next.  Left out: other forces'      *)
(* tracks, heights, terrain, labels, lines, munitions in flight, looks.    *)
(***************************************************************************)
EXTENDS Integers, FiniteSets, FiniteSetsExt, Functions

CONSTANTS
    MapAssets,      \* natural numbers, in the order of their asset ids
    VariantOf,      \* VariantOf[a]: variants of one role, by name
    EdgeOf,         \* EdgeOf[a]: the FOB of its edge_id; 0: none
    FobAt,          \* FobAt[e]: the place of a FOB, -1: it is not drawn
    Places,         \* positions that an asset may report
    Radii,          \* the symbol's radii as the camera moves
    MaxKinds,       \* MAX_KINDS
    FobRegions,     \* the regions of the FOBs, natural numbers in alphabetical order
    OtherRegions,   \* regions that the rollup may bring
    RegionScope,    \* tierScopeValue; 0: null
    UrlRegion,      \* ?region=; 0: absent or malformed
    FirstFleets,    \* what the first read of a region's shape may bring
    MaxMoves        \* changes of the fleet of a behaviour

Rows == [at : Places \cup {-1}, lost : BOOLEAN, fault : BOOLEAN]

ASSUME RegionAssumption ==
    /\ IsFiniteSet(MapAssets) /\ MapAssets \subseteq Nat \ {0} /\ MaxKinds \in Nat \ {0, 1}
    /\ FobRegions \cup OtherRegions \subseteq Nat \ {0}
    /\ IsFiniteSet(Radii) /\ Radii # {} /\ Places \cup Radii \subseteq Nat
    /\ \A a \in MapAssets : VariantOf[a] \in Int /\ (EdgeOf[a] # 0 => FobAt[EdgeOf[a]] \in Int)
    /\ \A fleet \in FirstFleets : DOMAIN fleet \subseteq MapAssets /\ \A a \in DOMAIN fleet : fleet[a] \in Rows

VARIABLES
    rmRegion, rmObserved,       \* selectedRegion; the rollup's regions
    rmFleet,                    \* the rows: [at, lost, fault] of every asset that has one
    rmRadius,                   \* the camera
    rmMerged,                   \* ClusterGroup's state: pairs that are merged
    rmDrawn,                    \* its sig: the merged pairs that are drawn
    rmAsset,                    \* selectedAssetId; 0: null
    rmGoal, rmFramed,           \* the camera's last goal; framedOnce
    rmMoves

mapVars == <<rmRegion, rmObserved, rmFleet, rmRadius, rmMerged, rmDrawn, rmAsset, rmGoal, rmFramed, rmMoves>>

-----------------------------------------------------------------------------
(* The region. *)

\* initialRegion: the scope, the address's if it is declared, the first FOB's.
InitialRegion ==
    CASE RegionScope # 0                                                  -> RegionScope
      [] RegionScope = 0 /\ UrlRegion # 0 /\ (FobRegions = {} \/ UrlRegion \in FobRegions) -> UrlRegion
      [] OTHER                                        -> IF FobRegions = {} THEN 0 ELSE Min(FobRegions)

\* The effect of a region or of the rollup: the first that was observed where
\* there is none; and, but for a tier's own scope, where nothing knows it.
HealedRegion(region, observed) ==
    IF observed = {} THEN region
    ELSE IF region = 0 \/ (RegionScope = 0 /\ region \notin FobRegions \cup observed)
         THEN Min(observed) ELSE region

AvailableRegions == FobRegions \cup rmObserved

RegionMapInit ==
    /\ rmRegion = InitialRegion /\ rmObserved = {} /\ rmFleet = << >>
    /\ rmRadius = Max(Radii) /\ rmMerged = {} /\ rmDrawn = {}
    /\ rmAsset = 0 /\ rmGoal = "none" /\ rmFramed = FALSE /\ rmMoves = 0

-----------------------------------------------------------------------------
(* What is drawn. *)

\* buildRenderables: where an asset stands; one without a position is homed at
\* its FOB.
PlaceOf(a) ==
    IF rmFleet[a].at # -1 THEN rmFleet[a].at
    ELSE IF EdgeOf[a] # 0 THEN FobAt[EdgeOf[a]] ELSE -1

Renderables == {a \in DOMAIN rmFleet : ~rmFleet[a].lost /\ PlaceOf(a) # -1}

\* By FOB where the asset has one, else by place.
ClusterKey(a) == IF EdgeOf[a] # 0 THEN <<"edge", EdgeOf[a]>> ELSE <<"place", PlaceOf(a)>>
Clusters == {{b \in Renderables : ClusterKey(b) = ClusterKey(a)} : a \in Renderables}

\* mstEdges: on a line, the pairs of neighbours; their key names the lesser id
\* first.  (Among members at one place the tree is one of several.)
Before(a, b) == PlaceOf(a) < PlaceOf(b) \/ (PlaceOf(a) = PlaceOf(b) /\ a < b)
Adjacent(members) ==
    {p \in members \X members :
        Before(p[1], p[2]) /\ ~\E c \in members : Before(p[1], c) /\ Before(c, p[2])}
PairKey(p) == <<ClusterKey(p[1]), Min({p[1], p[2]}), Max({p[1], p[2]})>>
MstPairs == UNION {{PairKey(p) : p \in Adjacent(c)} : c \in Clusters}

\* A cluster that is gone takes its pairs' state with it.
ClusterKeys == {ClusterKey(a) : a \in Renderables}
KeepPairs ==
    /\ rmMerged' = {p \in rmMerged : p[1] \in ClusterKeys'}
    /\ rmDrawn' = {p \in rmDrawn : p[1] \in ClusterKeys'}

\* nextMerged: merged below 2 radii, and until 2.4 once it is.
Length(p) == Max({PlaceOf(p[2]), PlaceOf(p[3])}) - Min({PlaceOf(p[2]), PlaceOf(p[3])})
NextMerged(p) == 100 * Length(p) < (IF p \in rmMerged THEN 24 ELSE 20) * rmRadius

\* groupsOf: the members that merged pairs join, each to the one before it.
JoinedLeft(members, c) == \E p \in Adjacent(members) : p[2] = c /\ PairKey(p) \in rmDrawn
Between(members, a, b) ==
    {c \in members : (Before(a, c) /\ ~Before(b, c)) \/ (Before(b, c) /\ ~Before(a, c))}
GroupsOf(members) ==
    {{b \in members : \A c \in Between(members, a, b) : JoinedLeft(members, c)} : a \in members}

\* kindsOf: one kind for each variant of a group; where there are too many, the
\* faulted ones first, and those past the last symbol hidden behind one chip.
Kind(group, v) == {a \in group : VariantOf[a] = v}
KindsOf(group) == {Kind(group, VariantOf[a]) : a \in group}
Faulted(kind) == \E a \in kind : rmFleet[a].fault
KindBefore(k, l) ==
    LET v == VariantOf[CHOOSE a \in k : TRUE]  w == VariantOf[CHOOSE a \in l : TRUE] IN
    \/ Faulted(k) /\ ~Faulted(l)
    \/ Faulted(k) = Faulted(l) /\ Cardinality(k) > Cardinality(l)
    \/ Faulted(k) = Faulted(l) /\ Cardinality(k) = Cardinality(l) /\ v < w
FirstKinds(group, n) == {k \in KindsOf(group) : Cardinality({l \in KindsOf(group) : KindBefore(l, k)}) < n}
HiddenKinds(group) ==
    IF Cardinality(KindsOf(group)) <= MaxKinds THEN {} ELSE KindsOf(group) \ FirstKinds(group, MaxKinds - 1)

\* [mutant] The kinds past the last symbol are not drawn, and have no chip.
ShownOnly(group) == FirstKinds(group, MaxKinds)

\* The marks of a group, each a set of assets that one click goes through.
MarksOf(group) ==
    (KindsOf(group) \ HiddenKinds(group)) \cup ({UNION HiddenKinds(group)} \ {{}})

Groups == UNION {GroupsOf(c) : c \in Clusters}
Marks == UNION {MarksOf(g) : g \in Groups}

-----------------------------------------------------------------------------
(* The feeds. *)

Moved == rmMoves < MaxMoves /\ rmMoves' = rmMoves + 1

RegionObserved ==
    /\ Moved
    /\ \E r \in (FobRegions \cup OtherRegions) \ rmObserved : rmObserved' = rmObserved \cup {r}
    /\ rmRegion' = HealedRegion(rmRegion, rmObserved')
    /\ rmFleet' = IF rmRegion' # rmRegion THEN << >> ELSE rmFleet
    /\ KeepPairs
    /\ UNCHANGED <<rmRadius, rmAsset, rmGoal, rmFramed>>

\* The overview is flown once, as soon as something is there to see, unless
\* the camera was sent elsewhere before.
Framed(fleet, goal) ==
    IF rmFramed \/ (FobRegions = {} /\ fleet = << >>) THEN UNCHANGED rmFramed /\ rmGoal' = goal
    ELSE rmFramed' = TRUE /\ rmGoal' = IF goal = "none" THEN "overview" ELSE goal

\* The region's shape is read; a row comes or changes, or goes.
FleetRead ==
    /\ Moved /\ rmRegion # 0 /\ rmFleet = << >>
    /\ rmFleet' \in FirstFleets
    /\ Framed(rmFleet', rmGoal) /\ KeepPairs
    /\ UNCHANGED <<rmRegion, rmObserved, rmRadius, rmAsset>>

RowComes ==
    /\ Moved /\ rmRegion # 0
    /\ \E a \in MapAssets, row \in Rows : rmFleet' = [x \in DOMAIN rmFleet \cup {a} |-> IF x = a THEN row ELSE rmFleet[x]]
    /\ rmFleet' # rmFleet
    /\ Framed(rmFleet', rmGoal) /\ KeepPairs
    /\ UNCHANGED <<rmRegion, rmObserved, rmRadius, rmAsset>>

RowGoes ==
    /\ Moved
    /\ \E a \in DOMAIN rmFleet : rmFleet' = Restrict(rmFleet, DOMAIN rmFleet \ {a})
    /\ KeepPairs
    /\ UNCHANGED <<rmRegion, rmObserved, rmRadius, rmAsset, rmGoal, rmFramed>>

-----------------------------------------------------------------------------
(* The operator, and the frames. *)

\* Every frame: each pair by the camera and its own past.
Frame ==
    /\ rmMerged' = {p \in MstPairs : NextMerged(p)} \cup (rmMerged \ MstPairs)
    /\ rmDrawn' = {p \in MstPairs : NextMerged(p)}
                    \cup {p \in rmDrawn : \A c \in Clusters : Cardinality(c) > 1 => \E a \in c : ClusterKey(a) # p[1]}
    /\ <<rmMerged, rmDrawn>>' # <<rmMerged, rmDrawn>>
    /\ UNCHANGED <<rmRegion, rmObserved, rmFleet, rmRadius, rmAsset, rmGoal, rmFramed, rmMoves>>

Zoom ==
    /\ rmRadius' \in Radii \ {rmRadius}
    /\ UNCHANGED <<rmRegion, rmObserved, rmFleet, rmMerged, rmDrawn, rmAsset, rmGoal, rmFramed, rmMoves>>

\* The order of a mark's members: the chip's kinds in their order, and a
\* kind's members by id.
MemberBefore(mark, a, b) ==
    LET n(x) == Cardinality(Kind(mark, VariantOf[x])) IN
    \/ n(a) > n(b)
    \/ n(a) = n(b) /\ VariantOf[a] < VariantOf[b]
    \/ VariantOf[a] = VariantOf[b] /\ a < b
FirstOf(mark, among) == CHOOSE a \in among : \A b \in among \ {a} : MemberBefore(mark, a, b)
After(mark, selected) == {a \in mark : selected \in mark /\ MemberBefore(mark, selected, a)}

\* pick, pickHidden: the member after the one that is selected.
NextOf(mark, selected) ==
    FirstOf(mark, IF After(mark, selected) # {} THEN After(mark, selected) ELSE mark)

\* Selecting flies there, if the asset is drawn.
Selected(a) ==
    /\ rmAsset' = a
    /\ rmGoal' = IF a \in Renderables /\ a # rmAsset THEN "asset" ELSE rmGoal

ClickMark ==
    /\ \E m \in Marks : Selected(NextOf(m, rmAsset))
    /\ UNCHANGED <<rmRegion, rmObserved, rmFleet, rmRadius, rmMerged, rmDrawn, rmFramed, rmMoves>>

\* AorAssetList, and the deep dive's close.
SelectRow ==
    /\ rmAsset = 0
    /\ \E a \in DOMAIN rmFleet : Selected(a)
    /\ UNCHANGED <<rmRegion, rmObserved, rmFleet, rmRadius, rmMerged, rmDrawn, rmFramed, rmMoves>>

CloseDeepDive ==
    /\ rmAsset # 0 /\ rmAsset' = 0
    /\ UNCHANGED <<rmRegion, rmObserved, rmFleet, rmRadius, rmMerged, rmDrawn, rmGoal, rmFramed, rmMoves>>

\* The presets: the overview, the FOBs and the larger clusters.
FlyPreset ==
    /\ Renderables # {} /\ rmGoal' = "preset" /\ rmGoal' # rmGoal
    /\ UNCHANGED <<rmRegion, rmObserved, rmFleet, rmRadius, rmMerged, rmDrawn, rmAsset, rmFramed, rmMoves>>

\* RegionPulldown, but for an intermediate tier.  The rows are another
\* shape's; the asset stays selected.
SelectRegion ==
    /\ RegionScope = 0 /\ Cardinality(AvailableRegions) > 1
    /\ rmRegion' \in AvailableRegions \ {rmRegion}
    /\ rmFleet' = << >> /\ KeepPairs
    /\ UNCHANGED <<rmObserved, rmRadius, rmAsset, rmGoal, rmFramed, rmMoves>>

RegionMapNext ==
    \/ RegionObserved \/ FleetRead \/ RowComes \/ RowGoes \/ Frame \/ Zoom
    \/ ClickMark \/ SelectRow \/ CloseDeepDive \/ FlyPreset \/ SelectRegion

RegionMapSpec == RegionMapInit /\ [][RegionMapNext]_mapVars

-----------------------------------------------------------------------------
(* Properties. *)

RegionMapTypeOK ==
    /\ rmRegion \in FobRegions \cup OtherRegions \cup {RegionScope, UrlRegion, 0}
    /\ rmObserved \subseteq FobRegions \cup OtherRegions
    /\ DOMAIN rmFleet \subseteq MapAssets /\ \A a \in DOMAIN rmFleet : rmFleet[a] \in Rows
    /\ rmRadius \in Radii /\ \A p \in rmMerged \cup rmDrawn : {p[2], p[3]} \subseteq MapAssets
    /\ rmAsset \in MapAssets \cup {0} /\ rmGoal \in {"none", "overview", "asset", "preset"} /\ rmFramed \in BOOLEAN

\* Whatever is merged, stale or hidden behind a chip: every asset that is
\* drawn is in one mark, and clicks on that mark come to it from any of the
\* mark's assets.
NothingLost ==
    LET marks == Marks IN
    \A a \in Renderables :
        \E m \in marks :
            /\ a \in m /\ \A n \in marks \ {m} : a \notin n
            /\ \A s \in (SUBSET m) \ {{}, m} : \E b \in s : NextOf(m, b) \notin s

\* "A faulted kind is never hidden behind the chip" (clusterKinds.ts 42).
FaultedKindIsShown == \A g \in Groups : \A k \in HiddenKinds(g) : ~Faulted(k)
=============================================================================
