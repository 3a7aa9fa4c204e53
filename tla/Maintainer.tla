------------------------------- MODULE Maintainer -------------------------------
(***************************************************************************)
(* Which edge and which asset a maintainer's page is about                 *)
(* (MaintainerApp.tsx, ScopeControl.tsx, EdgePulldown.tsx,                 *)
(* AssetSwitcher.tsx, AlertFeed.tsx, useArrivalsSummary.ts).  The          *)
(* edge is the tier's own, the address's, or one that a pulldown chose;    *)
(* feeds tell which edges and assets there are, each in its own time;      *)
(* two effects move a selection that no longer fits, and every commit's    *)
(* effects have run before the next event is handled.                      *)
(*                                                                         *)
(* Left out: the panels' contents, and which row of the switcher's list is *)
(* highlighted.                                                            *)
(***************************************************************************)
EXTENDS Naturals, FiniteSets, FiniteSetsExt

CONSTANTS
    Edges,          \* the edges, natural numbers in their alphabetical order
    Assets,
    Actionable,     \* the assets of MAINTAINER_ACTIONABLE_VARIANTS
    Rounds,         \* the assets that are munitions in flight
    TierScope,      \* tierScopeValue; 0: null
    UrlEdge, UrlAsset, \* ?edge= and ?asset=; 0 and "none": absent or malformed
    MaxNews         \* changes of the world of a behaviour

ASSUME MaintainerAssumption ==
    Edges \subseteq Nat \ {0} /\ Edges # {} /\ {TierScope, UrlEdge} \subseteq Edges \cup {0} /\ MaxNews \in Nat

VARIABLES
    mtWorld,    \* the edge of every asset, 0: none (external)
    mtWithheld, \* edges that have withheld assets only (external)
    mtAll,      \* fleetAll: [known, at]
    mtScoped,   \* fleetScoped: [known, rows]
    mtSummary,  \* arrivalsSummary: [state, edges]
    mtClassed,  \* the feeds that tell munitions from assets have been read
    mtEdge,     \* selectedEdge; 0: null
    mtAsset,    \* selectedAssetId
    mtPending,  \* pendingDeepLinkAsset
    mtDue,      \* a commit's effects have not run yet
    mtSwitch,   \* AssetSwitcher: "closed", "fleet" or "arrivals"
    mtNews

mtFeeds == <<mtAll, mtScoped, mtSummary, mtClassed>>
mtPage == <<mtEdge, mtAsset, mtPending, mtDue, mtSwitch>>
maintainerVars == <<mtWorld, mtWithheld, mtFeeds, mtPage, mtNews>>

NoRows == [known |-> FALSE, rows |-> {}]

\* initialEdge, initialAssetParam.
MaintainerInit ==
    /\ mtWorld = [a \in Assets |-> Min(Edges)] /\ mtWithheld = {}
    /\ mtAll = [known |-> FALSE, at |-> [a \in Assets |-> 0]] /\ mtScoped = NoRows
    /\ mtSummary = [state |-> "null", edges |-> {}] /\ mtClassed = FALSE
    /\ mtEdge = IF TierScope # 0 THEN TierScope ELSE UrlEdge
    /\ mtAsset = "" /\ mtPending = UrlAsset /\ mtDue = TRUE /\ mtSwitch = "closed" /\ mtNews = 0

-----------------------------------------------------------------------------
\* fleet: the scoped rows, or all of them while there is no scope, without the
\* munitions known as such.
Fleet ==
    LET rows == IF mtEdge # 0 THEN mtScoped.rows ELSE {a \in Assets : mtAll.at[a] # 0}
    IN  rows \ (IF mtClassed THEN Rounds ELSE {})

\* availableEdges: edges seen in the fleet, and those of withheld arrivals.
AvailableEdges == ({mtAll.at[a] : a \in Assets} \ {0}) \cup mtSummary.edges

\* arrivalsCounts of the edge on screen: the switcher has a second tab.
ShowArrivals == mtEdge \in mtSummary.edges

Commit == mtDue' = TRUE

\* The asset's effect, with a fleet: the address's asset once, if it is there;
\* the first of the fleet where the selection is no longer in it.
Rehome(fleet) ==
    /\ mtPending' = "none"
    /\ \/ mtPending # "none" /\ mtAsset' \in (IF mtPending \in fleet THEN {mtPending} ELSE fleet)
       \/ mtPending = "none" /\ mtAsset' \in (IF mtAsset \in fleet THEN {mtAsset} ELSE fleet)

\* The edge's effect: the first edge where there is none; and instead of one
\* that is not to be seen, once both lists of edges are known.
EdgeEffect ==
    mtEdge' =
        IF AvailableEdges = {} THEN mtEdge
        ELSE IF mtEdge = 0 THEN Min(AvailableEdges)
        ELSE IF mtAll.known /\ mtSummary.state # "null" /\ mtEdge \notin AvailableEdges
             THEN Min(AvailableEdges) ELSE mtEdge

\* A new scope is a new shape, which has to load.
NewScope == mtScoped' = IF mtEdge' # mtEdge THEN NoRows ELSE mtScoped

\* Both effects see the same commit; what they set is the next one.
Effects ==
    /\ mtDue
    /\ EdgeEffect
    /\ IF Fleet = {} THEN UNCHANGED <<mtAsset, mtPending>> ELSE Rehome(Fleet)
    /\ NewScope
    /\ mtDue' = (<<mtEdge, mtAsset, mtPending>>' # <<mtEdge, mtAsset, mtPending>>)
    /\ UNCHANGED <<mtWorld, mtWithheld, mtAll, mtSummary, mtClassed, mtSwitch, mtNews>>

-----------------------------------------------------------------------------
(* The feeds (external), and what they bring. *)

News == mtNews < MaxNews /\ mtNews' = mtNews + 1

AssetMoves ==
    /\ News
    /\ \E a \in Assets : \E e \in (Edges \cup {0}) \ {mtWorld[a]} : mtWorld' = [mtWorld EXCEPT ![a] = e]
    /\ UNCHANGED <<mtWithheld, mtFeeds, mtPage>>

AssetsWithheld ==
    /\ News
    /\ \E e \in Edges : mtWithheld' = mtWithheld \cup {e} \/ mtWithheld' = mtWithheld \ {e}
    /\ UNCHANGED <<mtWorld, mtFeeds, mtPage>>

AllComes ==
    /\ ~mtDue
    /\ mtAll' = [known |-> TRUE, at |-> mtWorld] /\ mtAll' # mtAll /\ Commit
    /\ UNCHANGED <<mtWorld, mtWithheld, mtScoped, mtSummary, mtClassed,
                   mtEdge, mtAsset, mtPending, mtSwitch, mtNews>>

ScopedComes ==
    /\ ~mtDue /\ mtEdge # 0
    /\ mtScoped' = [known |-> TRUE, rows |-> {a \in Assets : mtWorld[a] = mtEdge}]
    /\ mtScoped' # mtScoped /\ Commit
    /\ UNCHANGED <<mtWorld, mtWithheld, mtAll, mtSummary, mtClassed,
                   mtEdge, mtAsset, mtPending, mtSwitch, mtNews>>

\* Every 15 s: an answer, or an error that says that there is none.
SummaryComes ==
    /\ ~mtDue
    /\ mtSummary' \in {[state |-> "ok", edges |-> mtWithheld], [state |-> "error", edges |-> {}]}
    /\ mtSummary' # mtSummary /\ Commit
    /\ UNCHANGED <<mtWorld, mtWithheld, mtAll, mtScoped, mtClassed,
                   mtEdge, mtAsset, mtPending, mtSwitch, mtNews>>

ClassesCome ==
    /\ ~mtDue /\ ~mtClassed
    /\ mtClassed' = TRUE /\ Commit
    /\ UNCHANGED <<mtWorld, mtWithheld, mtAll, mtScoped, mtSummary,
                   mtEdge, mtAsset, mtPending, mtSwitch, mtNews>>

-----------------------------------------------------------------------------
(* The operator. *)

\* onSelectEdge, offered where there is more than one edge (scopeMode).
SelectEdge ==
    /\ ~mtDue /\ Cardinality(AvailableEdges) > 1
    /\ mtEdge' \in AvailableEdges \ {mtEdge}
    /\ mtAsset' = "" /\ NewScope /\ Commit
    /\ UNCHANGED <<mtWorld, mtWithheld, mtAll, mtSummary, mtClassed, mtPending, mtSwitch, mtNews>>

\* The switcher opens by its button or a key, on the fleet; by its badge on
\* the arrivals; a click beside it, a key or a choice closes it.
SwitcherOpens ==
    /\ ~mtDue
    /\ mtSwitch' \in {"fleet"} \cup (IF ShowArrivals THEN {"arrivals"} ELSE {}) /\ mtSwitch' # mtSwitch
    /\ UNCHANGED <<mtWorld, mtWithheld, mtFeeds, mtEdge, mtAsset, mtPending, mtDue, mtNews>>

SwitcherCloses ==
    /\ ~mtDue /\ mtSwitch # "closed"
    /\ mtSwitch' = "closed"
    /\ UNCHANGED <<mtWorld, mtWithheld, mtFeeds, mtEdge, mtAsset, mtPending, mtDue, mtNews>>

\* choose: the list has the actionable assets; without arrivals to show the
\* tab is the fleet's, whatever was chosen.
ChooseAsset ==
    /\ ~mtDue
    /\ mtSwitch = "fleet" \/ (mtSwitch = "arrivals" /\ ~ShowArrivals)
    /\ mtAsset' \in Fleet \cap Actionable
    /\ mtSwitch' = "closed" /\ Commit
    /\ UNCHANGED <<mtWorld, mtWithheld, mtFeeds, mtEdge, mtPending, mtNews>>

\* A row of the event feed names any asset.
FollowAlert ==
    /\ ~mtDue
    /\ mtAsset' \in Assets \ {mtAsset}
    /\ Commit
    /\ UNCHANGED <<mtWorld, mtWithheld, mtFeeds, mtEdge, mtPending, mtSwitch, mtNews>>

MaintainerNext ==
    \/ Effects
    \/ AssetMoves \/ AssetsWithheld \/ AllComes \/ ScopedComes \/ SummaryComes \/ ClassesCome
    \/ SelectEdge \/ SwitcherOpens \/ SwitcherCloses \/ ChooseAsset \/ FollowAlert

\* React runs a commit's effects.
MaintainerFairness == WF_maintainerVars(Effects)

MaintainerSpec == MaintainerInit /\ [][MaintainerNext]_maintainerVars /\ MaintainerFairness

-----------------------------------------------------------------------------
(* Properties. *)

MaintainerTypeOK ==
    /\ mtEdge \in Edges \cup {0} /\ mtAsset \in Assets \cup {""} /\ mtPending \in {UrlAsset, "none"}
    /\ mtScoped.rows \subseteq Assets /\ mtSummary.edges \subseteq Edges
    /\ mtSwitch \in {"closed", "fleet", "arrivals"} /\ mtDue \in BOOLEAN

\* The two effects come to rest after every event, on an edge that is to be
\* seen, and on an asset of the fleet that is on screen.
SelectionSettles ==
    []<>(/\ ~mtDue
         /\ Fleet # {} => mtAsset \in Fleet
         /\ mtAll.known /\ mtSummary.state # "null" /\ AvailableEdges # {} => mtEdge \in AvailableEdges)

\* "At a tier node the config is a statement of IDENTITY - this instance IS
\* that edge" (MaintainerApp.tsx 117-118): the page by itself never turns a
\* tier's view to another edge.
TierKeepsItsEdge == [][Effects /\ TierScope # 0 => mtEdge' = mtEdge]_maintainerVars
=============================================================================
