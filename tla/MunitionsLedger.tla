--------------------------- MODULE MunitionsLedger ---------------------------
(***************************************************************************)
(* The munitions panels (lib/munitionsLedger.ts, movePanel.ts              *)
(* replayLedger, hooks/useMunitionsStockpile.ts, hq/MunitionsInventory.tsx,*)
(* MunitionsLoadoutCard.tsx).  The ledger of a scope is a roll-up, by      *)
(* munition and region, of the launches and resupplies this tier's store   *)
(* has, against the declared loads; its inputs come in any order and the   *)
(* fleet changes under it.  Beside it stands a second source, the ammo the *)
(* launchers report, whose initial load is the most the page has seen.     *)
(*                                                                         *)
(* External: the edges, which write launches, their ends, resupplies,      *)
(* tracks, capability states and the fleet.                                *)
(***************************************************************************)
EXTENDS Integers, FiniteSets, SequencesExt

CONSTANTS
    Launchers,      \* asset ids
    VariantOfLauncher, \* the platform variant of each
    AssetLoad,      \* declared by asset: [launcher -> [munition -> number]], partial
    VariantLoad,    \* declared by variant, partial
    Ledger,         \* the rows the edges write: a sequence of [kind, who, type, t, q, region]
    TrackPool,      \* the tracks they may write: a set of [who, type, n]
    Homes,          \* the regions of fleet rows
    Ammo,           \* what a launcher may report
    MaxLedgerNow,   \* bound: the clock
    MaxFleetMoves   \* bound: changes of the fleet, of the ammo and resets

IsLoad(load) == IsFiniteSet(DOMAIN load) /\ \A key \in DOMAIN load : load[key] \in Nat

ASSUME LedgerAssumption ==
    /\ IsFiniteSet(DOMAIN Ledger) /\ DOMAIN Ledger \subseteq Nat
    /\ \A n \in DOMAIN Ledger : Ledger[n].who \in Launchers /\ Ledger[n].kind \in {"fire", "resupply"}
                                /\ Ledger[n].t \in Nat /\ Ledger[n].q \in Nat
    /\ IsFiniteSet(Launchers) /\ Homes # {} /\ IsFiniteSet(Ammo) /\ Ammo # {} /\ Ammo \subseteq Nat
    /\ \A a \in DOMAIN AssetLoad : IsLoad(AssetLoad[a])
    /\ \A v \in DOMAIN VariantLoad : IsLoad(VariantLoad[v])
    /\ MaxLedgerNow \in Nat \ {0} /\ MaxFleetMoves \in Nat

VARIABLES
    lgHere,    \* the rows of Ledger this tier's store has
    lgEnds,    \* how the launches among them ended, as far as it is known
    lgTracks,  \* the tracks in flight
    lgFleet,   \* the region of a launcher's fleet row; Away without one
    lgNow,     \* the clock of the panels
    lgAmmo,    \* the ammo each launcher reports
    lgSeen,    \* maxSeenRef
    lgMoves    \* changes made

ledgerVars == <<lgHere, lgEnds, lgTracks, lgFleet, lgNow, lgAmmo, lgSeen, lgMoves>>

Away == "away"
NoRegion == "none"   \* a fleet or ledger row without one
LaunchRows == {n \in DOMAIN Ledger : Ledger[n].kind = "fire"}
Outcomes == {"flying", "hit", "unresolved"}

LedgerTypeOK ==
    /\ lgHere \subseteq DOMAIN Ledger /\ lgEnds \in [LaunchRows -> Outcomes] /\ lgTracks \subseteq TrackPool
    /\ lgFleet \in [Launchers -> Homes \cup {Away, NoRegion}]
    /\ lgNow \in 1..MaxLedgerNow /\ lgMoves \in 0..MaxFleetMoves
    /\ lgAmmo \in [Launchers -> Ammo] /\ lgSeen \in [Launchers -> Ammo]

LedgerInit ==
    /\ lgHere = {} /\ lgEnds = [n \in LaunchRows |-> "flying"] /\ lgTracks = {}
    /\ lgFleet \in [Launchers -> {Away, CHOOSE h \in Homes : TRUE}]
    /\ lgNow = 1 /\ lgMoves = 0
    /\ lgAmmo = [a \in Launchers |-> Max(Ammo)] /\ lgSeen = lgAmmo

-----------------------------------------------------------------------------
(* buildMunitionsLedger.  A Maybe is a set of at most one number. *)

\* The declared load of a launcher's munition: the asset's entry wins over the
\* variant's, which only a fleet row tells.
LoadOf(fleet, a, key) ==
    CASE a \in DOMAIN AssetLoad /\ key \in DOMAIN AssetLoad[a] -> {AssetLoad[a][key]}
      [] /\ ~(a \in DOMAIN AssetLoad /\ key \in DOMAIN AssetLoad[a])
         /\ fleet[a] # Away /\ VariantOfLauncher[a] \in DOMAIN VariantLoad
         /\ key \in DOMAIN VariantLoad[VariantOfLauncher[a]] -> {VariantLoad[VariantOfLauncher[a]][key]}
      [] OTHER -> {}

KeysDeclared(fleet, a) ==
    (IF a \in DOMAIN AssetLoad THEN DOMAIN AssetLoad[a] ELSE {})
        \cup (IF fleet[a] # Away /\ VariantOfLauncher[a] \in DOMAIN VariantLoad
              THEN DOMAIN VariantLoad[VariantOfLauncher[a]] ELSE {})

RowsOf(a, rows) == {n \in rows : Ledger[n].who = a}

\* Fleet assets with a declared load, and every launcher the ledger names.
LaunchersOf(fleet, rows) ==
    {a \in Launchers : fleet[a] # Away /\ KeysDeclared(fleet, a) # {}} \cup {Ledger[n].who : n \in rows}

\* Where a row stands among those of its launcher: by time, then the resupplies
\* after the launches, then as they come.
Later(n, m) ==
    LET key(i) == <<Ledger[i].t, IF Ledger[i].kind = "fire" THEN 0 ELSE 1, i>> IN
    \E d \in 1..3 : key(n)[d] > key(m)[d] /\ \A c \in 1..(d - 1) : key(n)[c] = key(m)[c]

LastLine(rows) == CHOOSE n \in rows : \A m \in rows \ {n} : Later(n, m)

\* A launcher is where its fleet row says, else where its last ledger row was.
RegionByLedger(fleet, rows, a) ==
    LET mine == RowsOf(a, rows) IN IF mine = {} THEN fleet[a] ELSE Ledger[LastLine(mine)].region

LauncherRegion(fleet, rows, a) ==
    IF fleet[a] # Away THEN fleet[a] ELSE RegionByLedger(fleet, rows, a)

\* replayLedger: fires and resupplies in time order; expended not below zero.
Replayed(rows, asOf) ==
    LET step(n, sum) ==
            IF Ledger[n].kind = "fire"
            THEN [sum EXCEPT !.fired = @ + Ledger[n].q, !.expended = @ + Ledger[n].q]
            ELSE [sum EXCEPT !.received = @ + Ledger[n].q,
                             !.expended = IF @ > Ledger[n].q THEN @ - Ledger[n].q ELSE 0] IN
    MapThenFoldSet(step, [fired |-> 0, received |-> 0, expended |-> 0], LAMBDA n : n, LastLine,
                   {n \in rows : Ledger[n].t <= asOf})

QuantityOf(rows) == SumFunction([n \in rows |-> Ledger[n].q])

InFlightOf(a, key, tracks) == Cardinality({t \in tracks : t.who = a /\ t.type = key})

LauncherRow(fleet, rows, tracks, ends, asOf, a, key) ==
    LET mine   == {n \in RowsOf(a, rows) : Ledger[n].type = key}
        sums   == Replayed(mine, asOf)
        loaded == LoadOf(fleet, a, key) IN
    [who |-> a, key |-> key, region |-> LauncherRegion(fleet, rows, a),
     loaded |-> loaded, remaining |-> {d - sums.expended : d \in loaded},
     fired |-> sums.fired, received |-> sums.received, expended |-> sums.expended,
     inFlight |-> InFlightOf(a, key, tracks),
     unresolved |-> QuantityOf({n \in mine \cap LaunchRows : Ledger[n].t <= asOf /\ ends[n] = "unresolved"})]

\* The ledger's rows: by launcher, one a munition declared or named.
RowsOfLaunchers(who, fleet, rows, tracks, ends, asOf) ==
    UNION {LET keys == KeysDeclared(fleet, a) \cup {Ledger[n].type : n \in RowsOf(a, rows)} IN
           {LauncherRow(fleet, rows, tracks, ends, asOf, a, key) : key \in keys}
           : a \in who}

AllRows(fleet, rows, tracks, ends, asOf) ==
    RowsOfLaunchers(LaunchersOf(fleet, rows), fleet, rows, tracks, ends, asOf)

TheaterRows == AllRows(lgFleet, lgHere, lgTracks, lgEnds, lgNow)

\* A region's ledger takes its launchers, with all their rows.
ScopeRows(region) ==
    LET inScope == {a \in LaunchersOf(lgFleet, lgHere) : LauncherRegion(lgFleet, lgHere, a) = region} IN
    RowsOfLaunchers(inScope, lgFleet, lgHere, lgTracks, lgEnds, lgNow)

\* rollup: what is undeclared is counted apart, never as zero.
OnlyThe(maybe) == CHOOSE n \in maybe : TRUE

Rollup(rows) ==
    LET declared == {r \in rows : r.loaded # {}} IN
    [launchers  |-> Cardinality(rows),
     undeclared |-> Cardinality(rows \ declared),
     loaded     |-> IF declared = {} THEN {} ELSE {SumFunction([r \in declared |-> OnlyThe(r.loaded)])},
     remaining  |-> IF declared = {} THEN {} ELSE {SumFunction([r \in declared |-> OnlyThe(r.remaining)])},
     expended   |-> SumFunction([r \in rows |-> r.expended]),
     inFlight   |-> SumFunction([r \in rows |-> r.inFlight]),
     unresolved |-> SumFunction([r \in rows |-> r.unresolved]),
     received   |-> SumFunction([r \in rows |-> r.received]),
     fired      |-> SumFunction([r \in rows |-> r.fired])]

ByType(rows) == [key \in {r.key : r \in rows} |-> Rollup({r \in rows : r.key = key})]

ByRegion(rows) == [g \in {r.region : r \in rows} |-> ByType({r \in rows : r.region = g})]

\* MunitionsLoadoutCard: the ledger of one launcher, from its own inputs only.
CardRows(a) ==
    AllRows([b \in Launchers |-> IF b = a THEN lgFleet[b] ELSE Away], RowsOf(a, lgHere),
            {t \in lgTracks : t.who = a}, lgEnds, lgNow)

-----------------------------------------------------------------------------
(* useMunitionsStockpile: one store a launcher. *)

StockEntry(a) ==
    [available |-> lgAmmo[a], initial |-> lgSeen[a],
     expended |-> IF lgSeen[a] > lgAmmo[a] THEN lgSeen[a] - lgAmmo[a] ELSE 0]

\* The roll-up over the launchers the panel is restricted to.
StockOf(filter) ==
    [available |-> SumFunctionOnSet(lgAmmo, filter),
     expended  |-> SumFunction([a \in filter |-> StockEntry(a).expended]),
     initial   |-> SumFunctionOnSet(lgSeen, filter)]

-----------------------------------------------------------------------------
(* What comes to the page. *)

RowArrives(n) ==
    /\ n \in DOMAIN Ledger \ lgHere
    /\ lgHere' = lgHere \cup {n}
    /\ UNCHANGED <<lgEnds, lgTracks, lgFleet, lgNow, lgAmmo, lgSeen, lgMoves>>

\* A launch ends, or its wait runs out; the end may still come late.
LaunchEnds(n) ==
    /\ n \in LaunchRows \cap lgHere /\ lgEnds[n] # "hit"
    /\ \E end \in Outcomes \ {"flying", lgEnds[n]} : lgEnds' = [lgEnds EXCEPT ![n] = end]
    /\ UNCHANGED <<lgHere, lgTracks, lgFleet, lgNow, lgAmmo, lgSeen, lgMoves>>

TracksBecome(tracks) ==
    /\ lgTracks' = tracks
    /\ UNCHANGED <<lgHere, lgEnds, lgFleet, lgNow, lgAmmo, lgSeen, lgMoves>>

Change == lgMoves < MaxFleetMoves /\ lgMoves' = lgMoves + 1

FleetMoves(a) ==
    /\ Change
    /\ \E home \in (Homes \cup {Away, NoRegion}) \ {lgFleet[a]} : lgFleet' = [lgFleet EXCEPT ![a] = home]
    /\ UNCHANGED <<lgHere, lgEnds, lgTracks, lgNow, lgAmmo, lgSeen>>

\* The ammo a launcher reports; the most seen of it grows with it.
AmmoReported(a) ==
    /\ Change
    /\ \E n \in Ammo \ {lgAmmo[a]} :
          /\ lgAmmo' = [lgAmmo EXCEPT ![a] = n]
          /\ lgSeen' = [lgSeen EXCEPT ![a] = IF n > @ THEN n ELSE @]
    /\ UNCHANGED <<lgHere, lgEnds, lgTracks, lgFleet, lgNow>>

\* Reset: the most seen is what is reported now.
ResetSeen ==
    /\ Change /\ lgSeen' = lgAmmo
    /\ UNCHANGED <<lgHere, lgEnds, lgTracks, lgFleet, lgNow, lgAmmo>>

ClockTicks ==
    /\ lgNow < MaxLedgerNow /\ lgNow' = lgNow + 1
    /\ UNCHANGED <<lgHere, lgEnds, lgTracks, lgFleet, lgAmmo, lgSeen, lgMoves>>

LedgerNext ==
    \/ \E n \in DOMAIN Ledger : RowArrives(n) \/ LaunchEnds(n)
    \/ \E t \in TrackPool : TracksBecome(lgTracks \cup {t}) \/ TracksBecome(lgTracks \ {t})
    \/ \E a \in Launchers : FleetMoves(a) \/ AmmoReported(a)
    \/ ResetSeen \/ ClockTicks

LedgerSpec == LedgerInit /\ [][LedgerNext]_ledgerVars

-----------------------------------------------------------------------------
(* Properties. *)

\* The parts of the theater are the theater: for each munition the regions'
\* figures sum to its figures, also the launchers left out for want of a load.
RegionsAddUp ==
    LET groups == ByRegion(TheaterRows)
        whole  == ByType(TheaterRows)
        with(key) == {g \in DOMAIN groups : key \in DOMAIN groups[g]} IN
    \A key \in DOMAIN whole :
        /\ \A figure \in {"launchers", "undeclared", "expended", "inFlight", "unresolved", "received", "fired"} :
              whole[key][figure] = SumFunction([g \in with(key) |-> groups[g][key][figure]])
        /\ whole[key].remaining # {} =>
              OnlyThe(whole[key].remaining)
                = SumFunction([g \in {h \in with(key) : groups[h][key].remaining # {}} |->
                                  OnlyThe(groups[g][key].remaining)])

\* A region's own panel, and a launcher's card, show what the theater's panel
\* shows of them, whatever part of their inputs they are built from.
ScopesAgree ==
    /\ LET groups == ByRegion(TheaterRows) IN
       \A g \in Homes : ByType(ScopeRows(g)) = IF g \in DOMAIN groups THEN groups[g] ELSE << >>
    /\ \A a \in Launchers : CardRows(a) = {r \in TheaterRows : r.who = a}

\* The second source's own sums: what was seen is what is there and what is gone.
StockAddsUp ==
    \A filter \in SUBSET Launchers : StockOf(filter).initial = StockOf(filter).available + StockOf(filter).expended

LedgerAddsUp == RegionsAddUp /\ ScopesAgree /\ StockAddsUp

\* Not run: every track in flight is in its launcher's figures.  One whose
\* launch has not come yet is not (munitionsLedger.ts:197, 222).
TracksAreCounted ==
    \A t \in lgTracks : \E r \in TheaterRows : r.who = t.who /\ r.key = t.type
=============================================================================
