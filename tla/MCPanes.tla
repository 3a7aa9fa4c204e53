--------------------------------- MODULE MCPanes ---------------------------------
(***************************************************************************)
(* The components whose promises are about what never happens, side by     *)
(* side: a behaviour is that of one of them, part, and the others stay at  *)
(* their initial state.  They share no state in the code either; together  *)
(* they are one graph, the sum of theirs.                                  *)
(***************************************************************************)
EXTENDS ExercisePopup, MovePanel, Boot, FleetTiers, RegionMap, Gate, FaultReport, ManualPanel, SitePanes,
    MunitionsLedger, Basemap, LinkPicture, LinkLabel, ForcePosture, Sessions, Assembler, Intake, MCRollups, TelemetryCharts,
    ScreenWindow

VARIABLE part

-----------------------------------------------------------------------------
(* The instances. *)

\* A leaf's file, a region's with a bent title, and two of the root's; an
\* overlay that changes nothing, one with a refused tier, one that repairs it;
\* no site table, a good one, and one with an edge twice.
LeafTier == [id |-> "e1", parent |-> "r1", children |-> FALSE, scope |-> "e1"]
RegionTier == [id |-> "r1", parent |-> "root", children |-> TRUE, scope |-> "none"]
ServedBases ==
    {Nothing, [tier |-> LeafTier, links |-> Parts, map |-> Parts], [tier |-> RegionTier, title |-> "odd"],
     [title |-> "text", liveness |-> {"bent"}]}
ServedOverlays == {Nothing, [tier |-> Rejected], [tier |-> RegionTier, title |-> "text", map |-> {"fine"}]}
SiteRow(edge, region) == [edge |-> edge, region |-> region]
ServedTables ==
    {[ok |-> FALSE, rows |-> << >>],
     [ok |-> TRUE, rows |-> <<SiteRow("e1", "r1"), SiteRow("e2", "r1"), SiteRow("e3", "r2")>>],
     [ok |-> TRUE, rows |-> <<SiteRow("e1", "r1"), SiteRow("e1", "r2")>>]}

\* Four assets at two places, the last two of one variant, one of them in fault.
VariantOfAsset == [a \in MapAssets |-> IF a = 4 THEN 1 ELSE a]
EdgeOfAsset == [a \in MapAssets |-> 1]
FobPlace == [e \in {1} |-> 0]
MixedFleet == {[a \in MapAssets |-> [at |-> a % 2, lost |-> FALSE, fault |-> a = 2]]}

PartOfFault == [f \in Faults |-> f]
ManualsOf == [a \in ManualAssets |-> IF a = "a" THEN {1, 2} ELSE {2, 3}]
EdgeArrivals == [e \in SiteEdges |-> IF e = "e1" THEN {"x", "y"} ELSE {"z"}]
RecordAudience == [n \in GateRecords |-> IF n = LastRecord THEN {} ELSE GateNations]

\* Two launchers of one variant, the first with a load of its own; one moves
\* away between a launch and a resupply, one fires what nobody declared.
OneVariant == [a \in Launchers |-> "v"]
OwnLoad == [a \in {"l1"} |-> [m \in {"m"} |-> 4]]
SharedLoad == [v \in {"v"} |-> [m \in {"m"} |-> 3]]
LedgerLine(kind, who, type, t, q, region) ==
    [kind |-> kind, who |-> who, type |-> type, t |-> t, q |-> q, region |-> region]
FourLines ==
    <<LedgerLine("fire", "l1", "m", 1, 2, "r1"), LedgerLine("resupply", "l1", "m", 2, 3, "r2"),
      LedgerLine("fire", "l2", "m", 1, 1, "r2"), LedgerLine("fire", "l2", "k", 2, 1, "none")>>
OneTrack == {[who |-> "l1", type |-> "m", n |-> 1]}

\* Every basemap, with and without the network, over where its files are.
EveryBlock ==
    {[basemap |-> b, network |-> n, urls |-> u, credited |-> c] :
        b \in {"relief", "imagery", "licensed"}, n \in BOOLEAN, c \in {{}, {"patch", "imagery"}},
        u \in {v \in [UrlFields -> {"unset", "local", "remote"}] : v.lakes = v.elevation /\ v.water = v.patch}}

\* A chain whose leaf alone is placed, one with sites above a FOB, a fork, and no
\* tree at all.
TreeOf(parent, fobs, sited) == [tiers |-> DOMAIN parent, parent |-> parent, fobs |-> fobs, sited |-> sited]
Chain == [t \in LinkIds |-> CASE t = "r" -> "root" [] t = "s" -> "r" [] OTHER -> "s"]
Fork == [t \in LinkIds |-> IF t = "e" THEN "r" ELSE "root"]
FourTrees ==
    {TreeOf(Chain, {"e"}, {}), TreeOf(Chain, {"s"}, {"r"}), TreeOf(Fork, {"e"}, {"s"}),
     [tiers |-> {}, parent |-> << >>, fobs |-> {"e", "s"}, sited |-> {}]}

SensorsAndMunitions == {[class |-> c, edge |-> e] : c \in {"SENSOR", "MUNITION"}, e \in {"f1", "f2", "none"}}
TwoFlying == {[n |-> 1, edge |-> "f1", launcher |-> "a"], [n |-> 2, edge |-> "none", launcher |-> "a"]}

\* An asset's fault, a second source of it with another fault, and the second
\* fault alone; orders that are repeated, cancelled in place, or begin a march
\* that was under way.
FirstSeen == [k \in EpisodeKeys |-> IF k = "a" THEN 1 ELSE 5]
CmStateOf(open) == [asset |-> "x", open |-> open]
OpenEpisode(k, s) == [key |-> k, sources |-> s]
ThreeStates ==
    {<<CmStateOf(<<OpenEpisode("a", {"s1"})>>),
       CmStateOf(<<OpenEpisode("a", {"s1", "s2"}), OpenEpisode("b", {"s3"})>>),
       CmStateOf(<<OpenEpisode("b", {"s3"})>>)>>}
Transitions(words) == [n \in DOMAIN words |-> [asset |-> "x", to |-> words[n], at |-> 2 * n]]
FourMarches ==
    {Transitions(<<"march_ordered", "moving", "emplaced">>),
     Transitions(<<"march_ordered", "moving", "march_ordered", "emplaced">>),
     Transitions(<<"march_ordered", "emplaced", "moving", "emplaced">>),
     Transitions(<<"moving", "march_ordered", "moving", "emplaced">>)}

\* Two bodies of one artifact, which differ in their label, and an answered record
\* with either of the labels.
OneIntakeKey == [a \in Artifacts |-> "k"]
OneAnswered == [a \in Artifacts |-> "r"]
LabelOfArtifact == [a \in Artifacts |-> IF a = "a1" THEN "A" ELSE "B"]
TwoRecords == {[id |-> "r", label |-> label] : label \in {"A", "B"}}

-----------------------------------------------------------------------------
figureVars == <<popupVars, moveVars, tierVars>>
siteVars == <<bootVars, mapVars, gateVars>>
sheetVars == <<paVars, mpVars, spVars, chartVars>>
stockVars == <<ledgerVars, postureVars, basemapVars, rollupVars>>
linkVars == <<pictureVars, labelVars>>
backVars == <<sessionsVars, assemblerVars, intakeVars, windowVars>>
panesVars == <<figureVars, siteVars, sheetVars, stockVars, linkVars, backVars, part>>

PartNames == {"popup", "move", "tiers", "boot", "map", "gate", "report", "manual", "sites",
              "ledger", "basemap", "picture", "label", "posture", "sessions", "assembler", "intake", "rollups", "charts", "window"}

\* The parts that begin in several states rest in one of them.
Resting ==
    /\ part # "boot" =>
          /\ btServed = [base |-> Nothing, overlay |-> Nothing, sites |-> [ok |-> FALSE, rows |-> << >>]]
          /\ btDemo = FALSE /\ btView = "hq"
    /\ part # "ledger" => lgFleet = [a \in Launchers |-> Away]
    /\ part # "basemap" => bmBlock = (CHOOSE b \in TerrainBlocks : TRUE) /\ bmStored = NoneStored
          /\ bmWritable = TRUE
    /\ part # "picture" => lpTree = (CHOOSE t \in DeclaredTrees : TRUE) /\ lpRows = [id \in LinkIds |-> NoLinkRow]
    /\ part # "sessions" => ssSliding = FALSE /\ ssSession = NewSession(0)
    /\ part # "assembler" => asCm = (CHOOSE t \in CmTopics : TRUE) /\ asPosture = (CHOOSE t \in PostureTopics : TRUE)

PanesInit ==
    /\ part \in PartNames /\ Resting
    /\ PopupInit /\ MoveInit /\ TiersInit /\ BootInit /\ RegionMapInit /\ GateInit
    /\ FaultReportInit /\ ManualInit /\ SitePanesInit
    /\ LedgerInit /\ BasemapInit /\ PictureInit /\ LabelInit /\ PostureInit
    /\ SessionsInit /\ AssemblerInit /\ IntakeInit /\ RollupsInit /\ ChartsInit /\ WindowInit

Runs(p) == part = p /\ UNCHANGED part

FigureNext ==
    \/ Runs("popup") /\ PopupNext /\ UNCHANGED <<moveVars, tierVars>>
    \/ Runs("move") /\ MoveNext /\ UNCHANGED <<popupVars, tierVars>>
    \/ Runs("tiers") /\ TiersNext /\ UNCHANGED <<popupVars, moveVars>>

SiteNext ==
    \/ Runs("boot") /\ BootNext /\ UNCHANGED <<mapVars, gateVars>>
    \/ Runs("map") /\ RegionMapNext /\ UNCHANGED <<bootVars, gateVars>>
    \/ Runs("gate") /\ GateNext /\ UNCHANGED <<bootVars, mapVars>>

SheetNext ==
    \/ Runs("report") /\ FaultReportNext /\ UNCHANGED <<mpVars, spVars, chartVars>>
    \/ Runs("manual") /\ ManualNext /\ UNCHANGED <<paVars, spVars, chartVars>>
    \/ Runs("sites") /\ SitePanesNext /\ UNCHANGED <<paVars, mpVars, chartVars>>
    \/ Runs("charts") /\ ChartsNext /\ UNCHANGED <<paVars, mpVars, spVars>>

StockNext ==
    \/ Runs("ledger") /\ LedgerNext /\ UNCHANGED <<basemapVars, postureVars, rollupVars>>
    \/ Runs("basemap") /\ BasemapNext /\ UNCHANGED <<ledgerVars, postureVars, rollupVars>>
    \/ Runs("posture") /\ PostureNext /\ UNCHANGED <<ledgerVars, basemapVars, rollupVars>>
    \/ Runs("rollups") /\ RollupsNext /\ UNCHANGED <<ledgerVars, basemapVars, postureVars>>

LinkNext ==
    \/ Runs("picture") /\ PictureNext /\ UNCHANGED labelVars
    \/ Runs("label") /\ LabelNext /\ UNCHANGED pictureVars

BackNext ==
    \/ Runs("sessions") /\ SessionsNext /\ UNCHANGED <<assemblerVars, intakeVars, windowVars>>
    \/ Runs("assembler") /\ AssemblerNext /\ UNCHANGED <<sessionsVars, intakeVars, windowVars>>
    \/ Runs("intake") /\ IntakeNext /\ UNCHANGED <<sessionsVars, assemblerVars, windowVars>>
    \/ Runs("window") /\ WindowNext /\ UNCHANGED <<sessionsVars, assemblerVars, intakeVars>>

PanesNext ==
    \/ FigureNext /\ UNCHANGED <<siteVars, sheetVars, stockVars, linkVars, backVars>>
    \/ SiteNext /\ UNCHANGED <<figureVars, sheetVars, stockVars, linkVars, backVars>>
    \/ SheetNext /\ UNCHANGED <<figureVars, siteVars, stockVars, linkVars, backVars>>
    \/ StockNext /\ UNCHANGED <<figureVars, siteVars, sheetVars, linkVars, backVars>>
    \/ LinkNext /\ UNCHANGED <<figureVars, siteVars, sheetVars, stockVars, backVars>>
    \/ BackNext /\ UNCHANGED <<figureVars, siteVars, sheetVars, stockVars, linkVars>>

PanesSpec == PanesInit /\ [][PanesNext]_panesVars

-----------------------------------------------------------------------------
(* Properties.  A part at rest is in an initial state of its own, so that a *)
(* property of it is read where it runs.                                   *)

Where(p) == part = p

\* Every part's variables keep their types.
PanesTypeOK ==
    /\ Where("popup") => PopupTypeOK
    /\ Where("move") => MoveTypeOK
    /\ Where("tiers") => TiersTypeOK
    /\ Where("boot") => BootTypeOK
    /\ Where("map") => RegionMapTypeOK
    /\ Where("gate") => GateTypeOK
    /\ Where("report") => FaultReportTypeOK
    /\ Where("manual") => ManualTypeOK
    /\ Where("sites") => SitePanesTypeOK
    /\ Where("ledger") => LedgerTypeOK
    /\ Where("basemap") => BasemapTypeOK
    /\ Where("picture") => PictureTypeOK
    /\ Where("label") => LabelTypeOK
    /\ Where("posture") => PostureTypeOK
    /\ Where("sessions") => SessionsTypeOK
    /\ Where("assembler") => AssemblerTypeOK
    /\ Where("intake") => IntakeTypeOK
    /\ Where("rollups") => RollupsTypeOK
    /\ Where("charts") => ChartsTypeOK
    /\ Where("window") => WindowTypeOK

\* In whatever order requests, answers and the operator's switches come, these are
\* of the asset or edge shown: the codes that a fault report offers, and its fields
\* once they are filled since the asset's last change; the links to cases and the
\* modules that the manual's answer cites, once the asset's own lists are there; the
\* edge's arrivals; the charts' samples.  (See ReportedFromItsOwn for the fields that
\* stay, and AdmissionIsOfItsDestination for a pane that may show another's.)
NothingOfAnother == ReportIsOnTheAsset /\ AnswerIsOnTheAsset /\ ArrivalsAreTheEdges /\ ChartsAreTheAssets

\* What a consumer of the topic, or of a level's stream, must hear of is told in its
\* order and not lost, by the assembler whatever it forgets in a restart, by the
\* gateway whatever it folds, holds and drops.
ToldInFull == EpisodesAreTold /\ (Where("window") => ScreenToldAll)

\* No figure loses or doubles what it is made of: the map's markers over its
\* assets, the munitions' regions over the theater, the posture's classes, FOBs
\* and edges over the fleet, the move panel's times and rounds over its records,
\* the theater's rollups over their rows.
FiguresAddUp ==
    /\ Where("move") => MoveFiguresTrue /\ RoundsAreTheStock
    /\ Where("map") => NothingLost
    /\ Where("ledger") => LedgerAddsUp
    /\ Where("posture") => PostureAddsUp
    /\ Where("rollups") => TheaterAddsUp

\* What the deployment declares is what the page uses, whichever of its files
\* are missing or bent: its site, its terrain and the network it may use.
DeploymentObeyed ==
    /\ Where("boot") => SitesAreItsOwn
    /\ Where("basemap") => BasemapObeyed

\* A link is shown up, down or unreachable only for what was measured, of late.
LinksShownTrue ==
    /\ Where("picture") => PictureTrue
    /\ Where("label") => LabelTrue
=============================================================================
