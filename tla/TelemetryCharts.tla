------------------------------ MODULE TelemetryCharts ------------------------------
(***************************************************************************)
(* The charts of one asset's telemetry (TelemetryCharts.tsx): measured     *)
(* sustainment if the asset reports it, else the rollup of its edge, else  *)
(* nothing, and nothing while it is off.  The telemetry, the rollup and    *)
(* the fleet that tells the variant are feeds of their own; a chart scrolls *)
(* over the last History samples, and one is taken on every render.  The   *)
(* effects of a render have run before the next.                           *)
(*                                                                         *)
(* All fields of a source are drawn or none, and which they are follows    *)
(* from the source and the variant.  Left out: the fields' values and      *)
(* their thresholds, the condition's words, and colours.                   *)
(***************************************************************************)
EXTENDS Naturals, SequencesExt

CONSTANTS
    ChartAssets,
    Variants,       \* the platform variants
    History         \* HISTORY

ASSUME ChartsAssumption == History \in Nat \ {0} /\ "-" \notin Variants /\ ChartAssets # {}

VARIABLES
    tcAsset,    \* assetId
    tcTel,      \* the telemetry: "loading", without a row, with one, with sustainment in it
    tcRollup,   \* elementRollup describes elements
    tcVariant,  \* platformVariant; "-": null
    tcOff,      \* isOff
    tcRebuilt,  \* the rebuild key that the first effect last ran for
    tcResetFor, \* prevRebuildKey
    tcHistory,  \* dataHistories: what every sample is of
    tcDrawn     \* chartInstances: there are charts

chartProps == <<tcAsset, tcTel, tcRollup, tcVariant, tcOff>>
chartVars == <<chartProps, tcRebuilt, tcResetFor, tcHistory, tcDrawn>>

\* resolveFields, and the short circuit of an asset that is off.
Source ==
    CASE tcOff -> "off" [] ~tcOff /\ tcTel = "sustainment" -> "sustainment"
      [] ~tcOff /\ tcTel # "sustainment" /\ tcRollup -> "rollup" [] OTHER -> "empty"

Charting == Source \in {"sustainment", "rollup"}

RebuildKey == [source |-> Source, variant |-> tcVariant, asset |-> tcAsset]

\* The canvases are on screen.
Mounted == tcTel # "loading" /\ Charting

Blank == [source |-> "none", variant |-> "-", asset |-> "-"]
Zeros == [i \in 1..History |-> Blank]
NotRebuilt == Blank

\* What a sample is of: the asset, and the fields it was read from.
Sample == [source |-> Source, variant |-> tcVariant, asset |-> tcAsset]

TelemetryStates == {"loading", "none", "kinematics", "sustainment"}
ChartKeys ==
    [source : {"sustainment", "rollup", "empty", "off", "none"}, variant : Variants \cup {"-"},
     asset : ChartAssets \cup {"-"}]

ChartsTypeOK ==
    /\ tcAsset \in ChartAssets /\ tcTel \in TelemetryStates /\ tcRollup \in BOOLEAN /\ tcOff \in BOOLEAN
    /\ tcVariant \in Variants \cup {"-"} /\ tcRebuilt \in ChartKeys /\ tcResetFor \in ChartKeys
    /\ tcHistory \in [1..History -> ChartKeys] /\ tcDrawn \in BOOLEAN

\* Mounted with nothing known: the first effect has run and returned early.
ChartsInit ==
    /\ tcAsset = (CHOOSE a \in ChartAssets : TRUE) /\ tcTel = "loading" /\ tcRollup = FALSE
    /\ tcVariant = "-" /\ tcOff = FALSE
    /\ tcRebuilt = RebuildKey /\ tcResetFor = NotRebuilt /\ tcHistory = Zeros /\ tcDrawn = FALSE

-----------------------------------------------------------------------------
\* The effects of a render.  With another key the charts are destroyed, the histories
\* are reset if they were last reset for another one, and a chart is made for every
\* canvas there is; neither while there is nothing to chart.  Then a sample is taken.
Effects ==
    LET rebuilds == RebuildKey' # tcRebuilt
        resets == rebuilds /\ Charting' /\ RebuildKey' # tcResetFor
        kept == IF resets THEN Zeros ELSE tcHistory
    IN  /\ tcRebuilt' = RebuildKey'
        /\ tcResetFor' = IF resets THEN RebuildKey' ELSE tcResetFor
        /\ tcHistory' = IF Charting' THEN Append(Tail(kept), Sample') ELSE kept
        /\ tcDrawn' = IF rebuilds THEN Mounted' ELSE tcDrawn

\* Another asset is selected: its feeds have to load, or were read before.
ChartAnother ==
    /\ tcAsset' \in ChartAssets \ {tcAsset}
    /\ tcTel' \in TelemetryStates /\ tcRollup' \in BOOLEAN
    /\ tcVariant' \in Variants \cup {"-"} /\ tcOff' \in BOOLEAN
    /\ Effects

\* The telemetry comes or changes; above the edge it brings the variant too.
TelemetryComes ==
    /\ tcTel' \in TelemetryStates \ {"loading"}
    /\ tcVariant' = tcVariant \/ (tcTel' # "none" /\ tcVariant' \in Variants)
    /\ UNCHANGED <<tcAsset, tcRollup, tcOff>> /\ Effects

\* The rollup comes, or its element count falls to nothing.
RollupComes ==
    /\ tcRollup' = ~tcRollup
    /\ UNCHANGED <<tcAsset, tcTel, tcVariant, tcOff>> /\ Effects

\* The fleet's row comes with the variant, whose fields the sustainment has or not.
VariantComes ==
    /\ tcVariant' \in Variants \ {tcVariant}
    /\ tcTel' \in (IF tcTel \in {"kinematics", "sustainment"} THEN {"kinematics", "sustainment"} ELSE {tcTel})
    /\ UNCHANGED <<tcAsset, tcRollup, tcOff>> /\ Effects

\* The asset is switched off or on, or its condition comes to an off level or leaves it.
PowerChanges ==
    /\ tcOff' = ~tcOff
    /\ UNCHANGED <<tcAsset, tcTel, tcRollup, tcVariant>> /\ Effects

\* A render for something else.
RendersAgain == UNCHANGED chartProps /\ Effects

ChartsNext ==
    \/ ChartAnother \/ TelemetryComes \/ RollupComes \/ VariantComes \/ PowerChanges \/ RendersAgain

ChartsSpec == ChartsInit /\ [][ChartsNext]_chartVars

-----------------------------------------------------------------------------
(* Properties. *)

\* However assets are switched and feeds come, change or stop, between renders: what a
\* chart on screen scrolls over was read from the fields that it is labelled with, of
\* the asset that is selected.
ChartsAreTheAssets ==
    Mounted /\ tcDrawn => \A i \in 1..History : tcHistory[i] \in {Blank, Sample}

\* "When ANY of these change, the chart set is rebuilt and histories reset"
\* (TelemetryCharts.tsx 287-288).  An asset that was off, or had nothing to chart, comes
\* back to the key its histories were last reset for, and finds them as they were.
ResetOnRebuild ==
    [][tcRebuilt' # tcRebuilt /\ Charting' => Front(tcHistory') = Tail(Zeros)]_chartVars

\* Every canvas on screen has its chart.  The telemetry's first answer shows the canvases
\* and is not in the key, so that a rollup that was there before is never drawn.
ChartsAreDrawn == Mounted => tcDrawn
=============================================================================
