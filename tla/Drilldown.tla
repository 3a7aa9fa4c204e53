------------------------------- MODULE Drilldown -------------------------------
(***************************************************************************)
(* The maintainer's 3D drill-down into a sensor (SensorArrayView.tsx,      *)
(* levelsAfterDrill of useElementLevel.ts): a double click on an element   *)
(* starts an animation, at whose end the view goes one layer down; the     *)
(* levels on the way stay subscribed; the page may switch to another asset *)
(* at any moment.  An element is its path.                                 *)
(*                                                                         *)
(* Left out: the camera, the colours, and everything else that is drawn.   *)
(***************************************************************************)
EXTENDS Naturals, SequencesExt

CONSTANTS
    DrillAssets,    \* the assets that the page may select
    Names,          \* the elements within one element, or on the faces
    Layers          \* config.layers.length

ASSUME DrillAssumption == Layers \in Nat \ {0, 1} /\ DrillAssets # {}

VARIABLES
    dvAsset,        \* the prop assetId, and levelAsset with it
    dvDepth,        \* currentDepth
    dvParent,       \* parentId: << >> at the top
    dvLevels,       \* the open levels beyond the root
    dvSelected,     \* selectedElement, or << >>
    dvBusy,         \* isTransitioning
    dvDrill,        \* the drill animation under way: the element and the depth it began at
    dvPop           \* the animation of a new layer is under way

drillVars == <<dvAsset, dvDepth, dvParent, dvLevels, dvSelected, dvBusy, dvDrill, dvPop>>

NoDrill == [path |-> << >>, depth |-> 0]
Paths == SeqOf(Names, Layers)

DrillTypeOK ==
    /\ dvAsset \in DrillAssets /\ dvDepth \in 0..Layers - 1
    /\ dvParent \in Paths /\ dvSelected \in Paths /\ dvLevels \subseteq Paths \ {<< >>}
    /\ dvBusy \in BOOLEAN /\ dvPop \in BOOLEAN
    /\ dvDrill \in [path : Paths, depth : 0..Layers - 1]

DrillInit ==
    /\ dvAsset = CHOOSE a \in DrillAssets : TRUE
    /\ dvDepth = 0 /\ dvParent = << >> /\ dvLevels = {} /\ dvSelected = << >>
    /\ dvBusy = FALSE /\ dvDrill = NoDrill /\ dvPop = TRUE

-----------------------------------------------------------------------------
\* generateElements: the faces' elements at the top, the parent's below it.
Elements == {Append(dvParent, n) : n \in Names}

\* The effect of a new depth: every animation is stopped, and the new layer
\* is animated instead.
DepthEffect ==
    IF dvDepth' # dvDepth THEN dvDrill' = NoDrill /\ dvPop' = TRUE
    ELSE UNCHANGED <<dvDrill, dvPop>>

\* A click on an element, which stops what animates it, and one beside all of
\* them.
SelectElement ==
    /\ ~dvBusy
    /\ dvSelected' \in Elements
    /\ dvDrill' = IF dvDrill.path = dvSelected' THEN NoDrill ELSE dvDrill
    /\ UNCHANGED <<dvAsset, dvDepth, dvParent, dvLevels, dvBusy, dvPop>>

PointerMissed ==
    /\ dvSelected # << >>
    /\ dvSelected' = << >>
    /\ UNCHANGED <<dvAsset, dvDepth, dvParent, dvLevels, dvBusy, dvDrill, dvPop>>

\* A double click: the click's selection goes, the animation begins.  One of
\* another element that is still under way, since the end of a layer's
\* animation lets clicks through, ends first and stops this one.
DrillBegins ==
    /\ ~dvBusy
    /\ dvBusy' = TRUE /\ dvSelected' = << >>
    /\ \E path \in Elements :
          dvDrill' = IF dvDrill.path \in {path, << >>} THEN [path |-> path, depth |-> dvDepth] ELSE dvDrill
    /\ UNCHANGED <<dvAsset, dvDepth, dvParent, dvLevels, dvPop>>

\* [mutant] Levels already open beneath the path are dropped, and every other
\* one is kept.
LevelsBeneathDropped(levels, path) == {l \in levels : ~IsStrictPrefix(path, l)} \cup {path}

\* The levels on the path, and those beneath it, stay open.
LevelsAfterDrill(levels, path) ==
    {l \in levels : IsPrefix(l, path) \/ IsPrefix(path, l)} \cup {path}

\* [mutant] The layer after the last one is one more.
NextDepthUnwrapped(depth) == depth + 1

\* Clicks go round the layers: after the last one, the top.
NextDepth(depth) == (depth + 1) % Layers

\* The animation ends: one layer down, as seen from where it began, and from
\* the last one back to the top.
DrillEnds ==
    /\ dvDrill # NoDrill
    /\ LET next == NextDepth(dvDrill.depth) IN
       /\ dvDepth' = next
       /\ dvParent' = IF next = 0 THEN << >> ELSE dvDrill.path
       /\ dvLevels' = IF next = 0 THEN dvLevels ELSE LevelsAfterDrill(dvLevels, dvDrill.path)
    /\ DepthEffect
    /\ UNCHANGED <<dvAsset, dvSelected, dvBusy>>

PopEnds ==
    /\ dvPop
    /\ dvPop' = FALSE /\ dvBusy' = FALSE
    /\ UNCHANGED <<dvAsset, dvDepth, dvParent, dvLevels, dvSelected, dvDrill>>

\* Another asset: the view begins anew.  A drill animation that began at the
\* top is not stopped, since the depth stays the same.
AssetChanges ==
    /\ dvAsset' \in DrillAssets \ {dvAsset}
    /\ dvDepth' = 0 /\ dvParent' = << >> /\ dvLevels' = {} /\ dvSelected' = << >>
    /\ DepthEffect
    /\ UNCHANGED dvBusy

-----------------------------------------------------------------------------
DrillNext ==
    \/ SelectElement \/ PointerMissed \/ DrillBegins \/ DrillEnds \/ PopEnds \/ AssetChanges

\* Animations run to their end as long as frames are drawn.
DrillFairness == WF_drillVars(DrillEnds) /\ WF_drillVars(PopEnds)

DrillSpec == DrillInit /\ [][DrillNext]_drillVars /\ DrillFairness

-----------------------------------------------------------------------------
(* Properties. *)

\* What is shown is subscribed: below the top the parent is at the depth shown
\* and its level is open, and the open levels are all of one branch, so that
\* there are never more of them than layers.
ShownLevelIsOpen ==
    /\ Len(dvParent) = dvDepth
    /\ dvDepth > 0 => dvParent \in dvLevels
    /\ \A k, l \in dvLevels : IsPrefix(k, l) \/ IsPrefix(l, k)

\* The view does not stay busy, deaf to every click, whatever is clicked or
\* selected while an animation runs.
TransitionEnds == []<>~dvBusy
=============================================================================
