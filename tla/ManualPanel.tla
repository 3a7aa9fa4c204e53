------------------------------ MODULE ManualPanel ------------------------------
(***************************************************************************)
(* "Ask the manual" over an asset's 3D view: the scope that the view draws *)
(* from the asset's fault catalog (DiagnosticCanvas.tsx), one question at  *)
(* a time, and an answer that is drawn only if what it cites is in scope   *)
(* (ManualOverlay.tsx, ManualQuestionPanel.tsx, lib/manualQa.ts).  The     *)
(* panel stays mounted when the asset changes.                             *)
(*                                                                         *)
(* Left out: the questions' text, cortex's own page, drawing.              *)
(***************************************************************************)
EXTENDS Integers, FiniteSets

CONSTANTS
    ManualAssets,
    Scope,          \* Scope[a]: the data modules of the asset's fault catalog
    MaxChanges      \* changes of the asset in a behaviour

ASSUME ManualAssumption == ManualAssets # {} /\ MaxChanges \in Nat

VARIABLES
    mpAsset,                    \* the assetId prop
    mpReads,                    \* catalog reads in flight: of which asset, not cancelled
    mpCatalog,                  \* the catalog that is held: of which asset
    mpAsk, mpAnswer,            \* the scope of the question in flight; the answer's citations
    mpOpen, mpHidden, mpSaysSo, \* the overlay is open; the panel hides itself; the overlay says so
    mpChanges

mpVars == <<mpAsset, mpReads, mpCatalog, mpAsk, mpAnswer, mpOpen, mpHidden, mpSaysSo, mpChanges>>

CatalogOf(asset) == [of |-> asset, live |-> TRUE]

ManualInit ==
    /\ mpAsset = CHOOSE a \in ManualAssets : TRUE
    /\ mpReads = {CatalogOf(mpAsset)} /\ mpCatalog = "none"
    /\ mpAsk = {} /\ mpAnswer = {} /\ mpOpen = FALSE /\ mpHidden = FALSE /\ mpSaysSo = FALSE
    /\ mpChanges = 0

\* manualQaScope: the modules of the catalog that is held.
InScope == IF mpCatalog \in {"none", "off"} THEN {} ELSE Scope[mpCatalog]

\* The effect is cleaned up and runs again; the old catalog stays meanwhile.
ManualAssetChanges ==
    /\ mpChanges < MaxChanges /\ mpChanges' = mpChanges + 1
    /\ mpAsset' \in ManualAssets \ {mpAsset}
    /\ mpReads' = {[r EXCEPT !.live = FALSE] : r \in mpReads} \cup {CatalogOf(mpAsset')}
    /\ mpSaysSo' = FALSE
    /\ UNCHANGED <<mpCatalog, mpAsk, mpAnswer, mpOpen, mpHidden>>

\* loadFaultCatalog's answer, or none; dropped after a cleanup.
Kept(r, held) == IF r.live THEN held ELSE mpCatalog

ManualCatalogEnds ==
    /\ \E r \in mpReads :
        /\ mpReads' = mpReads \ {r}
        /\ \E held \in {r.of, "off"} : mpCatalog' = Kept(r, held)
    /\ UNCHANGED <<mpAsset, mpAsk, mpAnswer, mpOpen, mpHidden, mpSaysSo, mpChanges>>

ToggleManual ==
    /\ mpOpen' = ~mpOpen
    /\ UNCHANGED <<mpAsset, mpReads, mpCatalog, mpAsk, mpAnswer, mpHidden, mpSaysSo, mpChanges>>

\* handleAsk: nothing is asked without a scope, or while one is asked.
AskManual ==
    /\ mpOpen /\ ~mpHidden /\ mpAsk = {} /\ InScope # {}
    /\ mpAsk' = InScope
    /\ UNCHANGED <<mpAsset, mpReads, mpCatalog, mpAnswer, mpOpen, mpHidden, mpSaysSo, mpChanges>>

\* 404 hides the panel for the rest of its mount; any other outcome is kept: an
\* answer with its citations, or one without.
AskEnds ==
    /\ mpAsk # {} /\ mpAsk' = {}
    /\ \/ mpHidden' = TRUE /\ mpSaysSo' = TRUE /\ UNCHANGED mpAnswer
       \/ mpAnswer' \in SUBSET mpAsk /\ UNCHANGED <<mpHidden, mpSaysSo>>
    /\ UNCHANGED <<mpAsset, mpReads, mpCatalog, mpOpen, mpChanges>>

\* renderableAnswer, citationsInScope.
AnswerIsDrawn == mpOpen /\ ~mpHidden /\ mpAnswer # {} /\ mpAnswer \subseteq InScope

ManualNext ==
    ManualAssetChanges \/ ManualCatalogEnds \/ ToggleManual \/ AskManual \/ AskEnds

ManualSpec == ManualInit /\ [][ManualNext]_mpVars

-----------------------------------------------------------------------------
(* Properties. *)

ManualTypeOK ==
    /\ mpAsset \in ManualAssets /\ mpCatalog \in ManualAssets \cup {"none", "off"}
    /\ mpAsk \subseteq UNION {Scope[a] : a \in ManualAssets} /\ mpAnswer \subseteq UNION {Scope[a] : a \in ManualAssets}
    /\ {mpOpen, mpHidden, mpSaysSo} \subseteq BOOLEAN /\ mpChanges \in 0..MaxChanges

\* However the asset changes while catalogs and questions are in flight: once
\* the asset's own catalog is there, or none is to be had, an answer that is drawn
\* cites only modules of the asset's own manual.  It may be an answer that was
\* given over another asset, where the two share the modules that it cites.
AnswerIsOnTheAsset ==
    (AnswerIsDrawn /\ ~\E r \in mpReads : r.live) => mpAnswer \subseteq Scope[mpAsset]
=============================================================================
