------------------------------- MODULE FaultReport -----------------------------
(***************************************************************************)
(* What lies over an asset's 3D view to report a fault: the button, the    *)
(* card of a discrepancy that the built-in test found, the form, and the   *)
(* links to maintenance cases (FaultReportOverlay.tsx, FaultReportForm.tsx,*)
(* BitDiscrepancyCard.tsx, CortexApprovalLink.tsx, useCortexCases.ts,      *)
(* lib/cmReport.ts).  Nothing is keyed by the asset: when another asset is *)
(* selected the panes stay mounted with what they hold, while answers      *)
(* about the earlier asset are still to come.                              *)
(*                                                                         *)
(* A fault is one (component, code) pair, and faults are numbered in the   *)
(* order in which they were detected.  Left out: the description (it is    *)
(* there), texts and messages, drawing.                                    *)
(***************************************************************************)
EXTENDS Integers, FiniteSets, FiniteSetsExt

CONSTANTS
    PaneAssets,
    Faults,         \* natural numbers
    PartOf,         \* PartOf[f]: the component of the fault's code in the catalog
    MaxForms,       \* forms that a behaviour opens
    MaxSwitches     \* changes of the asset

ASSUME FaultReportAssumption ==
    PaneAssets # {} /\ Faults \subseteq Nat \ {0} /\ PartOf \in [Faults -> Nat \ {0}] /\ MaxForms \in Nat

VARIABLES
    paAsset,                        \* the assetId prop
    paFaults,                       \* CM state: the faults with telemetry_bit and no operator_report
    paOpen, paRecorded,             \* FaultReportOverlay: open, recordedKey
    paCatalog,                      \* the form's catalog: "none", "off", or an asset's
    paPart, paCode,                 \* its component and faultCode; 0: none
    paForms,                        \* the form's mounts
    paFilled,                       \* history: whose list, catalog or card filled the fields, and
    paCarried,                      \* whether a field may be from before the asset's last change
    paSent,                         \* reports in flight, with what their render closed over
    paFiled,                        \* reports that were accepted: <<asset, fault>>
    paReads,                        \* reads in flight: who reads, of which asset, not cancelled
    paCases,                        \* useCortexCases's list: of which asset
    paSwitches

paVars == <<paAsset, paFaults, paOpen, paRecorded, paCatalog, paPart, paCode, paFilled, paCarried, paForms,
            paSent, paFiled, paReads, paCases, paSwitches>>
fieldVars == <<paPart, paCode, paFilled, paCarried>>
formVars == <<paOpen, paRecorded, paCatalog, fieldVars, paForms, paSent, paFiled>>

Read(who, asset) == [who |-> who, of |-> asset, live |-> TRUE]

FaultReportInit ==
    /\ paAsset = (CHOOSE a \in PaneAssets : TRUE) /\ paFaults = [a \in PaneAssets |-> {}]
    /\ paOpen = FALSE /\ paRecorded = 0 /\ paCatalog = "none" /\ paPart = 0 /\ paCode = 0
    /\ paFilled = {} /\ paCarried = FALSE /\ paForms = 0 /\ paSent = {} /\ paFiled = {}
    /\ paReads = {Read("cases", paAsset)} /\ paCases = "none"
    /\ paSwitches = 0

-----------------------------------------------------------------------------
(* The asset, its CM state, and the reads. *)

\* bitOnlyDiscrepancy: the latest that was detected.
Bit == IF paFaults[paAsset] = {} THEN 0 ELSE Max(paFaults[paAsset])

\* The effects of assetId are cleaned up, and run again.  The form's catalog is
\* cleared; its fields and the cases are not.
SelectAsset ==
    /\ paSwitches < MaxSwitches /\ paSwitches' = paSwitches + 1
    /\ paAsset' \in PaneAssets \ {paAsset}
    /\ paReads' = {[r EXCEPT !.live = FALSE] : r \in paReads}
                  \cup {Read(w, paAsset') : w \in {"cases"} \cup (IF paOpen THEN {"form"} ELSE {})}
    /\ paCatalog' = "none" /\ paCarried' = paOpen
    /\ UNCHANGED <<paFaults, paOpen, paRecorded, paPart, paCode, paFilled, paForms, paSent, paFiled, paCases>>

FaultDetected ==
    /\ \E a \in PaneAssets : \E f \in Faults \ paFaults[a] :
        /\ <<a, f>> \notin paFiled
        /\ paFaults' = [paFaults EXCEPT ![a] = @ \cup {f}]
    /\ UNCHANGED <<paAsset, paReads, paCases, paSwitches, formVars>>

\* The CM state catches up with a report.
FaultRecorded ==
    /\ \E p \in paFiled :
        /\ p[2] \in paFaults[p[1]]
        /\ paFaults' = [paFaults EXCEPT ![p[1]] = @ \ {p[2]}]
    /\ UNCHANGED <<paAsset, paReads, paCases, paSwitches, formVars>>

\* [mutant] An answer is taken although its effect was cleaned up.
TakesLate(r) == TRUE

\* An answer is dropped when its effect was cleaned up.
Takes(r) == r.live

\* loadFaultCatalog, and the cases: an answer, or none.
ReadEnds ==
    /\ \E r \in paReads, got \in {"off"} \cup {"ok"} :
        LET held == IF got = "ok" THEN r.of ELSE "off" IN
        /\ paReads' = paReads \ {r}
        /\ paCatalog' = IF r.who = "form" /\ Takes(r) THEN held ELSE paCatalog
        /\ paCases' = IF r.who = "cases" /\ Takes(r) THEN held ELSE paCases
    /\ UNCHANGED <<paAsset, paFaults, paOpen, paRecorded, fieldVars, paForms, paSent, paFiled, paSwitches>>

\* The cases are asked for again, every 15 s.
CasesPoll ==
    /\ paReads' = paReads \cup {Read("cases", paAsset)} /\ paReads' # paReads
    /\ UNCHANGED <<paAsset, paFaults, paCases, paSwitches, formVars>>

-----------------------------------------------------------------------------
(* The fault report. *)

\* A fresh form: from the button, or from the card with its discrepancy.
Opened(fault) ==
    /\ ~paOpen /\ paOpen' = TRUE /\ paForms' = paForms + 1
    /\ paForms < MaxForms
    /\ paPart' = IF fault = 0 THEN 0 ELSE PartOf[fault]
    /\ paCode' = fault
    /\ paFilled' = (IF fault = 0 THEN {} ELSE {paAsset}) /\ paCarried' = FALSE
    /\ paCatalog' = "none"
    /\ paReads' = paReads \cup {Read("form", paAsset)}
    /\ UNCHANGED <<paAsset, paFaults, paRecorded, paSent, paFiled, paCases, paSwitches>>

OpenForm == Opened(0)
RecordIt == Bit # 0 /\ paRecorded # Bit /\ Opened(Bit)

SheetCloses ==
    /\ paOpen' = FALSE /\ paCatalog' = "none" /\ paPart' = 0 /\ paCode' = 0
    /\ paFilled' = {} /\ paCarried' = FALSE
    /\ paReads' = {r \in paReads : r.who # "form"}

\* Escape, the cross, Cancel.
CloseForm ==
    /\ paOpen /\ SheetCloses
    /\ UNCHANGED <<paAsset, paFaults, paRecorded, paForms, paSent, paFiled, paCases, paSwitches>>

\* codeOptionsFor, handleCodeChange: a code brings its component.
ChooseCode ==
    /\ paOpen /\ paCatalog \notin {"none", "off"}
    /\ \E f \in Faults : paPart \in {0, PartOf[f]} /\ paCode' = f /\ paPart' = PartOf[f]
    /\ paFilled' = {paCatalog} /\ paCarried' = FALSE
    /\ UNCHANGED <<paAsset, paFaults, paOpen, paRecorded, paCatalog, paForms, paSent, paFiled,
                   paReads, paCases, paSwitches>>

\* "Not listed"; a component, which leaves the code.
ChooseNotListed ==
    /\ paOpen /\ paCode # 0 /\ paCode' = 0
    /\ UNCHANGED <<paAsset, paFaults, paOpen, paRecorded, paCatalog, paPart, paFilled, paCarried, paForms,
                   paSent, paFiled, paReads, paCases, paSwitches>>
ChoosePart ==
    /\ paOpen /\ \E f \in Faults : paPart' = PartOf[f]
    /\ paFilled' = (IF paCode = 0 THEN {} ELSE paFilled) \cup {paAsset}
    /\ paCarried' = (paCode # 0 /\ paCarried)
    /\ UNCHANGED <<paAsset, paFaults, paOpen, paRecorded, paCatalog, paCode, paForms, paSent, paFiled,
                   paReads, paCases, paSwitches>>

\* handleSubmit: its callbacks are those of the render that was clicked.
Submit ==
    /\ paOpen /\ paPart # 0 /\ ~\E s \in paSent : s.form = paForms
    /\ paSent' = paSent \cup {[form |-> paForms, of |-> paAsset, part |-> paPart, code |-> paCode, bit |-> Bit,
                                filled |-> paFilled, carried |-> paCarried]}
    /\ UNCHANGED <<paAsset, paFaults, paOpen, paRecorded, paCatalog, fieldVars, paForms, paFiled,
                   paReads, paCases, paSwitches>>

\* 202: the card's discrepancy is called recorded, and the sheet closes,
\* whichever form is in it by now.  The gateway refuses a code of another part.
ReportAccepted ==
    /\ \E s \in paSent :
        /\ s.code # 0 => s.part = PartOf[s.code]
        /\ paSent' = paSent \ {s}
        /\ paFiled' = paFiled \cup ({<<s.of, s.code>>} \cap (PaneAssets \X Faults))
        /\ paRecorded' = IF s.bit # 0 THEN s.bit ELSE paRecorded
    /\ SheetCloses
    /\ UNCHANGED <<paAsset, paFaults, paForms, paCases, paSwitches>>

\* Anything else is an error, in a form that stays.
ReportRefused ==
    /\ \E s \in paSent : paSent' = paSent \ {s}
    /\ UNCHANGED <<paAsset, paFaults, paOpen, paRecorded, paCatalog, fieldVars, paForms, paFiled,
                   paReads, paCases, paSwitches>>

-----------------------------------------------------------------------------
FaultReportNext ==
    \/ SelectAsset \/ FaultDetected \/ FaultRecorded \/ ReadEnds \/ CasesPoll
    \/ OpenForm \/ RecordIt \/ CloseForm \/ ChooseCode \/ ChooseNotListed \/ ChoosePart
    \/ Submit \/ ReportAccepted \/ ReportRefused

FaultReportSpec == FaultReportInit /\ [][FaultReportNext]_paVars

-----------------------------------------------------------------------------
(* Properties. *)

Held == PaneAssets \cup {"none", "off"}
FaultReportTypeOK ==
    /\ paAsset \in PaneAssets /\ paFaults \in [PaneAssets -> SUBSET Faults]
    /\ paOpen \in BOOLEAN /\ paRecorded \in Faults \cup {0} /\ {paCatalog, paCases} \subseteq Held
    /\ paCode \in Faults \cup {0} /\ paFilled \subseteq PaneAssets /\ paCarried \in BOOLEAN
    /\ paForms \in 0..MaxForms /\ paFiled \subseteq PaneAssets \X Faults

\* However the asset changes while catalogs and cases are being read: the codes
\* that the form offers are those of the asset that is reported on; so are its
\* component and code, and those of a report on its way, once the operator has
\* filled them since the asset's last change; and so are the links to cases once
\* the asset's own answer is there.
ReportIsOnTheAsset ==
    /\ paCatalog \in {"none", "off", paAsset}
    /\ ~paCarried => paFilled \subseteq {paAsset}
    /\ \A s \in paSent : ~s.carried => s.filled \subseteq {s.of}
    /\ (\E r \in paReads : r.who = "cases" /\ r.live) \/ paCases \in {"off", paAsset}

\* "the catalog is scoped to this asset's platform_variant" (FaultReportForm.tsx
\* 72-73): what is reported of an asset was picked from its own lists.  It is false:
\* the fields stay when the asset changes, and are sent as the next one's.
ReportedFromItsOwn == \A s \in paSent : s.filled \subseteq {s.of}

\* "Key of the last BIT discrepancy this viewer filed" (FaultReportOverlay.tsx
\* 41): a card that says "Recorded, awaiting confirmation" shows what was filed.
RecordedWasFiled == (Bit # 0 /\ paRecorded = Bit) => <<paAsset, Bit>> \in paFiled

\* "the two fields never disagree about which part is at fault"
\* (FaultReportForm.tsx 93), once the code is one of the catalog.
FieldsAgree == (paOpen /\ paCode # 0) => paPart = PartOf[paCode]
=============================================================================
