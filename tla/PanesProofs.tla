---------------------------- MODULE PanesProofs ----------------------------
(***************************************************************************)
(* Proofs about the components of MCPanes, for every value of their        *)
(* constants: that a silent asset's recovery is earned (FleetTiers), that  *)
(* no reset cancels what its operator did not see counted (ExercisePopup), *)
(* which of what a pane shows is of its asset or edge (FaultReport,        *)
(* ManualPanel, SitePanes, TelemetryCharts), that a page uses what its     *)
(* deployment declares (Boot, Basemap), what a screen says of a link       *)
(* (LinkPicture, LinkLabel), that the theater's figures add up             *)
(* (FiguresProofs), and that every variable keeps its type.                *)
(***************************************************************************)
EXTENDS MCPanes, ToldProofs, ServerProofs, FiguresProofs

-----------------------------------------------------------------------------
(* Recovery (FleetTiers).  What makes it earned is the assumption that the *)
(* window is no longer than the age at which an asset is stale: when it    *)
(* falls silent every sample it has is out of the window, and those that   *)
(* the tracker holds afterwards came since.                                *)

\* The row's last sample no longer counts.
Aged(row, now) == row.at + StaleAfter < now

\* The tracker's samples are the row's or older, the row is not of the future,
\* and an asset that is not in the fleet has no tracker.
TrackerInv ==
    /\ \A t \in ftSamples : t <= ftRow.at
    /\ ftRow.at <= ftClock
    /\ ftRow = NoRow => ftSamples = {} /\ ftTier = "none" /\ ftHeard = {}
    /\ ftRow # NoRow => ftRow.at >= 1 /\ ftTier # "none"

\* What a silent asset's tracker holds came since it was live; and so did the
\* row's sample, unless it is too old to count.
SilentInv ==
    ftTier \in Silent => ftSamples \subseteq ftHeard /\ (ftRow.at \in ftHeard \/ Aged(ftRow, ftClock))

TiersInv == TiersTypeOK /\ TrackerInv /\ SilentInv

LEMMA ClassifyTypes ==
    ASSUME NEW row \in [at : 0..MaxClock, broken : BOOLEAN], NEW severed \in BOOLEAN, NEW now \in Nat,
           row.at <= now
    PROVE  /\ Classify(row, severed, now) \in Live \cup Silent
           /\ Classify(row, severed, now) \in Silent => Aged(row, now)
           /\ Live \cap Silent = {}
  BY TiersAssumption DEF Classify, Live, Silent, Aged

LEMMA RecoveredTypes ==
    ASSUME NEW last, NEW candidate, NEW samples
    PROVE  /\ \/ Recovered(last, candidate, samples) = candidate
              \/ Recovered(last, candidate, samples) = last /\ last \in Silent
           /\ (last \in Silent /\ Recovered(last, candidate, samples) \in Live)
                 => last \in Live \/ ~(Cardinality(samples) < RecoverySamples)
  BY DEF Recovered

LEMMA SamplesTypes ==
    ASSUME NEW samples \in SUBSET (1..MaxClock), NEW now \in Nat, NEW row,
           row.at \in 1..MaxClock
    PROVE  /\ Recorded(samples, row) \subseteq samples \cup {row.at}
           /\ Trim(Recorded(samples, row), now) \subseteq Recorded(samples, row)
           /\ Trim(Recorded(samples, row), now) \subseteq 1..MaxClock
           /\ \A t \in Trim(Recorded(samples, row), now) : t + RecoveryWindow >= now
  BY DEF Recorded, Trim

\* Every step computes the tiers from the row, the link and the clock.
LEMMA StepComputes ==
    ASSUME TiersInv, TiersNext
    PROVE  \E row \in [at : 0..MaxClock, broken : BOOLEAN], severed \in BOOLEAN, now \in 1..MaxClock :
              /\ Compute(row, severed, now)
              /\ row = NoRow \/ row = ftRow \/ (row.at > ftRow.at /\ row.at <= now)
              /\ now >= ftClock
  <1> USE DEF TiersInv, TiersTypeOK, TrackerInv
  <1>1. CASE SampleComes
    <2>1. PICK at \in 1..ftClock, broken \in BOOLEAN :
              at > ftRow.at /\ Compute([at |-> at, broken |-> broken], ftSevered, ftClock)
      BY <1>1 DEF SampleComes
    <2>2. [at |-> at, broken |-> broken] \in [at : 0..MaxClock, broken : BOOLEAN]
      BY TiersAssumption
    <2>3. QED
      BY <2>1, <2>2
  <1>2. CASE RowLeaves
    <2>1. NoRow \in [at : 0..MaxClock, broken : BOOLEAN]
      BY TiersAssumption DEF NoRow
    <2>2. QED
      BY <1>2, <2>1 DEF RowLeaves
  <1>3. CASE LinkChanges
    BY <1>3, TiersAssumption DEF LinkChanges
  <1>4. CASE Heartbeat
    BY <1>4, TiersAssumption DEF Heartbeat
  <1>5. QED
    BY <1>1, <1>2, <1>3, <1>4 DEF TiersNext

-----------------------------------------------------------------------------
(* One computation. *)

\* What a computation for a row in the fleet leaves, and what a recovery takes.
LEMMA RowComputed ==
    ASSUME TiersInv, NEW row \in [at : 0..MaxClock, broken : BOOLEAN], NEW severed \in BOOLEAN,
           NEW now \in 1..MaxClock, Compute(row, severed, now), row # NoRow,
           row = ftRow \/ (row.at > ftRow.at /\ row.at <= now), now >= ftClock
    PROVE  /\ TiersInv'
           /\ (ftTier \in Silent /\ ftTier' \in Live) => Cardinality(ftHeard') >= RecoverySamples
  <1> DEFINE samples == Trim(Recorded(ftSamples, row), now)
             candidate == Classify(row, severed, now)
             since == IF ftTier \in Live THEN {} ELSE ftHeard
  <1> USE DEF TiersInv
  <1>1. /\ ftRow' = row /\ ftSevered' = severed /\ ftClock' = now
        /\ ftSamples' = samples /\ ftTier' = Recovered(ftTier, candidate, samples)
        /\ ftHeard' = IF row.at > ftRow.at THEN since \cup {row.at} ELSE since
    BY DEF Compute
  <1>2. now \in Nat /\ row.at \in 1..MaxClock /\ row.at <= now /\ ftRow.at \in 0..MaxClock
        /\ ftRow.at <= row.at
    BY TiersAssumption DEF TrackerInv, TiersTypeOK
  <1>3. /\ samples \subseteq ftSamples \cup {row.at} /\ samples \subseteq 1..MaxClock
        /\ \A t \in samples : t + RecoveryWindow >= now
        /\ ftSamples \subseteq 1..MaxClock
    BY <1>2, SamplesTypes DEF TiersTypeOK
  <1>4. /\ candidate \in Live \cup Silent
        /\ candidate \in Silent => Aged(row, now)
        /\ Live \cap Silent = {}
    BY <1>2, ClassifyTypes
  <1>5. ftTier' = candidate \/ (ftTier' = ftTier /\ ftTier \in Silent)
    BY <1>1, RecoveredTypes
  <1> HIDE DEF samples, candidate, since
  <1>6. \A t \in samples : t <= row.at
    BY <1>2, <1>3 DEF TrackerInv
  <1>7. Aged(row, now) => samples = {}
    BY <1>2, <1>3, <1>6, TiersAssumption DEF Aged
  <1>8. ftTier \in Silent => samples \subseteq ftHeard' /\ (row.at \in ftHeard' \/ Aged(row, now))
    <2> SUFFICES ASSUME ftTier \in Silent
                 PROVE  samples \subseteq ftHeard' /\ (row.at \in ftHeard' \/ Aged(row, now))
      OBVIOUS
    <2>1. ftHeard \subseteq ftHeard' /\ ftSamples \subseteq ftHeard
      BY <1>1, <1>4 DEF SilentInv, since
    <2>2. CASE row.at > ftRow.at
      BY <1>1, <1>3, <2>1, <2>2
    <2>3. CASE ~(row.at > ftRow.at)
      <3>1. row = ftRow
        BY <2>3
      <3>2. row.at \in ftHeard \/ Aged(row, now)
        BY <3>1, <1>2, TiersAssumption DEF SilentInv, Aged, TiersTypeOK
      <3>3. QED
        BY <3>2, <2>1, <1>3, <1>7
    <2>4. QED
      BY <2>2, <2>3
  <1>9. ftHeard' \subseteq 1..MaxClock
    BY <1>1, <1>2 DEF TiersTypeOK, since
  <1>10. TiersTypeOK'
    <2>1. ftTier' \in Live \cup Silent
      BY <1>4, <1>5
    <2>2. QED
      BY <1>1, <1>3, <1>9, <2>1 DEF TiersTypeOK
  <1>11. TrackerInv'
    <2>1. ftTier' # "none"
      BY <1>4, <1>5 DEF Live, Silent
    <2>2. QED
      BY <1>1, <1>2, <1>6, <2>1 DEF TrackerInv
  <1>12. SilentInv'
    <2> SUFFICES ASSUME ftTier' \in Silent
                 PROVE  samples \subseteq ftHeard' /\ (row.at \in ftHeard' \/ Aged(row, now))
      BY <1>1 DEF SilentInv
    <2>1. CASE ftTier \in Silent
      BY <2>1, <1>8
    <2>2. CASE ftTier \notin Silent
      BY <2>2, <1>4, <1>5, <1>7
    <2>3. QED
      BY <2>1, <2>2
  <1>13. ASSUME ftTier \in Silent, ftTier' \in Live PROVE Cardinality(ftHeard') >= RecoverySamples
    <2>1. IsFiniteSet(1..MaxClock)
      BY FS_Interval, TiersAssumption
    <2>2. IsFiniteSet(ftHeard')
      BY <1>9, <2>1, FS_Subset
    <2>3. IsFiniteSet(samples) /\ Cardinality(samples) <= Cardinality(ftHeard')
      BY <1>8, <1>13, <2>2, FS_Subset
    <2>4. Cardinality(samples) \in Nat /\ Cardinality(ftHeard') \in Nat
      BY <2>2, <2>3, FS_CardinalityType
    <2>5. ~(Cardinality(samples) < RecoverySamples)
      <3>1. ftTier \notin Live
        BY <1>4, <1>13
      <3>2. QED
        BY <1>1, <1>13, <3>1, RecoveredTypes
    <2>6. QED
      BY <2>3, <2>4, <2>5, TiersAssumption
  <1>14. QED
    BY <1>10, <1>11, <1>12, <1>13

\* An asset that leaves the fleet takes its tracker with it.
LEMMA RowGone ==
    ASSUME TiersInv, NEW severed \in BOOLEAN, NEW now \in 1..MaxClock, Compute(NoRow, severed, now)
    PROVE  TiersInv' /\ ftTier' \notin Live
  <1>1. /\ ftRow' = NoRow /\ ftSevered' = severed /\ ftClock' = now
        /\ ftSamples' = {} /\ ftTier' = "none" /\ ftHeard' = {}
    BY DEF Compute
  <1>2. NoRow.at = 0 /\ NoRow \in [at : 0..MaxClock, broken : BOOLEAN]
    BY TiersAssumption DEF NoRow
  <1>3. QED
    BY <1>1, <1>2, TiersAssumption DEF TiersInv, TiersTypeOK, TrackerInv, SilentInv, Live, Silent

-----------------------------------------------------------------------------
(* The theorems. *)

LEMMA TiersInvInit == TiersInit => TiersInv
  <1> SUFFICES ASSUME TiersInit PROVE TiersInv
    OBVIOUS
  <1>1. NoRow.at = 0 /\ NoRow \in [at : 0..MaxClock, broken : BOOLEAN]
    BY TiersAssumption DEF NoRow
  <1>2. TiersTypeOK
    <2>1. 1 \in 1..MaxClock
      BY TiersAssumption
    <2>2. ftClock = 1 /\ ftRow = NoRow /\ ftSevered = FALSE
          /\ ftSamples = {} /\ ftTier = "none" /\ ftHeard = {}
      BY DEF TiersInit
    <2>3. QED
      BY <1>1, <2>1, <2>2 DEF TiersTypeOK
  <1>3. TrackerInv /\ SilentInv
    BY <1>1 DEF TiersInit, TrackerInv, SilentInv, Silent
  <1>4. QED
    BY <1>2, <1>3 DEF TiersInv

LEMMA TiersStep ==
    ASSUME TiersInv, TiersNext
    PROVE  /\ TiersInv'
           /\ (ftTier \in Silent /\ ftTier' \in Live) => Cardinality(ftHeard') >= RecoverySamples
  <1>1. PICK row \in [at : 0..MaxClock, broken : BOOLEAN], severed \in BOOLEAN, now \in 1..MaxClock :
            /\ Compute(row, severed, now)
            /\ row = NoRow \/ row = ftRow \/ (row.at > ftRow.at /\ row.at <= now)
            /\ now >= ftClock
    BY StepComputes
  <1>2. CASE row = NoRow
    BY <1>1, <1>2, RowGone
  <1>3. CASE row # NoRow
    BY <1>1, <1>3, RowComputed
  <1>4. QED
    BY <1>2, <1>3

LEMMA TiersInvStep == TiersInv /\ [TiersNext]_tierVars => TiersInv'
  <1> SUFFICES ASSUME TiersInv, [TiersNext]_tierVars PROVE TiersInv'
    OBVIOUS
  <1>1. CASE TiersNext
    BY <1>1, TiersStep
  <1>2. CASE UNCHANGED tierVars
    BY <1>2 DEF tierVars, TiersInv, TiersTypeOK, TrackerInv, SilentInv
  <1>3. QED
    BY <1>1, <1>2

\* The tracker's types, and what a silent asset's tracker holds
\* (useFleetTiers.ts).
THEOREM TrackerCorrect == TiersSpec => []TiersInv
  BY TiersInvInit, TiersInvStep, PTL DEF TiersSpec

\* A silent asset is shown alive only after recovery_samples_n samples came
\* since it was last alive (useFleetTiers.ts 101-143).
THEOREM RecoveryEarned == TiersSpec => RecoveryIsEarned
  <1>1. TiersInv /\ [TiersNext]_tierVars =>
            [(ftTier \in Silent /\ ftTier' \in Live)
                => Cardinality(ftHeard') >= RecoverySamples]_tierVars
    BY TiersStep
  <1>2. QED
    BY <1>1, TrackerCorrect, PTL DEF TiersSpec, RecoveryIsEarned

-----------------------------------------------------------------------------
(* Resets (ExercisePopup).                                                 *)

\* A count that is shown was made for the press that is still the last.
PopupInv ==
    /\ exPreflight.kind = "ready" => exPreflight.of = exSeq
    /\ NoUnseenCancel

LEMMA PopupBegins == PopupInit => PopupInv
  BY DEF PopupInit, PopupInv, NoUnseenCancel, NoPreflight, NoReset

LEMMA ForgetKeeps ==
  ASSUME PopupInv, Forget, UNCHANGED exSent
  PROVE  PopupInv'
  BY DEF PopupInv, NoUnseenCancel, Forget, NoPreflight

LEMMA PopupStep == PopupInv /\ [PopupNext]_popupVars => PopupInv'
  <1> SUFFICES ASSUME PopupInv, [PopupNext]_popupVars PROVE PopupInv'
    OBVIOUS
  <1>1. CASE UNCHANGED <<exPreflight, exSeq, exSent>>
    BY <1>1 DEF PopupInv, NoUnseenCancel
  <1>2. CASE ShownChanges \/ Open \/ SendNow \/ AskFirst \/ UNCHANGED popupVars
    BY <1>1, <1>2 DEF ShownChanges, Open, SendNow, AskFirst, popupVars, askVars
  <1>3. CASE Close \/ CancelConfirm
    BY <1>3, ForgetKeeps DEF Close, CancelConfirm
  <1>4. CASE AskReset
    BY <1>4 DEF AskReset, PopupInv, NoUnseenCancel
  <1>5. ASSUME NEW c \in exCounts, Counted(c) PROVE PopupInv'
    BY <1>5 DEF Counted, PopupInv, NoUnseenCancel
  <1>6. CASE Confirm
    <2>1. exPreflight' = NoPreflight
      BY <1>6 DEF Confirm, Forget
    <2>2. NoUnseenCancel'
      BY <1>6 DEF Confirm, ConfirmBody, PopupInv, NoUnseenCancel
    <2> QED
      BY <2>1, <2>2 DEF PopupInv, NoPreflight
  <1> QED
    BY <1>2, <1>3, <1>4, <1>5, <1>6 DEF PopupNext

\* A reset cancels open work only on the count made for its own press
\* (ExercisePopup.tsx), however many presses were given up while theirs was on
\* its way.
THEOREM CancelsWereSeen == PopupSpec => []NoUnseenCancel
  <1>1. PopupInv => NoUnseenCancel
    BY DEF PopupInv
  <1> QED
    BY <1>1, PopupBegins, PopupStep, PTL DEF PopupSpec

-----------------------------------------------------------------------------
(* The fault report (FaultReport).                                         *)

PaneReads == [who : {"cases", "form"}, of : PaneAssets, live : BOOLEAN]

LEMMA ReadMade ==
  ASSUME NEW who \in {"cases", "form"}, NEW asset \in PaneAssets
  PROVE  /\ Read(who, asset) \in PaneReads
         /\ Read(who, asset).who = who /\ Read(who, asset).of = asset /\ Read(who, asset).live
  BY DEF Read, PaneReads

\* A cleanup leaves a read as it is, and cancelled.
LEMMA ReadCancelled ==
  ASSUME NEW r \in PaneReads
  PROVE  [r EXCEPT !.live = FALSE] \in PaneReads /\ ~[r EXCEPT !.live = FALSE].live
  BY DEF PaneReads

\* Only an open form has fields; they, and what is sent of them, are the asset's
\* unless they are carried over a change.
FieldsOwn ==
    /\ ~paOpen => paFilled = {}
    /\ ~paCarried => paFilled \subseteq {paAsset}
    /\ \A s \in paSent : ~s.carried => s.filled \subseteq {s.of}

\* A read that was not cancelled is of the asset selected.
ReportInv ==
    /\ paReads \subseteq PaneReads
    /\ \A r \in paReads : r.live => r.of = paAsset
    /\ paAsset \in PaneAssets
    /\ FieldsOwn
    /\ ReportIsOnTheAsset

LEMMA ReportBegins == FaultReportInit => ReportInv
  BY FaultReportAssumption DEF FaultReportInit, ReportInv, ReportIsOnTheAsset, FieldsOwn, Read, PaneReads

\* Only the submit sends the fields, and only a form's opening, its choices and
\* its end fill them; a change of the asset leaves them to be carried.
LEMMA FieldsStep == ReportInv /\ [FaultReportNext]_paVars => FieldsOwn'
  <1> SUFFICES ASSUME ReportInv, [FaultReportNext]_paVars PROVE FieldsOwn'
    OBVIOUS
  <1>1. FieldsOwn /\ paCatalog \in {"none", "off", paAsset}
    BY DEF ReportInv, ReportIsOnTheAsset
  <1>2. CASE UNCHANGED <<paAsset, paOpen, fieldVars, paSent>>
    BY <1>1, <1>2 DEF FieldsOwn, fieldVars
  <1>3. CASE FaultDetected \/ FaultRecorded \/ CasesPoll \/ ReadEnds \/ UNCHANGED paVars
    BY <1>2, <1>3 DEF FaultDetected, FaultRecorded, CasesPoll, ReadEnds, formVars, fieldVars, paVars
  <1>4. CASE SelectAsset
    BY <1>1, <1>4 DEF SelectAsset, FieldsOwn
  <1>5. ASSUME NEW fault, Opened(fault) PROVE FieldsOwn'
    BY <1>1, <1>5 DEF Opened, FieldsOwn
  <1>6. CASE CloseForm \/ ReportAccepted
    <2>1. paSent' \subseteq paSent /\ paFilled' = {}
      BY <1>6 DEF CloseForm, ReportAccepted, SheetCloses
    <2> QED
      BY <1>1, <2>1 DEF FieldsOwn
  <1>7. CASE ChooseCode \/ ChooseNotListed \/ ChoosePart
    <2>1. paSent' = paSent /\ paAsset' = paAsset /\ paOpen /\ paOpen' = paOpen
      BY <1>7 DEF ChooseCode, ChooseNotListed, ChoosePart
    <2>2. ~paCarried' => paFilled' \subseteq {paAsset}
      BY <1>1, <1>7 DEF ChooseCode, ChooseNotListed, ChoosePart, FieldsOwn
    <2> QED
      BY <1>1, <2>1, <2>2 DEF FieldsOwn
  <1>8. CASE Submit
    BY <1>1, <1>8 DEF Submit, FieldsOwn, fieldVars
  <1>9. CASE ReportRefused
    <2>1. paSent' \subseteq paSent /\ UNCHANGED <<paAsset, paOpen, fieldVars>>
      BY <1>9 DEF ReportRefused
    <2> QED
      BY <1>1, <2>1 DEF FieldsOwn, fieldVars
  <1> QED
    BY <1>3, <1>4, <1>5, <1>6, <1>7, <1>8, <1>9 DEF FaultReportNext, OpenForm, RecordIt

\* Reads are dropped, other than those of the cases, or added.
LEMMA ReadsChange ==
  ASSUME ReportInv, NEW who \in {"cases", "form"},
         \A r \in paReads \ paReads' : r.who # "cases",
         paReads' \subseteq paReads \cup {Read(who, paAsset)},
         UNCHANGED <<paAsset, paCases>>, paCatalog' \in {"none", paCatalog}, FieldsOwn'
  PROVE  ReportInv'
  <1>1. /\ paReads' \subseteq PaneReads
        /\ \A r \in paReads' : r.live => r.of = paAsset
    <2>1. Read(who, paAsset) \in PaneReads /\ Read(who, paAsset).of = paAsset
      BY ReadMade DEF ReportInv
    <2> QED
      BY <2>1 DEF ReportInv
  <1>2. ASSUME NEW r \in paReads, r.who = "cases" PROVE r \in paReads'
    BY <1>2
  <1>3. (\E r \in paReads : r.who = "cases" /\ r.live) => \E r \in paReads' : r.who = "cases" /\ r.live
    BY <1>2
  <1>4. ReportIsOnTheAsset'
    BY <1>3 DEF ReportInv, ReportIsOnTheAsset, FieldsOwn
  <1>5. paAsset' \in PaneAssets
    BY DEF ReportInv
  <1> QED
    BY <1>1, <1>4, <1>5 DEF ReportInv

LEMMA ReportSwitches ==
  ASSUME ReportInv, SelectAsset, FieldsOwn'
  PROVE  ReportInv'
  <1>1. paAsset' \in PaneAssets /\ paCatalog' = "none"
    BY DEF SelectAsset
  <1>2. ASSUME NEW r \in paReads'
        PROVE  r \in PaneReads /\ (r.live => r.of = paAsset')
    <2>1. CASE \E q \in paReads : r = [q EXCEPT !.live = FALSE]
      BY <2>1, ReadCancelled DEF ReportInv
    <2>2. CASE \E w \in {"cases", "form"} : r = Read(w, paAsset')
      BY <1>1, <2>2, ReadMade
    <2> QED
      BY <2>1, <2>2 DEF SelectAsset
  <1> DEFINE now == Read("cases", paAsset')
  <1>3. now \in paReads'
    BY DEF SelectAsset
  <1>4. now.who = "cases" /\ now.live
    BY <1>1, ReadMade
  <1> HIDE DEF now
  <1>5. ReportIsOnTheAsset'
    BY <1>1, <1>3, <1>4 DEF ReportIsOnTheAsset, FieldsOwn
  <1> QED
    BY <1>1, <1>2, <1>5 DEF ReportInv

LEMMA ReportAnswers ==
  ASSUME ReportInv, ReadEnds, FieldsOwn'
  PROVE  ReportInv'
  <1>1. PICK r \in paReads : \E held \in {"off", r.of} :
          /\ paReads' = paReads \ {r}
          /\ paCatalog' = IF r.who = "form" /\ Takes(r) THEN held ELSE paCatalog
          /\ paCases' = IF r.who = "cases" /\ Takes(r) THEN held ELSE paCases
    BY DEF ReadEnds
  <1>2. paAsset' = paAsset
    BY DEF ReadEnds
  <1>3. r.live => r.of = paAsset
    BY DEF ReportInv
  <1> QED
    BY <1>1, <1>2, <1>3 DEF ReportInv, ReportIsOnTheAsset, FieldsOwn, Takes

LEMMA ReportStep == ReportInv /\ [FaultReportNext]_paVars => ReportInv'
  <1> SUFFICES ASSUME ReportInv, [FaultReportNext]_paVars PROVE ReportInv'
    OBVIOUS
  <1>0. FieldsOwn'
    BY FieldsStep
  <1>1. CASE UNCHANGED <<paAsset, paReads, paCases>> /\ paCatalog' \in {"none", paCatalog}
    BY <1>0, <1>1, ReadsChange
  <1>2. CASE FaultDetected \/ FaultRecorded \/ ChooseCode \/ ChooseNotListed \/ ChoosePart
             \/ Submit \/ ReportRefused \/ UNCHANGED paVars
    BY <1>1, <1>2 DEF FaultDetected, FaultRecorded, ChooseCode, ChooseNotListed, ChoosePart,
                      Submit, ReportRefused, paVars, formVars
  <1>3. CASE CasesPoll
    BY <1>0, <1>3, ReadsChange DEF CasesPoll, formVars
  <1>4. ASSUME NEW fault, Opened(fault) PROVE ReportInv'
    BY <1>0, <1>4, ReadsChange DEF Opened
  <1>5. CASE CloseForm \/ ReportAccepted
    BY <1>0, <1>5, ReadsChange DEF CloseForm, ReportAccepted, SheetCloses
  <1> QED
    BY <1>0, <1>2, <1>3, <1>4, <1>5, ReportSwitches, ReportAnswers DEF FaultReportNext, OpenForm, RecordIt

-----------------------------------------------------------------------------
(* The manual (ManualPanel).                                               *)

ManualReads == [of : ManualAssets, live : BOOLEAN]

LEMMA ManualRead ==
  ASSUME NEW asset \in ManualAssets
  PROVE  CatalogOf(asset) \in ManualReads /\ CatalogOf(asset).of = asset /\ CatalogOf(asset).live
  BY DEF CatalogOf, ManualReads

LEMMA ManualCancelled ==
  ASSUME NEW r \in ManualReads
  PROVE  [r EXCEPT !.live = FALSE] \in ManualReads /\ ~[r EXCEPT !.live = FALSE].live
  BY DEF ManualReads

\* Once no read of the catalog is live, the catalog that is held is the asset's.
ManualInv ==
    /\ mpReads \subseteq ManualReads
    /\ \A r \in mpReads : r.live => r.of = mpAsset
    /\ mpAsset \in ManualAssets
    /\ (\E r \in mpReads : r.live) \/ mpCatalog \in {"off", mpAsset}

LEMMA ManualBegins == ManualInit => ManualInv
  BY ManualAssumption DEF ManualInit, ManualInv, CatalogOf, ManualReads

LEMMA ManualStep == ManualInv /\ [ManualNext]_mpVars => ManualInv'
  <1> SUFFICES ASSUME ManualInv, [ManualNext]_mpVars PROVE ManualInv'
    OBVIOUS
  <1>1. CASE UNCHANGED <<mpAsset, mpReads, mpCatalog>>
    BY <1>1 DEF ManualInv
  <1>2. CASE ToggleManual \/ AskManual \/ AskEnds \/ UNCHANGED mpVars
    BY <1>1, <1>2 DEF ToggleManual, AskManual, AskEnds, mpVars
  <1>3. CASE ManualAssetChanges
    <2>1. mpAsset' \in ManualAssets
      BY <1>3 DEF ManualAssetChanges
    <2>2. ASSUME NEW r \in mpReads'
          PROVE  r \in ManualReads /\ (r.live => r.of = mpAsset')
      <3>1. CASE \E q \in mpReads : r = [q EXCEPT !.live = FALSE]
        BY <3>1, ManualCancelled DEF ManualInv
      <3>2. CASE r = CatalogOf(mpAsset')
        BY <2>1, <3>2, ManualRead
      <3> QED
        BY <1>3, <3>1, <3>2 DEF ManualAssetChanges
    <2> DEFINE now == CatalogOf(mpAsset')
    <2>3. now \in mpReads'
      BY <1>3 DEF ManualAssetChanges
    <2>4. now.live
      BY <2>1, ManualRead
    <2> HIDE DEF now
    <2> QED
      BY <2>1, <2>2, <2>3, <2>4 DEF ManualInv
  <1>4. CASE ManualCatalogEnds
    <2>1. PICK r \in mpReads : \E held \in {r.of, "off"} :
            mpReads' = mpReads \ {r} /\ mpCatalog' = Kept(r, held) /\ mpAsset' = mpAsset
      BY <1>4 DEF ManualCatalogEnds
    <2> QED
      BY <2>1 DEF ManualInv, Kept
  <1> QED
    BY <1>2, <1>3, <1>4 DEF ManualNext

LEMMA ManualShows == ManualInv => AnswerIsOnTheAsset
  BY DEF ManualInv, AnswerIsOnTheAsset, AnswerIsDrawn, InScope

-----------------------------------------------------------------------------
(* The arrivals (SitePanes).                                               *)

SiteReads == [edge : SiteEdges, live : BOOLEAN, poll : BOOLEAN]

\* What is held of an edge, and declared at it, is what arrived there.
HeldRight == spHeld.kind = "ok" => spHeld.rows \subseteq ArrivalsAt[spHeld.edge]

DeclaredRight == \A d \in spDeclares : d.edge \in SiteEdges /\ d.asset \in ArrivalsAt[d.edge]

Undeclared == [SiteEdges -> SUBSET UNION {ArrivalsAt[e] : e \in SiteEdges}]

SiteInv ==
    /\ spReads \subseteq SiteReads
    /\ spEdge \in SiteEdges
    /\ spUndeclared \in Undeclared
    /\ \A e \in SiteEdges : spUndeclared[e] \subseteq ArrivalsAt[e]
    /\ HeldRight
    /\ DeclaredRight

LEMMA SitesBegin == SitePanesInit => SiteInv
  BY SitePanesAssumption
  DEF SitePanesInit, SiteInv, HeldRight, DeclaredRight, Undeclared, SiteReads, PollOf, NotHeld, None

LEMMA ListedArrived == SiteInv => Listed \subseteq ArrivalsAt[spEdge]
  BY DEF SiteInv, HeldRight, Listed, Mine, NotHeld, None

LEMMA EdgeSwaps ==
  ASSUME SiteInv, SwapEdge
  PROVE  SiteInv'
  <1>1. spEdge' \in SiteEdges /\ UNCHANGED <<spUndeclared, spHeld, spDeclares>>
    BY DEF SwapEdge
  <1>2. ASSUME NEW r \in spReads' PROVE r \in SiteReads
    <2>1. CASE \E q \in spReads : r = [q EXCEPT !.live = ~q.poll]
      <3>1. PICK q \in SiteReads : r = [q EXCEPT !.live = ~q.poll]
        BY <2>1 DEF SiteInv
      <3>2. PICK off \in BOOLEAN : r = [q EXCEPT !.live = off]
        BY <3>1, Zenon
      <3> QED
        BY <3>2 DEF SiteReads
    <2>2. CASE r = PollOf(spEdge')
      BY <1>1, <2>2 DEF PollOf, SiteReads
    <2> QED
      BY <2>1, <2>2 DEF SwapEdge
  <1> QED
    BY <1>1, <1>2 DEF SiteInv, HeldRight, DeclaredRight

LEMMA ArrivalsCome ==
  ASSUME SiteInv, ArrivalsEnd
  PROVE  SiteInv'
  <1>1. PICK r \in spReads :
          /\ spReads' = spReads \ {r}
          /\ IF r.live THEN \E result \in Results(r.edge) : spHeld' = Applied(r.edge, result)
             ELSE UNCHANGED spHeld
    BY DEF ArrivalsEnd
  <1>2. UNCHANGED <<spEdge, spUndeclared, spDeclares>>
    BY DEF ArrivalsEnd
  <1>3. r.edge \in SiteEdges
    BY DEF SiteInv, SiteReads
  <1>4. ASSUME NEW result \in Results(r.edge) PROVE result.kind = "ok" => result.rows \subseteq ArrivalsAt[result.edge]
    BY <1>3 DEF Results, SiteInv
  <1>5. HeldRight'
    BY <1>1, <1>4 DEF Applied, HeldRight, SiteInv
  <1> QED
    BY <1>1, <1>2, <1>5 DEF SiteInv, DeclaredRight

LEMMA DeclarationEnds ==
  ASSUME SiteInv, DeclareDone \/ DeclareRefused
  PROVE  SiteInv'
  <1>1. PICK d \in spDeclares :
          /\ spDeclares' = spDeclares \ {d}
          /\ spUndeclared' \in {spUndeclared, [spUndeclared EXCEPT ![d.edge] = @ \ {d.asset}]}
          /\ spReads' \subseteq spReads \cup {[edge |-> d.edge, live |-> TRUE, poll |-> FALSE]}
    BY DEF DeclareDone, DeclareRefused
  <1>2. UNCHANGED <<spEdge, spHeld>>
    BY DEF DeclareDone, DeclareRefused
  <1>3. d.edge \in SiteEdges
    BY DEF SiteInv, DeclaredRight
  <1>4. spUndeclared' \in Undeclared /\ \A f \in SiteEdges : spUndeclared'[f] \subseteq ArrivalsAt[f]
    <2> DEFINE e == d.edge
               a == d.asset
    <2>1. e \in SiteEdges /\ spUndeclared' \in {spUndeclared, [spUndeclared EXCEPT ![e] = @ \ {a}]}
      BY <1>1, <1>3
    <2> HIDE DEF e, a
    <2>2. CASE spUndeclared' = spUndeclared
      BY <2>2 DEF SiteInv
    <2>3. CASE spUndeclared' = [spUndeclared EXCEPT ![e] = @ \ {a}]
      BY <2>1, <2>3 DEF SiteInv, Undeclared
    <2> QED
      BY <2>1, <2>2, <2>3
  <1>5. [edge |-> d.edge, live |-> TRUE, poll |-> FALSE] \in SiteReads
    BY <1>3 DEF SiteReads
  <1>6. spReads' \subseteq SiteReads
    BY <1>1, <1>5 DEF SiteInv
  <1> QED
    BY <1>1, <1>2, <1>4, <1>6 DEF SiteInv, HeldRight, DeclaredRight

LEMMA SiteStep == SiteInv /\ [SitePanesNext]_spVars => SiteInv'
  <1> SUFFICES ASSUME SiteInv, [SitePanesNext]_spVars PROVE SiteInv'
    OBVIOUS
  <1>1. CASE UNCHANGED <<spReads, spEdge, spUndeclared, spHeld, spDeclares>>
    BY <1>1 DEF SiteInv, HeldRight, DeclaredRight
  <1>2. CASE OpenDeclare \/ CancelDeclare \/ UNCHANGED spVars
    BY <1>1, <1>2 DEF OpenDeclare, CancelDeclare, spVars, arrivalVars
  <1>3. CASE CommitDestination \/ AdmissionHead \/ AdmissionBody \/ AdmissionFails
    BY <1>1, <1>3 DEF CommitDestination, AdmissionHead, AdmissionBody, AdmissionFails, arrivalVars
  <1>4. CASE ArrivalsPoll
    <2>1. /\ spReads' = spReads \cup {PollOf(spEdge)}
          /\ UNCHANGED <<spEdge, spUndeclared, spHeld, spDeclares>>
      BY <1>4 DEF ArrivalsPoll
    <2>2. PollOf(spEdge) \in SiteReads
      BY DEF PollOf, SiteReads, SiteInv
    <2> QED
      BY <2>1, <2>2 DEF SiteInv, HeldRight, DeclaredRight
  <1>5. CASE Declare
    <2>1. PICK d : /\ d.edge = spEdge /\ d.asset = spTarget
                   /\ spDeclares' = spDeclares \cup {d}
      BY <1>5 DEF Declare
    <2>2. spTarget \in ArrivalsAt[spEdge]
      BY <1>5, ListedArrived DEF Declare
    <2>3. UNCHANGED <<spReads, spEdge, spUndeclared, spHeld>>
      BY <1>5 DEF Declare
    <2>4. DeclaredRight'
      BY <2>1, <2>2 DEF SiteInv, DeclaredRight
    <2> QED
      BY <2>3, <2>4 DEF SiteInv, HeldRight
  <1> QED
    BY <1>2, <1>3, <1>4, <1>5, EdgeSwaps, ArrivalsCome, DeclarationEnds DEF SitePanesNext

LEMMA SitesShow == SiteInv => ArrivalsAreTheEdges
  BY ListedArrived DEF ArrivalsAreTheEdges, SiteInv, DeclaredRight

-----------------------------------------------------------------------------
(* The charts (TelemetryCharts).                                           *)

\* The histories hold samples of the key they were last reset for, which is the
\* page's own key while something is charted.
ChartsInv ==
    /\ tcRebuilt = RebuildKey
    /\ Charting => tcResetFor = RebuildKey
    /\ tcHistory \in Seq({Blank, tcResetFor}) /\ Len(tcHistory) = History

LEMMA ZerosAreBlank == Zeros \in Seq({Blank}) /\ Len(Zeros) = History
  BY ChartsAssumption DEF Zeros

LEMMA ChartsBegin == ChartsInit => ChartsInv
  <1> SUFFICES ASSUME ChartsInit PROVE ChartsInv
    OBVIOUS
  <1>1. Zeros \in Seq({Blank, tcResetFor}) /\ Len(Zeros) = History
    BY ZerosAreBlank
  <1>2. tcRollup = FALSE /\ tcTel = "loading" /\ tcOff = FALSE
    BY DEF ChartsInit
  <1>3. ~Charting
    BY <1>2 DEF Charting, Source
  <1> QED
    BY <1>1, <1>3 DEF ChartsInit, ChartsInv

\* A sample more, and the oldest gone.
LEMMA SampleTaken ==
  ASSUME NEW S, NEW kept \in Seq(S), Len(kept) = History, NEW sample \in S
  PROVE  Append(Tail(kept), sample) \in Seq(S) /\ Len(Append(Tail(kept), sample)) = History
  <1>1. kept # << >>
    BY ChartsAssumption
  <1>2. Tail(kept) \in Seq(S) /\ Len(Tail(kept)) = History - 1
    BY <1>1
  <1> QED
    BY <1>2, ChartsAssumption

LEMMA EffectsKeep ==
  ASSUME ChartsInv, Effects
  PROVE  ChartsInv'
  <1> DEFINE resets == RebuildKey' # tcRebuilt /\ Charting' /\ RebuildKey' # tcResetFor
             kept == IF resets THEN Zeros ELSE tcHistory
  <1>1. /\ tcRebuilt' = RebuildKey'
        /\ tcResetFor' = IF resets THEN RebuildKey' ELSE tcResetFor
        /\ tcHistory' = IF Charting' THEN Append(Tail(kept), Sample') ELSE kept
    BY DEF Effects
  <1>2. kept \in Seq({Blank, tcResetFor'}) /\ Len(kept) = History
    <2>1. CASE resets
      BY <2>1, ZerosAreBlank
    <2>2. CASE ~resets
      BY <1>1, <2>2 DEF ChartsInv
    <2> QED
      BY <2>1, <2>2
  <1>3. Charting' => tcResetFor' = RebuildKey'
    <2>1. RebuildKey' = RebuildKey => Charting' = Charting
      BY DEF RebuildKey, Charting
    <2> QED
      BY <1>1, <2>1 DEF ChartsInv
  <1>4. Sample' = RebuildKey'
    BY DEF Sample, RebuildKey
  <1> HIDE DEF kept
  <1>5. tcHistory' \in Seq({Blank, tcResetFor'}) /\ Len(tcHistory') = History
    <2>1. CASE Charting'
      <3>1. Sample' \in {Blank, tcResetFor'}
        BY <1>3, <1>4, <2>1
      <3> QED
        BY <1>1, <1>2, <2>1, <3>1, SampleTaken
    <2>2. CASE ~Charting'
      BY <1>1, <1>2, <2>2
    <2> QED
      BY <2>1, <2>2
  <1> QED
    BY <1>1, <1>3, <1>5 DEF ChartsInv

LEMMA ChartsStep == ChartsInv /\ [ChartsNext]_chartVars => ChartsInv'
  <1> SUFFICES ASSUME ChartsInv, [ChartsNext]_chartVars PROVE ChartsInv'
    OBVIOUS
  <1>1. CASE Effects
    BY <1>1, EffectsKeep
  <1>2. CASE UNCHANGED chartVars
    BY <1>2 DEF ChartsInv, RebuildKey, Charting, Source, chartVars, chartProps
  <1> QED
    BY <1>1, <1>2 DEF ChartsNext, ChartAnother, TelemetryComes, RollupComes, VariantComes, PowerChanges, RendersAgain

LEMMA ChartsShow == ChartsInv => ChartsAreTheAssets
  <1> SUFFICES ASSUME ChartsInv, Mounted PROVE \A i \in 1..History : tcHistory[i] \in {Blank, Sample}
    BY DEF ChartsAreTheAssets
  <1>1. tcResetFor = Sample
    BY DEF ChartsInv, Mounted, Sample, RebuildKey
  <1> QED
    BY <1>1 DEF ChartsInv

-----------------------------------------------------------------------------
(* The deployment (Boot, Basemap).                                         *)

\* What was read of the deployment, before and after the site table is applied.
Deployment(tier, title, links, map, liveness, fobs, own, bad) ==
    [tier |-> tier, title |-> title, links |-> links, map |-> map, liveness |-> liveness,
     fobs |-> fobs, ownFob |-> own, siteError |-> bad]

\* SitesAreItsOwn of a deployment whose tier was refused or not.
SitesRight(d, refused) ==
    /\ refused => d.fobs = {} /\ d.tier = Rejected
    /\ d.tier.parent # "none" => \A f, g \in d.fobs : f.region = g.region
    /\ d.ownFob # "none" => \E f \in d.fobs : f.edge = d.ownFob
    /\ d.siteError => d.fobs = {}

BootInv ==
    btStage # "fetching" =>
        /\ \A s \in Sources : btGot[s] # "asked"
        /\ \E tier, title, links, map, liveness, fobs, own, bad :
              btActive = Deployment(tier, title, links, map, liveness, fobs, own, bad)
        /\ SitesRight(btActive, RefusedTier)

LEMMA FileParses ==
  ASSUME NEW file
  PROVE  \E tier, title, links, map, liveness :
           /\ Parsed(file) = Deployment(tier, title, links, map, liveness, {}, "none", FALSE)
           /\ ~Throws(file) => tier = TierOf(file)
  <1>1. CASE Throws(file)
    BY <1>1 DEF Parsed, Default, Deployment
  <1>2. CASE ~Throws(file)
    <2> DEFINE title == IF "title" \in DOMAIN file THEN file["title"] ELSE Default.title
    <2>1. Parsed(file) = Deployment(TierOf(file), title, EntriesKept(SectionOf(file, "links")),
              WholeOrNothing(SectionOf(file, "map")), FieldsKept(SectionOf(file, "liveness")), {}, "none", FALSE)
      BY <1>2 DEF Parsed, Default, Deployment
    <2> QED
      BY <2>1
  <1> QED
    BY <1>1, <1>2

\* What a site table changes of a deployment without sites.
LEMMA DeploymentOf ==
  ASSUME NEW tier, NEW title, NEW links, NEW map, NEW liveness, NEW fobs, NEW own, NEW bad
  PROVE  /\ Deployment(tier, title, links, map, liveness, fobs, own, bad) \in
              [tier : {tier}, title : {title}, links : {links}, map : {map}, liveness : {liveness},
               fobs : {fobs}, ownFob : {own}, siteError : {bad}]
         /\ Deployment(tier, title, links, map, liveness, fobs, own, bad).tier = tier
  BY DEF Deployment

LEMMA SitesAdded ==
  ASSUME NEW tier, NEW title, NEW links, NEW map, NEW liveness,
         NEW d, d = Deployment(tier, title, links, map, liveness, {}, "none", FALSE), btGot["sites"] = "read"
  PROVE  /\ ~GoodTable(btServed.sites) => WithSites(d) = Deployment(tier, title, links, map, liveness, {}, "none", TRUE)
         /\ GoodTable(btServed.sites) =>
              LET rows == Range(btServed.sites.rows) IN
              WithSites(d) = Deployment(tier, title, links, map, liveness, FobsOf(tier, rows), OwnFobOf(tier, rows), FALSE)
  <1> DEFINE rows == Range(btServed.sites.rows)
             fobs == FobsOf(tier, rows)
             own == OwnFobOf(tier, rows)
  <1>0. /\ d.tier = tier
        /\ \A bad : [d EXCEPT !.siteError = bad] = Deployment(tier, title, links, map, liveness, {}, "none", bad)
        /\ \A fs, o : [d EXCEPT !.fobs = fs, !.ownFob = o] = Deployment(tier, title, links, map, liveness, fs, o, FALSE)
    <2> DEFINE no == {}
               none == "none"
               ok == FALSE
    <2>1. d = Deployment(tier, title, links, map, liveness, no, none, ok)
      OBVIOUS
    <2> HIDE DEF no, none, ok
    <2> DEFINE One(fs, o, b) ==
                 [tier : {tier}, title : {title}, links : {links}, map : {map}, liveness : {liveness},
                  fobs : {fs}, ownFob : {o}, siteError : {b}]
    <2>2. d \in One(no, none, ok) /\ d.tier = tier
      <3> DEFINE it == Deployment(tier, title, links, map, liveness, no, none, ok)
      <3>1. it \in One(no, none, ok) /\ it.tier = tier
        BY DeploymentOf
      <3> HIDE DEF it, One
      <3>2. d = it
        BY <2>1, Zenon DEF it
      <3> QED
        BY <3>1, <3>2
    <2>3. ASSUME NEW bad
          PROVE  [d EXCEPT !.siteError = bad] = Deployment(tier, title, links, map, liveness, no, none, bad)
      BY <2>2 DEF Deployment
    <2>4. ASSUME NEW fs, NEW o
          PROVE  [d EXCEPT !.fobs = fs, !.ownFob = o] = Deployment(tier, title, links, map, liveness, fs, o, ok)
      <3> DEFINE with == [d EXCEPT !.fobs = fs]
      <3>1. with \in One(fs, none, ok)
        BY <2>2
      <3>2. [with EXCEPT !.ownFob = o] = [d EXCEPT !.fobs = fs, !.ownFob = o]
        OBVIOUS
      <3> HIDE DEF with
      <3>3. [with EXCEPT !.ownFob = o] = Deployment(tier, title, links, map, liveness, fs, o, ok)
        BY <3>1 DEF Deployment
      <3> QED
        BY <3>2, <3>3, Zenon
    <2> QED
      BY <2>2, <2>3, <2>4, Zenon DEF no, none, ok
  <1>1. /\ d.tier = tier
        /\ [d EXCEPT !.siteError = TRUE] = Deployment(tier, title, links, map, liveness, {}, "none", TRUE)
        /\ [d EXCEPT !.fobs = fobs, !.ownFob = own] = Deployment(tier, title, links, map, liveness, fobs, own, FALSE)
    BY <1>0, Zenon
  <1>2. ~GoodTable(btServed.sites) => WithSites(d) = [d EXCEPT !.siteError = TRUE]
    BY Zenon DEF WithSites
  <1>3. GoodTable(btServed.sites) => WithSites(d) = [d EXCEPT !.fobs = fobs, !.ownFob = own]
    BY <1>1, Zenon DEF WithSites
  <1> QED
    BY <1>1, <1>2, <1>3, Zenon

\* An edge is in one region of a good table.
LEMMA OneRegion ==
  ASSUME NEW table, GoodTable(table),
         NEW f \in Range(table.rows), NEW g \in Range(table.rows), f.edge = g.edge
  PROVE  f = g
  BY DEF GoodTable, IsInjective, Range

LEMMA TableSelects ==
  ASSUME NEW table, GoodTable(table), NEW tier
  PROVE  /\ tier = Rejected => FobsOf(tier, Range(table.rows)) = {} /\ OwnFobOf(tier, Range(table.rows)) = "none"
         /\ tier.parent # "none" => \A f, g \in FobsOf(tier, Range(table.rows)) : f.region = g.region
         /\ OwnFobOf(tier, Range(table.rows)) # "none" =>
              \E f \in FobsOf(tier, Range(table.rows)) : f.edge = OwnFobOf(tier, Range(table.rows))
  <1> DEFINE rows == Range(table.rows)
             region == {f.region : f \in {f \in rows : f.edge = tier.id}}
  <1>1. \A a, b \in region : a = b
    BY OneRegion
  <1>2. tier = Rejected => FobsOf(tier, rows) = {} /\ OwnFobOf(tier, rows) = "none"
    BY DEF FobsOf, OwnFobOf, Rejected
  <1>3. CASE tier.parent # "none" /\ region # {}
    <2>1. FobsOf(tier, rows) = {f \in rows : f.region \in region}
      BY <1>3 DEF FobsOf, Rejected
    <2>2. \A f \in rows : f.edge = tier.id => f \in FobsOf(tier, rows)
      BY <2>1
    <2>3. \A f, g \in FobsOf(tier, rows) : f.region = g.region
      BY <1>1, <2>1
    <2> QED
      BY <1>2, <2>2, <2>3 DEF OwnFobOf
  <1>4. CASE tier.parent # "none" /\ region = {}
    <2>1. FobsOf(tier, rows) = {f \in rows : f.region = tier.id}
      BY <1>4 DEF FobsOf, Rejected
    <2>2. OwnFobOf(tier, rows) = "none"
      BY <1>4 DEF OwnFobOf
    <2> QED
      BY <1>2, <2>1, <2>2
  <1>5. CASE tier.parent = "none"
    BY <1>2, <1>5 DEF OwnFobOf
  <1> QED
    BY <1>3, <1>4, <1>5

LEMMA SitesApplied ==
  ASSUME DeploymentApplied
  PROVE  BootInv'
  <1>1. UNCHANGED <<btServed, btGot>> /\ btActive' = WithSites(Parsed(Merged)) /\ \A s \in Sources : btGot[s] # "asked"
    BY DEF DeploymentApplied
  <1>2. PICK tier, title, links, map, liveness :
          /\ Parsed(Merged) = Deployment(tier, title, links, map, liveness, {}, "none", FALSE)
          /\ ~Throws(Merged) => tier = TierOf(Merged)
    BY FileParses
  <1>3. RefusedTier => tier = Rejected
    BY <1>2 DEF RefusedTier, TierOf
  <1>4. RefusedTier' = RefusedTier
    BY <1>1 DEF RefusedTier, Merged, FileRead
  <1>5. ASSUME NEW fobs, NEW own, NEW bad,
               btActive' = Deployment(tier, title, links, map, liveness, fobs, own, bad),
               SitesRight(Deployment(tier, title, links, map, liveness, fobs, own, bad), RefusedTier)
        PROVE  BootInv'
    BY <1>1, <1>4, <1>5 DEF BootInv
  <1>6. CASE btGot["sites"] # "read"
    <2>1. btActive' = Deployment(tier, title, links, map, liveness, {}, "none", FALSE)
      BY <1>1, <1>2, <1>6 DEF WithSites
    <2>2. SitesRight(Deployment(tier, title, links, map, liveness, {}, "none", FALSE), RefusedTier)
      BY <1>3 DEF SitesRight, Deployment
    <2> QED
      BY <1>5, <2>1, <2>2
  <1>7. CASE btGot["sites"] = "read" /\ ~GoodTable(btServed.sites)
    <2>1. btActive' = Deployment(tier, title, links, map, liveness, {}, "none", TRUE)
      BY <1>1, <1>2, <1>7, SitesAdded
    <2>2. SitesRight(Deployment(tier, title, links, map, liveness, {}, "none", TRUE), RefusedTier)
      BY <1>3 DEF SitesRight, Deployment
    <2> QED
      BY <1>5, <2>1, <2>2
  <1>8. CASE btGot["sites"] = "read" /\ GoodTable(btServed.sites)
    <2> DEFINE rows == Range(btServed.sites.rows)
               fobs == FobsOf(tier, rows)
               own == OwnFobOf(tier, rows)
    <2>1. btActive' = Deployment(tier, title, links, map, liveness, fobs, own, FALSE)
      <3> DEFINE d == Parsed(Merged)
      <3>1. d = Deployment(tier, title, links, map, liveness, {}, "none", FALSE)
        BY <1>2
      <3>2. btActive' = WithSites(d)
        BY <1>1
      <3> HIDE DEF d
      <3> QED
        BY <1>8, <3>1, <3>2, SitesAdded, Zenon
    <2>2. /\ tier = Rejected => fobs = {}
          /\ tier.parent # "none" => \A f, g \in fobs : f.region = g.region
          /\ own # "none" => \E f \in fobs : f.edge = own
      BY <1>8, TableSelects
    <2> HIDE DEF fobs, own
    <2>3. SitesRight(Deployment(tier, title, links, map, liveness, fobs, own, FALSE), RefusedTier)
      BY <1>3, <2>2 DEF SitesRight, Deployment
    <2> QED
      BY <1>5, <2>1, <2>3
  <1> QED
    BY <1>6, <1>7, <1>8

LEMMA BootStep == BootInv /\ [BootNext]_bootVars => BootInv'
  <1> SUFFICES ASSUME BootInv, [BootNext]_bootVars PROVE BootInv'
    OBVIOUS
  <1>1. CASE UNCHANGED <<btServed, btGot, btActive>> /\ (btStage' = "fetching" => btStage = "fetching")
             /\ (btStage = "fetching" => btStage' = "fetching")
    BY <1>1 DEF BootInv, RefusedTier, Merged, FileRead
  <1>2. CASE SetView \/ UNCHANGED bootVars
    BY <1>1, <1>2 DEF SetView, bootVars
  <1>3. ASSUME NEW s \in Sources, FetchEnds(s) PROVE BootInv'
    BY <1>3 DEF FetchEnds, BootInv
  <1>4. CASE Branded
    <2>1. UNCHANGED <<btServed, btGot>> /\ btStage = "branding"
      BY <1>4 DEF Branded
    <2>2. RefusedTier' = RefusedTier
      BY <2>1 DEF RefusedTier, Merged, FileRead
    <2>3. PICK tier, title, links, map, liveness, fobs, own, bad :
            btActive = Deployment(tier, title, links, map, liveness, fobs, own, bad)
      BY <2>1 DEF BootInv
    <2>4. \E label : btActive' = Deployment(tier, label, links, map, liveness, fobs, own, bad)
      BY <1>4, <2>3 DEF Branded, Deployment
    <2>5. SitesRight(btActive, RefusedTier)'
      BY <2>1, <2>2, <2>3, <2>4 DEF BootInv, SitesRight, Deployment
    <2> QED
      BY <2>1, <2>4, <2>5 DEF BootInv
  <1> QED
    BY <1>2, <1>3, <1>4, SitesApplied DEF BootNext

LEMMA BootShows == BootInv => SitesAreItsOwn
  <1> SUFFICES ASSUME BootInv, btStage = "shown" PROVE SitesAreItsOwn
    BY DEF SitesAreItsOwn
  <1>1. SitesRight(btActive, RefusedTier)
    BY DEF BootInv
  <1>2. btActive.tier = Rejected => BootScreen = "rejected" \/ btDemo
    BY DEF BootScreen
  <1> QED
    BY <1>1, <1>2 DEF SitesRight, SitesAreItsOwn

\* The choice last made is the one that is stored, unless it could not be.
PrefsInv == bmBlock \in TerrainBlocks /\ ChoiceSurvives

LEMMA PrefsStep == PrefsInv /\ [BasemapNext]_basemapVars => PrefsInv'
  <1> SUFFICES ASSUME PrefsInv, [BasemapNext]_basemapVars PROVE PrefsInv'
    OBVIOUS
  <1>1. ASSUME NEW prefs \in Prefs, UpdatePrefs(prefs) PROVE PrefsInv'
    <2>1. LoadPrefs(Written(prefs)) = prefs
      BY DEF LoadPrefs, Written, Prefs
    <2> QED
      BY <1>1, <2>1 DEF UpdatePrefs, ControlTurn, PrefsInv, ChoiceSurvives
  <1>2. CASE ReloadPage
    BY <1>2 DEF ReloadPage, ControlTurn, PrefsInv, ChoiceSurvives
  <1>3. CASE UNCHANGED basemapVars
    BY <1>3 DEF basemapVars, PrefsInv, ChoiceSurvives
  <1> QED
    BY <1>1, <1>2, <1>3 DEF BasemapNext

LEMMA TilesResolved ==
  ASSUME NEW block \in TerrainBlocks, NEW f \in UrlFields
  PROVE  /\ Resolved(block, f) = "none" => f = "patch"
         /\ ~block.network => Resolved(block, f) # "remote"
  <1>1. block.urls[f] \in {"unset", "local", "remote"}
    BY BasemapAssumption
  <1> QED
    BY <1>1 DEF Resolved, Refused, DefaultUrl

LEMMA BasemapShows == PrefsInv => BasemapObeyed
  <1> SUFFICES ASSUME PrefsInv PROVE NothingRemote /\ CreditsTrue
    BY DEF BasemapObeyed, PrefsInv
  <1>1. \A f \in UrlFields : /\ Resolved(bmBlock, f) = "none" => f = "patch"
                             /\ ~bmBlock.network => Resolved(bmBlock, f) # "remote"
    BY TilesResolved DEF PrefsInv
  <1>2. "imagery" \in UrlFields
    BY DEF UrlFields
  <1>3. NothingRemote
    BY <1>1, <1>2 DEF NothingRemote, UrlOf
  <1>4. ASSUME NEW mask \in BOOLEAN, NEW f \in Credited(bmBlock, bmPrefs.style, mask)
        PROVE  /\ CreditOf(bmBlock, f) = "packaged" => UrlOf(bmBlock, "land") = "packaged" /\ UrlOf(bmBlock, "lakes") = "packaged"
               /\ UrlOf(bmBlock, f) # "none"
    <2>1. CreditOf(bmBlock, f) = "packaged" => \A g \in {"land", "lakes"} : Resolved(bmBlock, g) = "packaged"
      BY DEF CreditOf
    <2>2. CASE f = "patch"
      BY <2>1, <2>2 DEF Credited, UrlOf
    <2>3. CASE f = "imagery"
      BY <1>1, <1>2, <2>1, <2>3 DEF Credited, UrlOf
    <2>4. CASE f \notin {"imagery", "patch"}
      BY <1>1, <2>1, <2>4 DEF Credited, UrlOf, UrlFields
    <2> QED
      BY <2>2, <2>3, <2>4
  <1> QED
    BY <1>3, <1>4 DEF CreditsTrue

-----------------------------------------------------------------------------
(* Recursion up a tree.  That a recursive definition has a solution is      *)
(* shown by giving one: the least set of pairs that it gathers.             *)

\* What is gathered on the way up a tree whose steps are given by up.
Gathers(R, D, base, up) ==
    /\ \A t \in D : \A a \in base[t] : <<t, a>> \in R
    /\ \A t \in DOMAIN up : \A a : <<up[t], a>> \in R => <<t, a>> \in R

Climbs(f, D, base, go, up) == \A t \in D : f[t] = IF t \in go THEN base[t] \cup f[up[t]] ELSE base[t]

LEMMA ClimbExists ==
  ASSUME NEW D, NEW X, NEW base \in [D -> SUBSET X], NEW go \in SUBSET D, NEW up \in [go -> D]
  PROVE  \E f \in [D -> SUBSET X] : Climbs(f, D, base, go, up)
  <1> DEFINE L == {x \in D \X X : \A R \in SUBSET (D \X X) : Gathers(R, D, base, up) => x \in R}
             f == [t \in D |-> {a \in X : <<t, a>> \in L}]
  <1>1. Gathers(L, D, base, up)
    <2>1. ASSUME NEW t \in D, NEW a \in base[t] PROVE <<t, a>> \in L
      BY <2>1 DEF Gathers
    <2>2. ASSUME NEW t \in go, NEW a, <<up[t], a>> \in L PROVE <<t, a>> \in L
      <3>1. a \in X /\ t \in D
        BY <2>2
      <3> QED
        BY <2>2, <3>1 DEF Gathers
    <2> HIDE DEF L
    <2> QED
      BY <2>1, <2>2 DEF Gathers
  <1>2. L \in SUBSET (D \X X)
    OBVIOUS
  <1>3. ASSUME NEW R \in SUBSET L, Gathers(R, D, base, up) PROVE R = L
    BY <1>2, <1>3
  <1> HIDE DEF L
  <1>4. ASSUME NEW t \in D
        PROVE  f[t] = IF t \in go THEN base[t] \cup f[up[t]] ELSE base[t]
    <2> DEFINE S == IF t \in go THEN base[t] \cup f[up[t]] ELSE base[t]
    <2>1. S \subseteq f[t]
      BY <1>1, <1>2 DEF Gathers
    <2>2. f[t] \subseteq S
      <3> DEFINE R == {x \in L : x[1] = t => x[2] \in S}
      <3>1. \A u \in D : \A a \in base[u] : <<u, a>> \in R
        BY <1>1 DEF Gathers
      <3>2. \A u \in go : \A a : <<up[u], a>> \in R => <<u, a>> \in R
        <4> SUFFICES ASSUME NEW u \in go, NEW a, <<up[u], a>> \in R PROVE <<u, a>> \in R
          OBVIOUS
        <4>1. <<up[u], a>> \in L /\ up[u] \in D /\ a \in X
          BY <1>2
        <4>2. <<u, a>> \in L
          BY <1>1, <4>1 DEF Gathers
        <4>3. u = t => a \in S
          BY <4>1
        <4> QED
          BY <4>2, <4>3
      <3>3. Gathers(R, D, base, up)
        <4> HIDE DEF R
        <4> QED
          BY <3>1, <3>2 DEF Gathers
      <3>4. R = L
        <4>1. R \in SUBSET L
          OBVIOUS
        <4> HIDE DEF R
        <4> QED
          BY <1>3, <3>3, <4>1
      <3> HIDE DEF S
      <3>5. \A a \in X : <<t, a>> \in L => a \in S
        BY <3>4
      <3> QED
        BY <3>5
    <2> QED
      BY <2>1, <2>2
  <1>5. f \in [D -> SUBSET X]
    OBVIOUS
  <1> HIDE DEF f
  <1> QED
    BY <1>4, <1>5 DEF Climbs

-----------------------------------------------------------------------------
(* Links (LinkPicture, LinkLabel).                                         *)

\* No panel reads a clock that is older than a timer's period.
PictureInv ==
    /\ PictureTypeOK
    /\ \A id \in LinkIds : lpRows[id] = NoLinkRow \/ lpRows[id].word \in MonitorWords
    /\ \A p \in Panels : lpNow <= lpTick[p] + PageTick

LEMMA PictureBegins == PictureInit => PictureInv
  <1> SUFFICES ASSUME PictureInit PROVE PictureInv
    OBVIOUS
  <1>1. \A r \in {NoLinkRow} \cup {[word |-> w, at |-> 0] : w \in {"up", "down"}} :
          /\ r \in [word : MonitorWords \cup {"none"}, at : 0..MaxLinkNow]
          /\ r = NoLinkRow \/ r.word \in MonitorWords
    BY LinkPictureAssumption DEF NoLinkRow, MonitorWords
  <1>2. /\ lpRows \in [LinkIds -> [word : MonitorWords \cup {"none"}, at : 0..MaxLinkNow]]
        /\ \A id \in LinkIds : lpRows[id] = NoLinkRow \/ lpRows[id].word \in MonitorWords
    BY <1>1 DEF PictureInit
  <1> QED
    BY <1>2, LinkPictureAssumption DEF PictureInit, PictureInv, PictureTypeOK

LEMMA PictureStep == PictureInv /\ [PictureNext]_pictureVars => PictureInv'
  <1> SUFFICES ASSUME PictureInv, [PictureNext]_pictureVars PROVE PictureInv'
    OBVIOUS
  <1>1. ASSUME NEW id \in LinkIds, NEW word \in LinkWords, RowWritten(id, word) PROVE PictureInv'
    <2> DEFINE row == [word |-> word, at |-> lpNow]
    <2>1. row \in [word : MonitorWords \cup {"none"}, at : 0..MaxLinkNow] /\ row.word \in MonitorWords
      BY LinkPictureAssumption DEF PictureInv, PictureTypeOK
    <2>2. lpRows' = [lpRows EXCEPT ![id] = row]
      BY <1>1 DEF RowWritten
    <2> HIDE DEF row
    <2>3. /\ lpRows' \in [LinkIds -> [word : MonitorWords \cup {"none"}, at : 0..MaxLinkNow]]
          /\ \A i \in LinkIds : lpRows'[i] = NoLinkRow \/ lpRows'[i].word \in MonitorWords
      BY <2>1, <2>2 DEF PictureInv, PictureTypeOK
    <2>4. lpWritten' \in 0..MaxWritten /\ UNCHANGED <<lpTree, lpNow, lpTick>>
      BY <1>1, LinkPictureAssumption DEF RowWritten, PictureInv, PictureTypeOK
    <2> QED
      BY <2>3, <2>4 DEF PictureInv, PictureTypeOK
  <1>2. ASSUME NEW p \in Panels, PanelTicks(p) PROVE PictureInv'
    <2>1. lpTick' = [lpTick EXCEPT ![p] = lpNow] /\ UNCHANGED <<lpTree, lpRows, lpNow, lpWritten>>
      BY <1>2 DEF PanelTicks
    <2> QED
      BY <2>1, LinkPictureAssumption DEF PictureInv, PictureTypeOK
  <1>3. CASE LinkTimePasses
    <2>1. lpNow' = lpNow + 1 /\ lpNow' \in 0..MaxLinkNow
      BY <1>3, LinkPictureAssumption DEF LinkTimePasses, PictureInv, PictureTypeOK
    <2>2. \A p \in Panels : lpNow' <= lpTick[p] + PageTick
      BY <1>3, <2>1, LinkPictureAssumption DEF LinkTimePasses, PictureInv, PictureTypeOK
    <2> QED
      BY <1>3, <2>1, <2>2 DEF LinkTimePasses, PictureInv, PictureTypeOK
  <1>4. CASE UNCHANGED pictureVars
    BY <1>4 DEF pictureVars, PictureInv, PictureTypeOK
  <1> QED
    BY <1>1, <1>2, <1>3, <1>4 DEF PictureNext

LEMMA ReadIsRecent ==
  ASSUME PictureInv, NEW id \in LinkIds, NEW p \in Panels, WordRead(lpRows[id], lpTick[p]) \in {"up", "planned"}
  PROVE  /\ lpRows[id].word \in {"up", "planned"}
         /\ lpNow - lpRows[id].at <= LinkRowStale + PageTick
  <1>1. lpRows[id].at \in Nat /\ lpNow \in Nat /\ lpTick[p] \in Nat /\ lpNow <= lpTick[p] + PageTick
    BY DEF PictureInv, PictureTypeOK
  <1>2. lpRows[id].word \in {"up", "planned"} /\ ~(lpTick[p] - lpRows[id].at > LinkRowStale)
    BY DEF WordRead
  <1> QED
    BY <1>1, <1>2, LinkPictureAssumption

LEMMA DrawnAreLinks == PictureInv => Drawn(lpTree) \subseteq LinkIds /\ lpTree.tiers \subseteq LinkIds
  <1> SUFFICES ASSUME PictureInv PROVE Drawn(lpTree) \subseteq LinkIds /\ lpTree.tiers \subseteq LinkIds
    OBVIOUS
  <1>1. lpTree.tiers \cup lpTree.fobs \cup lpTree.sited \subseteq LinkIds
    BY LinkPictureAssumption DEF PictureInv, PictureTypeOK
  <1>2. Drawn(lpTree) \subseteq lpTree.tiers \cup lpTree.fobs
    BY DEF Drawn
  <1> QED
    BY <1>1, <1>2

LEMMA EdgeReads ==
  ASSUME NEW now, NEW t \in Drawn(lpTree)
  PROVE  EdgeStates(now)[t] \in {"unreachable", Reading(lpRows[t], now)}
  BY DEF EdgeStates, OwnReadings

LEMMA ToneIsOk ==
  ASSUME NEW words \in SUBSET (MonitorWords \cup {"unknown", "none"}), ToneOf(words) = "ok", "odd" \notin words, "none" \notin words
  PROVE  words \subseteq {"up", "planned"}
  BY DEF ToneOf, AllLinksDown, MonitorWords

LEMMA PictureShows == PictureInv => UpIsRecent
  <1> SUFFICES ASSUME PictureInv PROVE UpIsRecent
    OBVIOUS
  <1>1. {"map", "page"} \subseteq Panels
    BY DEF Panels
  <1>2. ASSUME NEW t \in Drawn(lpTree), EdgeStates(lpTick["map"])[t] = "up"
        PROVE  WordRead(lpRows[t], lpTick["map"]) = "up" /\ t \in LinkIds
    <2>1. Reading(lpRows[t], lpTick["map"]) = "up"
      BY <1>2, EdgeReads
    <2> QED
      BY <2>1, DrawnAreLinks DEF Reading
  <1>3. ASSUME NEW control \in {"on", "off"}, ChildrenTone(control) = "ok", NEW id \in HeaderLinks(control)
        PROVE  WordRead(lpRows[id], lpTick["page"]) \in {"up", "planned"} /\ id \in LinkIds
    <2> DEFINE words == {WordRead(HeldRow(i), lpTick["page"]) : i \in HeaderLinks(control)}
    <2>1. HeaderLinks(control) \subseteq LinkIds
      BY DrawnAreLinks DEF HeaderLinks, RowsHeld
    <2>2. ASSUME NEW i \in LinkIds
          PROVE  WordRead(HeldRow(i), lpTick["page"]) \in (MonitorWords \cup {"unknown"}) \ {"odd", "none"}
      <3>1. HeldRow(i) = NoLinkRow \/ HeldRow(i).word \in MonitorWords
        BY DEF HeldRow, PictureInv
      <3> QED
        BY <3>1 DEF WordRead, MonitorWords
    <2>3. words \subseteq {"up", "planned"}
      BY <1>3, <2>1, <2>2, ToneIsOk DEF ChildrenTone
    <2>4. WordRead(HeldRow(id), lpTick["page"]) \in {"up", "planned"}
      BY <2>3
    <2>5. HeldRow(id) = lpRows[id]
      BY <2>4 DEF HeldRow, WordRead
    <2> QED
      BY <2>1, <2>4, <2>5
  <1> QED
    BY <1>1, <1>2, <1>3, ReadIsRecent DEF UpIsRecent

LEMMA FreezeShows == FreezeAgrees
  <1> SUFFICES ASSUME Frozen, lpTick["map"] = lpTick["page"], NEW t \in Drawn(lpTree) \cap RowsHeld
               PROVE  EdgeStates(lpTick["map"])[t] \in {"down", "unreachable"}
    BY DEF FreezeAgrees
  <1>1. Reading(lpRows[t], lpTick["page"]) = "down"
    BY DEF Frozen, AllLinksDown
  <1> QED
    BY <1>1, EdgeReads

LEMMA CutByClimbs ==
  ASSUME NEW tree, NEW own
  PROVE  \A t \in Drawn(tree) :
            LET p == DrawnParent(tree, t) IN
            CutBy(tree, own)[t] = IF p = HqNode THEN {} ELSE IF own[p] = "down" THEN {p} ELSE CutBy(tree, own)[p]
  <1> DEFINE D == Drawn(tree)
             P(t) == DrawnParent(tree, t)
             E(f) == [t \in D |-> IF P(t) = HqNode THEN {} ELSE IF own[P(t)] = "down" THEN {P(t)} ELSE f[P(t)]]
             go == {t \in D : P(t) # HqNode /\ own[P(t)] # "down"}
             base == [t \in D |-> IF P(t) # HqNode /\ own[P(t)] = "down" THEN {P(t)} ELSE {}]
             up == [t \in go |-> P(t)]
  <1>1. \A t \in D : P(t) # HqNode => P(t) \in D
    BY DEF DrawnParent
  <1>2. base \in [D -> SUBSET D] /\ go \in SUBSET D /\ up \in [go -> D]
    BY <1>1
  <1>3. PICK f \in [D -> SUBSET D] : Climbs(f, D, base, go, up)
    <2> HIDE DEF D, base, go, up
    <2> QED
      BY <1>2, ClimbExists
  <1>4. ASSUME NEW t \in D PROVE f[t] = E(f)[t]
    BY <1>3 DEF Climbs
  <1>5. f = E(f)
    BY <1>4
  <1>6. CutBy(tree, own) = CHOOSE g : g = E(g)
    BY DEF CutBy
  <1> HIDE DEF E
  <1>7. CutBy(tree, own) = E(CutBy(tree, own))
    BY <1>5, <1>6
  <1> QED
    BY <1>7 DEF E

LEMMA AncestorsClimb ==
  ASSUME lpTree.tiers # {}
  PROVE  \A t \in lpTree.tiers :
            LET p == lpTree.parent[t] IN
            DeclaredAncestors(t) = IF p \in lpTree.tiers THEN {p} \cup DeclaredAncestors(p) ELSE {}
  <1> DEFINE D == lpTree.tiers
             P(t) == lpTree.parent[t]
             E(f) == [t \in D |-> IF P(t) \in D THEN {P(t)} \cup f[P(t)] ELSE {}]
             go == {t \in D : P(t) \in D}
             base == [t \in D |-> IF P(t) \in D THEN {P(t)} ELSE {}]
             up == [t \in go |-> P(t)]
             above == CHOOSE g : g = E(g)
  <1>2. base \in [D -> SUBSET D] /\ go \in SUBSET D /\ up \in [go -> D]
    OBVIOUS
  <1>3. PICK f \in [D -> SUBSET D] : Climbs(f, D, base, go, up)
    <2> HIDE DEF D, base, go, up
    <2> QED
      BY <1>2, ClimbExists
  <1>4. ASSUME NEW t \in D PROVE f[t] = E(f)[t]
    BY <1>3 DEF Climbs
  <1>5. f = E(f)
    BY <1>4
  <1>6. \A t : DeclaredAncestors(t) = above[t]
    BY DEF DeclaredAncestors
  <1> HIDE DEF E
  <1>7. above = E(above)
    BY <1>5
  <1> QED
    BY <1>6, <1>7 DEF E

\* The tiers that are drawn are the least set with the placed ones and the parents.
LEMMA DrawnClimbs ==
  ASSUME NEW tree, tree.tiers # {}
  PROVE  /\ Drawn(tree) \subseteq tree.tiers
         /\ \A t \in tree.tiers :
               t \in Drawn(tree) <=> \/ t \in tree.fobs \cup tree.sited
                                     \/ \E c \in tree.tiers \ {t} : tree.parent[c] = t /\ c \in Drawn(tree)
  <1> DEFINE D == tree.tiers
             Placed == tree.fobs \cup tree.sited
             E(f) == [t \in D |-> t \in Placed \/ \E c \in D \ {t} : tree.parent[c] = t /\ f[c]]
             Closed(X) == \A t \in D : t \in Placed \/ (\E c \in D \ {t} : tree.parent[c] = t /\ c \in X) => t \in X
             L == {t \in D : \A X \in SUBSET D : Closed(X) => t \in X}
             f == [t \in D |-> t \in L]
  <1>1. Closed(L)
    OBVIOUS
  <1>2. ASSUME NEW X \in SUBSET L, Closed(X) PROVE X = L
    BY <1>2
  <1> HIDE DEF L
  <1>3. L \subseteq D
    BY DEF L
  <1>4. ASSUME NEW t \in L
        PROVE  t \in Placed \/ \E c \in D \ {t} : tree.parent[c] = t /\ c \in L
    <2> SUFFICES ASSUME ~(t \in Placed \/ \E c \in D \ {t} : tree.parent[c] = t /\ c \in L) PROVE FALSE
      OBVIOUS
    <2> DEFINE X == L \ {t}
    <2>1. Closed(X)
      BY <1>1, <1>3
    <2>2. X \in SUBSET L
      OBVIOUS
    <2> HIDE DEF X
    <2>3. X = L
      BY <1>2, <2>1, <2>2
    <2> QED
      BY <2>3 DEF X
  <1>5. ASSUME NEW t \in D
        PROVE  (t \in L) = (t \in Placed \/ \E c \in D \ {t} : tree.parent[c] = t /\ f[c])
    <2>1. t \in L <=> (t \in Placed \/ \E c \in D \ {t} : tree.parent[c] = t /\ c \in L)
      BY <1>1, <1>3, <1>4
    <2>2. ASSUME NEW c \in D \ {t} PROVE f[c] <=> c \in L
      BY Zenon
    <2> HIDE DEF f
    <2>3. (\E c \in D \ {t} : tree.parent[c] = t /\ f[c]) <=> (\E c \in D \ {t} : tree.parent[c] = t /\ c \in L)
      BY <2>2, Zenon
    <2> QED
      BY <2>1, <2>3, SMT
  <1>6. f = E(f)
    BY <1>5, Zenon
  <1>7. Drawn(tree) = {t \in D : (CHOOSE g : g = E(g))[t]}
    BY DEF Drawn
  <1> DEFINE drawn == CHOOSE g : g = E(g)
  <1> HIDE DEF E, f
  <1>8. drawn = E(drawn)
    BY <1>6, Zenon
  <1>9. ASSUME NEW t \in D
        PROVE  drawn[t] = (t \in Placed \/ \E c \in D \ {t} : tree.parent[c] = t /\ drawn[c])
    <2>1. E(drawn)[t] = (t \in Placed \/ \E c \in D \ {t} : tree.parent[c] = t /\ drawn[c])
      BY Zenon DEF E
    <2> HIDE DEF drawn
    <2>2. drawn[t] = E(drawn)[t]
      BY <1>8
    <2> QED
      BY <2>1, <2>2, Zenon
  <1> HIDE DEF drawn
  <1> QED
    BY <1>7, <1>9, Zenon DEF drawn

\* A set of tiers has one whose parent is not of it.
LEMMA TopTier ==
  ASSUME lpTree \in DeclaredTrees, NEW T, T \subseteq lpTree.tiers, T # {}
  PROVE  \E t \in T : lpTree.parent[t] \notin T
  BY TreesAssumption

LEMMA DrawnParents ==
  ASSUME lpTree \in DeclaredTrees, lpTree.tiers # {}, NEW t \in Drawn(lpTree)
  PROVE  /\ lpTree.parent[t] \in lpTree.tiers =>
               /\ lpTree.parent[t] \in Drawn(lpTree)
               /\ DrawnParent(lpTree, t) = lpTree.parent[t] /\ lpTree.parent[t] # HqNode
         /\ lpTree.parent[t] \notin lpTree.tiers => DrawnParent(lpTree, t) = HqNode
  <1>1. t \in lpTree.tiers /\ Drawn(lpTree) \subseteq lpTree.tiers
    BY DrawnClimbs
  <1>2. lpTree.parent[t] # t
    BY <1>1, TopTier, {t} \subseteq lpTree.tiers /\ {t} # {}
  <1>3. HqNode \notin lpTree.tiers
    BY TreesAssumption
  <1>4. lpTree.parent[t] \in lpTree.tiers => lpTree.parent[t] \in Drawn(lpTree)
    <2> SUFFICES ASSUME lpTree.parent[t] \in lpTree.tiers PROVE lpTree.parent[t] \in Drawn(lpTree)
      OBVIOUS
    <2> QED
      BY <1>1, <1>2, DrawnClimbs
  <1> QED
    BY <1>1, <1>2, <1>3, <1>4 DEF DrawnParent

LEMMA ViaIsACut ==
  ASSUME lpTree \in DeclaredTrees, lpTree.tiers # {}, NEW own
  PROVE  \A t \in Drawn(lpTree) :
            /\ DeclaredAncestors(t) \subseteq Drawn(lpTree)
            /\ CutBy(lpTree, own)[t] # {} <=> \E a \in DeclaredAncestors(t) : own[a] = "down"
  <1> DEFINE via == CutBy(lpTree, own)
             Good(t) == /\ DeclaredAncestors(t) \subseteq Drawn(lpTree)
                        /\ via[t] # {} <=> \E a \in DeclaredAncestors(t) : own[a] = "down"
             Bad == {t \in Drawn(lpTree) : ~Good(t)}
  <1>1. Drawn(lpTree) \subseteq lpTree.tiers
    BY DrawnClimbs
  <1> SUFFICES ASSUME Bad # {} PROVE FALSE
    OBVIOUS
  <1> HIDE DEF via
  <1>2. PICK t \in Bad : lpTree.parent[t] \notin Bad
    <2>1. Bad \subseteq lpTree.tiers
      BY <1>1
    <2> HIDE DEF Bad
    <2> QED
      BY <2>1, TopTier
  <1>3. t \in Drawn(lpTree) /\ t \in lpTree.tiers /\ ~Good(t)
    BY <1>1
  <1> DEFINE p == lpTree.parent[t]
  <1>4. p \in lpTree.tiers => p \in Drawn(lpTree) /\ Good(p)
    BY <1>2, <1>3, DrawnParents
  <1>5. via[t] = IF DrawnParent(lpTree, t) = HqNode THEN {}
                 ELSE IF own[DrawnParent(lpTree, t)] = "down" THEN {DrawnParent(lpTree, t)}
                 ELSE via[DrawnParent(lpTree, t)]
    BY <1>3, CutByClimbs DEF via
  <1>6. DeclaredAncestors(t) = IF p \in lpTree.tiers THEN {p} \cup DeclaredAncestors(p) ELSE {}
    BY <1>3, AncestorsClimb
  <1>7. CASE p \in lpTree.tiers
    <2>1. p \in Drawn(lpTree) /\ DrawnParent(lpTree, t) = p /\ p # HqNode
      BY <1>3, <1>7, DrawnParents
    <2> HIDE DEF p
    <2>2. DeclaredAncestors(t) \subseteq Drawn(lpTree)
      BY <1>4, <1>6, <1>7, <2>1
    <2>3. via[t] # {} <=> \E a \in DeclaredAncestors(t) : own[a] = "down"
      <3>1. CASE own[p] = "down"
        BY <1>5, <1>6, <1>7, <2>1, <3>1
      <3>2. CASE own[p] # "down"
        BY <1>4, <1>5, <1>6, <1>7, <2>1, <3>2
      <3> QED
        BY <3>1, <3>2
    <2> QED
      BY <2>2, <2>3, <1>3
  <1>8. CASE p \notin lpTree.tiers
    BY <1>3, <1>5, <1>6, <1>8, DrawnParents
  <1> QED
    BY <1>7, <1>8

LEMMA ReadingIsAState ==
  ASSUME PictureInv, NEW id \in LinkIds, NEW now
  PROVE  Reading(lpRows[id], now) \in LinkStates
  BY DEF Reading, WordRead, PictureInv, MonitorWords, LinkStates, NoLinkRow

\* The state of an edge, by what cuts it off.
LEMMA EdgeIs ==
  ASSUME NEW now, NEW t \in Drawn(lpTree)
  PROVE  EdgeStates(now)[t] = IF CutBy(lpTree, OwnReadings(now))[t] # {} THEN "unreachable"
                              ELSE Reading(lpRows[t], now)
  BY DEF EdgeStates, OwnReadings

LEMMA UnreachableShows == PictureInv => UnreachableIsCut
  <1> SUFFICES ASSUME PictureInv, NEW t \in Drawn(lpTree)
               PROVE  EdgeStates(lpTick["map"])[t] = "unreachable"
                        <=> \E a \in DeclaredAncestors(t) : Reading(lpRows[a], lpTick["map"]) = "down"
    BY DEF UnreachableIsCut
  <1> DEFINE now == lpTick["map"]
             own == OwnReadings(now)
             via == CutBy(lpTree, own)
  <1>1. lpTree \in DeclaredTrees /\ Drawn(lpTree) \subseteq LinkIds
    BY DrawnAreLinks DEF PictureInv, PictureTypeOK
  <1>2. EdgeStates(now)[t] = "unreachable" <=> via[t] # {}
    <2>1. Reading(lpRows[t], now) # "unreachable"
      BY <1>1, ReadingIsAState DEF LinkStates
    <2> QED
      BY <2>1, EdgeIs
  <1>3. CASE lpTree.tiers = {}
    <2>1. DrawnParent(lpTree, t) = HqNode /\ DeclaredAncestors(t) = {}
      BY <1>3 DEF DrawnParent, DeclaredAncestors
    <2>2. via[t] = {}
      BY <2>1, CutByClimbs
    <2> QED
      BY <1>2, <2>1, <2>2
  <1>4. CASE lpTree.tiers # {}
    <2>1. \A a \in Drawn(lpTree) : own[a] = Reading(lpRows[a], now)
      BY DEF OwnReadings
    <2>2. /\ DeclaredAncestors(t) \subseteq Drawn(lpTree)
          /\ via[t] # {} <=> \E a \in DeclaredAncestors(t) : own[a] = "down"
      BY <1>1, <1>4, ViaIsACut
    <2> QED
      BY <1>2, <2>1, <2>2
  <1> QED
    BY <1>3, <1>4

\* Where every way into HQ is down, everything is down or cut off; and there is
\* a way into HQ when anything is drawn.
LEMMA WaysCutAll ==
  ASSUME PictureInv, NEW now,
         \A t \in Drawn(lpTree) : DrawnParent(lpTree, t) = HqNode => EdgeStates(now)[t] = "down"
  PROVE  \A t \in Drawn(lpTree) : EdgeStates(now)[t] \in {"down", "unreachable"}
  <1> DEFINE own == OwnReadings(now)
             via == CutBy(lpTree, own)
             edges == EdgeStates(now)
             Bad == {t \in Drawn(lpTree) : edges[t] \notin {"down", "unreachable"}}
  <1> SUFFICES ASSUME Bad # {} PROVE FALSE
    OBVIOUS
  <1> HIDE DEF edges
  <1>1. lpTree \in DeclaredTrees
    BY DEF PictureInv, PictureTypeOK
  <1>2. \A t \in Drawn(lpTree) : DrawnParent(lpTree, t) = HqNode => t \notin Bad
    BY DEF edges
  <1>3. lpTree.tiers # {}
    BY <1>2 DEF DrawnParent
  <1>4. PICK t \in Bad : lpTree.parent[t] \notin Bad
    <2>1. Bad \subseteq lpTree.tiers
      BY <1>3, DrawnClimbs
    <2> HIDE DEF Bad
    <2> QED
      BY <1>1, <2>1, TopTier
  <1> DEFINE p == DrawnParent(lpTree, t)
  <1>5. p # HqNode /\ p = lpTree.parent[t] /\ p \in Drawn(lpTree)
    BY <1>1, <1>2, <1>3, <1>4, DrawnParents
  <1>6. via[t] = IF own[p] = "down" THEN {p} ELSE via[p]
    BY <1>4, <1>5, CutByClimbs
  <1>7. via[p] = {} => own[p] = "down"
    <2> HIDE DEF p
    <2>1. edges[p] \in {"down", "unreachable"}
      BY <1>4, <1>5
    <2>2. own[p] = Reading(lpRows[p], now) /\ own[p] # "unreachable"
      BY <1>5, DrawnAreLinks, ReadingIsAState DEF OwnReadings, LinkStates
    <2> QED
      BY <1>5, <2>1, <2>2, EdgeIs DEF edges
  <1>8. via[t] # {}
    <2> HIDE DEF p, via, own
    <2> QED
      BY <1>6, <1>7
  <1>9. edges[t] = "unreachable"
    BY <1>4, <1>8, EdgeIs DEF edges
  <1> QED
    BY <1>4, <1>9

LEMMA AWayThere ==
  ASSUME PictureInv, Drawn(lpTree) # {}
  PROVE  \E t \in Drawn(lpTree) : DrawnParent(lpTree, t) = HqNode
  <1>1. CASE lpTree.tiers = {}
    BY <1>1 DEF DrawnParent
  <1>2. CASE lpTree.tiers # {}
    <2>1. Drawn(lpTree) \subseteq lpTree.tiers /\ lpTree \in DeclaredTrees
      BY <1>2, DrawnClimbs DEF PictureInv, PictureTypeOK
    <2>2. PICK t \in Drawn(lpTree) : lpTree.parent[t] \notin Drawn(lpTree)
      BY <2>1, TopTier
    <2> QED
      BY <2>2 DEF DrawnParent
  <1> QED
    BY <1>1, <1>2

\* A finite set is counted by the values that a function takes on it.
LEMMA FiveCounts ==
  ASSUME NEW D, IsFiniteSet(D), NEW f,
         \A t \in D : f[t] \in {"up", "idle", "down", "unknown", "unreachable"}
  PROVE  Cardinality({t \in D : f[t] = "up"}) + Cardinality({t \in D : f[t] = "idle"})
           + Cardinality({t \in D : f[t] = "down"}) + Cardinality({t \in D : f[t] = "unknown"})
           + Cardinality({t \in D : f[t] = "unreachable"}) = Cardinality(D)
  <1> DEFINE S(w) == {t \in D : f[t] \in w}
             C(w) == Cardinality(S(w))
  <1>1. ASSUME NEW v, NEW w, v \cap w = {}
        PROVE  C(v \cup w) = C(v) + C(w) /\ C(v) \in Nat /\ C(w) \in Nat
    <2>1. IsFiniteSet(S(v)) /\ IsFiniteSet(S(w))
      BY FS_Subset
    <2>2. S(v \cup w) = S(v) \cup S(w) /\ S(v) \cap S(w) = {}
      BY <1>1
    <2> HIDE DEF S
    <2>3. Cardinality({}) = 0 /\ Cardinality(S(v)) \in Nat /\ Cardinality(S(w)) \in Nat
      BY <2>1, FS_EmptySet, FS_CardinalityType
    <2>4. Cardinality(S(v) \cup S(w)) = Cardinality(S(v)) + Cardinality(S(w)) - Cardinality(S(v) \cap S(w))
      BY <2>1, FS_Union
    <2>5. C(v \cup w) = Cardinality(S(v) \cup S(w)) /\ Cardinality(S(v) \cap S(w)) = 0
      BY <2>2, <2>3
    <2> HIDE DEF C
    <2>6. C(v) = Cardinality(S(v)) /\ C(w) = Cardinality(S(w))
      BY DEF C
    <2> QED
      BY <2>3, <2>4, <2>5, <2>6
  <1>2. S({"up"} \cup ({"idle"} \cup ({"down"} \cup ({"unknown"} \cup {"unreachable"})))) = D
    OBVIOUS
  <1>3. ASSUME NEW w PROVE Cardinality({t \in D : f[t] = w}) = C({w})
    <2>1. {t \in D : f[t] = w} = S({w})
      OBVIOUS
    <2> QED
      BY <2>1
  <1> HIDE DEF S
  <1>4. C({"up"} \cup ({"idle"} \cup ({"down"} \cup ({"unknown"} \cup {"unreachable"}))))
          = C({"up"}) + C({"idle"} \cup ({"down"} \cup ({"unknown"} \cup {"unreachable"})))
    BY <1>1
  <1>5. C({"idle"} \cup ({"down"} \cup ({"unknown"} \cup {"unreachable"})))
          = C({"idle"}) + C({"down"} \cup ({"unknown"} \cup {"unreachable"}))
    BY <1>1
  <1>6. C({"down"} \cup ({"unknown"} \cup {"unreachable"})) = C({"down"}) + C({"unknown"} \cup {"unreachable"})
    BY <1>1
  <1>7. C({"unknown"} \cup {"unreachable"}) = C({"unknown"}) + C({"unreachable"})
    BY <1>1
  <1>8. /\ C({"up"}) \in Nat /\ C({"idle"}) \in Nat /\ C({"down"}) \in Nat
        /\ C({"unknown"}) \in Nat /\ C({"unreachable"}) \in Nat
    <2>1. \A w : C(w) \in Nat
      BY <1>1, \A w : w \cap {} = {}
    <2> QED
      BY <2>1
  <1>9. /\ Cardinality({t \in D : f[t] = "up"}) = C({"up"}) /\ Cardinality({t \in D : f[t] = "idle"}) = C({"idle"})
        /\ Cardinality({t \in D : f[t] = "down"}) = C({"down"})
        /\ Cardinality({t \in D : f[t] = "unknown"}) = C({"unknown"})
        /\ Cardinality({t \in D : f[t] = "unreachable"}) = C({"unreachable"})
    BY <1>3
  <1>10. C({"up"} \cup ({"idle"} \cup ({"down"} \cup ({"unknown"} \cup {"unreachable"})))) = Cardinality(D)
    BY <1>2
  <1> HIDE DEF C
  <1> QED
    BY <1>4, <1>5, <1>6, <1>7, <1>8, <1>9, <1>10

LEMMA SeveredShows == PictureInv => SeveredMeansCutOff
  <1> SUFFICES ASSUME PictureInv PROVE SeveredMeansCutOff
    OBVIOUS
  <1> DEFINE D == Drawn(lpTree)
             edges == EdgeStates(lpTick["map"])
             ways == {t \in D : DrawnParent(lpTree, t) = HqNode}
  <1>1. DOMAIN edges = D /\ (edges # << >> <=> D # {})
    BY DEF EdgeStates
  <1>2. ASSUME NEW t \in D PROVE edges[t] \in {"up", "idle", "down", "unknown", "unreachable"}
    BY EdgeIs, ReadingIsAState, DrawnAreLinks DEF LinkStates
  <1>3. ASSUME NEW t \in ways PROVE edges[t] # "unreachable"
    <2>1. CutBy(lpTree, OwnReadings(lpTick["map"]))[t] = {}
      BY CutByClimbs
    <2> QED
      BY <2>1, EdgeIs, ReadingIsAState, DrawnAreLinks DEF LinkStates
  <1>4. Severed(edges) <=> ways # {} /\ \A t \in ways : edges[t] = "down"
    <2>1. (\A t \in ways : edges[t] = "down") => \A t \in D : edges[t] \in {"down", "unreachable"}
      BY WaysCutAll
    <2>2. D # {} => ways # {}
      BY AWayThere
    <2> HIDE DEF edges
    <2> QED
      BY <1>1, <1>3, <2>1, <2>2 DEF Severed
  <1>5. IsFiniteSet(D)
    BY DrawnAreLinks, TreesAssumption, FS_Subset
  <1>6. \A w \in LinkStates \cup {"unreachable"} : EdgeCounts(edges)[w] = Cardinality({t \in D : edges[t] = w})
    BY <1>1 DEF EdgeCounts
  <1> HIDE DEF edges, D
  <1>7. EdgeCounts(edges)["up"] + EdgeCounts(edges)["idle"] + EdgeCounts(edges)["down"]
          + EdgeCounts(edges)["unknown"] + EdgeCounts(edges)["unreachable"] = Cardinality(D)
    BY <1>2, <1>5, <1>6, FiveCounts DEF LinkStates
  <1> QED
    BY <1>4, <1>7 DEF SeveredMeansCutOff, edges, D

\* The links as the theater draws them (lib/theaterTopology.ts,
\* lib/linkStatus.ts), for any forest of declared tiers, wherever they are
\* placed: unreachable is what a cut tier above cuts off, the red panel says that
\* every way into HQ is cut, each edge is counted once, a frozen page draws no
\* edge as reachable, and nothing reads up longer than its row may live and a
\* timer may wait.
THEOREM PictureIsTrue == PictureSpec => []PictureTrue
  <1>1. PictureInv => PictureTrue
    BY UnreachableShows, SeveredShows, PictureShows, FreezeShows DEF PictureTrue
  <1> QED
    BY <1>1, PictureBegins, PictureStep, PTL DEF PictureSpec

\* What LabelTrue asks of each kind, and that a label which is not stale was
\* proven since it last was.
LabelInv ==
    /\ lbRow \in {NoStatus} \cup [verdict : Verdicts, at : 0..MaxLabelNow]
    /\ lbError \in BOOLEAN /\ lbNow \in 0..MaxLabelNow
    /\ lbRow = NoStatus => lbKind = "unknown"
    /\ lbRow # NoStatus /\ lbKind # "stale" =>
          lbKind = lbRow.verdict /\ ~lbError /\ AgeOf(lbRow, lbNow) <= StaleEnter
    /\ lbKind # "stale" => lbProven
    /\ lbKind = "stale" => lbError \/ AgeOf(lbRow, lbNow) > StaleExit

LEMMA KindIsTaken ==
  ASSUME NEW row \in {NoStatus} \cup [verdict : Verdicts, at : 0..MaxLabelNow], NEW error \in BOOLEAN,
         NEW now \in 0..MaxLabelNow, NEW before
  PROVE  /\ row = NoStatus => KindOf(row, error, now, before) = "unknown"
         /\ row # NoStatus /\ KindOf(row, error, now, before) = "stale" => error \/ AgeOf(row, now) > StaleExit
         /\ row # NoStatus /\ KindOf(row, error, now, before) # "stale" =>
              /\ KindOf(row, error, now, before) = row.verdict /\ ~error
              /\ AgeOf(row, now) <= StaleEnter
              /\ before = "stale" => AgeOf(row, now) <= StaleExit
  <1> DEFINE limit == IF before = "stale" THEN StaleExit ELSE StaleEnter
  <1>1. AgeOf(row, now) \in Int /\ StaleExit \in Int /\ StaleEnter \in Int /\ StaleExit <= StaleEnter
    BY LinkLabelAssumption DEF AgeOf, NoStatus
  <1>2. row # NoStatus => row.verdict \in Verdicts /\ row.verdict # "stale"
    BY DEF Verdicts
  <1> DEFINE old == error \/ AgeOf(row, now) > limit
  <1>3. /\ row = NoStatus => KindOf(row, error, now, before) = "unknown"
        /\ row # NoStatus /\ old => KindOf(row, error, now, before) = "stale"
        /\ row # NoStatus /\ ~old => KindOf(row, error, now, before) = row.verdict
    BY DEF KindOf
  <1> QED
    BY <1>1, <1>2, <1>3

LEMMA LabelShown ==
  ASSUME LabelInv, NEW row \in {NoStatus} \cup [verdict : Verdicts, at : 0..MaxLabelNow], NEW error \in BOOLEAN,
         NEW now \in 0..MaxLabelNow, row = NoStatus => lbRow = NoStatus, ShownAgain(row, error, now)
  PROVE  LabelInv'
  <1>1. /\ lbRow' = row /\ lbError' = error /\ lbNow' = now
        /\ lbKind' = KindOf(row, error, now, lbKind)
        /\ lbProven' = ((row # NoStatus /\ ~error /\ AgeOf(row, now) <= StaleExit) \/ (lbProven /\ lbKind' # "stale"))
    BY DEF ShownAgain
  <1>2. /\ row = NoStatus => lbKind' = "unknown"
        /\ row # NoStatus /\ lbKind' = "stale" => error \/ AgeOf(row, now) > StaleExit
        /\ row # NoStatus /\ lbKind' # "stale" =>
             /\ lbKind' = row.verdict /\ ~error
             /\ AgeOf(row, now) <= StaleEnter
             /\ lbKind = "stale" => AgeOf(row, now) <= StaleExit
    BY <1>1, KindIsTaken
  <1>3. lbKind' # "stale" => lbProven'
    BY <1>1, <1>2 DEF LabelInv
  <1> QED
    BY <1>1, <1>2, <1>3 DEF LabelInv

LEMMA LabelBegins == LabelInit => LabelInv
  <1> SUFFICES ASSUME LabelInit PROVE LabelInv
    OBVIOUS
  <1>1. lbRow = NoStatus /\ lbError = FALSE /\ lbNow = 0 /\ lbKind = "unknown" /\ lbProven
    BY DEF LabelInit, KindOf
  <1>2. lbNow \in 0..MaxLabelNow
    BY <1>1, LinkLabelAssumption
  <1>3. lbKind # "stale"
    BY <1>1
  <1> QED
    BY <1>1, <1>2, <1>3, Zenon DEF LabelInv

LEMMA LabelStep == LabelInv /\ [LabelNext]_labelVars => LabelInv'
  <1> SUFFICES ASSUME LabelInv, [LabelNext]_labelVars PROVE LabelInv'
    OBVIOUS
  <1>1. CASE StatusArrives
    <2>1. PICK v \in Verdicts, at \in lbRow.at..lbNow : ShownAgain([verdict |-> v, at |-> at], lbError, lbNow)
      BY <1>1 DEF StatusArrives
    <2> DEFINE row == [verdict |-> v, at |-> at]
    <2>2. at \in 0..MaxLabelNow
      BY LinkLabelAssumption DEF LabelInv, NoStatus
    <2>3. row \in [verdict : Verdicts, at : 0..MaxLabelNow] /\ row # NoStatus
      BY <2>2 DEF NoStatus, Verdicts
    <2>4. ShownAgain(row, lbError, lbNow)
      BY <2>1
    <2> HIDE DEF row
    <2> QED
      BY <2>3, <2>4, LabelShown DEF LabelInv
  <1>2. CASE ErrorTurns
    <2> DEFINE error == ~lbError
    <2>1. ShownAgain(lbRow, error, lbNow) /\ error \in BOOLEAN
      BY <1>2, Zenon DEF ErrorTurns
    <2> HIDE DEF error
    <2> QED
      BY <2>1, LabelShown DEF LabelInv
  <1>3. CASE LabelTicks
    <2>1. ShownAgain(lbRow, lbError, lbNow + 1) /\ lbNow + 1 \in 0..MaxLabelNow
      BY <1>3, LinkLabelAssumption DEF LabelTicks, LabelInv
    <2> QED
      BY <2>1, LabelShown DEF LabelInv
  <1>4. CASE LabelMounts
    <2>1. /\ UNCHANGED <<lbRow, lbError, lbNow>> /\ lbProven' = (lbKind' # "stale")
          /\ lbKind' = KindOf(lbRow, lbError, lbNow, "unknown")
      BY <1>4 DEF LabelMounts
    <2>2. /\ lbRow = NoStatus => lbKind' = "unknown"
          /\ lbRow # NoStatus /\ lbKind' = "stale" => lbError \/ AgeOf(lbRow, lbNow) > StaleExit
          /\ lbRow # NoStatus /\ lbKind' # "stale" =>
               lbKind' = lbRow.verdict /\ ~lbError /\ AgeOf(lbRow, lbNow) <= StaleEnter
      BY <2>1, KindIsTaken DEF LabelInv
    <2> QED
      BY <2>1, <2>2 DEF LabelInv
  <1>5. CASE UNCHANGED labelVars
    BY <1>5 DEF labelVars, LabelInv
  <1> QED
    BY <1>1, <1>2, <1>3, <1>4, <1>5 DEF LabelNext

LEMMA KindsAreDrawn ==
  ASSUME NEW kind
  PROVE  /\ LineOf(kind) = "NOMINAL" \/ LabelTone(kind) = "ok" \/ UplinkReading(kind) = "up" <=> kind = "up"
         /\ LineOf(kind) = "SEVERED" \/ LabelTone(kind) = "bad" \/ UplinkReading(kind) = "down" <=> kind = "severed"
  <1>1. kind = "up" \/ kind = "severed" \/ kind \notin {"up", "severed"}
    OBVIOUS
  <1>2. /\ LineOf(kind) = "NOMINAL" <=> kind = "up"
        /\ LineOf(kind) = "SEVERED" <=> kind = "severed"
    BY <1>1 DEF LineOf
  <1>3. /\ LabelTone(kind) = "ok" <=> kind = "up"
        /\ LabelTone(kind) = "bad" <=> kind = "severed"
    BY <1>1 DEF LabelTone
  <1>4. /\ UplinkReading(kind) = "up" <=> kind = "up"
        /\ UplinkReading(kind) = "down" <=> kind = "severed"
    BY <1>1 DEF UplinkReading
  <1> QED
    BY <1>2, <1>3, <1>4

LEMMA LabelShows == LabelInv => LabelTrue
  <1> SUFFICES ASSUME LabelInv PROVE LabelTrue
    OBVIOUS
  <1> DEFINE vouched == ~lbError /\ AgeOf(lbRow, lbNow) <= StaleEnter /\ lbProven
  <1>1. /\ lbKind = "up" => lbRow.verdict = "up" /\ vouched
        /\ lbKind = "severed" => lbRow.verdict = "severed" /\ vouched
        /\ lbKind = "stale" => lbError \/ AgeOf(lbRow, lbNow) > StaleExit
    BY DEF LabelInv
  <1> HIDE DEF vouched
  <1>2. /\ LineOf(lbKind) = "NOMINAL" \/ LabelTone(lbKind) = "ok" \/ UplinkReading(lbKind) = "up"
             => lbRow.verdict = "up" /\ vouched
        /\ LineOf(lbKind) = "SEVERED" \/ LabelTone(lbKind) = "bad" \/ UplinkReading(lbKind) = "down"
             => lbRow.verdict = "severed" /\ vouched
    BY <1>1, KindsAreDrawn, Zenon
  <1> QED
    BY <1>1, <1>2, Zenon DEF LabelTrue, vouched

\* An uplink is shown up or severed only for what its row says, of a row young
\* enough and a feed without error, and after it was stale only once a fresh
\* row was seen (lib/linkIndicator.ts): for any two limits the one of which is
\* no longer than the other.
THEOREM LabelIsVouched == LabelSpec => []LabelTrue
  <1> QED
    BY LabelShows, LabelBegins, LabelStep, PTL DEF LabelSpec

-----------------------------------------------------------------------------
(* The types of the panes' variables.                                      *)

LEMMA PopupTyped == PopupInit => PopupTypeOK
  <1> SUFFICES ASSUME PopupInit PROVE PopupTypeOK
    OBVIOUS
  <1>1. exPreflight.kind = "null"
    BY DEF PopupInit, NoPreflight
  <1>2. exClicks \in 0..MaxClicks /\ exSeq \in Nat
    BY PopupAssumption DEF PopupInit
  <1>3. exCounts \subseteq Preflights
    BY DEF PopupInit
  <1>4. exKind = "loading" /\ exBusy = "nothing" /\ exOpen = FALSE /\ exPending = "null"
    BY DEF PopupInit
  <1> QED
    BY <1>1, <1>2, <1>3, <1>4 DEF PopupTypeOK

LEMMA PopupTypedStep == PopupTypeOK /\ [PopupNext]_popupVars => PopupTypeOK'
  <1> SUFFICES ASSUME PopupTypeOK, [PopupNext]_popupVars PROVE PopupTypeOK'
    OBVIOUS
  <1> USE DEF PopupTypeOK, shownVars, askVars
  <1>1. CASE ShownChanges
    BY <1>1 DEF ShownChanges
  <1>2. CASE Open
    BY <1>2 DEF Open
  <1>3. CASE Close \/ Confirm \/ CancelConfirm
    <2>1. exPreflight' = NoPreflight /\ exPending' = "null" /\ exSeq' = exSeq + 1
      BY <1>3 DEF Close, Confirm, CancelConfirm, Forget
    <2>2. UNCHANGED <<exKind, exBusy, exCounts, exClicks>> /\ exOpen' \in {FALSE, exOpen}
      BY <1>3 DEF Close, Confirm, CancelConfirm
    <2>3. exPreflight'.kind = "null"
      BY <2>1 DEF NoPreflight
    <2>4. exSeq' \in Nat
      BY <2>1
    <2>5. exOpen' \in BOOLEAN
      BY <2>2
    <2> HIDE DEF PopupTypeOK
    <2> QED
      BY <2>1, <2>2, <2>3, <2>4, <2>5 DEF PopupTypeOK
  <1>4. ASSUME NEW works, Click(works) PROVE exClicks' \in 0..MaxClicks
    BY <1>4, PopupAssumption DEF Click
  <1>5. CASE SendNow
    BY <1>4, <1>5 DEF SendNow
  <1>6. CASE AskFirst
    BY <1>4, <1>6 DEF AskFirst, AskedFirst
  <1>7. CASE AskReset
    <2>1. exSeq' \in Nat /\ exPending' \in AskedFirst /\ exPreflight'.kind = "loading"
      BY <1>7 DEF AskReset, AskedFirst
    <2>2. PICK counted \in {<<"ready", 0>>, <<"ready", 1>>, <<"unavailable", 0>>} :
             exCounts' = exCounts \cup {[kind |-> counted[1], over |-> counted[2], of |-> exSeq']}
      BY <1>7 DEF AskReset
    <2>3. counted[1] \in {"ready", "unavailable"} /\ counted[2] \in {0, 1}
      BY <2>2
    <2>4. [kind |-> counted[1], over |-> counted[2], of |-> exSeq'] \in Preflights
      BY <2>1, <2>3 DEF Preflights
    <2>5. exClicks' \in 0..MaxClicks /\ UNCHANGED <<exKind, exBusy, exOpen>>
      BY <1>4, <1>7 DEF AskReset
    <2> QED
      BY <2>1, <2>2, <2>4, <2>5
  <1>8. ASSUME NEW c \in exCounts, Counted(c) PROVE PopupTypeOK'
    BY <1>8 DEF Counted
  <1>9. CASE UNCHANGED popupVars
    BY <1>9 DEF popupVars
  <1> QED
    BY <1>1, <1>2, <1>3, <1>5, <1>6, <1>7, <1>8, <1>9 DEF PopupNext

LEMMA MoveTyped == MoveInv /\ RoundsInv => MoveTypeOK
  <1> SUFFICES ASSUME MoveInv, RoundsInv PROVE MoveTypeOK
    OBVIOUS
  <1>1. mvMotion \in [moving : BOOLEAN, since : Nat]
    <2>1. mvMotion \in [moving : BOOLEAN, since : 1..MaxNow] /\ 1..MaxNow \subseteq Nat
      BY MoveAssumption DEF MoveInv, LauncherOK
    <2> QED
      BY <2>1
  <1>2. mvMove \in [DOMAIN NoMove -> 0..MaxNow]
    <2>1. PICK o \in 0..MaxNow, s \in 0..MaxNow, h \in 0..MaxNow, e \in 0..MaxNow :
            mvMove = [ordered |-> o, started |-> s, halted |-> h, emplaced |-> e]
      BY DEF MoveInv, LauncherOK
    <2>2. DOMAIN NoMove = {"ordered", "started", "halted", "emplaced"}
      BY DEF NoMove
    <2> QED
      BY <2>1, <2>2
  <1>3. DOMAIN mvStock = 1..mvNow
    BY DEF RoundsInv
  <1> QED
    BY <1>1, <1>2, <1>3 DEF MoveTypeOK, MoveInv, LauncherOK, RoundsInv

\* What was read of the deployment's files is of their kinds.
BootTypes ==
    /\ BootTypeOK /\ btServed \in [base : BaseFiles, overlay : OverlayFiles, sites : SiteTables]
    /\ \E tier, title, links, map, liveness, fobs, own, bad :
          btActive = Deployment(tier, title, links, map, liveness, fobs, own, bad)

LEMMA BootTyped == BootInit => BootTypes
  <1> SUFFICES ASSUME BootInit PROVE BootTypes
    OBVIOUS
  <1>1. btActive = Deployment(ImplicitRoot, "default", {}, {}, {}, {}, "none", FALSE)
    BY DEF BootInit, Default, Deployment
  <1>2. btGot \in [Sources -> {"asked", "read", "failed"}] /\ btDemo \in BOOLEAN
    BY BootAssumption DEF BootInit
  <1>3. btActive = Default /\ Default.links = {} /\ Default.map = {}
    BY DEF BootInit, Default
  <1>4. BootTypeOK
    BY <1>2, <1>3 DEF BootInit, BootTypeOK
  <1> QED
    BY <1>1, <1>4 DEF BootInit, BootTypes

LEMMA FilesMerged ==
  ASSUME BootTypes
  PROVE  \A section \in {"links", "map"} : SectionOf(Merged, section) \subseteq Parts
  <1>1. btServed.base \in BaseFiles /\ btServed.overlay \in OverlayFiles
    BY DEF BootTypes
  <1>2. \A s \in {"base", "overlay"} : FileRead(s) = Nothing \/ FileRead(s) \in BaseFiles \cup OverlayFiles
    BY <1>1 DEF FileRead
  <1>3. DOMAIN Nothing = {}
    BY DEF Nothing
  <1>4. \A s \in {"base", "overlay"}, section \in {"links", "map"} :
          section \in DOMAIN FileRead(s) => FileRead(s)[section] \subseteq Parts
    BY <1>2, <1>3, BootAssumption
  <1>5. \A section \in DOMAIN Merged :
          Merged[section] = IF section \in DOMAIN FileRead("overlay") THEN FileRead("overlay")[section]
                            ELSE FileRead("base")[section]
    BY DEF Merged
  <1>6. DOMAIN Merged = DOMAIN FileRead("base") \cup DOMAIN FileRead("overlay")
    BY DEF Merged
  <1> QED
    BY <1>4, <1>5, <1>6 DEF SectionOf

LEMMA BootTypedStep == BootTypes /\ [BootNext]_bootVars => BootTypes'
  <1> SUFFICES ASSUME BootTypes, [BootNext]_bootVars PROVE BootTypes'
    OBVIOUS
  <1>1. ASSUME NEW s \in Sources, FetchEnds(s) PROVE BootTypes'
    BY <1>1 DEF FetchEnds, BootTypes, BootTypeOK
  <1>2. CASE DeploymentApplied
    <2>1. UNCHANGED <<btServed, btGot, btDemo, btView>> /\ btActive' = WithSites(Parsed(Merged)) /\ btStage' = "branding"
      BY <1>2 DEF DeploymentApplied
    <2>2. PICK tier, title, links, map, liveness :
            /\ Parsed(Merged) = Deployment(tier, title, links, map, liveness, {}, "none", FALSE)
            /\ links \subseteq Parts /\ map \subseteq Parts
      <3>1. CASE Throws(Merged)
        <4>1. Parsed(Merged) = Deployment(ImplicitRoot, "default", {}, {}, {}, {}, "none", FALSE)
          BY <3>1 DEF Parsed, Default, Deployment
        <4> DEFINE none == {}
        <4>2. none \subseteq Parts /\ Parsed(Merged) = Deployment(ImplicitRoot, "default", none, none, none, {}, "none", FALSE)
          BY <4>1
        <4> HIDE DEF none
        <4> QED
          BY <4>2, Zenon
      <3>2. CASE ~Throws(Merged)
        <4> DEFINE title == IF "title" \in DOMAIN Merged THEN Merged["title"] ELSE Default.title
        <4>1. Parsed(Merged) = Deployment(TierOf(Merged), title, EntriesKept(SectionOf(Merged, "links")),
                  WholeOrNothing(SectionOf(Merged, "map")), FieldsKept(SectionOf(Merged, "liveness")), {}, "none", FALSE)
          BY <3>2 DEF Parsed, Default, Deployment
        <4>2. EntriesKept(SectionOf(Merged, "links")) \subseteq Parts /\ WholeOrNothing(SectionOf(Merged, "map")) \subseteq Parts
          BY FilesMerged DEF EntriesKept, WholeOrNothing
        <4> DEFINE links == EntriesKept(SectionOf(Merged, "links"))
                   map == WholeOrNothing(SectionOf(Merged, "map"))
                   liveness == FieldsKept(SectionOf(Merged, "liveness"))
                   tier == TierOf(Merged)
        <4>3. Parsed(Merged) = Deployment(tier, title, links, map, liveness, {}, "none", FALSE)
          BY <4>1
        <4>4. links \subseteq Parts /\ map \subseteq Parts
          BY <4>2
        <4> HIDE DEF title, links, map, liveness, tier
        <4> QED
          BY <4>3, <4>4
      <3> QED
        BY <3>1, <3>2
    <2>3. \E fobs, own, bad : btActive' = Deployment(tier, title, links, map, liveness, fobs, own, bad)
      <3>1. CASE btGot["sites"] # "read"
        BY <2>1, <2>2, <3>1 DEF WithSites
      <3>2. CASE btGot["sites"] = "read"
        <4> DEFINE d == Parsed(Merged)
        <4>1. d = Deployment(tier, title, links, map, liveness, {}, "none", FALSE) /\ btActive' = WithSites(d)
          BY <2>1, <2>2
        <4> HIDE DEF d
        <4> QED
          BY <3>2, <4>1, SitesAdded, Zenon
      <3> QED
        BY <3>1, <3>2
    <2>4. PICK fobs, own, bad : btActive' = Deployment(tier, title, links, map, liveness, fobs, own, bad)
      BY <2>3
    <2>5. DOMAIN btActive' = DOMAIN Default /\ btActive'.links \subseteq Parts /\ btActive'.map \subseteq Parts
      BY <2>2, <2>4 DEF Deployment, Default
    <2> QED
      BY <2>1, <2>4, <2>5 DEF BootTypes, BootTypeOK
  <1>3. CASE Branded
    <2>1. UNCHANGED <<btServed, btGot, btDemo, btView>> /\ btStage' = "shown"
      BY <1>3 DEF Branded
    <2>2. PICK tier, title, links, map, liveness, fobs, own, bad :
            btActive = Deployment(tier, title, links, map, liveness, fobs, own, bad)
      BY DEF BootTypes
    <2>3. PICK label : btActive' = Deployment(tier, label, links, map, liveness, fobs, own, bad)
      BY <1>3, <2>2 DEF Branded, Deployment
    <2>4. links \subseteq Parts /\ map \subseteq Parts
      BY <2>2 DEF BootTypes, BootTypeOK, Deployment
    <2>5. DOMAIN btActive' = DOMAIN Default /\ btActive'.links \subseteq Parts /\ btActive'.map \subseteq Parts
      BY <2>3, <2>4 DEF Deployment, Default
    <2> QED
      BY <2>1, <2>3, <2>5 DEF BootTypes, BootTypeOK
  <1>4. CASE SetView
    BY <1>4 DEF SetView, BootTypes, BootTypeOK
  <1>5. CASE UNCHANGED bootVars
    BY <1>5 DEF bootVars, BootTypes, BootTypeOK
  <1> QED
    BY <1>1, <1>2, <1>3, <1>4, <1>5 DEF BootNext

\* The fault report's types need that a report in flight closed over a fault of
\* the catalog, the largest of finitely many, or none.
ReportTypes ==
    /\ FaultReportTypeOK
    /\ \A a \in PaneAssets : IsFiniteSet(paFaults[a])
    /\ \A s \in paSent : s.bit \in Faults \cup {0}

LEMMA ReportTyped == FaultReportInit => ReportTypes
  <1> SUFFICES ASSUME FaultReportInit PROVE ReportTypes
    OBVIOUS
  <1>1. paAsset \in PaneAssets /\ paForms \in 0..MaxForms
    BY FaultReportAssumption DEF FaultReportInit
  <1>2. IsFiniteSet({})
    BY FS_EmptySet
  <1> QED
    BY <1>1, <1>2 DEF FaultReportInit, ReportTypes, FaultReportTypeOK, Held

LEMMA BitIsAFault ==
  ASSUME ReportTypes
  PROVE  Bit \in Faults \cup {0}
  <1>1. paFaults[paAsset] \subseteq Faults /\ IsFiniteSet(paFaults[paAsset])
    BY DEF ReportTypes, FaultReportTypeOK
  <1>2. CASE paFaults[paAsset] = {}
    BY <1>2 DEF Bit
  <1>3. CASE paFaults[paAsset] # {}
    <2>1. paFaults[paAsset] \subseteq Nat
      BY <1>1, FaultReportAssumption
    <2>2. Max(paFaults[paAsset]) \in paFaults[paAsset]
      BY <1>1, <1>3, <2>1, LargestOf
    <2> QED
      BY <1>1, <1>3, <2>2 DEF Bit
  <1> QED
    BY <1>2, <1>3

LEMMA ReportTypedStep == ReportInv /\ ReportTypes /\ [FaultReportNext]_paVars => ReportTypes'
  <1> SUFFICES ASSUME ReportInv, ReportTypes, [FaultReportNext]_paVars PROVE ReportTypes'
    OBVIOUS
  <1>1. CASE SelectAsset
    BY <1>1 DEF SelectAsset, ReportTypes, FaultReportTypeOK, Held
  <1>2. CASE FaultDetected
    <2>1. PICK a \in PaneAssets, f \in Faults : paFaults' = [paFaults EXCEPT ![a] = @ \cup {f}]
      BY <1>2 DEF FaultDetected
    <2>2. UNCHANGED <<paAsset, paCases, formVars>>
      BY <1>2 DEF FaultDetected
    <2>3. IsFiniteSet(paFaults[a] \cup {f})
      BY FS_AddElement DEF ReportTypes
    <2> QED
      BY <2>1, <2>2, <2>3 DEF ReportTypes, FaultReportTypeOK, formVars, fieldVars
  <1>3. CASE FaultRecorded
    <2>1. PICK p \in paFiled : paFaults' = [paFaults EXCEPT ![p[1]] = @ \ {p[2]}]
      BY <1>3 DEF FaultRecorded
    <2>2. UNCHANGED <<paAsset, paCases, formVars>>
      BY <1>3 DEF FaultRecorded
    <2>3. PICK a \in PaneAssets, f \in Faults : p = <<a, f>>
      BY DEF ReportTypes, FaultReportTypeOK
    <2>4. paFaults' = [paFaults EXCEPT ![a] = @ \ {f}]
      BY <2>1, <2>3
    <2>5. IsFiniteSet(paFaults[a] \ {f})
      BY FS_RemoveElement DEF ReportTypes
    <2> QED
      BY <2>2, <2>4, <2>5 DEF ReportTypes, FaultReportTypeOK, formVars, fieldVars
  <1>4. CASE ReadEnds
    <2>1. PICK r \in paReads, held \in PaneAssets \cup {"off"} :
            /\ paCatalog' \in {held, paCatalog} /\ paCases' \in {held, paCases}
      BY <1>4 DEF ReadEnds, ReportInv, PaneReads
    <2>2. UNCHANGED <<paAsset, paFaults, paOpen, paRecorded, fieldVars, paForms, paSent, paFiled>>
      BY <1>4 DEF ReadEnds
    <2> QED
      BY <2>1, <2>2 DEF ReportTypes, FaultReportTypeOK, Held, fieldVars
  <1>5. ASSUME NEW fault \in Faults \cup {0}, Opened(fault) PROVE ReportTypes'
    <2>1. paForms' \in 0..MaxForms
      BY <1>5, FaultReportAssumption DEF Opened, ReportTypes, FaultReportTypeOK
    <2> QED
      BY <1>5, <2>1 DEF Opened, ReportTypes, FaultReportTypeOK, Held
  <1>6. CASE CloseForm
    BY <1>6 DEF CloseForm, SheetCloses, ReportTypes, FaultReportTypeOK, Held
  <1>7. CASE ChooseCode \/ ChooseNotListed \/ ChoosePart
    BY <1>7 DEF ChooseCode, ChooseNotListed, ChoosePart, ReportTypes, FaultReportTypeOK, Held
  <1>8. CASE Submit
    <2>1. PICK s : s.bit = Bit /\ paSent' = paSent \cup {s}
      BY <1>8 DEF Submit
    <2>2. UNCHANGED <<paAsset, paFaults, paOpen, paRecorded, paCatalog, fieldVars, paForms, paFiled, paCases>>
      BY <1>8 DEF Submit
    <2> QED
      BY <2>1, <2>2, BitIsAFault DEF ReportTypes, FaultReportTypeOK, fieldVars
  <1>9. CASE ReportAccepted
    <2>1. PICK s \in paSent :
            /\ paSent' = paSent \ {s}
            /\ paFiled' = paFiled \cup ({<<s.of, s.code>>} \cap (PaneAssets \X Faults))
            /\ paRecorded' \in {s.bit, paRecorded}
      BY <1>9 DEF ReportAccepted
    <2>2. paFiled' \subseteq PaneAssets \X Faults
      BY <2>1 DEF ReportTypes, FaultReportTypeOK
    <2>3. /\ UNCHANGED <<paAsset, paFaults, paForms, paCases>>
          /\ paOpen' = FALSE /\ paCatalog' = "none" /\ paCode' = 0
          /\ paFilled' = {} /\ paCarried' = FALSE
      BY <1>9 DEF ReportAccepted, SheetCloses
    <2> QED
      BY <2>1, <2>2, <2>3 DEF ReportTypes, FaultReportTypeOK, Held
  <1>10. CASE CasesPoll \/ ReportRefused \/ UNCHANGED paVars
    BY <1>10 DEF CasesPoll, ReportRefused, paVars, formVars, fieldVars, ReportTypes, FaultReportTypeOK
  <1> QED
    BY <1>1, <1>2, <1>3, <1>4, <1>5, <1>6, <1>7, <1>8, <1>9, <1>10, BitIsAFault
    DEF FaultReportNext, OpenForm, RecordIt

LEMMA ManualTyped == ManualInit => ManualTypeOK
  <1> SUFFICES ASSUME ManualInit PROVE ManualTypeOK
    OBVIOUS
  <1>1. mpAsset \in ManualAssets /\ mpChanges \in 0..MaxChanges
    BY ManualAssumption DEF ManualInit
  <1>2. mpAsk = {} /\ mpAnswer = {} /\ mpCatalog = "none"
    BY DEF ManualInit
  <1>3. {mpOpen, mpHidden, mpSaysSo} \subseteq BOOLEAN
    BY DEF ManualInit
  <1> QED
    BY <1>1, <1>2, <1>3 DEF ManualTypeOK

LEMMA ManualTypedStep == ManualInv /\ ManualTypeOK /\ [ManualNext]_mpVars => ManualTypeOK'
  <1> SUFFICES ASSUME ManualInv, ManualTypeOK, [ManualNext]_mpVars PROVE ManualTypeOK'
    OBVIOUS
  <1> DEFINE modules == UNION {Scope[a] : a \in ManualAssets}
  <1>1. InScope \subseteq modules
    BY DEF InScope, ManualTypeOK
  <1>2. CASE ManualAssetChanges
    <2>1. mpAsset' \in ManualAssets /\ mpChanges' \in 0..MaxChanges
      BY <1>2, ManualAssumption DEF ManualAssetChanges, ManualTypeOK
    <2>2. UNCHANGED <<mpCatalog, mpAsk, mpAnswer, mpOpen, mpHidden>> /\ mpSaysSo' = FALSE
      BY <1>2 DEF ManualAssetChanges
    <2>3. {mpOpen, mpHidden, mpSaysSo}' \subseteq BOOLEAN
      BY <2>2 DEF ManualTypeOK
    <2> QED
      BY <2>1, <2>2, <2>3 DEF ManualTypeOK
  <1>3. CASE ManualCatalogEnds
    BY <1>3 DEF ManualCatalogEnds, Kept, ManualTypeOK, ManualInv, ManualReads
  <1>4. CASE ToggleManual
    <2>1. mpOpen' \in BOOLEAN
      BY <1>4, Zenon DEF ToggleManual
    <2> QED
      BY <1>4, <2>1 DEF ToggleManual, ManualTypeOK
  <1>5. CASE AskManual
    BY <1>1, <1>5 DEF AskManual, ManualTypeOK
  <1>6. CASE AskEnds
    <2>1. mpAnswer' \subseteq modules /\ mpAsk' = {}
      BY <1>6 DEF AskEnds, ManualTypeOK
    <2>2. mpHidden' \in {TRUE, mpHidden} /\ mpSaysSo' \in {TRUE, mpSaysSo}
      BY <1>6 DEF AskEnds
    <2> QED
      BY <1>6, <2>1, <2>2 DEF AskEnds, ManualTypeOK
  <1>7. CASE UNCHANGED mpVars
    BY <1>7 DEF mpVars, ManualTypeOK
  <1> QED
    BY <1>2, <1>3, <1>4, <1>5, <1>6, <1>7 DEF ManualNext

\* What the admission pane asks is for one of its destinations.
AdmissionReads == [dest : Destinations, live : BOOLEAN, head : BOOLEAN]
AskedOfDestinations == spAsked \subseteq AdmissionReads

SiteTypes == SitePanesTypeOK /\ AskedOfDestinations

LEMMA SitesTyped == SitePanesInit => SiteTypes
  <1> SUFFICES ASSUME SitePanesInit PROVE SiteTypes
    OBVIOUS
  <1>1. spEdge \in SiteEdges /\ spDest \in Destinations /\ spSwaps \in 0..MaxSwaps
    BY SitePanesAssumption DEF SitePanesInit
  <1>2. spAsked \subseteq AdmissionReads
    BY <1>1 DEF SitePanesInit, AskFor, AdmissionReads
  <1>3. spHeld.kind = None /\ spAdmission.data = None
    BY DEF SitePanesInit, NotHeld, LoadingOf
  <1> QED
    BY <1>1, <1>2, <1>3 DEF SitePanesInit, SiteTypes, SitePanesTypeOK, AskedOfDestinations

LEMMA SitesTypedStep == SiteInv /\ SiteTypes /\ [SitePanesNext]_spVars => SiteTypes'
  <1> SUFFICES ASSUME SiteInv, SiteTypes, [SitePanesNext]_spVars PROVE SiteTypes'
    OBVIOUS
  <1> USE DEF SiteTypes, SitePanesTypeOK
  <1>1. /\ spEdge' \in SiteEdges
        /\ \A e \in SiteEdges : spUndeclared'[e] \subseteq ArrivalsAt[e]
    BY SiteStep DEF SiteInv
  <1>2. CASE SwapEdge
    BY <1>1, <1>2, SitePanesAssumption DEF SwapEdge, admissionVars, AskedOfDestinations
  <1>3. CASE ArrivalsEnd
    <2>1. spHeld'.kind \in {None, "ok", "absent", "error"}
      BY <1>3 DEF ArrivalsEnd, Applied, Results
    <2> QED
      BY <1>1, <1>3, <2>1 DEF ArrivalsEnd, admissionVars, AskedOfDestinations
  <1>4. CASE ArrivalsPoll \/ CancelDeclare \/ Declare \/ DeclareRefused \/ UNCHANGED spVars
    BY <1>1, <1>4
    DEF ArrivalsPoll, CancelDeclare, Declare, DeclareRefused, spVars, arrivalVars, admissionVars, AskedOfDestinations
  <1>5. CASE OpenDeclare
    <2>1. spTarget' \in ArrivalsAt[spEdge]
      BY <1>5, ListedArrived DEF OpenDeclare
    <2> QED
      BY <1>1, <1>5, <2>1 DEF OpenDeclare, admissionVars, AskedOfDestinations
  <1>6. CASE DeclareDone
    <2>1. spTarget' \in {None, spTarget}
      BY <1>6 DEF DeclareDone
    <2>2. UNCHANGED <<spEdge, spHeld, admissionVars, spSwaps>>
      BY <1>6 DEF DeclareDone
    <2> QED
      BY <1>1, <2>1, <2>2 DEF admissionVars, AskedOfDestinations
  <1>7. CASE CommitDestination
    <2>1. spDest' \in Destinations /\ spSwaps' \in 0..MaxSwaps /\ UNCHANGED arrivalVars
      BY <1>7, SitePanesAssumption DEF CommitDestination
    <2>2. spAdmission'.data = spAdmission.data
      BY <1>7 DEF CommitDestination, LoadingOf
    <2>3. ASSUME NEW r \in spAsked' PROVE r \in AdmissionReads
      <3>1. CASE \E q \in spAsked : r = [q EXCEPT !.live = FALSE]
        BY <3>1 DEF AskedOfDestinations, AdmissionReads
      <3>2. CASE r = AskFor(spDest')
        BY <2>1, <3>2 DEF AskFor, AdmissionReads
      <3> QED
        BY <1>7, <3>1, <3>2 DEF CommitDestination
    <2> QED
      BY <1>1, <2>1, <2>2, <2>3 DEF arrivalVars, AskedOfDestinations
  <1>8. CASE AdmissionHead
    <2>1. ASSUME NEW r \in spAsked' PROVE r \in AdmissionReads
      <3>1. r \in spAsked \/ \E q \in spAsked : r = [q EXCEPT !.head = TRUE]
        BY <1>8 DEF AdmissionHead
      <3> QED
        BY <3>1 DEF AskedOfDestinations, AdmissionReads
    <2> QED
      BY <1>1, <1>8, <2>1 DEF AdmissionHead, arrivalVars, AskedOfDestinations
  <1>9. CASE AdmissionBody \/ AdmissionFails
    <2>1. spAsked' \subseteq spAsked /\ UNCHANGED <<spDest, arrivalVars, spSwaps>>
      BY <1>9 DEF AdmissionBody, AdmissionFails
    <2>2. spAdmission'.data \in Destinations \cup {None}
      BY <1>9 DEF AdmissionBody, AdmissionFails, AskedOfDestinations, AdmissionReads
    <2> QED
      BY <1>1, <2>1, <2>2 DEF arrivalVars, AskedOfDestinations
  <1> QED
    BY <1>2, <1>3, <1>4, <1>5, <1>6, <1>7, <1>8, <1>9 DEF SitePanesNext

LEMMA LoadedAreChoices ==
  ASSUME NEW stored \in StoredPrefs
  PROVE  LoadPrefs(stored) \in Prefs
  <1> DEFINE on == IF stored.on = "bent" THEN TRUE ELSE stored.on = "yes"
             style == IF stored.style = "bent" THEN "sat" ELSE stored.style
  <1>1. on \in BOOLEAN
    BY Zenon
  <1>2. style \in {"sat", "holo"}
    BY DEF StoredPrefs
  <1>3. DefaultPrefs.on = TRUE /\ DefaultPrefs.style = "sat"
    BY DEF DefaultPrefs
  <1>4. LoadPrefs(stored) = [on |-> on, style |-> style]
    BY <1>3 DEF LoadPrefs
  <1> HIDE DEF on, style
  <1> QED
    BY <1>1, <1>2, <1>4 DEF Prefs

LEMMA BasemapTyped == BasemapInit => BasemapTypeOK
  <1> SUFFICES ASSUME BasemapInit PROVE BasemapTypeOK
    OBVIOUS
  <1>1. bmStored \in StoredPrefs
    BY DEF BasemapInit, NoneStored, StoredPrefs
  <1>2. bmPrefs \in Prefs
    BY <1>1, LoadedAreChoices DEF BasemapInit
  <1> QED
    <2>1. bmTurns \in 0..MaxControls /\ bmBlock \in TerrainBlocks
      BY BasemapAssumption DEF BasemapInit
    <2>2. bmWritable \in BOOLEAN /\ bmRefused \in BOOLEAN
      BY Zenon DEF BasemapInit
    <2> QED
      BY <1>1, <1>2, <2>1, <2>2, Zenon DEF BasemapTypeOK

LEMMA BasemapTypedStep == BasemapTypeOK /\ [BasemapNext]_basemapVars => BasemapTypeOK'
  <1> SUFFICES ASSUME BasemapTypeOK, [BasemapNext]_basemapVars PROVE BasemapTypeOK'
    OBVIOUS
  <1>1. ASSUME ControlTurn PROVE bmTurns' \in 0..MaxControls /\ UNCHANGED <<bmBlock, bmWritable>>
    BY <1>1, BasemapAssumption DEF ControlTurn, BasemapTypeOK
  <1>2. ASSUME NEW prefs \in Prefs, UpdatePrefs(prefs) PROVE BasemapTypeOK'
    <2>1. Written(prefs) \in StoredPrefs
      BY DEF Written, Prefs, StoredPrefs
    <2>2. bmRefused' \in BOOLEAN
      BY <1>2, Zenon DEF UpdatePrefs
    <2>3. bmPrefs' \in Prefs /\ bmStored' \in StoredPrefs
      BY <1>2, <2>1 DEF UpdatePrefs, BasemapTypeOK
    <2>4. ControlTurn
      BY <1>2 DEF UpdatePrefs
    <2> QED
      BY <1>1, <2>2, <2>3, <2>4 DEF BasemapTypeOK
  <1>3. CASE ReloadPage
    <2>1. ControlTurn /\ bmPrefs' = LoadPrefs(bmStored) /\ bmRefused' = FALSE /\ UNCHANGED bmStored
      BY <1>3 DEF ReloadPage
    <2>2. bmStored \in StoredPrefs
      BY DEF BasemapTypeOK
    <2>3. bmPrefs' \in Prefs
      BY <2>1, <2>2, LoadedAreChoices
    <2> QED
      BY <1>1, <2>1, <2>3 DEF BasemapTypeOK
  <1>4. CASE UNCHANGED basemapVars
    BY <1>4 DEF basemapVars, BasemapTypeOK
  <1> QED
    BY <1>2, <1>3, <1>4 DEF BasemapNext

\* The rest of the label's types: LabelInv says the others.
LabelRest == lbProven \in BOOLEAN /\ lbTurns \in 0..MaxErrors

LEMMA LabelTyped == LabelInv /\ LabelRest => LabelTypeOK
  <1> SUFFICES ASSUME LabelInv, LabelRest PROVE LabelTypeOK
    OBVIOUS
  <1>1. lbKind \in Verdicts \cup {"unknown", "stale"}
    BY DEF LabelInv
  <1>2. /\ lbRow \in {NoStatus} \cup [verdict : Verdicts, at : 0..MaxLabelNow]
        /\ lbError \in BOOLEAN /\ lbNow \in 0..MaxLabelNow
    BY DEF LabelInv
  <1> QED
    BY <1>1, <1>2, Zenon DEF LabelTypeOK, LabelRest

LEMMA LabelRestBegins == LabelInit => LabelRest
  <1> SUFFICES ASSUME LabelInit PROVE LabelRest
    OBVIOUS
  <1>1. lbTurns \in 0..MaxErrors
    BY LinkLabelAssumption DEF LabelInit
  <1>2. lbProven \in BOOLEAN
    BY Zenon DEF LabelInit
  <1> QED
    BY <1>1, <1>2 DEF LabelRest

LEMMA LabelRestStep == LabelRest /\ [LabelNext]_labelVars => LabelRest'
  <1> SUFFICES ASSUME LabelRest, [LabelNext]_labelVars PROVE LabelRest'
    OBVIOUS
  <1>1. ASSUME NEW row, NEW error, NEW now, ShownAgain(row, error, now) PROVE lbProven' \in BOOLEAN
    BY <1>1, Zenon DEF ShownAgain
  <1>2. ASSUME LabelTurn PROVE lbTurns' \in 0..MaxErrors
    BY <1>2, LinkLabelAssumption DEF LabelTurn, LabelRest
  <1>3. CASE StatusArrives
    <2>1. lbProven' \in BOOLEAN
      BY <1>1, <1>3, Zenon DEF StatusArrives
    <2> QED
      BY <1>3, <2>1 DEF StatusArrives, LabelRest
  <1>4. CASE ErrorTurns
    <2>1. lbProven' \in BOOLEAN
      BY <1>1, <1>4, Zenon DEF ErrorTurns
    <2> QED
      BY <1>2, <1>4, <2>1 DEF ErrorTurns, LabelRest
  <1>5. CASE LabelTicks
    <2>1. lbProven' \in BOOLEAN
      BY <1>1, <1>5, Zenon DEF LabelTicks
    <2> QED
      BY <1>5, <2>1 DEF LabelTicks, LabelRest
  <1>6. CASE LabelMounts
    <2>1. lbProven' \in BOOLEAN
      BY <1>6, Zenon DEF LabelMounts
    <2> QED
      BY <1>2, <1>6, <2>1 DEF LabelMounts, LabelRest
  <1>7. CASE UNCHANGED labelVars
    BY <1>7 DEF labelVars, LabelRest
  <1> QED
    BY <1>3, <1>4, <1>5, <1>6, <1>7 DEF LabelNext

\* The charts' inputs, and the key of their last reset: ChartsInv says the rest.
ChartTypes ==
    /\ tcAsset \in ChartAssets /\ tcTel \in TelemetryStates /\ tcRollup \in BOOLEAN /\ tcOff \in BOOLEAN
    /\ tcVariant \in Variants \cup {"-"} /\ tcResetFor \in ChartKeys /\ tcDrawn \in BOOLEAN

LEMMA KeyIsAKey ==
  ASSUME ChartTypes
  PROVE  RebuildKey \in ChartKeys
  <1>1. Source \in {"sustainment", "rollup", "empty", "off", "none"}
    BY DEF Source
  <1> HIDE DEF Source
  <1> QED
    BY <1>1 DEF ChartTypes, RebuildKey, ChartKeys

LEMMA BlankIsAKey == Blank \in ChartKeys
  BY DEF Blank, ChartKeys

LEMMA ChartsTyped == ChartsInv /\ ChartTypes => ChartsTypeOK
  <1> SUFFICES ASSUME ChartsInv, ChartTypes PROVE ChartsTypeOK
    OBVIOUS
  <1>1. tcRebuilt \in ChartKeys
    BY KeyIsAKey DEF ChartsInv
  <1>2. tcHistory \in [1..History -> ChartKeys]
    <2> DEFINE S == {Blank, tcResetFor}
    <2>1. S \subseteq ChartKeys
      BY BlankIsAKey DEF ChartTypes
    <2>2. tcHistory \in Seq(S) /\ Len(tcHistory) = History
      BY DEF ChartsInv
    <2> HIDE DEF S
    <2>3. tcHistory \in [1..History -> S]
      BY <2>2
    <2> QED
      BY <2>1, <2>3
  <1> QED
    BY <1>1, <1>2 DEF ChartTypes, ChartsTypeOK

LEMMA ChartTypesBegin == ChartsInit => ChartTypes
  <1> SUFFICES ASSUME ChartsInit PROVE ChartTypes
    OBVIOUS
  <1>1. tcAsset \in ChartAssets
    BY ChartsAssumption DEF ChartsInit
  <1> QED
    BY <1>1, BlankIsAKey DEF ChartsInit, ChartTypes, TelemetryStates, NotRebuilt

LEMMA ChartTypesStep == ChartTypes /\ [ChartsNext]_chartVars => ChartTypes'
  <1> SUFFICES ASSUME ChartTypes, [ChartsNext]_chartVars PROVE ChartTypes'
    OBVIOUS
  <1> DEFINE Inputs ==
        /\ tcAsset \in ChartAssets /\ tcTel \in TelemetryStates /\ tcRollup \in BOOLEAN /\ tcOff \in BOOLEAN
        /\ tcVariant \in Variants \cup {"-"}
  <1>1. ASSUME Inputs', Effects PROVE ChartTypes'
    <2>1. RebuildKey' \in ChartKeys
      <3>1. Source' \in {"sustainment", "rollup", "empty", "off", "none"}
        BY DEF Source
      <3> QED
        BY <1>1, <3>1 DEF RebuildKey, ChartKeys
    <2>2. tcResetFor' \in {RebuildKey', tcResetFor}
      BY <1>1 DEF Effects
    <2>3. tcDrawn' \in BOOLEAN
      <3>1. tcDrawn' = Mounted' \/ tcDrawn' = tcDrawn
        BY <1>1 DEF Effects
      <3>2. Mounted' \in BOOLEAN
        BY DEF Mounted
      <3> QED
        BY <3>1, <3>2 DEF ChartTypes
    <2> QED
      BY <1>1, <2>1, <2>2, <2>3 DEF ChartTypes
  <1>2. ASSUME ChartsNext PROVE Inputs' /\ Effects
    <2>1. tcRollup' = ~tcRollup => tcRollup' \in BOOLEAN
      BY Zenon
    <2>2. tcOff' = ~tcOff => tcOff' \in BOOLEAN
      BY Zenon
    <2>3. CASE ChartAnother
      BY <2>3 DEF ChartAnother
    <2>4. CASE TelemetryComes
      BY <2>4 DEF TelemetryComes, ChartTypes
    <2>5. CASE RollupComes
      BY <2>5, <2>1 DEF RollupComes, ChartTypes
    <2>6. CASE VariantComes
      BY <2>6 DEF VariantComes, ChartTypes, TelemetryStates
    <2>7. CASE PowerChanges
      BY <2>7, <2>2 DEF PowerChanges, ChartTypes
    <2>8. CASE RendersAgain
      BY <2>8 DEF RendersAgain, chartProps, ChartTypes
    <2> QED
      BY <1>2, <2>3, <2>4, <2>5, <2>6, <2>7, <2>8 DEF ChartsNext
  <1>3. CASE UNCHANGED chartVars
    BY <1>3 DEF chartVars, chartProps, ChartTypes
  <1> QED
    BY <1>1, <1>2, <1>3

-----------------------------------------------------------------------------
(* The panes side by side (MCPanes).                                       *)

\* A step of any part is a step of each of these or leaves it alone.
LEMMA PaneParts ==
  [PanesNext]_panesVars =>
    [FaultReportNext]_paVars /\ [ManualNext]_mpVars /\ [SitePanesNext]_spVars /\ [ChartsNext]_chartVars
  <1>1. CASE UNCHANGED sheetVars
    BY <1>1 DEF sheetVars
  <1>2. CASE SheetNext
    BY <1>2 DEF SheetNext
  <1> QED
    BY <1>1, <1>2 DEF PanesNext, panesVars

\* However often the operator switches between any assets and edges while reads
\* are on their way: the codes that a fault report offers are the shown asset's, and
\* so are its fields unless they were carried over from an earlier asset; the links
\* to cases and the modules that an answer cites are its own once its own lists are
\* there; arrivals are the edge's, and the charts' samples the asset's.
THEOREM PanesShowTheirOwn == PanesSpec => []NothingOfAnother
  <1> DEFINE OwnInv == ReportInv /\ ManualInv /\ SiteInv /\ ChartsInv
  <1>1. PanesInit => OwnInv
    BY ReportBegins, ManualBegins, SitesBegin, ChartsBegin DEF PanesInit
  <1>2. OwnInv /\ [PanesNext]_panesVars => OwnInv'
    BY PaneParts, ReportStep, ManualStep, SiteStep, ChartsStep
  <1>3. OwnInv => NothingOfAnother
    BY ManualShows, SitesShow, ChartsShow DEF NothingOfAnother, ReportInv
  <1> QED
    BY <1>1, <1>2, <1>3, PTL DEF PanesSpec

\* A page serves what its deployment declares, for any files, site tables and
\* terrain blocks, whichever of them were read: below the root the sites of its
\* own region, nobody's of a refused tier or table, nothing of another site
\* while the network is off, and the terrain as the operator last chose it.
THEOREM DeploymentIsObeyed == PanesSpec => []DeploymentObeyed
  <1>1. PanesInit => BootInv /\ PrefsInv
    BY DEF PanesInit, BootInit, BasemapInit, BootInv, PrefsInv, ChoiceSurvives
  <1>2. [PanesNext]_panesVars => [BootNext]_bootVars /\ [BasemapNext]_basemapVars
    <2>1. CASE UNCHANGED siteVars /\ UNCHANGED stockVars
      BY <2>1 DEF siteVars, stockVars
    <2>2. CASE SiteNext /\ UNCHANGED stockVars
      BY <2>2 DEF SiteNext, stockVars
    <2>3. CASE StockNext /\ UNCHANGED siteVars
      BY <2>3 DEF StockNext, siteVars
    <2> QED
      BY <2>1, <2>2, <2>3 DEF PanesNext, panesVars
  <1>3. BootInv /\ PrefsInv /\ [PanesNext]_panesVars => (BootInv /\ PrefsInv)'
    BY <1>2, BootStep, PrefsStep
  <1>4. BootInv /\ PrefsInv => DeploymentObeyed
    BY BootShows, BasemapShows DEF DeploymentObeyed
  <1> QED
    BY <1>1, <1>3, <1>4, PTL DEF PanesSpec

\* On every screen a link is shown up, down or unreachable only for what was
\* measured, of late: the picture and the label side by side.
THEOREM LinksAreTrue == PanesSpec => []LinksShownTrue
  <1>1. PanesInit => PictureInv /\ LabelInv
    BY PictureBegins, LabelBegins DEF PanesInit
  <1>2. [PanesNext]_panesVars => [PictureNext]_pictureVars /\ [LabelNext]_labelVars
    <2>1. CASE UNCHANGED linkVars
      BY <2>1 DEF linkVars
    <2>2. CASE LinkNext
      BY <2>2 DEF LinkNext
    <2> QED
      BY <2>1, <2>2 DEF PanesNext, panesVars
  <1>3. PictureInv => PictureTrue
    BY UnreachableShows, SeveredShows, PictureShows, FreezeShows DEF PictureTrue
  <1>4. PictureInv /\ LabelInv => LinksShownTrue
    BY <1>3, LabelShows DEF LinksShownTrue
  <1>5. PictureInv /\ LabelInv /\ [PanesNext]_panesVars => (PictureInv /\ LabelInv)'
    BY <1>2, PictureStep, LabelStep
  <1> QED
    BY <1>1, <1>4, <1>5, PTL DEF PanesSpec

\* What a consumer of the topic, or of a level's stream, must hear of is told in
\* its order and not lost: the assembler's episodes and arrivals over crashes,
\* unconfirmed sends and replays, and the rows and transitions of the gateway's
\* screen window over folded, held, lost and repeated answers.
THEOREM AllIsTold == PanesSpec => []ToldInFull
  <1>1. PanesInit => AsInv /\ WindowInv
    BY AsBegins, WindowStarts DEF PanesInit
  <1>2. [PanesNext]_panesVars => [AssemblerNext]_assemblerVars /\ [WindowNext]_windowVars
    <2>1. CASE UNCHANGED backVars
      BY <2>1 DEF backVars
    <2>2. CASE BackNext
      BY <2>2 DEF BackNext
    <2> QED
      BY <2>1, <2>2 DEF PanesNext, panesVars
  <1>3. AsInv /\ WindowInv /\ [PanesNext]_panesVars => (AsInv /\ WindowInv)'
    BY <1>2, AsStep, WindowKeeps
  <1>4. AsInv /\ WindowInv => ToldInFull
    BY NewestShows, ArrivalsShow, WindowInvTells DEF ToldInFull, EpisodesAreTold
  <1> QED
    BY <1>1, <1>3, <1>4, PTL DEF PanesSpec

\* A step is one of each part's, or leaves the part alone.
LEMMA PartsStep ==
  [PanesNext]_panesVars =>
    /\ [PopupNext]_popupVars /\ [MoveNext]_moveVars /\ [TiersNext]_tierVars
    /\ [BootNext]_bootVars /\ [RegionMapNext]_mapVars /\ [GateNext]_gateVars
    /\ [LedgerNext]_ledgerVars /\ [PostureNext]_postureVars /\ [BasemapNext]_basemapVars /\ [RollupsNext]_rollupVars
    /\ [PictureNext]_pictureVars /\ [LabelNext]_labelVars
    /\ [SessionsNext]_sessionsVars /\ [AssemblerNext]_assemblerVars /\ [IntakeNext]_intakeVars /\ [WindowNext]_windowVars
  <1> SUFFICES ASSUME [PanesNext]_panesVars
               PROVE  /\ [PopupNext]_popupVars /\ [MoveNext]_moveVars /\ [TiersNext]_tierVars
                      /\ [BootNext]_bootVars /\ [RegionMapNext]_mapVars /\ [GateNext]_gateVars
                      /\ [LedgerNext]_ledgerVars /\ [PostureNext]_postureVars /\ [BasemapNext]_basemapVars
                      /\ [RollupsNext]_rollupVars
                      /\ [PictureNext]_pictureVars /\ [LabelNext]_labelVars
                      /\ [SessionsNext]_sessionsVars /\ [AssemblerNext]_assemblerVars /\ [IntakeNext]_intakeVars
                      /\ [WindowNext]_windowVars
    OBVIOUS
  <1>1. [FigureNext]_figureVars /\ [SiteNext]_siteVars /\ [StockNext]_stockVars /\ [LinkNext]_linkVars /\ [BackNext]_backVars
    BY DEF PanesNext, panesVars
  <1>2. [PopupNext]_popupVars /\ [MoveNext]_moveVars /\ [TiersNext]_tierVars
    BY <1>1 DEF FigureNext, figureVars
  <1>3. [BootNext]_bootVars /\ [RegionMapNext]_mapVars /\ [GateNext]_gateVars
    BY <1>1 DEF SiteNext, siteVars
  <1>4. [LedgerNext]_ledgerVars /\ [PostureNext]_postureVars /\ [BasemapNext]_basemapVars /\ [RollupsNext]_rollupVars
    BY <1>1 DEF StockNext, stockVars
  <1>5. [PictureNext]_pictureVars /\ [LabelNext]_labelVars
    BY <1>1 DEF LinkNext, linkVars
  <1>6. [SessionsNext]_sessionsVars /\ [AssemblerNext]_assemblerVars /\ [IntakeNext]_intakeVars /\ [WindowNext]_windowVars
    BY <1>1 DEF BackNext, backVars
  <1> QED
    BY <1>2, <1>3, <1>4, <1>5, <1>6

\* What the figures are made of.
FiguresInv == MoveInv /\ RoundsInv /\ RegionMapTypeOK /\ LedgerInv /\ PostureInv /\ RollupsInv

LEMMA FiguresBegin == PanesInit => FiguresInv
  BY MoveInvInit, RoundsInvInit, MapInvInit, LedgerInvInit, PostureInvInit, RollupsInvInit DEF PanesInit, FiguresInv

LEMMA FiguresStep == FiguresInv /\ [PanesNext]_panesVars => FiguresInv'
  BY PartsStep, MoveInvStep, RoundsInvStep, MapInvStep, LedgerInvStep, PostureInvStep, RollupsInvStep DEF FiguresInv

\* No figure loses or doubles what it is made of, for any fleet, stock, rows and
\* clock, in whatever order their feeds come: the map's markers over its assets,
\* the munitions' regions over the theater, the posture's classes, FOBs and edges
\* over the fleet, the move panel's times and rounds over its records, and the
\* theater's rollups over their rows.
THEOREM FiguresAreTrue == PanesSpec => []FiguresAddUp
  <1>1. FiguresInv => FiguresAddUp
    BY MoveFigures, RoundsStock, MapLosesNothing, LedgerAdds, PostureAdds, TheaterAdds DEF FiguresInv, FiguresAddUp
  <1> QED
    BY <1>1, FiguresBegin, FiguresStep, PTL DEF PanesSpec

\* The parts whose types rest on nothing but what the invariants of the parts say.
ServersInv == GateInv /\ SessionsInv /\ IntakeInv /\ AsInv /\ WindowInv

ScreensInv ==
    /\ PopupTypeOK /\ TiersInv /\ BootTypes
    /\ ReportInv /\ ReportTypes /\ ManualInv /\ ManualTypeOK /\ SiteInv /\ SiteTypes /\ ChartsInv /\ ChartTypes
    /\ BasemapTypeOK /\ PictureInv /\ LabelInv /\ LabelRest

LEMMA ServersBegin == PanesInit => ServersInv
  BY GateInvInit, SessionsInvInit, IntakeInvInit, AsBegins, WindowStarts DEF PanesInit, ServersInv

LEMMA ServersStep == ServersInv /\ [PanesNext]_panesVars => ServersInv'
  BY PartsStep, GateInvStep, SessionsInvStep, IntakeInvStep, AsStep, WindowKeeps DEF ServersInv

LEMMA ScreensBegin == PanesInit => ScreensInv
  BY PopupTyped, TiersInvInit, BootTyped, ReportBegins, ReportTyped, ManualBegins, ManualTyped, SitesBegin, SitesTyped,
     ChartsBegin, ChartTypesBegin, BasemapTyped, PictureBegins, LabelBegins, LabelRestBegins DEF PanesInit, ScreensInv

LEMMA ScreensStep == ScreensInv /\ [PanesNext]_panesVars => ScreensInv'
  <1> SUFFICES ASSUME ScreensInv, [PanesNext]_panesVars PROVE ScreensInv'
    OBVIOUS
  <1>1. PopupTypeOK' /\ TiersInv' /\ BootTypes' /\ BasemapTypeOK' /\ PictureInv' /\ LabelInv' /\ LabelRest'
    BY PartsStep, PopupTypedStep, TiersInvStep, BootTypedStep, BasemapTypedStep, PictureStep, LabelStep, LabelRestStep
    DEF ScreensInv
  <1>2. ReportInv' /\ ReportTypes' /\ ManualInv' /\ ManualTypeOK'
    BY PaneParts, ReportStep, ReportTypedStep, ManualStep, ManualTypedStep DEF ScreensInv
  <1>3. SiteInv' /\ SiteTypes' /\ ChartsInv' /\ ChartTypes'
    BY PaneParts, SiteStep, SitesTypedStep, ChartsStep, ChartTypesStep DEF ScreensInv
  <1> QED
    BY <1>1, <1>2, <1>3 DEF ScreensInv

LEMMA PanesTyped == FiguresInv /\ ServersInv /\ ScreensInv => PanesTypeOK
  <1> SUFFICES ASSUME FiguresInv, ServersInv, ScreensInv PROVE PanesTypeOK
    OBVIOUS
  <1>1. MoveTypeOK /\ RegionMapTypeOK /\ LedgerTypeOK /\ PostureTypeOK /\ RollupsTypeOK
    BY MoveTyped DEF FiguresInv, LedgerInv, PostureInv, RollupsInv
  <1>2. GateTypeOK /\ SessionsTypeOK /\ IntakeTypeOK /\ AssemblerTypeOK /\ WindowTypeOK
    BY AssemblerTyped, WindowTyped DEF ServersInv, GateInv, SessionsInv, IntakeInv
  <1>3. PopupTypeOK /\ TiersTypeOK /\ BootTypeOK /\ BasemapTypeOK /\ PictureTypeOK /\ LabelTypeOK
    BY LabelTyped DEF ScreensInv, TiersInv, BootTypes, PictureInv
  <1>4. FaultReportTypeOK /\ ManualTypeOK /\ SitePanesTypeOK /\ ChartsTypeOK
    BY ChartsTyped DEF ScreensInv, ReportTypes, SiteTypes
  <1> QED
    BY <1>1, <1>2, <1>3, <1>4 DEF PanesTypeOK

\* The variables of the twenty parts that run side by side keep their types, of
\* the panes of a page, of the pages' inputs, and of the servers behind them.
THEOREM PanesTypes == PanesSpec => []PanesTypeOK
  <1> DEFINE TypesInv == FiguresInv /\ ServersInv /\ ScreensInv
  <1>1. PanesInit => TypesInv
    BY FiguresBegin, ServersBegin, ScreensBegin
  <1>2. TypesInv /\ [PanesNext]_panesVars => TypesInv'
    BY FiguresStep, ServersStep, ScreensStep
  <1>3. TypesInv => PanesTypeOK
    BY PanesTyped
  <1> QED
    BY <1>1, <1>2, <1>3, PTL DEF PanesSpec
=============================================================================
