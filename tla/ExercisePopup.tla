----------------------------- MODULE ExercisePopup -----------------------------
(***************************************************************************)
(* The HQ page's exercise popup (ExercisePopup.tsx, and resetPreflight and *)
(* resetConfirmBody of exerciseControl.ts): it sends some commands at      *)
(* once, asks again before the destructive ones, and before a reset has    *)
(* the open work counted, so that the confirmation names what the reset    *)
(* would cancel.  The count is a request: its answer may come after the    *)
(* press that asked for it was given up.                                   *)
(*                                                                         *)
(* External: the status that the controller hands down, which changes at   *)
(* any time.  Texts, icons and the mere display of a status are left out.  *)
(***************************************************************************)
EXTENDS Naturals

CONSTANTS
    MaxClicks,      \* bound: how many commands the user clicks
    Supervisor      \* may_press: may this login press reset, loop and sequences

ASSUME PopupAssumption == MaxClicks \in Nat /\ Supervisor \in BOOLEAN

VARIABLES
    exKind,         \* the controller's kind
    exBusy,         \* what the status shows to run
    exOpen,         \* open
    exPending,      \* pendingConfirmOp
    exPreflight,    \* preflight: what it shows, and the press that asked
    exSeq,          \* preflightSeq
    exCounts,       \* the counts under way
    exClicks,       \* history: how many clicks
    exSent          \* history: the last reset sent

popupVars == <<exKind, exBusy, exOpen, exPending, exPreflight, exSeq, exCounts, exClicks, exSent>>
shownVars == <<exKind, exBusy>>
askVars == <<exPending, exPreflight, exSeq>>

AskedFirst == {"stop", "reset", "loop", "sequence"}     \* CONFIRM_OPS and the sequences
Preflights == [kind : {"ready", "unavailable"}, over : {0, 1}, of : Nat]
NoPreflight == [kind |-> "null", over |-> 0, of |-> 0]
NoReset == [cancels |-> 0, counted |-> 0, press |-> 0]

PopupTypeOK ==
    /\ exKind \in {"loading", "absent", "forbidden", "ok"}
    /\ exBusy \in {"nothing", "loop", "sequence"}
    /\ exOpen \in BOOLEAN
    /\ exPending \in AskedFirst \cup {"null"}
    /\ exPreflight \in Preflights \/ exPreflight.kind \in {"null", "loading"}
    /\ exSeq \in Nat /\ exClicks \in 0..MaxClicks
    /\ exCounts \subseteq Preflights

PopupInit ==
    /\ exKind = "loading" /\ exBusy = "nothing"
    /\ exOpen = FALSE /\ exPending = "null" /\ exPreflight = NoPreflight
    /\ exSeq = 0 /\ exCounts = {} /\ exClicks = 0 /\ exSent = NoReset

-----------------------------------------------------------------------------
(* What is shown, and which buttons work. *)

PanelShown == exKind = "ok" /\ exOpen
LoopBusy == exBusy = "loop"
ResetBlocked == ~Supervisor

OpWorks == PanelShown /\ ~LoopBusy
ResetWorks == PanelShown /\ ~ResetBlocked /\ ~LoopBusy
SequenceWorks == PanelShown /\ Supervisor /\ exBusy = "nothing"
LoopWorks == PanelShown /\ ~ResetBlocked /\ exBusy = "nothing"
LoopStopWorks == PanelShown /\ LoopBusy
CancelWorks == PanelShown /\ exPending # "null"
YesWorks == CancelWorks /\ ~(exPending = "reset" /\ exPreflight.kind = "loading")

ShownChanges ==
    /\ exKind' \in {"absent", "forbidden", "ok"}
    /\ exBusy' \in IF exKind' = "ok" THEN {"nothing", "loop", "sequence"} ELSE {"nothing"}
    /\ UNCHANGED <<exOpen, askVars, exCounts, exClicks, exSent>>

-----------------------------------------------------------------------------
(* The handlers. *)

\* Forget the question and its count, and outdate the count under way.
Forget ==
    /\ exPending' = "null"
    /\ exPreflight' = NoPreflight
    /\ exSeq' = exSeq + 1

Open ==
    /\ exKind = "ok" /\ ~exOpen
    /\ exOpen' = TRUE
    /\ UNCHANGED <<shownVars, askVars, exCounts, exClicks, exSent>>

\* The pill, the cross, Escape, or a click elsewhere.
Close ==
    /\ exOpen /\ exSeq < 2 * MaxClicks
    /\ exOpen' = FALSE
    /\ Forget
    /\ UNCHANGED <<shownVars, exCounts, exClicks, exSent>>

Click(works) ==
    /\ works /\ exClicks < MaxClicks
    /\ exClicks' = exClicks + 1

\* A command that is sent at once.
SendNow ==
    /\ Click(OpWorks \/ LoopStopWorks)
    /\ UNCHANGED <<shownVars, exOpen, askVars, exCounts, exSent>>

\* handleOpClick, for a command that is asked again.
AskFirst ==
    /\ \E op \in {"stop", "loop", "sequence"} :
          /\ Click(CASE op = "stop" -> OpWorks [] op = "loop" -> LoopWorks [] OTHER -> SequenceWorks)
          /\ exPending' = op
    /\ UNCHANGED <<shownVars, exOpen, exPreflight, exSeq, exCounts, exSent>>

\* ... and for the reset, whose open work is counted meanwhile.  The count is
\* at most the limit, over it, or unavailable.
AskReset ==
    /\ Click(ResetWorks)
    /\ exPending' = "reset"
    /\ exSeq' = exSeq + 1
    /\ exPreflight' = [kind |-> "loading", over |-> 0, of |-> exSeq']
    /\ \E counted \in {<<"ready", 0>>, <<"ready", 1>>, <<"unavailable", 0>>} :
          exCounts' = exCounts \cup {[kind |-> counted[1], over |-> counted[2], of |-> exSeq']}
    /\ UNCHANGED <<shownVars, exOpen, exSent>>

\* [mutant] The answer shown whichever press asked for it.
CountedAlways(c) ==
    /\ exCounts' = exCounts \ {c}
    /\ exPreflight' = c
    /\ UNCHANGED <<shownVars, exOpen, exPending, exSeq, exClicks, exSent>>

\* The count is answered: shown if the press that asked is still the last.
Counted(c) ==
    /\ exCounts' = exCounts \ {c}
    /\ exPreflight' = IF exSeq = c.of THEN c ELSE exPreflight
    /\ UNCHANGED <<shownVars, exOpen, exPending, exSeq, exClicks, exSent>>

\* resetConfirmBody: leave to cancel only with a readable count over the limit.
ConfirmBody(view) == IF view.kind = "ready" THEN view.over ELSE 0

Confirm ==
    /\ YesWorks
    /\ exSent' = IF exPending = "reset"
                 THEN [cancels |-> ConfirmBody(exPreflight), counted |-> exPreflight.of, press |-> exSeq]
                 ELSE exSent
    /\ Forget
    /\ UNCHANGED <<shownVars, exOpen, exCounts, exClicks>>

CancelConfirm ==
    /\ CancelWorks
    /\ Forget
    /\ UNCHANGED <<shownVars, exOpen, exCounts, exClicks, exSent>>

-----------------------------------------------------------------------------
PopupNext ==
    \/ ShownChanges \/ Open \/ Close \/ SendNow \/ AskFirst \/ AskReset
    \/ Confirm \/ CancelConfirm
    \/ \E c \in exCounts : Counted(c)

PopupSpec == PopupInit /\ [][PopupNext]_popupVars

-----------------------------------------------------------------------------
(* Properties. *)

\* A reset that gives leave to cancel open work does it with the count that
\* was made for this very press: never with one that was asked for by an
\* earlier press, cancelled or repeated since.
NoUnseenCancel == exSent.cancels > 0 => exSent.counted = exSent.press
=============================================================================
