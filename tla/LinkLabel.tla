------------------------------ MODULE LinkLabel ------------------------------
(***************************************************************************)
(* The observed state of a tier's own uplink, as its headers show it       *)
(* (lib/linkIndicator.ts, hooks/useLinkIndicator.ts, useEdgeBuffer.ts): a  *)
(* function of the edge_buffer_status row, of the shape's error, of a clock*)
(* read once a second and of what was shown before.  A row waits up to     *)
(* twenty seconds for a socket, so a row's age is no sign by itself; one   *)
(* taken for stale must come back fresh before it is believed.             *)
(*                                                                         *)
(* External: the projector's row, the shape's errors and the clock.        *)
(***************************************************************************)
EXTENDS Integers

CONSTANTS
    StaleEnter,     \* STALE_ENTER_S, in ticks of the clock
    StaleExit,      \* STALE_EXIT_S
    MaxLabelNow,    \* bound: the clock
    MaxErrors       \* bound: turns of the shape's error and mounts

ASSUME LinkLabelAssumption ==
    /\ StaleEnter \in Nat /\ StaleExit \in 0..StaleEnter /\ MaxLabelNow \in Nat /\ MaxErrors \in Nat

VARIABLES
    lbRow,     \* the row: its verdict and updated_at; NoStatus before the first
    lbError,   \* isError of the shape
    lbNow,     \* the hook's clock
    lbKind,    \* what is shown
    lbProven,  \* history: since this mount last showed stale, a row was seen fresh
    lbTurns    \* turns taken

labelVars == <<lbRow, lbError, lbNow, lbKind, lbProven, lbTurns>>

Verdicts == {"up", "severed", "probe_down"}
NoStatus == [verdict |-> "none", at |-> 0]

LabelTypeOK ==
    /\ lbRow \in {NoStatus} \cup [verdict : Verdicts, at : 0..MaxLabelNow]
    /\ lbError \in BOOLEAN /\ lbNow \in 0..MaxLabelNow /\ lbTurns \in 0..MaxErrors
    /\ lbKind \in Verdicts \cup {"unknown", "stale"} /\ lbProven \in BOOLEAN

-----------------------------------------------------------------------------
AgeOf(row, now) == now - row.at

\* classifyLinkIndicator: a label that is stale asks for a fresher row.
KindOf(row, error, now, before) ==
    CASE row = NoStatus -> "unknown"
      [] row # NoStatus /\ (error \/ AgeOf(row, now) > IF before = "stale" THEN StaleExit ELSE StaleEnter) -> "stale"
      [] OTHER -> row.verdict

\* The line an indicator is drawn with: green only when observed up.
LineOf(kind) == CASE kind = "up" -> "NOMINAL" [] kind = "severed" -> "SEVERED" [] OTHER -> "UNKNOWN"

\* The tone of the pill.
LabelTone(kind) ==
    CASE kind = "up" -> "ok" [] kind = "severed" -> "bad" [] kind = "probe_down" -> "warn" [] OTHER -> "neutral"

\* The uplink among a region's link counts.
UplinkReading(kind) == CASE kind = "up" -> "up" [] kind = "severed" -> "down" [] OTHER -> "unknown"

-----------------------------------------------------------------------------
LabelInit ==
    /\ lbRow = NoStatus /\ lbError = FALSE /\ lbNow = 0 /\ lbTurns = 0
    /\ lbKind = KindOf(lbRow, lbError, lbNow, "unknown") /\ lbProven = TRUE

\* A render whose inputs differ from the last one's: the kind is taken again.
ShownAgain(row, error, now) ==
    LET fresh == row # NoStatus /\ ~error /\ AgeOf(row, now) <= StaleExit
        kind  == KindOf(row, error, now, lbKind) IN
    /\ lbRow' = row /\ lbError' = error /\ lbNow' = now
    /\ lbKind' = kind
    /\ lbProven' = (fresh \/ (lbProven /\ kind # "stale"))

\* The shape brings a newer row, as old as the queue made it.
StatusArrives ==
    /\ \E v \in Verdicts, at \in lbRow.at..lbNow :
          lbRow # [verdict |-> v, at |-> at] /\ ShownAgain([verdict |-> v, at |-> at], lbError, lbNow)
    /\ UNCHANGED lbTurns

LabelTurn == lbTurns < MaxErrors /\ lbTurns' = lbTurns + 1

ErrorTurns == LabelTurn /\ ShownAgain(lbRow, ~lbError, lbNow)

LabelTicks == lbNow < MaxLabelNow /\ ShownAgain(lbRow, lbError, lbNow + 1) /\ UNCHANGED lbTurns

\* The header is mounted again: nothing was shown before.
LabelMounts ==
    /\ LabelTurn
    /\ lbKind' = KindOf(lbRow, lbError, lbNow, "unknown") /\ lbProven' = (lbKind' # "stale")
    /\ UNCHANGED <<lbRow, lbError, lbNow>>

LabelNext == StatusArrives \/ ErrorTurns \/ LabelTicks \/ LabelMounts

LabelSpec == LabelInit /\ [][LabelNext]_labelVars

-----------------------------------------------------------------------------
(* Properties. *)

\* Green or red is shown, as a line, a pill or a count, only for what the row
\* says, and of a row that is young enough, of a feed that is not in error, and,
\* once the label has gone stale, seen fresh since.  Nor does a label stay stale
\* over a fresh row of a good feed.
LabelTrue ==
    LET vouched == ~lbError /\ AgeOf(lbRow, lbNow) <= StaleEnter /\ lbProven IN
    /\ LineOf(lbKind) = "NOMINAL" \/ LabelTone(lbKind) = "ok" \/ UplinkReading(lbKind) = "up"
          => lbRow.verdict = "up" /\ vouched
    /\ LineOf(lbKind) = "SEVERED" \/ LabelTone(lbKind) = "bad" \/ UplinkReading(lbKind) = "down"
          => lbRow.verdict = "severed" /\ vouched
    /\ lbKind = "stale" => lbError \/ AgeOf(lbRow, lbNow) > StaleExit
=============================================================================
