------------------------------- MODULE ScreenWindow -------------------------------
(***************************************************************************)
(* The screen window of the gateway (gateway/pep.py 692-825): a live read  *)
(* of an element level is polled upstream and answered once.  Updates of   *)
(* values are folded by row and held until the window has run; a           *)
(* transition, or a control of the stream, releases all that is held.      *)
(*                                                                         *)
(* A message carries the columns it changes, each with the message's place *)
(* in the shape's log.  The page's client (external) applies an answer to  *)
(* its rows and reads on from the answer's offset; one whose answer or     *)
(* poll failed reads again from its own.  The window may end at any time:  *)
(* its length and when the last one ended are left out, as are the counts. *)
(***************************************************************************)
EXTENDS Naturals, Sequences, SequencesExt, FiniteSets

CONSTANTS
    LevelRows,          \* the rows of the level; of them
    FirstRows,          \* those that are there at first
    MaxShapeLog         \* bound: messages of the shape

ASSUME WindowAssumption == FirstRows \subseteq LevelRows /\ MaxShapeLog \in Nat

VARIABLES
    swLog,      \* the shape's log (external): messages [op, row, value]
    swPhase,    \* of the read under way: "none", "polling", "answered", "refetch"
    swCur,      \* cur: the offset that is polled from, with what an answer says
    swHeld,     \* held: messages, each with the place it was first said at
    swControl,  \* a control is held
    swRows,     \* the client's rows
    swOffset,   \* the offset it has read to
    swSince,    \* history: the offset at which it last read anew
    swTold      \* history: the transitions that it was told since, by place

readVars == <<swPhase, swCur, swHeld, swControl>>
clientVars == <<swRows, swOffset, swSince, swTold>>
windowVars == <<swLog, readVars, clientVars>>

\* TRANSITION_COLUMNS, and the others.
Columns == {"band", "temp"}
ShapeOps == {"insert", "update", "delete"}

\* _screen_is_transition.
IsTransition(msg) == msg.op # "update" \/ "band" \in DOMAIN msg.value

\* The places of the transitions, in the order of their messages.
Telling(told, msg) == IF IsTransition(msg) THEN Append(told, msg.at) ELSE told

\* What a message makes of the rows.
AppliedTo(rows, msg) ==
    CASE msg.op = "delete" -> [r \in DOMAIN rows \ {msg.row} |-> rows[r]]
      [] msg.op = "insert" -> [r \in DOMAIN rows \cup {msg.row} |-> IF r = msg.row THEN msg.value ELSE rows[r]]
      [] OTHER -> [rows EXCEPT ![msg.row] =
                      [c \in DOMAIN @ |-> IF c \in DOMAIN msg.value THEN msg.value[c] ELSE @[c]]]

RowsAtFirst == [r \in FirstRows |-> [c \in Columns |-> 0]]
RowsAt(n) == FoldLeft(AppliedTo, RowsAtFirst, SubSeq(swLog, 1, n))

Messages == [op : ShapeOps, row : LevelRows, value : UNION {[cs -> 0..MaxShapeLog] : cs \in SUBSET Columns},
             at : 0..MaxShapeLog]

WindowTypeOK ==
    /\ swLog \in Seq(Messages) /\ swPhase \in {"none", "polling", "answered", "refetch"}
    /\ swCur \in 0..Len(swLog) /\ swHeld \in Seq(Messages) /\ swControl \in BOOLEAN
    /\ DOMAIN swRows \subseteq LevelRows /\ \A r \in DOMAIN swRows : DOMAIN swRows[r] = Columns
    /\ swOffset \in 0..Len(swLog) /\ swSince \in 0..swOffset
    /\ swTold \in Seq(1..MaxShapeLog)

WindowInit ==
    /\ swLog = << >> /\ swPhase = "none" /\ swCur = 0 /\ swHeld = << >> /\ swControl = FALSE
    /\ swRows = RowsAtFirst /\ swOffset = 0 /\ swSince = 0 /\ swTold = << >>

-----------------------------------------------------------------------------
(* Upstream: a row of the shape changes. *)

RowChanges(r) ==
    LET n == Len(swLog) + 1  there == r \in DOMAIN RowsAt(Len(swLog))
        Says(op, cs) == [op |-> op, row |-> r, value |-> [c \in cs |-> n], at |-> n] IN
    /\ Len(swLog) < MaxShapeLog
    /\ \/ ~there /\ swLog' = Append(swLog, Says("insert", Columns))
       \/ there /\ \E cs \in (SUBSET Columns) \ {{}} : swLog' = Append(swLog, Says("update", cs))
       \/ there /\ swLog' = Append(swLog, Says("delete", {}))
    /\ UNCHANGED <<readVars, clientVars>>

-----------------------------------------------------------------------------
(* One read, _screen_collect. *)

BeginRead ==
    /\ swPhase = "none" /\ swPhase' = "polling"
    /\ swCur' = swOffset /\ swHeld' = << >> /\ swControl' = FALSE
    /\ UNCHANGED <<swLog, clientVars>>

\* latest: where the newest held message of a row is, unless it deletes the row.
LatestOf(held, r) ==
    LET of == {i \in DOMAIN held : held[i].row = r}
        newest == {i \in of : \A j \in of : j <= i}
    IN {i \in newest : held[i].op # "delete"}

FoldedInto(to, msg) ==
    [to EXCEPT !.value = [c \in DOMAIN @ \cup DOMAIN msg.value |->
        IF c \in DOMAIN msg.value THEN msg.value[c] ELSE @[c]]]

\* [mutant] A transition is folded like a value.
FoldAny(held, msg) ==
    LET prior == LatestOf(held, msg.row) IN
    IF prior # {} /\ msg.op = "update"
    THEN [i \in DOMAIN held |-> IF i \in prior THEN FoldedInto(held[i], msg) ELSE held[i]]
    ELSE Append(held, msg)

\* _screen_fold: a value goes into the newest message of its row, if one is held.
Fold(held, msg) ==
    LET prior == LatestOf(held, msg.row) IN
    IF prior # {} /\ ~IsTransition(msg)
    THEN [i \in DOMAIN held |-> IF i \in prior THEN FoldedInto(held[i], msg) ELSE held[i]]
    ELSE Append(held, msg)

\* A poll brings what the log has from swCur on, up to somewhere, perhaps nothing
\* but that it is up to date, and perhaps a control.  The read is answered if there
\* is nothing to hold, something that must not be, or the window is over.
PollBrings ==
    /\ swPhase = "polling"
    /\ \E n \in swCur..Len(swLog), control \in BOOLEAN :
          LET batch == SubSeq(swLog, swCur + 1, n)
              flush == control \/ \E i \in DOMAIN batch : IsTransition(batch[i])
          IN  /\ swCur' = n /\ swControl' = control
              /\ swHeld' = FoldLeft(Fold, swHeld, batch)
              /\ \/ swPhase' = "answered"
                 \/ ~flush /\ swHeld' # << >> /\ swPhase' = "polling"
    /\ UNCHANGED <<swLog, clientVars>>

\* The window ends while a poll waits, and what is held is answered.
PollTimesOut ==
    /\ swPhase = "polling" /\ swHeld # << >> /\ swPhase' = "answered"
    /\ UNCHANGED <<swLog, swCur, swHeld, swControl, clientVars>>

\* The poll fails, and what is held is dropped.
PollFails ==
    /\ swPhase = "polling" /\ swPhase' = "none" /\ swHeld' = << >>
    /\ UNCHANGED <<swLog, swCur, swControl, clientVars>>

\* 409: the handle is gone upstream, and the client is told.
MustRefetch ==
    /\ swPhase = "polling" /\ swPhase' = "refetch" /\ swHeld' = << >>
    /\ UNCHANGED <<swLog, swCur, swControl, clientVars>>

-----------------------------------------------------------------------------
(* The client (external). *)

Done == swPhase' = "none" /\ swHeld' = << >> /\ UNCHANGED <<swLog, swCur, swControl>>

\* It applies an answer and goes on from its offset.
AnswerApplied ==
    /\ swPhase = "answered" /\ ~swControl /\ Done
    /\ swRows' = FoldLeft(AppliedTo, swRows, swHeld) /\ swOffset' = swCur
    /\ swTold' = FoldLeft(Telling, swTold, swHeld)
    /\ UNCHANGED swSince

\* The answer is lost: the client has moved nowhere.
AnswerLost == swPhase \in {"answered", "refetch"} /\ Done /\ UNCHANGED clientVars

\* A control, or the 409, makes it read the shape anew, which is no live read.
ReadsAnew ==
    /\ swPhase = "refetch" \/ (swPhase = "answered" /\ swControl)
    /\ Done
    /\ swRows' = RowsAt(Len(swLog)) /\ swOffset' = Len(swLog) /\ swSince' = Len(swLog) /\ swTold' = << >>

WindowNext ==
    \/ \E r \in LevelRows : RowChanges(r)
    \/ BeginRead \/ PollBrings \/ PollTimesOut \/ PollFails \/ MustRefetch
    \/ AnswerApplied \/ AnswerLost \/ ReadsAnew

WindowSpec == WindowInit /\ [][WindowNext]_windowVars

-----------------------------------------------------------------------------
(* Properties. *)

\* What was folded, held, lost and read again makes no difference to the rows: the
\* client has those of the shape at its offset.
RowsAreTheShapes == swRows = RowsAt(swOffset)

\* "No window delays, merges or drops a transition": the client was told each up to its
\* offset, in their order, and none waits while the next poll is under way.
TransitionsTold ==
    /\ swTold = FoldLeft(Telling, << >>, SubSeq(swLog, swSince + 1, swOffset))
    /\ swPhase = "polling" => \A i \in DOMAIN swHeld : ~IsTransition(swHeld[i])

\* However long values come, an answer that is held says each row once.
EachRowOnce == swPhase = "polling" => IsInjective([i \in DOMAIN swHeld |-> swHeld[i].row])

ScreenToldAll == RowsAreTheShapes /\ TransitionsTold /\ EachRowOnce
=============================================================================
