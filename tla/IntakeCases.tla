------------------------------- MODULE IntakeCases -------------------------------
(***************************************************************************)
(* The cases that intake asks a destination for, one by one                *)
(* (egress/intake.py, _run_case_poll): each tick reads the delivered       *)
(* ledger rows that have a case and no final intake row, takes at most     *)
(* MaxCasesPerTick of them from where the last tick stopped, and fetches   *)
(* them.  What becomes of a fetched artifact is the module Intake's; here  *)
(* its row is final afterwards, or is not.                                 *)
(*                                                                         *)
(* A case that is settled or left the window may come again: it stands for *)
(* a new one, so that behaviours need not end.  A tick without a token, or whose *)
(* read fails, changes nothing and is left out, as are the counters.       *)
(***************************************************************************)
EXTENDS Naturals, SequencesExt

CONSTANTS
    Cases,
    MaxCasesPerTick,    \* max_cases_per_tick
    RowsAreHeld,        \* the route holds records: a row may be older than its delivery
    MaxIntakes          \* starts of the process of a behaviour

ASSUME CasesAssumption ==
    IsFiniteSet(Cases) /\ MaxCasesPerTick \in Nat \ {0} /\ RowsAreHeld \in BOOLEAN /\ MaxIntakes \in Nat \ {0}

VARIABLES
    icLedger,           \* the cases of the rows that are delivered, within the window
                        \* and without a final intake row, oldest first (external)
    icUp,
    icForbidden,        \* _CASE_FORBIDDEN
    icCursor,           \* _CASE_CURSORS
    icChosen,           \* what the tick still has to fetch
    icStarts

casesVars == <<icLedger, icUp, icForbidden, icCursor, icChosen, icStarts>>

CasesTypeOK ==
    /\ ToSet(icLedger) \subseteq Cases /\ IsInjective(icLedger)
    /\ icForbidden \subseteq Cases /\ icUp \in BOOLEAN
    /\ icCursor \in 0..(Cardinality(Cases) + MaxCasesPerTick)
    /\ ToSet(icChosen) \subseteq Cases /\ icStarts \in 1..MaxIntakes

CasesInit ==
    /\ icLedger = << >> /\ icUp = TRUE
    /\ icForbidden = {} /\ icCursor = 0 /\ icChosen = << >> /\ icStarts = 1

-----------------------------------------------------------------------------
(* One tick. *)

\* The open cases, oldest first: those of the ledger that are not forbidden.
OpenWith(open, c) == IF c \in icForbidden THEN open ELSE Append(open, c)
OpenCases == FoldLeft(OpenWith, << >>, icLedger)
IsOpen(c) == c \in ToSet(OpenCases)

\* [mutant] Every tick begins at the oldest.
FromTheOldest(open) == 0

\* Where a tick begins: where the last one stopped, in the list as it is now.
StartOf(open) == IF open = << >> THEN 0 ELSE icCursor % Len(open)

\* The open cases are read and some are chosen, round the list.
ChooseCases ==
    /\ icUp /\ icChosen = << >>
    /\ LET open == OpenCases  start == StartOf(open)
           rotated == SubSeq(open, start + 1, Len(open)) \o SubSeq(open, 1, start)
           chosen == SubSeq(rotated, 1, IF Len(open) < MaxCasesPerTick THEN Len(open) ELSE MaxCasesPerTick)
       IN icChosen' = chosen /\ icCursor' = start + Len(chosen)
    /\ UNCHANGED <<icLedger, icUp, icForbidden, icStarts>>

\* The next chosen case is fetched: it has no action yet, the fetch failed or brought
\* what is no object, or its artifact got no final row; it is forbidden; or its
\* artifact's row is final, which settles it.
FetchCase ==
    /\ icUp /\ icChosen # << >> /\ icChosen' = Tail(icChosen)
    /\ \/ UNCHANGED <<icLedger, icForbidden>>
       \/ icForbidden' = icForbidden \cup {Head(icChosen)} /\ UNCHANGED icLedger
       \/ icLedger' = RemoveFirst(icLedger, Head(icChosen)) /\ UNCHANGED icForbidden
    /\ UNCHANGED <<icUp, icCursor, icStarts>>

\* The process dies, and is started with nothing in memory.
KillIntake ==
    /\ icUp /\ icStarts < MaxIntakes /\ icUp' = FALSE /\ icChosen' = << >>
    /\ UNCHANGED <<icLedger, icForbidden, icCursor, icStarts>>
StartIntake ==
    /\ ~icUp /\ icUp' = TRUE /\ icStarts' = icStarts + 1 /\ icForbidden' = {} /\ icCursor' = 0
    /\ UNCHANGED <<icLedger, icChosen>>

-----------------------------------------------------------------------------
(* The ledger (external). *)

\* A record is delivered and its row has a case: the newest, unless it was held
\* while others were delivered.
CaseComes(c) ==
    /\ c \notin ToSet(icLedger) \cup ToSet(icChosen) \cup icForbidden
    /\ \E i \in 1..(Len(icLedger) + 1) :
          icLedger' = InsertAt(icLedger, i, c) /\ (RowsAreHeld \/ i = Len(icLedger) + 1)
    /\ UNCHANGED <<icUp, icForbidden, icCursor, icChosen, icStarts>>

\* The oldest row leaves the window.
CaseAges ==
    /\ icLedger # << >> /\ icLedger' = Tail(icLedger)
    /\ UNCHANGED <<icUp, icForbidden, icCursor, icChosen, icStarts>>

CasesNext ==
    \/ ChooseCases \/ FetchCase \/ KillIntake \/ StartIntake
    \/ CaseAges \/ \E c \in Cases : CaseComes(c)

CasesFairness == WF_casesVars(ChooseCases) /\ WF_casesVars(FetchCase) /\ WF_casesVars(StartIntake)

CasesSpec == CasesInit /\ [][CasesNext]_casesVars /\ CasesFairness

-----------------------------------------------------------------------------
Asks(c) == icChosen # << >> /\ Head(icChosen) = c

\* Once no case comes, is settled or leaves, every open one is asked for again and
\* again, whatever was open when the cursor was set and however many there are
\* (_run_case_poll: "successive ticks walk the whole list").
EachIsAskedFor ==
    \A c \in Cases : []<>(~IsOpen(c) \/ Asks(c)) \/ []<><<OpenCases' # OpenCases>>_casesVars

\* _run_case_poll's reason for the cursor: "a cap that always took the oldest would
\* starve every newer case".  So a case that is open would be asked for while it is,
\* also while others come and are settled; but a cursor into a list that shrinks
\* before it passes cases over.
NoCaseStarves == \A c \in Cases : IsOpen(c) ~> Asks(c) \/ ~IsOpen(c)
=============================================================================
