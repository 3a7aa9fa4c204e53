------------------------------- MODULE MovePanel -------------------------------
(***************************************************************************)
(* The move panel (lib/movePanel.ts, components/MovePanel.tsx): what a     *)
(* tier says of a launcher's newest move and of its rounds, derived from   *)
(* append-only rows: posture transitions, launches and resupplies.  Rows   *)
(* reach the tier's store late, the transitions in order, launches and     *)
(* resupplies in any order, and a component sees them in any order.        *)
(*                                                                         *)
(* External: the launcher, which is ordered to march, moves, halts, fires  *)
(* and is resupplied, and the edge that writes a row for each of these.    *)
(* Here it fires and is resupplied one round of one munition at a time.    *)
(***************************************************************************)
EXTENDS Integers, FiniteSets, SequencesExt

CONSTANTS
    Declared,   \* the declared load, which the launcher starts with
    MaxNow,     \* bound: the last instant
    MaxRows     \* bound: rows of launches and resupplies

ASSUME MoveAssumption == Declared \in Nat /\ MaxNow \in Nat \ {0} /\ MaxRows \in Nat

VARIABLES
    mvNow,          \* the clock of the edge and of the browser
    mvPosture,      \* the launcher's posture, as the edge derives it
    mvMotion,       \* since when it has been moving, or has been halted
    mvMove,         \* history: what really happened since the last march order
    mvTransitions,  \* the rows of posture transitions, all of them
    mvArrived,      \* how many of them this tier has
    mvRounds,       \* the rows of launches and resupplies, all of them
    mvHere,         \* the indices of those this tier has
    mvStock         \* history: mvStock[t]: the rounds aboard at the end of instant t

moveVars == <<mvNow, mvPosture, mvMotion, mvMove, mvTransitions, mvArrived, mvRounds, mvHere, mvStock>>
launcherVars == <<mvPosture, mvMotion, mvMove>>

Phases == {"emplaced", "march_ordered", "moving", "emplacing"}
NoTime == 0
NoMove == [ordered |-> NoTime, started |-> NoTime, halted |-> NoTime, emplaced |-> NoTime]

MoveTypeOK ==
    /\ mvNow \in 1..MaxNow /\ mvPosture \in Phases
    /\ mvMotion \in [moving : BOOLEAN, since : Nat]
    /\ mvMove \in [DOMAIN NoMove -> 0..MaxNow]
    /\ mvArrived \in 0..Len(mvTransitions)
    /\ mvHere \subseteq DOMAIN mvRounds
    /\ DOMAIN mvStock = 1..mvNow

MoveInit ==
    /\ mvNow = 1 /\ mvPosture = "emplaced" /\ mvMotion = [moving |-> FALSE, since |-> 1]
    /\ mvMove = NoMove /\ mvTransitions = << >> /\ mvArrived = 0
    /\ mvRounds = << >> /\ mvHere = {} /\ mvStock = <<Declared>>

-----------------------------------------------------------------------------
(* The launcher and the edge. *)

Tick ==
    /\ mvNow < MaxNow
    /\ mvNow' = mvNow + 1
    /\ mvStock' = Append(mvStock, mvStock[mvNow])
    /\ UNCHANGED <<launcherVars, mvTransitions, mvArrived, mvRounds, mvHere>>

\* At most one transition an instant: their times tell them apart.
Transition(to) ==
    /\ \A n \in DOMAIN mvTransitions : mvTransitions[n].at < mvNow
    /\ mvTransitions' = Append(mvTransitions, [from |-> mvPosture, to |-> to, at |-> mvNow,
                                               motionSince |-> mvMotion.since])
    /\ mvPosture' = to
    /\ UNCHANGED <<mvNow, mvMotion, mvArrived, mvRounds, mvHere, mvStock>>

MarchOrdered ==
    /\ mvPosture = "emplaced"
    /\ Transition("march_ordered")
    /\ mvMove' = [NoMove EXCEPT !.ordered = mvNow]

\* Motion is measured before the posture follows it.
MotionTurns ==
    /\ \/ mvPosture = "march_ordered" /\ ~mvMotion.moving
       \/ mvPosture = "moving" /\ mvMotion.moving
    /\ mvMotion' = [moving |-> ~mvMotion.moving, since |-> mvNow]
    /\ mvMove' = IF mvMotion.moving THEN [mvMove EXCEPT !.halted = mvNow]
                 ELSE [mvMove EXCEPT !.started = mvNow]
    /\ UNCHANGED <<mvNow, mvPosture, mvTransitions, mvArrived, mvRounds, mvHere, mvStock>>

Moves == mvPosture = "march_ordered" /\ mvMotion.moving /\ Transition("moving") /\ UNCHANGED mvMove

Halts == mvPosture = "moving" /\ ~mvMotion.moving /\ Transition("emplacing") /\ UNCHANGED mvMove

\* A march order may be taken back before the launcher has moved.
Emplaced ==
    /\ mvPosture = "emplacing" \/ (mvPosture = "march_ordered" /\ ~mvMotion.moving)
    /\ Transition("emplaced")
    /\ mvMove' = [mvMove EXCEPT !.emplaced = mvNow]

\* A round more than the launcher holds is not taken.
Fires ==
    /\ Len(mvRounds) < MaxRows /\ mvStock[mvNow] > 0
    \* at one instant a launch comes before a resupply
    /\ \A r \in DOMAIN mvRounds : mvRounds[r].t = mvNow => mvRounds[r].kind = "fire"
    /\ mvRounds' = Append(mvRounds, [t |-> mvNow, kind |-> "fire"])
    /\ mvStock' = [mvStock EXCEPT ![mvNow] = @ - 1]
    /\ UNCHANGED <<mvNow, launcherVars, mvTransitions, mvArrived, mvHere>>

Resupplied ==
    /\ Len(mvRounds) < MaxRows
    /\ mvRounds' = Append(mvRounds, [t |-> mvNow, kind |-> "resupply"])
    /\ mvStock' = [mvStock EXCEPT ![mvNow] = IF @ < Declared THEN @ + 1 ELSE @]
    /\ UNCHANGED <<mvNow, launcherVars, mvTransitions, mvArrived, mvHere>>

TransitionArrives ==
    /\ mvArrived < Len(mvTransitions)
    /\ mvArrived' = mvArrived + 1
    /\ UNCHANGED <<mvNow, launcherVars, mvTransitions, mvRounds, mvHere, mvStock>>

RoundArrives ==
    /\ \E r \in DOMAIN mvRounds \ mvHere : mvHere' = mvHere \cup {r}
    /\ UNCHANGED <<mvNow, launcherVars, mvTransitions, mvArrived, mvRounds, mvStock>>

-----------------------------------------------------------------------------
(* latestEpisode and the timings. *)

\* The last march order on record.
LastOrder(rows) ==
    LET orders == {t \in rows : t.to = "march_ordered"} IN
    {t \in orders : \A u \in orders : u.at <= t.at}

\* The first of some transitions, as a set: empty when there is none.
Earliest(rows) == {t \in rows : \A u \in rows : t.at <= u.at}

The(singleton) == CHOOSE t \in singleton : TRUE

HasEpisode(rows) == LastOrder(rows) # {}

LatestEpisode(rows) ==
    LET order  == The(LastOrder(rows))
        after  == {t \in rows : t.at > order.at}
        moving == Earliest({t \in after : t.to = "moving"})
        out    == Earliest({t \in after : t.from = "moving"})
        emplaced == Earliest({t \in after : t.to = "emplaced"}) IN
    [ordered  |-> order.at,
     started  |-> IF moving = {} THEN NoTime ELSE The(moving).motionSince,
     halted   |-> IF out = {} THEN NoTime ELSE The(out).motionSince,
     emplaced |-> IF emplaced = {} THEN NoTime ELSE The(emplaced).at,
     phase    |-> The({t \in after \cup {order} : \A u \in after : u.at <= t.at}).to]

\* A figure, or {} when it is absent.
MarchOrderTime(ep) == IF ep.started = NoTime THEN {} ELSE {ep.started - ep.ordered}

EmplaceTime(ep) == IF ep.emplaced = NoTime \/ ep.halted = NoTime THEN {} ELSE {ep.emplaced - ep.halted}

-----------------------------------------------------------------------------
(* replayLedger. *)

\* By time, a launch before a resupply of the same instant.
RowBefore(r, s) ==
    \/ r.t < s.t
    \/ r.t = s.t /\ r.kind = "fire" /\ s.kind = "resupply"
    \/ r.t = s.t /\ r.kind = s.kind /\ r.id < s.id

LastRow(rows) == CHOOSE r \in rows : \A s \in rows \ {r} : RowBefore(s, r)

\* In that order; what is expended never falls below nothing.
Replay(rows, asOf) ==
    MapThenFoldSet(LAMBDA r, expended : IF r.kind = "fire" THEN expended + 1
                                        ELSE IF expended = 0 THEN 0 ELSE expended - 1,
                   0, LAMBDA r : r, LastRow, {r \in rows : r.t <= asOf})

Remaining(rows, asOf) == Declared - Replay(rows, asOf)

-----------------------------------------------------------------------------
(* The panel of one launcher: AssetMovePanel and MemberSection. *)

TransitionRows == {mvTransitions[n] : n \in 1..mvArrived}
RoundRows == {[t |-> mvRounds[r].t, kind |-> mvRounds[r].kind, id |-> r] : r \in mvHere}

Episode == LatestEpisode(TransitionRows)

\* The rounds are frozen as of the march order while the launcher moves, and
\* are those of now before and after.
RoundsAsOf == IF Episode.phase = "moving" THEN Episode.ordered ELSE mvNow

RoundsShown == Remaining(RoundRows, RoundsAsOf)

\* The march-order time is shown while moving, the emplacement's once settled.
TimeShown ==
    CASE Episode.phase = "march_ordered"            -> {mvNow - Episode.ordered}
      [] Episode.phase = "moving"                   -> MarchOrderTime(Episode)
      [] Episode.phase \in {"emplacing", "emplaced"} -> EmplaceTime(Episode)

-----------------------------------------------------------------------------
MoveNext ==
    \/ Tick \/ MarchOrdered \/ MotionTurns \/ Moves \/ Halts \/ Emplaced
    \/ Fires \/ Resupplied \/ TransitionArrives \/ RoundArrives

MoveSpec == MoveInit /\ [][MoveNext]_moveVars

-----------------------------------------------------------------------------
(* Properties. *)

\* With every transition at hand the panel's figure is the real one of the
\* newest move, never one that mixes two moves or a move with a march order
\* that was taken back.
MoveFiguresTrue ==
    HasEpisode(TransitionRows) /\ mvArrived = Len(mvTransitions) =>
        TimeShown = CASE mvPosture = "march_ordered" -> {mvNow - mvMove.ordered}
                      [] mvPosture = "moving"        -> {mvMove.started - mvMove.ordered}
                      [] mvPosture = "emplacing"     -> {}
                      [] mvPosture = "emplaced"      -> IF mvMove.halted = NoTime THEN {}
                                                        ELSE {mvMove.emplaced - mvMove.halted}

\* Once the rows up to the instant the panel speaks of have arrived, in
\* whatever order and with whatever later ones, the rounds it shows are those
\* that were aboard at that instant.
RoundsAreTheStock ==
    LET upTo == {r \in DOMAIN mvRounds : mvRounds[r].t <= RoundsAsOf} IN
    HasEpisode(TransitionRows) /\ upTo \subseteq mvHere => RoundsShown = mvStock[RoundsAsOf]
=============================================================================
