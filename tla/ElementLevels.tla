----------------------------- MODULE ElementLevels -----------------------------
(***************************************************************************)
(* The levels of the maintainer's drill-down as streams: each open level   *)
(* is one shape that the page reads again and again and that the gateway   *)
(* notes as held (useElementLevel.ts, ElementLevelSubscription.tsx; pep.py *)
(* 483-622).  The page releases a level with a DELETE; reads and DELETEs   *)
(* may overtake one another, an aborted read is answered all the same, and *)
(* a DELETE may be lost.  The gateway drops a view that nobody holds after *)
(* a grace, and a holder that has not read for long.                       *)
(*                                                                         *)
(* One page of one viewer.  Left out: the rows themselves.                 *)
(***************************************************************************)
EXTENDS Naturals, FiniteSets

CONSTANTS
    Views,          \* the definitions of the levels this page may open
    ViewerShapeMax  \* VIEWER_SHAPE_MAX

ASSUME LevelsAssumption == ViewerShapeMax \in Nat \ {0}

VARIABLES
    lvSub,      \* lvSub[v]: the page's subscription to the level
    lvSent,     \* history: DELETEs sent for its newest controller (1 before the first)
    lvReads,    \* the views of which a read is on its way
    lvDeletes,  \* the views of which a DELETE is on its way
    gwView,     \* the views the gateway knows
    gwHolder,   \* gwHolder[v]: "none", or whether the viewer has read lately
    gwGrace,    \* gwGrace[v]: the view's grace timer
    gwDue       \* gwDue[v]: timers that have fired and wait for the lock

pageVars == <<lvSub, lvSent>>
wireVars == <<lvReads, lvDeletes>>
gatewayVars == <<gwView, gwHolder, gwGrace, gwDue>>
levelVars == <<pageVars, wireVars, gatewayVars>>

LevelsTypeOK ==
    /\ lvSub \in [Views -> {"closed", "open", "released", "refused"}]
    /\ lvSent \in [Views -> Nat]
    /\ lvReads \subseteq Views /\ lvDeletes \subseteq Views
    /\ gwView \subseteq Views
    /\ gwHolder \in [Views -> {"none", "fresh", "idle"}]
    /\ gwGrace \in [Views -> {"none", "running", "fired"}]
    /\ gwDue \in [Views -> 0..2]

LevelsInit ==
    /\ lvSub = [v \in Views |-> "closed"] /\ lvSent = [v \in Views |-> 1]
    /\ lvReads = {} /\ lvDeletes = {}
    /\ gwView = {} /\ gwHolder = [v \in Views |-> "none"]
    /\ gwGrace = [v \in Views |-> "none"] /\ gwDue = [v \in Views |-> 0]

-----------------------------------------------------------------------------
(* The page. *)

\* A fresh controller for a level that is mounted.
OpenLevel(v) ==
    /\ lvSub[v] = "closed"
    /\ lvSub' = [lvSub EXCEPT ![v] = "open"]
    /\ lvSent' = [lvSent EXCEPT ![v] = 0]
    /\ UNCHANGED <<wireVars, gatewayVars>>

ReadLevel(v) ==
    /\ lvSub[v] = "open"
    /\ lvReads' = lvReads \cup {v}
    /\ UNCHANGED <<pageVars, lvDeletes, gatewayVars>>

Unreleased(v) == lvSub[v] \in {"open", "refused"}

\* [mutant] A level that was released is released again.
ReleaseAgain(vs) ==
    LET due == {v \in vs : lvSub[v] # "closed"} IN
    /\ lvSent' = [v \in Views |-> IF v \in due THEN lvSent[v] + 1 ELSE lvSent[v]]
    /\ lvDeletes' = lvDeletes \cup due

\* release: abort the stream and send one DELETE, once for a controller.
Release(vs) ==
    LET due == {v \in vs : Unreleased(v)} IN
    /\ lvSent' = [v \in Views |-> IF v \in due THEN lvSent[v] + 1 ELSE lvSent[v]]
    /\ lvDeletes' = lvDeletes \cup due

CloseLevel(v) ==
    /\ lvSub[v] # "closed"
    /\ Release({v})
    /\ lvSub' = [lvSub EXCEPT ![v] = "closed"]
    /\ UNCHANGED <<lvReads, gatewayVars>>

\* pagehide: every level is released but stays mounted, and a page restored
\* from the browser's cache does not read it again.
PageHides ==
    /\ \E v \in Views : Unreleased(v)
    /\ Release(Views)
    /\ lvSub' = [v \in Views |-> IF lvSub[v] = "closed" THEN "closed" ELSE "released"]
    /\ UNCHANGED <<lvReads, gatewayVars>>

\* StrictMode cleans a level up and mounts it again: the effect that finds its
\* controller aborted takes a new one.
Remount(v) ==
    /\ lvSub[v] \in {"open", "released"}
    /\ lvDeletes' = lvDeletes \cup (IF lvSub[v] = "open" THEN {v} ELSE {})
    /\ lvSub' = [lvSub EXCEPT ![v] = "open"]
    /\ lvSent' = [lvSent EXCEPT ![v] = 0]
    /\ UNCHANGED <<lvReads, gatewayVars>>

-----------------------------------------------------------------------------
(* The gateway: each of these is one step under _el_lock. *)

\* _el_sweep_locked: idle holders go, and a view that is left without one
\* starts its grace.
Sweep(holder) == [v \in Views |-> IF holder[v] = "idle" THEN "none" ELSE holder[v]]

\* [mutant] The sweep drops idle holders and leaves the view as it is.
GraceNotStarted(holder, grace) == grace

GraceAfter(holder, grace) ==
    [v \in Views |-> IF v \in gwView /\ holder[v] = "none" /\ grace[v] = "none" THEN "running" ELSE grace[v]]

\* element_acquire, for a read that has come; past the bound it is refused,
\* and the stream of the page ends with the error.
ReadHandled(v) ==
    /\ v \in lvReads
    /\ lvReads' = lvReads \ {v}
    /\ LET held == Sweep(gwHolder)
           others == {u \in Views : held[u] # "none"} IN
       IF held[v] = "none" /\ Cardinality(others) >= ViewerShapeMax
       THEN /\ gwHolder' = held
            /\ gwGrace' = GraceAfter(held, gwGrace)
            /\ lvSub' = [lvSub EXCEPT ![v] = IF @ = "open" THEN "refused" ELSE @]
            /\ UNCHANGED gwView
       ELSE /\ gwView' = gwView \cup {v}
            /\ gwHolder' = [held EXCEPT ![v] = "fresh"]
            /\ gwGrace' = [GraceAfter(held, gwGrace) EXCEPT ![v] = "none"]
            /\ UNCHANGED lvSub
    /\ UNCHANGED <<lvSent, lvDeletes, gwDue>>

\* element_release, when the DELETE comes, or when the read of a new holder
\* found Electric down.
Released(v) ==
    LET held == [Sweep(gwHolder) EXCEPT ![v] = "none"] IN
    /\ gwHolder' = held
    /\ gwGrace' = GraceAfter(held, gwGrace)
    /\ UNCHANGED <<gwView, gwDue>>

DeleteHandled(v) ==
    /\ v \in lvDeletes
    /\ lvDeletes' = lvDeletes \ {v}
    /\ Released(v)
    /\ UNCHANGED <<pageVars, lvReads>>

UpstreamFails(v) ==
    /\ gwHolder[v] = "fresh"
    /\ Released(v)
    /\ UNCHANGED <<pageVars, wireVars>>

DeleteLost(v) ==
    /\ v \in lvDeletes
    /\ lvDeletes' = lvDeletes \ {v}
    /\ UNCHANGED <<pageVars, lvReads, gatewayVars>>

\* HOLDER_IDLE_S pass without a read.
HolderIdles(v) ==
    /\ gwHolder[v] = "fresh"
    /\ gwHolder' = [gwHolder EXCEPT ![v] = "idle"]
    /\ UNCHANGED <<pageVars, wireVars, gwView, gwGrace, gwDue>>

\* The sweeper's turn, or a scrape of the metrics, which sweeps too.
Swept ==
    /\ gwHolder' = Sweep(gwHolder)
    /\ gwGrace' = GraceAfter(gwHolder', gwGrace)
    /\ UNCHANGED <<pageVars, wireVars, gwView, gwDue>>

\* A timer that has fired cannot be cancelled any more.
GraceFires(v) ==
    /\ gwGrace[v] = "running" /\ gwDue[v] < 2
    /\ gwGrace' = [gwGrace EXCEPT ![v] = "fired"]
    /\ gwDue' = [gwDue EXCEPT ![v] = @ + 1]
    /\ UNCHANGED <<pageVars, wireVars, gwView, gwHolder>>

\* _el_grace_expired: a timer of an earlier grace drops the view as well, if
\* it finds it in a grace again; that grace's own timer then goes on for nothing.
GraceExpired(v) ==
    /\ gwDue[v] > 0
    /\ IF v \in gwView /\ gwHolder[v] = "none" /\ gwGrace[v] # "none"
       THEN /\ gwView' = gwView \ {v}
            /\ gwGrace' = [gwGrace EXCEPT ![v] = "none"]
            /\ gwDue' = [gwDue EXCEPT ![v] = IF gwGrace[v] = "running" THEN @ ELSE @ - 1]
       ELSE /\ gwDue' = [gwDue EXCEPT ![v] = @ - 1]
            /\ UNCHANGED <<gwView, gwGrace>>
    /\ UNCHANGED <<pageVars, wireVars, gwHolder>>

-----------------------------------------------------------------------------
LevelsNext ==
    \/ PageHides \/ Swept
    \/ \E v \in Views : OpenLevel(v) \/ ReadLevel(v) \/ CloseLevel(v) \/ Remount(v)
    \/ \E v \in Views : ReadHandled(v) \/ DeleteHandled(v) \/ DeleteLost(v) \/ UpstreamFails(v)
    \/ \E v \in Views : HolderIdles(v) \/ GraceFires(v) \/ GraceExpired(v)

\* Time passes, requests end and the sweeper's thread runs; a DELETE may be lost.
LevelsFairness ==
    /\ WF_levelVars(Swept)
    /\ \A v \in Views :
          /\ WF_levelVars(ReadHandled(v)) /\ WF_levelVars(HolderIdles(v))
          /\ WF_levelVars(GraceFires(v)) /\ WF_levelVars(GraceExpired(v))

LevelsSpec == LevelsInit /\ [][LevelsNext]_levelVars /\ LevelsFairness

-----------------------------------------------------------------------------
(* Properties. *)

\* Every controller is released exactly once, whichever of unmounting, hiding
\* the page and remounting come, and in whatever order.
ReleasedOnce == \A v \in Views : lvSent[v] = IF Unreleased(v) THEN 0 ELSE 1

\* A timer of an earlier grace may fire while the level is read again, or meet a later
\* grace: whoever holds a view finds it there.
HeldIsKept == \A v \in Views : gwHolder[v] # "none" => v \in gwView

\* No view that somebody holds is dropped, and a view whose level the page has given up
\* is dropped by the gateway in the end, though the DELETE was lost, a read overtook it,
\* or a timer of an earlier grace took that of the last one.
ViewsEnd ==
    /\ []HeldIsKept
    /\ \A v \in Views : <>[](lvSub[v] # "open") => <>[](v \notin gwView)
=============================================================================
