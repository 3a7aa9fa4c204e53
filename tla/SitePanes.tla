------------------------------- MODULE SitePanes -------------------------------
(***************************************************************************)
(* Two panes that ask a service and keep what it said.  The arrivals of    *)
(* the selected edge (useArrivals.ts, lib/arrivals.ts, ArrivalsPanel.tsx): *)
(* a poll every 10 s, or 3 s after an error, another read after every      *)
(* declaration, and a form that declares one asset.  And the admission     *)
(* pane (useEgressAdmission.ts, EgressAdmissionPane.tsx,                   *)
(* ReleasedRecordsPane.tsx): one read for the destination in its field.    *)
(*                                                                         *)
(* An asset awaits its declaration at one edge.  Left out: the form's      *)
(* other fields and their checks, wording, the tables' columns, and        *)
(* figures, whose view is mounted anew for each figure.                    *)
(***************************************************************************)
EXTENDS Integers, FiniteSets

CONSTANTS
    SiteEdges,
    ArrivalsAt,     \* ArrivalsAt[e]: the assets that arrive there
    Destinations,
    MaxSwaps        \* changes of the edge, or of the destination

ASSUME SitePanesAssumption ==
    /\ SiteEdges # {} /\ Destinations # {} /\ MaxSwaps \in Nat
    /\ ArrivalsAt \in [SiteEdges -> SUBSET UNION {ArrivalsAt[e] : e \in SiteEdges}]
    /\ \A e, f \in SiteEdges : e # f => ArrivalsAt[e] \cap ArrivalsAt[f] = {}

VARIABLES
    spEdge,                     \* the selected edge; every change mounts a fresh ArrivalsView
    spUndeclared,               \* at the gateway
    spHeld,                     \* useArrivals: held, of the edge it is tagged with
    spReads,                    \* reads in flight: of which edge, cancelled or not, by the poll or not
    spTarget, spDeclares,       \* the open form's asset; declarations in flight, and whose view's
    spDest, spAsked, spAdmission,   \* the admission pane: its destination, its reads, what it shows
    spSwaps

arrivalVars == <<spEdge, spUndeclared, spHeld, spReads, spTarget, spDeclares>>
admissionVars == <<spDest, spAsked, spAdmission>>
spVars == <<arrivalVars, admissionVars, spSwaps>>

None == "none"
NotHeld == [edge |-> None, kind |-> None, rows |-> {}]
PollOf(edge) == [edge |-> edge, live |-> TRUE, poll |-> TRUE]
AskFor(dest) == [dest |-> dest, live |-> TRUE, head |-> FALSE]
LoadingOf(data) == [data |-> data, state |-> "loading"]

SitePanesInit ==
    /\ spEdge = (CHOOSE e \in SiteEdges : TRUE) /\ spUndeclared = ArrivalsAt
    /\ spHeld = NotHeld /\ spReads = {PollOf(spEdge)}
    /\ spTarget = None /\ spDeclares = {}
    /\ spDest = (CHOOSE d \in Destinations : TRUE) /\ spAsked = {AskFor(spDest)} /\ spAdmission = LoadingOf(None)
    /\ spSwaps = 0

-----------------------------------------------------------------------------
(* The arrivals. *)

\* The poll's effect is cleaned up, and polls the new edge at once.
SwapEdge ==
    /\ spSwaps < MaxSwaps /\ spSwaps' = spSwaps + 1
    /\ spEdge' \in SiteEdges \ {spEdge}
    /\ spReads' = {[r EXCEPT !.live = ~r.poll] : r \in spReads} \cup {PollOf(spEdge')}
    /\ spTarget' = None
    /\ UNCHANGED <<spUndeclared, spHeld, spDeclares, admissionVars>>

\* apply: an error keeps what the edge was last known to have.
Applied(edge, result) ==
    IF result.kind = "error" /\ spHeld.edge = edge /\ spHeld.kind = "ok" THEN spHeld ELSE result

\* loadArrivals: the rows, "absent" without the role, or an error.
Results(edge) ==
    [edge : {edge}, kind : {"ok"}, rows : {spUndeclared[edge]}]
        \cup [edge : {edge}, kind : {"absent", "error"}, rows : {{}}]

ArrivalsEnd ==
    /\ \E r \in spReads :
        /\ spReads' = spReads \ {r}
        /\ IF r.live THEN \E result \in Results(r.edge) : spHeld' = Applied(r.edge, result)
           ELSE UNCHANGED spHeld
    /\ UNCHANGED <<spEdge, spUndeclared, spTarget, spDeclares, admissionVars, spSwaps>>

\* tick: after the last answer, in 10 s or 3 s.
ArrivalsPoll ==
    /\ ~\E r \in spReads : r.poll /\ r.live
    /\ spReads' = spReads \cup {PollOf(spEdge)}
    /\ UNCHANGED <<spEdge, spUndeclared, spHeld, spTarget, spDeclares, admissionVars, spSwaps>>

\* mine: what is held, if it is of the selected edge.
Mine == IF spHeld.edge = spEdge THEN spHeld ELSE NotHeld

Listed == IF Mine.kind = "ok" THEN Mine.rows ELSE {}

OpenDeclare ==
    /\ \E a \in Listed : a # spTarget /\ spTarget' = a
    /\ UNCHANGED <<spEdge, spUndeclared, spHeld, spReads, spDeclares, admissionVars, spSwaps>>

CancelDeclare ==
    /\ spTarget # None /\ spTarget' = None
    /\ UNCHANGED <<spEdge, spUndeclared, spHeld, spReads, spDeclares, admissionVars, spSwaps>>

\* submit: of the form that is on screen.
Declare ==
    /\ spTarget \in Listed
    /\ spDeclares' = spDeclares \cup {[edge |-> spEdge, asset |-> spTarget, view |-> spSwaps]}
    /\ UNCHANGED <<spEdge, spUndeclared, spHeld, spReads, spTarget, admissionVars, spSwaps>>

\* 201, or 502 with the declaration made: onDone closes the view's form,
\* whichever it is by now, and reads again, which no cleanup cancels.
DeclareDone ==
    /\ \E d \in spDeclares :
        /\ d.asset \in spUndeclared[d.edge]
        /\ spDeclares' = spDeclares \ {d}
        /\ spUndeclared' = [spUndeclared EXCEPT ![d.edge] = @ \ {d.asset}]
        /\ spTarget' = IF d.view = spSwaps THEN None ELSE spTarget
        /\ spReads' = spReads \cup {[edge |-> d.edge, live |-> TRUE, poll |-> FALSE]}
    /\ UNCHANGED <<spEdge, spHeld, admissionVars, spSwaps>>

\* Refused, or lost on the way there or back: the form stays, with an error.
DeclareRefused ==
    /\ \E d \in spDeclares :
        /\ spDeclares' = spDeclares \ {d}
        /\ spUndeclared' \in {spUndeclared, [spUndeclared EXCEPT ![d.edge] = @ \ {d.asset}]}
    /\ UNCHANGED <<spEdge, spHeld, spReads, spTarget, admissionVars, spSwaps>>

-----------------------------------------------------------------------------
(* The admission pane. *)

\* commit: what was shown, an outage too, stays while the new destination's is
\* loading.
CommitDestination ==
    /\ spSwaps < MaxSwaps /\ spSwaps' = spSwaps + 1
    /\ spDest' \in Destinations \ {spDest}
    /\ spAsked' = {[r EXCEPT !.live = FALSE] : r \in spAsked} \cup {AskFor(spDest')}
    /\ spAdmission' = IF spAdmission.state = "outage" THEN spAdmission ELSE LoadingOf(spAdmission.data)
    /\ UNCHANGED arrivalVars

\* The answer's head: dropped after a cleanup; else its body is waited for.
AdmissionHead ==
    /\ \E r \in spAsked :
        /\ ~r.head
        /\ spAsked' = (spAsked \ {r}) \cup (IF r.live THEN {[r EXCEPT !.head = TRUE]} ELSE {})
    /\ UNCHANGED <<spDest, spAdmission, arrivalVars, spSwaps>>

\* The body, 503, or another status: nothing asks again whether it was
\* cancelled meanwhile.
AdmissionBody ==
    /\ \E r \in spAsked :
        /\ r.head
        /\ spAsked' = spAsked \ {r}
        /\ spAdmission' \in {[data |-> r.dest, state |-> "shown"], [data |-> None, state |-> "outage"],
                             [data |-> None, state |-> "error"]}
    /\ UNCHANGED <<spDest, arrivalVars, spSwaps>>

\* The request fails.
AdmissionFails ==
    /\ \E r \in spAsked :
        /\ spAsked' = spAsked \ {r}
        /\ spAdmission' = IF r.live THEN [data |-> None, state |-> "error"] ELSE spAdmission
    /\ UNCHANGED <<spDest, arrivalVars, spSwaps>>

SitePanesNext ==
    \/ SwapEdge \/ ArrivalsEnd \/ ArrivalsPoll \/ OpenDeclare \/ CancelDeclare
    \/ Declare \/ DeclareDone \/ DeclareRefused
    \/ CommitDestination \/ AdmissionHead \/ AdmissionBody \/ AdmissionFails

SitePanesSpec == SitePanesInit /\ [][SitePanesNext]_spVars

-----------------------------------------------------------------------------
(* Properties. *)

SitePanesTypeOK ==
    /\ spEdge \in SiteEdges /\ \A e \in SiteEdges : spUndeclared[e] \subseteq ArrivalsAt[e]
    /\ spHeld.kind \in {None, "ok", "absent", "error"} /\ spDest \in Destinations
    /\ spTarget = None \/ \E e \in SiteEdges : spTarget \in ArrivalsAt[e]
    /\ spAdmission.data \in Destinations \cup {None} /\ spSwaps \in 0..MaxSwaps

\* However the edge changes while polls, reads and declarations are in flight:
\* what is listed, and what a form on screen declares, arrived at the edge that
\* is selected.
ArrivalsAreTheEdges ==
    /\ Listed \subseteq ArrivalsAt[spEdge]
    /\ \A d \in spDeclares : d.asset \in ArrivalsAt[d.edge]

\* "what crosses to a destination" (EgressAdmissionPane.tsx 2): once nothing is
\* loading, the decisions are those for the pane's destination.
AdmissionIsOfItsDestination ==
    spAdmission.state = "shown" => spAdmission.data = spDest
=============================================================================
