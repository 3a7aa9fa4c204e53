---------------------------------- MODULE Links ----------------------------------
(***************************************************************************)
(* A page's control of one network link (lib/linkControl.ts, useLink-      *)
(* Control.ts): the listing read every 5 s, the toggle that shows its      *)
(* value before it is answered, and the row's panel with the operator's    *)
(* draft (LinkRow.tsx, LinkShapingPanel.tsx, LinkToggle.tsx).  A link is   *)
(* on or cut, and has a shape: one value of latency, jitter and bandwidth. *)
(* The page's other links differ from this one in their name only.         *)
(***************************************************************************)
EXTENDS Naturals, Functions

CONSTANTS
    Reads,      \* numbers: the listings that may be under way at once
    Posts,      \* the changes that may be under way at once
    Shapes,     \* the shapes of a link
    Presets,    \* PRESETS: a set of [up, shape]
    ZeroShape,  \* ZERO_TOXICS
    MaxTurns    \* clicks, changes by others and failures of a behaviour

ASSUME LinkAssumption ==
    /\ ZeroShape \in Shapes /\ Shapes \cap {"null", "absent"} = {}
    /\ Presets \subseteq [up : {"on", "cut"}, shape : Shapes] /\ MaxTurns \in Nat

VARIABLES
    lkReal,     \* the proxy's link (external)
    lkStatus,   \* state.status; "failed": forbidden or error, which differ in a title
    lkShown,    \* the link's entry of the state; "absent" values: it has none
    lkInFlight, \* the link is in inFlight
    lkReads,    \* the listings under way
    lkPosts,    \* the changes under way
    lkOpen,     \* the row is expanded
    lkDraft,    \* the panel's draft, with the state it was made against
    lkTurns

linkVars == <<lkReal, lkStatus, lkShown, lkInFlight, lkReads, lkPosts, lkOpen, lkDraft, lkTurns>>

Ups == {"on", "cut"}
Absent2 == [up |-> "absent", shape |-> "absent"]
Idle == [up |-> "idle", shape |-> "idle"]
Asked == [up |-> "asked", shape |-> "asked"]
NoPost == [kind |-> "none", value |-> "none", previous |-> "none", applied |-> FALSE]
NoDraft == [up |-> "none", shape |-> "none", seen |-> "none"]

LinkTypeOK ==
    /\ lkReal \in [up : Ups, shape : Shapes]
    /\ lkStatus \in {"loading", "ready", "off", "failed"}
    /\ lkShown \in [up : Ups \cup {"null"}, shape : Shapes \cup {"null"}] \cup {Absent2}
    /\ lkInFlight \in BOOLEAN /\ lkOpen \in BOOLEAN /\ lkTurns \in 0..MaxTurns
    /\ lkReads \in [Reads -> [up : Ups, shape : Shapes] \cup {Idle, Asked}]
    /\ \A p \in Posts : lkPosts[p] = NoPost \/
          lkPosts[p] \in [kind : {"set", "shape"}, value : Ups \cup Shapes,
                          previous : Ups \cup {"null", "none"}, applied : BOOLEAN]
    /\ lkDraft \in [up : Ups \cup {"null"}, shape : Shapes, seen : Ups \cup {"null"}] \cup {NoDraft}

LinkInit ==
    /\ lkReal = [up |-> "on", shape |-> ZeroShape]
    /\ lkStatus = "loading" /\ lkShown = Absent2 /\ lkInFlight = FALSE
    /\ lkReads = [r \in Reads |-> Idle] /\ lkPosts = [p \in Posts |-> NoPost]
    /\ lkOpen = FALSE /\ lkDraft = NoDraft /\ lkTurns = 0

Turn == lkTurns < MaxTurns /\ lkTurns' = lkTurns + 1

-----------------------------------------------------------------------------
\* [mutant] The draft's on or cut outlives the state it was made against.
DraftKept(draft, from, to) == draft

\* seenEnabled: the draft's on or cut goes as soon as the link's own changes.
DraftSeen(draft, from, to) ==
    IF draft # NoDraft /\ from # to THEN [draft EXCEPT !.up = "null", !.seen = "null"] ELSE draft

\* setState, with what the panel makes of it: a row without a listing has none.
Show(status, entry) ==
    /\ lkStatus' = status /\ lkShown' = entry
    /\ lkDraft' = IF lkOpen /\ status # "off" THEN DraftSeen(lkDraft, lkShown.up, entry.up) ELSE NoDraft

\* unknownState, and withEntry for the toggle's value.
Forgotten == IF lkShown = Absent2 THEN Absent2 ELSE [up |-> "null", shape |-> "null"]
WithUp(up) == IF lkShown = Absent2 THEN Absent2 ELSE [lkShown EXCEPT !.up = up]

\* adopt: a link with a change under way keeps what is shown of it.
Adopt(listed) ==
    [listed EXCEPT !.up = IF ~lkInFlight THEN listed.up
                          ELSE IF lkShown = Absent2 THEN "null" ELSE lkShown.up]

AskListing ==
    \E r \in Reads : /\ lkReads[r] = Idle /\ \A q \in Reads : q < r => lkReads[q] # Idle
                    /\ lkReads' = [lkReads EXCEPT ![r] = Asked]

\* refresh begins on every tick of 5 s; the proxy answers what holds then.
RefreshBegins ==
    /\ AskListing
    /\ UNCHANGED <<lkReal, lkStatus, lkShown, lkInFlight, lkPosts, lkOpen, lkDraft, lkTurns>>

ListingTaken(r) ==
    /\ lkReads[r] = Asked
    /\ lkReads' = [lkReads EXCEPT ![r] = lkReal]
    /\ UNCHANGED <<lkReal, lkStatus, lkShown, lkInFlight, lkPosts, lkOpen, lkDraft, lkTurns>>

ListingCame(r) ==
    /\ lkReads[r] \notin {Idle, Asked}
    /\ lkReads' = [lkReads EXCEPT ![r] = Idle]
    /\ Show("ready", Adopt(lkReads[r]))
    /\ UNCHANGED <<lkReal, lkInFlight, lkPosts, lkOpen, lkTurns>>

\* 404, 401 or 403, and everything else that is no listing.
ListingFailed(r) ==
    /\ Turn
    /\ lkReads[r] # Idle
    /\ lkReads' = [lkReads EXCEPT ![r] = Idle]
    /\ \/ Show("off", Absent2)
       \/ Show("failed", Forgotten)
    /\ UNCHANGED <<lkReal, lkInFlight, lkPosts, lkOpen>>

-----------------------------------------------------------------------------
\* linkToggleAvailability and linkToxicsAvailability.
ToggleOn == lkStatus = "ready" /\ lkShown.up \in Ups
PanelOn == lkOpen /\ lkStatus = "ready" /\ lkShown.shape \in Shapes

AppliedUp == IF lkShown.up = "cut" THEN "cut" ELSE "on"

SentUp(up) == [kind |-> "set", value |-> up, previous |-> lkShown.up, applied |-> FALSE]
SentShape(shape) == [kind |-> "shape", value |-> shape, previous |-> "none", applied |-> FALSE]

\* The changes go out, each in a place of its own.
FreePost == {p \in Posts : lkPosts[p] = NoPost}
SendAll(posts) ==
    /\ Injection(posts, FreePost) # {}
    /\ LET place == CHOOSE f \in Injection(posts, FreePost) : TRUE
       IN  lkPosts' = [p \in Posts |-> IF p \in Range(place) THEN AntiFunction(place)[p] ELSE lkPosts[p]]

\* set, from the toggle: shown at once, and sent.
Toggle ==
    /\ Turn /\ ToggleOn
    /\ \E up \in Ups \ {lkShown.up} : SendAll({SentUp(up)}) /\ Show(lkStatus, WithUp(up))
    /\ lkInFlight' = TRUE
    /\ UNCHANGED <<lkReal, lkReads, lkOpen>>

\* The proxy makes the change (external), whether or not its answer arrives.
ChangeMade(p) ==
    /\ lkPosts[p] # NoPost /\ ~lkPosts[p].applied
    /\ lkPosts' = [lkPosts EXCEPT ![p].applied = TRUE]
    /\ lkReal' = IF lkPosts[p].kind = "set" THEN [lkReal EXCEPT !.up = lkPosts[p].value]
                 ELSE [lkReal EXCEPT !.shape = lkPosts[p].value]
    /\ UNCHANGED <<lkStatus, lkShown, lkInFlight, lkReads, lkOpen, lkDraft, lkTurns>>

\* finally: whatever came of it, a change of the toggle is no longer under way.
FlightAfter(post, failed) == lkInFlight /\ post.kind # "set"

\* The end of a change: refused or failed it puts back what was shown before;
\* then the listing is read again.
ChangeEnds(p, failed, status) ==
    /\ lkPosts[p] # NoPost
    /\ IF failed /\ lkPosts[p].kind = "set" THEN Show(status, WithUp(lkPosts[p].previous))
       ELSE Show(status, lkShown)
    /\ lkInFlight' = FlightAfter(lkPosts[p], failed)
    /\ lkPosts' = [lkPosts EXCEPT ![p] = NoPost]
    /\ AskListing
    /\ UNCHANGED <<lkReal, lkOpen>>

ChangeDone(p) == lkPosts[p].applied /\ ChangeEnds(p, FALSE, lkStatus) /\ UNCHANGED lkTurns

\* Refused before it was made; failed before or after it.
ChangeFails(p) ==
    /\ Turn
    /\ \/ ~lkPosts[p].applied /\ ChangeEnds(p, TRUE, "failed")
       \/ ChangeEnds(p, TRUE, lkStatus)

-----------------------------------------------------------------------------
\* A click on the row opens or closes the panel: its draft goes with it.
ClickRow ==
    /\ lkStatus # "off"
    /\ lkOpen' = ~lkOpen /\ lkDraft' = NoDraft
    /\ UNCHANGED <<lkReal, lkStatus, lkShown, lkInFlight, lkReads, lkPosts, lkTurns>>

\* A slider moves the shape of the draft, a profile sets all of it.  Sliders
\* are locked while the link is, or would be, cut.
Slide ==
    /\ PanelOn
    /\ \E shape \in Shapes :
          LET base == IF lkDraft # NoDraft THEN lkDraft
                      ELSE [up |-> "null", shape |-> lkShown.shape, seen |-> "null"]
          IN  /\ (IF base.up = "null" THEN AppliedUp ELSE base.up) = "on"
              /\ lkDraft' = [base EXCEPT !.shape = shape]
    /\ UNCHANGED <<lkReal, lkStatus, lkShown, lkInFlight, lkReads, lkPosts, lkOpen, lkTurns>>

ChoosePreset ==
    /\ PanelOn
    /\ \E v \in Presets : lkDraft' = [up |-> v.up, shape |-> v.shape, seen |-> lkShown.up]
    /\ UNCHANGED <<lkReal, lkStatus, lkShown, lkInFlight, lkReads, lkPosts, lkOpen, lkTurns>>

\* APPLY sends the shape, and the toggle's value where the draft has another.
Apply ==
    /\ Turn /\ PanelOn
    /\ LET base == IF lkDraft # NoDraft THEN lkDraft
                   ELSE [up |-> "null", shape |-> lkShown.shape, seen |-> "null"]
           up == IF base.up = "null" THEN AppliedUp ELSE base.up
       IN  \/ /\ up = AppliedUp /\ SendAll({SentShape(base.shape)})
              /\ UNCHANGED <<lkShown, lkInFlight>>
           \/ /\ up # AppliedUp /\ SendAll({SentShape(base.shape), SentUp(up)})
              /\ lkShown' = WithUp(up) /\ lkInFlight' = TRUE
    /\ lkDraft' = NoDraft
    /\ UNCHANGED <<lkReal, lkStatus, lkReads, lkOpen>>

\* CLEAR sends the shape of an unshaped link and leaves the toggle alone.
ClearShape ==
    /\ Turn /\ PanelOn
    /\ SendAll({SentShape(ZeroShape)})
    /\ lkDraft' = NoDraft
    /\ UNCHANGED <<lkReal, lkStatus, lkShown, lkInFlight, lkReads, lkOpen>>

\* Another session's change of the link (external).
OthersChange ==
    /\ Turn
    /\ lkReal' \in [up : Ups, shape : Shapes] \ {lkReal}
    /\ UNCHANGED <<lkStatus, lkShown, lkInFlight, lkReads, lkPosts, lkOpen, lkDraft>>

LinkNext ==
    \/ RefreshBegins \/ Toggle \/ ClickRow \/ Slide \/ ChoosePreset \/ Apply \/ ClearShape
    \/ OthersChange
    \/ \E r \in Reads : ListingTaken(r) \/ ListingCame(r) \/ ListingFailed(r)
    \/ \E p \in Posts : ChangeMade(p) \/ ChangeDone(p) \/ ChangeFails(p)

\* The timer ticks, every request is answered.  An answer begins a listing and
\* so waits here for one of the Reads, which the timer keeps taking: that bound
\* is why its fairness is strong.
LinkFairness ==
    /\ WF_linkVars(RefreshBegins)
    /\ \A r \in Reads : WF_linkVars(ListingTaken(r)) /\ WF_linkVars(ListingCame(r))
    /\ \A p \in Posts : WF_linkVars(ChangeMade(p)) /\ SF_linkVars(ChangeDone(p))

LinkSpec == LinkInit /\ [][LinkNext]_linkVars /\ LinkFairness

-----------------------------------------------------------------------------
(* Properties. *)

\* APPLY turns a link on or off only as the operator chose against the state
\* that is still shown: not where the link was cut or restored meanwhile.
NoStaleCut ==
    [][Apply /\ lkShown'.up # lkShown.up => lkDraft.seen = lkShown.up]_linkVars

\* Whatever overtook what, the page comes to show the link as it is, "so both
\* ends of the link show the proxy's truth".
LinkConverges == <>[](lkStatus = "ready" /\ lkShown = lkReal)
=============================================================================
