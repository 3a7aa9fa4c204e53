----------------------------- MODULE LinkPicture -----------------------------
(***************************************************************************)
(* The links as a screen above them shows them: link_status rows read      *)
(* against the page's clock (lib/linkStatus.ts, components/network/tone.ts)*)
(* and drawn over the declared tier tree (lib/theaterTopology.ts, hq/      *)
(* TheaterReadinessPosture.tsx, HqApp.tsx, the two headers).  A monitor    *)
(* that stops writing must age out, a link under a cut one is not itself   *)
(* cut, and the page turns red only when nothing answers.                  *)
(*                                                                         *)
(* External: the link monitor, which writes the rows, and the clock.  The  *)
(* declared trees are acyclic: deployment.ts does not refuse a cycle, and  *)
(* place() then draws by the order it meets the tiers.                     *)
(***************************************************************************)
EXTENDS Integers, FiniteSets

CONSTANTS
    LinkIds,         \* the tiers links are named after
    DeclaredTrees,   \* trees a deployment may declare: [tiers, parent, fobs, sited]
    LinkWords,       \* the states the monitor writes
    LinkRowStale,    \* linkRowStaleMs, in ticks of the clock
    PageTick,        \* the panels' timers, 5 s, in the same ticks
    MaxLinkNow,      \* bound: the clock
    MaxWritten       \* bound: rows written after the first

\* "planned" is idle by declaration; "odd" a state or a time that cannot be read.
MonitorWords == {"up", "idle", "planned", "down", "odd"}

ASSUME LinkPictureAssumption ==
    /\ LinkWords \subseteq MonitorWords
    /\ LinkRowStale \in Nat /\ PageTick \in Nat \ {0} /\ MaxLinkNow \in Nat /\ MaxWritten \in Nat
    /\ \A tree \in DeclaredTrees : tree.tiers \cup tree.fobs \cup tree.sited \subseteq LinkIds

HqNode == "hq"

\* The declared tiers form trees under HQ, whose name is not a tier's: a parent
\* of that name means "directly under HQ" (deployment.ts 270).
ASSUME TreesAssumption ==
    /\ IsFiniteSet(LinkIds)
    /\ \A tree \in DeclaredTrees :
          /\ HqNode \notin tree.tiers
          /\ \A T \in SUBSET tree.tiers : T # {} => \E t \in T : tree.parent[t] \notin T

Panels == {"map", "page"}   \* TheaterReadinessPosture, and HqApp with its header

VARIABLES
    lpTree,     \* the declared tree
    lpRows,     \* the link_status row of each link
    lpNow,      \* the clock
    lpTick,     \* nowMs of each panel
    lpWritten   \* rows written

pictureVars == <<lpTree, lpRows, lpNow, lpTick, lpWritten>>

NoLinkRow == [word |-> "none", at |-> 0]

LinkStates == {"up", "idle", "down", "unknown"}

PictureTypeOK ==
    /\ lpTree \in DeclaredTrees
    /\ lpRows \in [LinkIds -> [word : MonitorWords \cup {"none"}, at : 0..MaxLinkNow]]
    /\ lpNow \in 0..MaxLinkNow /\ lpTick \in [Panels -> 0..MaxLinkNow] /\ lpWritten \in 0..MaxWritten

-----------------------------------------------------------------------------
(* classifyLink, and the tones. *)

WordRead(row, now) ==
    IF row = NoLinkRow \/ row.word = "odd" \/ now - row.at > LinkRowStale THEN "unknown" ELSE row.word

Reading(row, now) == LET word == WordRead(row, now) IN IF word = "planned" THEN "idle" ELSE word

AllLinksDown(readings) == readings # {} /\ readings = {"down"}

\* toneFromReadings, over the words that are read.
ToneOf(words) ==
    CASE words = {}                            -> "none"
      [] AllLinksDown(words)                   -> "bad"
      [] words # {"down"} /\ words \cap {"down", "idle"} # {} -> "warn"
      [] words \cap {"down", "idle"} = {} /\ "unknown" \in words -> "neutral"
      [] OTHER                                 -> "ok"

-----------------------------------------------------------------------------
(* buildTheaterTopology. *)

\* [mutant] A tier is drawn only where the deployment places it.
DrawnWherePlaced(tree) ==
    IF tree.tiers = {} THEN tree.fobs ELSE {t \in tree.tiers : t \in tree.fobs \cup tree.sited}

\* A tier is drawn at its FOB or its site, else over its drawn children.  With
\* no tree, one node a FOB.
Drawn(tree) ==
    LET drawn[t \in tree.tiers] ==
            t \in tree.fobs \cup tree.sited \/ \E c \in tree.tiers \ {t} : tree.parent[c] = t /\ drawn[c] IN
    IF tree.tiers = {} THEN tree.fobs ELSE {t \in tree.tiers : drawn[t]}

\* The edge runs to the parent when it is drawn, else to HQ.
DrawnParent(tree, t) ==
    IF tree.tiers # {} /\ tree.parent[t] \in Drawn(tree) \ {t} THEN tree.parent[t] ELSE HqNode

\* The nearest ancestor whose own edge is down, if any.
CutBy(tree, own) ==
    LET via[t \in Drawn(tree)] ==
            LET p == DrawnParent(tree, t) IN
            IF p = HqNode THEN {} ELSE IF own[p] = "down" THEN {p} ELSE via[p] IN
    via

OwnReadings(now) == [t \in Drawn(lpTree) |-> Reading(lpRows[t], now)]

EdgeStates(now) ==
    LET own == OwnReadings(now)
        via == CutBy(lpTree, own) IN
    [t \in Drawn(lpTree) |-> IF via[t] # {} THEN "unreachable" ELSE own[t]]

EdgeCounts(edges) ==
    [s \in LinkStates \cup {"unreachable"} |-> Cardinality({t \in DOMAIN edges : edges[t] = s})]

\* The posture panel turns red.
Severed(edges) == edges # << >> /\ \A t \in DOMAIN edges : edges[t] \in {"down", "unreachable"}

-----------------------------------------------------------------------------
(* The page around the map. *)

\* The shape is asked for the declared links, for every row when none is.
RowsHeld == {id \in LinkIds : lpRows[id] # NoLinkRow /\ (lpTree.tiers # {} => id \in lpTree.tiers)}

HeldRow(id) == IF id \in RowsHeld THEN lpRows[id] ELSE NoLinkRow

\* HqApp: the freeze over the whole page.
Frozen == AllLinksDown({Reading(lpRows[id], lpTick["page"]) : id \in RowsHeld})

\* The rows of a header: the control's children, or what the store holds.
HeaderLinks(control) ==
    IF control = "off" THEN RowsHeld ELSE {t \in lpTree.tiers : lpTree.parent[t] \notin lpTree.tiers}

ChildrenTone(control) == ToneOf({WordRead(HeldRow(id), lpTick["page"]) : id \in HeaderLinks(control)})

-----------------------------------------------------------------------------
(* The monitor and the clock. *)

PictureInit ==
    /\ lpTree \in DeclaredTrees
    /\ lpRows \in [LinkIds -> {NoLinkRow} \cup {[word |-> w, at |-> 0] : w \in {"up", "down"}}]
    /\ lpNow = 0 /\ lpTick = [p \in Panels |-> 0] /\ lpWritten = 0

RowWritten(id, word) ==
    /\ lpWritten < MaxWritten
    /\ lpRows' = [lpRows EXCEPT ![id] = [word |-> word, at |-> lpNow]]
    /\ lpWritten' = lpWritten + 1
    /\ UNCHANGED <<lpTree, lpNow, lpTick>>

\* A panel's timer.
PanelTicks(p) ==
    /\ lpTick[p] < lpNow
    /\ lpTick' = [lpTick EXCEPT ![p] = lpNow]
    /\ UNCHANGED <<lpTree, lpRows, lpNow, lpWritten>>

\* Time passes, never further than a timer's period past its last tick.
LinkTimePasses ==
    /\ lpNow < MaxLinkNow /\ \A p \in Panels : lpNow < lpTick[p] + PageTick
    /\ lpNow' = lpNow + 1
    /\ UNCHANGED <<lpTree, lpRows, lpTick, lpWritten>>

PictureNext ==
    \/ \E id \in LinkIds, word \in LinkWords : RowWritten(id, word)
    \/ \E p \in Panels : PanelTicks(p)
    \/ LinkTimePasses

PictureSpec == PictureInit /\ [][PictureNext]_pictureVars

-----------------------------------------------------------------------------
(* Properties. *)

DeclaredAncestors(t) ==
    LET above[u \in lpTree.tiers] ==
            IF lpTree.parent[u] \in lpTree.tiers THEN {lpTree.parent[u]} \cup above[lpTree.parent[u]] ELSE {} IN
    IF lpTree.tiers = {} THEN {} ELSE above[t]

\* A link is shown unreachable exactly when a tier declared above it is cut,
\* wherever that tier is placed: an ancestor nobody placed is not skipped.
UnreachableIsCut ==
    \A t \in Drawn(lpTree) :
        (EdgeStates(lpTick["map"])[t] = "unreachable")
            <=> \E a \in DeclaredAncestors(t) : Reading(lpRows[a], lpTick["map"]) = "down"

\* The red panel says that every way into HQ is cut, and each edge is counted
\* under one state.
SeveredMeansCutOff ==
    LET edges == EdgeStates(lpTick["map"])
        ways  == {t \in Drawn(lpTree) : DrawnParent(lpTree, t) = HqNode}
        count == EdgeCounts(edges) IN
    /\ Severed(edges) <=> ways # {} /\ \A t \in ways : edges[t] = "down"
    /\ count["up"] + count["idle"] + count["down"] + count["unknown"] + count["unreachable"]
         = Cardinality(Drawn(lpTree))

\* The freeze and the map do not contradict each other at one reading of the
\* clock: a frozen page draws no edge that has a row as reachable.
FreezeAgrees ==
    Frozen /\ lpTick["map"] = lpTick["page"] =>
        \A t \in Drawn(lpTree) \cap RowsHeld : EdgeStates(lpTick["map"])[t] \in {"down", "unreachable"}

\* A monitor that stopped is not believed: nothing reads up, and no header ok,
\* longer than the row may live and a timer may wait.
UpIsRecent ==
    LET recent(id) == lpRows[id].word \in {"up", "planned"} /\ lpNow - lpRows[id].at <= LinkRowStale + PageTick IN
    /\ \A t \in Drawn(lpTree) : EdgeStates(lpTick["map"])[t] = "up" => recent(t)
    /\ \A control \in {"on", "off"} :
          ChildrenTone(control) = "ok" => \A id \in HeaderLinks(control) : recent(id)

PictureTrue == UnreachableIsCut /\ SeveredMeansCutOff /\ FreezeAgrees /\ UpIsRecent
=============================================================================
