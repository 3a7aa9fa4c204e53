----------------------------- MODULE SharpTiles -----------------------------
(***************************************************************************)
(* The sharp imagery that follows the camera over the regional terrain     *)
(* (components/terrain/ViewTiles.tsx, terrainData.ts usePatches).          *)
(* ViewTiles looks at the camera a few times a second and, when it has     *)
(* come to rest, tells the tile boxes that view wants; the page lists them *)
(* while the imagery is drawn; usePatches loads what the list adds and     *)
(* keeps what left it until the list is in.                                *)
(*                                                                         *)
(* External: the operator's camera and controls; the tile server.          *)
(***************************************************************************)
EXTENDS Integers, FiniteSets

CONSTANTS
    Looks,     \* where the camera may rest: a target and a distance
    Ranges,    \* zoom ranges and projections of the terrain under it
    BoxesOf,   \* the boxes a look wants under a range: [Looks -> [Ranges -> SUBSET boxes]]
    MaxLooks   \* bound: turns of the camera and the controls

Patches == UNION {BoxesOf[l][r] : l \in Looks, r \in Ranges}

ASSUME TilesAssumption == MaxLooks \in Nat /\ IsFiniteSet(Patches)

VARIABLES
    svLook,     \* where the camera rests
    svRange,    \* minZ, maxZ and proj
    svDrawn,    \* the terrain is on, loaded and in the satellite style: ViewTiles is mounted
    svLast,     \* last: the look of the check before
    svKey,      \* lastKey: the boxes told last
    svBoxes,    \* viewBoxes
    ptHere,     \* mounted: the page is
    ptCurrent,  \* current: the list as of the last effect
    ptLoaded,   \* loaded
    ptLoading,  \* loading
    ptFailed,   \* failed
    ptShown,    \* patches: those drawn
    ptTextures, \* how many textures are made and not disposed
    svTurns     \* turns taken

viewVars == <<svLook, svRange, svDrawn, svLast, svKey, svBoxes>>
patchVars == <<ptHere, ptCurrent, ptLoaded, ptLoading, ptFailed, ptShown, ptTextures>>
tilesVars == <<viewVars, patchVars, svTurns>>

\* last and lastKey hold one thing or, Unknown, none: sets of at most one.
Unknown == {}

TilesTypeOK ==
    /\ svLook \in Looks /\ svRange \in Ranges /\ svDrawn \in BOOLEAN
    /\ svLast \subseteq Looks /\ svKey \subseteq SUBSET Patches
    /\ Cardinality(svLast) <= 1 /\ Cardinality(svKey) <= 1
    /\ svBoxes \subseteq Patches /\ ptHere \in BOOLEAN
    /\ {ptCurrent, ptLoaded, ptLoading, ptFailed, ptShown} \subseteq SUBSET Patches
    /\ ptLoaded \cap ptLoading = {} /\ ptLoaded \cap ptFailed = {}
    /\ ptTextures \in 0..Cardinality(Patches) /\ svTurns \in 0..MaxLooks

TilesInit ==
    /\ svLook \in Looks /\ svRange \in Ranges /\ svDrawn \in BOOLEAN
    /\ svLast = Unknown /\ svKey = Unknown /\ svBoxes = {}
    /\ ptHere = TRUE /\ ptCurrent = {} /\ ptLoaded = {} /\ ptLoading = {} /\ ptFailed = {}
    /\ ptShown = {} /\ ptTextures = 0 /\ svTurns = 0

-----------------------------------------------------------------------------
(* The view. *)

ViewTurn == svTurns < MaxLooks /\ svTurns' = svTurns + 1 /\ ptHere /\ UNCHANGED patchVars

CameraMoves(look) ==
    /\ ViewTurn /\ look # svLook
    /\ svLook' = look
    /\ UNCHANGED <<svRange, svDrawn, svLast, svKey, svBoxes>>

\* A new range or projection must tell its boxes even if the view is still.
Retuned(range) ==
    /\ ViewTurn /\ svDrawn /\ range # svRange
    /\ svRange' = range /\ svKey' = Unknown
    /\ UNCHANGED <<svLook, svDrawn, svLast, svBoxes>>

\* The terrain or its style is switched: ViewTiles comes and goes with it and
\* forgets what it told; the page does not.
Toggled ==
    /\ ViewTurn
    /\ svDrawn' = ~svDrawn
    /\ svLast' = Unknown /\ svKey' = Unknown
    /\ UNCHANGED <<svLook, svRange, svBoxes>>

AtRestSince(look) == svLast = {look}

CheckDue == svLast # {svLook} \/ svKey # {BoxesOf[svLook][svRange]}

\* useFrame, every CHECK_S: a moving camera is waited for, boxes told once.
CheckView ==
    /\ ptHere /\ svDrawn /\ CheckDue
    /\ svLast' = {svLook}
    /\ LET boxes == BoxesOf[svLook][svRange] IN
       IF AtRestSince(svLook) /\ svKey # {boxes}
       THEN svKey' = {boxes} /\ svBoxes' = boxes
       ELSE UNCHANGED <<svKey, svBoxes>>
    /\ UNCHANGED <<svLook, svRange, svDrawn, patchVars, svTurns>>

-----------------------------------------------------------------------------
(* The patches. *)

\* patchSpecs: the page's list.
Specs == IF svDrawn THEN svBoxes ELSE {}

\* settle: what left the list goes once the list is in, not before.
Kept(list, loaded, failed) ==
    IF list \subseteq loaded \cup failed THEN loaded \cap list ELSE loaded

\* A settle over the loaded and failed, of textures textures.
Settle(list, loaded, failed, textures) ==
    LET kept == Kept(list, loaded, failed) IN
    /\ ptLoaded' = kept /\ ptShown' = kept
    /\ ptTextures' = textures - Cardinality(loaded \ kept)

\* The effect on a new list: failures outside it are forgotten, what it adds is
\* asked for.
Listed ==
    /\ ptHere /\ Specs # ptCurrent
    /\ ptCurrent' = Specs
    /\ ptFailed' = ptFailed \cap Specs
    /\ ptLoading' = ptLoading \cup (Specs \ (ptLoaded \cup ptFailed))
    /\ Settle(Specs, ptLoaded, ptFailed \cap Specs, ptTextures)
    /\ UNCHANGED <<ptHere, viewVars, svTurns>>

\* A patch comes; one whose page or place in the list is gone is dropped.
PatchLoads(p) ==
    /\ p \in ptLoading
    /\ ptLoading' = ptLoading \ {p}
    /\ IF ~ptHere \/ p \notin ptCurrent
       THEN UNCHANGED <<ptLoaded, ptShown, ptTextures>>
       ELSE Settle(ptCurrent, ptLoaded \cup {p}, ptFailed, ptTextures + 1)
    /\ UNCHANGED <<ptHere, ptCurrent, ptFailed, viewVars, svTurns>>

\* A patch fails: noted even when it left the list; not asked again while listed.
SettleFailed(p) ==
    IF ptHere THEN Settle(ptCurrent, ptLoaded, ptFailed \cup {p}, ptTextures)
    ELSE UNCHANGED <<ptLoaded, ptShown, ptTextures>>

PatchFails(p) ==
    /\ p \in ptLoading
    /\ ptLoading' = ptLoading \ {p} /\ ptFailed' = ptFailed \cup {p}
    /\ SettleFailed(p)
    /\ UNCHANGED <<ptHere, ptCurrent, viewVars, svTurns>>

\* The page goes: every patch is disposed; what is loading comes to nobody.
LeavePatches ==
    /\ ptHere
    /\ ptHere' = FALSE
    /\ ptLoaded' = {} /\ ptFailed' = {} /\ ptShown' = {}
    /\ ptTextures' = ptTextures - Cardinality(ptLoaded)
    /\ UNCHANGED <<ptCurrent, ptLoading, viewVars, svTurns>>

Answered(p) == PatchLoads(p) \/ PatchFails(p)

TilesNext ==
    \/ \E l \in Looks : CameraMoves(l)
    \/ \E r \in Ranges : Retuned(r)
    \/ Toggled \/ CheckView \/ Listed \/ LeavePatches
    \/ \E p \in Patches : Answered(p)

\* Frames are drawn, effects run, and a patch's tiles come or time out.
TilesFairness ==
    WF_tilesVars(CheckView) /\ WF_tilesVars(Listed) /\ \A p \in Patches : WF_tilesVars(Answered(p))

TilesSpec == TilesInit /\ [][TilesNext]_tilesVars /\ TilesFairness

-----------------------------------------------------------------------------
(* Properties. *)

\* A texture is on the card for each patch loaded and none besides, also when
\* patches come after their list or their page is gone.
PatchesAccounted == ptTextures = Cardinality(ptLoaded)

\* Sharp imagery is not taken away before the new is in: a step removes a patch
\* only when each of the list is drawn or has failed, or the page is left.
SharpStays ==
    [][ptShown \subseteq ptShown' \/ ~ptHere' \/ ptCurrent' \subseteq ptShown' \cup ptFailed']_tilesVars

\* The page comes to rest on the view it has: what the camera's rest wants is
\* drawn or has failed, and nothing else is drawn.
SharpSettles ==
    LET wanted == IF svDrawn THEN BoxesOf[svLook][svRange] ELSE {} IN
    <>[](ptHere => ptShown \subseteq wanted /\ wanted \subseteq ptShown \cup ptFailed)
=============================================================================
