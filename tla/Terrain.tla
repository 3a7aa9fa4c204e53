------------------------------ MODULE Terrain ------------------------------
(***************************************************************************)
(* The ground under a map (components/terrain/terrainData.ts useTerrain,   *)
(* theaterData.ts useSurround and useMask, lib/landMask.ts).  A hook wants *)
(* the ground of one box, the box changes as sites and assets do and as    *)
(* the operator turns the terrain on and off, and loads of earlier boxes   *)
(* are still on their way.  A load fetches the box's tiles, then the       *)
(* coastline file, which all loads share; it makes one texture, which the  *)
(* graphics card holds until it is disposed.                               *)
(*                                                                         *)
(* External: the tile server and the browser's fetch: a tile comes, fails  *)
(* or times out, the coastline comes or fails.                             *)
(***************************************************************************)
EXTENDS Integers, FiniteSets

CONSTANTS
    Boxes,     \* what may be wanted: a box with its projection and tile source
    Tiles,     \* the elevation tiles of a box
    MaxWants   \* bound: changes of the wanted box

ASSUME TerrainAssumption == Tiles \in Nat \ {0} /\ MaxWants \in Nat

VARIABLES
    tnHook,    \* whose ground: "terrain" (the region or the theater), "surround" or "mask"
    tnHere,    \* the map is mounted
    tnBox,     \* b: the box wanted
    tnData,    \* data: what is drawn
    tnFailed,  \* failed: the wanted box could not be loaded
    tnLoads,   \* loads on their way
    tnCoast,   \* the coastline file in its cache
    tnLive,    \* textures made and not disposed
    tnWants    \* loads begun so far: their ids, and those of their textures

terrainVars == <<tnHook, tnHere, tnBox, tnData, tnFailed, tnLoads, tnCoast, tnLive, tnWants>>

NoBox == "none"
NoData == [box |-> NoBox, id |-> 0]
Hooks == {"terrain", "surround", "mask"}
Ids == 1..MaxWants

LoadRecords ==
    [id : Ids, box : Boxes, live : BOOLEAN, left : 0..Tiles, got : 0..Tiles, stage : {"tiles", "coast"}]

TerrainTypeOK ==
    /\ tnHook \in Hooks /\ tnHere \in BOOLEAN /\ tnBox \in Boxes \cup {NoBox}
    /\ tnData \in [box : Boxes, id : Ids] \cup {NoData} /\ tnFailed \in BOOLEAN
    /\ tnLoads \subseteq LoadRecords
    /\ \A l, k \in tnLoads : l.id = k.id => l = k
    /\ tnCoast \in {"absent", "pending", "held"} /\ tnLive \subseteq Ids /\ tnWants \in 0..MaxWants

TerrainInit ==
    /\ tnHook \in Hooks
    /\ tnHere = TRUE /\ tnBox = NoBox /\ tnData = NoData /\ tnFailed = FALSE
    /\ tnLoads = {} /\ tnCoast = "absent" /\ tnLive = {} /\ tnWants = 0

-----------------------------------------------------------------------------
(* What is drawn. *)

\* What is drawn becomes d: the texture it replaces is disposed, made are new.
Draws(d, made) ==
    /\ tnData' = d
    /\ tnLive' = (tnLive \cup made) \ ({tnData.id} \ {d.id})

\* The loads of before no longer count.
NoLongerLive(loads) == {[l EXCEPT !.live = FALSE] : l \in loads}

NewLoad(box) ==
    [id |-> tnWants + 1, box |-> box, live |-> TRUE, left |-> Tiles, got |-> 0,
     stage |-> IF tnHook = "mask" THEN "coast" ELSE "tiles"]

-----------------------------------------------------------------------------
(* The coastline, one fetch for all. *)

\* Loads that have all they need make their textures: that of the load that
\* counts is drawn, the others' are disposed at once.  A mask without a
\* coastline is none; terrain without one is drawn unmasked.
Made(done) == {l.id : l \in {k \in done : k.live}}

Finish(done, coast) ==
    IF ~coast /\ tnHook = "mask"
    THEN IF \E l \in done : l.live THEN Draws(NoData, {}) ELSE UNCHANGED <<tnData, tnLive>>
    ELSE IF \E l \in done : l.live
         THEN LET l == CHOOSE k \in done : k.live IN
              Draws([box |-> l.box, id |-> l.id], Made(done))
         ELSE UNCHANGED tnData /\ tnLive' = tnLive \cup Made(done)

\* Loads reach the coastline: from the cache, or together with its fetch.
ReachCoast(loads, reached) ==
    IF tnCoast = "held"
    THEN /\ tnLoads' = loads \ reached /\ UNCHANGED tnCoast
         /\ Finish(reached, TRUE)
    ELSE /\ tnLoads' = loads
         /\ tnCoast' = IF reached = {} THEN tnCoast ELSE "pending"
         /\ UNCHANGED <<tnData, tnLive>>

\* The fetch is answered; one that failed is dropped so that the next call retries.
CoastComes(ok) ==
    /\ tnCoast = "pending"
    /\ LET waiting == {l \in tnLoads : l.stage = "coast"} IN
          /\ tnLoads' = tnLoads \ waiting
          /\ Finish(waiting, ok)
    /\ tnCoast' = IF ok THEN "held" ELSE "absent"
    /\ UNCHANGED <<tnHook, tnHere, tnBox, tnFailed, tnWants>>

-----------------------------------------------------------------------------
(* The effect on the wanted box. *)

Wants(box) ==
    /\ tnHere /\ box # tnBox
    /\ tnBox' = box
    /\ tnFailed' = FALSE
    /\ UNCHANGED <<tnHook, tnHere>>
    /\ IF box = NoBox
       THEN /\ tnLoads' = NoLongerLive(tnLoads)
            /\ Draws(NoData, {})
            /\ UNCHANGED <<tnCoast, tnWants>>
       ELSE /\ tnWants < MaxWants /\ tnWants' = tnWants + 1
            /\ LET new == NewLoad(box) IN
               ReachCoast(NoLongerLive(tnLoads) \cup {new}, IF new.stage = "coast" THEN {new} ELSE {})

\* A tile of a load comes, or is left blank: an error, or TILE_TIMEOUT_MS.
\* With no elevation tile at all the load fails: the terrain is taken away and
\* said to have failed, the surround stays as it is.
TileComes(l, ok) ==
    /\ l.stage = "tiles"
    /\ UNCHANGED <<tnHook, tnHere, tnBox, tnWants>>
    /\ LET others == tnLoads \ {l}
           after  == [l EXCEPT !.left = @ - 1, !.got = IF ok THEN @ + 1 ELSE @] IN
       CASE after.left > 0 ->
              /\ tnLoads' = others \cup {after}
              /\ UNCHANGED <<tnData, tnFailed, tnCoast, tnLive>>
         [] after.left = 0 /\ after.got = 0 ->
              /\ tnLoads' = others
              /\ UNCHANGED tnCoast
              /\ IF l.live /\ tnHook = "terrain"
                 THEN tnFailed' = TRUE /\ Draws(NoData, {})
                 ELSE UNCHANGED <<tnData, tnFailed, tnLive>>
         [] OTHER ->
              /\ UNCHANGED tnFailed
              /\ LET done == [after EXCEPT !.stage = "coast"] IN ReachCoast(others \cup {done}, {done})

\* The map is left: what is drawn is disposed, loads go on and are not wanted.
LeaveMap ==
    /\ tnHere
    /\ tnHere' = FALSE
    /\ tnLoads' = NoLongerLive(tnLoads)
    /\ Draws(NoData, {})
    /\ UNCHANGED <<tnHook, tnBox, tnFailed, tnCoast, tnWants>>

TerrainNext ==
    \/ \E box \in Boxes \cup {NoBox} : Wants(box)
    \/ \E l \in tnLoads, ok \in BOOLEAN : TileComes(l, ok)
    \/ \E ok \in BOOLEAN : CoastComes(ok)
    \/ LeaveMap

\* A tile is answered or times out; a fetch is answered or fails.
Loads(id) == \E l \in tnLoads, ok \in BOOLEAN : l.id = id /\ TileComes(l, ok)
Coasts == \E ok \in BOOLEAN : CoastComes(ok)

TerrainFairness == WF_terrainVars(Coasts) /\ \A id \in Ids : WF_terrainVars(Loads(id))

TerrainSpec == TerrainInit /\ [][TerrainNext]_terrainVars /\ TerrainFairness

-----------------------------------------------------------------------------
(* Properties. *)

\* Every texture that was made and not disposed is the one drawn: whatever the
\* order of loads, boxes and leaving the map, none is left on the card.
TexturesAccounted == tnLive = {tnData.id} \ {0}

\* The map comes to rest on the box it wants: with its ground, or, for the
\* terrain, with its failure told and nothing of another box in its place.
AtRest ==
    /\ ~\E l \in tnLoads : l.live
    /\ tnHook = "terrain" => IF tnFailed THEN tnData = NoData ELSE tnData.box = tnBox
    /\ tnHook = "mask" => tnData = NoData \/ tnData.box = tnBox

TerrainSettles ==
    \A box \in Boxes : []<>(tnHere /\ tnBox = box => AtRest)

\* Not run: a surround is of the box wanted, once nothing is on its way.  A
\* failed load leaves the one before (theaterData.ts:67).
SurroundIsOfItsBox ==
    (tnHook = "surround" /\ ~\E l \in tnLoads : l.live) => tnData = NoData \/ tnData.box = tnBox
=============================================================================
