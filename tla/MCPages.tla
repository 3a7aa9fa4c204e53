--------------------------------- MODULE MCPages ---------------------------------
(***************************************************************************)
(* The components that must come to something, side by side: a behaviour   *)
(* is that of one of them, part, and the others stay at their initial      *)
(* state.  They share no state in the code either; together they are one   *)
(* graph, the sum of theirs.                                               *)
(***************************************************************************)
EXTENDS BrowserSession, ExerciseStatus, ElementLevels, Drilldown, Links, Maintainer,
        MunitionTrails, Terrain, SharpTiles, IntakeCases

VARIABLE part

-----------------------------------------------------------------------------
(* The instances. *)

TableOfFeed == [f \in Feeds |-> CHOOSE t \in Tables : TRUE]

\* On, slowed and cut.
LinkPresets == {[up |-> "on", shape |-> "zero"], [up |-> "on", shape |-> "slow"], [up |-> "cut", shape |-> "zero"]}

\* A munition whose row sends a place alone, none at all among them, and one
\* whose row carries its trail.
TrackSamples == <<{[place |-> 0, trail |-> << >>], [place |-> 1, trail |-> << >>], [place |-> 2, trail |-> << >>]},
                  {[place |-> 0, trail |-> <<2, 0, 1>>]}>>

\* Views that share a box, one that has a single box and one that has none.
ViewBoxes ==
    [l \in Looks |-> [r \in Ranges |->
        CASE l = 3 -> {} [] l = 2 -> {2} [] l = 1 /\ r = 1 -> {1, 2} [] OTHER -> {2, 3}]]

-----------------------------------------------------------------------------
screenVars == <<sessionVars, statusVars, maintainerVars>>
viewPartVars == <<levelVars, drillVars, linkVars>>
imageVars == <<trailVars, terrainVars, tilesVars>>
pagesVars == <<screenVars, viewPartVars, imageVars, casesVars, part>>

PartNames == {"session", "status", "maintainer", "levels", "drill", "links", "trails", "terrain", "tiles", "cases"}

\* A part that begins in several states rests in one of them when it does not run.
Resting ==
    /\ part # "session" => authRoutes
    /\ part # "terrain" => tnHook = "terrain"
    /\ part # "tiles" => svLook = 1 /\ svRange = 1 /\ svDrawn

PagesInit ==
    /\ part \in PartNames
    /\ SessionInit /\ StatusInit /\ MaintainerInit
    /\ LevelsInit /\ DrillInit /\ LinkInit
    /\ TrailsInit /\ TerrainInit /\ TilesInit /\ CasesInit
    /\ Resting

Runs(p) == part = p /\ UNCHANGED part

PagesNext ==
    \/ Runs("session") /\ SessionNext /\ UNCHANGED <<statusVars, maintainerVars, viewPartVars, imageVars, casesVars>>
    \/ Runs("status") /\ StatusNext /\ UNCHANGED <<sessionVars, maintainerVars, viewPartVars, imageVars, casesVars>>
    \/ Runs("maintainer") /\ MaintainerNext /\ UNCHANGED <<sessionVars, statusVars, viewPartVars, imageVars, casesVars>>
    \/ Runs("levels") /\ LevelsNext /\ UNCHANGED <<drillVars, linkVars, screenVars, imageVars, casesVars>>
    \/ Runs("drill") /\ DrillNext /\ UNCHANGED <<levelVars, linkVars, screenVars, imageVars, casesVars>>
    \/ Runs("links") /\ LinkNext /\ UNCHANGED <<levelVars, drillVars, screenVars, imageVars, casesVars>>
    \/ Runs("trails") /\ TrailsNext /\ UNCHANGED <<terrainVars, tilesVars, screenVars, viewPartVars, casesVars>>
    \/ Runs("terrain") /\ TerrainNext /\ UNCHANGED <<trailVars, tilesVars, screenVars, viewPartVars, casesVars>>
    \/ Runs("tiles") /\ TilesNext /\ UNCHANGED <<trailVars, terrainVars, screenVars, viewPartVars, casesVars>>
    \/ Runs("cases") /\ CasesNext /\ UNCHANGED <<screenVars, viewPartVars, imageVars>>

\* Each part's fairness, for the behaviours in which it runs.
PagesFairness ==
    /\ \A c \in Checks : /\ WF_sessionVars(part = "session" /\ CheckAnswered(c))
                         /\ WF_sessionVars(part = "session" /\ HandleCheck(c))
    /\ WF_sessionVars(part = "session" /\ \E c \in Checks : Retry(c))
    /\ WF_sessionVars(part = "session" /\ ~sessionLives /\ DeadlineFires)
    /\ \A i \in PollSlots : /\ WF_statusVars(part = "status" /\ Poll(i))
                            /\ WF_statusVars(part = "status" /\ PollHandled(i))
    /\ WF_statusVars(part = "status" /\ CommandHandled)
    /\ WF_levelVars(part = "levels" /\ Swept)
    /\ \A v \in Views : /\ WF_levelVars(part = "levels" /\ ReadHandled(v))
                        /\ WF_levelVars(part = "levels" /\ HolderIdles(v))
                        /\ WF_levelVars(part = "levels" /\ GraceFires(v))
                        /\ WF_levelVars(part = "levels" /\ GraceExpired(v))
    /\ WF_drillVars(part = "drill" /\ DrillEnds) /\ WF_drillVars(part = "drill" /\ PopEnds)
    /\ WF_linkVars(part = "links" /\ RefreshBegins)
    /\ \A r \in Reads : /\ WF_linkVars(part = "links" /\ ListingTaken(r))
                        /\ WF_linkVars(part = "links" /\ ListingCame(r))
    /\ \A p \in Posts : /\ WF_linkVars(part = "links" /\ ChangeMade(p))
                        /\ SF_linkVars(part = "links" /\ ChangeDone(p))
    /\ WF_maintainerVars(part = "maintainer" /\ Effects)
    /\ WF_trailVars(part = "trails" /\ TimePasses) /\ WF_trailVars(part = "trails" /\ TimerFires)
    /\ WF_terrainVars(part = "terrain" /\ Coasts)
    /\ \A id \in Ids : WF_terrainVars(part = "terrain" /\ Loads(id))
    /\ WF_tilesVars(part = "tiles" /\ CheckView) /\ WF_tilesVars(part = "tiles" /\ Listed)
    /\ \A b \in Patches : WF_tilesVars(part = "tiles" /\ Answered(b))
    /\ WF_casesVars(part = "cases" /\ ChooseCases) /\ WF_casesVars(part = "cases" /\ FetchCase)
    /\ WF_casesVars(part = "cases" /\ StartIntake)

PagesSpec == PagesInit /\ [][PagesNext]_pagesVars /\ PagesFairness

-----------------------------------------------------------------------------
(* Properties. *)

\* Every part's variables keep their types.
PagesTypeOK ==
    /\ SessionTypeOK /\ StatusTypeOK /\ MaintainerTypeOK /\ LevelsTypeOK /\ DrillTypeOK /\ LinkTypeOK
    /\ TrailsTypeOK /\ TerrainTypeOK /\ TilesTypeOK /\ CasesTypeOK

\* What must be done once is: a view is released once however its callers
\* interleave (useElementLevel.ts), and every texture is disposed of once,
\* whichever load of it was late (terrainData.ts, landMask.ts).
DoneOnce == ReleasedOnce /\ TexturesAccounted /\ PatchesAccounted

\* What a part comes to is promised of the behaviours in which it runs.
WhereRuns(p) == []<>(part = p)

\* What is shown comes to what is: the exercise's state, the link's, the maintainer's
\* edge and asset, which come to be ones that are there, imagery to the box and the view
\* wanted (the sharp tiles shown stay until the ones after them are there); and the
\* animations between two levels and of an ending, which plays once, come to their end.
ShownSettles ==
    /\ WhereRuns("status") => StatusConverges
    /\ WhereRuns("links") => LinkConverges
    /\ WhereRuns("maintainer") => SelectionSettles
    /\ TerrainSettles /\ (WhereRuns("tiles") => SharpSettles) /\ SharpStays
    /\ TransitionEnds /\ EndingsEnd
=============================================================================
