-------------------------------- MODULE MCRollups --------------------------------
(***************************************************************************)
(* RegionRollups for model checking: two classes of one region and one of  *)
(* another, which share a factor and a component; the component is         *)
(* reported in one unit or in two.                                         *)
(***************************************************************************)
EXTENDS RegionRollups

RegionOfRow == [n \in RollupRows |-> IF n = 3 THEN "west" ELSE "east"]

CountsOf(nominal, degraded) ==
    [k \in CountNames |->
        CASE k = "nominal" -> nominal [] k = "degraded" -> degraded
          [] k = "asset_count" -> nominal + degraded [] OTHER -> 0]
TwoCounts == {[counts |-> CountsOf(2, 1), observed |-> 2], [counts |-> CountsOf(0, 1), observed |-> 0]}

TwoFactorLists == {[f \in {"x"} |-> 2], [f \in {"x", "y"} |-> 1]}

Component(id, unit, rul, assets) == [id |-> id, unit |-> unit, rul |-> rul, assets |-> assets]
ThreeWearLists ==
    {<<Component("c", "h", 6, 2)>>, <<Component("c", "h", 5, 1), Component("c", "km", 7, 1)>>,
     <<Component("d", "h", 1, 1)>>}
=============================================================================
