SPECIFICATION RollupsSpec
CONSTANTS
    RollupRows = {1, 2, 3}
    RollupRegion <- RegionOfRow
    FleetCounts <- TwoCounts
    FactorCounts <- TwoFactorLists
    WearLists <- ThreeWearLists
    MaxEmitted = 3
    MaxRerenders = 1
INVARIANTS FactorCountsExact
CHECK_DEADLOCK FALSE
