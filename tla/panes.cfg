SPECIFICATION PanesSpec
CONSTANTS
    MaxClicks = 2
    Supervisor = TRUE
    Declared = 1
    MaxNow = 5
    MaxRows = 2
    BaseFiles <- ServedBases
    OverlayFiles <- ServedOverlays
    SiteTables <- ServedTables
    DemoPaths = {TRUE, FALSE}
    MapAssets = {1, 2, 3, 4}
    VariantOf <- VariantOfAsset
    EdgeOf <- EdgeOfAsset
    FobAt <- FobPlace
    Places = {0, 1}
    Radii = {3, 6}
    MaxKinds = 2
    FobRegions = {1}
    OtherRegions = {2}
    RegionScope = 0
    UrlRegion = 2
    FirstFleets <- MixedFleet
    MaxMoves = 2
    PaneAssets = {"a", "b"}
    Faults = {1}
    PartOf <- PartOfFault
    MaxForms = 1
    MaxSwitches = 1
    ManualAssets = {"a", "b"}
    Scope <- ManualsOf
    MaxChanges = 3
    SiteEdges = {"e1", "e2"}
    ArrivalsAt <- EdgeArrivals
    Destinations = {"d1", "d2"}
    MaxSwaps = 1
    StaleAfter = 2
    LostAfter = 4
    RecoverySamples = 2
    RecoveryWindow = 2
    MaxClock = 9
    GateRoutes = {1, 2}
    GateNations = {"A"}
    LastRecord = 3
    Audience <- RecordAudience
    Undecodable = {2}
    NotAnObject = {3}
    RefreshDelays = 1
    MaxAnswers = 1
    MaxStarts = 2
    Launchers = {"l1", "l2"}
    VariantOfLauncher <- OneVariant
    AssetLoad <- OwnLoad
    VariantLoad <- SharedLoad
    Ledger <- FourLines
    TrackPool <- OneTrack
    Homes = {"r1", "r2"}
    Ammo = {0, 2, 3}
    MaxLedgerNow = 2
    MaxFleetMoves = 1
    TerrainBlocks <- EveryBlock
    MaxControls = 2
    LinkIds = {"r", "s", "e"}
    DeclaredTrees <- FourTrees
    LinkWords = {"up", "down", "idle", "planned", "odd"}
    LinkRowStale = 2
    PageTick = 1
    MaxLinkNow = 4
    MaxWritten = 1
    StaleEnter = 3
    StaleExit = 1
    MaxLabelNow = 8
    MaxErrors = 2
    PostureAssets = {"a", "b"}
    FobEdges = {"f1", "f2"}
    FleetRows <- SensorsAndMunitions
    Severities = {"OK", "CRITICAL"}
    Flying <- TwoFlying
    MaxFeeds = 4
    Lookups = {1, 2}
    SessionCeiling = 2
    SessionIdle = 2
    RefreshLead = 1
    RenewRetry = 1
    TokenLife = 2
    RefreshLife = 3
    CallTime = 1
    Rotates = FALSE
    MaxSessionNow = 6
    EpisodeKeys = {"a", "b"}
    DetectedAt <- FirstSeen
    CmAssets = {"x"}
    CmTopics <- ThreeStates
    SourceSets = {{"s1"}, {"s1", "s2"}, {"s3"}}
    PostureTopics <- FourMarches
    MaxAssemblers = 2
    Artifacts = {"a1", "a2"}
    KeyOf <- OneIntakeKey
    RefOf <- OneAnswered
    LabelOf <- LabelOfArtifact
    Malformed = {}
    Unapproved = {"a2"}
    OnBehalf = {"a1"}
    AnswerRecords <- TwoRecords
    ProvisionalTimeout = 1
    MaxAnswerRecords = 1
    MaxOffers = 2
    MaxIntakeFaults = 1
    MaxIntakeNow = 1
    RollupRows = {1, 2, 3}
    RollupRegion <- RegionOfRow
    FleetCounts <- TwoCounts
    FactorCounts <- TwoFactorLists
    WearLists <- ThreeWearLists
    MaxEmitted = 3
    MaxRerenders = 1
    ChartAssets = {"a", "b"}
    Variants = {"v", "w"}
    History = 2
    LevelRows = {"a", "b"}
    FirstRows = {"a"}
    MaxShapeLog = 3
INVARIANTS PanesTypeOK NoUnseenCancel DeploymentObeyed FiguresAddUp LinksShownTrue
    NothingOfAnother CommittedIsAnswered StaleNeverDecides SessionsKept ToldInFull ArtifactsKept
PROPERTIES RecoveryIsEarned
CHECK_DEADLOCK FALSE
