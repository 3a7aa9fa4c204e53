SPECIFICATION PagesSpec
CONSTANTS
    Checks = {1, 2}
    RetryDelays = 1
    Feeds = {f1}
    Tables = {t1}
    TableOf <- TableOfFeed
    Unlabeled = {}
    PollSlots = {1, 2}
    Views = {1, 2}
    ViewerShapeMax = 1
    DrillAssets = {a1, a2}
    Names = {n1, n2}
    Layers = 3
    Reads = {1, 2}
    Posts = {1, 2}
    Shapes = {"zero", "slow"}
    Presets <- LinkPresets
    ZeroShape = "zero"
    MaxTurns = 2
    Edges = {1, 2}
    Assets = {"a", "b"}
    Actionable = {"a"}
    Rounds = {"b"}
    TierScope = 0
    UrlEdge = 2
    UrlAsset = "a"
    MaxNews = 1
    Munitions = {1, 2}
    SamplesOf <- TrackSamples
    TrailLen = 2
    BurstFor = 1
    SilenceFor = 1
    Ahead = 1
    Boxes = {"p", "q"}
    Tiles = 2
    MaxWants = 3
    Looks = {1, 2, 3}
    Ranges = {1, 2}
    BoxesOf <- ViewBoxes
    MaxLooks = 3
    Cases = {"a", "b", "c"}
    MaxCasesPerTick = 1
    RowsAreHeld = TRUE
    MaxIntakes = 2
PROPERTY LinkLossKeepsTheScreen
CHECK_DEADLOCK FALSE
