SPECIFICATION Spec
SYMMETRY Symmetry
CONSTANTS
    p1 = p1  r1 = r1  r2 = r2  r3 = r3  a = a
    m1 = m1  m2 = m2
    Members = {m1, m2}
    Partitions = {p1}
    Routes = {r1}
    EventIds = {a}
    NoId = NoId
    Undecodable = Undecodable
    Log <- ReplayLog
    RoutesAt <- DedupeRoute
    Dedupe = {r1}
    Held = {}
    RetryMax = 1
    FaultKinds = {"crash", "eviction", "lost_response", "resend"}
    MaxFaults = 1
INVARIANTS NoSilentLoss HeadOfLine DeliveredMeansAccepted ExplainedDoubleSend
PROPERTIES CommitNeverRegresses PromiseKept
