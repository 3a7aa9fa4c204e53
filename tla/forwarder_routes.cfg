SPECIFICATION Spec
CONSTANTS
    p1 = p1  r1 = r1  r2 = r2  r3 = r3  a = a
    m1 = m1  m2 = m2
    Members = {m1}
    Partitions = {p1}
    Routes = {r1, r2, r3}
    EventIds = {a}
    NoId = NoId
    Undecodable = Undecodable
    Log <- MixedLog
    RoutesAt <- ThreeRoutes
    Dedupe = {r1, r3}
    Held = {r3}
    RetryMax = 1
    FaultKinds = {"crash", "eviction", "lost_response", "resend"}
    MaxFaults = 1
INVARIANTS TypeOK Accounted
PROPERTIES DeliveredIsFinal
