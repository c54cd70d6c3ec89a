SPECIFICATION Spec
CONSTANTS
    d1 = d1
    d2 = d2
    k1 = k1
    k2 = k2
    blue = blue
    cA = cA
    cB = cB
    None = None
    Docs = {d1, d2}
    Keys = {k1, k2}
    TextKeys = {}
    Values = {blue}
    ValidAt <- Always
    Contents = {cA, cB}
    Asserts <- AssertsTwo
    Requests <- PlainOrTopic
    Rank <- RankTwo
    PageSize = 1
    MaxClock = 4
    MaxVersions <- VersionsRead
    MaxErasures = 1
    MaxSetbacks <- SetbacksRead
INVARIANTS TypeOK FeedMissesOnlyStragglers CurrentWasLive StaleIsNotLive DriftMissesOnlyDrops
CHECK_DEADLOCK FALSE
