SPECIFICATION FairSpec
CONSTANTS
    d1 = d1
    d2 = d2
    d3 = d3
    k1 = k1
    x1 = x1
    x2 = x2
    blue = blue
    green = green
    cA = cA
    cB = cB
    cAB = cAB
    tA = tA
    tB = tB
    s1 = s1
    s2 = s2
    None = None
    Docs = {d1, d2}
    Keys = {x1, x2}
    TextKeys = {x1, x2}
    Values = {blue, green}
    ValidAt <- Intervals
    Contents = {tA, tB}
    Asserts <- AssertsText
    Sessions = {s1, s2}
    Requests <- EachRequest
    Cutoffs = {1}
    ClockSteps <- UnreliableClock
    MaxClock = 2
    MaxVersions = 3
INVARIANTS
    ChainsAreLinear
    SupersessionPointsBack
PROPERTIES
    ReplayIsStable
    EveryQueuedSessionProceeds
