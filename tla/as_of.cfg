SPECIFICATION Spec
CONSTANTS
    d1 = d1
    d2 = d2
    d3 = d3
    k1 = k1
    x1 = x1
    x2 = x2
    blue = blue
    green = green
    cA = cA
    cB = cB
    cAB = cAB
    tA = tA
    tB = tB
    s1 = s1
    s2 = s2
    None = None
    Docs = {d1, d2}
    Keys = {k1, x1}
    TextKeys = {x1}
    Values = {blue, green}
    ValidAt <- Intervals
    Contents = {cA, cB}
    Asserts <- AssertsKeyed
    Sessions = {s1, s2}
    Requests <- OneRequest
    Cutoffs <- AnyCutoff
    ClockSteps <- StrictClock
    MaxClock = 3
    MaxVersions = 3
SYMMETRY Interchangeable
PROPERTIES
    PastIsFrozen
