SPECIFICATION FairSpec
CONSTANTS
    p1 = p1
    p2 = p2
    w1 = w1
    w2 = w2
    r1 = r1
    s1 = s1
    h1 = h1
    h2 = h2
    main_db = main_db
    other_db = other_db
    Daemons = {p1, p2}
    Commands = {w1, w2, r1, s1, h1, h2}
    Kind <- MCKind
    Crews = {{w1, w2}, {w1}, {w1, s1}, {r1, s1}, {h1, h2}}
    Warm <- MCWarm
    Database <- MCDatabase
    Attempts = 2
    Slots = 1
    MaxEvents <- MCEvents
    Drains <- MCDrains
    Nobody = Nobody
INVARIANTS
    TypeOK
    
    RepeatsAreLostAnswers
PROPERTIES
    ImplementsCommandEffects
    CommandsEnd
    DaemonsEnd
CHECK_DEADLOCK FALSE
