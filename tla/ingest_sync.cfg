SPECIFICATION Spec
CONSTANTS
    d1 = d1
    d2 = d2
    m1 = m1
    k1 = k1
    blue = blue
    green = green
    old_text = old_text
    new_text = new_text
    back_text = back_text
    plain_text = plain_text
    tagged_text = tagged_text
    blank_text = blank_text
    s1 = s1
    s2 = s2
    None = None
    Docs = {d1, d2, m1}
    Keys = {k1}
    TextKeys = {}
    Values = {blue, green}
    ValidAt <- Always
    Contents = {old_text, new_text, back_text, plain_text, blank_text}
    Asserts <- MCAsserts
    Syncs = {s1, s2}
    Deleting = {s1}
    FilePaths = {d1, d2}
    Rank <- PathOrder
    Body <- MCBody
    Blank <- MCBlank
    Supersedes <- MCSupersedes
    SupersededBy <- MCSupersededBy
    Statements <- TopicStatement
    AtFirst = {None, old_text, new_text, back_text, plain_text}
    MaxEdits = 1
    MaxVersions = 3
INVARIANTS
    TypeOK
    IndexFollowsArchive
    ReferencedFilesComeFirst
PROPERTIES
    ArchivedFilesAreMirrored
    PresentFilesAreKept
