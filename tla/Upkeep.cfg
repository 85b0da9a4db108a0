CONSTANTS
    NoKey = NoKey
    f1 = f1
    f2 = f2
    x = x
    y = y
    Fields = {f1, f2}
    Plain = {x, y}
    Edits <- MCEdits
    Answers <- MCAnswers
    Recorded <- MCRecorded
    MaxLength = 3
SPECIFICATION Spec
INVARIANTS
    ConformanceSound
    ConformanceAccepts
PROPERTIES
    RekeyRepairs
    KeepsReplay
    MergeKeepsBodies
CHECK_DEADLOCK FALSE
