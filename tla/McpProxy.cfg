CONSTANTS
    MaxLines = 2
    MaxFrames = 3
    Room = 1
SPECIFICATION FairSpec
INVARIANTS
    RecordedAsHeard
PROPERTIES
    ClientEOFEndsCommand
CHECK_DEADLOCK FALSE
