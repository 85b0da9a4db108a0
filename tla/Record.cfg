CONSTANTS
    Calls = {c1, c2}
    Responses <- MCResponses
    NoResponse = NoResponse
SPECIFICATION FairSpec
INVARIANTS
    HeardIsRecorded
    GzipWholeOrExplained
PROPERTIES
    CaptureOnce
    CloseEndsCapture
CHECK_DEADLOCK FALSE
