CONSTANTS
    NoKey = NoKey
    h1 = h1
    h2 = h2
    m1 = m1
    Keys = {h1, h2, m1}
    Methods = {"POST"}
    Segments = {"v1", "messages", "responses"}
    Clients = {a, b}
    Files <- MCFiles
    Requests <- MCRequests
    FaultSets <- MCFaultSets
    MaxCalls = 4
SPECIFICATION Spec
INVARIANTS
    OwnRecording
    RetriesOutlastFaults
PROPERTIES
    VerifyExact
    IsTape
SYMMETRY ClientSymmetry
CHECK_DEADLOCK FALSE
