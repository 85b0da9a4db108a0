CONSTANTS
    NoContract = NoContract
    NoFile = NoFile
    Torn = Torn
    p1 = p1
    p2 = p2
    c1 = c1
    Procs = {p1, p2}
    Contracts = {c1}
    InitFiles <- MCInitFiles
    MaxTurns = 2
SPECIFICATION Spec
INVARIANTS
    NoLitter
PROPERTIES
    LandsWhole
    SavesGrow
    ContractSurvives
CHECK_DEADLOCK FALSE
