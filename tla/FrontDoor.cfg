CONSTANTS
    Reqs = {r1, r2, r3}
    Routes = {chat, models}
SPECIFICATION DoorFairSpec
INVARIANTS
    FinishedIsSaved
    GateSound
PROPERTIES
    SignalExits
CHECK_DEADLOCK FALSE
