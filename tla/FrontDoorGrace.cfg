CONSTANTS
    Reqs = {r1, r2}
    Routes = {chat}
SPECIFICATION DoorSpec
INVARIANTS
    GraceIsGiven
CHECK_DEADLOCK FALSE
