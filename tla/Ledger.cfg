SPECIFICATION LedgerSpec
CONSTANTS
  Processes = {p, q}
  Scenarios = {"s", "t"}
  Behaviors = {"a", "b"}
  Cut = "cut"
  MaxCalls = 4
INVARIANTS
  LedgerTrue
CHECK_DEADLOCK FALSE
