SPECIFICATION Spec
CONSTANTS
  Users = {u1, u2, u3}
  Commanders = {u1}
  Skipped = {"world", "emulation"}
  ChainLength = 2
  WaiterBudget = 1
  MaxTargets = 2
  MaxAttaches = 2
INVARIANTS TypeOK OneCommandAtATime NothingStalls
PROPERTIES InitializationEnds
CHECK_DEADLOCK FALSE
