SPECIFICATION Spec
CONSTANTS
  r1 = r1
  r2 = r2
  Plans = {"vip"}
  Plan <- RenewPlan
  Requests = {}
  Amounts = {}
  Deltas = {}
  BaseGroup = "default"
  MaxSubs = 2
  MaxTime = 6
  MaxEnded = 2
  MaxTx = 1
  MaxRaces = 1
CHECK_DEADLOCK FALSE
INVARIANT GroupRestored
