SPECIFICATION FairSpec
CONSTANTS
  r1 = r1
  r2 = r2
  Plans = {"daily", "custom"}
  Plan <- UpgradePlan
  Requests = {r1, r2}
  Amounts = {2}
  Deltas = {1}
  BaseGroup = "default"
  MaxSubs = 2
  MaxTime = 3
  MaxEnded = 1
  MaxTx = 2
  MaxRaces = 1
CHECK_DEADLOCK FALSE
INVARIANT TypeOK
INVARIANT PeriodQuota
INVARIANT NeverOvercharged
INVARIANT KeepsUpgrade
PROPERTY DueExpires
