SPECIFICATION FairSpec
CONSTANTS
  r1 = r1
  r2 = r2
  Requests = {r1}
  Profiles <- AllProfiles
  Quotas = {0, 2}
  Actuals = {1, 3}
  Targets = {3}
  Fees = {1}
  Chunks = {1, 2}
  MaxUsed = 3
  InitUser = 4
  InitToken = 4
  InitSub = 1
  SubTotal = 6
  TrustQuota = 2
  Faults = {"db", "crash", "ack", "save"}
CHECK_DEADLOCK FALSE
INVARIANT TypeOK
INVARIANT NeverOverRefunded
INVARIANT ExactCharge
INVARIANT OneSource
PROPERTY EventuallyBilled
