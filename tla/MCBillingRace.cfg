SPECIFICATION Spec
CONSTANTS
  r1 = r1
  r2 = r2
  Requests = {r1, r2}
  Profiles <- RacingProfiles
  Quotas = {0, 2}
  Actuals = {3}
  Targets = {3, 4}
  Fees = {1}
  Chunks = {}
  MaxUsed = 0
  InitUser = 3
  InitToken = 3
  InitSub = 1
  SubTotal = 5
  TrustQuota = 0
  Faults = {}
SYMMETRY Symmetry
CHECK_DEADLOCK FALSE
INVARIANT ExactCharge
INVARIANT TokenOverdraftBounded
