SPECIFICATION Spec
CONSTANTS
  r1 = r1
  r2 = r2
  Requests = {r1}
  Profiles <- RealtimeProfiles
  Quotas = {1}
  Actuals = {}
  Targets = {}
  Fees = {}
  Chunks = {2}
  MaxUsed = 2
  InitUser = 9
  InitToken = 9
  InitSub = 0
  SubTotal = 0
  TrustQuota = 0
  Faults = {}
CHECK_DEADLOCK FALSE
INVARIANT RealtimeChargedOnce
