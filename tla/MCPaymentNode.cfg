CONSTANTS
  o1 = o1
  h1 = h1
  h2 = h2
  n1 = n1
  Orders = {o1}
  Nodes = {n1}
  Handlers = {h1, h2}
  Kinds = {"epay", "stripe", "creem", "waffo", "pancake", "sub", "subcreem", "substripe"}
  ManualKinds = {"epay", "stripe", "waffo"}
  Amount = 1
  QuotaPerUnit = 2
  MaxPurchase = 1
  MaxFaults = 1
SPECIFICATION FairSpec
INVARIANTS TypeOK CreditOnce OrderLockExclusive
PROPERTIES FinalStatusStays ImplementsLedger PaidIsFulfilled
CHECK_DEADLOCK FALSE
