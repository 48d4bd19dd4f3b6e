SPECIFICATION FairSpec
CONSTANTS
  w1 = w1
  w2 = w2
  n1 = n1
  n2 = n2
  Workers = {w1, w2}
  Home <- TwoNodes
  Deltas <- ChargeOrRefund
  Start = 2
  Seconds = 2
  BatchUpdateEnabled = TRUE
  MaxChanges = 2
  MaxFaults = 1
CHECK_DEADLOCK FALSE
INVARIANT TypeOK
INVARIANT WalletExact
PROPERTY CopyFollows
PROPERTY CopyConverges
