SPECIFICATION Spec
CONSTANTS
  t1 = t1
  t2 = t2
  p1 = p1
  p2 = p2
  f1 = f1
  Tasks = {t1, t2}
  Pollers = {p1, p2}
  Fetchers = {}
  Platform <- Video
  Quotas = {0, 2}
  Actuals = {0, 3}
  SubmitTimes <- OldAndNew
  MaxOverRefund = 0
  Faults = {"db", "crash"}
SYMMETRY Symmetry
INVARIANT BilledAtMostOnce
INVARIANT FailedTaskRefunded
PROPERTY TerminalIsFinal
