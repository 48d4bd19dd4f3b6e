SPECIFICATION Spec
CONSTANTS
  t1 = t1
  t2 = t2
  p1 = p1
  p2 = p2
  f1 = f1
  Tasks = {t1}
  Pollers = {p1}
  Fetchers = {f1}
  Platform <- Gemini
  Quotas = {2}
  Actuals = {0}
  SubmitTimes <- New
  MaxOverRefund = 0
  Faults = {}
INVARIANT EveryFailureRefunded
