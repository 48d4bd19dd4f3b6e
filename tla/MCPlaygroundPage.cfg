CONSTANTS
  MaxReq = 2
  MaxSaves = 2
  MaxClicks = 4
  SpentFirst = 2
  ReqKinds = {"sse", "fetch"}
SPECIFICATION FairSpec
INVARIANTS TypeOK OwnTextOnly StoredWhenDone ThrowsOnlyWhenCleared
PROPERTIES LateEventsHarmless AnswerEnds
CHECK_DEADLOCK FALSE
