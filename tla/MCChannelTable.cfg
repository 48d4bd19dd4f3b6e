CONSTANTS
  Ids = {1, 2, 3}
  NewIds = {3}
  OffIds = {1}
  KeyIds = {2}
  PageSize = 1
  Pages = {1, 2}
  Wants = {"on", "off", "gone", "test", "edit", "copy"}
  MaxActs = 3
SPECIFICATION FairSpec
INVARIANTS TypeOK ShowsWhatIsAsked DeletedGone
PROPERTIES SpinnerStops
CHECK_DEADLOCK FALSE
