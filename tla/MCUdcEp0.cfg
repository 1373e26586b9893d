\* Both kinds of function answer the same way except for strings.
SPECIFICATION FairSpec
CONSTANTS
  Strings = FALSE
  Asked = {"device", "string", "status", "bad_status", "address", "conf", "out"}
  MaxSetups = 4
  MaxResets = 2
  MaxGivesUp = 1
CHECK_DEADLOCK FALSE
INVARIANTS
  Safety
  AnswersWhatIsAsked
PROPERTIES
  TransfersEnd
