CONSTANTS
  Feeds = {"f1", "f2"}
  Cap = 1
  BaseDelay = 1
  MaxDelay = 2
  Kinds = {"bar", "invalid"}
SPECIFICATION FairSpec
CHECK_DEADLOCK FALSE
INVARIANTS
  OneConnector
  NothingAfterLoss
PROPERTIES
  DroppedEnds
  NeverStuck
