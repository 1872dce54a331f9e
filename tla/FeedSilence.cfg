CONSTANTS
  Feeds = {"f1", "f2"}
  Cap = 1
  BaseDelay = 1
  MaxDelay = 1
  Kinds = {"bar"}
SPECIFICATION FairSpec
CHECK_DEADLOCK FALSE
PROPERTIES
  SilenceEnds
