CONSTANTS
  SYMBOLS <- MCSymbols
  BAR = 1
  TTL = 2
  STALE = 3
  RESET_AFTER = 2
  CHECK_EVERY = 1
SPECIFICATION FairSpec
PROPERTIES
  SessionHeals
  OutagesTold
