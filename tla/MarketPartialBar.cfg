CONSTANTS
  SYMBOLS <- OneSymbol
  BAR = 5
  TTL = 2
  STALE = 6
  RESET_AFTER = 3
  CHECK_EVERY = 5
SPECIFICATION Spec
INVARIANT OnlyCompletedBars
