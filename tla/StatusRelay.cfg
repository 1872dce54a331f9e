CONSTANTS
  Idents = {"first"}
  Counters = {"receipts"}
  FreshFor = 1
  Ahead = 0
  Skews = {0, 1}
  MaxSkew = 1
  MaxTime = 3
  MaxCount = 1
  MaxPosts = 1
SPECIFICATION Spec
INVARIANTS
  AcceptedIsKept
  HealthIsRecent
