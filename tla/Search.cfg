CONSTANTS
  Slip = 1
  Bars <- MCBars
  Emas <- MCEmas
  Ranges <- MCRanges
  Posts <- MCPosts
  TargetRR = 2
  MaxStop = 12
  Horizon = 4
SPECIFICATION Spec
INVARIANT SearchMirrors
CHECK_DEADLOCK FALSE
