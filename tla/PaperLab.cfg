CONSTANTS
  MaxQty = 2
  Stride = 20
  OpeningBars = 2
  ExitMinute = 4
  Latency = 1
  EntryLife = 2
  ExitLife = 2
  Cases <- MCCases
  Session = 7
  Horizon = 25
  MaxFaults = 2
SPECIFICATION FairSpec
CHECK_DEADLOCK FALSE
INVARIANTS
  OnlyGivenUpBarsFail
  ExposureBounded
  NoneLeftBehind
  NoFillAfterStop
  OneEntryPerDay
  NoLookAhead
  FinishedRunPassesAudit
  TimeExitCovers
PROPERTIES
  HistoryIsPermanent
  ImplementsOrderProtocol
  RunEnds
