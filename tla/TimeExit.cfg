CONSTANTS
  MaxQty = 2
  Stride = 20
  OpeningBars = 2
  ExitMinute = 4
  Latency = 1
  EntryLife = 2
  ExitLife = 2
  Cases <- TwoContracts
  Session = 7
  Horizon = 25
  MaxFaults = 2
SPECIFICATION Spec
CHECK_DEADLOCK FALSE
PROPERTIES
  TimeExitSubmitted
