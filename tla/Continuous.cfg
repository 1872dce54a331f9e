CONSTANTS
  MaxQty = 1
  Stride = 8
  OpeningBars = 2
  ExitMinute = 3
  Latency = 1
  EntryLife = 2
  ExitLife = 1
  Session = 6
  Contracts = {"MNQU6", "MNQZ6"}
  Impulses = {0, 1}
  Risks = {"none", "loss"}
  Horizon = 7
  MaxFaults = 2
SPECIFICATION FairSpec
CHECK_DEADLOCK FALSE
INVARIANTS
  ScenariosInStep
  NoEntryAcrossGap
  ReconciliationPasses
  LotsStayOnContract
PROPERTIES
  NoEntryOnHaltedDay
  HaltReachesBoth
  OpportunityTaken
  HardHaltFreezes
  ExitRetried
  ReceiptsFinished
