CONSTANTS
  Codes = {0, 1}
  MaxJournal = 2
  MaxWrites = 1
  MaxFaults = 2
SPECIFICATION Spec
INVARIANTS
  CoherentCopy
  RestingCopy
PROPERTIES
  OnlyAmendedCodeWrites
  StartsOnlyWhenAllowed
