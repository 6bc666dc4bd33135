SPECIFICATION Spec
CONSTANTS
  Steps = 2
  MaxCalls = 4
INVARIANT AdvancesComplete
CHECK_DEADLOCK FALSE
