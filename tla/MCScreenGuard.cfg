SPECIFICATION Spec
CONSTANTS
  Reports <- TwoReports
  MaxFaults = 1
INVARIANT
  OneInLvgl
CHECK_DEADLOCK FALSE
