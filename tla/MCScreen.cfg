SPECIFICATION FairSpec
CONSTANTS
  Reports <- TwoReports
  MaxFaults = 1
INVARIANTS
  TypeOK
  BuffersKept
  PatternGone
PROPERTIES
  FlushAcknowledged
  ReportIsShown
CHECK_DEADLOCK FALSE
