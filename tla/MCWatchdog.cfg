SPECIFICATION FairSpec
CONSTANTS
  gui = gui
  ota = ota
  sys = sys
  cli = cli
  NoName = NoName
  Names <- MCNames
  Timeout <- MCTimeout
  Fed = {gui, sys}
  Jobs = {ota}
  Scanners = {sys, cli}
  NSlots = 2
  MaxScan = 1
  MaxAge = 3
  MaxScore = 5
  Penalty = 2
  Good = 4
  Fair = 3
  Poor = 2
  RecoverEvery = 1
INVARIANTS
  TypeOK
  OnePass
  ModeMatchesScore
PROPERTIES
  StallLeavesRecord
  OverdueIsMarked
  StallIsShown
