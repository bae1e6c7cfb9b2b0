SPECIFICATION Spec
CONSTANTS
  gui = gui
  cli = cli
  sys = sys
  display = display
  NoTask = NoTask
  Tasks <- MCTasks
  NPrio = 8
  Quantum = 10
  Base <- MCBase
  Mutexes <- OneMutex
  MaxDepth = 2
INVARIANTS
  TypeOK
  OwnerExact
  BoostHasReason
PROPERTY
  ImplementsLock
