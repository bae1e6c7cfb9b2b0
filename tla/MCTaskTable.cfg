SPECIFICATION Spec
CONSTANTS
  h1 = h1
  h2 = h2
  h3 = h3
  h4 = h4
  NoTask = NoTask
  NoHandle = NoHandle
  Boot = Boot
  Tasks <- FiveSlots
  NPrio = 2
  Quantum = 2
  Handles <- FourHandles
  BootList <- ThreeServices
  JobPrio = 1
  AppDeletes = FALSE
INVARIANTS
  TypeOK
  ReadyListsExact
  ReservationsOwned
  LiveOwned
  RollbackClean
  CurrentOccupied
PROPERTIES
  SlotLifecycle
SYMMETRY Permutable
