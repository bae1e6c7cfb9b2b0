SPECIFICATION FairSpec
CONSTANTS
  h1 = h1
  h2 = h2
  h3 = h3
  h4 = h4
  NoTask = NoTask
  NoHandle = NoHandle
  Boot = Boot
  Tasks <- ThreeSlots
  NPrio = 2
  Quantum = 2
  Handles <- ThreeHandles
  BootList <- ServiceAndJob
  JobPrio = 1
  AppDeletes = TRUE
PROPERTIES
  TasksStart
