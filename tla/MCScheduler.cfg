SPECIFICATION Spec
CONSTANTS
  t1 = t1
  t2 = t2
  t3 = t3
  NoTask = NoTask
  Tasks <- MCTasks
  NPrio <- MCNPrio
  Quantum <- MCQuantum
  Requests <- MCRequests
  Delays <- MCDelays
  MaxTick <- MCMaxTick
INVARIANTS
  TypeOK
  ReadyQueuesExact
  SleepersInOrder
PROPERTY
  ImplementsFifo
SYMMETRY Symmetry
