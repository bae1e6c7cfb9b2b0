SPECIFICATION RadioSpec
CONSTANTS
  MaxBleEvents = 2
INVARIANTS
  RadioSound
PROPERTIES
  HelloReaches
