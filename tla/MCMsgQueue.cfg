SPECIFICATION Spec
CONSTANTS
  a = a
  b = b
  irq = irq
  NoItem = NoItem
  Users = {a, b}
  Isrs = {irq}
  Cap = 2
  MaxItems = 2
INVARIANTS
  TypeOK
  RingExact
  NothingLost
PROPERTY
  ImplementsChannel
SYMMETRY Symmetry
