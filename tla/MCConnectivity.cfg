SPECIFICATION NetFairSpec
CONSTANTS
  joiner = joiner
  shell = shell
  a = a
  b = b
  Callers <- Both
  Networks = {a, b}
  NoNet = NoNet
  MaxEvents = 2
INVARIANTS
  Sound
PROPERTIES
  SavedWasJoined
  LostIsRejoined
