SPECIFICATION PartsSpec
CONSTANTS
  cli = cli
  auto = auto
  Values = {0, 1}
  Absent = Absent
  MaxLinks = 2
  MaxGapEvents = 2
  Themes = {"midnight", "amber"}
  MaxResets = 1
INVARIANTS
  StoreSound
  BleSound
PROPERTIES
  BackOnAir
  ThemeSettles
