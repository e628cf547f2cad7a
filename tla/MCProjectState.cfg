SPECIFICATION Spec
CONSTANTS
  s1 = s1 s2 = s2 p1 = p1 w1 = w1 t1 = t1 home = home known = known picked = picked
  Samples = {s1, s2}
  Libraries = {p1}
  Waves = {w1}
  Takes = {t1}
  Length <- LengthValue
  Assets <- AssetsValue
  Unencodable = {s2}
  Places = {home, known, picked}
  KnownRoots = {known}
  Huge = {}
  None = None
  Absent = Absent
  Home = home
  MaxLoads = 2
  MaxEdits = 1
  MaxMoves = 2
  MaxSaves = 1
  MaxSpent = 5
PROPERTIES ReopenGivesBack FailedPresetRollsBack RestoreSwaps NoPartialInstrument
CHECK_DEADLOCK FALSE
