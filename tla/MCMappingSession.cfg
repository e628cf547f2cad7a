CONSTANTS
  wave1 = wave1
  wave2 = wave2
  None = None
  MaxKey = 3
  Samples <- MCSamples
  Length <- MCLength
  Programs <- MCPrograms
  Keys = {0, 3}
  Points = {1, 3}
  NewPath = "new"
  SavedPath = "saved"
  MaxZones = 3
  MaxEntries = 2
  MaxEdits = 2
SPECIFICATION Spec
INVARIANTS ZonesAreWellFormed UndoGivesBack
PROPERTIES SliceEditsKeepAudio
CHECK_DEADLOCK FALSE
