SPECIFICATION FilesSpec
CONSTANTS
  Unresolved = Unresolved
  Key = Key
  Variables = {Key}
  Main = "main"
  Saved = "saved"
  Files = {"main", "part", "saved"}
  Lines <- SomeLines
  AudioFiles <- SomeAudio
  Notes <- TwoKeys
  MaxVoices = 3
  MaxCursors = 4
  Offset <- HashOffset
  Stride <- HashStride
  MaxLines = 3
  MaxImports = 2
  MaxPlays = 2
  Damaged = Damaged
  Unreadable = Unreadable
  Root = "root"
  BaseNote = 125
  MaxSlices = 5
  MinSlice = 4
  MaxBacktrack = 6
  Documents <- SomeDocuments
  Waves <- SomeWaves
  Folders <- SomeFolders
  Capacity <- SomeCapacity
  SavedPreset = SavedPreset
  NoDocument = NoDocument
  Sequels <- SomeSequels
  MaxLoads = 2
  MaxSaves = 2
INVARIANTS InheritanceIsNearest RoundTripKeepsZones OrderedPlaysEveryZone SavedPresetReopens ZonesPlayTheirFiles
CHECK_DEADLOCK FALSE
