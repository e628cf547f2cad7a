SPECIFICATION Spec
CONSTANTS
  None = None
  Notes <- Keys2
  MaxVoices = 2
  Capacity = 3
  Reserve = 1
  BlockSizes = {1, 2, 3}
  Prepared = 2
  AttackZones <- SmallAttack
  ReleaseZones <- SmallRelease
  Settings <- AllSettings
  Programs = {TRUE, FALSE}
CONSTRAINT Region
INVARIANTS ChokeGroupsExclusive VoicesFollowProgram NoStuckNotes
PROPERTIES NoteOnSounds ReleasesAreKept
