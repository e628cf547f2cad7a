SPECIFICATION Spec
CONSTANTS
  MaxSamples = 3
  BlockSizes = {2}
  MaxTakes = 2
  Delays = {TRUE}
  Junk = Junk
INVARIANTS WriterHasStorage
CHECK_DEADLOCK FALSE
