SPECIFICATION Spec
CONSTANTS
  MaxGeneration = 4
  MaxStamp = 1
  None = None
INVARIANTS CancelledLeavesNoTrace OneAnswer
PROPERTIES LoadKeepsPlayed LoadsAreAnswered
