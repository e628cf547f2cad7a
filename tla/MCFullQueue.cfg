SPECIFICATION PathSpec
CONSTANTS
  Slots = 3
  MaxEvents = 4
  MaxPanics = 1
  MaxPreviews = 1
INVARIANTS NewestIsKept
