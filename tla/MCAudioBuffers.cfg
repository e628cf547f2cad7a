SPECIFICATION BufferSpec
CONSTANTS
  MaxSamples = 3
  BlockSizes = {2}
  MaxTakes = 2
  Delays = {FALSE, TRUE}
  Junk = Junk
  Total = 5
  Window = 2
  PageCount = 2
  Generations = 3
  Addresses = {a1, a2, a3, a4, a5}
  NoState = NoState
  Servicers = {"worker", "message"}
  MaxAge = 2
  MaxEdits = 1
INVARIANTS TakeIsWhole SerialPointersAreOwned
PROPERTIES LoadIsSelection WaitEnds SettledVoiceIsServed
CHECK_DEADLOCK FALSE
