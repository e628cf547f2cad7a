SPECIFICATION StreamSpec
CONSTANTS
  Total = 5
  Window = 2
  PageCount = 2
  Generations = 3
  Addresses = {a1, a2, a3, a4, a5}
  NoState = NoState
  Servicers = {"worker", "message"}
  MaxAge = 2
  MaxEdits = 1
INVARIANTS PointersAreOwned
