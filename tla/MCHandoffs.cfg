SPECIFICATION HandoffSpec
CONSTANTS
  MaxJobs = 4
  None = None
  Slots = 3
  MaxEvents = 4
  MaxPanics = 2
  MaxPreviews = 2
INVARIANTS OnlyNewestProceeds LatchOutlivesNotes
PROPERTIES NoLostWakeup ShutdownReturns ImplementsService QueueUnlessOverlapped PanicIsTaken
