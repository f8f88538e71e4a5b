\* Three frames compete for two slots; the third brings an external buffer.
\* No encoding fails, nobody gives up and no reset runs (MaxGeneration = 2).
SPECIFICATION LiveSpec
CONSTANTS
  Frames = {f1, f2, f3}
  ExternalFrames = {f3}
  SlotCount = 2
  MaxGeneration = 2
  Events = {"spuriousCas", "endOfEncode"}
  None = None
  Absent = Absent
INVARIANTS
  ExclusiveOwner
PROPERTIES
  ImplementsService
  SubmittedIsDelivered
\* The system comes to rest when every frame is done and the worker sleeps.
CHECK_DEADLOCK FALSE
