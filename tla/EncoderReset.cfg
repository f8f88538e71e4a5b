\* One slot, two frames, one reset, every event but a spurious
\* compare-exchange failure.
SPECIFICATION LiveSpec
CONSTANTS
  Frames = {f1, f2}
  ExternalFrames = {f2}
  SlotCount = 1
  MaxGeneration = 3
  Events = {"encodeFails", "giveUp", "allocFails", "shutdown"}
  None = None
  Absent = Absent
INVARIANTS
  NoSlotLost
  RebuildExcludesEncoding
PROPERTIES
  ControlReturns
\* The system comes to rest when every frame is done and the worker sleeps.
CHECK_DEADLOCK FALSE
