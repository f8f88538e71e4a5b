\* The worker recycles a slot whose encoding failed, another frame acquires it,
\* and then the client that still holds the meta releases it too.
SPECIFICATION LiveSpec
CONSTANTS
  Frames = {f1, f2, f3}
  ExternalFrames = {}
  SlotCount = 2
  MaxGeneration = 2
  Events = {"encodeFails", "giveUp"}
  None = None
  Absent = Absent
PROPERTIES
  LateReleaseIsIgnored
CHECK_DEADLOCK FALSE
