\* Everything that may go wrong: segments that cannot be opened, packets that
\* never come or have no data, and stop() at any moment.
SPECIFICATION LiveSpec
CONSTANTS
  NumMetas = 3
  KeyFrames = {1, 2, 3}
  PacketsPerSegment = 1
  Events = {"noPacket", "openFails", "noData", "stop"}
  None = None
PROPERTIES
  AcceptedIsReturned
  StopDrains
\* The writer comes to rest when all metas are written.
CHECK_DEADLOCK FALSE
