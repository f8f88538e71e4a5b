\* Five frames, a cut at every second key frame, so that both writers change
\* their file.  Packets may be lost and stop() may come at any moment.
SPECIFICATION Spec
CONSTANTS
  NumMetas = 5
  KeyFrames = {1, 2, 4, 5}
  PacketsPerSegment = 2
  Events = {"noPacket", "stop"}
  None = None
INVARIANTS
  StreamInOrder
PROPERTIES
  FileOutlivesItsPackets
\* The writer comes to rest when all metas are written.
CHECK_DEADLOCK FALSE
