\* stop() is called while the client is inside pushMeta.
SPECIFICATION Spec
CONSTANTS
  NumMetas = 2
  KeyFrames = {1}
  PacketsPerSegment = 2
  Events = {"stop"}
  None = None
INVARIANTS
  NothingLeftBehind
CHECK_DEADLOCK FALSE
