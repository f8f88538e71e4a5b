\* A pool of two buffers and two threads, one task waiting in it, one raw
\* frame in the queue at a time.
SPECIFICATION LiveSpec
CONSTANTS
  PoolSize = 2
  MaxPending = 2
  PostQueue = 1
  MaxRaw = 1
  MaxTokens = 1
  ByHand = {}
INVARIANTS
  TasksAreAccounted
PROPERTIES
  RoomIsUsed
\* The converter comes to rest.
CHECK_DEADLOCK FALSE
