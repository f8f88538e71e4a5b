\* The queue of the pool holds one task.  The server may be stopped and started
\* again.
SPECIFICATION LiveSpec
CONSTANTS
  c1 = c1
  c2 = c2
  Clients = {c1, c2}
  Leavers = {c2}
  NumRequests <- MCNumRequests
  CloseRequests <- MCCloseRequests
  QueueSize = 1
  Crew = 2
  MaxStarts = 2
  Events = {"stop", "idle"}
INVARIANTS
  AnswersAreOwn
PROPERTIES
  EveryRequestAnswered
  StopJoins
\* The server comes to rest when nobody asks for anything.
CHECK_DEADLOCK FALSE
