\* Three tasks for a queue of one and for one or two workers.
SPECIFICATION LiveSpec
CONSTANTS
  Tasks = {t1, t2, t3}
  Workers = {w1, w2}
  MinThreads = 1
  MaxThreads = 2
  MaxQueueSize = 1
  Events = {"idle", "stop"}
  None = None
PROPERTIES
  ImplementsTasks
  PostedIsRun
  StopJoins
\* The pool comes to rest when all tasks have run.
CHECK_DEADLOCK FALSE
