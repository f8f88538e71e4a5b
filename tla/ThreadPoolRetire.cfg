\* Two tasks; no stop().
SPECIFICATION Spec
CONSTANTS
  Tasks = {t1, t2}
  Workers = {w1, w2}
  MinThreads = 1
  MaxThreads = 2
  MaxQueueSize = 2
  Events = {"idle"}
  None = None
INVARIANTS
  RetiresIdleOnly
\* The pool comes to rest when all tasks have run.
CHECK_DEADLOCK FALSE
