---------------------------- MODULE TaskService ----------------------------
(***************************************************************************)
(* What a thread pool promises to those who post: a bounded number of      *)
(* tasks waits, a bounded number runs, and a task that was taken runs      *)
(* once.  In which order tasks are started is not promised.                *)
(***************************************************************************)
EXTENDS Integers, FiniteSets

CONSTANTS Tasks, QueueSize, Crew

VARIABLES waiting, inWork, finished

taskVars == <<waiting, inWork, finished>>

Init == waiting = {} /\ inWork = {} /\ finished = {}

Post(t) ==
  /\ t \notin waiting \cup inWork \cup finished
  /\ Cardinality(waiting) < QueueSize
  /\ waiting' = waiting \cup {t}
  /\ UNCHANGED <<inWork, finished>>

Start(t) ==
  /\ t \in waiting
  /\ Cardinality(inWork) < Crew
  /\ waiting' = waiting \ {t}
  /\ inWork' = inWork \cup {t}
  /\ UNCHANGED finished

Finish(t) ==
  /\ t \in inWork
  /\ inWork' = inWork \ {t}
  /\ finished' = finished \cup {t}
  /\ UNCHANGED waiting

Next == \E t \in Tasks : Post(t) \/ Start(t) \/ Finish(t)

Spec == Init /\ [][Next]_taskVars
=============================================================================
