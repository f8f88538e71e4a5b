----------------------------- MODULE SafeQueue -----------------------------
(***************************************************************************)
(* The bounded queue of owned pointers: a ring under one mutex, two        *)
(* condition variables, a policy for a full ring, and a shutdown that sets *)
(* its flag and notifies without the mutex.                                *)
(***************************************************************************)
EXTENDS Integers, Sequences, FiniteSets

CONSTANTS
  Threads,          \* each may enqueue or dequeue
  Limit,            \* the capacity
  MaxItems,         \* bound: items offered
  FullPolicies,     \* among "oldest", "newest", "block", "throw"
  Empty             \* a null pointer

VARIABLES
  onFull, offered,
  ring, head_, tail_, size_, shutdown_,
  place,           \* where every thread is
  mutex,            \* who holds it across two steps
  closing,          \* where shutdown() is
  missed            \* a thread began to wait after it had missed the shutdown

ringVars == <<ring, head_, tail_, size_>>
safeVars == <<onFull, offered, ringVars, shutdown_, place, mutex, closing, missed>>

Free == [who |-> Empty]

Init ==
  /\ onFull \in FullPolicies /\ offered = 0
  /\ ring = [i \in 0..Limit - 1 |-> Empty] /\ head_ = 0 /\ tail_ = 0 /\ size_ = 0
  /\ shutdown_ = FALSE /\ closing = "open" /\ mutex = Free
  /\ place = [t \in Threads |-> "out"]
  /\ missed = FALSE

Goes(t, at) == place' = [place EXCEPT ![t] = at]

Notified(at) == {t \in Threads : place[t] = at}

\* Wakes one of the threads that sleep at a place, and moves t.
NotifyOneAnd(t, to, asleep, awake) ==
  IF Notified(asleep) = {} THEN Goes(t, to)
  ELSE \E u \in Notified(asleep) : place' = [place EXCEPT ![t] = to, ![u] = awake]

(***************************************************************************)
(* enqueue                                                                 *)
(***************************************************************************)
Room == size_ < Limit

\* The item goes to the tail; in a full ring that is where the oldest one was.
Put(t) ==
  /\ ring' = [ring EXCEPT ![tail_] = offered + 1] /\ offered' = offered + 1
  /\ tail_' = (tail_ + 1) % Limit
  /\ IF Room THEN head_' = head_ /\ size_' = size_ + 1
     ELSE head_' = (head_ + 1) % Limit /\ size_' = size_
  /\ NotifyOneAnd(t, "out", "emptyAsleep", "take")

Refuse(t) == Goes(t, "out") /\ UNCHANGED <<ringVars, offered>>

EnqueueCall(t) ==
  /\ place[t] = "out" /\ mutex = Free /\ offered < MaxItems
  /\ \/ ~shutdown_ /\ (Room \/ onFull = "oldest") /\ Put(t) /\ UNCHANGED mutex
     \/ shutdown_ /\ Refuse(t) /\ UNCHANGED mutex
     \/ ~shutdown_ /\ ~Room /\ onFull \in {"newest", "throw"} /\ Refuse(t) /\ UNCHANGED mutex
     \/ /\ ~shutdown_ /\ ~Room /\ onFull = "block"
        /\ Goes(t, "fullFound") /\ mutex' = [who |-> t]
        /\ UNCHANGED <<ringVars, offered>>
  /\ UNCHANGED <<onFull, shutdown_, closing, missed>>

\* The predicate was tested, now the mutex is given up.
Sleep(t, found, asleep, past) ==
  /\ place[t] = found /\ mutex = [who |-> t] /\ mutex' = Free
  /\ Goes(t, asleep)
  /\ missed' = (missed \/ closing \in past)
  /\ UNCHANGED <<onFull, offered, ringVars, shutdown_, closing>>

\* After a wakeup: another round of the loop, or the end of it.
EnqueueAgain(t) ==
  /\ place[t] = "put" /\ mutex = Free
  /\ \/ shutdown_ /\ Refuse(t) /\ UNCHANGED mutex
     \/ ~shutdown_ /\ Room /\ Put(t) /\ UNCHANGED mutex
     \/ /\ ~shutdown_ /\ ~Room /\ Goes(t, "fullFound") /\ mutex' = [who |-> t]
        /\ UNCHANGED <<ringVars, offered>>
  /\ UNCHANGED <<onFull, shutdown_, closing, missed>>

(***************************************************************************)
(* dequeue, try_dequeue, clear                                             *)
(***************************************************************************)
Take(t) ==
  /\ size_ > 0
  /\ ring' = [ring EXCEPT ![head_] = Empty]
  /\ head_' = (head_ + 1) % Limit /\ size_' = size_ - 1 /\ tail_' = tail_
  /\ NotifyOneAnd(t, "out", "fullAsleep", "put")
  /\ UNCHANGED offered

DequeueCall(t) ==
  /\ place[t] \in {"out", "take"} /\ mutex = Free
  /\ \/ Take(t) /\ UNCHANGED mutex
     \/ size_ = 0 /\ shutdown_ /\ Refuse(t) /\ UNCHANGED mutex
     \/ /\ size_ = 0 /\ ~shutdown_ /\ Goes(t, "emptyFound") /\ mutex' = [who |-> t]
        /\ UNCHANGED <<ringVars, offered>>
  /\ UNCHANGED <<onFull, shutdown_, closing, missed>>

TryDequeue(t) ==
  /\ place[t] = "out" /\ mutex = Free /\ Take(t)
  /\ UNCHANGED <<onFull, mutex, shutdown_, closing, missed>>

\* The items stay in the ring, out of reach, until they are overwritten.
Clear ==
  /\ mutex = Free /\ size_ > 0
  /\ head_' = 0 /\ tail_' = 0 /\ size_' = 0
  /\ place' = [t \in Threads |-> IF place[t] = "fullAsleep" THEN "put" ELSE place[t]]
  /\ UNCHANGED <<onFull, offered, ring, mutex, shutdown_, closing, missed>>

(***************************************************************************)
(* shutdown: the flag, and two notifications, without the mutex            *)
(***************************************************************************)
ShutdownFlag ==
  /\ closing = "open" /\ closing' = "empty" /\ shutdown_' = TRUE
  /\ UNCHANGED <<onFull, offered, ringVars, place, mutex, missed>>

(* Mutant of ShutdownNotify: the threads that wait for room are forgotten.  *)
ShutdownNotifyEmptyOnly ==
  /\ closing \in {"empty", "full"}
  /\ closing' = IF closing = "empty" THEN "full" ELSE "closed"
  /\ place' = [t \in Threads |->
       IF closing = "empty" /\ place[t] = "emptyAsleep" THEN "take" ELSE place[t]]
  /\ UNCHANGED <<onFull, offered, ringVars, shutdown_, mutex, missed>>

ShutdownNotify ==
  /\ closing \in {"empty", "full"}
  /\ closing' = IF closing = "empty" THEN "full" ELSE "closed"
  /\ place' = [t \in Threads |->
       IF closing = "empty" /\ place[t] = "emptyAsleep" THEN "take"
       ELSE IF closing = "full" /\ place[t] = "fullAsleep" THEN "put"
       ELSE place[t]]
  /\ UNCHANGED <<onFull, offered, ringVars, shutdown_, mutex, missed>>

\* A thread that is inside the queue goes on.
Continue(t) ==
  \/ Sleep(t, "fullFound", "fullAsleep", {"closed"})
  \/ Sleep(t, "emptyFound", "emptyAsleep", {"full", "closed"})
  \/ EnqueueAgain(t)
  \/ place[t] = "take" /\ DequeueCall(t)

Next ==
  \/ ShutdownFlag \/ ShutdownNotify \/ Clear
  \/ \E t \in Threads : EnqueueCall(t) \/ DequeueCall(t) \/ TryDequeue(t) \/ Continue(t)

Spec == Init /\ [][Next]_safeVars

Fairness ==
  WF_safeVars(ShutdownNotify) /\ \A t \in Threads : SF_safeVars(Continue(t))

LiveSpec == Spec /\ Fairness

\* After shutdown() every thread comes back, unless one went to sleep between
\* the flag, which it had tested before, and the notification.
WaitersLeave ==
  closing = "closed" ~> missed \/ \A t \in Threads : place[t] = "out"
=============================================================================
