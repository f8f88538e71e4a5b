----------------------------- MODULE ThreadPool -----------------------------
(***************************************************************************)
(* asyncThreadPool (src/src/utils/asyncThreadPool.cpp, with the posting    *)
(* functions of src/include/utils/asyncThreadPool.h): client threads post  *)
(* tasks into a bounded queue, workers run them, a manager adds workers    *)
(* under load and retires them when they are idle, and another thread      *)
(* stops the pool.  Each task is posted by a thread of its own, runs to    *)
(* its end and posts nothing itself.                                       *)
(***************************************************************************)
EXTENDS Integers, Sequences, FiniteSets, SequencesExt

CONSTANTS
  Tasks,        (* the tasks, one posting thread each                        *)
  Workers,      (* the worker objects that may exist at the same time        *)
  MinThreads, MaxThreads, MaxQueueSize,
  Events,       (* what may happen besides: see AllEvents                    *)
  None          (* no task                                                   *)

AllEvents == {"idle",   \* kIdleThreshold passes for a worker
              "stop"}   \* stop() is called

ASSUME ThreadPoolAssumption ==
  /\ None \notin Tasks
  /\ MinThreads \in Nat \ {0} /\ MaxThreads \in Nat /\ MinThreads <= MaxThreads
  /\ IsFiniteSet(Workers) /\ Cardinality(Workers) = MaxThreads
  /\ MaxQueueSize \in Nat \ {0}
  /\ Events \subseteq AllEvents

VARIABLES
  running, tasks, active,  \* running_, tasks_ (in no order), activeTasks_
  workers,                 \* workers_, by lastActiveTime, the oldest first ...
  stale,                   \* ... of which so many are beyond kIdleThreshold
  stopFlag,                \* the workers with stopFlag
  wpc, wtask,              \* the workers: program counter, task in hand
  ppc, done,               \* the posting threads; the tasks that have run
  mpc, toStop,             \* the manager: program counter, whom to retire
  spc                      \* the thread that calls stop()

poolVars    == <<tasks, active, workers, stale, stopFlag>>
workerVars  == <<wpc, wtask>>
managerVars == <<mpc, toStop>>
vars == <<running, poolVars, workerVars, ppc, done, managerVars, spc>>

Members == ToSet(workers)

(* The constructor starts minThreads_ workers and the manager.  Until its  *)
(* thread runs, the lastActiveTime of a worker is the clock's epoch.       *)
Init ==
  /\ running = TRUE /\ tasks = {} /\ active = 0
  /\ workers \in {ws \in [1 .. MinThreads -> Workers] : \A i, j \in 1 .. MinThreads : ws[i] = ws[j] => i = j}
  /\ stale = MinThreads /\ stopFlag = {}
  /\ wpc = [w \in Workers |-> IF w \in Members THEN "starting" ELSE "none"]
  /\ wtask = [w \in Workers |-> None]
  /\ ppc = [t \in Tasks |-> "posting"] /\ done = {}
  /\ mpc = "sleeping" /\ toStop = {}
  /\ spc = "idle"

-----------------------------------------------------------------------------
(* Condition variables.  A thread tests its predicate and falls asleep     *)
(* while it holds queueMtx_ ("blocking").                                  *)

MutexFree ==
  /\ \A w \in Workers : wpc[w] # "blocking"
  /\ \A t \in Tasks : ppc[t] # "blocking"

(* notify_all on workerCv_. *)
AllAwake == [w \in Workers |-> IF wpc[w] = "asleep" THEN "fetching" ELSE wpc[w]]

(* notify_one on workerCv_ and queueNotFullCv_: any one that sleeps. *)
NotifyWorker ==
  IF \E w \in Workers : wpc[w] = "asleep"
  THEN \E w \in Workers : wpc[w] = "asleep" /\ wpc' = [wpc EXCEPT ![w] = "fetching"]
  ELSE UNCHANGED wpc

NotifyPoster ==
  IF \E t \in Tasks : ppc[t] = "asleep"
  THEN \E t \in Tasks : ppc[t] = "asleep" /\ ppc' = [ppc EXCEPT ![t] = "waking"]
  ELSE UNCHANGED ppc

PosterGoto(t, from, to) ==
  /\ ppc[t] = from
  /\ ppc' = [ppc EXCEPT ![t] = to]

WorkerGoto(w, from, to) ==
  /\ wpc[w] = from
  /\ wpc' = [wpc EXCEPT ![w] = to]

-----------------------------------------------------------------------------
(* Posting: enqueue and post wait for room, try_enqueue and try_post do    *)
(* not.                                                                    *)

(* Mutant of HasRoom: one task more than the queue may hold.               *)
HasRoomForOneMore == Cardinality(tasks) <= MaxQueueSize

HasRoom == Cardinality(tasks) < MaxQueueSize

Enqueue(t) ==
  /\ MutexFree
  /\ running /\ HasRoom
  /\ ppc[t] \in {"posting", "waking"}
  /\ ppc' = [ppc EXCEPT ![t] = "posted"]
  /\ tasks' = tasks \cup {t}
  /\ NotifyWorker
  /\ UNCHANGED <<running, active, workers, stale, stopFlag, wtask, done, managerVars, spc>>

(* The pool has stopped, or there is no room for a caller that won't wait. *)
Refuse(t) ==
  /\ MutexFree
  /\ \/ ~running /\ ppc[t] \in {"posting", "waking"}
     \/ ~HasRoom /\ ppc[t] = "posting"
  /\ ppc' = [ppc EXCEPT ![t] = "refused"]
  /\ UNCHANGED <<running, poolVars, workerVars, done, managerVars, spc>>

AwaitRoom(t) ==
  /\ MutexFree
  /\ running /\ ~HasRoom
  /\ ppc[t] \in {"posting", "waking"}
  /\ ppc' = [ppc EXCEPT ![t] = "blocking"]
  /\ UNCHANGED <<running, poolVars, workerVars, done, managerVars, spc>>

PosterSleep(t) ==
  /\ PosterGoto(t, "blocking", "asleep")
  /\ UNCHANGED <<running, poolVars, workerVars, done, managerVars, spc>>

-----------------------------------------------------------------------------
(* worker.                                                                 *)

(* Mutant of Discharged: running_ is not looked at.                        *)
DischargedByFlag(w) == w \in stopFlag

(* The worker has to leave.                                                *)
Discharged(w) == ~running \/ w \in stopFlag

(* lastActiveTime of w becomes now; a worker that has been retired is not  *)
(* in workers_ any more.                                                   *)
Refresh(w) ==
  IF w \in Members
  THEN /\ workers' = Append(SelectSeq(workers, LAMBDA x : x # w), w)
       /\ stale' = IF \E i \in 1 .. stale : workers[i] = w THEN stale - 1 ELSE stale
  ELSE UNCHANGED <<workers, stale>>

WorkerStart(w) ==
  /\ MutexFree
  /\ WorkerGoto(w, "starting", "looping")
  /\ Refresh(w)
  /\ UNCHANGED <<running, tasks, active, stopFlag, wtask, ppc, done, managerVars, spc>>

WorkerLoop(w) ==
  /\ WorkerGoto(w, "looping", IF Discharged(w) THEN "exited" ELSE "fetching")
  /\ UNCHANGED <<running, poolVars, wtask, ppc, done, managerVars, spc>>

WorkerFetch(w) ==
  /\ MutexFree
  /\ wpc[w] = "fetching"
  /\ ~Discharged(w) /\ tasks # {}
  /\ wpc' = [wpc EXCEPT ![w] = "counting"]
  /\ \E t \in tasks : wtask' = [wtask EXCEPT ![w] = t] /\ tasks' = tasks \ {t}
  /\ Refresh(w)
  /\ UNCHANGED <<running, active, stopFlag, ppc, done, managerVars, spc>>

WorkerWait(w) ==
  /\ MutexFree
  /\ Discharged(w) \/ tasks = {}
  /\ WorkerGoto(w, "fetching", IF Discharged(w) THEN "exited" ELSE "blocking")
  /\ UNCHANGED <<running, poolVars, wtask, ppc, done, managerVars, spc>>

WorkerSleep(w) ==
  /\ WorkerGoto(w, "blocking", "asleep")
  /\ UNCHANGED <<running, poolVars, wtask, ppc, done, managerVars, spc>>

(* activeTasks_ is raised after the mutex has been released.               *)
WorkerCount(w) ==
  /\ WorkerGoto(w, "counting", "running")
  /\ active' = active + 1
  /\ UNCHANGED <<running, tasks, workers, stale, stopFlag, wtask, ppc, done, managerVars, spc>>

(* The task ends, with an exception or without.                            *)
WorkerDone(w) ==
  /\ WorkerGoto(w, "running", "telling")
  /\ active' = active - 1
  /\ done' = done \cup {wtask[w]}
  /\ wtask' = [wtask EXCEPT ![w] = None]
  /\ UNCHANGED <<running, tasks, workers, stale, stopFlag, ppc, managerVars, spc>>

(* Only now is a thread that waits for room told, and without the mutex.   *)
WorkerTell(w) ==
  /\ WorkerGoto(w, "telling", "looping")
  /\ NotifyPoster
  /\ UNCHANGED <<running, poolVars, wtask, done, managerVars, spc>>

(* kIdleThreshold passes for the worker that was active the longest ago of *)
(* those for which it has not passed yet.                                  *)
BecomeIdle ==
  /\ "idle" \in Events
  /\ stale < Len(workers)
  /\ stale' = stale + 1
  /\ UNCHANGED <<running, tasks, active, workers, stopFlag, workerVars, ppc, done, managerVars, spc>>

-----------------------------------------------------------------------------
(* managerThreadFunc and adjustThreads.                                    *)

Smaller(a, b) == IF a < b THEN a ELSE b
Larger(a, b) == IF a > b THEN a ELSE b

Demand == Cardinality(tasks) + active

Desired == Smaller(MaxThreads, Larger(MinThreads, Demand))

(* How many of the workers beyond kIdleThreshold are to go.                *)
Removable ==
  Smaller(Smaller(Len(workers) - Desired, Len(workers) - MinThreads), stale)

(* managerThreadFunc looks at running_ and only then enters adjustThreads. *)
ManagerWake ==
  /\ mpc = "sleeping"
  /\ mpc' = IF running THEN "adjusting" ELSE "exited"
  /\ UNCHANGED <<running, poolVars, workerVars, ppc, done, toStop, spc>>

(* New workers are entered into workers_ and started; the two are one step *)
(* here, since nobody looks at a worker that has no thread yet.            *)
ManagerGrow ==
  /\ MutexFree
  /\ mpc = "adjusting"
  /\ mpc' = "sleeping"
  /\ Desired > Len(workers)
  /\ \E new \in SUBSET {w \in Workers : wpc[w] = "none"} :
       /\ Cardinality(new) = Desired - Len(workers)
       /\ workers' = workers \o SetToSeq(new)
       /\ wpc' = [w \in Workers |-> IF w \in new THEN "starting" ELSE wpc[w]]
  /\ UNCHANGED <<running, tasks, active, stale, stopFlag, wtask, ppc, done, toStop, spc>>

LowLoad ==
  /\ Desired < Len(workers) /\ Len(workers) > MinThreads
  /\ Demand * 2 <= Len(workers)

(* Under low load the workers whose last task is the longest ago are       *)
(* flagged and leave workers_.                                             *)
ManagerShrink ==
  /\ MutexFree
  /\ mpc = "adjusting"
  /\ LowLoad /\ Removable > 0
  /\ toStop' = {workers[i] : i \in 1 .. Removable}
  /\ stopFlag' = stopFlag \cup toStop'
  /\ workers' = SubSeq(workers, Removable + 1, Len(workers))
  /\ stale' = stale - Removable
  /\ mpc' = "notifying"
  /\ UNCHANGED <<running, tasks, active, workerVars, ppc, done, spc>>

(* There is nothing to adjust.                                             *)
ManagerKeep ==
  /\ MutexFree
  /\ mpc = "adjusting"
  /\ mpc' = "sleeping"
  /\ Desired <= Len(workers)
  /\ ~(LowLoad /\ Removable > 0)
  /\ UNCHANGED <<running, poolVars, workerVars, ppc, done, toStop, spc>>

(* Mutant of ManagerNotify: nobody is told.                                *)
ManagerNotifyNobody ==
  /\ mpc = "notifying"
  /\ mpc' = "joining"
  /\ UNCHANGED <<running, poolVars, workerVars, ppc, done, toStop, spc>>

ManagerNotify ==
  /\ mpc = "notifying"
  /\ mpc' = "joining"
  /\ wpc' = AllAwake
  /\ UNCHANGED <<running, poolVars, wtask, ppc, done, toStop, spc>>

(* The manager joins them, however long their tasks take.                  *)
ManagerJoin ==
  /\ mpc = "joining"
  /\ \A w \in toStop : wpc[w] = "exited"
  /\ mpc' = "sleeping"
  /\ toStop' = {}
  /\ stopFlag' = stopFlag \ toStop
  /\ wpc' = [w \in Workers |-> IF w \in toStop THEN "none" ELSE wpc[w]]
  /\ UNCHANGED <<running, tasks, active, workers, stale, wtask, ppc, done, spc>>

-----------------------------------------------------------------------------
(* stop.  The flag is cleared and everybody notified without the mutex.    *)

StopBegin ==
  /\ "stop" \in Events
  /\ spc = "idle"
  /\ spc' = "notifying"
  /\ running' = FALSE
  /\ UNCHANGED <<poolVars, workerVars, ppc, done, managerVars>>

StopNotify ==
  /\ spc = "notifying"
  /\ spc' = "joining"
  /\ wpc' = AllAwake
  /\ ppc' = [t \in Tasks |-> IF ppc[t] = "asleep" THEN "waking" ELSE ppc[t]]
  /\ UNCHANGED <<running, poolVars, wtask, done, managerVars>>

(* The manager and then every worker in workers_ is joined.                *)
StopJoined ==
  /\ spc = "joining"
  /\ mpc = "exited"
  /\ \A w \in Members : wpc[w] = "exited"
  /\ spc' = "stopped"
  /\ stopFlag' = stopFlag \cup Members
  /\ workers' = <<>> /\ stale' = 0
  /\ UNCHANGED <<running, tasks, active, workerVars, ppc, done, managerVars>>

-----------------------------------------------------------------------------
Poster(t) == Enqueue(t) \/ Refuse(t) \/ AwaitRoom(t) \/ PosterSleep(t)

Worker(w) ==
  \/ WorkerStart(w) \/ WorkerLoop(w)
  \/ WorkerFetch(w) \/ WorkerWait(w) \/ WorkerSleep(w)
  \/ WorkerCount(w) \/ WorkerDone(w) \/ WorkerTell(w)

Manager ==
  \/ ManagerWake \/ ManagerGrow \/ ManagerShrink \/ ManagerKeep
  \/ ManagerNotify \/ ManagerJoin

Stop == StopNotify \/ StopJoined

Next ==
  \/ \E t \in Tasks : Poster(t)
  \/ \E w \in Workers : Worker(w)
  \/ BecomeIdle
  \/ Manager
  \/ StopBegin \/ Stop

Spec == Init /\ [][Next]_vars

(* Every thread runs on: a task comes to its end, a posting thread that is *)
(* not asleep goes on, and the manager wakes up every MANAGERINTERVAL.     *)
Fairness ==
  /\ \A t \in Tasks : WF_vars(Poster(t))
  /\ \A w \in Workers : WF_vars(Worker(w))
  /\ WF_vars(Manager)
  /\ WF_vars(Stop)

LiveSpec == Spec /\ Fairness
-----------------------------------------------------------------------------
(* Properties.                                                             *)

(* Every variable has its type; activeTasks_ never counts more tasks than  *)
(* there are workers to run them, nor wraps below zero.                    *)
TypeOK ==
  /\ running \in BOOLEAN /\ tasks \subseteq Tasks /\ active \in 0 .. Cardinality(Workers)
  /\ workers \in Seq(Workers) /\ stale \in 0 .. Len(workers) /\ stopFlag \subseteq Workers
  /\ wpc \in [Workers -> {"none", "starting", "looping", "fetching", "blocking",
                          "asleep", "counting", "running", "telling", "exited"}]
  /\ wtask \in [Workers -> Tasks \cup {None}]
  /\ ppc \in [Tasks -> {"posting", "blocking", "asleep", "waking", "posted", "refused"}]
  /\ done \subseteq Tasks
  /\ mpc \in {"sleeping", "adjusting", "notifying", "joining", "exited"} /\ toStop \subseteq Workers
  /\ spc \in {"idle", "notifying", "joining", "stopped"}

(* In the end every task that was posted has run, whichever worker the     *)
(* notification reached and whoever was being retired, and no thread waits *)
(* for room in the queue for ever, unless the pool is stopped.             *)
PostedIsRun ==
  <>[](running => \A t \in Tasks : (ppc[t] = "posted" => t \in done) /\ ppc[t] # "asleep")

(* stop() joins the manager and the workers, unless one of them was        *)
(* testing its predicate when the notification passed.                     *)
StopJoins ==
  spc = "joining" /\ (\A w \in Workers : wpc[w] \notin {"blocking", "asleep"}) ~> spc = "stopped"

(* adjustThreads retires sleeping threads only (asyncThreadPool.cpp:134).  *)
RetiresIdleOnly == mpc = "notifying" => \A w \in toStop : wpc[w] # "running"

-----------------------------------------------------------------------------
(* What the pool promises to those who post, whoever runs, waits, starts   *)
(* or is retired inside: a task is queued, started and ended once, and     *)
(* neither the queue nor the crew exceeds its size.                        *)

Service == INSTANCE TaskService WITH
  QueueSize <- MaxQueueSize,
  Crew      <- MaxThreads,
  waiting   <- tasks,
  inWork    <- {wtask[w] : w \in Workers} \ {None},
  finished  <- done

(* Every step of the pool is a step of TaskService or changes nothing a    *)
(* poster could tell.                                                      *)
ImplementsTasks == Service!Spec
=============================================================================
