-------------------------- MODULE ThreadPoolProofs --------------------------
(***************************************************************************)
(* What holds of asyncThreadPool for any number of tasks and workers and   *)
(* any bounds: it implements TaskService, and activeTasks_ is the number   *)
(* of workers that run a task.                                             *)
(***************************************************************************)
EXTENDS ThreadPool, FiniteSetTheorems, TLAPS

-----------------------------------------------------------------------------
(* A worker has a task in hand.                                            *)
Busy(w) == wpc[w] \in {"counting", "running"}

Runners == {w \in Workers : wpc[w] = "running"}

WorkerAt == {"none", "starting", "looping", "fetching", "blocking",
             "asleep", "counting", "running", "telling", "exited"}
PosterAt == {"posting", "blocking", "asleep", "waking", "posted", "refused"}

(* The types the argument needs. *)
TaskTypes ==
  /\ tasks \subseteq Tasks /\ done \subseteq Tasks
  /\ wpc \in [Workers -> WorkerAt]
  /\ wtask \in [Workers -> Tasks \cup {None}]
  /\ ppc \in [Tasks -> PosterAt]

(* A task that is anywhere has been posted; it is in the queue, in one     *)
(* worker's hand or has run, and it is in the hand of a busy worker only.  *)
TaskPlaces ==
  /\ \A t \in tasks \cup done : ppc[t] = "posted"
  /\ tasks \cap done = {}
  /\ \A w \in Workers : Busy(w) <=> wtask[w] # None
  /\ \A w \in Workers : wtask[w] # None => wtask[w] \notin tasks \cup done /\ ppc[wtask[w]] = "posted"
  /\ \A w, x \in Workers : wtask[w] = wtask[x] /\ wtask[w] # None => w = x

(* activeTasks_ counts the workers that run a task, so it neither wraps    *)
(* below zero nor leaves the manager with a load that is not there.        *)
ActiveCounts == active = Cardinality(Runners)

TaskInv == TaskTypes /\ TaskPlaces

InHand == {wtask[w] : w \in Workers} \ {None}

-----------------------------------------------------------------------------
(* The instance counts as the pool does. *)
LEMMA SameCardinality ==
  ASSUME NEW S
  PROVE  Service!Cardinality(S) = Cardinality(S)
BY DEF Cardinality, Service!Cardinality

(* While a worker has no task, fewer tasks than MaxThreads are in hand.    *)
LEMMA IdleWorkerLeavesRoom ==
  ASSUME TaskTypes, NEW w \in Workers, wtask[w] = None
  PROVE  Cardinality(InHand) < MaxThreads
<1> DEFINE Others == Workers \ {w}
           Held   == {wtask[x] : x \in Others}
           f      == [x \in Others |-> wtask[x]]
<1>1. IsFiniteSet(Workers) /\ Cardinality(Workers) = MaxThreads /\ MaxThreads \in Nat
  BY ThreadPoolAssumption
<1>2. IsFiniteSet(Others) /\ Cardinality(Others) = MaxThreads - 1
  BY <1>1, FS_RemoveElement
<1>3. f \in Surjection(Others, Held)
  BY DEF Surjection
<1>4. IsFiniteSet(Held) /\ Cardinality(Held) <= Cardinality(Others)
  BY <1>2, <1>3, FS_Surjection
<1>5. InHand \in SUBSET Held
  BY DEF InHand
<1>6. IsFiniteSet(InHand) /\ Cardinality(InHand) <= Cardinality(Held)
  BY <1>4, <1>5, FS_Subset
<1>7. Cardinality(InHand) \in Nat /\ Cardinality(Held) \in Nat
  BY <1>4, <1>6, FS_CardinalityType
<1> QED BY <1>1, <1>2, <1>4, <1>6, <1>7

-----------------------------------------------------------------------------
(* Steps that move no task: threads change their place, but no worker      *)
(* begins or ends its work and no thread takes back what it posted.        *)
Quiet ==
  /\ UNCHANGED <<tasks, done, wtask>>
  /\ wpc' \in [Workers -> WorkerAt] /\ ppc' \in [Tasks -> PosterAt]
  /\ \A w \in Workers : Busy(w)' <=> Busy(w)
  /\ \A t \in Tasks : ppc[t] = "posted" => ppc'[t] = "posted"

LEMMA QuietKeeps ==
  ASSUME TaskInv, Quiet
  PROVE  TaskInv'
<1>1. TaskTypes'
  BY DEF TaskInv, TaskTypes, Quiet
<1>2. TaskPlaces'
  BY Zenon DEF TaskInv, TaskTypes, TaskPlaces, Quiet
<1> QED BY <1>1, <1>2 DEF TaskInv

(* Threads that wait are woken or fall asleep; nobody posts.               *)
LEMMA PostersAreQuiet ==
  ASSUME TaskInv, NEW t \in Tasks, Refuse(t) \/ AwaitRoom(t) \/ PosterSleep(t)
  PROVE  Quiet
<1> USE DEF TaskInv, TaskTypes
<1>1. UNCHANGED <<tasks, done, wpc, wtask>>
  BY DEF Refuse, AwaitRoom, PosterSleep, PosterGoto, poolVars, workerVars
<1>2. ppc[t] # "posted" /\ \E p \in PosterAt : ppc' = [ppc EXCEPT ![t] = p]
  BY DEF Refuse, AwaitRoom, PosterSleep, PosterGoto, PosterAt
<1> QED BY <1>1, <1>2 DEF Quiet, Busy

LEMMA WorkersAreQuiet ==
  ASSUME TaskInv, NEW w \in Workers,
         \/ WorkerStart(w) \/ WorkerLoop(w) \/ WorkerWait(w) \/ WorkerSleep(w)
         \/ WorkerCount(w) \/ WorkerTell(w)
  PROVE  Quiet
<1> USE DEF TaskInv, TaskTypes
<1>1. UNCHANGED <<tasks, done, wtask>>
  BY DEF WorkerStart, WorkerLoop, WorkerWait, WorkerSleep, WorkerCount, WorkerTell, poolVars
<1>2. \E p \in WorkerAt :
        /\ wpc' = [wpc EXCEPT ![w] = p]
        /\ wpc[w] \in {"counting", "running"} <=> p \in {"counting", "running"}
  BY DEF WorkerStart, WorkerLoop, WorkerWait, WorkerSleep, WorkerCount, WorkerTell, WorkerGoto, WorkerAt
<1>3. ppc' = ppc \/ \E t \in Tasks : ppc[t] = "asleep" /\ ppc' = [ppc EXCEPT ![t] = "waking"]
  BY DEF WorkerStart, WorkerLoop, WorkerWait, WorkerSleep, WorkerCount, WorkerTell, NotifyPoster
<1>4. ppc' \in [Tasks -> PosterAt] /\ \A t \in Tasks : ppc[t] = "posted" => ppc'[t] = "posted"
  BY <1>3 DEF PosterAt
<1>5. wpc' \in [Workers -> WorkerAt] /\ \A x \in Workers : Busy(x)' <=> Busy(x)
  BY <1>2 DEF Busy
<1> QED BY <1>1, <1>4, <1>5 DEF Quiet

(* The manager starts, retires and joins workers that have no task ...     *)
LEMMA ManagerIsQuiet ==
  ASSUME TaskInv, Manager \/ BecomeIdle
  PROVE  Quiet
<1> USE DEF TaskInv, TaskTypes
<1>1. UNCHANGED <<tasks, done, wtask, ppc>>
  BY DEF Manager, ManagerWake, ManagerGrow, ManagerShrink, ManagerKeep, ManagerNotify, ManagerJoin,
         BecomeIdle, poolVars, workerVars
<1>2. \/ wpc' = wpc
      \/ \E new \in SUBSET {w \in Workers : wpc[w] = "none"} :
           wpc' = [w \in Workers |-> IF w \in new THEN "starting" ELSE wpc[w]]
      \/ wpc' = AllAwake
      \/ /\ \A w \in toStop : wpc[w] = "exited"
         /\ wpc' = [w \in Workers |-> IF w \in toStop THEN "none" ELSE wpc[w]]
  BY DEF Manager, ManagerWake, ManagerGrow, ManagerShrink, ManagerKeep, ManagerNotify, ManagerJoin,
         BecomeIdle, workerVars
<1>3. wpc' \in [Workers -> WorkerAt] /\ \A w \in Workers : Busy(w)' <=> Busy(w)
  BY <1>2 DEF AllAwake, Busy, WorkerAt
<1> QED BY <1>1, <1>3 DEF Quiet

(* ... and so does the thread that stops the pool.                         *)
LEMMA StopIsQuiet ==
  ASSUME TaskInv, StopBegin \/ Stop
  PROVE  Quiet
<1> USE DEF TaskInv, TaskTypes
<1>1. UNCHANGED <<tasks, done, wtask>>
  BY DEF StopBegin, Stop, StopNotify, StopJoined, poolVars, workerVars
<1>2. wpc' = wpc \/ wpc' = AllAwake
  BY DEF StopBegin, Stop, StopNotify, StopJoined, workerVars
<1>3. ppc' = ppc \/ ppc' = [t \in Tasks |-> IF ppc[t] = "asleep" THEN "waking" ELSE ppc[t]]
  BY DEF StopBegin, Stop, StopNotify, StopJoined
<1>4. wpc' \in [Workers -> WorkerAt] /\ \A w \in Workers : Busy(w)' <=> Busy(w)
  BY <1>2 DEF AllAwake, Busy, WorkerAt
<1>5. ppc' \in [Tasks -> PosterAt] /\ \A t \in Tasks : ppc[t] = "posted" => ppc'[t] = "posted"
  BY <1>3 DEF PosterAt
<1> QED BY <1>1, <1>4, <1>5 DEF Quiet

-----------------------------------------------------------------------------
(* The three steps that move a task.  A task that is posted was nowhere.   *)
LEMMA EnqueuePosts ==
  ASSUME TaskInv, NEW t \in Tasks, Enqueue(t)
  PROVE  TaskInv' /\ Service!Post(t)
<1> USE DEF TaskInv
<1>1. /\ HasRoom
      /\ ppc[t] # "posted" /\ ppc' = [ppc EXCEPT ![t] = "posted"]
      /\ tasks' = tasks \cup {t}
      /\ UNCHANGED <<wtask, done>>
  BY DEF Enqueue
<1>2. wpc' = wpc \/ \E w \in Workers : wpc[w] = "asleep" /\ wpc' = [wpc EXCEPT ![w] = "fetching"]
  BY DEF Enqueue, NotifyWorker
<1>3. wpc' \in [Workers -> WorkerAt] /\ \A w \in Workers : Busy(w)' <=> Busy(w)
  BY <1>2 DEF Busy, WorkerAt, TaskTypes
<1>4. t \notin tasks \cup InHand \cup done
  BY <1>1 DEF TaskPlaces, InHand
<1>5. TaskTypes'
  BY <1>1, <1>3 DEF TaskTypes, PosterAt
<1>6. TaskPlaces'
  <2>1. \A x \in tasks' \cup done' : ppc'[x] = "posted"
    BY <1>1 DEF TaskPlaces, TaskTypes
  <2>2. tasks' \cap done' = {}
    BY <1>1, <1>4 DEF TaskPlaces
  <2>3. \A w \in Workers : Busy(w)' <=> wtask'[w] # None
    BY <1>1, <1>3, Zenon DEF TaskPlaces
  <2>4. \A w \in Workers : wtask[w] # None => wtask[w] # t
    BY <1>4 DEF InHand
  <2>5. \A w \in Workers : wtask'[w] # None => wtask'[w] \notin tasks' \cup done' /\ ppc'[wtask'[w]] = "posted"
    BY <1>1, <2>4 DEF TaskPlaces, TaskTypes
  <2>6. \A w, x \in Workers : wtask'[w] = wtask'[x] /\ wtask'[w] # None => w = x
    BY <1>1 DEF TaskPlaces
  <2> QED BY <2>1, <2>2, <2>3, <2>5, <2>6 DEF TaskPlaces
<1>7. Service!Post(t)
  BY <1>1, <1>4, SameCardinality DEF Service!Post, HasRoom, InHand
<1> QED BY <1>5, <1>6, <1>7

(* A task that is started leaves the queue for the hand of a worker that   *)
(* had none.                                                               *)
LEMMA FetchStarts ==
  ASSUME TaskInv, NEW w \in Workers, WorkerFetch(w)
  PROVE  TaskInv' /\ \E t \in Tasks : Service!Start(t)
<1> USE DEF TaskInv
<1>1. PICK t \in tasks : wtask' = [wtask EXCEPT ![w] = t] /\ tasks' = tasks \ {t}
  BY DEF WorkerFetch
<1>2. /\ wpc[w] = "fetching" /\ wpc' = [wpc EXCEPT ![w] = "counting"]
      /\ UNCHANGED <<ppc, done>>
  BY DEF WorkerFetch
<1>3. t \in Tasks /\ t # None
  BY <1>1, ThreadPoolAssumption DEF TaskTypes
<1>4. wtask[w] = None
  BY <1>2 DEF TaskPlaces, Busy
<1>5. wtask'[w] = t /\ \A x \in Workers \ {w} : wtask'[x] = wtask[x] /\ (Busy(x)' <=> Busy(x))
  BY <1>1, <1>2 DEF TaskTypes, Busy
<1>6. TaskTypes'
  BY <1>1, <1>2, <1>3 DEF TaskTypes, WorkerAt
<1>7. TaskPlaces'
  <2>1. \A x \in tasks' \cup done' : ppc'[x] = "posted"
    BY <1>1, <1>2 DEF TaskPlaces
  <2>2. tasks' \cap done' = {}
    BY <1>1, <1>2 DEF TaskPlaces
  <2>3. Busy(w)'
    BY <1>2 DEF Busy, TaskTypes
  <2>4. \A x \in Workers : Busy(x)' <=> wtask'[x] # None
    BY <1>3, <1>5, <2>3, Zenon DEF TaskPlaces
  <2>5. \A x \in Workers : wtask'[x] # None => wtask'[x] \notin tasks' \cup done' /\ ppc'[wtask'[x]] = "posted"
    BY <1>1, <1>2, <1>5 DEF TaskPlaces
  <2>6. \A x, y \in Workers : wtask'[x] = wtask'[y] /\ wtask'[x] # None => x = y
    BY <1>1, <1>5 DEF TaskPlaces
  <2> QED BY <2>1, <2>2, <2>4, <2>5, <2>6 DEF TaskPlaces
<1>8. InHand' = InHand \cup {t}
  BY <1>3, <1>4, <1>5 DEF InHand
<1>9. Cardinality(InHand) < MaxThreads
  BY <1>4, IdleWorkerLeavesRoom
<1>10. Service!Start(t)
  BY <1>1, <1>2, <1>8, <1>9, SameCardinality DEF Service!Start, InHand
<1> QED BY <1>3, <1>6, <1>7, <1>10

(* A task that has run leaves the one hand it was in.                      *)
LEMMA DoneFinishes ==
  ASSUME TaskInv, NEW w \in Workers, WorkerDone(w)
  PROVE  TaskInv' /\ \E t \in Tasks : Service!Finish(t)
<1> USE DEF TaskInv
<1>1. /\ wpc[w] = "running" /\ wpc' = [wpc EXCEPT ![w] = "telling"]
      /\ done' = done \cup {wtask[w]} /\ wtask' = [wtask EXCEPT ![w] = None]
      /\ UNCHANGED <<tasks, ppc>>
  BY DEF WorkerDone, WorkerGoto
<1>2. PICK t \in Tasks : t = wtask[w] /\ t # None
  BY <1>1 DEF TaskPlaces, TaskTypes, Busy
<1>3. wtask'[w] = None /\ \A x \in Workers \ {w} : wtask'[x] = wtask[x] /\ (Busy(x)' <=> Busy(x))
  BY <1>1 DEF TaskTypes, Busy
<1>4. \A x \in Workers \ {w} : wtask[x] # t
  BY <1>2 DEF TaskPlaces
<1>5. TaskTypes'
  BY <1>1, <1>2 DEF TaskTypes, WorkerAt
<1>6. TaskPlaces'
  <2>1. \A x \in tasks' \cup done' : ppc'[x] = "posted"
    BY <1>1, <1>2 DEF TaskPlaces
  <2>2. tasks' \cap done' = {}
    BY <1>1, <1>2 DEF TaskPlaces
  <2>3. ~Busy(w)'
    BY <1>1 DEF Busy, TaskTypes
  <2>4. \A x \in Workers : Busy(x)' <=> wtask'[x] # None
    BY <1>3, <2>3, Zenon DEF TaskPlaces
  <2>5. \A x \in Workers : wtask'[x] # None => wtask'[x] \notin tasks' \cup done' /\ ppc'[wtask'[x]] = "posted"
    BY <1>1, <1>3, <1>4 DEF TaskPlaces
  <2>6. \A x, y \in Workers : wtask'[x] = wtask'[y] /\ wtask'[x] # None => x = y
    BY <1>3 DEF TaskPlaces
  <2> QED BY <2>1, <2>2, <2>4, <2>5, <2>6 DEF TaskPlaces
<1>7. t \in InHand /\ InHand' = InHand \ {t}
  BY <1>2, <1>3, <1>4 DEF InHand
<1>8. Service!Finish(t)
  BY <1>1, <1>7 DEF Service!Finish, InHand
<1> QED BY <1>2, <1>5, <1>6, <1>8

-----------------------------------------------------------------------------
LEMMA TaskInit ==
  ASSUME Init
  PROVE  TaskInv /\ Service!Init
<1> USE DEF Init
<1>1. wpc \in [Workers -> WorkerAt] /\ \A w \in Workers : ~Busy(w)
  BY DEF WorkerAt, Busy
<1>2. TaskTypes
  BY <1>1 DEF TaskTypes, PosterAt
<1>3. TaskPlaces
  BY <1>1 DEF TaskPlaces
<1>4. Service!Init
  BY DEF Service!Init
<1> QED BY <1>2, <1>3, <1>4 DEF TaskInv

(* Every step keeps the invariant and is one of the three or one that      *)
(* TaskService cannot tell from no step.                                   *)
LEMMA TaskStep ==
  ASSUME TaskInv, [Next]_vars
  PROVE  TaskInv' /\ [Service!Next]_(Service!taskVars)
<1>1. ASSUME NEW t \in Tasks, Enqueue(t)
      PROVE  TaskInv' /\ Service!Next
  BY <1>1, EnqueuePosts DEF Service!Next
<1>2. ASSUME NEW w \in Workers, WorkerFetch(w)
      PROVE  TaskInv' /\ Service!Next
  BY <1>2, FetchStarts DEF Service!Next
<1>3. ASSUME NEW w \in Workers, WorkerDone(w)
      PROVE  TaskInv' /\ Service!Next
  BY <1>3, DoneFinishes DEF Service!Next
<1>4. ASSUME Quiet
      PROVE  TaskInv' /\ UNCHANGED Service!taskVars
  BY <1>4, QuietKeeps DEF Quiet, Service!taskVars
<1>5. ASSUME UNCHANGED vars
      PROVE  Quiet
  BY <1>5 DEF Quiet, vars, poolVars, workerVars, Busy, TaskInv, TaskTypes
<1> QED BY <1>1, <1>2, <1>3, <1>4, <1>5, PostersAreQuiet, WorkersAreQuiet, ManagerIsQuiet, StopIsQuiet
        DEF Next, Poster, Worker

(* Every behaviour of the pool is one of TaskService: whoever waits,       *)
(* starts or is retired inside, a task is queued, started and ended once,  *)
(* within the sizes of queue and crew (asyncThreadPool.cpp: worker,        *)
(* adjustThreads, stop; asyncThreadPool.h: enqueue, post).                 *)
THEOREM PoolImplementsTasks == Spec => ImplementsTasks
<1>1. Init => TaskInv /\ Service!Init
  BY TaskInit
<1>2. TaskInv /\ [Next]_vars => TaskInv' /\ [Service!Next]_(Service!taskVars)
  BY TaskStep
<1> QED BY <1>1, <1>2, PTL DEF Spec, ImplementsTasks, Service!Spec

-----------------------------------------------------------------------------
(* WorkerCount and WorkerDone raise and lower activeTasks_ with the set of *)
(* those who run; nobody else begins or ends to run.                       *)
LEMMA ActiveStep ==
  ASSUME TaskInv, ActiveCounts, [Next]_vars
  PROVE  ActiveCounts'
<1> USE DEF TaskInv, TaskTypes
<1>1. IsFiniteSet(Runners)
  BY ThreadPoolAssumption, FS_Subset DEF Runners
<1>2. ASSUME NEW w \in Workers, WorkerCount(w)
      PROVE  ActiveCounts'
  <2>1. w \notin Runners /\ Runners' = Runners \cup {w}
    BY <1>2 DEF WorkerCount, WorkerGoto, Runners
  <2>2. active' = active + 1
    BY <1>2 DEF WorkerCount
  <2> QED BY <1>1, <2>1, <2>2, FS_AddElement DEF ActiveCounts
<1>3. ASSUME NEW w \in Workers, WorkerDone(w)
      PROVE  ActiveCounts'
  <2>1. w \in Runners /\ Runners' = Runners \ {w}
    BY <1>3 DEF WorkerDone, WorkerGoto, Runners
  <2>2. active' = active - 1
    BY <1>3 DEF WorkerDone
  <2> QED BY <1>1, <2>1, <2>2, FS_RemoveElement DEF ActiveCounts
<1>4. ASSUME UNCHANGED active, Runners' = Runners
      PROVE  ActiveCounts'
  BY <1>4 DEF ActiveCounts
<1>5. ASSUME NEW t \in Tasks, Poster(t)
      PROVE  ActiveCounts'
  <2>1. UNCHANGED active
    BY <1>5 DEF Poster, Enqueue, Refuse, AwaitRoom, PosterSleep, poolVars
  <2>2. wpc' = wpc \/ \E w \in Workers : wpc[w] = "asleep" /\ wpc' = [wpc EXCEPT ![w] = "fetching"]
    BY <1>5 DEF Poster, Enqueue, NotifyWorker, Refuse, AwaitRoom, PosterSleep, workerVars
  <2>3. Runners' = Runners
    BY <2>2 DEF Runners
  <2> QED BY <1>4, <2>1, <2>3
<1>6. ASSUME NEW w \in Workers, 
             \/ WorkerStart(w) \/ WorkerLoop(w) \/ WorkerFetch(w)
             \/ WorkerWait(w) \/ WorkerSleep(w) \/ WorkerTell(w)
      PROVE  ActiveCounts'
  <2>1. UNCHANGED active
    BY <1>6 DEF WorkerStart, WorkerLoop, WorkerFetch, WorkerWait, WorkerSleep, WorkerTell, poolVars
  <2>2. wpc[w] # "running" /\ \E p \in WorkerAt \ {"running"} : wpc' = [wpc EXCEPT ![w] = p]
    BY <1>6 DEF WorkerStart, WorkerLoop, WorkerFetch, WorkerWait, WorkerSleep, WorkerTell, WorkerGoto, WorkerAt
  <2>3. Runners' = Runners
    BY <2>2 DEF Runners
  <2> QED BY <1>4, <2>1, <2>3
<1>7. ASSUME Manager \/ BecomeIdle \/ StopBegin \/ Stop \/ UNCHANGED vars
      PROVE  ActiveCounts'
  <2>1. UNCHANGED active
    BY <1>7 DEF Manager, ManagerWake, ManagerGrow, ManagerShrink, ManagerKeep, ManagerNotify, ManagerJoin,
                BecomeIdle, StopBegin, Stop, StopNotify, StopJoined, poolVars, vars
  <2>2. \/ wpc' = wpc
        \/ \E new \in SUBSET {w \in Workers : wpc[w] = "none"} :
             wpc' = [w \in Workers |-> IF w \in new THEN "starting" ELSE wpc[w]]
        \/ wpc' = AllAwake
        \/ /\ \A w \in toStop : wpc[w] = "exited"
           /\ wpc' = [w \in Workers |-> IF w \in toStop THEN "none" ELSE wpc[w]]
    BY <1>7 DEF Manager, ManagerWake, ManagerGrow, ManagerShrink, ManagerKeep, ManagerNotify, ManagerJoin,
                BecomeIdle, StopBegin, Stop, StopNotify, StopJoined, workerVars, vars
  <2>3. Runners' = Runners
    BY <2>2 DEF Runners, AllAwake
  <2> QED BY <1>4, <2>1, <2>3
<1> QED BY <1>2, <1>3, <1>5, <1>6, <1>7 DEF Next, Worker

(* activeTasks_ is raised after queueMtx_ has been released and lowered    *)
(* without it, and still it is the number of workers inside a task: it     *)
(* never wraps, and the load adjustThreads reads is at most a step behind  *)
(* (asyncThreadPool.cpp: worker).                                          *)
THEOREM ActiveIsRunning == Spec => []ActiveCounts
<1>1. Init => TaskInv /\ ActiveCounts
  <2> SUFFICES ASSUME Init PROVE ActiveCounts
    BY TaskInit
  <2>1. Runners = {}
    BY DEF Init, Runners
  <2> QED BY <2>1, FS_EmptySet DEF Init, ActiveCounts
<1>2. TaskInv /\ ActiveCounts /\ [Next]_vars => TaskInv' /\ ActiveCounts'
  BY TaskStep, ActiveStep
<1> QED BY <1>1, <1>2, PTL DEF Spec
=============================================================================
