---------------------------- MODULE RgaProcessor ----------------------------
(***************************************************************************)
(* The colour converter: a worker thread turns queued raw frames into      *)
(* tasks of a thread pool, a task converts one frame into a buffer of the  *)
(* output pool, and a client takes the result with dump() and gives the    *)
(* buffer back when it destroys the Frame.  One condition variable serves  *)
(* the worker (which waits for room), the client (for a frame) and stop()  *)
(* (for the last task), always with notify_one.                            *)
(***************************************************************************)
EXTENDS ThreadPauser, Sequences, FiniteSets

CONSTANTS
  PoolSize,         \* buffers, and threads of the pool
  MaxPending,       \* config_.maxPendingTasks
  PostQueue,        \* tasks the thread pool keeps waiting
  MaxRaw,           \* bound: raw frames in the queue
  ByHand            \* buffers a client may release while it keeps the Frame

ASSUME RgaAssumption ==
  /\ PoolSize \in Nat \ {0} /\ MaxPending \in Nat \ {0}
  /\ PostQueue \in Nat /\ MaxRaw \in Nat /\ ByHand \subseteq Nat

Indices == 0..PoolSize - 1

VARIABLES
  raw, rawAlive,                    \* the queue of raw frames, held weakly
  running_, stopping_, alive,       \* alive: not yet destroyed
  worker,                           \* workerThreadMain
  inFlightTasks_, readyFrames_,
  asleep,                           \* who waits on taskQueueCv_
  posted,                           \* tasks the pool has not started
  fetching, converting, done,       \* what the threads of the pool do: numbers of tasks,
  failed, telling,                  \* and the buffers they have
  in_use_,
  client, held,                     \* dump(), and the indices of the client's Frames
  stopper, gaveUp,                  \* stop(); its last wait ended with tasks left
  robbed                            \* a client took a wakeup the worker needed

flow == <<raw, rawAlive>>
life == <<running_, stopping_, alive>>
queue == <<inFlightTasks_, readyFrames_>>
tasks == <<fetching, converting, done, failed, telling>>
rgaVars == <<pauserVars, flow, life, worker, queue, asleep, posted, tasks, in_use_,
             client, held, stopper, gaveUp, robbed>>

Init ==
  /\ PauserInit /\ raw = 0 /\ rawAlive = TRUE
  /\ running_ = FALSE /\ stopping_ = FALSE /\ alive = TRUE /\ worker = "none"
  /\ inFlightTasks_ = 0 /\ readyFrames_ = <<>> /\ asleep = {} /\ posted = 0
  /\ fetching = 0 /\ converting = {} /\ done = {} /\ failed = 0 /\ telling = 0
  /\ in_use_ = [i \in Indices |-> FALSE]
  /\ client = "out" /\ held = {} /\ stopper = "idle" /\ gaveUp = FALSE /\ robbed = FALSE

\* Somebody who waits is woken, whoever it is.
NotifyOne ==
  /\ IF asleep = {} THEN UNCHANGED asleep ELSE \E s \in asleep : asleep' = asleep \ {s}
  /\ robbed' = (robbed \/ (worker = "room" /\ {"worker", "client"} \subseteq asleep
                           /\ "client" \notin asleep' /\ readyFrames_ = <<>>))

HasRoom == inFlightTasks_ + Len(readyFrames_) < MaxPending

(***************************************************************************)
(* The worker                                                              *)
(***************************************************************************)
\* The worker is the thread that waits on the pauser.
WorkerPausable ==
  /\ worker = "top"
  /\ IF waiter = "out" THEN running_ /\ WaitCall ELSE WaitTest \/ WaitRead
  /\ worker' = IF waiter # "out" /\ waiter' = "out" THEN "look" ELSE "top"
  /\ UNCHANGED <<flow, life, queue, asleep, posted, tasks, in_use_, client, held, stopper, gaveUp, robbed>>

WorkerEnd ==
  /\ ~running_
  /\ \/ worker = "top" /\ waiter = "out"
     \/ worker \in {"look", "nap"}
     \/ worker = "room" /\ "worker" \notin asleep
  /\ worker' = "over" /\ asleep' = asleep \ {"worker"}
  /\ UNCHANGED <<pauserVars, flow, life, queue, posted, tasks, in_use_, client, held, stopper, gaveUp, robbed>>

\* No queue or no frame: a short wait on the condition variable.
WorkerLook ==
  /\ worker = "look" /\ running_
  /\ IF rawAlive /\ raw > 0 THEN worker' = "room" /\ UNCHANGED asleep
     ELSE worker' = "nap" /\ asleep' = asleep \cup {"worker"}
  /\ UNCHANGED <<pauserVars, flow, life, queue, posted, tasks, in_use_, client, held, stopper, gaveUp, robbed>>

\* It ends by a notification or by its timeout of a few milliseconds.
WorkerWakes ==
  /\ worker = "nap" /\ running_
  /\ worker' = "top" /\ asleep' = asleep \ {"worker"}
  /\ UNCHANGED <<pauserVars, flow, life, queue, posted, tasks, in_use_, client, held, stopper, gaveUp, robbed>>

\* Waiting for room has no timeout.
WorkerRoom ==
  /\ worker = "room" /\ "worker" \notin asleep /\ running_
  /\ IF HasRoom
     THEN inFlightTasks_' = inFlightTasks_ + 1 /\ worker' = "post" /\ UNCHANGED asleep
     ELSE asleep' = asleep \cup {"worker"} /\ UNCHANGED <<inFlightTasks_, worker>>
  /\ UNCHANGED <<pauserVars, flow, life, readyFrames_, posted, tasks, in_use_, client, held, stopper, gaveUp, robbed>>

\* try_post refuses when the queue of the pool is full.
WorkerPost ==
  /\ worker = "post"
  /\ IF posted < PostQueue
     THEN posted' = posted + 1 /\ worker' = "top" /\ UNCHANGED inFlightTasks_
     ELSE inFlightTasks_' = inFlightTasks_ - 1 /\ worker' = "tell" /\ UNCHANGED posted
  /\ UNCHANGED <<pauserVars, flow, life, readyFrames_, asleep, tasks, in_use_, client, held, stopper, gaveUp, robbed>>

WorkerTell ==
  /\ worker = "tell" /\ worker' = "top" /\ NotifyOne
  /\ UNCHANGED <<pauserVars, flow, life, queue, posted, tasks, in_use_, client, held, stopper, gaveUp>>

(***************************************************************************)
(* A task: processOneTask                                                  *)
(***************************************************************************)
busy == fetching + Cardinality(converting) + Cardinality(done) + failed + telling

TaskStart ==
  /\ posted > 0 /\ busy < PoolSize
  /\ posted' = posted - 1 /\ fetching' = fetching + 1
  /\ UNCHANGED <<pauserVars, flow, life, worker, queue, asleep, converting, done, failed,
                 telling, in_use_, client, held, stopper, gaveUp, robbed>>

\* getAvailableBufferIndex, under the mutex of the pool: some index that is not
\* in use (the code tries them round robin).
Allocate(i) ==
  ~in_use_[i] /\ in_use_' = [in_use_ EXCEPT ![i] = TRUE]

\* processInference up to the conversion: three attempts at the queue.  A frame
\* that comes when the processor no longer runs, that does not fit, or for
\* which there is no buffer, is dropped.
TaskFetch ==
  /\ fetching > 0 /\ fetching' = fetching - 1
  /\ raw' = IF raw > 0 THEN raw - 1 ELSE raw
  /\ \/ \E i \in Indices :
          raw > 0 /\ running_ /\ Allocate(i) /\ converting' = converting \cup {i} /\ UNCHANGED failed
     \/ failed' = failed + 1 /\ UNCHANGED <<converting, in_use_>>
  /\ UNCHANGED <<pauserVars, rawAlive, life, worker, queue, asleep, posted, done, telling,
                 client, held, stopper, gaveUp, robbed>>

(* Mutant of TaskConvert: the buffer of a failed conversion is kept.        *)
TaskConvertKeeps(i) ==
  /\ i \in converting /\ converting' = converting \ {i}
  /\ \/ done' = done \cup {i} /\ UNCHANGED <<failed, in_use_>>
     \/ failed' = failed + 1 /\ UNCHANGED <<done, in_use_>>
  /\ UNCHANGED <<pauserVars, flow, life, worker, queue, asleep, posted, fetching, telling,
                 client, held, stopper, gaveUp, robbed>>

\* The conversion succeeds, or the buffer is given back.
TaskConvert(i) ==
  /\ i \in converting /\ converting' = converting \ {i}
  /\ \/ done' = done \cup {i} /\ UNCHANGED <<failed, in_use_>>
     \/ failed' = failed + 1 /\ in_use_' = [in_use_ EXCEPT ![i] = FALSE] /\ UNCHANGED done
  /\ UNCHANGED <<pauserVars, flow, life, worker, queue, asleep, posted, fetching, telling,
                 client, held, stopper, gaveUp, robbed>>

\* The result, if there is one, and the count, under the mutex.
TaskPush ==
  /\ \/ \E i \in done : done' = done \ {i} /\ readyFrames_' = Append(readyFrames_, i)
                          /\ UNCHANGED failed
     \/ failed > 0 /\ failed' = failed - 1 /\ UNCHANGED <<done, readyFrames_>>
  /\ inFlightTasks_' = inFlightTasks_ - 1
  /\ telling' = telling + 1
  /\ UNCHANGED <<pauserVars, flow, life, worker, asleep, posted, fetching, converting,
                 in_use_, client, held, stopper, gaveUp, robbed>>

\* After the mutex was released.
TaskNotify ==
  /\ telling > 0 /\ telling' = telling - 1
  /\ NotifyOne
  /\ UNCHANGED <<pauserVars, flow, life, worker, queue, posted, fetching, converting, done,
                 failed, in_use_, client, held, stopper, gaveUp>>

(***************************************************************************)
(* The client                                                              *)
(***************************************************************************)
DumpCall ==
  /\ client = "out" /\ alive /\ client' = "dump"
  /\ UNCHANGED <<pauserVars, flow, life, worker, queue, asleep, posted, tasks, in_use_, held, stopper, gaveUp, robbed>>

(* Mutant of Dump: a client that takes a frame tells nobody.                *)
DumpSilent ==
  /\ client = "dump" /\ "client" \notin asleep
  /\ IF readyFrames_ # <<>>
     THEN /\ held' = held \cup {Head(readyFrames_)} /\ readyFrames_' = Tail(readyFrames_)
          /\ client' = "out" /\ UNCHANGED asleep
     ELSE /\ IF running_ THEN asleep' = asleep \cup {"client"} /\ UNCHANGED client
             ELSE client' = "out" /\ UNCHANGED asleep
          /\ UNCHANGED <<held, readyFrames_>>
  /\ UNCHANGED <<pauserVars, flow, life, worker, inFlightTasks_, posted, tasks, in_use_, stopper, gaveUp, robbed>>

Dump ==
  /\ client = "dump" /\ "client" \notin asleep
  /\ IF readyFrames_ # <<>>
     THEN /\ held' = held \cup {Head(readyFrames_)} /\ readyFrames_' = Tail(readyFrames_)
          /\ client' = "out" /\ NotifyOne
     ELSE /\ IF running_ THEN asleep' = asleep \cup {"client"} /\ UNCHANGED client
             ELSE client' = "out" /\ UNCHANGED asleep
          /\ UNCHANGED <<held, readyFrames_, robbed>>
  /\ UNCHANGED <<pauserVars, flow, life, worker, inFlightTasks_, posted, tasks, in_use_, stopper, gaveUp>>

\* The deadline: the queue is not looked at again.
DumpTimeout ==
  /\ client = "dump" /\ "client" \in asleep
  /\ asleep' = asleep \ {"client"} /\ client' = "out"
  /\ UNCHANGED <<pauserVars, flow, life, worker, queue, posted, tasks, in_use_, held, stopper, gaveUp, robbed>>

\* releaseBuffer, by the destructor of the Frame or called by hand.
ReleaseBuffer(i) ==
  /\ alive /\ i \in held
  /\ in_use_' = [in_use_ EXCEPT ![i] = FALSE]
  /\ \/ held' = held \ {i}
     \/ i \in ByHand /\ UNCHANGED held
  /\ UNCHANGED <<pauserVars, flow, life, worker, queue, asleep, posted, tasks, client, stopper, gaveUp, robbed>>

\* External: the camera's side of the raw queue.
Feed ==
  /\ rawAlive /\ raw < MaxRaw /\ raw' = raw + 1
  /\ UNCHANGED <<pauserVars, rawAlive, life, worker, queue, asleep, posted, tasks, in_use_, client, held, stopper, gaveUp, robbed>>

Expire ==
  /\ rawAlive /\ rawAlive' = FALSE /\ raw' = 0
  /\ UNCHANGED <<pauserVars, life, worker, queue, asleep, posted, tasks, in_use_, client, held, stopper, gaveUp, robbed>>

(***************************************************************************)
(* start, pause, resume, stop and the destructor                           *)
(***************************************************************************)
\* stopping_ is never reset: a processor is started once.
Start ==
  /\ stopper = "idle" /\ alive /\ ~running_ /\ ~stopping_
  /\ IF paused_ THEN Resume ELSE UNCHANGED pauserVars
  /\ running_' = TRUE /\ worker' = "top"
  /\ UNCHANGED <<flow, stopping_, alive, queue, asleep, posted, tasks, in_use_, client, held, stopper, gaveUp, robbed>>

PauseOrResume ==
  /\ stopper = "idle" /\ alive
  /\ Pause \/ Resume
  /\ UNCHANGED <<flow, life, worker, queue, asleep, posted, tasks, in_use_, client, held, stopper, gaveUp, robbed>>

ResumeWrites ==
  /\ WriteToken
  /\ UNCHANGED <<flow, life, worker, queue, asleep, posted, tasks, in_use_, client, held, stopper, gaveUp, robbed>>

StopFlags ==
  /\ stopper = "idle" /\ alive /\ running_ /\ ~resuming
  /\ stopping_' = TRUE /\ running_' = FALSE /\ Resume
  /\ stopper' = "wake"
  /\ UNCHANGED <<flow, alive, worker, queue, asleep, posted, tasks, in_use_, client, held, gaveUp, robbed>>

StopWake ==
  /\ stopper = "wake" /\ ~resuming
  /\ asleep' = {} /\ stopper' = "join"
  /\ UNCHANGED <<pauserVars, flow, life, worker, queue, posted, tasks, in_use_, client, held, gaveUp, robbed>>

StopJoin ==
  /\ stopper = "join" /\ worker = "over"
  /\ worker' = "none" /\ stopper' = "drain"
  /\ UNCHANGED <<pauserVars, flow, life, queue, asleep, posted, tasks, in_use_, client, held, gaveUp, robbed>>

\* At most half a second for the tasks in flight, then cleanupPendingTasks.
StopDrain ==
  /\ stopper = "drain"
  /\ \/ /\ inFlightTasks_ > 0 /\ "stop" \notin asleep
        /\ asleep' = asleep \cup {"stop"}
        /\ UNCHANGED <<stopper, readyFrames_, in_use_, gaveUp>>
     \/ /\ inFlightTasks_ = 0 \/ "stop" \in asleep
        /\ gaveUp' = (inFlightTasks_ > 0)
        /\ asleep' = asleep \ {"stop"} /\ stopper' = "idle"
        /\ readyFrames_' = <<>>
        /\ in_use_' = [i \in Indices |->
             in_use_[i] /\ \A k \in DOMAIN readyFrames_ : readyFrames_[k] # i]
  /\ UNCHANGED <<pauserVars, flow, life, worker, inFlightTasks_, posted, tasks, client, held, robbed>>

Destroy ==
  /\ stopper = "idle" /\ ~running_ /\ alive
  /\ client = "out" /\ held = {}
  /\ alive' = FALSE
  /\ UNCHANGED <<pauserVars, flow, running_, stopping_, worker, queue, asleep, posted, tasks, in_use_, client, held, stopper, gaveUp, robbed>>

WorkerStep ==
  WorkerPausable \/ WorkerEnd \/ WorkerLook \/ WorkerWakes \/ WorkerRoom \/ WorkerPost \/ WorkerTell

TaskStep ==
  TaskStart \/ TaskFetch \/ TaskPush \/ TaskNotify \/ \E i \in Indices : TaskConvert(i)

ClientStep == Dump \/ DumpTimeout \/ \E i \in Indices : ReleaseBuffer(i)

ControlStep == StopWake \/ StopJoin \/ StopDrain \/ ResumeWrites

Next ==
  \/ WorkerStep \/ TaskStep \/ ClientStep \/ ControlStep
  \/ DumpCall \/ Feed \/ Expire \/ Start \/ PauseOrResume \/ StopFlags \/ Destroy

Spec == Init /\ [][Next]_rgaVars

\* Threads run, and a client drops its Frames; it need not call dump() again.
Fairness ==
  /\ WF_rgaVars(WorkerStep) /\ WF_rgaVars(ControlStep)
  /\ WF_rgaVars(Dump) /\ WF_rgaVars(DumpTimeout) /\ WF_rgaVars(TaskStep)
  /\ \A i \in Indices : WF_rgaVars(ReleaseBuffer(i) /\ i \notin held')

LiveSpec == Spec /\ Fairness

(***************************************************************************)
(* Properties                                                              *)
(***************************************************************************)
Ready == {readyFrames_[k] : k \in DOMAIN readyFrames_}

HeldOnce(i) ==
  /\ in_use_[i] <=> i \in converting \cup done \cup Ready \cup held
  /\ i \in converting => i \notin done \cup Ready \cup held
  /\ i \in done => i \notin Ready \cup held
  /\ i \in Ready => i \notin held
  /\ \A k, l \in DOMAIN readyFrames_ : readyFrames_[k] = i /\ readyFrames_[l] = i => k = l

\* An output buffer is written by one task, or waits in one place, or is read
\* by the client, and it is marked as used exactly then: no conversion goes
\* into a buffer somebody reads, and none is lost on an error path.
OneHolder == \A i \in Indices \ ByHand : HeldOnce(i)

\* Buffers are accounted for so, and tasks: inFlightTasks_ counts those that may still come, never one more than
\* there is room for; and when stop() has returned (other than by its timeout
\* of 500 ms) or the object is gone, no task will touch its queue or buffers.
TasksAreAccounted ==
  /\ OneHolder
  /\ inFlightTasks_ =
       posted + busy - telling + (IF worker = "post" THEN 1 ELSE 0)
  /\ inFlightTasks_ + Len(readyFrames_) <= MaxPending
  /\ ~alive /\ ~gaveUp => inFlightTasks_ = 0

\* A worker that waits for room is served once there is some.  A client that
\* sleeps in dump() may take the wakeup of a task that failed, finds nothing
\* and tells nobody: from then on the worker may sleep for ever.
RoomIsUsed == worker = "room" /\ HasRoom ~> worker # "room" \/ ~HasRoom \/ robbed
=============================================================================
