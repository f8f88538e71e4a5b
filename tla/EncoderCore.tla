---------------------------- MODULE EncoderCore ----------------------------
(***************************************************************************)
(* The slot pool of MppEncoderCore (src/src/utils/mpp/encoderCore.cpp).    *)
(*                                                                         *)
(* Every frame is one passage through the core: a client acquires a slot,  *)
(* fills its dmabuf, submits it, polls for the packet and releases the     *)
(* slot.  The frames run concurrently with the encoding worker and with    *)
(* one control thread, which rebuilds the pool (resetConfig) or destroys   *)
(* the core.  A step is what the code does between two points at which     *)
(* another thread can see the difference: one critical section of          *)
(* control_mtx_, free_mtx_ or pending_mtx_, or one atomic access.          *)
(*                                                                         *)
(* The clients are not in the repository: they use the public interface as *)
(* its comments ask, each meta being released once.                        *)
(***************************************************************************)
EXTENDS Integers, Sequences, FiniteSets

CONSTANTS
  Frames,         (* the frames the clients bring, one passage each          *)
  ExternalFrames, (* those submitted with submitFilledSlotWithExternal       *)
  SlotCount,      (* SLOT_COUNT: how many slots the pool has                 *)
  MaxGeneration,  (* bound on configGeneration_, hence on the resets         *)
  Events,         (* what the environment may do besides encoding frames     *)
  None,           (* no frame                                                *)
  Absent          (* what a slot without a dmabuf holds                      *)

AllEvents == {"encodeFails",   \* the MPP library reports an error or times out
              "giveUp",        \* a consumer stops polling and releases
              "spuriousCas",   \* compare_exchange_weak fails on a matching value
              "allocFails",    \* a slot cannot be created by initSlots
              "shutdown",      \* the destructor runs
              "endOfEncode"}   \* endOfthisEncode is called

ASSUME EncoderCoreAssumption ==
  /\ ExternalFrames \subseteq Frames
  /\ None \notin Frames /\ Absent \notin Frames /\ Absent # None
  /\ SlotCount \in Nat \ {0}
  /\ MaxGeneration \in Nat \ {0, 1}
  /\ Events \subseteq AllEvents

Slots == 1 .. SlotCount

SlotState == {"Writable", "Writing", "Filled", "Encoding", "Encoded", "invalid"}

VARIABLES
  state, generation, dmabuf, external, packet, \* the fields of Slot
  free, pending,          \* free_slots_, pending_slots_
  running, reset, encoding, configGeneration,  \* the control block
  endOfEncode,            \* marks the frames given to MPP as the last
  fpc, fslot, fgen, got,  \* per frame: program counter, slot_id, generation
                          \* of the dmabuf or meta held, packet obtained
  wpc, wslot, job,        \* the worker: program counter, slot_id, frame in MPP
  cpc, built              \* the control thread: program counter, slots built

slotVars    == <<state, generation, dmabuf, external, packet>>
controlVars == <<running, reset, encoding, configGeneration>>
frameVars   == <<fpc, fslot, fgen, got>>
workerVars  == <<wpc, wslot, job>>
threadVars  == <<cpc, built>>
vars == <<slotVars, free, pending, controlVars, endOfEncode, frameVars, workerVars, threadVars>>

(* The state the constructor leaves: resetConfig has raised the generation *)
(* from 1 to 2 and built every slot.                                       *)
Init ==
  /\ state      = [s \in Slots |-> "Writable"]
  /\ generation = [s \in Slots |-> 2]
  /\ dmabuf     = [s \in Slots |-> None]
  /\ external   = [s \in Slots |-> None]
  /\ packet     = [s \in Slots |-> None]
  /\ free       = [i \in 1 .. SlotCount |-> i]
  /\ pending    = <<>>
  /\ running = TRUE /\ reset = FALSE /\ encoding = FALSE
  /\ configGeneration = 2
  /\ endOfEncode = FALSE
  /\ fpc   = [f \in Frames |-> "new"]
  /\ fslot = [f \in Frames |-> 0]
  /\ fgen  = [f \in Frames |-> 0]
  /\ got   = [f \in Frames |-> None]
  /\ wpc = "loop" /\ wslot = 0 /\ job = None
  /\ cpc = "idle" /\ built = 0

-----------------------------------------------------------------------------
(* Parts of several operations.                                            *)

Goto(f, from, to) ==
  /\ fpc[f] = from
  /\ fpc' = [fpc EXCEPT ![f] = to]

WorkerGoto(from, to) ==
  /\ wpc = from
  /\ wpc' = to

(* The worker tests the predicate of pending_cv_ and falls asleep while it *)
(* holds pending_mtx_; in between nobody else can take that mutex.         *)
PendingMutexFree == wpc # "blocking"

(* notify on pending_cv_: only a worker that already sleeps hears it.      *)
NotifyPending == wpc' = IF wpc = "asleep" THEN "fetching" ELSE wpc

(* Mutant of MarkWritable: the external buffer stays with the slot, and    *)
(* the frame that gets the slot next is encoded from it.                   *)
MarkWritableKeepsExternal(s) ==
  /\ state' = [state EXCEPT ![s] = "Writable"]
  /\ UNCHANGED <<generation, dmabuf, external, packet>>

(* Mutant of Recyclable: a slot that is being encoded is left alone too.   *)
RecyclableNotEncoding(s) == state[s] \notin {"Writable", "Encoding", "invalid"}

(* recycleSlot: the one atomic access that decides.  A slot that is        *)
(* Writable or invalid is left alone; any other becomes Writable and its   *)
(* caller goes on to put it back into the free queue.                      *)
Recyclable(s) == state[s] \notin {"Writable", "invalid"}

MarkWritable(s) ==
  /\ state' = [state EXCEPT ![s] = "Writable"]
  /\ external' = [external EXCEPT ![s] = None]
  /\ UNCHANGED <<generation, dmabuf, packet>>

(* A frame in the middle of a call; between calls the client owns the      *)
(* thread and may take its time.                                           *)
BetweenCalls == {"new", "writing", "written", "waiting", "holding", "done"}
-----------------------------------------------------------------------------
(* The producer side.                                                      *)

(* acquireWritableSlot, first critical section; the client asks again      *)
(* later when the core is being reset or stopped.                          *)
AcquireCheck(f) ==
  /\ cpc # "gone"
  /\ running /\ ~reset
  /\ Goto(f, "new", "popping")
  /\ UNCHANGED <<slotVars, free, pending, controlVars, endOfEncode, fslot, fgen, got, workerVars, threadVars>>

(* Mutant of AcquirePop: the front is read and not popped.                 *)
AcquirePopKeepsFront(f) ==
  /\ free # <<>>
  /\ Goto(f, "popping", "claiming")
  /\ fslot' = [fslot EXCEPT ![f] = Head(free)]
  /\ UNCHANGED <<slotVars, free, pending, controlVars, endOfEncode, fgen, got, workerVars, threadVars>>

(* acquireWritableSlot, the pop: with an empty queue the call fails.       *)
AcquirePop(f) ==
  /\ IF free = <<>>
     THEN Goto(f, "popping", "new") /\ UNCHANGED <<free, fslot>>
     ELSE /\ Goto(f, "popping", "claiming")
          /\ fslot' = [fslot EXCEPT ![f] = Head(free)]
          /\ free' = Tail(free)
  /\ UNCHANGED <<slotVars, pending, controlVars, endOfEncode, fgen, got, workerVars, threadVars>>

(* acquireWritableSlot, the weak compare-exchange Writable -> Writing.     *)
AcquireClaim(f) ==
  /\ Goto(f, "claiming", "writing")
  /\ state[fslot[f]] = "Writable"
  /\ state' = [state EXCEPT ![fslot[f]] = "Writing"]
  /\ fgen' = [fgen EXCEPT ![f] = generation[fslot[f]]]
  /\ UNCHANGED <<generation, dmabuf, external, packet, free, pending, controlVars, endOfEncode, fslot, got, workerVars, threadVars>>

(* ... and its failure, after which the slot goes through recycleSlot.     *)
AcquireClaimFails(f) ==
  /\ Goto(f, "claiming", "recycling")
  /\ state[fslot[f]] # "Writable" \/ "spuriousCas" \in Events
  /\ UNCHANGED <<slotVars, free, pending, controlVars, endOfEncode, fslot, fgen, got, workerVars, threadVars>>

(* The client writes its frame into the dmabuf it was given; after a reset *)
(* that buffer is no longer the slot's.                                    *)
Fill(f) ==
  /\ Goto(f, "writing", "written")
  /\ dmabuf' = IF fgen[f] = generation[fslot[f]] /\ dmabuf[fslot[f]] # Absent
               THEN [dmabuf EXCEPT ![fslot[f]] = f] ELSE dmabuf
  /\ UNCHANGED <<state, generation, external, packet, free, pending, controlVars, endOfEncode, fslot, fgen, got, workerVars, threadVars>>

(* The client has no use for the slot: releaseSlot(int), which knows no    *)
(* generation.                                                             *)
Abandon(f) ==
  /\ cpc # "gone"
  /\ Goto(f, "written", "recycling")
  /\ UNCHANGED <<slotVars, free, pending, controlVars, endOfEncode, fslot, fgen, got, workerVars, threadVars>>

(* submitFilledSlot, first critical section; rejected, the client returns  *)
(* the slot with releaseSlot(int).                                         *)
SubmitCheck(f) ==
  /\ cpc # "gone"
  /\ Goto(f, "written", IF reset \/ ~running THEN "recycling" ELSE "marking")
  /\ UNCHANGED <<slotVars, free, pending, controlVars, endOfEncode, fslot, fgen, got, workerVars, threadVars>>

(* submitFilledSlot, the weak compare-exchange Writing -> Filled.          *)
SubmitMark(f) ==
  /\ Goto(f, "marking", "queueing")
  /\ state[fslot[f]] = "Writing"
  /\ state' = [state EXCEPT ![fslot[f]] = "Filled"]
  /\ UNCHANGED <<generation, dmabuf, external, packet, free, pending, controlVars, endOfEncode, fslot, fgen, got, workerVars, threadVars>>

SubmitMarkFails(f) ==
  /\ Goto(f, "marking", "recycling")
  /\ state[fslot[f]] # "Writing" \/ "spuriousCas" \in Events
  /\ UNCHANGED <<slotVars, free, pending, controlVars, endOfEncode, fslot, fgen, got, workerVars, threadVars>>

(* Mutant of SubmitQueue: the worker is not notified.                      *)
SubmitQueueSilent(f) ==
  /\ PendingMutexFree
  /\ Goto(f, "queueing", "stamping")
  /\ pending' = Append(pending, fslot[f])
  /\ UNCHANGED <<slotVars, free, controlVars, endOfEncode, fslot, fgen, got, workerVars, threadVars>>

(* submitFilledSlot(WithExternal): the external buffer is attached, the    *)
(* slot queued under pending_mtx_ and the worker notified.  On the way the *)
(* slot's packet is dereferenced: once cleanupSlots has taken it away the  *)
(* program ends here, and so does the behaviour of this frame.             *)
SubmitQueue(f) ==
  /\ PendingMutexFree
  /\ Goto(f, "queueing", "stamping")
  /\ dmabuf[fslot[f]] # Absent
  /\ external' = IF f \in ExternalFrames THEN [external EXCEPT ![fslot[f]] = f] ELSE external
  /\ pending' = Append(pending, fslot[f])
  /\ NotifyPending
  /\ UNCHANGED <<state, generation, dmabuf, packet, free, controlVars, endOfEncode, fslot, fgen, got, wslot, job, threadVars>>

(* The meta is stamped with the slot's generation after the push.          *)
SubmitStamp(f) ==
  /\ Goto(f, "stamping", "waiting")
  /\ fgen' = [fgen EXCEPT ![f] = generation[fslot[f]]]
  /\ UNCHANGED <<slotVars, free, pending, controlVars, endOfEncode, fslot, got, workerVars, threadVars>>

-----------------------------------------------------------------------------
(* The consumer side: tryGetEncodedPacket is polled until it succeeds.     *)

TryBegin(f) ==
  /\ cpc # "gone"
  /\ ~reset
  /\ Goto(f, "waiting", "matching")
  /\ UNCHANGED <<slotVars, free, pending, controlVars, endOfEncode, fslot, fgen, got, workerVars, threadVars>>

TryMatch(f) ==
  /\ Goto(f, "matching", IF fgen[f] = generation[fslot[f]] THEN "peeking" ELSE "waiting")
  /\ UNCHANGED <<slotVars, free, pending, controlVars, endOfEncode, fslot, fgen, got, workerVars, threadVars>>

TryPeek(f) ==
  /\ Goto(f, "peeking", IF state[fslot[f]] = "Encoded" THEN "taking" ELSE "waiting")
  /\ UNCHANGED <<slotVars, free, pending, controlVars, endOfEncode, fslot, fgen, got, workerVars, threadVars>>

(* The packet changes hands and an empty one takes its place.              *)
TryTake(f) ==
  /\ Goto(f, "taking", "holding")
  /\ got' = [got EXCEPT ![f] = packet[fslot[f]]]
  /\ packet' = [packet EXCEPT ![fslot[f]] = None]
  /\ UNCHANGED <<state, generation, dmabuf, external, free, pending, controlVars, endOfEncode, fslot, fgen, workerVars, threadVars>>

(* releaseSlot(meta): a meta of another generation is ignored.  A client   *)
(* that gives up polling releases too, and must when its meta is stale.    *)
Release(f) ==
  /\ cpc # "gone"
  /\ \/ fpc[f] = "holding"
     \/ fpc[f] = "waiting" /\ ("giveUp" \in Events \/ fgen[f] # generation[fslot[f]])
  /\ fpc' = [fpc EXCEPT ![f] = IF fgen[f] = generation[fslot[f]] THEN "recycling" ELSE "done"]
  /\ UNCHANGED <<slotVars, free, pending, controlVars, endOfEncode, fslot, fgen, got, workerVars, threadVars>>

(* recycleSlot called for a client.                                        *)
Recycle(f) ==
  /\ fpc[f] = "recycling"
  /\ IF Recyclable(fslot[f])
     THEN fpc' = [fpc EXCEPT ![f] = "requeueing"] /\ MarkWritable(fslot[f])
     ELSE fpc' = [fpc EXCEPT ![f] = "done"] /\ UNCHANGED slotVars
  /\ UNCHANGED <<free, pending, controlVars, endOfEncode, fslot, fgen, got, workerVars, threadVars>>

Requeue(f) ==
  /\ Goto(f, "requeueing", "done")
  /\ free' = Append(free, fslot[f])
  /\ UNCHANGED <<slotVars, pending, controlVars, endOfEncode, fslot, fgen, got, workerVars, threadVars>>

(* endOfthisEncode.                                                        *)
EndOfThisEncode ==
  /\ "endOfEncode" \in Events
  /\ ~endOfEncode
  /\ endOfEncode' = TRUE
  /\ UNCHANGED <<slotVars, free, pending, controlVars, frameVars, workerVars, threadVars>>
-----------------------------------------------------------------------------
(* workerThread.                                                           *)

(* Top of the loop: wait on control_cv_ while a reset is in progress.      *)
WorkerLoop ==
  /\ ~reset \/ ~running
  /\ WorkerGoto("loop", IF running THEN "fetching" ELSE "exited")
  /\ UNCHANGED <<slotVars, free, pending, controlVars, endOfEncode, frameVars, wslot, job, threadVars>>

(* The predicate of pending_cv_, tested under pending_mtx_.                *)
WorkerFetch ==
  /\ wpc = "fetching"
  /\ \/ ~running /\ wpc' = "exited" /\ UNCHANGED <<pending, wslot>>
     \/ running /\ reset /\ wpc' = "loop" /\ UNCHANGED <<pending, wslot>>
     \/ /\ running /\ ~reset /\ pending # <<>>
        /\ wslot' = Head(pending)
        /\ pending' = Tail(pending)
        /\ wpc' = "entering"
     \/ running /\ ~reset /\ pending = <<>> /\ wpc' = "blocking" /\ UNCHANGED <<pending, wslot>>
  /\ UNCHANGED <<slotVars, free, controlVars, endOfEncode, frameVars, job, threadVars>>

(* pending_cv_.wait releases the mutex and sleeps: neither running_ nor    *)
(* resetInProgress_ is written under that mutex.                           *)
WorkerSleep ==
  /\ WorkerGoto("blocking", "asleep")
  /\ UNCHANGED <<slotVars, free, pending, controlVars, endOfEncode, frameVars, wslot, job, threadVars>>

(* Mutant of WorkerEnter: the reset flag is not checked again.             *)
WorkerEnterUnchecked ==
  /\ WorkerGoto("entering", "starting")
  /\ encoding' = TRUE
  /\ UNCHANGED <<slotVars, free, pending, running, reset, configGeneration, endOfEncode, frameVars, wslot, job, threadVars>>

(* enterWorkerEncodeSection.                                               *)
WorkerEnter ==
  /\ wpc = "entering"
  /\ IF running /\ ~reset
     THEN wpc' = "starting" /\ encoding' = TRUE
     ELSE wpc' = "recycling" /\ UNCHANGED encoding
  /\ UNCHANGED <<slotVars, free, pending, running, reset, configGeneration, endOfEncode, frameVars, wslot, job, threadVars>>

(* The state is stored, not compared.                                      *)
WorkerStart ==
  /\ WorkerGoto("starting", "putting")
  /\ state' = [state EXCEPT ![wslot] = "Encoding"]
  /\ UNCHANGED <<generation, dmabuf, external, packet, free, pending, controlVars, endOfEncode, frameVars, wslot, job, threadVars>>

(* createEncodableFrame and encode_put_frame: MPP gets the external buffer *)
(* if there is one, the slot's own otherwise, and with it the flag         *)
(* endOfEncode, which nothing clears.                                      *)
Source(s) == IF external[s] # None THEN external[s] ELSE dmabuf[s]

WorkerPut ==
  /\ WorkerGoto("putting", "polling")
  /\ running /\ Source(wslot) # Absent
  /\ job' = Source(wslot)
  /\ UNCHANGED <<slotVars, free, pending, controlVars, endOfEncode, frameVars, wslot, threadVars>>

(* A missing buffer or context, a failed MPP_START or put, or a shutdown.  *)
WorkerPutFails ==
  /\ WorkerGoto("putting", "recycling")
  /\ ~running \/ Source(wslot) = Absent \/ "encodeFails" \in Events
  /\ UNCHANGED <<slotVars, free, pending, controlVars, endOfEncode, frameVars, wslot, job, threadVars>>

(* encode_get_packet answers: the packet is copied into the slot.          *)
WorkerPoll ==
  /\ WorkerGoto("polling", "finishing")
  /\ packet' = [packet EXCEPT ![wslot] = job]
  /\ UNCHANGED <<state, generation, dmabuf, external, free, pending, controlVars, endOfEncode, frameVars, wslot, job, threadVars>>

(* The polling loop ends with a reset, a shutdown, an error or a timeout.  *)
WorkerPollFails ==
  /\ reset \/ ~running \/ "encodeFails" \in Events
  /\ WorkerGoto("polling", "recycling")
  /\ UNCHANGED <<slotVars, free, pending, controlVars, endOfEncode, frameVars, wslot, job, threadVars>>

WorkerFinish ==
  /\ WorkerGoto("finishing", "leaving")
  /\ state' = [state EXCEPT ![wslot] = "Encoded"]
  /\ UNCHANGED <<generation, dmabuf, external, packet, free, pending, controlVars, endOfEncode, frameVars, wslot, job, threadVars>>

(* Mutant of WorkerRecycle: a failure path that skips the scope guard.     *)
WorkerRecycleSkipsLeave ==
  /\ wpc = "recycling"
  /\ wpc' = "loop"
  /\ IF Recyclable(wslot)
     THEN MarkWritable(wslot) /\ free' = Append(free, wslot)
     ELSE UNCHANGED <<slotVars, free>>
  /\ UNCHANGED <<pending, controlVars, endOfEncode, frameVars, wslot, job, threadVars>>

(* recycleSlot on every failure path; the encode section is left after it, *)
(* if it was entered.                                                      *)
WorkerRecycle ==
  /\ wpc = "recycling"
  /\ IF Recyclable(wslot)
     THEN wpc' = "requeueing" /\ MarkWritable(wslot)
     ELSE wpc' = "leaving" /\ UNCHANGED slotVars
  /\ UNCHANGED <<free, pending, controlVars, endOfEncode, frameVars, wslot, job, threadVars>>

WorkerRequeue ==
  /\ WorkerGoto("requeueing", "leaving")
  /\ free' = Append(free, wslot)
  /\ UNCHANGED <<slotVars, pending, controlVars, endOfEncode, frameVars, wslot, job, threadVars>>

(* leaveWorkerEncodeSection; `while (running_)` ends the thread.           *)
WorkerLeave ==
  /\ WorkerGoto("leaving", IF running THEN "loop" ELSE "exited")
  /\ encoding' = FALSE
  /\ job' = None
  /\ UNCHANGED <<slotVars, free, pending, running, reset, configGeneration, endOfEncode, frameVars, wslot, threadVars>>

-----------------------------------------------------------------------------
(* resetConfig, and the destructor.  Both run on the control thread.       *)

ControlGoto(from, to) ==
  /\ cpc = from
  /\ cpc' = to

ResetRaise ==
  /\ configGeneration < MaxGeneration
  /\ ControlGoto("idle", "quiescing")
  /\ reset' = TRUE
  /\ NotifyPending
  /\ UNCHANGED <<slotVars, free, pending, running, encoding, configGeneration, endOfEncode, frameVars, wslot, job, built>>

(* control_cv_ wakes the control thread once the worker is out.            *)
ResetQuiesced ==
  /\ ~encoding \/ ~running
  /\ ControlGoto("quiescing", "dropPending")
  /\ configGeneration' = configGeneration + 1
  /\ UNCHANGED <<slotVars, free, pending, running, reset, encoding, endOfEncode, frameVars, workerVars, built>>

(* resetQueues, one mutex after the other.                                 *)
ResetPending ==
  /\ PendingMutexFree
  /\ ControlGoto("dropPending", "dropFree")
  /\ pending' = <<>>
  /\ UNCHANGED <<slotVars, free, controlVars, endOfEncode, frameVars, workerVars, built>>

ResetFree ==
  /\ ControlGoto("dropFree", "cleaning")
  /\ free' = <<>>
  /\ UNCHANGED <<slotVars, pending, controlVars, endOfEncode, frameVars, workerVars, built>>

(* cleanupSlots: every slot becomes invalid and loses what it holds.       *)
InvalidateSlots ==
  /\ state'    = [s \in Slots |-> "invalid"]
  /\ dmabuf'   = [s \in Slots |-> Absent]
  /\ external' = [s \in Slots |-> None]
  /\ packet'   = [s \in Slots |-> None]
  /\ UNCHANGED generation

ResetCleanup ==
  /\ ControlGoto("cleaning", "building")
  /\ InvalidateSlots
  /\ built' = 0
  /\ UNCHANGED <<free, pending, controlVars, endOfEncode, frameVars, workerVars>>

(* initSlots, one slot: created and queued, or skipped and left invalid.   *)
BuildSlot ==
  /\ cpc = "building" /\ built < SlotCount
  /\ built' = built + 1
  /\ \/ /\ state' = [state EXCEPT ![built'] = "Writable"]
        /\ generation' = [generation EXCEPT ![built'] = configGeneration]
        /\ dmabuf' = [dmabuf EXCEPT ![built'] = None]
        /\ external' = [external EXCEPT ![built'] = None]
        /\ packet' = [packet EXCEPT ![built'] = None]
        /\ free' = Append(free, built')
     \/ "allocFails" \in Events /\ UNCHANGED <<slotVars, free>>
  /\ UNCHANGED <<pending, controlVars, endOfEncode, frameVars, workerVars, cpc>>

ResetDone ==
  /\ built = SlotCount
  /\ ControlGoto("building", "idle")
  /\ reset' = FALSE
  /\ UNCHANGED <<slotVars, free, pending, running, encoding, configGeneration, endOfEncode, frameVars, workerVars, built>>

(* ~MppEncoderCore: running_ is cleared first, without any mutex ...       *)
ShutdownBegin ==
  /\ "shutdown" \in Events
  /\ ControlGoto("idle", "notifying")
  /\ running' = FALSE
  /\ UNCHANGED <<slotVars, free, pending, reset, encoding, configGeneration, endOfEncode, frameVars, workerVars, built>>

(* ... then pending_cv_ is notified, again without pending_mtx_ ...        *)
ShutdownNotify ==
  /\ ControlGoto("notifying", "joining")
  /\ reset' = FALSE
  /\ NotifyPending
  /\ UNCHANGED <<slotVars, free, pending, running, encoding, configGeneration, endOfEncode, frameVars, wslot, job, built>>

(* ... and the slots go once the worker has been joined.  No client may be *)
(* inside a call of an object that ceases to exist.                        *)
ShutdownJoin ==
  /\ wpc = "exited"
  /\ \A f \in Frames : fpc[f] \in BetweenCalls
  /\ ControlGoto("joining", "gone")
  /\ InvalidateSlots
  /\ UNCHANGED <<free, pending, controlVars, endOfEncode, frameVars, workerVars, built>>

-----------------------------------------------------------------------------
Produce(f) ==
  \/ AcquireCheck(f) \/ AcquirePop(f) \/ AcquireClaim(f) \/ AcquireClaimFails(f)
  \/ Fill(f)
  \/ SubmitCheck(f) \/ SubmitMark(f) \/ SubmitMarkFails(f) \/ SubmitQueue(f) \/ SubmitStamp(f)

Consume(f) ==
  \/ TryBegin(f) \/ TryMatch(f) \/ TryPeek(f) \/ TryTake(f)
  \/ Release(f) \/ Recycle(f) \/ Requeue(f)

Worker ==
  \/ WorkerLoop \/ WorkerFetch \/ WorkerSleep \/ WorkerEnter \/ WorkerStart
  \/ WorkerPut \/ WorkerPutFails \/ WorkerPoll \/ WorkerPollFails \/ WorkerFinish
  \/ WorkerRecycle \/ WorkerRequeue \/ WorkerLeave

ResetConfig ==
  \/ ResetQuiesced \/ ResetPending \/ ResetFree \/ ResetCleanup \/ BuildSlot \/ ResetDone

Shutdown == ShutdownNotify \/ ShutdownJoin

Next ==
  \/ \E f \in Frames : Produce(f) \/ Abandon(f) \/ Consume(f)
  \/ EndOfThisEncode
  \/ Worker
  \/ ResetRaise \/ ResetConfig
  \/ ShutdownBegin \/ Shutdown

Spec == Init /\ [][Next]_vars
-----------------------------------------------------------------------------
(* Fairness.  The worker and the control thread are threads of the core    *)
(* and each runs on; a client that is inside a call finishes it, and one   *)
(* that holds a slot keeps polling and then releases.                      *)
Fairness ==
  /\ WF_vars(Worker)
  /\ WF_vars(ResetConfig)
  /\ WF_vars(Shutdown)
  /\ \A f \in Frames : WF_vars(Produce(f) /\ fpc[f] # "new") /\ WF_vars(Consume(f))

LiveSpec == Spec /\ Fairness

-----------------------------------------------------------------------------
(* Properties.                                                             *)

FramePc == {"new", "popping", "claiming", "writing", "written", "marking",
            "queueing", "stamping", "waiting", "matching", "peeking", "taking",
            "holding", "recycling", "requeueing", "done"}

WorkerPc == {"loop", "fetching", "blocking", "asleep", "entering", "starting",
             "putting", "polling", "finishing", "recycling", "requeueing",
             "leaving", "exited"}

ControlPc == {"idle", "quiescing", "dropPending", "dropFree", "cleaning",
              "building", "notifying", "joining", "gone"}

SlotsOK ==
  /\ state \in [Slots -> SlotState]
  /\ generation \in [Slots -> 2 .. MaxGeneration]
  /\ dmabuf \in [Slots -> Frames \cup {None, Absent}]
  /\ external \in [Slots -> Frames \cup {None}]
  /\ packet \in [Slots -> Frames \cup {None}]

QueuesOK == free \in Seq(Slots) /\ pending \in Seq(Slots)

ControlOK ==
  /\ running \in BOOLEAN /\ reset \in BOOLEAN /\ encoding \in BOOLEAN
  /\ configGeneration \in 2 .. MaxGeneration
  /\ endOfEncode \in BOOLEAN
  /\ cpc \in ControlPc
  /\ built \in 0 .. SlotCount

FramesOK ==
  /\ fpc \in [Frames -> FramePc]
  /\ fslot \in [Frames -> Slots \cup {0}]
  /\ fgen \in [Frames -> {0} \cup (2 .. MaxGeneration)]
  /\ got \in [Frames -> Frames \cup {None}]

WorkerOK ==
  /\ wpc \in WorkerPc
  /\ wslot \in Slots \cup {0}
  /\ job \in Frames \cup {None}

(* Every variable has its type: in particular the queues hold indexes of   *)
(* slots, and no slot or meta has a generation that was never current.     *)
TypeOK == SlotsOK /\ QueuesOK /\ ControlOK /\ FramesOK /\ WorkerOK

(* A frame owns its slot from the successful compare-exchange of the       *)
(* acquire call until its release begins.                                  *)
Owning == {"writing", "written", "marking", "queueing", "stamping", "waiting",
           "matching", "peeking", "taking", "holding"}

Owns(f, s) == fpc[f] \in Owning /\ fslot[f] = s

(* A slot that acquireWritableSlot has handed out is nobody else's until   *)
(* its one release (encoderCore.cpp:189 "prevents other threads from       *)
(* taking it").                                                            *)
ExclusiveOwner ==
  \A f, g \in Frames : Owns(f, fslot[f]) /\ Owns(g, fslot[f]) => f = g

(* A release that comes after the slot has been given back already, by the *)
(* worker when the encoding failed, and has been acquired by another       *)
(* frame, changes nothing: "only the first thread that switches the state  *)
(* back to Writable queues the slot" (the claim of encoderCore.cpp:582).   *)
LateReleaseIsIgnored ==
  [][\A f, g \in Frames : Recycle(f) /\ Owns(g, fslot[f]) => UNCHANGED slotVars]_vars

Elements(q) == {q[i] : i \in DOMAIN q}

(* The frame will call recycleSlot for s and not be turned away by the     *)
(* generation check.                                                       *)
WillReturn(f, s) ==
  /\ fslot[f] = s
  /\ \/ fpc[f] \in {"claiming", "writing", "written", "marking", "queueing",
                    "stamping", "recycling", "requeueing"}
     \/ fpc[f] \in Owning /\ fgen[f] = generation[s]

(* No slot drops out of the pool: with failed encodings, consumers that    *)
(* give up, duplicate releases and resets in any order, a valid slot is in *)
(* the free queue, in the worker's hands, or somebody will recycle it.     *)
NoSlotLost ==
  cpc # "cleaning" =>
    \A s \in Slots :
      \/ state[s] = "invalid"
      \/ s \in Elements(free)
      \/ wslot = s /\ wpc \in {"putting", "recycling", "requeueing"}
      \/ \E f \in Frames : WillReturn(f, s)

Rebuilding == cpc \in {"dropPending", "dropFree", "cleaning", "building"}

InEncodeSection == wpc \in {"starting", "putting", "polling", "finishing"}

(* resetConfig tears the context and the slots down only when the worker   *)
(* is outside the encode section, and the worker stays out until the pool  *)
(* is rebuilt (the handshake of encoderCore.h:205-210).                    *)
RebuildExcludesEncoding == Rebuilding => ~InEncodeSection

(* The control thread comes back.  A reset that was asked for is carried   *)
(* out: the worker leaves its encode section and its leaving wakes the     *)
(* control thread.  And once the destructor joins the worker, the worker   *)
(* ends, unless it was testing the predicate of pending_cv_ when the       *)
(* notification passed.                                                    *)
ControlReturns ==
  /\ cpc = "quiescing" ~> cpc = "idle"
  /\ cpc = "joining" /\ wpc \notin {"blocking", "asleep"} ~> wpc = "exited"

(* Every frame that is submitted is encoded and its packet reaches the     *)
(* client: no notification of pending_cv_ is lost.                         *)
SubmittedIsDelivered ==
  \A f \in Frames : fpc[f] = "queueing" ~> fpc[f] = "holding"

-----------------------------------------------------------------------------
(* The abstract service this core implements while no encoding fails, no   *)
(* client gives up and no reset runs.                                      *)

OwnerOf(s) == CHOOSE f \in Frames : Owns(f, s)

(* Only the packet of its own frame counts as the delivery of a frame; the *)
(* service knows no step that leads to the other phase.                    *)
Received(f) == IF got[f] = f THEN "delivered" ELSE "misdelivered"

PhaseOf(f) ==
  CASE fpc[f] \in {"new", "popping", "claiming"} -> "outside"
    [] fpc[f] \in {"writing", "written", "marking", "queueing"} -> "filling"
    [] fpc[f] \in {"stamping", "waiting", "matching", "peeking", "taking"} ->
         IF state[fslot[f]] = "Encoded" THEN "ready" ELSE "queued"
    [] fpc[f] = "holding" -> Received(f)
    [] fpc[f] = "recycling" ->
         IF fgen[f] = 0 THEN "returned" ELSE IF got[f] = None THEN "filling" ELSE Received(f)
    [] OTHER -> "returned"

InWork == IF wpc \in {"entering", "starting", "putting", "polling", "finishing"}
          THEN <<wslot>> ELSE <<>>

Service == INSTANCE EncoderService WITH
  Capacity <- SlotCount,
  phase    <- [f \in Frames |-> PhaseOf(f)],
  queue    <- [i \in 1 .. Len(InWork \o pending) |-> OwnerOf((InWork \o pending)[i])]

(* Bounded occupancy, first-in first-out encoding, and the delivery of     *)
(* each frame's own packet, as EncoderService states them.                 *)
ImplementsService == Service!ServiceSpec
=============================================================================
