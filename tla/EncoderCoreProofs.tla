------------------------- MODULE EncoderCoreProofs -------------------------
(***************************************************************************)
(* What holds of the slot pool for every number of slots, frames and       *)
(* resets; and what the core promises its clients while nothing fails, for *)
(* every number of slots and frames (from Steady on).                      *)
(***************************************************************************)
EXTENDS EncoderCore, SequenceTheorems, FunctionTheorems, FiniteSetTheorems, TLAPS

-----------------------------------------------------------------------------
(* The inductive invariant.                                                *)

(* Whoever is past the pop has a slot number. *)
FramesHold == \A f \in Frames : fpc[f] \notin {"new", "popping"} => fslot[f] \in Slots

WorkerHolds ==
  wpc \in {"entering", "starting", "putting", "polling", "finishing",
           "recycling", "requeueing"} => wslot \in Slots

HoldsSlot == FramesHold /\ WorkerHolds

(* The handshake between resetConfig and the worker; running_ is cleared    *)
(* by the destructor only.                                                 *)
Handshake ==
  /\ cpc = "quiescing" => configGeneration < MaxGeneration
  /\ cpc = "quiescing" \/ Rebuilding => reset
  /\ running \/ cpc \in {"notifying", "joining", "gone"}
  /\ InEncodeSection => encoding

(* A writable slot is on its way into or out of the free queue. *)
WritableTracked ==
  cpc # "cleaning" =>
    \A s \in Slots : state[s] = "Writable" =>
      \/ s \in Elements(free)
      \/ wslot = s /\ wpc = "requeueing"
      \/ \E f \in Frames : fslot[f] = s /\ fpc[f] \in {"claiming", "requeueing"}

(* NoSlotLost without the worker's half: a slot the worker holds is also a *)
(* client's, unless it came with a reset that could not create it.         *)
Tracked(s) ==
  \/ state[s] = "invalid"
  \/ s \in Elements(free)
  \/ wslot = s /\ wpc = "requeueing"
  \/ wslot = s /\ wpc \in {"putting", "recycling"} /\ dmabuf[s] = Absent
  \/ \E f \in Frames : WillReturn(f, s)

AllTracked == cpc # "cleaning" => \A s \in Slots : Tracked(s)

(* cleanupSlots takes the buffers with the state, and an external buffer   *)
(* is attached to a slot that has its own.                                 *)
Buffers ==
  \A s \in Slots :
    /\ state[s] = "invalid" => dmabuf[s] = Absent
    /\ dmabuf[s] = Absent => external[s] = None

(* The slot in MPP is not taken apart. *)
EncodedIsValid ==
  wpc \in {"putting", "polling", "finishing"} => state[wslot] # "invalid"

PoolInv ==
  /\ TypeOK
  /\ HoldsSlot
  /\ Handshake
  /\ RebuildExcludesEncoding
  /\ WritableTracked
  /\ AllTracked
  /\ Buffers
  /\ EncodedIsValid

-----------------------------------------------------------------------------
(* Type correctness.                                                       *)

USE EncoderCoreAssumption DEF Slots, SlotState, FramePc, WorkerPc, ControlPc

(* Which steps touch the fields of the slots. *)
LEMMA SlotSteps ==
  ASSUME [Next]_vars
  PROVE  \/ UNCHANGED slotVars
         \/ \E f \in Frames : \/ AcquireClaim(f) \/ Fill(f) \/ SubmitMark(f) \/ SubmitQueue(f)
                             \/ TryTake(f) \/ Recycle(f)
         \/ WorkerStart \/ WorkerPoll \/ WorkerFinish \/ WorkerRecycle
         \/ ResetCleanup \/ BuildSlot \/ ShutdownJoin
<1>1. ASSUME NEW f \in Frames, Produce(f) \/ Abandon(f)
      PROVE  UNCHANGED slotVars \/ AcquireClaim(f) \/ Fill(f) \/ SubmitMark(f) \/ SubmitQueue(f)
  BY <1>1 DEF Produce, Abandon, AcquireCheck, AcquirePop, AcquireClaimFails, SubmitCheck,
       SubmitMarkFails, SubmitStamp
<1>2. ASSUME NEW f \in Frames, Consume(f)
      PROVE  UNCHANGED slotVars \/ TryTake(f) \/ Recycle(f)
  BY <1>2 DEF Consume, TryBegin, TryMatch, TryPeek, Release, Requeue
<1>3. CASE Worker
  BY <1>3 DEF Worker, WorkerLoop, WorkerFetch, WorkerSleep, WorkerEnter, WorkerPut,
       WorkerPutFails, WorkerPollFails, WorkerRequeue, WorkerLeave
<1>4. CASE ResetRaise \/ ResetConfig \/ ShutdownBegin \/ Shutdown \/ EndOfThisEncode
  BY <1>4 DEF ResetRaise, ResetConfig, ResetQuiesced, ResetPending, ResetFree, ResetDone,
       ShutdownBegin, Shutdown, ShutdownNotify, EndOfThisEncode
<1>5. CASE UNCHANGED vars
  BY <1>5 DEF vars
<1> QED
  BY <1>1, <1>2, <1>3, <1>4, <1>5 DEF Next

LEMMA SlotsType ==
  ASSUME TypeOK, HoldsSlot, [Next]_vars
  PROVE  SlotsOK'
<1>1. CASE UNCHANGED slotVars
  BY <1>1 DEF slotVars, TypeOK, SlotsOK
<1>2. ASSUME NEW f \in Frames, AcquireClaim(f) PROVE SlotsOK'
  BY <1>2 DEF AcquireClaim, TypeOK, SlotsOK
<1>3. ASSUME NEW f \in Frames, Fill(f) PROVE SlotsOK'
  BY <1>3 DEF Fill, TypeOK, SlotsOK
<1>4. ASSUME NEW f \in Frames, SubmitMark(f) PROVE SlotsOK'
  BY <1>4 DEF SubmitMark, TypeOK, SlotsOK
<1>5. ASSUME NEW f \in Frames, SubmitQueue(f) PROVE SlotsOK'
  BY <1>5 DEF SubmitQueue, TypeOK, SlotsOK
<1>6. ASSUME NEW f \in Frames, TryTake(f) PROVE SlotsOK'
  BY <1>6 DEF TryTake, TypeOK, SlotsOK
<1>7. ASSUME NEW f \in Frames, Recycle(f) PROVE SlotsOK'
  BY <1>7 DEF Recycle, MarkWritable, slotVars, TypeOK, SlotsOK
<1>8. CASE WorkerStart \/ WorkerFinish
  BY <1>8 DEF WorkerStart, WorkerFinish, TypeOK, SlotsOK
<1>9. CASE WorkerPoll
  BY <1>9 DEF WorkerPoll, WorkerOK, TypeOK, SlotsOK
<1>10. CASE WorkerRecycle
  BY <1>10 DEF WorkerRecycle, MarkWritable, slotVars, TypeOK, SlotsOK
<1>11. CASE ResetCleanup \/ ShutdownJoin
  BY <1>11 DEF ResetCleanup, ShutdownJoin, InvalidateSlots, TypeOK, SlotsOK
<1>12. CASE BuildSlot
  <2>1. built + 1 \in Slots
    BY <1>12 DEF BuildSlot, TypeOK, ControlOK
  <2>2. configGeneration \in 2 .. MaxGeneration
    BY DEF TypeOK, ControlOK
  <2>3. built' = built + 1
    BY <1>12 DEF BuildSlot
  <2>4. CASE UNCHANGED slotVars
    BY <2>4 DEF slotVars, TypeOK, SlotsOK
  <2>5. CASE /\ state' = [state EXCEPT ![built + 1] = "Writable"]
             /\ generation' = [generation EXCEPT ![built + 1] = configGeneration]
             /\ dmabuf' = [dmabuf EXCEPT ![built + 1] = None]
             /\ external' = [external EXCEPT ![built + 1] = None]
             /\ packet' = [packet EXCEPT ![built + 1] = None]
    BY <2>1, <2>2, <2>5 DEF TypeOK, SlotsOK
  <2> QED
    BY <1>12, <2>3, <2>4, <2>5 DEF BuildSlot
<1> QED
  BY SlotSteps, <1>1, <1>2, <1>3, <1>4, <1>5, <1>6, <1>7, <1>8, <1>9, <1>10, <1>11, <1>12

-----------------------------------------------------------------------------
(* What pushing to and popping from a queue does to its elements. *)
LEMMA Pushing ==
  ASSUME NEW q \in Seq(Slots), NEW s \in Slots
  PROVE  /\ Append(q, s) \in Seq(Slots)
         /\ Elements(Append(q, s)) = Elements(q) \cup {s}
<1>1. /\ Append(q, s) \in Seq(Slots)
      /\ Len(Append(q, s)) = Len(q) + 1
      /\ \A i \in 1 .. Len(q) : Append(q, s)[i] = q[i]
      /\ Append(q, s)[Len(q) + 1] = s
  OBVIOUS
<1>2. DOMAIN q = 1 .. Len(q) /\ DOMAIN Append(q, s) = 1 .. Len(q) + 1 /\ Len(q) \in Nat
  BY <1>1
<1>3. ASSUME NEW x \in Elements(Append(q, s)) PROVE x \in Elements(q) \cup {s}
  <2>1. PICK i \in 1 .. Len(q) + 1 : x = Append(q, s)[i]
    BY <1>2, <1>3 DEF Elements
  <2> QED
    BY <1>1, <1>2, <2>1 DEF Elements
<1>4. ASSUME NEW x \in Elements(q) PROVE x \in Elements(Append(q, s))
  <2>1. PICK i \in 1 .. Len(q) : x = q[i]
    BY <1>2, <1>4 DEF Elements
  <2> QED
    BY <1>1, <1>2, <2>1 DEF Elements
<1>5. s \in Elements(Append(q, s))
  <2>1. Len(q) + 1 \in DOMAIN Append(q, s)
    BY <1>2
  <2> QED
    BY <1>1, <2>1 DEF Elements
<1> QED
  BY <1>1, <1>3, <1>4, <1>5

LEMMA Popping ==
  ASSUME NEW q \in Seq(Slots), q # <<>>
  PROVE  /\ Head(q) \in Slots
         /\ Tail(q) \in Seq(Slots)
         /\ Elements(q) \subseteq {Head(q)} \cup Elements(Tail(q))
<1>1. /\ Len(q) \in Nat \ {0}
      /\ DOMAIN q = 1 .. Len(q)
      /\ Head(q) = q[1]
  OBVIOUS
<1>2. /\ Tail(q) \in Seq(Slots)
      /\ Len(Tail(q)) = Len(q) - 1
      /\ \A i \in 1 .. Len(q) - 1 : Tail(q)[i] = q[i + 1]
  BY <1>1
<1>3. DOMAIN Tail(q) = 1 .. Len(q) - 1
  BY <1>2
<1>4. ASSUME NEW x \in Elements(q), x # Head(q) PROVE x \in Elements(Tail(q))
  <2>1. PICK i \in 1 .. Len(q) : x = q[i]
    BY <1>1, <1>4 DEF Elements
  <2>2. i - 1 \in 1 .. Len(q) - 1 /\ x = Tail(q)[i - 1]
    BY <1>1, <1>2, <1>4, <2>1
  <2> QED
    BY <1>3, <2>2 DEF Elements
<1> QED
  BY <1>1, <1>2, <1>4

-----------------------------------------------------------------------------
LEMMA QueuesType ==
  ASSUME TypeOK, HoldsSlot, [Next]_vars
  PROVE  QueuesOK'
<1> USE DEF TypeOK, QueuesOK
<1>1. ASSUME NEW f \in Frames, Produce(f) \/ Abandon(f)
      PROVE  QueuesOK'
  <2>1. CASE AcquirePop(f)
    BY <2>1, Popping DEF AcquirePop
  <2>2. CASE SubmitQueue(f)
    BY <2>2, Pushing DEF SubmitQueue, Goto, HoldsSlot, FramesHold, WorkerHolds
  <2>3. CASE UNCHANGED <<free, pending>>
    BY <2>3
  <2> QED
    BY <1>1, <2>1, <2>2, <2>3 DEF Produce, Abandon, AcquireCheck, AcquireClaim,
         AcquireClaimFails, Fill, SubmitCheck, SubmitMark, SubmitMarkFails, SubmitStamp
<1>2. ASSUME NEW f \in Frames, Consume(f)
      PROVE  QueuesOK'
  <2>1. CASE Requeue(f)
    BY <2>1, Pushing DEF Requeue, Goto, HoldsSlot, FramesHold, WorkerHolds
  <2>2. CASE UNCHANGED <<free, pending>>
    BY <2>2
  <2> QED
    BY <1>2, <2>1, <2>2 DEF Consume, TryBegin, TryMatch, TryPeek, TryTake, Release, Recycle
<1>3. CASE Worker
  <2>1. CASE WorkerFetch
    BY <2>1, Popping DEF WorkerFetch
  <2>2. CASE WorkerRequeue
    BY <2>2, Pushing DEF WorkerRequeue, WorkerGoto, HoldsSlot, FramesHold, WorkerHolds
  <2>3. CASE UNCHANGED <<free, pending>>
    BY <2>3
  <2> QED
    BY <1>3, <2>1, <2>2, <2>3 DEF Worker, WorkerLoop, WorkerSleep, WorkerEnter, WorkerStart,
         WorkerPut, WorkerPutFails, WorkerPoll, WorkerPollFails, WorkerFinish, WorkerRecycle,
         WorkerLeave
<1>4. CASE ResetRaise \/ ResetConfig
  <2>1. CASE ResetPending \/ ResetFree
    BY <2>1, EmptySeq DEF ResetPending, ResetFree
  <2>2. CASE BuildSlot
    <3>1. built' = built + 1 /\ built + 1 \in Slots
      BY <2>2 DEF BuildSlot, ControlOK
    <3>2. Append(free, built + 1) \in Seq(Slots)
      BY <3>1, Pushing
    <3> QED
      BY <2>2, <3>1, <3>2 DEF BuildSlot
  <2>3. CASE UNCHANGED <<free, pending>>
    BY <2>3
  <2> QED
    BY <1>4, <2>1, <2>2, <2>3 DEF ResetConfig, ResetRaise, ResetQuiesced, ResetCleanup, ResetDone
<1>5. CASE ShutdownBegin \/ Shutdown \/ EndOfThisEncode
  BY <1>5 DEF ShutdownBegin, Shutdown, ShutdownNotify, ShutdownJoin, EndOfThisEncode
<1>6. CASE UNCHANGED vars
  BY <1>6 DEF vars
<1> QED
  BY <1>1, <1>2, <1>3, <1>4, <1>5, <1>6 DEF Next

LEMMA ClientsLeaveControl ==
  ASSUME NEW f \in Frames, Produce(f) \/ Abandon(f) \/ Consume(f)
  PROVE  UNCHANGED <<controlVars, endOfEncode, threadVars>>
<1>1. CASE Produce(f) \/ Abandon(f)
  BY <1>1 DEF Produce, Abandon, AcquireCheck, AcquirePop, AcquireClaim, AcquireClaimFails,
       Fill, SubmitCheck, SubmitMark, SubmitMarkFails, SubmitQueue, SubmitStamp
<1>2. CASE Consume(f)
  BY <1>2 DEF Consume, TryBegin, TryMatch, TryPeek, TryTake, Release, Recycle, Requeue
<1> QED
  BY <1>1, <1>2

LEMMA ControlType ==
  ASSUME TypeOK, Handshake, [Next]_vars
  PROVE  ControlOK'
<1> USE DEF TypeOK, ControlOK
<1>1. ASSUME NEW f \in Frames, Produce(f) \/ Abandon(f) \/ Consume(f)
      PROVE  ControlOK'
  <2>1. UNCHANGED <<controlVars, endOfEncode, threadVars>>
    BY <1>1, ClientsLeaveControl
  <2> QED
    BY <2>1 DEF controlVars, threadVars
<1>2. CASE Worker
  <2>1. CASE WorkerEnter \/ WorkerLeave
    BY <2>1 DEF WorkerEnter, WorkerLeave, threadVars
  <2>2. CASE UNCHANGED <<controlVars, endOfEncode, threadVars>>
    BY <2>2 DEF controlVars, threadVars
  <2> QED
    BY <1>2, <2>1, <2>2 DEF Worker, WorkerLoop, WorkerFetch, WorkerSleep, WorkerStart, WorkerPut,
         WorkerPutFails, WorkerPoll, WorkerPollFails, WorkerFinish, WorkerRecycle, WorkerRequeue
<1>3. CASE ResetRaise \/ ResetPending \/ ResetFree \/ ResetDone
  BY <1>3 DEF ResetRaise, ResetPending, ResetFree, ResetDone, ControlGoto, controlVars
<1>8. CASE ResetCleanup
  BY <1>8 DEF ResetCleanup, ControlGoto, controlVars
<1>4. CASE ResetQuiesced
  BY <1>4 DEF ResetQuiesced, ControlGoto, Handshake
<1>5. CASE BuildSlot
  BY <1>5 DEF BuildSlot, controlVars
<1>6. CASE ShutdownBegin \/ Shutdown \/ EndOfThisEncode
  BY <1>6 DEF ShutdownBegin, Shutdown, ShutdownNotify, ShutdownJoin, EndOfThisEncode, ControlGoto,
       controlVars, threadVars
<1>7. CASE UNCHANGED vars
  BY <1>7 DEF vars, controlVars, threadVars
<1> QED
  BY <1>1, <1>2, <1>3, <1>4, <1>5, <1>6, <1>7, <1>8 DEF Next, ResetConfig

(* A step of the core's own threads, or of the clients' control. *)
Others == EndOfThisEncode \/ Worker \/ ResetRaise \/ ResetConfig \/ ShutdownBegin \/ Shutdown

LEMMA OthersLeaveFrames ==
  ASSUME Others \/ UNCHANGED vars
  PROVE  UNCHANGED frameVars
<1>1. CASE Worker
  BY <1>1 DEF Worker, WorkerLoop, WorkerFetch, WorkerSleep, WorkerEnter, WorkerStart, WorkerPut,
       WorkerPutFails, WorkerPoll, WorkerPollFails, WorkerFinish, WorkerRecycle, WorkerRequeue,
       WorkerLeave
<1>2. CASE ResetRaise \/ ResetConfig
  BY <1>2 DEF ResetRaise, ResetConfig, ResetQuiesced, ResetPending, ResetFree, ResetCleanup,
       BuildSlot, ResetDone
<1>3. CASE EndOfThisEncode \/ ShutdownBegin \/ Shutdown
  BY <1>3 DEF EndOfThisEncode, ShutdownBegin, Shutdown, ShutdownNotify, ShutdownJoin
<1>4. CASE UNCHANGED vars
  BY <1>4 DEF vars
<1> QED
  BY <1>1, <1>2, <1>3, <1>4 DEF Others

LEMMA StepKinds ==
  ASSUME [Next]_vars
  PROVE  \/ \E f \in Frames : Produce(f) \/ Abandon(f) \/ Consume(f)
         \/ Others \/ UNCHANGED vars
BY DEF Next, Others

(* The frames keep their types, and a slot number once past the pop. *)
LEMMA FramesType ==
  ASSUME TypeOK, HoldsSlot, [Next]_vars
  PROVE  FramesOK' /\ FramesHold'
<1> USE DEF TypeOK, FramesOK, FramesHold
<1>0. FramesHold
  BY DEF HoldsSlot
<1>1. ASSUME NEW f \in Frames, Produce(f) \/ Abandon(f)
      PROVE  FramesOK' /\ FramesHold'
  <2>1. CASE AcquirePop(f)
    <3>1. free # <<>> => Head(free) \in Slots
      BY Popping DEF QueuesOK
    <3> QED
      BY <1>0, <2>1, <3>1 DEF AcquirePop, Goto
  <2>2. CASE AcquireClaim(f) \/ SubmitStamp(f)
    <3>1. fslot[f] \in Slots
      BY <1>0, <2>2 DEF AcquireClaim, SubmitStamp, Goto
    <3>2. generation[fslot[f]] \in 2 .. MaxGeneration
      BY <3>1 DEF SlotsOK
    <3> QED
      BY <1>0, <2>2, <3>1, <3>2 DEF AcquireClaim, SubmitStamp, Goto
  <2>3. CASE AcquireCheck(f) \/ AcquireClaimFails(f) \/ Fill(f) \/ Abandon(f)
    BY <1>0, <2>3 DEF AcquireCheck, AcquireClaimFails, Fill, Abandon, Goto
  <2>4. CASE SubmitCheck(f) \/ SubmitMark(f) \/ SubmitMarkFails(f) \/ SubmitQueue(f)
    BY <1>0, <2>4 DEF SubmitCheck, SubmitMark, SubmitMarkFails, SubmitQueue, Goto
  <2> QED
    BY <1>1, <2>1, <2>2, <2>3, <2>4 DEF Produce
<1>2. ASSUME NEW f \in Frames, Consume(f)
      PROVE  FramesOK' /\ FramesHold'
  <2>1. CASE TryTake(f)
    <3>1. fslot[f] \in Slots
      BY <1>0, <2>1 DEF TryTake, Goto
    <3>2. packet[fslot[f]] \in Frames \cup {None}
      BY <3>1 DEF SlotsOK
    <3> QED
      BY <1>0, <2>1, <3>2 DEF TryTake, Goto
  <2>2. CASE TryBegin(f) \/ TryMatch(f) \/ TryPeek(f)
    BY <1>0, <2>2 DEF TryBegin, TryMatch, TryPeek, Goto
  <2>3. CASE Release(f) \/ Recycle(f) \/ Requeue(f)
    BY <1>0, <2>3 DEF Release, Recycle, Requeue, Goto
  <2> QED
    BY <1>2, <2>1, <2>2, <2>3 DEF Consume
<1>3. CASE UNCHANGED frameVars
  BY <1>0, <1>3 DEF frameVars
<1> QED
  BY <1>1, <1>2, <1>3, StepKinds, OthersLeaveFrames

LEMMA ClientsLeaveWorker ==
  ASSUME NEW f \in Frames, Produce(f) \/ Abandon(f) \/ Consume(f)
  PROVE  UNCHANGED <<wslot, job>> /\ (wpc' = wpc \/ (wpc = "asleep" /\ wpc' = "fetching"))
<1>1. CASE SubmitQueue(f)
  BY <1>1 DEF SubmitQueue, NotifyPending
<1>2. CASE Produce(f) \/ Abandon(f)
  BY <1>1, <1>2 DEF Produce, Abandon, AcquireCheck, AcquirePop, AcquireClaim, AcquireClaimFails,
       Fill, SubmitCheck, SubmitMark, SubmitMarkFails, SubmitStamp, workerVars
<1>3. CASE Consume(f)
  BY <1>3 DEF Consume, TryBegin, TryMatch, TryPeek, TryTake, Release, Recycle, Requeue, workerVars
<1> QED
  BY <1>1, <1>2, <1>3

LEMMA ControlLeavesWorker ==
  ASSUME \/ ResetRaise \/ ResetConfig \/ ShutdownBegin \/ Shutdown \/ EndOfThisEncode
         \/ UNCHANGED vars
  PROVE  UNCHANGED <<wslot, job>> /\ (wpc' = wpc \/ (wpc = "asleep" /\ wpc' = "fetching"))
<1>1. CASE ResetRaise \/ ShutdownNotify
  BY <1>1 DEF ResetRaise, ShutdownNotify, NotifyPending
<1>2. CASE ResetConfig
  BY <1>2 DEF ResetConfig, ResetQuiesced, ResetPending, ResetFree, ResetCleanup, BuildSlot,
       ResetDone, workerVars
<1>3. CASE ShutdownBegin \/ ShutdownJoin \/ EndOfThisEncode
  BY <1>3 DEF ShutdownBegin, ShutdownJoin, EndOfThisEncode, workerVars
<1>4. CASE UNCHANGED vars
  BY <1>4 DEF vars, workerVars
<1> QED
  BY <1>1, <1>2, <1>3, <1>4 DEF Shutdown

LEMMA WorkerType ==
  ASSUME TypeOK, HoldsSlot, [Next]_vars
  PROVE  WorkerOK' /\ WorkerHolds'
<1> USE DEF TypeOK, WorkerOK, WorkerHolds
<1>0. WorkerHolds
  BY DEF HoldsSlot
<1>1. CASE UNCHANGED <<wslot, job>> /\ (wpc' = wpc \/ (wpc = "asleep" /\ wpc' = "fetching"))
  BY <1>0, <1>1
<1>2. CASE Worker
  <2>1. CASE WorkerFetch
    <3>1. pending # <<>> => Head(pending) \in Slots
      BY Popping DEF QueuesOK
    <3> QED
      BY <1>0, <2>1, <3>1 DEF WorkerFetch
  <2>2. CASE WorkerPut
    <3>1. wslot \in Slots
      BY <1>0, <2>2 DEF WorkerPut, WorkerGoto
    <3>2. Source(wslot) # Absent => Source(wslot) \in Frames \cup {None}
      BY <3>1 DEF Source, SlotsOK
    <3> QED
      BY <1>0, <2>2, <3>2 DEF WorkerPut, WorkerGoto
  <2>3. CASE WorkerLoop \/ WorkerSleep \/ WorkerEnter \/ WorkerStart \/ WorkerPutFails
    BY <1>0, <2>3 DEF WorkerLoop, WorkerSleep, WorkerEnter, WorkerStart, WorkerPutFails, WorkerGoto
  <2>4. CASE WorkerPoll \/ WorkerPollFails \/ WorkerFinish \/ WorkerRecycle
    BY <1>0, <2>4 DEF WorkerPoll, WorkerPollFails, WorkerFinish, WorkerRecycle, WorkerGoto
  <2>5. CASE WorkerRequeue \/ WorkerLeave
    BY <1>0, <2>5 DEF WorkerRequeue, WorkerLeave, WorkerGoto
  <2> QED
    BY <1>2, <2>1, <2>2, <2>3, <2>4, <2>5 DEF Worker
<1> QED
  BY <1>1, <1>2, StepKinds, ClientsLeaveWorker, ControlLeavesWorker DEF Others

-----------------------------------------------------------------------------
(* The handshake.                                                          *)

LEMMA HandshakeStep ==
  ASSUME TypeOK, Handshake, RebuildExcludesEncoding, [Next]_vars
  PROVE  Handshake' /\ RebuildExcludesEncoding'
<1> USE DEF Handshake, RebuildExcludesEncoding, Rebuilding, InEncodeSection
<1>1. CASE Worker
  <2>1. CASE WorkerLoop \/ WorkerFetch \/ WorkerSleep \/ WorkerStart \/ WorkerPut \/ WorkerPutFails
    BY <2>1 DEF WorkerLoop, WorkerFetch, WorkerSleep, WorkerStart, WorkerPut, WorkerPutFails,
         WorkerGoto, controlVars, threadVars
  <2>2. CASE WorkerPoll \/ WorkerPollFails \/ WorkerFinish \/ WorkerRecycle \/ WorkerRequeue
    BY <2>2 DEF WorkerPoll, WorkerPollFails, WorkerFinish, WorkerRecycle, WorkerRequeue,
         WorkerGoto, controlVars, threadVars
  <2>3. CASE WorkerEnter
    BY <2>3 DEF WorkerEnter, threadVars
  <2>4. CASE WorkerLeave
    BY <2>4 DEF WorkerLeave, WorkerGoto, threadVars
  <2> QED
    BY <1>1, <2>1, <2>2, <2>3, <2>4 DEF Worker
<1>2. CASE ResetRaise \/ ResetConfig
  <2>1. CASE ResetRaise
    BY <2>1 DEF ResetRaise, ControlGoto, NotifyPending
  <2>2. CASE ResetQuiesced
    BY <2>2 DEF ResetQuiesced, ControlGoto, workerVars
  <2>3. CASE ResetPending \/ ResetFree \/ ResetCleanup \/ ResetDone \/ BuildSlot
    BY <2>3 DEF ResetPending, ResetFree, ResetCleanup, ResetDone, BuildSlot, ControlGoto,
         workerVars, controlVars
  <2> QED
    BY <1>2, <2>1, <2>2, <2>3 DEF ResetConfig
<1>3. CASE ShutdownBegin \/ Shutdown \/ EndOfThisEncode
  BY <1>3 DEF ShutdownBegin, Shutdown, ShutdownNotify, ShutdownJoin, EndOfThisEncode, ControlGoto,
       NotifyPending, workerVars, controlVars, threadVars
<1>4. ASSUME NEW f \in Frames, Produce(f) \/ Abandon(f) \/ Consume(f)
      PROVE  Handshake' /\ RebuildExcludesEncoding'
  <2>1. UNCHANGED <<controlVars, threadVars>>
    BY <1>4, ClientsLeaveControl
  <2> QED
    BY <1>4, <2>1, ClientsLeaveWorker DEF controlVars, threadVars
<1>5. CASE UNCHANGED vars
  BY <1>5 DEF vars, workerVars, controlVars, threadVars
<1> QED
  BY <1>1, <1>2, <1>3, <1>4, <1>5, StepKinds DEF Others

-----------------------------------------------------------------------------
(* What a step of a client does to the slots.                              *)

LEMMA OtherFrames ==
  ASSUME TypeOK, NEW f \in Frames, Produce(f) \/ Abandon(f) \/ Consume(f),
         NEW g \in Frames, g # f
  PROVE  fpc'[g] = fpc[g] /\ fslot'[g] = fslot[g] /\ fgen'[g] = fgen[g]
<1> USE DEF TypeOK, FramesOK, Goto
<1>1. CASE AcquireCheck(f) \/ AcquirePop(f) \/ AcquireClaim(f) \/ AcquireClaimFails(f)
  BY <1>1 DEF AcquireCheck, AcquirePop, AcquireClaim, AcquireClaimFails
<1>2. CASE Fill(f) \/ Abandon(f) \/ SubmitCheck(f) \/ SubmitMark(f) \/ SubmitMarkFails(f)
  BY <1>2 DEF Fill, Abandon, SubmitCheck, SubmitMark, SubmitMarkFails
<1>3. CASE SubmitQueue(f) \/ SubmitStamp(f) \/ TryBegin(f) \/ TryMatch(f) \/ TryPeek(f)
  BY <1>3 DEF SubmitQueue, SubmitStamp, TryBegin, TryMatch, TryPeek
<1>4. CASE TryTake(f) \/ Release(f) \/ Recycle(f) \/ Requeue(f)
  BY <1>4 DEF TryTake, Release, Recycle, Requeue
<1> QED
  BY <1>1, <1>2, <1>3, <1>4 DEF Produce, Consume

(* The fields of the slots. *)
LEMMA ClientFields ==
  ASSUME TypeOK, HoldsSlot, NEW f \in Frames, Produce(f) \/ Abandon(f) \/ Consume(f),
         NEW s \in Slots
  PROVE  /\ generation' = generation
         /\ state[s] = "invalid" <=> state'[s] = "invalid"
         /\ dmabuf[s] = Absent <=> dmabuf'[s] = Absent
         /\ dmabuf[s] = Absent /\ external[s] = None => external'[s] = None
         /\ \/ state'[s] = state[s]
            \/ AcquireClaim(f) \/ SubmitMark(f)
            \/ Recycle(f) /\ fslot[f] = s /\ fpc'[f] = "requeueing"
<1> USE DEF TypeOK, SlotsOK, HoldsSlot, FramesHold
<1>1. CASE UNCHANGED slotVars
  BY <1>1 DEF slotVars
<1>2. CASE AcquireClaim(f) \/ SubmitMark(f)
  BY <1>2 DEF AcquireClaim, SubmitMark, Goto
<1>3. CASE Fill(f)
  BY <1>3 DEF Fill, Goto
<1>4. CASE SubmitQueue(f)
  BY <1>4 DEF SubmitQueue, Goto
<1>5. CASE TryTake(f)
  BY <1>5 DEF TryTake, Goto
<1>6. CASE Recycle(f)
  <2>1. fslot[f] \in Slots
    BY <1>6 DEF Recycle
  <2>2. CASE Recyclable(fslot[f])
    BY <1>6, <2>1, <2>2 DEF Recycle, Recyclable, MarkWritable, FramesOK
  <2> QED
    BY <1>1, <1>6, <2>2 DEF Recycle
<1> QED
  BY <1>1, <1>2, <1>3, <1>4, <1>5, <1>6 DEF Produce, Consume, Abandon, AcquireCheck, AcquirePop,
     AcquireClaimFails, SubmitCheck, SubmitMarkFails, SubmitStamp, TryBegin, TryMatch, TryPeek,
     Release, Requeue

(* The free queue. *)
LEMMA ClientQueue ==
  ASSUME TypeOK, HoldsSlot, NEW f \in Frames, Produce(f) \/ Abandon(f) \/ Consume(f)
  PROVE  /\ \A s \in Elements(free) :
              \/ s \in Elements(free')
              \/ fpc'[f] = "claiming" /\ fslot'[f] = s
         /\ fpc[f] = "requeueing" => fslot[f] \in Elements(free')
<1> USE DEF TypeOK, QueuesOK
<1>1. CASE AcquirePop(f)
  <2>1. CASE free = <<>>
    BY <1>1, <2>1 DEF AcquirePop, Goto
  <2>2. CASE free # <<>>
    <3>1. fpc'[f] = "claiming" /\ fslot'[f] = Head(free) /\ free' = Tail(free) /\ fpc[f] = "popping"
      BY <1>1, <2>2 DEF AcquirePop, Goto, FramesOK
    <3> QED
      BY <2>2, <3>1, Popping
  <2> QED
    BY <2>1, <2>2
<1>2. CASE Requeue(f)
  <2>1. fslot[f] \in Slots /\ free' = Append(free, fslot[f])
    BY <1>2 DEF Requeue, Goto, HoldsSlot, FramesHold
  <2> QED
    BY <2>1, Pushing
<1>3. CASE Produce(f) \/ Abandon(f)
  BY <1>1, <1>3 DEF Produce, Abandon, Goto, AcquireCheck, AcquireClaim, AcquireClaimFails,
       Fill, SubmitCheck, SubmitMark, SubmitMarkFails, SubmitQueue, SubmitStamp
<1>4. CASE Consume(f)
  BY <1>2, <1>4 DEF Consume, TryBegin, TryMatch, TryPeek, TryTake, Release, Recycle, Goto
<1> QED
  BY <1>1, <1>2, <1>3, <1>4

(* A frame that will return its slot does, or still will, or finds it      *)
(* returned.                                                               *)
LEMMA ClientReturns ==
  ASSUME TypeOK, HoldsSlot, NEW f \in Frames, Produce(f) \/ Abandon(f) \/ Consume(f),
         NEW s \in Slots, WillReturn(f, s)
  PROVE  \/ WillReturn(f, s)'
         \/ s \in Elements(free')
         \/ ~Recyclable(s) /\ state' = state /\ fpc[f] = "recycling" /\ fpc'[f] # "claiming"
<1> USE DEF TypeOK, FramesOK, WillReturn, Owning, Goto
<1>0. generation' = generation
  BY ClientFields
<1>1. CASE AcquireCheck(f) \/ AcquirePop(f)
  BY <1>1 DEF AcquireCheck, AcquirePop
<1>2. CASE AcquireClaim(f) \/ AcquireClaimFails(f) \/ Fill(f) \/ Abandon(f)
  BY <1>2 DEF AcquireClaim, AcquireClaimFails, Fill, Abandon
<1>3. CASE SubmitCheck(f) \/ SubmitMark(f) \/ SubmitMarkFails(f) \/ SubmitQueue(f)
  BY <1>3 DEF SubmitCheck, SubmitMark, SubmitMarkFails, SubmitQueue
<1>4. CASE SubmitStamp(f)
  BY <1>0, <1>4 DEF SubmitStamp
<1>5. CASE TryBegin(f) \/ TryMatch(f) \/ TryPeek(f) \/ TryTake(f)
  BY <1>0, <1>5 DEF TryBegin, TryMatch, TryPeek, TryTake
<1>6. CASE Release(f)
  BY <1>0, <1>6 DEF Release
<1>7. CASE Recycle(f)
  BY <1>7 DEF Recycle, slotVars
<1>8. CASE Requeue(f)
  BY <1>8, ClientQueue DEF Requeue
<1> QED
  BY <1>1, <1>2, <1>3, <1>4, <1>5, <1>6, <1>7, <1>8 DEF Produce, Consume

LEMMA ClientTracks ==
  ASSUME TypeOK, HoldsSlot, WritableTracked, AllTracked, "spuriousCas" \notin Events,
         NEW f \in Frames, Produce(f) \/ Abandon(f) \/ Consume(f)
  PROVE  WritableTracked' /\ AllTracked'
<1>1. cpc' = cpc /\ wslot' = wslot /\ (wpc' = wpc \/ (wpc = "asleep" /\ wpc' = "fetching"))
  BY ClientsLeaveControl, ClientsLeaveWorker DEF threadVars
<1>2. ASSUME NEW s \in Slots, cpc # "cleaning", state'[s] = "Writable"
      PROVE  \/ s \in Elements(free')
             \/ wslot' = s /\ wpc' = "requeueing"
             \/ \E g \in Frames : fslot'[g] = s /\ fpc'[g] \in {"claiming", "requeueing"}
  <2>1. CASE Recycle(f) /\ fslot[f] = s /\ fpc'[f] = "requeueing"
    BY <2>1 DEF Recycle
  <2>2. CASE AcquireClaim(f) \/ SubmitMark(f)
    <3>1. state[s] = "Writable" /\ fslot[f] # s
      BY <1>2, <2>2 DEF AcquireClaim, SubmitMark, Goto, TypeOK, SlotsOK
    <3>2. free' = free
      BY <2>2 DEF AcquireClaim, SubmitMark
    <3> QED
      BY <1>1, <1>2, <3>1, <3>2, OtherFrames DEF WritableTracked
  <2>3. CASE state'[s] = state[s]
    <3>1. CASE s \in Elements(free)
      BY <3>1, ClientQueue
    <3>2. CASE wslot = s /\ wpc = "requeueing"
      BY <1>1, <3>2
    <3>3. ASSUME NEW g \in Frames, fslot[g] = s, fpc[g] \in {"claiming", "requeueing"}, g # f
          PROVE  fslot'[g] = s /\ fpc'[g] \in {"claiming", "requeueing"}
      BY <3>3, OtherFrames
    <3>4. CASE fslot[f] = s /\ fpc[f] = "requeueing"
      BY <3>4, ClientQueue
    <3>5. CASE fslot[f] = s /\ fpc[f] = "claiming"
      <4>1. AcquireClaim(f) \/ AcquireClaimFails(f)
        BY <3>5 DEF Produce, Abandon, Consume, AcquireCheck, AcquirePop, Fill, SubmitCheck,
           SubmitMark, SubmitMarkFails, SubmitQueue, SubmitStamp, TryBegin, TryMatch, TryPeek,
           TryTake, Release, Recycle, Requeue, Goto
      <4>2. ~AcquireClaim(f)
        BY <1>2, <2>3, <3>5 DEF AcquireClaim, TypeOK, SlotsOK
      <4> QED
        BY <1>2, <2>3, <3>5, <4>1, <4>2 DEF AcquireClaimFails
    <3> QED
      BY <1>2, <2>3, <3>1, <3>2, <3>3, <3>4, <3>5 DEF WritableTracked
  <2> QED
    BY <2>1, <2>2, <2>3, ClientFields
<1>3. WritableTracked'
  BY <1>1, <1>2 DEF WritableTracked
<1>4. ASSUME NEW s \in Slots, cpc # "cleaning"
      PROVE  Tracked(s)'
  <2>1. CASE state[s] = "invalid"
    BY <2>1, ClientFields DEF Tracked
  <2>2. CASE s \in Elements(free)
    <3>1. CASE fpc'[f] = "claiming" /\ fslot'[f] = s
      BY <3>1 DEF Tracked, WillReturn
    <3> QED
      BY <2>2, <3>1, ClientQueue DEF Tracked
  <2>3. CASE wslot = s /\ wpc = "requeueing"
    BY <1>1, <2>3 DEF Tracked
  <2>4. CASE wslot = s /\ wpc \in {"putting", "recycling"} /\ dmabuf[s] = Absent
    BY <1>1, <2>4, ClientFields DEF Tracked
  <2>5. ASSUME NEW g \in Frames, WillReturn(g, s), g # f
        PROVE  Tracked(s)'
    <3>1. WillReturn(g, s)'
      BY <2>5, OtherFrames, ClientFields DEF WillReturn
    <3> QED
      BY <3>1 DEF Tracked
  <2>6. CASE WillReturn(f, s)
    <3>1. CASE WillReturn(f, s)' \/ s \in Elements(free')
      BY <3>1 DEF Tracked
    <3>2. CASE state' = state /\ state[s] = "Writable"
      <4>1. \/ s \in Elements(free')
            \/ wslot' = s /\ wpc' = "requeueing"
            \/ \E g \in Frames : fslot'[g] = s /\ fpc'[g] \in {"claiming", "requeueing"}
        BY <1>2, <1>4, <3>2
      <4> QED
        BY <4>1 DEF Tracked, WillReturn
    <3> QED
      BY <2>1, <2>6, <3>1, <3>2, ClientReturns DEF Recyclable
  <2> QED
    BY <1>4, <2>1, <2>2, <2>3, <2>4, <2>5, <2>6 DEF AllTracked, Tracked
<1>5. AllTracked'
  BY <1>1, <1>4 DEF AllTracked
<1> QED
  BY <1>3, <1>5

-----------------------------------------------------------------------------
(* What a step of the worker does to the slots.                            *)

LEMMA WorkerLeavesOthers ==
  ASSUME Worker
  PROVE  UNCHANGED <<generation, dmabuf, threadVars, frameVars>>
<1>1. CASE WorkerRecycle
  BY <1>1 DEF WorkerRecycle, MarkWritable, slotVars
<1> QED
  BY <1>1 DEF Worker, WorkerLoop, WorkerFetch, WorkerSleep, WorkerEnter, WorkerStart, WorkerPut,
     WorkerPutFails, WorkerPoll, WorkerPollFails, WorkerFinish, WorkerRequeue, WorkerLeave, slotVars

(* Only the start of an encoding makes an invalid slot anything else. *)
LEMMA WorkerStates ==
  ASSUME TypeOK, HoldsSlot, EncodedIsValid, Worker, NEW s \in Slots
  PROVE  /\ state[s] = "invalid" =>
              state'[s] = "invalid" \/ (WorkerStart /\ wslot = s)
         /\ state[s] # "invalid" => state'[s] # "invalid"
         /\ state'[s] = "Writable" =>
              state[s] = "Writable" \/ (wslot' = s /\ wpc' = "requeueing")
<1> USE DEF TypeOK, SlotsOK, HoldsSlot, WorkerHolds
<1>1. CASE WorkerStart
  BY <1>1 DEF WorkerStart, WorkerGoto
<1>2. CASE WorkerFinish
  <2>1. wslot \in Slots /\ state[wslot] # "invalid"
    BY <1>2 DEF WorkerFinish, WorkerGoto, EncodedIsValid
  <2> QED
    BY <1>2, <2>1 DEF WorkerFinish
<1>3. CASE WorkerRecycle
  <2>1. wslot \in Slots
    BY <1>3 DEF WorkerRecycle
  <2>2. CASE Recyclable(wslot)
    BY <1>3, <2>1, <2>2 DEF WorkerRecycle, Recyclable, MarkWritable
  <2>3. CASE ~Recyclable(wslot)
    BY <1>3, <2>3 DEF WorkerRecycle, slotVars
  <2> QED
    BY <2>2, <2>3
<1>4. CASE UNCHANGED state
  BY <1>4
<1> QED
  BY <1>1, <1>2, <1>3, <1>4 DEF Worker, WorkerLoop, WorkerFetch, WorkerSleep, WorkerEnter,
     WorkerPut,
     WorkerPutFails, WorkerPoll, WorkerPollFails, WorkerRequeue, WorkerLeave, slotVars

LEMMA WorkerQueue ==
  ASSUME TypeOK, HoldsSlot, Worker
  PROVE  /\ Elements(free) \subseteq Elements(free')
         /\ wpc = "requeueing" => wslot \in Elements(free')
<1>1. CASE WorkerRequeue
  <2>1. wslot \in Slots /\ free' = Append(free, wslot)
    BY <1>1 DEF WorkerRequeue, WorkerGoto, HoldsSlot, WorkerHolds
  <2> QED
    BY <2>1, Pushing DEF TypeOK, QueuesOK
<1> QED
  BY <1>1 DEF Worker, WorkerLoop, WorkerFetch, WorkerSleep, WorkerEnter, WorkerStart, WorkerPut,
     WorkerPutFails, WorkerPoll, WorkerPollFails, WorkerFinish, WorkerRecycle, WorkerLeave,
     WorkerGoto

(* A slot without a buffer that the worker holds is not put into MPP. *)
LEMMA WorkerKeepsAbsent ==
  ASSUME TypeOK, HoldsSlot, Buffers, Worker, wpc \in {"putting", "recycling"}, dmabuf[wslot] = Absent
  PROVE  /\ wslot' = wslot
         /\ \/ wpc' \in {"recycling", "requeueing"}
            \/ wpc' = "leaving" /\ state' = state /\ ~Recyclable(wslot)
<1>1. wslot \in Slots
  BY DEF HoldsSlot, WorkerHolds
<1>2. ~WorkerPut
  BY <1>1 DEF WorkerPut, Source, Buffers
<1>3. CASE WorkerPutFails \/ WorkerRecycle
  BY <1>3 DEF WorkerPutFails, WorkerRecycle, WorkerGoto, slotVars
<1> QED
  BY <1>2, <1>3 DEF Worker, WorkerLoop, WorkerFetch, WorkerSleep, WorkerEnter, WorkerStart,
     WorkerPoll, WorkerPollFails, WorkerFinish, WorkerRequeue, WorkerLeave, WorkerGoto

LEMMA WorkerTracks ==
  ASSUME TypeOK, HoldsSlot, Buffers, EncodedIsValid, WritableTracked, AllTracked, Worker
  PROVE  WritableTracked' /\ AllTracked'
<1>1. UNCHANGED <<generation, dmabuf, cpc, fpc, fslot, fgen>>
  BY WorkerLeavesOthers DEF threadVars, frameVars
<1>2. ASSUME NEW s \in Slots, cpc # "cleaning", state'[s] = "Writable"
      PROVE  \/ s \in Elements(free')
             \/ wslot' = s /\ wpc' = "requeueing"
             \/ \E g \in Frames : fslot'[g] = s /\ fpc'[g] \in {"claiming", "requeueing"}
  BY <1>1, <1>2, WorkerStates, WorkerQueue DEF WritableTracked
<1>3. WritableTracked'
  BY <1>1, <1>2 DEF WritableTracked
<1>4. ASSUME NEW s \in Slots, cpc # "cleaning"
      PROVE  Tracked(s)'
  <2>1. CASE state[s] = "invalid"
    <3>1. CASE WorkerStart /\ wslot = s
      BY <1>1, <2>1, <3>1 DEF WorkerStart, WorkerGoto, Buffers, Tracked
    <3> QED
      BY <2>1, <3>1, WorkerStates DEF Tracked
  <2>2. CASE s \in Elements(free)
    BY <2>2, WorkerQueue DEF Tracked
  <2>3. CASE wslot = s /\ wpc = "requeueing"
    BY <2>3, WorkerQueue DEF Tracked
  <2>4. CASE wslot = s /\ wpc \in {"putting", "recycling"} /\ dmabuf[s] = Absent
    <3>1. CASE wpc' \in {"recycling", "requeueing"} /\ wslot' = wslot
      BY <1>1, <2>4, <3>1 DEF Tracked
    <3>2. CASE state' = state /\ state[s] = "invalid"
      BY <3>2 DEF Tracked
    <3>3. CASE state' = state /\ state[s] = "Writable"
      <4>1. \/ s \in Elements(free')
            \/ wslot' = s /\ wpc' = "requeueing"
            \/ \E g \in Frames : fslot'[g] = s /\ fpc'[g] \in {"claiming", "requeueing"}
        BY <1>2, <1>4, <3>3
      <4> QED
        BY <4>1 DEF Tracked, WillReturn
    <3> QED
      BY <2>4, <3>1, <3>2, <3>3, WorkerKeepsAbsent DEF Recyclable
  <2>5. ASSUME NEW g \in Frames, WillReturn(g, s)
        PROVE  Tracked(s)'
    <3>1. WillReturn(g, s)'
      BY <1>1, <2>5 DEF WillReturn
    <3> QED
      BY <3>1 DEF Tracked
  <2> QED
    BY <1>4, <2>1, <2>2, <2>3, <2>4, <2>5 DEF AllTracked, Tracked
<1>5. AllTracked'
  BY <1>1, <1>4 DEF AllTracked
<1> QED
  BY <1>3, <1>5

-----------------------------------------------------------------------------
(* What the control thread does to the slots.                              *)

LEMMA ControlTracks ==
  ASSUME TypeOK, HoldsSlot, WritableTracked, AllTracked,
         \/ ResetRaise \/ ResetConfig \/ ShutdownBegin \/ Shutdown \/ EndOfThisEncode
         \/ UNCHANGED vars
  PROVE  WritableTracked' /\ AllTracked'
<1> USE DEF WritableTracked, AllTracked, Tracked, WillReturn
<1>1. UNCHANGED <<fpc, fslot, fgen, wslot>> /\ (wpc' = wpc \/ (wpc = "asleep" /\ wpc' = "fetching"))
  BY OthersLeaveFrames, ControlLeavesWorker DEF Others, frameVars
<1>2. CASE UNCHANGED <<slotVars, free>> /\ cpc # "cleaning"
  BY <1>1, <1>2 DEF slotVars
<1>3. CASE ResetFree
  BY <1>3 DEF ResetFree, ControlGoto
<1>4. CASE ResetCleanup \/ ShutdownJoin
  BY <1>4 DEF ResetCleanup, ShutdownJoin, InvalidateSlots
<1>5. CASE BuildSlot
  <2>1. CASE UNCHANGED <<slotVars, free>>
    BY <1>2, <1>5, <2>1 DEF BuildSlot
  <2>2. CASE ~UNCHANGED <<slotVars, free>>
    <3>1. built + 1 \in Slots
      BY <1>5 DEF BuildSlot, TypeOK, ControlOK
    <3>2. /\ built' = built + 1 /\ cpc' = cpc /\ cpc # "cleaning"
          /\ state' = [state EXCEPT ![built + 1] = "Writable"]
          /\ generation' = [generation EXCEPT ![built + 1] = configGeneration]
          /\ dmabuf' = [dmabuf EXCEPT ![built + 1] = None]
          /\ free' = Append(free, built + 1)
      BY <1>5, <2>2 DEF BuildSlot
    <3>3. Elements(free') = Elements(free) \cup {built + 1}
      BY <3>1, <3>2, Pushing DEF TypeOK, QueuesOK
    <3>4. ASSUME NEW s \in Slots, s # built + 1
          PROVE  /\ state'[s] = state[s] /\ generation'[s] = generation[s] /\ dmabuf'[s] = dmabuf[s]
                 /\ s \in Elements(free) => s \in Elements(free')
      BY <3>2, <3>3, <3>4 DEF TypeOK, SlotsOK
    <3> QED
      BY <1>1, <3>2, <3>3, <3>4
  <2> QED
    BY <2>1, <2>2
<1>6. CASE UNCHANGED <<slotVars, free>> /\ UNCHANGED cpc
  BY <1>1, <1>6 DEF slotVars
<1>7. CASE ResetRaise \/ ResetQuiesced \/ ResetPending \/ ResetDone \/ ShutdownBegin
  BY <1>2, <1>7 DEF ResetRaise, ResetQuiesced, ResetPending, ResetDone, ShutdownBegin, ControlGoto
<1>8. CASE ShutdownNotify
  BY <1>2, <1>8 DEF ShutdownNotify, ControlGoto
<1>9. CASE EndOfThisEncode \/ UNCHANGED vars
  BY <1>6, <1>9 DEF EndOfThisEncode, vars, threadVars
<1> QED
  BY <1>3, <1>4, <1>5, <1>7, <1>8, <1>9 DEF ResetConfig, Shutdown

-----------------------------------------------------------------------------
(* Buffers and the slot in MPP.                                            *)

LEMMA ControlFields ==
  ASSUME TypeOK, Handshake, RebuildExcludesEncoding, Buffers, EncodedIsValid,
         \/ ResetRaise \/ ResetConfig \/ ShutdownBegin \/ Shutdown \/ EndOfThisEncode
         \/ UNCHANGED vars
  PROVE  Buffers' /\ EncodedIsValid'
<1> USE DEF Buffers, EncodedIsValid
<1>1. wslot' = wslot /\ (wpc' = wpc \/ (wpc = "asleep" /\ wpc' = "fetching"))
  BY ControlLeavesWorker
<1>2. CASE UNCHANGED slotVars
  BY <1>1, <1>2 DEF slotVars
<1>3. CASE ResetCleanup
  <2>1. wpc \notin {"putting", "polling", "finishing"}
    BY <1>3 DEF ResetCleanup, ControlGoto, RebuildExcludesEncoding, Rebuilding, InEncodeSection
  <2> QED
    BY <1>1, <1>3, <2>1 DEF ResetCleanup, InvalidateSlots
<1>4. CASE ShutdownJoin
  BY <1>1, <1>4 DEF ShutdownJoin, InvalidateSlots
<1>5. CASE BuildSlot
  <2>1. built + 1 \in Slots /\ built' = built + 1
    BY <1>5 DEF BuildSlot, TypeOK, ControlOK
  <2>2. wpc \notin {"putting", "polling", "finishing"}
    BY <1>5 DEF BuildSlot, RebuildExcludesEncoding, Rebuilding, InEncodeSection
  <2>3. CASE ~UNCHANGED <<slotVars, free>>
    <3>1. /\ state' = [state EXCEPT ![built + 1] = "Writable"]
          /\ dmabuf' = [dmabuf EXCEPT ![built + 1] = None]
          /\ external' = [external EXCEPT ![built + 1] = None]
      BY <1>5, <2>1, <2>3 DEF BuildSlot
    <3> QED
      BY <1>1, <2>1, <2>2, <3>1 DEF TypeOK, SlotsOK
  <2> QED
    BY <1>2, <2>3
<1> QED
  BY <1>2, <1>3, <1>4, <1>5 DEF ResetConfig, Shutdown, ResetRaise, ResetQuiesced, ResetPending,
     ResetFree,
     ResetDone, ShutdownBegin, ShutdownNotify, EndOfThisEncode, vars

LEMMA BuffersStep ==
  ASSUME TypeOK, HoldsSlot, Handshake, RebuildExcludesEncoding, Buffers, EncodedIsValid, [Next]_vars
  PROVE  Buffers' /\ EncodedIsValid'
<1>1. ASSUME NEW f \in Frames, Produce(f) \/ Abandon(f) \/ Consume(f)
      PROVE  Buffers' /\ EncodedIsValid'
  <2>1. Buffers'
    BY <1>1, ClientFields DEF Buffers
  <2>2. wpc' \in {"putting", "polling", "finishing"} => state'[wslot'] # "invalid"
    BY <1>1, ClientFields, ClientsLeaveWorker DEF EncodedIsValid, HoldsSlot, WorkerHolds
  <2> QED
    BY <2>1, <2>2 DEF EncodedIsValid
<1>2. CASE Worker
  <2>1. dmabuf' = dmabuf
    BY <1>2, WorkerLeavesOthers
  <2>2. ASSUME NEW s \in Slots, external[s] = None
        PROVE  external'[s] = None
    <3>1. CASE WorkerRecycle
      BY <2>2, <3>1 DEF WorkerRecycle, MarkWritable, slotVars, TypeOK, SlotsOK
    <3> QED
      BY <1>2, <2>2, <3>1 DEF Worker, WorkerLoop, WorkerFetch, WorkerSleep, WorkerEnter,
         WorkerStart,
         WorkerPut, WorkerPutFails, WorkerPoll, WorkerPollFails, WorkerFinish, WorkerRequeue,
         WorkerLeave, slotVars
  <2>3. ASSUME NEW s \in Slots, state'[s] = "invalid"
        PROVE  state[s] = "invalid"
    BY <1>2, <2>3, WorkerStates
  <2>4. wpc' \in {"putting", "polling", "finishing"} =>
           wslot' \in Slots /\ state'[wslot'] # "invalid"
    <3>1. CASE WorkerStart
      BY <3>1 DEF WorkerStart, WorkerGoto, TypeOK, SlotsOK, HoldsSlot, WorkerHolds
    <3>2. CASE WorkerPut \/ WorkerPoll
      BY <3>2 DEF WorkerPut, WorkerPoll, WorkerGoto, slotVars, EncodedIsValid, HoldsSlot,
         WorkerHolds
    <3> QED
      BY <1>2, <3>1, <3>2 DEF Worker, WorkerLoop, WorkerFetch, WorkerSleep, WorkerEnter,
         WorkerPutFails, WorkerPollFails, WorkerFinish, WorkerRecycle, WorkerRequeue, WorkerLeave,
         WorkerGoto
  <2> QED
    BY <2>1, <2>2, <2>3, <2>4 DEF Buffers, EncodedIsValid
<1> QED
  BY <1>1, <1>2, StepKinds, ControlFields DEF Others

-----------------------------------------------------------------------------
(* The theorems.                                                           *)

LEMMA InitInv == Init => PoolInv
<1> SUFFICES ASSUME Init PROVE PoolInv
  OBVIOUS
<1>1. free \in Seq(Slots) /\ pending \in Seq(Slots) /\ Elements(free) = Slots
  <2>1. SlotCount \in Nat /\ free = [i \in 1 .. SlotCount |-> i]
    BY DEF Init
  <2>2. free \in Seq(Slots)
    BY <2>1, SeqDef
  <2> QED
    BY <2>1, <2>2, EmptySeq DEF Init, Elements
<1>2. SlotsOK
  BY DEF Init, SlotsOK
<1>0. running = TRUE /\ reset = FALSE /\ encoding = FALSE /\ endOfEncode = FALSE
  BY DEF Init
<1>3. ControlOK
  <2>1. running \in BOOLEAN /\ reset \in BOOLEAN /\ encoding \in BOOLEAN /\ endOfEncode \in BOOLEAN
    BY ONLY <1>0
  <2>2. configGeneration \in 2 .. MaxGeneration /\ cpc \in ControlPc /\ built \in 0 .. SlotCount
    BY DEF Init
  <2> QED
    BY <2>1, <2>2 DEF ControlOK
<1>4. FramesOK /\ WorkerOK
  BY DEF Init, FramesOK, WorkerOK
<1>5. HoldsSlot /\ Handshake /\ RebuildExcludesEncoding
  <2>1. HoldsSlot
    BY DEF Init, HoldsSlot, FramesHold, WorkerHolds
  <2>2. running = TRUE /\ cpc = "idle" /\ wpc = "loop"
    BY DEF Init
  <2> QED
    BY <2>1, <2>2 DEF Handshake, RebuildExcludesEncoding, Rebuilding, InEncodeSection
<1>6. WritableTracked /\ AllTracked
  BY <1>1 DEF WritableTracked, AllTracked, Tracked
<1>7. Buffers /\ EncodedIsValid
  BY DEF Init, Buffers, EncodedIsValid
<1> QED
  BY <1>1, <1>2, <1>3, <1>4, <1>5, <1>6, <1>7 DEF PoolInv, TypeOK, QueuesOK

(* The part of the invariant that needs no assumption about the events. *)
BaseInv == TypeOK /\ HoldsSlot /\ Handshake /\ RebuildExcludesEncoding /\ Buffers /\ EncodedIsValid

LEMMA BaseStep ==
  ASSUME BaseInv, [Next]_vars
  PROVE  BaseInv'
<1>1. TypeOK' /\ HoldsSlot'
  BY SlotsType, QueuesType, ControlType, FramesType, WorkerType DEF BaseInv, TypeOK, HoldsSlot
<1>2. Handshake' /\ RebuildExcludesEncoding'
  BY HandshakeStep DEF BaseInv
<1>3. Buffers' /\ EncodedIsValid'
  BY BuffersStep DEF BaseInv
<1> QED
  BY <1>1, <1>2, <1>3 DEF BaseInv

(* Every variable keeps its type, whatever the environment does. *)
THEOREM TypeCorrect == Spec => []TypeOK
<1>1. Init => BaseInv
  BY InitInv DEF PoolInv, BaseInv
<1>2. BaseInv /\ [Next]_vars => BaseInv'
  BY BaseStep
<1>3. BaseInv => TypeOK
  BY DEF BaseInv
<1> QED
  BY <1>1, <1>2, <1>3, PTL DEF Spec

(* The handshake of resetInProgress_ and workerEncoding_ keeps the worker  *)
(* out of the encode section while resetConfig rebuilds the pool, for any  *)
(* number of slots, frames and resets and whatever fails.                  *)
THEOREM HandshakeHolds == Spec => []RebuildExcludesEncoding
<1>1. Init => BaseInv
  BY InitInv DEF PoolInv, BaseInv
<1>2. BaseInv /\ [Next]_vars => BaseInv'
  BY BaseStep
<1>3. BaseInv => RebuildExcludesEncoding
  BY DEF BaseInv
<1> QED
  BY <1>1, <1>2, <1>3, PTL DEF Spec

LEMMA PoolStep ==
  ASSUME "spuriousCas" \notin Events, PoolInv, [Next]_vars
  PROVE  PoolInv'
<1>1. BaseInv'
  BY BaseStep DEF PoolInv, BaseInv
<1>2. WritableTracked' /\ AllTracked'
  BY StepKinds, ClientTracks, WorkerTracks, ControlTracks DEF PoolInv, Others
<1> QED
  BY <1>1, <1>2 DEF PoolInv, BaseInv

(* No slot drops out of the pool as long as compare_exchange_weak never    *)
(* fails spuriously: with failed encodings, clients that give up, double   *)
(* releases, resets, failed allocations and a shutdown in any order, each  *)
(* valid slot is queued, in the worker's hands or will be recycled.        *)
THEOREM NothingLost == "spuriousCas" \notin Events /\ Spec => []NoSlotLost
<1> SUFFICES ASSUME "spuriousCas" \notin Events PROVE Spec => []NoSlotLost
  OBVIOUS
<1>1. Init => PoolInv
  BY InitInv
<1>2. PoolInv /\ [Next]_vars => PoolInv'
  BY PoolStep
<1>3. PoolInv => NoSlotLost
  BY DEF PoolInv, AllTracked, Tracked, NoSlotLost
<1> QED
  BY <1>1, <1>2, <1>3, PTL DEF Spec

-----------------------------------------------------------------------------
(***************************************************************************)
(* What the clients are promised.  The one thing that puts a slot into two *)
(* hands is a release of the worker's own, after a failed encoding or      *)
(* during a shutdown, followed by the client's (the run                    *)
(* encoder_double_release); and a reset takes the slots from everybody.    *)
(* Without these a slot has one owner; when moreover nobody gives up on a  *)
(* frame that is still queued, the core is the service of EncoderService.  *)
(***************************************************************************)
Steady ==
  /\ MaxGeneration = 2
  /\ Events \cap {"encodeFails", "shutdown"} = {}

Calm == Steady /\ "giveUp" \notin Events

(* The control thread never leaves its place. *)
Undisturbed ==
  /\ cpc = "idle" /\ running = TRUE /\ reset = FALSE
  /\ wpc \notin {"recycling", "requeueing", "exited"}
  /\ \A s \in Slots : dmabuf[s] # Absent

(* From the pop until the slot is back in the free queue. *)
Holding == {"claiming", "recycling", "requeueing"} \cup Owning

(* Queued, encoded or waiting to be taken. *)
Submitted == {"stamping", "waiting", "matching", "peeking"}

HeldBy(f, s) == fpc[f] \in Holding /\ fslot[f] = s
SubmittedBy(f, s) == fpc[f] \in Submitted /\ fslot[f] = s

FramesApart ==
  \A f, g \in Frames :
    fpc[f] \in Holding /\ fpc[g] \in Holding /\ fslot[f] = fslot[g] => f = g

FreeApart ==
  /\ \A i, j \in DOMAIN free : free[i] = free[j] => i = j
  /\ \A i \in DOMAIN free : \A f \in Frames : ~HeldBy(f, free[i])

(* Exclusive ownership needs no more: where the slots are. *)
PlaceInv == BaseInv /\ Undisturbed /\ FramesApart /\ FreeApart

(* The rest is about the states of the slots. *)
FreeWritable == \A i \in DOMAIN free : state[free[i]] = "Writable"

(* A frame knows the state of its slot from where it is in its passage. *)
FrameState(f, st) ==
  /\ fpc[f] \in {"claiming", "requeueing"} => st = "Writable"
  /\ fpc[f] \in {"writing", "written", "marking"} => st = "Writing"
  /\ fpc[f] = "queueing" => st = "Filled"
  /\ fpc[f] \in Submitted => st \in {"Filled", "Encoding", "Encoded"}
  /\ fpc[f] \in {"taking", "holding"} => st = "Encoded"
  /\ fpc[f] = "recycling" =>
       st = IF fgen[f] = 0 THEN "Writable" ELSE IF got[f] = None THEN "Writing" ELSE "Encoded"

(* The generation of a meta is 0 until the slot is claimed, and a frame    *)
(* gets nothing before its packet is taken.                                *)
FrameFields(f) ==
  /\ fpc[f] \in {"new", "popping", "claiming"} => fgen[f] = 0
  /\ fpc[f] \in Owning => fgen[f] = 2
  /\ fpc[f] \in {"new", "popping", "claiming"} \cup (Owning \ {"holding"}) => got[f] = None
  /\ fpc[f] = "holding" => got[f] = f
  /\ got[f] \in {None, f}

Working == {"entering", "starting", "putting", "polling", "finishing"}

WorkerApart ==
  wpc \in Working =>
    /\ state[wslot] = IF wpc \in {"entering", "starting"} THEN "Filled" ELSE "Encoding"
    /\ \E f \in Frames : SubmittedBy(f, wslot)

PendingApart ==
  /\ \A i, j \in DOMAIN pending : pending[i] = pending[j] => i = j
  /\ \A i \in DOMAIN pending :
       /\ state[pending[i]] = "Filled"
       /\ wpc \in Working => pending[i] # wslot
       /\ \E f \in Frames : SubmittedBy(f, pending[i])

(* What a frame wrote is what is encoded for it; an external buffer does  *)
(* not outlive its frame.                                                  *)
FrameContents(f, s) ==
  /\ fpc[f] \in Owning \ {"writing", "holding"} => dmabuf[s] = f
  /\ fpc[f] \in {"claiming", "writing", "written", "marking", "queueing"} => external[s] = None
  /\ fpc[f] \in Submitted \cup {"taking"} =>
       /\ external[s] \in {None, f}
       /\ state[s] = "Encoded" => packet[s] = f
  /\ fpc[f] \in Submitted /\ wslot = s =>
       /\ wpc \in {"polling", "finishing"} => job = f
       /\ wpc = "finishing" => packet[s] = f

FramesCalm ==
  \A f \in Frames :
    FrameState(f, state[fslot[f]]) /\ FrameFields(f) /\ FrameContents(f, fslot[f])

(* recycleSlot clears the external buffer. *)
NoStaleBuffer == \A s \in Slots : state[s] = "Writable" => external[s] = None

CalmInv ==
  /\ BaseInv /\ Undisturbed /\ FramesApart /\ FreeApart
  /\ FreeWritable /\ FramesCalm /\ NoStaleBuffer /\ WorkerApart /\ PendingApart

(* A client that holds a packet holds that of its own frame, encoded from  *)
(* its own buffer (encoderCore.cpp:417-433, 464-475).                      *)
OwnPacket == \A f \in Frames : fpc[f] = "holding" => got[f] = f

-----------------------------------------------------------------------------
(* What the steps of a frame leave alone. *)

LEMMA OthersKeep ==
  ASSUME TypeOK, NEW f \in Frames, Produce(f) \/ Abandon(f) \/ Consume(f),
         NEW g \in Frames, g # f
  PROVE  got'[g] = got[g]
<1> USE DEF TypeOK, FramesOK, Goto
<1>1. CASE Produce(f) \/ Abandon(f)
  BY <1>1 DEF Produce, AcquireCheck, AcquirePop, AcquireClaim, AcquireClaimFails, Fill, Abandon,
     SubmitCheck, SubmitMark, SubmitMarkFails, SubmitQueue, SubmitStamp
<1>2. CASE Consume(f)
  BY <1>2 DEF Consume, TryBegin, TryMatch, TryPeek, TryTake, Release, Recycle, Requeue
<1> QED
  BY <1>1, <1>2

(* A frame touches the slot it holds and no other. *)
LEMMA OtherSlots ==
  ASSUME TypeOK, HoldsSlot, NEW f \in Frames, Produce(f) \/ Abandon(f) \/ Consume(f),
         NEW s \in Slots, ~HeldBy(f, s)
  PROVE  state'[s] = state[s] /\ dmabuf'[s] = dmabuf[s] /\ external'[s] = external[s] /\ packet'[s] = packet[s]
<1> USE DEF TypeOK, SlotsOK, HoldsSlot, FramesHold, HeldBy, Holding, Owning, Goto
<1>1. CASE UNCHANGED slotVars
  BY <1>1 DEF slotVars
<1>2. CASE AcquireClaim(f) \/ SubmitMark(f)
  BY <1>2 DEF AcquireClaim, SubmitMark
<1>3. CASE Fill(f) \/ SubmitQueue(f) \/ TryTake(f)
  BY <1>3 DEF Fill, SubmitQueue, TryTake
<1>4. CASE Recycle(f)
  BY <1>1, <1>4 DEF Recycle, MarkWritable
<1> QED
  BY <1>1, <1>2, <1>3, <1>4 DEF Produce, Consume, Abandon, AcquireCheck, AcquirePop,
     AcquireClaimFails, SubmitCheck, SubmitMarkFails, SubmitStamp, TryBegin, TryMatch, TryPeek,
     Release, Requeue

(* How a frame comes to hold a slot, and how it stays submitted. *)
LEMMA HoldingSteps ==
  ASSUME TypeOK, HoldsSlot, NEW f \in Frames, Produce(f) \/ Abandon(f) \/ Consume(f)
  PROVE  /\ \/ fpc'[f] \notin Holding
            \/ fpc[f] \in Holding /\ fslot'[f] = fslot[f]
            \/ AcquirePop(f) /\ free # <<>>
         /\ fpc[f] \in Submitted =>
              /\ fslot'[f] = fslot[f] /\ UNCHANGED slotVars
              /\ \/ fpc'[f] \in Submitted
                 \/ fpc'[f] = "taking" /\ state[fslot[f]] = "Encoded"
                 \/ Release(f)
<1> USE DEF TypeOK, FramesOK, Holding, Owning, Submitted, Goto
<1>1. CASE AcquireCheck(f) \/ AcquirePop(f) \/ AcquireClaim(f) \/ AcquireClaimFails(f) \/ Fill(f) \/ Abandon(f)
  BY <1>1 DEF AcquireCheck, AcquirePop, AcquireClaim, AcquireClaimFails, Fill, Abandon
<1>2. CASE SubmitCheck(f) \/ SubmitMark(f) \/ SubmitMarkFails(f) \/ SubmitQueue(f) \/ SubmitStamp(f)
  BY <1>2 DEF SubmitCheck, SubmitMark, SubmitMarkFails, SubmitQueue, SubmitStamp
<1>3. CASE TryBegin(f) \/ TryMatch(f) \/ TryPeek(f) \/ TryTake(f)
  BY <1>3 DEF TryBegin, TryMatch, TryPeek, TryTake
<1>4. CASE Release(f) \/ Recycle(f) \/ Requeue(f)
  BY <1>4 DEF Release, Recycle, Requeue
<1> QED
  BY <1>1, <1>2, <1>3, <1>4 DEF Produce, Consume

-----------------------------------------------------------------------------
(* A steady core stays undisturbed: only the frames and the worker move. *)

LEMMA CalmGeneration ==
  ASSUME Calm, TypeOK, NEW s \in Slots
  PROVE  generation[s] = 2
BY DEF Calm, Steady, TypeOK, SlotsOK

LEMMA StaysUndisturbed ==
  ASSUME Steady, BaseInv, Undisturbed, [Next]_vars
  PROVE  /\ Undisturbed'
         /\ \/ \E f \in Frames : Produce(f) \/ Abandon(f) \/ Consume(f)
            \/ Worker
            \/ UNCHANGED <<slotVars, free, pending, frameVars, workerVars>>
<1> USE DEF Undisturbed
<1>0. TypeOK /\ HoldsSlot /\ configGeneration = 2 /\ MaxGeneration = 2
  BY DEF BaseInv, TypeOK, ControlOK, Steady
<1>1. ASSUME NEW f \in Frames, Produce(f) \/ Abandon(f) \/ Consume(f)
      PROVE  Undisturbed'
  <2>1. running' = running /\ reset' = reset /\ cpc' = cpc
    BY <1>1, ClientsLeaveControl DEF controlVars, threadVars
  <2>2. wpc' \notin {"recycling", "requeueing", "exited"}
    BY <1>1, ClientsLeaveWorker
  <2>3. \A s \in Slots : dmabuf'[s] # Absent
    BY <1>0, <1>1, ClientFields
  <2> QED
    BY <2>1, <2>2, <2>3
<1>2. ASSUME Worker
      PROVE  Undisturbed'
  <2>1. dmabuf' = dmabuf /\ cpc' = cpc
    BY <1>2, WorkerLeavesOthers DEF threadVars
  <2>2. wpc \in {"putting"} => Source(wslot) # Absent
    BY <1>0 DEF HoldsSlot, WorkerHolds, Source, TypeOK, SlotsOK
  <2>3. /\ running' = running /\ reset' = reset
        /\ wpc' \notin {"recycling", "requeueing", "exited"}
    <3>1. CASE WorkerLoop \/ WorkerFetch \/ WorkerSleep \/ WorkerEnter \/ WorkerStart
      BY <3>1 DEF WorkerLoop, WorkerFetch, WorkerSleep, WorkerEnter, WorkerStart, WorkerGoto,
         controlVars
    <3>2. CASE WorkerPut \/ WorkerPutFails \/ WorkerPoll \/ WorkerPollFails
      BY <2>2, <3>2 DEF WorkerPut, WorkerPutFails, WorkerPoll, WorkerPollFails, WorkerGoto,
         controlVars, Steady
    <3>3. CASE WorkerFinish \/ WorkerRecycle \/ WorkerRequeue \/ WorkerLeave
      BY <3>3 DEF WorkerFinish, WorkerRecycle, WorkerRequeue, WorkerLeave, WorkerGoto, controlVars
    <3> QED
      BY <1>2, <3>1, <3>2, <3>3 DEF Worker
  <2> QED
    BY <2>1, <2>3
<1>3. ASSUME EndOfThisEncode \/ UNCHANGED vars
      PROVE  Undisturbed' /\ UNCHANGED <<slotVars, free, pending, frameVars, workerVars>>
  BY <1>3 DEF EndOfThisEncode, vars, slotVars, workerVars, controlVars, threadVars
<1>4. ~(ResetRaise \/ ResetConfig \/ ShutdownBegin \/ Shutdown)
  BY <1>0 DEF ResetRaise, ResetConfig, ResetQuiesced, ResetPending, ResetFree, ResetCleanup,
     BuildSlot,
     ResetDone, ShutdownBegin, Shutdown, ShutdownNotify, ShutdownJoin, ControlGoto, Steady
<1> QED
  BY <1>1, <1>2, <1>3, <1>4, StepKinds DEF Others

-----------------------------------------------------------------------------
(* A step of a client. *)

(* The frame that moves knows its slot again after the step. *)
LEMMA OwnFrame ==
  ASSUME Calm, CalmInv, NEW f \in Frames, Produce(f) \/ Abandon(f) \/ Consume(f)
  PROVE  FrameState(f, state[fslot[f]])' /\ FrameFields(f)'
<1> USE DEF FrameState, FrameFields, FramesCalm, Holding, Owning, Submitted, Goto
<1>0. /\ TypeOK /\ FramesOK /\ SlotsOK /\ FrameState(f, state[fslot[f]]) /\ FrameFields(f)
      /\ fpc[f] \notin {"new", "popping"} => fslot[f] \in Slots
  BY DEF CalmInv, BaseInv, TypeOK, HoldsSlot, FramesHold
<1>1. \A s \in Slots : generation[s] = 2
  BY <1>0, CalmGeneration
<1>2. None # f
  OBVIOUS
<1> USE DEF FramesOK, SlotsOK
<1>3. CASE AcquireCheck(f)
  BY <1>0, <1>3 DEF AcquireCheck, slotVars
<1>4. CASE AcquirePop(f)
  <2>1. CASE free = <<>>
    BY <1>0, <1>4, <2>1 DEF AcquirePop, slotVars
  <2>2. CASE free # <<>>
    <3>1. state[Head(free)] = "Writable"
      <4>1. 1 \in DOMAIN free /\ Head(free) = free[1]
        BY <1>0, <2>2 DEF TypeOK, QueuesOK
      <4> QED
        BY <4>1 DEF CalmInv, FreeWritable
    <3> QED
      BY <1>0, <1>4, <2>2, <3>1 DEF AcquirePop, slotVars
  <2> QED
    BY <2>1, <2>2
<1>5. CASE AcquireClaim(f)
  BY <1>0, <1>1, <1>5 DEF AcquireClaim
<1>6. CASE AcquireClaimFails(f) \/ Abandon(f) \/ SubmitCheck(f)
  BY <1>0, <1>6 DEF AcquireClaimFails, Abandon, SubmitCheck, slotVars, CalmInv, Undisturbed
<1>7. CASE Fill(f)
  BY <1>0, <1>7 DEF Fill
<1>8. CASE SubmitMark(f)
  BY <1>0, <1>8 DEF SubmitMark
<1>9. CASE SubmitMarkFails(f)
  BY <1>0, <1>9 DEF SubmitMarkFails, slotVars
<1>10. CASE SubmitQueue(f)
  BY <1>0, <1>10 DEF SubmitQueue
<1>11. CASE SubmitStamp(f)
  BY <1>0, <1>1, <1>11 DEF SubmitStamp, slotVars
<1>12. CASE TryBegin(f) \/ TryMatch(f) \/ TryPeek(f)
  BY <1>0, <1>12 DEF TryBegin, TryMatch, TryPeek, slotVars
<1>13. CASE TryTake(f)
  <2>1. packet[fslot[f]] = f
    BY <1>0, <1>13 DEF TryTake, CalmInv, FrameContents
  <2> QED
    BY <1>0, <1>13, <2>1 DEF TryTake
<1>14. CASE Release(f)
  <2>1. fpc[f] = "holding" /\ fgen[f] = 2
    BY <1>0, <1>1, <1>14 DEF Release, Calm
  <2> QED
    BY <1>0, <1>14, <2>1, <1>2 DEF Release, slotVars
<1>15. CASE Recycle(f)
  <2>1. CASE Recyclable(fslot[f])
    BY <1>0, <1>15, <2>1 DEF Recycle, MarkWritable
  <2>2. CASE ~Recyclable(fslot[f])
    BY <1>0, <1>15, <2>2 DEF Recycle, slotVars
  <2> QED
    BY <2>1, <2>2
<1>16. CASE Requeue(f)
  BY <1>0, <1>16 DEF Requeue, slotVars
<1> QED
  BY <1>3, <1>4, <1>5, <1>6, <1>7, <1>8, <1>9, <1>10, <1>11, <1>12, <1>13, <1>14, <1>15, <1>16
     DEF Produce, Consume

LEMMA OwnContents ==
  ASSUME Calm, CalmInv, NEW f \in Frames, Produce(f) \/ Abandon(f) \/ Consume(f)
  PROVE  FrameContents(f, fslot[f])'
<1> USE DEF FrameContents, FramesCalm, Holding, Owning, Submitted, Goto
<1>0. /\ TypeOK /\ FramesOK /\ SlotsOK
      /\ FrameState(f, state[fslot[f]]) /\ FrameFields(f) /\ FrameContents(f, fslot[f])
      /\ fpc[f] \notin {"new", "popping"} => fslot[f] \in Slots
  BY DEF CalmInv, BaseInv, TypeOK, HoldsSlot, FramesHold
<1>1. \A s \in Slots : generation[s] = 2 /\ dmabuf[s] # Absent
  BY <1>0, CalmGeneration DEF CalmInv, Undisturbed
<1>2. wslot' = wslot /\ job' = job /\ (wpc' \in {"polling", "finishing"} => wpc' = wpc)
  BY ClientsLeaveWorker
<1> USE DEF FramesOK, SlotsOK
<1>3. CASE AcquireCheck(f)
  BY <1>0, <1>2, <1>3 DEF AcquireCheck, slotVars
<1>4. CASE AcquirePop(f)
  <2>1. CASE free = <<>>
    BY <1>0, <1>2, <1>4, <2>1 DEF AcquirePop, slotVars
  <2>2. CASE free # <<>>
    <3>1. external[Head(free)] = None
      <4>1. 1 \in DOMAIN free /\ Head(free) = free[1] /\ Head(free) \in Slots
        BY <1>0, <2>2, Popping DEF TypeOK, QueuesOK
      <4> QED
        BY <4>1 DEF CalmInv, FreeWritable, NoStaleBuffer
    <3> QED
      BY <1>0, <1>2, <1>4, <2>2, <3>1 DEF AcquirePop, slotVars
  <2> QED
    BY <2>1, <2>2
<1>5. CASE AcquireClaim(f) \/ AcquireClaimFails(f) \/ Abandon(f) \/ SubmitCheck(f)
  BY <1>0, <1>2, <1>5 DEF AcquireClaim, AcquireClaimFails, Abandon, SubmitCheck, slotVars
<1>7. CASE Fill(f)
  <2>1. fgen[f] = 2
    BY <1>0, <1>7 DEF Fill, FrameFields
  <2> QED
    BY <1>0, <1>1, <1>2, <1>7, <2>1 DEF Fill
<1>8. CASE SubmitMark(f) \/ SubmitMarkFails(f)
  BY <1>0, <1>2, <1>8 DEF SubmitMark, SubmitMarkFails, slotVars
<1>10. CASE SubmitQueue(f)
  <2>1. state[fslot[f]] = "Filled"
    BY <1>0, <1>10 DEF SubmitQueue, FrameState
  <2>2. wpc \in Working => wslot # fslot[f]
    BY <1>10 DEF SubmitQueue, CalmInv, WorkerApart, FramesApart, SubmittedBy
  <2> QED
    BY <1>0, <1>2, <1>10, <2>1, <2>2 DEF SubmitQueue, Working
<1>11. CASE SubmitStamp(f)
  BY <1>0, <1>2, <1>11 DEF SubmitStamp, slotVars
<1>12. CASE TryBegin(f) \/ TryMatch(f) \/ TryPeek(f)
  BY <1>0, <1>2, <1>12 DEF TryBegin, TryMatch, TryPeek, slotVars
<1>13. CASE TryTake(f) \/ Release(f) \/ Recycle(f)
  BY <1>0, <1>2, <1>13 DEF TryTake, Release, Recycle
<1>16. CASE Requeue(f)
  BY <1>0, <1>16 DEF Requeue, slotVars
<1> QED
  BY <1>3, <1>4, <1>5, <1>7, <1>8, <1>10, <1>11, <1>12, <1>13, <1>16 DEF Produce, Consume

(* The other frames find their slots as they left them. *)
LEMMA FramesStep ==
  ASSUME Calm, CalmInv, NEW f \in Frames, Produce(f) \/ Abandon(f) \/ Consume(f)
  PROVE  FramesCalm' /\ NoStaleBuffer'
<1>0. TypeOK /\ HoldsSlot
  BY DEF CalmInv, BaseInv
<1>1. wslot' = wslot /\ job' = job /\ (wpc' \in {"polling", "finishing"} => wpc' = wpc)
  BY ClientsLeaveWorker
<1>2. ASSUME NEW g \in Frames, g # f
      PROVE  FrameState(g, state[fslot[g]])' /\ FrameFields(g)' /\ FrameContents(g, fslot[g])'
  <2>1. fpc'[g] = fpc[g] /\ fslot'[g] = fslot[g] /\ fgen'[g] = fgen[g] /\ got'[g] = got[g]
    BY <1>0, <1>2, OtherFrames, OthersKeep
  <2>2. FrameFields(g)'
    BY <2>1 DEF FrameFields, CalmInv, FramesCalm
  <2>3. CASE fpc[g] \in Holding
    <3>1. fslot[g] \in Slots /\ ~HeldBy(f, fslot[g])
      BY <1>0, <1>2, <2>3 DEF HoldsSlot, FramesHold, Holding, Owning, HeldBy, CalmInv, FramesApart
    <3>2. /\ state'[fslot[g]] = state[fslot[g]] /\ dmabuf'[fslot[g]] = dmabuf[fslot[g]]
          /\ external'[fslot[g]] = external[fslot[g]] /\ packet'[fslot[g]] = packet[fslot[g]]
      BY <1>0, <3>1, OtherSlots
    <3> QED
      BY <1>1, <2>1, <2>2, <3>2 DEF FrameState, FrameContents, CalmInv, FramesCalm
  <2>4. CASE fpc[g] \notin Holding
    BY <2>1, <2>2, <2>4 DEF FrameState, FrameContents, Holding, Owning, Submitted
  <2> QED
    BY <2>3, <2>4
<1>3. FramesCalm'
  BY <1>2, OwnFrame, OwnContents DEF FramesCalm
<1>4. ASSUME NEW s \in Slots, state'[s] = "Writable"
      PROVE  external'[s] = None
  <2>1. CASE ~HeldBy(f, s)
    BY <1>0, <1>4, <2>1, OtherSlots DEF CalmInv, NoStaleBuffer
  <2>2. CASE state[s] = "Writable" /\ external'[s] = external[s]
    BY <2>2 DEF CalmInv, NoStaleBuffer
  <2>3. CASE HeldBy(f, s) /\ Recycle(f) /\ Recyclable(fslot[f])
    BY <1>0, <2>3 DEF Recycle, MarkWritable, HeldBy, TypeOK, SlotsOK
  <2>4. CASE HeldBy(f, s) /\ SubmitQueue(f)
    BY <1>0, <1>4, <2>4 DEF SubmitQueue, HeldBy, Goto, CalmInv, FramesCalm, FrameState
  <2> QED
    BY <1>0, <1>4, <2>1, <2>2, <2>3, <2>4 DEF HeldBy, TypeOK, SlotsOK, Produce, Abandon, Consume,
       AcquireCheck, AcquirePop,
       AcquireClaim, AcquireClaimFails, Fill, SubmitCheck, SubmitMark, SubmitMarkFails, SubmitStamp,
       TryBegin, TryMatch, TryPeek, TryTake, Release, Recycle, Requeue, slotVars
<1> QED
  BY <1>3, <1>4 DEF NoStaleBuffer

(* Slots in a queue are there once. *)
Distinct(q) == \A i, j \in DOMAIN q : q[i] = q[j] => i = j

LEMMA PushingApart ==
  ASSUME NEW q \in Seq(Slots), NEW s \in Slots, Distinct(q), s \notin Elements(q)
  PROVE  Distinct(Append(q, s))
<1>1. /\ DOMAIN q = 1 .. Len(q) /\ Len(q) \in Nat
      /\ DOMAIN Append(q, s) = 1 .. Len(q) + 1
      /\ \A i \in 1 .. Len(q) : Append(q, s)[i] = q[i]
      /\ Append(q, s)[Len(q) + 1] = s
  OBVIOUS
<1>2. \A i \in 1 .. Len(q) : q[i] # s
  BY <1>1 DEF Elements
<1> QED
  BY <1>1, <1>2 DEF Distinct

LEMMA PoppingApart ==
  ASSUME NEW q \in Seq(Slots), q # <<>>, Distinct(q)
  PROVE  /\ Distinct(Tail(q))
         /\ Elements(Tail(q)) = Elements(q) \ {Head(q)}
         /\ Head(q) \in Elements(q)
<1>1. /\ DOMAIN q = 1 .. Len(q) /\ Len(q) \in Nat \ {0}
      /\ DOMAIN Tail(q) = 1 .. Len(q) - 1
      /\ \A i \in 1 .. Len(q) - 1 : Tail(q)[i] = q[i + 1]
      /\ Head(q) = q[1]
  OBVIOUS
<1>2. Distinct(Tail(q))
  BY <1>1 DEF Distinct
<1>3. Head(q) \in Elements(q)
  BY <1>1 DEF Elements
<1>4. ASSUME NEW x \in Elements(Tail(q)) PROVE x \in Elements(q) \ {Head(q)}
  <2>1. PICK i \in 1 .. Len(q) - 1 : x = q[i + 1]
    BY <1>1, <1>4 DEF Elements
  <2>2. i + 1 \in DOMAIN q /\ i + 1 # 1
    BY <1>1
  <2>3. x # q[1]
    BY <1>1, <2>1, <2>2 DEF Distinct
  <2> QED
    BY <1>1, <2>1, <2>2, <2>3 DEF Elements
<1> QED
  BY <1>2, <1>3, <1>4, Popping

(* Where the slots are after the step of a client. *)
LEMMA ApartStep ==
  ASSUME PlaceInv, NEW f \in Frames, Produce(f) \/ Abandon(f) \/ Consume(f)
  PROVE  FramesApart' /\ FreeApart'
<1>0. TypeOK /\ HoldsSlot /\ free \in Seq(Slots) /\ FramesApart /\ FreeApart
  BY DEF PlaceInv, BaseInv, TypeOK, QueuesOK
<1>1. \A g \in Frames \ {f} : fpc'[g] = fpc[g] /\ fslot'[g] = fslot[g]
  BY <1>0, OtherFrames
<1>2. ASSUME NEW s \in Elements(free)
      PROVE  s \in Slots /\ \A g \in Frames : ~HeldBy(g, s)
  <2>1. PICK i \in DOMAIN free : s = free[i]
    BY <1>2 DEF Elements
  <2> QED
    BY <1>0, <2>1 DEF FreeApart
<1>3. ASSUME NEW s \in Elements(free), ~(AcquirePop(f) /\ free # <<>>)
      PROVE  \A g \in Frames : ~HeldBy(g, s)'
  BY <1>0, <1>1, <1>2, <1>3, HoldingSteps DEF HeldBy
<1>4. CASE AcquirePop(f) /\ free # <<>>
  <2>1. fslot'[f] = Head(free) /\ free' = Tail(free) /\ fpc'[f] = "claiming"
    BY <1>0, <1>4 DEF AcquirePop, Goto, TypeOK, FramesOK
  <2>2. Distinct(free') /\ Elements(free') = Elements(free) \ {Head(free)} /\ Head(free) \in Elements(free)
    BY <1>0, <1>4, <2>1, PoppingApart DEF FreeApart, Distinct
  <2>3. FramesApart'
    BY <1>0, <1>1, <1>2, <2>1, <2>2 DEF FramesApart, HeldBy
  <2>4. ASSUME NEW s \in Elements(free')
        PROVE  \A g \in Frames : ~HeldBy(g, s)'
    BY <1>1, <1>2, <2>1, <2>2, <2>4 DEF HeldBy
  <2> QED
    BY <2>2, <2>3, <2>4 DEF FreeApart, Distinct, Elements
<1>5. CASE ~(AcquirePop(f) /\ free # <<>>)
  <2>1. FramesApart'
    BY <1>0, <1>1, <1>5, HoldingSteps DEF FramesApart
  <2>2. CASE Requeue(f)
    <3>1. PICK s \in Slots : HeldBy(f, s) /\ free' = Append(free, s) /\ fpc'[f] = "done"
      BY <1>0, <2>2 DEF Requeue, Goto, HeldBy, Holding, HoldsSlot, FramesHold, TypeOK, FramesOK
    <3>2. s \notin Elements(free)
      BY <1>2, <3>1
    <3>3. Distinct(free') /\ Elements(free') = Elements(free) \cup {s}
      BY <1>0, <3>1, <3>2, Pushing, PushingApart DEF FreeApart, Distinct
    <3>4. \A g \in Frames : ~HeldBy(g, s)'
      BY <1>0, <1>1, <3>1 DEF HeldBy, FramesApart, Holding, Owning
    <3>5. \A r \in Elements(free') : \A g \in Frames : ~HeldBy(g, r)'
      BY <1>3, <1>5, <3>1, <3>3, <3>4
    <3> QED
      BY <2>1, <3>3, <3>5 DEF FreeApart, Distinct, Elements
  <2>3. CASE free' = free
    BY <1>0, <1>3, <1>5, <2>1, <2>3 DEF FreeApart, Elements
  <2>4. Requeue(f) \/ free' = free
    BY <1>5 DEF Produce, Abandon, Consume, AcquireCheck, AcquirePop, AcquireClaim,
       AcquireClaimFails,
       Fill, SubmitCheck, SubmitMark, SubmitMarkFails, SubmitQueue, SubmitStamp, TryBegin, TryMatch,
       TryPeek, TryTake, Release, Recycle
  <2> QED
    BY <2>2, <2>3, <2>4
<1> QED
  BY <1>4, <1>5

(* A free slot stays writable: nobody writes it, and one that comes back   *)
(* has been made writable.                                                 *)
LEMMA WritableStep ==
  ASSUME CalmInv, NEW f \in Frames, Produce(f) \/ Abandon(f) \/ Consume(f)
  PROVE  FreeWritable'
<1>0. /\ TypeOK /\ FramesOK /\ HoldsSlot /\ free \in Seq(Slots)
      /\ FreeApart /\ FreeWritable /\ FrameState(f, state[fslot[f]])
  BY DEF CalmInv, BaseInv, TypeOK, QueuesOK, FramesCalm
<1>1. ASSUME NEW s \in Elements(free)
      PROVE  s \in Slots /\ state'[s] = "Writable"
  <2>1. PICK i \in DOMAIN free : s = free[i]
    BY <1>1 DEF Elements
  <2>2. s \in Slots /\ state[s] = "Writable" /\ ~HeldBy(f, s)
    BY <1>0, <2>1 DEF FreeApart, FreeWritable
  <2> QED
    BY <1>0, <2>2, OtherSlots
<1>2. ASSUME NEW s \in Elements(free') PROVE state'[s] = "Writable"
  <2>1. CASE AcquirePop(f) /\ free # <<>>
    <3>1. free' = Tail(free) /\ Elements(Tail(free)) \subseteq Elements(free)
      BY <1>0, <2>1, PoppingApart DEF AcquirePop, FreeApart, Distinct
    <3> QED
      BY <1>1, <1>2, <3>1
  <2>2. CASE Requeue(f)
    <3>1. PICK t \in Slots : state[t] = "Writable" /\ state' = state /\ free' = Append(free, t)
      BY <1>0, <2>2 DEF Requeue, Goto, HoldsSlot, FramesHold, FrameState, slotVars
    <3>2. Elements(free') = Elements(free) \cup {t}
      BY <1>0, <3>1, Pushing
    <3> QED
      BY <1>1, <1>2, <3>1, <3>2
  <2>3. CASE free' = free
    BY <1>1, <1>2, <2>3
  <2> QED
    BY <2>1, <2>2, <2>3 DEF Produce, Abandon, Consume, AcquireCheck, AcquirePop, AcquireClaim,
       AcquireClaimFails,
       Fill, SubmitCheck, SubmitMark, SubmitMarkFails, SubmitQueue, SubmitStamp, TryBegin, TryMatch,
       TryPeek, TryTake, Release, Recycle
<1> QED
  BY <1>2 DEF FreeWritable, Elements

(* What is queued or with the worker stays with the frame that submitted it. *)
LEMMA SubmittedStays ==
  ASSUME Calm, CalmInv, NEW f \in Frames, Produce(f) \/ Abandon(f) \/ Consume(f),
         NEW s \in Slots, state[s] \in {"Filled", "Encoding"}, NEW g \in Frames, SubmittedBy(g, s)
  PROVE  SubmittedBy(g, s)' /\ state'[s] = state[s]
<1>0. TypeOK /\ HoldsSlot
  BY DEF CalmInv, BaseInv
<1>1. HeldBy(g, s)
  BY DEF SubmittedBy, HeldBy, Submitted, Holding, Owning
<1>2. CASE g # f
  <2>1. ~HeldBy(f, s)
    BY <1>1, <1>2 DEF HeldBy, CalmInv, FramesApart
  <2> QED
    BY <1>0, <1>2, <2>1, OtherSlots, OtherFrames DEF SubmittedBy
<1>3. CASE g = f
  <2>1. ~Release(f)
    <3>1. fpc[f] \in Submitted /\ fgen[f] = 2 /\ generation[fslot[f]] = 2
      BY <1>0, <1>3, CalmGeneration DEF SubmittedBy, Submitted, Owning, CalmInv, FramesCalm,
         FrameFields
    <3> QED
      BY <3>1 DEF Release, Calm, Submitted
  <2> QED
    BY <1>0, <1>3, <2>1, HoldingSteps DEF SubmittedBy, slotVars
<1> QED
  BY <1>2, <1>3

LEMMA WorkStep ==
  ASSUME Calm, CalmInv, NEW f \in Frames, Produce(f) \/ Abandon(f) \/ Consume(f)
  PROVE  WorkerApart' /\ PendingApart'
<1>0. TypeOK /\ HoldsSlot /\ pending \in Seq(Slots) /\ WorkerApart /\ PendingApart /\ FramesApart
  BY DEF CalmInv, BaseInv, TypeOK, QueuesOK
<1>1. wslot' = wslot /\ (wpc' \in Working => wpc' = wpc)
  BY ClientsLeaveWorker DEF Working
<1>2. WorkerApart'
  <2>1. wpc' \in Working => wslot \in Slots
    BY <1>0, <1>1 DEF HoldsSlot, WorkerHolds, Working
  <2> QED
    BY <1>0, <1>1, <2>1, SubmittedStays DEF WorkerApart
<1>3. ASSUME NEW s \in Elements(pending)
      PROVE  /\ s \in Slots /\ state[s] = "Filled" /\ state'[s] = "Filled"
             /\ wpc' \in Working => s # wslot'
             /\ \E g \in Frames : SubmittedBy(g, s) /\ SubmittedBy(g, s)'
  <2>1. PICK i \in DOMAIN pending : s = pending[i]
    BY <1>3 DEF Elements
  <2>2. s \in Slots /\ state[s] = "Filled" /\ (wpc \in Working => s # wslot)
    BY <1>0, <2>1 DEF PendingApart
  <2>3. PICK g \in Frames : SubmittedBy(g, s)
    BY <1>0, <2>1 DEF PendingApart
  <2> QED
    BY <1>1, <2>2, <2>3, SubmittedStays
<1>4. CASE SubmitQueue(f)
  <2>1. PICK t \in Slots :
           /\ fslot[f] = t /\ state[t] = "Filled" /\ state' = state
           /\ pending' = Append(pending, t) /\ SubmittedBy(f, t)' /\ fpc[f] = "queueing"
    BY <1>0, <1>4 DEF SubmitQueue, Goto, SubmittedBy, Submitted, HoldsSlot, FramesHold, CalmInv,
       FramesCalm, FrameState, TypeOK, FramesOK
  <2>2. \A g \in Frames : ~SubmittedBy(g, t)
    BY <1>0, <2>1 DEF FramesApart, SubmittedBy, Submitted, Holding, Owning
  <2>3. t \notin Elements(pending) /\ (wpc \in Working => t # wslot)
    BY <1>0, <1>3, <2>2 DEF WorkerApart
  <2>4. Distinct(pending') /\ Elements(pending') = Elements(pending) \cup {t}
    BY <1>0, <2>1, <2>3, Pushing, PushingApart DEF PendingApart, Distinct
  <2>5. ASSUME NEW s \in Elements(pending')
        PROVE  /\ state'[s] = "Filled"
               /\ wpc' \in Working => s # wslot'
               /\ \E g \in Frames : SubmittedBy(g, s)'
    BY <1>1, <1>3, <2>1, <2>3, <2>4, <2>5
  <2> QED
    BY <1>2, <2>4, <2>5 DEF PendingApart, Distinct, Elements
<1>5. CASE pending' = pending
  BY <1>0, <1>2, <1>3, <1>5 DEF PendingApart, Elements
<1>6. SubmitQueue(f) \/ pending' = pending
  BY DEF Produce, Abandon, Consume, AcquireCheck, AcquirePop, AcquireClaim, AcquireClaimFails,
     Fill, SubmitCheck, SubmitMark, SubmitMarkFails, SubmitQueue, SubmitStamp, TryBegin, TryMatch,
     TryPeek, TryTake, Release, Recycle, Requeue
<1> QED
  BY <1>4, <1>5, <1>6

-----------------------------------------------------------------------------
(* A step of the worker.  It changes the slot it works on, which one frame *)
(* has submitted.                                                          *)

Fetches == WorkerLoop \/ WorkerFetch \/ WorkerSleep \/ WorkerEnter \/ WorkerLeave
Encodes == WorkerStart \/ WorkerPut \/ WorkerPoll \/ WorkerFinish

LEMMA WorkerKinds ==
  ASSUME Undisturbed, Undisturbed', Worker
  PROVE  Fetches \/ Encodes
BY DEF Undisturbed, Worker, WorkerPutFails, WorkerPollFails, WorkerRecycle, WorkerRequeue,
   WorkerGoto,
   Fetches, Encodes

LEMMA EncodeStep ==
  ASSUME Calm, CalmInv, Encodes
  PROVE  FramesCalm' /\ NoStaleBuffer' /\ WorkerApart' /\ FreeWritable' /\ PendingApart'
<1>0. TypeOK /\ SlotsOK /\ FramesOK /\ HoldsSlot /\ FramesCalm /\ NoStaleBuffer /\ WorkerApart /\ FramesApart
      /\ PendingApart /\ FreeWritable /\ free \in Seq(Slots) /\ pending \in Seq(Slots)
  BY DEF CalmInv, BaseInv, TypeOK, QueuesOK
<1>1. UNCHANGED <<dmabuf, external, fpc, fslot, fgen, got, free, pending, wslot>>
  BY DEF Encodes, WorkerStart, WorkerPut, WorkerPoll, WorkerFinish, frameVars, slotVars
<1>2. wslot \in Slots /\ wpc \in Working /\ wpc \notin {"entering"} /\ wpc' \notin {"entering", "starting"}
  BY <1>0 DEF Encodes, WorkerStart, WorkerPut, WorkerPoll, WorkerFinish, WorkerGoto, HoldsSlot,
     WorkerHolds, Working
<1>3. PICK o \in Frames : SubmittedBy(o, wslot)
  BY <1>0, <1>2 DEF WorkerApart
<1>4. \A s \in Slots \ {wslot} : state'[s] = state[s] /\ packet'[s] = packet[s]
  BY <1>0, <1>2 DEF Encodes, WorkerStart, WorkerPut, WorkerPoll, WorkerFinish, SlotsOK, slotVars
<1>5. /\ state[wslot] \in {"Filled", "Encoding"} /\ state'[wslot] \in {"Encoding", "Encoded"}
      /\ state'[wslot] = "Encoded" => wpc' = "leaving" /\ wpc = "finishing" /\ packet' = packet
      /\ state'[wslot] = "Encoding" => wpc' \in {"putting", "polling", "finishing"}
  BY <1>0, <1>2 DEF Encodes, WorkerStart, WorkerPut, WorkerPoll, WorkerFinish, WorkerGoto,
     WorkerApart,
     SlotsOK, slotVars
<1>6. FrameContents(o, fslot[o])'
  <2>1. FrameContents(o, fslot[o]) /\ fpc[o] \in Submitted /\ fslot[o] = wslot /\ dmabuf[wslot] = o
    BY <1>0, <1>3 DEF FramesCalm, SubmittedBy, FrameContents, Submitted, Owning
  <2>2. Source(wslot) = o
    BY <2>1 DEF Source, FrameContents
  <2>3. wpc' \in {"polling", "finishing"} => job' = o
    BY <2>1, <2>2 DEF FrameContents, Encodes, WorkerStart, WorkerPut, WorkerPoll, WorkerFinish,
       WorkerGoto
  <2>4. wpc' = "finishing" => packet'[wslot] = o
    BY <1>0, <1>2, <2>1 DEF FrameContents, Encodes, WorkerStart, WorkerPut, WorkerPoll,
       WorkerFinish,
       WorkerGoto, SlotsOK
  <2>5. state'[wslot] = "Encoded" => packet'[wslot] = o
    BY <1>5, <2>1 DEF FrameContents
  <2>6. fpc[o] \in Submitted => fpc[o] # "taking" /\ fpc[o] # "queueing"
                                /\ fpc[o] \notin {"claiming", "writing", "written", "marking", "queueing"}
    BY DEF Submitted
  <2> QED
    BY <1>1, <2>1, <2>3, <2>4, <2>5, <2>6 DEF FrameContents
<1>7. FrameState(o, state[fslot[o]])'
  BY <1>1, <1>3, <1>5 DEF FrameState, SubmittedBy, Submitted
<1>8. ASSUME NEW f \in Frames, f # o
      PROVE  FrameState(f, state[fslot[f]])' /\ FrameContents(f, fslot[f])'
  <2>1. CASE fpc[f] \notin Holding
    BY <1>1, <2>1 DEF FrameState, FrameContents, Holding, Owning, Submitted
  <2>2. CASE fpc[f] \in Holding
    <3>1. fslot[f] \in Slots /\ fslot[f] # wslot
      BY <1>0, <1>3, <1>8, <2>2 DEF HoldsSlot, FramesHold, FramesApart, SubmittedBy, Submitted,
         Holding, Owning
    <3>2. FrameState(f, state[fslot[f]]) /\ FrameContents(f, fslot[f])
      BY <1>0 DEF FramesCalm
    <3> QED
      BY <1>1, <1>4, <3>1, <3>2 DEF FrameState, FrameContents
  <2> QED
    BY <2>1, <2>2
<1>9. FramesCalm'
  <2>1. \A f \in Frames : FrameFields(f)'
    BY <1>0, <1>1 DEF FramesCalm, FrameFields
  <2> QED
    BY <1>6, <1>7, <1>8, <2>1 DEF FramesCalm
<1>10. NoStaleBuffer'
  BY <1>0, <1>1, <1>4, <1>5 DEF NoStaleBuffer
<1>11. WorkerApart'
  BY <1>1, <1>2, <1>3, <1>5 DEF WorkerApart, SubmittedBy, Working
<1>12. FreeWritable'
  <2>1. ASSUME NEW i \in DOMAIN free PROVE state'[free[i]] = "Writable"
    <3>1. free[i] \in Slots /\ state[free[i]] = "Writable"
      BY <1>0, <2>1 DEF FreeWritable
    <3> QED
      BY <1>4, <1>5, <3>1
  <2> QED
    BY <1>1, <2>1 DEF FreeWritable
<1>13. PendingApart'
  <2>1. ASSUME NEW s \in Elements(pending)
        PROVE  state'[s] = "Filled" /\ s # wslot /\ \E f \in Frames : SubmittedBy(f, s)'
    <3>1. s \in Slots /\ state[s] = "Filled" /\ s # wslot /\ \E f \in Frames : SubmittedBy(f, s)
      BY <1>0, <1>2, <2>1 DEF PendingApart, Elements
    <3> QED
      BY <1>1, <1>4, <3>1 DEF SubmittedBy
  <2> QED
    BY <1>0, <1>1, <2>1 DEF PendingApart, Elements
<1> QED
  BY <1>9, <1>10, <1>11, <1>12, <1>13

LEMMA FetchStep ==
  ASSUME Calm, CalmInv, Fetches
  PROVE  FramesCalm' /\ NoStaleBuffer' /\ WorkerApart' /\ FreeWritable' /\ PendingApart'
<1>0. TypeOK /\ SlotsOK /\ FramesOK /\ HoldsSlot /\ FramesCalm /\ NoStaleBuffer /\ WorkerApart /\ FramesApart
      /\ PendingApart /\ FreeWritable /\ free \in Seq(Slots) /\ pending \in Seq(Slots)
  BY DEF CalmInv, BaseInv, TypeOK, QueuesOK
<1>1. UNCHANGED <<state, dmabuf, external, packet, fpc, fslot, fgen, got, free>>
      /\ wpc' \notin {"putting", "polling", "finishing"}
  BY DEF Fetches, WorkerLoop, WorkerFetch, WorkerSleep, WorkerEnter, WorkerLeave, WorkerGoto,
     frameVars, slotVars
<1>2. FramesCalm'
  BY <1>0, <1>1 DEF FramesCalm, FrameState, FrameFields, FrameContents
<1>3. NoStaleBuffer' /\ FreeWritable'
  BY <1>0, <1>1 DEF NoStaleBuffer, FreeWritable
<1>4. CASE WorkerFetch /\ wpc' = "entering"
  <2>1. PICK r \in Slots : /\ pending # <<>> /\ r = Head(pending) /\ wslot' = r
                           /\ pending' = Tail(pending) /\ wpc' = "entering"
    BY <1>0, <1>4, Popping DEF WorkerFetch
  <2>2. Distinct(pending') /\ Elements(pending') = Elements(pending) \ {r} /\ r \in Elements(pending)
    BY <1>0, <2>1, PoppingApart DEF PendingApart, Distinct
  <2>3. \A s \in Elements(pending) : state'[s] = "Filled" /\ \E f \in Frames : SubmittedBy(f, s)'
    BY <1>0, <1>1 DEF PendingApart, Elements, SubmittedBy
  <2>4. WorkerApart'
    BY <2>1, <2>2, <2>3 DEF WorkerApart, SubmittedBy
  <2>5. \A s \in Elements(pending') :
          state'[s] = "Filled" /\ s # wslot' /\ \E f \in Frames : SubmittedBy(f, s)'
    BY <2>1, <2>2, <2>3
  <2> QED
    BY <1>2, <1>3, <2>2, <2>4, <2>5 DEF PendingApart, Distinct, Elements
<1>5. CASE ~(WorkerFetch /\ wpc' = "entering")
  <2>1. wslot' = wslot /\ pending' = pending /\ (wpc' \in Working => wpc = "entering" /\ wpc' = "starting")
    BY <1>5 DEF Fetches, WorkerLoop, WorkerFetch, WorkerSleep, WorkerEnter, WorkerLeave,
       WorkerGoto, Working
  <2>2. WorkerApart'
    BY <1>0, <1>1, <2>1 DEF WorkerApart, SubmittedBy, Working
  <2>3. PendingApart'
    BY <1>0, <1>1, <2>1 DEF PendingApart, SubmittedBy, Working
  <2> QED
    BY <1>2, <1>3, <2>2, <2>3
<1> QED
  BY <1>4, <1>5

-----------------------------------------------------------------------------
LEMMA PlaceInit == Init => PlaceInv
<1> SUFFICES ASSUME Init PROVE PlaceInv
  OBVIOUS
<1>1. BaseInv
  BY InitInv DEF PoolInv, BaseInv
<1>2. free = [i \in 1 .. SlotCount |-> i]
  BY DEF Init
<1>3. Undisturbed
  <2>1. running = TRUE /\ reset = FALSE
    BY DEF Init
  <2> QED
    BY <2>1 DEF Init, Undisturbed
<1>4. FramesApart /\ FreeApart
  BY <1>2 DEF Init, FramesApart, FreeApart, HeldBy, Holding, Owning
<1> QED
  BY <1>1, <1>3, <1>4 DEF PlaceInv

LEMMA PlaceStep ==
  ASSUME Steady, PlaceInv, [Next]_vars
  PROVE  PlaceInv'
<1>1. BaseInv' /\ Undisturbed'
  BY BaseStep, StaysUndisturbed DEF PlaceInv
<1>2. ASSUME NEW f \in Frames, Produce(f) \/ Abandon(f) \/ Consume(f)
      PROVE  PlaceInv'
  BY <1>1, <1>2, ApartStep DEF PlaceInv
<1>3. CASE Worker
  <2>1. Fetches \/ Encodes
    BY <1>1, <1>3, WorkerKinds DEF PlaceInv
  <2>2. free' = free
    BY <2>1 DEF Fetches, Encodes, WorkerLoop, WorkerFetch, WorkerSleep, WorkerEnter, WorkerLeave,
       WorkerStart,
       WorkerPut, WorkerPoll, WorkerFinish
  <2>3. FramesApart' /\ FreeApart'
    BY <1>3, <2>2, WorkerLeavesOthers DEF frameVars, PlaceInv, FramesApart, FreeApart, HeldBy
  <2> QED
    BY <1>1, <2>3 DEF PlaceInv
<1>4. CASE UNCHANGED <<slotVars, free, pending, frameVars, workerVars>>
  <2>1. FramesApart' /\ FreeApart'
    BY <1>4 DEF frameVars, PlaceInv, FramesApart, FreeApart, HeldBy
  <2> QED
    BY <1>1, <2>1 DEF PlaceInv
<1> QED
  BY <1>2, <1>3, <1>4, StaysUndisturbed DEF PlaceInv

LEMMA CalmInit == Init => CalmInv
<1> SUFFICES ASSUME Init PROVE CalmInv
  OBVIOUS
<1>1. PlaceInv
  BY PlaceInit
<1>2. free = [i \in 1 .. SlotCount |-> i] /\ pending = <<>> /\ DOMAIN pending = {}
  BY DEF Init
<1>3. FramesCalm /\ NoStaleBuffer /\ FreeWritable
  BY <1>2 DEF Init, FramesCalm, FrameState, FrameFields, FrameContents, NoStaleBuffer,
     FreeWritable, Owning,
     Submitted, Holding
<1>4. WorkerApart /\ PendingApart
  BY <1>2 DEF Init, WorkerApart, PendingApart, Working
<1> QED
  BY <1>1, <1>3, <1>4 DEF CalmInv, PlaceInv

LEMMA CalmStep ==
  ASSUME Calm, CalmInv, [Next]_vars
  PROVE  CalmInv'
<1>1. PlaceInv'
  BY PlaceStep DEF Calm, CalmInv, PlaceInv
<1>2. ASSUME NEW f \in Frames, Produce(f) \/ Abandon(f) \/ Consume(f)
      PROVE  CalmInv'
  BY <1>1, <1>2, FramesStep, WritableStep, WorkStep DEF CalmInv, PlaceInv
<1>3. CASE Worker
  <2>1. Fetches \/ Encodes
    BY <1>1, <1>3, WorkerKinds DEF CalmInv, PlaceInv
  <2> QED
    BY <1>1, <2>1, FetchStep, EncodeStep DEF CalmInv, PlaceInv
<1>4. CASE UNCHANGED <<slotVars, free, pending, frameVars, workerVars>>
  <2>1. FramesCalm' /\ NoStaleBuffer' /\ FreeWritable'
    BY <1>4 DEF slotVars, frameVars, workerVars, CalmInv, FramesCalm, NoStaleBuffer,
       FreeWritable, FrameState,
       FrameFields, FrameContents
  <2>2. WorkerApart' /\ PendingApart'
    BY <1>4 DEF slotVars, frameVars, workerVars, CalmInv, WorkerApart, PendingApart, SubmittedBy
  <2> QED
    BY <1>1, <2>1, <2>2 DEF CalmInv, PlaceInv
<1> QED
  BY <1>2, <1>3, <1>4, StaysUndisturbed DEF CalmInv, Calm

(* As long as no encoding fails, the core is not destroyed and no reset    *)
(* runs, a slot is one frame's from its acquisition to its one release:    *)
(* for any number of slots and frames, with clients that abandon a slot or *)
(* give up on a queued frame, and with spurious failures of                *)
(* compare_exchange_weak (encoderCore.cpp:184-197).                        *)
THEOREM SlotsAreExclusive == ASSUME Steady PROVE Spec => []ExclusiveOwner
<1>1. PlaceInv /\ [Next]_vars => PlaceInv'
  BY PlaceStep
<1>2. PlaceInv => ExclusiveOwner
  BY DEF PlaceInv, FramesApart, ExclusiveOwner, Owns, Holding
<1> QED
  BY <1>1, <1>2, PlaceInit, PTL DEF Spec

(* In a calm core every client gets the packet encoded from its own        *)
(* buffer, whoever used the slot before and whether or not an external     *)
(* buffer was attached (encoderCore.cpp:417-433, 464-475).                 *)
THEOREM PacketIsOwn == ASSUME Calm PROVE Spec => []OwnPacket
<1>1. CalmInv /\ [Next]_vars => CalmInv'
  BY CalmStep
<1>2. CalmInv => OwnPacket
  BY DEF CalmInv, FramesCalm, FrameFields, OwnPacket
<1> QED
  BY <1>1, <1>2, CalmInit, PTL DEF Spec

-----------------------------------------------------------------------------
(* The refinement.  The abstract service sees a frame's phase and, instead *)
(* of slots, the frames that own them.                                     *)

Phases == [f \in Frames |-> PhaseOf(f)]
Work == InWork \o pending
Owners == [i \in 1 .. Len(Work) |-> OwnerOf(Work[i])]

Owned == \A f \in Frames, s \in Slots : SubmittedBy(f, s) => OwnerOf(s) = f

LEMMA OwnerIs == CalmInv => Owned
<1> SUFFICES ASSUME CalmInv, NEW f \in Frames, NEW s \in Slots, SubmittedBy(f, s)
             PROVE  OwnerOf(s) = f
  BY DEF Owned
<1>1. Owns(f, s) /\ \A g \in Frames : Owns(g, s) => g = f
  BY DEF Owns, SubmittedBy, Submitted, CalmInv, FramesApart, Holding, Owning
<1> QED
  BY <1>1 DEF OwnerOf

(* The slots in work, oldest first, and who submitted them. *)
WorkIs ==
  /\ pending \in Seq(Slots) /\ Work \in Seq(Slots)
  /\ wpc \in Working => /\ wslot \in Slots
                        /\ Len(Work) = Len(pending) + 1 /\ Work[1] = wslot
                        /\ \A i \in 1 .. Len(pending) : Work[i + 1] = pending[i]
  /\ wpc \notin Working => Work = pending
  /\ \A i \in 1 .. Len(Work) :
       state[Work[i]] \in {"Filled", "Encoding"} /\ \E g \in Frames : SubmittedBy(g, Work[i])

LEMMA WorkHolds == CalmInv => WorkIs
<1> SUFFICES ASSUME CalmInv PROVE WorkIs
  OBVIOUS
<1>1. pending \in Seq(Slots) /\ (wpc \in Working => wslot \in Slots)
  BY DEF CalmInv, BaseInv, TypeOK, QueuesOK, HoldsSlot, WorkerHolds, Working
<1>2. CASE wpc \in Working
  <2>1. Work = <<wslot>> \o pending
    BY <1>2 DEF Work, InWork, Working
  <2>2. <<wslot>> \in Seq(Slots) /\ Len(<<wslot>>) = 1 /\ <<wslot>>[1] = wslot
    BY <1>1, <1>2
  <2>3. /\ Work \in Seq(Slots) /\ Len(Work) = Len(pending) + 1 /\ Work[1] = wslot
        /\ \A i \in 1 .. Len(pending) : Work[i + 1] = pending[i]
    BY <1>1, <2>1, <2>2
  <2>4. ASSUME NEW i \in 1 .. Len(Work)
        PROVE  state[Work[i]] \in {"Filled", "Encoding"} /\ \E g \in Frames : SubmittedBy(g, Work[i])
    <3>1. CASE i = 1
      BY <1>2, <2>3, <3>1 DEF CalmInv, WorkerApart
    <3>2. CASE i # 1
      <4>1. Len(pending) \in Nat /\ DOMAIN pending = 1 .. Len(pending)
        BY <1>1
      <4>2. i - 1 \in 1 .. Len(pending) /\ i = (i - 1) + 1
        BY <2>3, <2>4, <3>2, <4>1
      <4>3. Work[i] = pending[i - 1]
        BY <2>3, <4>2
      <4> QED
        BY <4>1, <4>2, <4>3 DEF CalmInv, PendingApart
    <3> QED
      BY <3>1, <3>2
  <2> QED
    BY <1>1, <1>2, <2>3, <2>4 DEF WorkIs
<1>3. CASE wpc \notin Working
  <2>1. Work = pending
    BY <1>1, <1>3 DEF Work, InWork, Working
  <2> QED
    BY <1>1, <1>3, <2>1 DEF CalmInv, PendingApart, WorkIs
<1> QED
  BY <1>2, <1>3

OwnersType == Owners \in Seq(Frames) /\ Len(Owners) = Len(Work)

LEMMA OwnersHold == CalmInv => OwnersType
<1> SUFFICES ASSUME CalmInv PROVE OwnersType
  OBVIOUS
<1>0. WorkIs /\ Owned
  BY WorkHolds, OwnerIs
<1>1. \A i \in 1 .. Len(Work) : OwnerOf(Work[i]) \in Frames
  <2>1. \A i \in 1 .. Len(Work) : Work[i] \in Slots
    BY <1>0 DEF WorkIs
  <2> QED
    BY <1>0, <2>1 DEF WorkIs, Owned
<1>2. Len(Work) \in Nat
  BY <1>0 DEF WorkIs
<1> QED
  BY <1>1, <1>2 DEF Owners, OwnersType

(* The same before and after a step. *)
LEMMA Both ==
  ASSUME CalmInv, CalmInv'
  PROVE  /\ WorkIs /\ Owned /\ OwnersType
         /\ WorkIs' /\ Owned' /\ OwnersType'
<1>1. (CalmInv => WorkIs /\ Owned /\ OwnersType)'
  BY WorkHolds, OwnerIs, OwnersHold, PTL
<1> QED
  BY <1>1, WorkHolds, OwnerIs, OwnersHold

(* A slot's owner stays while the slot is in work. *)
LEMMA SameOwners ==
  ASSUME CalmInv, CalmInv', Work' = Work,
         \A s \in Slots, g \in Frames :
            SubmittedBy(g, s) /\ state[s] \in {"Filled", "Encoding"} => SubmittedBy(g, s)'
  PROVE  Owners' = Owners
<1>1. ASSUME NEW i \in 1 .. Len(Work)
      PROVE  OwnerOf(Work[i])' = OwnerOf(Work[i])
  <2>1. PICK s \in Slots, g \in Frames :
          s = Work[i] /\ state[s] \in {"Filled", "Encoding"} /\ SubmittedBy(g, s)
    <3>1. Work[i] \in Slots
      BY Both DEF WorkIs
    <3> QED
      BY <3>1, Both DEF WorkIs
  <2>2. OwnerOf(s) = g
    BY <2>1, Both DEF Owned
  <2>3. OwnerOf(s)' = g
    BY <2>1, Both DEF Owned
  <2> QED
    BY <2>1, <2>2, <2>3
<1> QED
  BY <1>1 DEF Owners

LEMMA SameCardinality ==
  ASSUME NEW S
  PROVE  Service!Cardinality(S) = Cardinality(S)
BY DEF Cardinality, Service!Cardinality

-----------------------------------------------------------------------------
(* What a client's step is for the service. *)

LEMMA PhaseSteps ==
  ASSUME Calm, CalmInv, CalmInv', NEW f \in Frames, Produce(f) \/ Abandon(f) \/ Consume(f)
  PROVE  /\ \A g \in Frames \ {f} : PhaseOf(g)' = PhaseOf(g)
         /\ \/ PhaseOf(f)' = PhaseOf(f) /\ ~SubmitQueue(f)
            \/ AcquireClaim(f) /\ PhaseOf(f) = "outside" /\ PhaseOf(f)' = "filling"
            \/ AcquireClaimFails(f) /\ PhaseOf(f) = "outside" /\ PhaseOf(f)' = "returned"
            \/ SubmitQueue(f) /\ PhaseOf(f) = "filling" /\ PhaseOf(f)' = "queued"
            \/ TryTake(f) /\ PhaseOf(f) = "ready" /\ PhaseOf(f)' = "delivered"
            \/ Recycle(f) /\ PhaseOf(f) \in {"filling", "delivered"} /\ PhaseOf(f)' = "returned"
<1>0. /\ TypeOK /\ HoldsSlot /\ FramesOK /\ SlotsOK
      /\ FrameState(f, state[fslot[f]]) /\ FrameFields(f)
      /\ FrameState(f, state[fslot[f]])' /\ FrameFields(f)'
      /\ fpc[f] \notin {"new", "popping"} => fslot[f] \in Slots
  BY DEF CalmInv, BaseInv, TypeOK, HoldsSlot, FramesHold, FramesCalm
<1>1. ASSUME NEW g \in Frames, g # f
      PROVE  PhaseOf(g)' = PhaseOf(g)
  <2>1. fpc'[g] = fpc[g] /\ fslot'[g] = fslot[g] /\ fgen'[g] = fgen[g] /\ got'[g] = got[g]
    BY <1>0, <1>1, OtherFrames, OthersKeep
  <2>2. fpc[g] \in {"stamping", "waiting", "matching", "peeking", "taking"} =>
          state'[fslot[g]] = state[fslot[g]]
    <3>1. ASSUME fpc[g] \in {"stamping", "waiting", "matching", "peeking", "taking"}
          PROVE  fslot[g] \in Slots /\ ~HeldBy(f, fslot[g])
      BY <1>0, <1>1, <3>1 DEF HoldsSlot, FramesHold, Holding, Owning, HeldBy, CalmInv, FramesApart
    <3> QED
      BY <1>0, <3>1, OtherSlots
  <2> QED
    BY <2>1, <2>2 DEF PhaseOf, Received
<1> USE DEF PhaseOf, Received, FrameState, FrameFields, Holding, Owning, Submitted, Goto, FramesOK, SlotsOK
<1>2. CASE AcquireCheck(f) \/ AcquirePop(f) \/ AcquireClaimFails(f)
  BY <1>0, <1>1, <1>2 DEF AcquireCheck, AcquirePop, AcquireClaimFails, SubmitQueue
<1>3. CASE AcquireClaim(f)
  BY <1>0, <1>1, <1>3 DEF AcquireClaim
<1>4. CASE Fill(f) \/ Abandon(f) \/ SubmitCheck(f)
  BY <1>0, <1>1, <1>4 DEF Fill, Abandon, SubmitCheck, CalmInv, Undisturbed, SubmitQueue
<1>5. CASE SubmitMark(f) \/ SubmitMarkFails(f)
  BY <1>0, <1>1, <1>5 DEF SubmitMark, SubmitMarkFails, SubmitQueue
<1>6. CASE SubmitQueue(f)
  BY <1>0, <1>1, <1>6 DEF SubmitQueue
<1>7. CASE SubmitStamp(f) \/ TryBegin(f) \/ TryMatch(f) \/ TryPeek(f)
  BY <1>0, <1>1, <1>7 DEF SubmitStamp, TryBegin, TryMatch, TryPeek, slotVars, SubmitQueue
<1>8. CASE TryTake(f)
  BY <1>0, <1>1, <1>8 DEF TryTake
<1>9. CASE Release(f)
  <2>1. fpc[f] = "holding" /\ fgen[f] = 2 /\ generation[fslot[f]] = 2
    BY <1>0, <1>9, CalmGeneration DEF Release, Calm
  <2> QED
    BY <1>0, <1>1, <1>9, <2>1 DEF Release, SubmitQueue
<1>10. CASE Recycle(f)
  BY <1>0, <1>1, <1>10 DEF Recycle, SubmitQueue
<1>11. CASE Requeue(f)
  BY <1>0, <1>1, <1>11 DEF Requeue, SubmitQueue
<1> QED
  BY <1>2, <1>3, <1>4, <1>5, <1>6, <1>7, <1>8, <1>9, <1>10, <1>11 DEF Produce, Consume

(* The frames inside hold different slots, none of them the one that is    *)
(* being claimed.                                                          *)
LEMMA RoomForOne ==
  ASSUME CalmInv, NEW f \in Frames, fpc[f] = "claiming"
  PROVE  Service!Cardinality({g \in Frames : PhaseOf(g) \in {"filling", "queued", "ready", "delivered"}})
           < SlotCount
<1> DEFINE Inside == {g \in Frames : PhaseOf(g) \in {"filling", "queued", "ready", "delivered"}}
           Rest == Slots \ {fslot[f]}
<1>1. ASSUME NEW g \in Inside
      PROVE  g \in Frames /\ fpc[g] \in Holding /\ g # f /\ fslot[g] \in Rest
  <2>1. g \in Frames /\ fpc[g] \in Holding \ {"claiming"}
    BY <1>1 DEF CalmInv, BaseInv, TypeOK, FramesOK, PhaseOf, Received, Holding, Owning
  <2> QED
    BY <2>1 DEF CalmInv, FramesApart, BaseInv, HoldsSlot, FramesHold, Holding, Owning
<1>2. IsFiniteSet(Slots) /\ Cardinality(Slots) = SlotCount
  BY FS_Interval
<1>3. fslot[f] \in Slots
  BY DEF CalmInv, BaseInv, HoldsSlot, FramesHold
<1>4. IsFiniteSet(Rest) /\ Cardinality(Rest) = SlotCount - 1
  <2>1. /\ IsFiniteSet(Slots \ {fslot[f]})
        /\ Cardinality(Slots \ {fslot[f]}) = Cardinality(Slots) - 1
    BY <1>2, <1>3, FS_RemoveElement
  <2> QED
    BY <1>2, <2>1
<1> DEFINE slotOf == [g \in Inside |-> fslot[g]]
<1>5. slotOf \in Injection(Inside, Rest)
  <2>1. slotOf \in [Inside -> Rest]
    BY <1>1
  <2>2. ASSUME NEW g \in Inside, NEW h \in Inside, slotOf[g] = slotOf[h]
        PROVE  g = h
    BY <1>1, <2>2 DEF CalmInv, FramesApart
  <2> QED
    BY <2>1, <2>2, Fun_IsInj
<1> HIDE DEF Inside, Rest, slotOf
<1>6. IsFiniteSet(Inside) /\ Cardinality(Inside) <= SlotCount - 1
  BY <1>4, <1>5, FS_Injection
<1>7. Cardinality(Inside) \in Nat /\ Service!Cardinality(Inside) = Cardinality(Inside)
  BY <1>6, FS_CardinalityType, SameCardinality
<1> QED
  BY <1>6, <1>7 DEF Inside

(* The service's variables in these terms. *)
LEMMA ServiceView ==
  /\ Phases = [f \in Frames |-> PhaseOf(f)]
  /\ Owners = [i \in 1 .. Len(InWork \o pending) |-> OwnerOf((InWork \o pending)[i])]
BY DEF Phases, Owners, Work

LEMMA ConcatPush ==
  ASSUME NEW q \in Seq(Slots), NEW r \in Seq(Slots), NEW s \in Slots
  PROVE  q \o Append(r, s) = Append(q \o r, s)
<1>1. /\ q \o Append(r, s) \in Seq(Slots) /\ Append(q \o r, s) \in Seq(Slots)
      /\ Len(q \o Append(r, s)) = Len(Append(q \o r, s))
  OBVIOUS
<1>2. ASSUME NEW i \in 1 .. Len(q \o Append(r, s))
      PROVE  (q \o Append(r, s))[i] = Append(q \o r, s)[i]
  OBVIOUS
<1> QED
  BY <1>1, <1>2, SeqEqual

LEMMA ClientQueues ==
  ASSUME Calm, CalmInv, CalmInv', NEW f \in Frames, Produce(f) \/ Abandon(f) \/ Consume(f)
  PROVE  Owners' = IF SubmitQueue(f) THEN Append(Owners, f) ELSE Owners
<1>0. TypeOK /\ FramesOK /\ HoldsSlot /\ WorkIs /\ Owned /\ WorkIs' /\ Owned' /\ OwnersType /\ OwnersType'
  BY Both DEF CalmInv, BaseInv, TypeOK
<1>1. wslot' = wslot /\ (wpc' \in Working <=> wpc \in Working)
  BY ClientsLeaveWorker DEF Working
<1>2. ASSUME NEW s \in Slots, NEW g \in Frames, SubmittedBy(g, s), state[s] \in {"Filled", "Encoding"}
      PROVE  SubmittedBy(g, s)'
  BY <1>2, SubmittedStays
<1>3. CASE SubmitQueue(f)
  <2>1. PICK t \in Slots : pending' = Append(pending, t) /\ SubmittedBy(f, t)'
    BY <1>0, <1>3 DEF SubmitQueue, Goto, HoldsSlot, FramesHold, SubmittedBy, Submitted, FramesOK
  <2>2. Work' = Append(Work, t)
    <3>1. InWork' = InWork
      BY <1>1, ClientsLeaveWorker DEF InWork, Working
    <3>2. InWork \in Seq(Slots) /\ pending \in Seq(Slots)
      <4>1. CASE wpc \in Working
        <5>1. wslot \in Slots /\ InWork = <<wslot>>
          BY <1>0, <4>1 DEF InWork, WorkIs, Working
        <5> QED
          BY <1>0, <5>1 DEF WorkIs
      <4>2. CASE wpc \notin Working
        BY <1>0, <4>2 DEF InWork, WorkIs, Working
      <4> QED
        BY <4>1, <4>2
    <3>3. InWork \o Append(pending, t) = Append(InWork \o pending, t)
      BY <3>2, ConcatPush
    <3> QED
      BY <2>1, <3>1, <3>3 DEF Work
  <2>3. Len(Work) \in Nat /\ Len(Work') = Len(Work) + 1 /\ Work'[Len(Work) + 1] = t
        /\ \A i \in 1 .. Len(Work) : Work'[i] = Work[i]
    BY <1>0, <2>2 DEF WorkIs
  <2>4. Owners'[Len(Work) + 1] = f
    BY <1>0, <2>1, <2>3 DEF Owners, Owned
  <2>5. ASSUME NEW i \in 1 .. Len(Work)
        PROVE  Owners'[i] = Owners[i]
    <3>1. Work[i] \in Slots
      <4>1. Work \in Seq(Slots)
        BY <1>0 DEF WorkIs
      <4> QED
        BY <4>1
    <3>2. PICK s \in Slots, g \in Frames :
            s = Work[i] /\ state[s] \in {"Filled", "Encoding"} /\ SubmittedBy(g, s)
      BY <1>0, <3>1 DEF WorkIs
    <3>3. OwnerOf(s) = g /\ OwnerOf(s)' = g
      BY <1>0, <1>2, <3>2 DEF Owned
    <3> QED
      BY <2>3, <3>2, <3>3 DEF Owners
  <2>6. /\ Append(Owners, f) \in Seq(Frames) /\ Len(Append(Owners, f)) = Len(Work) + 1
        /\ Append(Owners, f)[Len(Work) + 1] = f
        /\ \A i \in 1 .. Len(Work) : Append(Owners, f)[i] = Owners[i]
    BY <1>0 DEF OwnersType
  <2>7. Owners' \in Seq(Frames) /\ Len(Owners') = Len(Work) + 1
    BY <1>0, <2>3 DEF OwnersType
  <2>8. ASSUME NEW i \in 1 .. Len(Work) + 1
        PROVE  Owners'[i] = Append(Owners, f)[i]
    BY <2>3, <2>4, <2>5, <2>6
  <2>9. Owners' = Append(Owners, f)
    BY <2>6, <2>7, <2>8, SeqEqual
  <2> QED
    BY <1>3, <2>9
<1>4. CASE ~SubmitQueue(f)
  <2>1. pending' = pending
    BY <1>4 DEF Produce, Abandon, Consume, AcquireCheck, AcquirePop, AcquireClaim,
       AcquireClaimFails,
       Fill, SubmitCheck, SubmitMark, SubmitMarkFails, SubmitQueue, SubmitStamp, TryBegin, TryMatch,
       TryPeek, TryTake, Release, Recycle, Requeue
  <2>2. Work' = Work
    BY <1>1, <2>1 DEF Work, InWork, Working
  <2> QED
    BY <1>2, <1>4, <2>2, SameOwners
<1> QED
  BY <1>3, <1>4

LEMMA ClientServes ==
  ASSUME Calm, CalmInv, CalmInv', NEW f \in Frames, Produce(f) \/ Abandon(f) \/ Consume(f)
  PROVE  [Service!ServiceNext]_(Service!serviceVars)
<1>1. Phases' = [Phases EXCEPT ![f] = PhaseOf(f)']
  BY PhaseSteps DEF Phases
<1>2. Phases[f] = PhaseOf(f)
  BY DEF Phases
<1>3. ASSUME Owners' = Owners, Phases' = Phases
      PROVE  UNCHANGED Service!serviceVars
  BY <1>3 DEF Service!serviceVars, Phases, Owners, Work
<1>4. CASE PhaseOf(f)' = PhaseOf(f) /\ ~SubmitQueue(f)
  BY <1>1, <1>2, <1>3, <1>4, ClientQueues DEF Phases
<1>5. CASE AcquireClaim(f) /\ PhaseOf(f) = "outside" /\ PhaseOf(f)' = "filling"
  <2>1. fpc[f] = "claiming" /\ ~SubmitQueue(f)
    BY <1>5 DEF AcquireClaim, SubmitQueue, Goto
  <2>2. Service!Cardinality({g \in Frames : PhaseOf(g) \in {"filling", "queued", "ready", "delivered"}})
          < SlotCount
    BY <2>1, RoomForOne
  <2>3. Service!Inside = {g \in Frames : PhaseOf(g) \in {"filling", "queued", "ready", "delivered"}}
    BY DEF Service!Inside
  <2>4. Service!Enter(f)
    BY <1>1, <1>2, <1>5, <2>1, <2>2, <2>3, ClientQueues DEF Service!Enter, Service!Move, Phases,
       Owners, Work
  <2> QED
    BY <2>4 DEF Service!ServiceNext
<1>6. CASE AcquireClaimFails(f) /\ PhaseOf(f) = "outside" /\ PhaseOf(f)' = "returned"
  <2>1. ~SubmitQueue(f)
    BY <1>6 DEF AcquireClaimFails, SubmitQueue, Goto
  <2>2. Service!TurnAway(f)
    BY <1>1, <1>2, <1>6, <2>1, ClientQueues DEF Service!TurnAway, Service!Move, Phases, Owners, Work
  <2> QED
    BY <2>2 DEF Service!ServiceNext
<1>7. CASE SubmitQueue(f) /\ PhaseOf(f) = "filling" /\ PhaseOf(f)' = "queued"
  <2>1. Service!Submit(f)
    BY <1>1, <1>2, <1>7, ClientQueues DEF Service!Submit, Service!Move, Phases, Owners, Work
  <2> QED
    BY <2>1 DEF Service!ServiceNext
<1>8. CASE TryTake(f) /\ PhaseOf(f) = "ready" /\ PhaseOf(f)' = "delivered"
  <2>1. ~SubmitQueue(f)
    BY <1>8 DEF TryTake, SubmitQueue, Goto
  <2>2. Service!Deliver(f)
    BY <1>1, <1>2, <1>8, <2>1, ClientQueues DEF Service!Deliver, Service!Move, Phases, Owners, Work
  <2> QED
    BY <2>2 DEF Service!ServiceNext
<1>9. CASE Recycle(f) /\ PhaseOf(f) \in {"filling", "delivered"} /\ PhaseOf(f)' = "returned"
  <2>1. ~SubmitQueue(f)
    BY <1>9 DEF Recycle, SubmitQueue, Goto
  <2>2. Service!Return(f)
    BY <1>1, <1>2, <1>9, <2>1, ClientQueues DEF Service!Return, Service!Move, Phases, Owners, Work
  <2> QED
    BY <2>2 DEF Service!ServiceNext
<1> QED
  BY <1>4, <1>5, <1>6, <1>7, <1>8, <1>9, PhaseSteps

-----------------------------------------------------------------------------
(* What the worker's step is for the service: the oldest frame is encoded  *)
(* when its slot becomes Encoded.                                          *)

LEMMA WorkerServes ==
  ASSUME Calm, CalmInv, CalmInv', Worker
  PROVE  [Service!ServiceNext]_(Service!serviceVars)
<1>0. /\ TypeOK /\ FramesOK /\ SlotsOK /\ HoldsSlot
      /\ WorkIs /\ Owned /\ WorkIs' /\ Owned' /\ OwnersType /\ OwnersType'
      /\ WorkerApart /\ FramesApart
  BY Both DEF CalmInv, BaseInv, TypeOK
<1>1. UNCHANGED <<fpc, fslot, fgen, got>>
  BY WorkerLeavesOthers DEF frameVars
<1>2. \A s \in Slots, g \in Frames : SubmittedBy(g, s) => SubmittedBy(g, s)'
  BY <1>1 DEF SubmittedBy
<1>3. CASE WorkerFinish
  <2>1. /\ wslot \in Slots /\ wslot' = wslot /\ pending' = pending
        /\ state' = [state EXCEPT ![wslot] = "Encoded"]
        /\ state[wslot] = "Encoding" /\ wpc \in Working /\ wpc' \notin Working
    BY <1>0, <1>3 DEF WorkerFinish, WorkerGoto, WorkerApart, HoldsSlot, WorkerHolds, Working
  <2>2. PICK o \in Frames : SubmittedBy(o, wslot)
    BY <1>0, <2>1 DEF WorkerApart
  <2>3. \A g \in Frames \ {o} : PhaseOf(g)' = PhaseOf(g)
    <3>1. ASSUME NEW g \in Frames \ {o}, fpc[g] \in {"stamping", "waiting", "matching", "peeking", "taking"}
          PROVE  state'[fslot[g]] = state[fslot[g]]
      <4>1. fslot[g] # wslot /\ fslot[g] \in Slots
        BY <1>0, <2>2, <3>1 DEF FramesApart, SubmittedBy, Submitted, Holding, Owning, HoldsSlot,
           FramesHold
      <4> QED
        BY <1>0, <2>1, <4>1 DEF SlotsOK
    <3> QED
      BY <1>1, <3>1 DEF PhaseOf, Received
  <2>4. PhaseOf(o) = "queued" /\ PhaseOf(o)' = "ready"
    BY <1>0, <1>1, <2>1, <2>2 DEF PhaseOf, Received, SubmittedBy, Submitted, SlotsOK
  <2>5. Phases' = [Phases EXCEPT ![o] = "ready"] /\ Phases[o] = "queued"
    BY <2>3, <2>4 DEF Phases
  <2>6. /\ Len(pending) \in Nat /\ Len(Work) = Len(pending) + 1 /\ Work' = pending
        /\ Work[1] = wslot /\ \A i \in 1 .. Len(pending) : Work[i + 1] = pending[i]
    BY <1>0, <2>1 DEF WorkIs
  <2>7. Owners # <<>> /\ Head(Owners) = o
    <3>1. Owners \in Seq(Frames) /\ Len(Owners) = Len(Work) /\ Len(Owners) # 0
      BY <1>0, <2>6 DEF OwnersType
    <3>2. Owners[1] = OwnerOf(wslot)
      BY <2>6 DEF Owners
    <3>3. OwnerOf(wslot) = o
      BY <1>0, <2>1, <2>2 DEF Owned
    <3> QED
      BY <3>1, <3>2, <3>3
  <2>8. Owners' = Tail(Owners)
    <3>1. /\ Tail(Owners) \in Seq(Frames) /\ Len(Tail(Owners)) = Len(pending)
          /\ \A i \in 1 .. Len(pending) : Tail(Owners)[i] = Owners[i + 1]
      <4>1. Owners \in Seq(Frames) /\ Len(Owners) = Len(pending) + 1 /\ Owners # <<>>
        BY <1>0, <2>6, <2>7 DEF OwnersType
      <4> QED
        BY <2>6, <4>1
    <3>2. Owners' \in Seq(Frames) /\ Len(Owners') = Len(pending)
      BY <1>0, <2>6 DEF OwnersType
    <3>3. ASSUME NEW i \in 1 .. Len(pending)
          PROVE  Owners'[i] = Tail(Owners)[i]
      <4>1. i + 1 \in 1 .. Len(Work) /\ Work[i + 1] = pending[i]
        BY <2>6
      <4>2. Work[i + 1] \in Slots
        <5>1. Work \in Seq(Slots)
          BY <1>0 DEF WorkIs
        <5> QED
          BY <4>1, <5>1
      <4>3. PICK s \in Slots, g \in Frames : s = Work[i + 1] /\ SubmittedBy(g, s)
        BY <1>0, <4>1, <4>2 DEF WorkIs
      <4>4. OwnerOf(s) = g /\ OwnerOf(s)' = g
        BY <1>0, <1>2, <4>3 DEF Owned
      <4>5. Owners[i + 1] = g
        BY <4>1, <4>3, <4>4 DEF Owners
      <4>6. Owners'[i] = g
        BY <2>6, <4>1, <4>3, <4>4 DEF Owners
      <4> QED
        BY <3>1, <4>5, <4>6
    <3> QED
      BY <3>1, <3>2, <3>3, SeqEqual
  <2>9. Service!Encode
    BY <2>5, <2>7, <2>8 DEF Service!Encode, Service!Move, Phases, Owners, Work
  <2> QED
    BY <2>9 DEF Service!ServiceNext
<1>4. CASE ~WorkerFinish
  <2>1. Work' = Work
    <3>1. CASE WorkerFetch /\ wpc' = "entering"
      <4>1. /\ pending # <<>> /\ wslot' = Head(pending) /\ pending' = Tail(pending)
            /\ wpc' = "entering" /\ wpc = "fetching"
        BY <3>1 DEF WorkerFetch
      <4>2. InWork = <<>> /\ InWork' = <<Head(pending)>>
        BY <4>1 DEF InWork
      <4>3. pending \in Seq(Slots)
        BY <1>0 DEF WorkIs
      <4>4. Work = pending
        BY <4>2, <4>3 DEF Work
      <4>5. /\ Tail(pending) \in Seq(Slots) /\ Head(pending) \in Slots
            /\ Len(Tail(pending)) = Len(pending) - 1
            /\ \A i \in 1 .. Len(pending) - 1 : Tail(pending)[i] = pending[i + 1]
            /\ Head(pending) = pending[1] /\ Len(pending) \in Nat \ {0}
        BY <4>1, <4>3
      <4>6. <<Head(pending)>> \o Tail(pending) = pending
        BY <4>5, <4>3, SeqEqual
      <4> QED
        BY <4>1, <4>2, <4>4, <4>6 DEF Work
    <3>2. CASE ~(WorkerFetch /\ wpc' = "entering")
      <4>1. wslot' = wslot /\ pending' = pending /\ (wpc' \in Working <=> wpc \in Working)
        <5>1. ~(WorkerPutFails \/ WorkerPollFails \/ WorkerRecycle \/ WorkerRequeue)
          BY DEF CalmInv, Undisturbed, WorkerPutFails, WorkerPollFails, WorkerRecycle,
             WorkerRequeue, WorkerGoto
        <5>2. ~(WorkerEnter /\ wpc' = "recycling")
          BY DEF CalmInv, Undisturbed
        <5> QED
          BY <1>4, <3>2, <5>1, <5>2 DEF Worker, WorkerLoop, WorkerFetch, WorkerSleep,
             WorkerEnter, WorkerStart, WorkerPut,
             WorkerPoll, WorkerLeave, WorkerGoto, Working
      <4> QED
        BY <4>1 DEF Work, InWork, Working
    <3> QED
      BY <3>1, <3>2
  <2>2. Owners' = Owners
    BY <1>2, <2>1, SameOwners
  <2>3. ASSUME NEW s \in Slots
        PROVE  state'[s] = "Encoded" <=> state[s] = "Encoded"
    <3>1. Fetches \/ Encodes
      BY WorkerKinds DEF CalmInv
    <3>2. CASE WorkerStart
      BY <1>0, <3>2 DEF WorkerStart, WorkerGoto, WorkerApart, Working, SlotsOK
    <3>3. CASE ~WorkerStart
      BY <1>4, <3>1, <3>3 DEF Fetches, Encodes, WorkerLoop, WorkerFetch, WorkerSleep,
         WorkerEnter, WorkerLeave,
         WorkerPut, WorkerPoll, slotVars
    <3> QED
      BY <3>2, <3>3
  <2>4. Phases' = Phases
    <3>1. ASSUME NEW g \in Frames
          PROVE  PhaseOf(g)' = PhaseOf(g)
      <4>1. fpc[g] \in {"stamping", "waiting", "matching", "peeking", "taking"} => fslot[g] \in Slots
        BY <1>0 DEF HoldsSlot, FramesHold
      <4> QED
        BY <1>1, <2>3, <4>1 DEF PhaseOf, Received
    <3> QED
      BY <3>1 DEF Phases
  <2> QED
    BY <2>2, <2>4 DEF Service!serviceVars, Phases, Owners, Work
<1> QED
  BY <1>3, <1>4

-----------------------------------------------------------------------------
LEMMA ServiceStep ==
  ASSUME Calm, CalmInv, CalmInv', [Next]_vars
  PROVE  [Service!ServiceNext]_(Service!serviceVars)
<1>1. CASE UNCHANGED <<slotVars, free, pending, frameVars, workerVars>>
  <2>1. Work' = Work
    BY <1>1 DEF workerVars, Work, InWork
  <2>2. Owners' = Owners
    BY <1>1, <2>1, SameOwners DEF frameVars, SubmittedBy
  <2>3. Phases' = Phases
    BY <1>1 DEF frameVars, slotVars, Phases, PhaseOf, Received
  <2> QED
    BY <2>2, <2>3 DEF Service!serviceVars, Phases, Owners, Work
<1> QED
  BY <1>1, StaysUndisturbed, ClientServes, WorkerServes DEF CalmInv, Calm

LEMMA ServiceInit == Init => Service!Init
<1> SUFFICES ASSUME Init PROVE Service!Init
  OBVIOUS
<1>1. Phases = [f \in Frames |-> "outside"]
  BY DEF Init, Phases, PhaseOf, Received
<1>2. Work = <<>>
  BY DEF Init, Work, InWork
<1>3. Owners = <<>>
  BY <1>2 DEF Owners
<1> QED
  BY <1>1, <1>3 DEF Service!Init, Phases, Owners, Work

(* A calm core is the service of EncoderService, for any number of slots   *)
(* and frames: at most SlotCount frames are inside at a time, they are     *)
(* encoded in the order of their submission, and each is delivered once,   *)
(* to its own client.                                                      *)
THEOREM CoreImplementsService == ASSUME Calm PROVE Spec => ImplementsService
<1>1. Init => CalmInv /\ Service!Init
  BY CalmInit, ServiceInit
<1>2. CalmInv /\ [Next]_vars => CalmInv' /\ [Service!ServiceNext]_(Service!serviceVars)
  BY CalmStep, ServiceStep
<1> QED
  BY <1>1, <1>2, PTL DEF Spec, ImplementsService, Service!ServiceSpec

=============================================================================
