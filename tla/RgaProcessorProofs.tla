------------------------ MODULE RgaProcessorProofs ------------------------
(***************************************************************************)
(* What holds of the colour converter for any number of buffers, pool      *)
(* threads, frames and waiting tasks: who holds an output buffer, and that *)
(* the tasks in flight are counted.                                        *)
(***************************************************************************)
EXTENDS RgaProcessor, SequenceTheorems, FiniteSetTheorems, TLAPS

-----------------------------------------------------------------------------
(* The types the argument needs; that inFlightTasks_ stays a natural number *)
(* is part of CountInv.                                                    *)
NatTypes == {posted, fetching, failed, telling} \subseteq Nat

BufferTypes ==
  /\ readyFrames_ \in Seq(Indices)
  /\ converting \subseteq Indices /\ done \subseteq Indices /\ held \subseteq Indices
  /\ in_use_ \in [Indices -> BOOLEAN]

BufferInv == BufferTypes /\ OneHolder

(* inFlightTasks_ is decremented when a task or a post is through; telling *)
(* tasks, which busy counts as threads of the pool, are through.           *)
InFlight == posted + fetching + Cardinality(converting) + Cardinality(done) + failed
            + (IF worker = "post" THEN 1 ELSE 0)

CountInv == inFlightTasks_ = InFlight /\ inFlightTasks_ + Len(readyFrames_) <= MaxPending

(* Outside start() .. stop() nothing is in flight and the worker is gone,  *)
(* unless stop() gave up on the tasks.                                     *)
RestInv ==
  /\ stopper \in {"idle", "wake", "join", "drain"}
  /\ running_ => stopper = "idle"
  /\ stopper = "drain" => worker = "none"
  /\ stopper = "idle" /\ ~running_ => worker = "none" /\ (gaveUp \/ inFlightTasks_ = 0)
  /\ ~alive => stopper = "idle" /\ ~running_

-----------------------------------------------------------------------------
(* Steps of those who have nothing to do with the buffers.                 *)
BuffersStay == UNCHANGED <<in_use_, converting, done, readyFrames_, held>>

LEMMA OthersLeaveBuffers ==
  ASSUME \/ WorkerStep \/ TaskStart \/ TaskNotify \/ DumpTimeout \/ DumpCall \/ Feed \/ Expire
         \/ Start \/ PauseOrResume \/ ResumeWrites \/ StopFlags \/ StopWake \/ StopJoin \/ Destroy
         \/ UNCHANGED rgaVars
  PROVE  BuffersStay
<1> USE DEF BuffersStay, tasks, queue
<1>1. CASE WorkerStep
  BY <1>1 DEF WorkerStep, WorkerPausable, WorkerEnd, WorkerLook, WorkerWakes, WorkerRoom, WorkerPost, WorkerTell
<1>2. CASE TaskStart \/ TaskNotify \/ DumpTimeout \/ DumpCall \/ Feed \/ Expire
  BY <1>2 DEF TaskStart, TaskNotify, DumpTimeout, DumpCall, Feed, Expire
<1>3. CASE Start \/ PauseOrResume \/ ResumeWrites \/ StopFlags \/ StopWake \/ StopJoin \/ Destroy
  BY <1>3 DEF Start, PauseOrResume, ResumeWrites, StopFlags, StopWake, StopJoin, Destroy
<1>4. CASE UNCHANGED rgaVars
  BY <1>4 DEF rgaVars
<1> QED BY <1>1, <1>2, <1>3, <1>4

(* The counters stay natural numbers.                                      *)
LEMMA CountersAreNat ==
  ASSUME NatTypes, [Next]_rgaVars
  PROVE  NatTypes'
<1> USE DEF NatTypes, tasks
<1>1. CASE WorkerStep
  BY <1>1 DEF WorkerStep, WorkerPausable, WorkerEnd, WorkerLook, WorkerWakes, WorkerRoom, WorkerPost, WorkerTell
<1>2. CASE TaskStep
  BY <1>2 DEF TaskStep, TaskStart, TaskFetch, TaskConvert, TaskPush, TaskNotify
<1>3. CASE ClientStep \/ DumpCall \/ Feed \/ Expire
  BY <1>3 DEF ClientStep, Dump, DumpTimeout, ReleaseBuffer, DumpCall, Feed, Expire
<1>4. CASE ControlStep \/ Start \/ PauseOrResume \/ StopFlags \/ Destroy
  BY <1>4 DEF ControlStep, Start, PauseOrResume, ResumeWrites, StopFlags, StopWake, StopJoin, StopDrain, Destroy
<1>5. CASE UNCHANGED rgaVars
  BY <1>5 DEF rgaVars
<1> QED BY <1>1, <1>2, <1>3, <1>4, <1>5 DEF Next

-----------------------------------------------------------------------------
(* A buffer at the end or the head of the ready queue.                     *)
LEMMA AppendReady ==
  ASSUME NEW s \in Seq(Indices), NEW i \in Indices
  PROVE  /\ Append(s, i) \in Seq(Indices) /\ Len(Append(s, i)) = Len(s) + 1
         /\ {Append(s, i)[k] : k \in DOMAIN Append(s, i)} = {s[k] : k \in DOMAIN s} \cup {i}
         /\ \A k \in DOMAIN Append(s, i) : (k \in DOMAIN s /\ Append(s, i)[k] = s[k])
                                           \/ (k = Len(s) + 1 /\ Append(s, i)[k] = i)
<1>1. /\ Append(s, i) \in Seq(Indices) /\ Len(s) \in Nat
      /\ DOMAIN s = 1 .. Len(s) /\ DOMAIN Append(s, i) = 1 .. Len(s) + 1
      /\ \A k \in 1 .. Len(s) : Append(s, i)[k] = s[k]
      /\ Append(s, i)[Len(s) + 1] = i /\ Len(Append(s, i)) = Len(s) + 1
  OBVIOUS
<1>2. \A k \in DOMAIN Append(s, i) : k \in DOMAIN s \/ k = Len(s) + 1
  BY <1>1
<1>3. {Append(s, i)[k] : k \in DOMAIN Append(s, i)} \subseteq {s[k] : k \in DOMAIN s} \cup {i}
  BY <1>1, <1>2
<1>4. {s[k] : k \in DOMAIN s} \cup {i} \subseteq {Append(s, i)[k] : k \in DOMAIN Append(s, i)}
  BY <1>1
<1> QED BY <1>1, <1>2, <1>3, <1>4

LEMMA HeadReady ==
  ASSUME NEW s \in Seq(Indices), s # <<>>
  PROVE  /\ Tail(s) \in Seq(Indices) /\ Head(s) \in Indices /\ Len(Tail(s)) = Len(s) - 1
         /\ 1 \in DOMAIN s /\ Head(s) = s[1]
         /\ \A k \in DOMAIN Tail(s) : k + 1 \in DOMAIN s /\ k + 1 # 1 /\ Tail(s)[k] = s[k + 1]
         /\ {s[k] : k \in DOMAIN s} = {Head(s)} \cup {Tail(s)[k] : k \in DOMAIN Tail(s)}
<1>1. /\ Len(s) \in Nat \ {0} /\ Tail(s) \in Seq(Indices) /\ Head(s) = s[1] /\ s[1] \in Indices
      /\ DOMAIN s = 1 .. Len(s) /\ DOMAIN Tail(s) = 1 .. Len(s) - 1
      /\ \A k \in 1 .. Len(s) - 1 : Tail(s)[k] = s[k + 1]
      /\ Len(Tail(s)) = Len(s) - 1
  OBVIOUS
<1>2. 1 \in DOMAIN s /\ \A k \in DOMAIN Tail(s) : k + 1 \in DOMAIN s /\ k + 1 # 1
  BY <1>1
<1>3. \A k \in DOMAIN s : k = 1 \/ \E l \in DOMAIN Tail(s) : s[k] = Tail(s)[l]
  <2> SUFFICES ASSUME NEW k \in DOMAIN s, k # 1
               PROVE  \E l \in DOMAIN Tail(s) : s[k] = Tail(s)[l]
    OBVIOUS
  <2>1. k - 1 \in DOMAIN Tail(s) /\ s[k] = Tail(s)[k - 1]
    BY <1>1
  <2> QED BY <2>1
<1>4. {s[k] : k \in DOMAIN s} \subseteq {Head(s)} \cup {Tail(s)[k] : k \in DOMAIN Tail(s)}
  BY <1>1, <1>3
<1>5. {Head(s)} \cup {Tail(s)[k] : k \in DOMAIN Tail(s)} \subseteq {s[k] : k \in DOMAIN s}
  BY <1>1, <1>2
<1> QED BY <1>1, <1>2, <1>4, <1>5
-----------------------------------------------------------------------------
(* One lemma per step that moves a buffer.                                 *)
LEMMA StayKeeps ==
  ASSUME BufferInv, BuffersStay
  PROVE  BufferInv'
<1>1. BufferTypes'
  BY DEF BufferInv, BufferTypes, BuffersStay
<1>2. \A i \in Indices \ ByHand : HeldOnce(i)'
  BY DEF BufferInv, OneHolder, HeldOnce, Ready, BuffersStay
<1> QED BY <1>1, <1>2 DEF BufferInv, OneHolder

LEMMA FetchBuffers ==
  ASSUME BufferInv, TaskFetch
  PROVE  BufferInv'
<1> USE DEF BufferInv, BufferTypes
<1>1. UNCHANGED <<done, readyFrames_, held>>
  BY DEF TaskFetch, queue
<1>2. CASE UNCHANGED <<converting, in_use_>>
  BY <1>1, <1>2, StayKeeps DEF BuffersStay
<1>3. CASE ~UNCHANGED <<converting, in_use_>>
  <2>1. PICK j \in Indices : /\ ~in_use_[j] /\ in_use_' = [in_use_ EXCEPT ![j] = TRUE]
                             /\ converting' = converting \cup {j}
    BY <1>3 DEF TaskFetch, Allocate
  <2>2. BufferTypes'
    BY <1>1, <2>1
  <2>3. ASSUME NEW i \in Indices \ ByHand
        PROVE  HeldOnce(i)'
    <3>1. HeldOnce(i)
      BY DEF OneHolder
    <3>2. Ready' = Ready
      BY <1>1 DEF Ready
    <3>3. CASE i = j
      BY <1>1, <2>1, <3>1, <3>2, <3>3 DEF HeldOnce
    <3>4. CASE i # j
      BY <1>1, <2>1, <3>1, <3>2, <3>4 DEF HeldOnce
    <3> QED BY <3>3, <3>4
  <2> QED BY <2>2, <2>3 DEF OneHolder
<1> QED BY <1>2, <1>3

LEMMA ConvertBuffers ==
  ASSUME BufferInv, NEW j \in Indices, TaskConvert(j)
  PROVE  BufferInv'
<1> USE DEF BufferInv, BufferTypes
<1>1. /\ UNCHANGED <<readyFrames_, held>> /\ j \in converting /\ converting' = converting \ {j}
      /\ \/ done' = done \cup {j} /\ in_use_' = in_use_
         \/ done' = done /\ in_use_' = [in_use_ EXCEPT ![j] = FALSE]
  BY DEF TaskConvert, queue
<1>2. BufferTypes'
  BY <1>1
<1>3. ASSUME NEW i \in Indices \ ByHand
      PROVE  HeldOnce(i)'
  <2>1. HeldOnce(i) /\ Ready' = Ready
    BY <1>1 DEF OneHolder, Ready
  <2>2. CASE i = j
    BY <1>1, <2>1, <2>2 DEF HeldOnce
  <2>3. CASE i # j
    BY <1>1, <2>1, <2>3 DEF HeldOnce
  <2> QED BY <2>2, <2>3
<1> QED BY <1>2, <1>3 DEF OneHolder

LEMMA PushBuffers ==
  ASSUME BufferInv, TaskPush
  PROVE  BufferInv'
<1> USE DEF BufferInv, BufferTypes
<1>1. UNCHANGED <<converting, in_use_, held>>
  BY DEF TaskPush
<1>2. CASE UNCHANGED <<done, readyFrames_>>
  BY <1>1, <1>2, StayKeeps DEF BuffersStay
<1>3. CASE ~UNCHANGED <<done, readyFrames_>>
  <2>1. PICK j \in done : done' = done \ {j} /\ readyFrames_' = Append(readyFrames_, j)
    BY <1>3 DEF TaskPush
  <2>2. /\ readyFrames_' \in Seq(Indices) /\ Ready' = Ready \cup {j}
        /\ \A k \in DOMAIN readyFrames_' :
             (k \in DOMAIN readyFrames_ /\ readyFrames_'[k] = readyFrames_[k])
             \/ (k = Len(readyFrames_) + 1 /\ readyFrames_'[k] = j)
    BY <2>1, AppendReady DEF Ready
  <2>3. BufferTypes'
    BY <1>1, <2>1, <2>2
  <2>4. ASSUME NEW i \in Indices \ ByHand
        PROVE  HeldOnce(i)'
    <3>1. HeldOnce(i)
      BY DEF OneHolder
    <3>2. CASE i = j
      <4>1. \A k \in DOMAIN readyFrames_ : readyFrames_[k] # j
        BY <2>1, <3>1, <3>2 DEF HeldOnce, Ready
      <4>2. \A k, l \in DOMAIN readyFrames_' : readyFrames_'[k] = i /\ readyFrames_'[l] = i => k = l
        BY <2>2, <3>2, <4>1
      <4> QED BY <1>1, <2>1, <2>2, <3>1, <3>2, <4>2 DEF HeldOnce
    <3>3. CASE i # j
      <4>1. \A k, l \in DOMAIN readyFrames_' : readyFrames_'[k] = i /\ readyFrames_'[l] = i => k = l
        BY <2>2, <3>1, <3>3 DEF HeldOnce
      <4> QED BY <1>1, <2>1, <2>2, <3>1, <3>3, <4>1 DEF HeldOnce
    <3> QED BY <3>2, <3>3
  <2> QED BY <2>3, <2>4 DEF OneHolder
<1> QED BY <1>2, <1>3

LEMMA DumpBuffers ==
  ASSUME BufferInv, Dump
  PROVE  BufferInv'
<1> USE DEF BufferInv, BufferTypes
<1>1. UNCHANGED <<converting, done, in_use_>>
  BY DEF Dump, tasks
<1>2. CASE readyFrames_ = <<>>
  BY <1>1, <1>2, StayKeeps DEF BuffersStay, Dump
<1>3. CASE readyFrames_ # <<>>
  <2> DEFINE j == Head(readyFrames_)
  <2>1. held' = held \cup {j} /\ readyFrames_' = Tail(readyFrames_)
    BY <1>3 DEF Dump
  <2>2. /\ readyFrames_' \in Seq(Indices) /\ j \in Indices /\ Ready = Ready' \cup {j}
        /\ 1 \in DOMAIN readyFrames_ /\ readyFrames_[1] = j
        /\ \A k \in DOMAIN readyFrames_' :
             k + 1 \in DOMAIN readyFrames_ /\ k + 1 # 1 /\ readyFrames_'[k] = readyFrames_[k + 1]
    BY <1>3, <2>1, HeadReady DEF Ready
  <2>3. BufferTypes'
    BY <1>1, <2>1, <2>2
  <2> HIDE DEF j
  <2>4. ASSUME NEW i \in Indices \ ByHand
        PROVE  HeldOnce(i)'
    <3>1. HeldOnce(i)
      BY DEF OneHolder
    <3>2. \A k, l \in DOMAIN readyFrames_' : readyFrames_'[k] = i /\ readyFrames_'[l] = i => k = l
      <4> SUFFICES ASSUME NEW k \in DOMAIN readyFrames_', NEW l \in DOMAIN readyFrames_',
                          readyFrames_'[k] = i, readyFrames_'[l] = i
                   PROVE  k = l
        OBVIOUS
      <4>1. k + 1 = l + 1
        BY <2>2, <3>1 DEF HeldOnce
      <4>2. k \in Nat /\ l \in Nat
        BY <2>2
      <4> QED BY <4>1, <4>2
    <3>3. CASE i = j
      <4>1. i \notin Ready'
        BY <2>2, <3>1, <3>3 DEF HeldOnce, Ready
      <4> QED BY <1>1, <2>1, <2>2, <3>1, <3>2, <3>3, <4>1 DEF HeldOnce
    <3>4. CASE i # j
      BY <1>1, <2>1, <2>2, <3>1, <3>2, <3>4 DEF HeldOnce
    <3> QED BY <3>3, <3>4
  <2> QED BY <2>3, <2>4 DEF OneHolder
<1> QED BY <1>2, <1>3

LEMMA ReleaseBuffers ==
  ASSUME BufferInv, NEW j \in Indices, ReleaseBuffer(j)
  PROVE  BufferInv'
<1> USE DEF BufferInv, BufferTypes
<1>1. /\ UNCHANGED <<converting, done, readyFrames_>> /\ j \in held
      /\ in_use_' = [in_use_ EXCEPT ![j] = FALSE]
      /\ held' = held \ {j} \/ (j \in ByHand /\ held' = held)
  BY DEF ReleaseBuffer, queue, tasks
<1>2. BufferTypes'
  BY <1>1
<1>3. ASSUME NEW i \in Indices \ ByHand
      PROVE  HeldOnce(i)'
  <2>1. HeldOnce(i) /\ Ready' = Ready
    BY <1>1 DEF OneHolder, Ready
  <2>2. CASE i = j
    BY <1>1, <2>1, <2>2 DEF HeldOnce
  <2>3. CASE i # j
    BY <1>1, <2>1, <2>3 DEF HeldOnce
  <2> QED BY <2>2, <2>3
<1> QED BY <1>2, <1>3 DEF OneHolder

(* cleanupPendingTasks gives back what is ready, and nothing else.         *)
LEMMA DrainBuffers ==
  ASSUME BufferInv, StopDrain
  PROVE  BufferInv'
<1> USE DEF BufferInv, BufferTypes
<1>1. UNCHANGED <<converting, done, held>>
  BY DEF StopDrain, tasks
<1>2. CASE UNCHANGED <<readyFrames_, in_use_>>
  BY <1>1, <1>2, StayKeeps DEF BuffersStay
<1>3. CASE ~UNCHANGED <<readyFrames_, in_use_>>
  <2>1. /\ readyFrames_' = <<>>
        /\ in_use_' = [i \in Indices |-> in_use_[i] /\ \A k \in DOMAIN readyFrames_ : readyFrames_[k] # i]
    BY <1>3 DEF StopDrain
  <2>2. Ready' = {}
    BY <2>1 DEF Ready
  <2>3. \A i \in Indices : in_use_'[i] <=> in_use_[i] /\ i \notin Ready
    BY <2>1 DEF Ready
  <2>4. readyFrames_' \in Seq(Indices) /\ in_use_' \in [Indices -> BOOLEAN]
    BY <2>1
  <2>5. BufferTypes'
    BY <1>1, <2>4
  <2>6. ASSUME NEW i \in Indices \ ByHand
        PROVE  HeldOnce(i)'
    <3>1. HeldOnce(i)
      BY DEF OneHolder
    <3> QED BY <1>1, <2>1, <2>2, <2>3, <3>1 DEF HeldOnce
  <2> QED BY <2>5, <2>6 DEF OneHolder
<1> QED BY <1>2, <1>3

LEMMA BufferInit == Init => BufferInv
<1> SUFFICES ASSUME Init PROVE BufferInv
  OBVIOUS
<1>1. BufferTypes
  BY EmptySeq DEF Init, BufferTypes
<1>2. Ready = {}
  BY DEF Init, Ready
<1>3. \A i \in Indices \ ByHand : HeldOnce(i)
  BY <1>2 DEF Init, HeldOnce
<1> QED BY <1>1, <1>3 DEF BufferInv, OneHolder

LEMMA BufferStep ==
  ASSUME BufferInv, [Next]_rgaVars
  PROVE  BufferInv'
BY OthersLeaveBuffers, StayKeeps, FetchBuffers, ConvertBuffers, PushBuffers, DumpBuffers, ReleaseBuffers, DrainBuffers
   DEF Next, TaskStep, ClientStep, ControlStep

(* A buffer the client gives back with its Frame has one holder: whatever  *)
(* fails, whenever stop() comes, and whatever a client does with other     *)
(* buffers by hand (rgaProcessor.cpp: processOneTask, dump, releaseBuffer, *)
(* cleanupPendingTasks).                                                   *)
THEOREM BuffersHaveOneHolder == Spec => []OneHolder
<1>1. BufferInv => OneHolder
  BY DEF BufferInv
<1> QED BY <1>1, BufferInit, BufferStep, PTL DEF Spec
-----------------------------------------------------------------------------
(* The tasks in flight, when no client releases by hand: converting and    *)
(* done are sets of buffers, and a task is counted by its buffer.          *)
LEMMA TaskSetsAreFinite ==
  ASSUME BufferTypes
  PROVE  /\ IsFiniteSet(converting) /\ IsFiniteSet(done)
         /\ Cardinality(converting) \in Nat /\ Cardinality(done) \in Nat
<1>1. IsFiniteSet(Indices)
  BY RgaAssumption, FS_Interval DEF Indices
<1>2. IsFiniteSet(converting) /\ IsFiniteSet(done)
  BY <1>1, FS_Subset DEF BufferTypes
<1> QED BY <1>2, FS_CardinalityType

\* What the count depends on, when no buffer moves.
CountStays == UNCHANGED <<inFlightTasks_, readyFrames_, posted, fetching, converting, done, failed>>

LEMMA SameCount ==
  ASSUME CountInv, CountStays, (worker = "post") <=> (worker' = "post")
  PROVE  CountInv'
BY DEF CountInv, InFlight, CountStays

LEMMA TaskCounts ==
  ASSUME ByHand = {}, BufferInv, NatTypes, CountInv, TaskStep
  PROVE  CountInv'
<1> USE DEF tasks, queue
<1>1. IsFiniteSet(converting) /\ IsFiniteSet(done)
  BY TaskSetsAreFinite DEF BufferInv
<1> DEFINE p == IF worker = "post" THEN 1 ELSE 0
           c == Cardinality(converting)
           d == Cardinality(done)
           n == Len(readyFrames_)
           Balanced == /\ inFlightTasks_ = posted + fetching + c + d + failed + p
                       /\ inFlightTasks_ + n <= MaxPending
<1>2. Balanced
  BY DEF CountInv, InFlight
<1>3. p \in Nat /\ c \in Nat /\ d \in Nat /\ n \in Nat
  BY TaskSetsAreFinite DEF BufferInv, BufferTypes
<1>4. posted \in Nat /\ fetching \in Nat /\ failed \in Nat /\ inFlightTasks_ \in Nat /\ MaxPending \in Nat
  BY <1>2, <1>3, RgaAssumption DEF NatTypes
<1>5. p' = p
  BY DEF TaskStep, TaskStart, TaskFetch, TaskConvert, TaskPush, TaskNotify
<1>6. SUFFICES Balanced'
  BY DEF CountInv, InFlight
<1>7. /\ UNCHANGED converting => c' = c
      /\ UNCHANGED done => d' = d
      /\ UNCHANGED readyFrames_ => n' = n
  OBVIOUS
<1>8. CASE TaskStart
  <2>1. /\ posted' = posted - 1 /\ fetching' = fetching + 1
        /\ inFlightTasks_' = inFlightTasks_ /\ failed' = failed /\ c' = c /\ d' = d /\ n' = n
    BY <1>7, <1>8 DEF TaskStart
  <2> HIDE DEF p, c, d, n
  <2> QED BY <1>2, <1>3, <1>4, <1>5, <2>1
<1>9. CASE TaskFetch
  <2>1. fetching' = fetching - 1 /\ inFlightTasks_' = inFlightTasks_ /\ posted' = posted /\ d' = d /\ n' = n
    BY <1>7, <1>9 DEF TaskFetch
  <2>2. (c' = c + 1 /\ failed' = failed) \/ (c' = c /\ failed' = failed + 1)
    <3>1. CASE failed' = failed + 1 /\ UNCHANGED <<converting, in_use_>>
      BY <1>7, <3>1
    <3>2. ASSUME NEW j \in Indices, ~in_use_[j], converting' = converting \cup {j}, UNCHANGED failed
          PROVE  c' = c + 1
      <4>1. j \notin converting
        BY <3>2 DEF BufferInv, OneHolder, HeldOnce
      <4> QED BY <1>1, <3>2, <4>1, FS_AddElement
    <3> QED BY <1>9, <3>1, <3>2 DEF TaskFetch, Allocate
  <2> HIDE DEF p, c, d, n
  <2> QED BY <1>2, <1>3, <1>4, <1>5, <2>1, <2>2
<1>10. ASSUME NEW j \in Indices, TaskConvert(j)
       PROVE  Balanced'
  <2>1. j \in converting /\ converting' = converting \ {j}
    BY <1>10 DEF TaskConvert
  <2>2. j \notin done
    BY <2>1 DEF BufferInv, OneHolder, HeldOnce
  <2>3. c' = c - 1
    BY <1>1, <2>1, FS_RemoveElement
  <2>4. Cardinality(done \cup {j}) = Cardinality(done) + 1
    BY <1>1, <2>2, FS_AddElement
  <2>5. (d' = d + 1 /\ failed' = failed) \/ (d' = d /\ failed' = failed + 1)
    BY <1>7, <1>10, <2>4 DEF TaskConvert
  <2>6. inFlightTasks_' = inFlightTasks_ /\ posted' = posted /\ fetching' = fetching /\ n' = n
    BY <1>7, <1>10 DEF TaskConvert
  <2> HIDE DEF p, c, d, n
  <2> QED BY <1>2, <1>3, <1>4, <1>5, <2>3, <2>5, <2>6
<1>11. CASE TaskPush
  <2>1. inFlightTasks_' = inFlightTasks_ - 1 /\ posted' = posted /\ fetching' = fetching /\ c' = c
    BY <1>7, <1>11 DEF TaskPush
  <2>2. (d' = d - 1 /\ failed' = failed /\ n' = n + 1) \/ (d' = d /\ failed' = failed - 1 /\ n' = n)
    <3>1. CASE failed' = failed - 1 /\ UNCHANGED <<done, readyFrames_>>
      BY <1>7, <3>1
    <3>2. ASSUME NEW j \in done, done' = done \ {j}, readyFrames_' = Append(readyFrames_, j), UNCHANGED failed
          PROVE  d' = d - 1 /\ n' = n + 1
      <4>1. d' = d - 1
        BY <1>1, <3>2, FS_RemoveElement
      <4>2. n' = n + 1
        BY <3>2, AppendReady DEF BufferInv, BufferTypes
      <4> QED BY <4>1, <4>2
    <3> QED BY <1>11, <3>1, <3>2 DEF TaskPush
  <2> HIDE DEF p, c, d, n
  <2> QED BY <1>2, <1>3, <1>4, <1>5, <2>1, <2>2
<1>12. CASE TaskNotify
  BY <1>2, <1>5, <1>7, <1>12 DEF TaskNotify
<1> HIDE DEF Balanced
<1> QED BY <1>8, <1>9, <1>10, <1>11, <1>12 DEF TaskStep

LEMMA WorkerCounts ==
  ASSUME BufferInv, NatTypes, CountInv, WorkerStep
  PROVE  CountInv'
<1> USE DEF NatTypes, tasks, queue
<1>1. Cardinality(converting) \in Nat /\ Cardinality(done) \in Nat /\ Len(readyFrames_) \in Nat
  BY TaskSetsAreFinite DEF BufferInv, BufferTypes
<1>2. CASE WorkerPausable \/ WorkerEnd \/ WorkerLook \/ WorkerWakes \/ WorkerTell
  <2>1. CountStays /\ worker # "post" /\ worker' # "post"
    BY <1>2 DEF CountStays, WorkerPausable, WorkerEnd, WorkerLook, WorkerWakes, WorkerTell
  <2> QED BY <2>1, SameCount
<1>3. CASE WorkerRoom
  <2>1. UNCHANGED <<readyFrames_, posted, fetching, converting, done, failed>> /\ worker = "room"
    BY <1>3 DEF WorkerRoom
  <2>2. CASE HasRoom
    BY <1>1, <1>3, <2>1, <2>2, RgaAssumption DEF WorkerRoom, HasRoom, CountInv, InFlight
  <2>3. CASE ~HasRoom
    BY <1>3, <2>1, <2>3, SameCount DEF WorkerRoom, CountStays
  <2> QED BY <2>2, <2>3
<1>4. CASE WorkerPost
  <2>1. UNCHANGED <<readyFrames_, fetching, converting, done, failed>> /\ worker = "post" /\ worker' # "post"
    BY <1>4 DEF WorkerPost
  <2>2. \/ posted' = posted + 1 /\ inFlightTasks_' = inFlightTasks_
        \/ posted' = posted /\ inFlightTasks_' = inFlightTasks_ - 1
    BY <1>4 DEF WorkerPost
  <2>3. /\ inFlightTasks_ = posted + fetching + Cardinality(converting) + Cardinality(done) + failed + 1
        /\ inFlightTasks_ + Len(readyFrames_) <= MaxPending
    BY <2>1 DEF CountInv, InFlight
  <2>4. /\ inFlightTasks_' = posted' + fetching' + Cardinality(converting') + Cardinality(done') + failed' + 0
        /\ inFlightTasks_' + Len(readyFrames_') <= MaxPending
    BY <1>1, <2>1, <2>2, <2>3, RgaAssumption
  <2> QED BY <2>1, <2>4 DEF CountInv, InFlight
<1> QED BY <1>2, <1>3, <1>4 DEF WorkerStep

\* Taking frames only makes room.
LEMMA OthersCount ==
  ASSUME BufferInv, NatTypes, CountInv, RestInv, [Next]_rgaVars, ~TaskStep, ~WorkerStep
  PROVE  CountInv'
<1> USE DEF NatTypes, tasks, queue
<1>1. /\ Cardinality(converting) \in Nat /\ Cardinality(done) \in Nat /\ Len(readyFrames_) \in Nat
      /\ readyFrames_ \in Seq(Indices)
  BY TaskSetsAreFinite DEF BufferInv, BufferTypes
<1>2. /\ UNCHANGED <<inFlightTasks_, posted, fetching, converting, done, failed>>
      /\ (worker = "post") <=> (worker' = "post")
  <2>1. CASE ClientStep \/ DumpCall \/ Feed \/ Expire \/ UNCHANGED rgaVars
    BY <2>1 DEF ClientStep, Dump, DumpTimeout, ReleaseBuffer, DumpCall, Feed, Expire, rgaVars
  <2>2. CASE ControlStep \/ Start \/ PauseOrResume \/ StopFlags \/ Destroy
    BY <2>2 DEF ControlStep, Start, PauseOrResume, ResumeWrites, StopFlags, StopWake, StopJoin, StopDrain, Destroy, RestInv
  <2> QED BY <2>1, <2>2 DEF Next
<1>3. Len(readyFrames_') \in Nat /\ Len(readyFrames_') <= Len(readyFrames_)
  <2>1. CASE UNCHANGED readyFrames_
    BY <1>1, <2>1
  <2>2. CASE readyFrames_' = <<>>
    BY <1>1, <2>2
  <2>3. CASE readyFrames_ # <<>> /\ readyFrames_' = Tail(readyFrames_)
    <3>1. Len(Tail(readyFrames_)) = Len(readyFrames_) - 1 /\ Tail(readyFrames_) \in Seq(Indices)
      BY <1>1, <2>3, HeadReady
    <3> QED BY <1>1, <2>3, <3>1
  <2>4. CASE ~Dump /\ ~StopDrain
    <3>1. UNCHANGED readyFrames_
      BY <2>4, OthersLeaveBuffers DEF Next, ClientStep, ControlStep, BuffersStay, ReleaseBuffer
    <3> QED BY <1>1, <3>1
  <2>5. UNCHANGED readyFrames_ \/ readyFrames_' = <<>>
        \/ (readyFrames_ # <<>> /\ readyFrames_' = Tail(readyFrames_)) \/ (~Dump /\ ~StopDrain)
    BY DEF Dump, StopDrain
  <2> QED BY <2>1, <2>2, <2>3, <2>4, <2>5
<1>4. inFlightTasks_ \in Nat
  BY <1>1 DEF CountInv, InFlight
<1> QED BY <1>1, <1>2, <1>3, <1>4, RgaAssumption DEF CountInv, InFlight

\* With nothing in flight no step of a task and none of the worker changes the count.
LEMMA NothingInFlight ==
  ASSUME BufferInv, NatTypes, CountInv, inFlightTasks_ = 0, worker = "none", TaskStep
  PROVE  UNCHANGED inFlightTasks_
<1>1. /\ IsFiniteSet(done) /\ Cardinality(converting) \in Nat /\ Cardinality(done) \in Nat
  BY TaskSetsAreFinite DEF BufferInv
<1>2. failed = 0 /\ Cardinality(done) = 0
  BY <1>1 DEF CountInv, InFlight, NatTypes
<1>3. done = {}
  BY <1>1, <1>2, FS_EmptySet
<1> QED BY <1>2, <1>3 DEF TaskStep, TaskStart, TaskFetch, TaskConvert, TaskPush, TaskNotify, queue

LEMMA RestStep ==
  ASSUME BufferInv, NatTypes, CountInv, RestInv, [Next]_rgaVars
  PROVE  RestInv'
<1> USE DEF RestInv, life, queue
<1>1. CASE TaskStep
  <2>1. UNCHANGED <<stopper, running_, alive, worker, gaveUp>>
    BY <1>1 DEF TaskStep, TaskStart, TaskFetch, TaskConvert, TaskPush, TaskNotify
  <2> QED BY <1>1, <2>1, NothingInFlight
<1>2. CASE WorkerStep
  <2>1. UNCHANGED <<stopper, running_, alive, gaveUp>> /\ worker # "none"
    BY <1>2 DEF WorkerStep, WorkerPausable, WorkerEnd, WorkerLook, WorkerWakes, WorkerRoom, WorkerPost, WorkerTell
  <2> QED BY <2>1
<1>3. CASE ClientStep \/ DumpCall \/ Feed \/ Expire \/ UNCHANGED rgaVars
  BY <1>3 DEF ClientStep, Dump, DumpTimeout, ReleaseBuffer, DumpCall, Feed, Expire, rgaVars
<1>4. CASE Start \/ PauseOrResume \/ StopFlags \/ Destroy
  BY <1>4 DEF Start, PauseOrResume, StopFlags, Destroy
<1>5. CASE ResumeWrites \/ StopWake \/ StopJoin
  BY <1>5 DEF ResumeWrites, StopWake, StopJoin
<1>6. CASE StopDrain
  <2>1. inFlightTasks_ \in Nat
    <3>1. Cardinality(converting) \in Nat /\ Cardinality(done) \in Nat
      BY TaskSetsAreFinite DEF BufferInv
    <3> QED BY <3>1 DEF CountInv, InFlight, NatTypes
  <2>2. UNCHANGED <<running_, alive, worker, inFlightTasks_>> /\ stopper = "drain"
    BY <1>6 DEF StopDrain
  <2>3. CASE stopper' = "drain"
    BY <2>2, <2>3
  <2>4. CASE stopper' = "idle" /\ gaveUp' = (inFlightTasks_ > 0)
    <3>1. gaveUp' \/ inFlightTasks_' = 0
      BY <2>1, <2>2, <2>4, inFlightTasks_ > 0 \/ inFlightTasks_ = 0, Zenon
    <3>2. worker' = "none" /\ ~running_' /\ alive' = alive
      BY <2>2
    <3> QED BY <2>2, <2>4, <3>1, <3>2
  <2> QED BY <1>6, <2>2, <2>3, <2>4 DEF StopDrain
<1> QED BY <1>1, <1>2, <1>3, <1>4, <1>5, <1>6 DEF Next, ControlStep

AccountInv == BufferInv /\ NatTypes /\ CountInv /\ RestInv

LEMMA AccountInit == Init => AccountInv
<1> SUFFICES ASSUME Init PROVE AccountInv
  OBVIOUS
<1>1. Cardinality({}) = 0
  BY FS_EmptySet
<1>2. CountInv
  BY <1>1, RgaAssumption DEF Init, CountInv, InFlight
<1>3. NatTypes /\ RestInv
  BY DEF Init, NatTypes, RestInv
<1> QED BY <1>2, <1>3, BufferInit DEF AccountInv

LEMMA AccountStep ==
  ASSUME ByHand = {}, AccountInv, [Next]_rgaVars
  PROVE  AccountInv'
<1>1. BufferInv' /\ NatTypes' /\ RestInv'
  BY BufferStep, CountersAreNat, RestStep DEF AccountInv
<1>2. CountInv'
  BY TaskCounts, WorkerCounts, OthersCount DEF AccountInv
<1> QED BY <1>1, <1>2 DEF AccountInv

LEMMA AccountHolds ==
  ASSUME AccountInv
  PROVE  TasksAreAccounted
<1>1. Cardinality(converting) \in Nat /\ Cardinality(done) \in Nat
  BY TaskSetsAreFinite DEF AccountInv, BufferInv
<1>2. inFlightTasks_ = posted + busy - telling + (IF worker = "post" THEN 1 ELSE 0)
  BY <1>1 DEF AccountInv, NatTypes, CountInv, InFlight, busy
<1> QED BY <1>2 DEF TasksAreAccounted, AccountInv, BufferInv, CountInv, RestInv

(* As long as every client gives its buffers back with their Frames,       *)
(* inFlightTasks_ counts the tasks that may still come, one is posted only *)
(* when there is room for its frame, and nothing is in flight once stop()  *)
(* has returned without giving up.                                         *)
THEOREM TasksAccounted ==
  ASSUME ByHand = {}
  PROVE  Spec => []TasksAreAccounted
<1> SUFFICES ASSUME ByHand = {}
             PROVE  Spec => []TasksAreAccounted
  OBVIOUS
<1>1. AccountInv /\ [Next]_rgaVars => AccountInv'
  BY AccountStep
<1>2. AccountInv => TasksAreAccounted
  BY AccountHolds
<1> QED BY <1>1, <1>2, AccountInit, PTL DEF Spec

=============================================================================
