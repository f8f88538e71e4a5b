---------------------------- MODULE StreamWriter ----------------------------
(***************************************************************************)
(* The segmenting writer (src/src/utils/mpp/streamWriter.cpp) on top of an *)
(* encoder core.  One client pushes the metas of the frames 1 .. NumMetas  *)
(* it has submitted; the dispatcher waits for each packet, cuts the stream *)
(* into segments at key frames and hands the packet to one of two writer   *)
(* threads; another thread stops the writer.                               *)
(*                                                                         *)
(* The core is the abstract one of EncoderService: packets become ready in *)
(* submission order.                                                       *)
(***************************************************************************)
EXTENDS Integers, Sequences, FiniteSets

CONSTANTS
  NumMetas,          (* how many metas the client pushes                     *)
  KeyFrames,         (* the frames whose packet is a key frame               *)
  PacketsPerSegment, (* packetsPerSegment_: key frames per segment           *)
  Events,            (* what may go wrong, and whether stop() is called      *)
  None               (* no meta                                              *)

AllEvents == {"noPacket",   \* no packet within the 4000 tries
              "openFails",  \* fopen or fileno fails
              "noData",     \* the packet has no data
              "stop"}       \* stop() is called

Metas == 1 .. NumMetas

ASSUME StreamWriterAssumption ==
  /\ NumMetas \in Nat \ {0}
  /\ KeyFrames \subseteq Metas
  /\ PacketsPerSegment \in Nat \ {0}
  /\ Events \subseteq AllEvents
  /\ None \notin Metas

Writers == {"A", "B"}
Other(w) == IF w = "A" THEN "B" ELSE "A"

(* Every cut takes a key frame. *)
Segments == 1 .. Cardinality(KeyFrames) + 1

VARIABLES
  phase, queue,                 \* the encoder core: EncoderService
  next, ppc, outcome,           \* the client: next meta, inside pushMeta?, its results
  accepting, running,           \* acceptingMeta_, running_
  dispatchQueue,
  dpc, dmeta,                   \* the dispatcher: program counter, meta
  current, segment, count,      \* currentWriter_, segmentIndex_, currentPacketCount_
  wqueue, pendingCount, file,   \* WriterCtx: queue, pendingCount, segment behind fp (0: none)
  wpc, wmeta,                   \* the writers: program counter, meta
  written, synced,              \* per segment file: the packets, how many are on disk
  spc                           \* the thread that calls stop()

coreVars     == <<phase, queue>>
clientVars   == <<next, ppc, outcome>>
dispatchVars == <<dpc, dmeta, current, segment, count>>
writerVars   == <<wqueue, pendingCount, wpc, wmeta>>
fileVars     == <<file, written, synced>>
vars == <<coreVars, clientVars, accepting, running, dispatchQueue, dispatchVars, writerVars, fileVars, spc>>

Core == INSTANCE EncoderService WITH Frames <- Metas, Capacity <- NumMetas

(* The constructor: the first segment goes to writer A, and the threads    *)
(* start even without a file.  The frames have been submitted.             *)
Init ==
  /\ phase = [m \in Metas |-> "queued"] /\ queue = [m \in Metas |-> m]
  /\ next = 1 /\ ppc = "idle" /\ outcome = [m \in Metas |-> "none"]
  /\ accepting = TRUE /\ running = TRUE
  /\ dispatchQueue = <<>>
  /\ dpc = "fetching" /\ dmeta = None
  /\ current = "A" /\ segment = 1 /\ count = 0
  /\ wqueue = [w \in Writers |-> <<>>]
  /\ pendingCount = [w \in Writers |-> 0]
  /\ file \in {[A |-> 1, B |-> 0]} \cup IF "openFails" \in Events THEN {[A |-> 0, B |-> 0]} ELSE {}
  /\ wpc = [w \in Writers |-> "fetching"] /\ wmeta = [w \in Writers |-> None]
  /\ written = [i \in Segments |-> <<>>] /\ synced = [i \in Segments |-> 0]
  /\ spc = "idle"

-----------------------------------------------------------------------------
(* A thread tests the predicate of its condition variable and falls asleep *)
(* while it holds the mutex ("blocking"); a notification wakes it only     *)
(* when it sleeps.                                                         *)
Woken(pc) == IF pc = "asleep" THEN "fetching" ELSE pc

DispatcherGoto(from, to) ==
  /\ dpc = from
  /\ dpc' = to

WriterGoto(w, from, to) ==
  /\ wpc[w] = from
  /\ wpc' = [wpc EXCEPT ![w] = to]

StopGoto(from, to) ==
  /\ spc = from
  /\ spc' = to

(* Mutant of Idle: pendingCount is not looked at.                          *)
IdleQueueOnly(w) == wqueue[w] = <<>>

(* The predicate of waitUntilWriterIdle; its changes are notified under    *)
(* the mutex, so waiting for it is waiting until it holds.                 *)
Idle(w) == pendingCount[w] = 0 /\ wqueue[w] = <<>>

(* releaseSlot for a meta whose packet never came.                         *)
GiveUp(m) ==
  /\ phase' = [phase EXCEPT ![m] = "returned"]
  /\ queue' = SelectSeq(queue, LAMBDA x : x # m)

-----------------------------------------------------------------------------
(* The client, in pushMeta: the check and the push are two steps.          *)

PushCheck ==
  /\ ppc = "idle" /\ next <= NumMetas
  /\ IF accepting
     THEN ppc' = "pushing" /\ UNCHANGED <<next, outcome>>
     ELSE /\ outcome' = [outcome EXCEPT ![next] = "refused"]
          /\ next' = next + 1
          /\ UNCHANGED ppc
  /\ UNCHANGED <<coreVars, accepting, running, dispatchQueue, dispatchVars, writerVars, fileVars, spc>>

PushQueue ==
  /\ ppc = "pushing"
  /\ dpc # "blocking"
  /\ dispatchQueue' = Append(dispatchQueue, next)
  /\ dpc' = Woken(dpc)
  /\ outcome' = [outcome EXCEPT ![next] = "accepted"]
  /\ next' = next + 1
  /\ ppc' = "idle"
  /\ UNCHANGED <<coreVars, accepting, running, dmeta, current, segment, count, writerVars, fileVars, spc>>

CoreEncodes ==
  /\ Core!Encode
  /\ UNCHANGED <<clientVars, accepting, running, dispatchQueue, dispatchVars, writerVars, fileVars, spc>>

-----------------------------------------------------------------------------
(* dispatchLoop.                                                           *)

DispatchFetch ==
  /\ dpc = "fetching"
  /\ \/ /\ dispatchQueue # <<>>
        /\ dpc' = "obtaining"
        /\ dmeta' = Head(dispatchQueue)
        /\ dispatchQueue' = Tail(dispatchQueue)
     \/ /\ dispatchQueue = <<>>
        /\ dpc' = IF accepting THEN "blocking" ELSE "exited"
        /\ UNCHANGED <<dmeta, dispatchQueue>>
  /\ UNCHANGED <<coreVars, clientVars, accepting, running, current, segment, count, writerVars, fileVars, spc>>

DispatchSleep ==
  /\ DispatcherGoto("blocking", "asleep")
  /\ UNCHANGED <<coreVars, clientVars, accepting, running, dispatchQueue, dmeta, current, segment, count, writerVars, fileVars, spc>>

(* The dispatcher counts the key frame and cuts at the PacketsPerSegment-th *)
(* one.                                                                    *)
CutsHere == dmeta \in KeyFrames /\ count + 1 >= PacketsPerSegment

(* obtainPacketForMeta has got the packet.  (firstKeyFramePending_ is      *)
(* cleared by the first packet of either kind, so that the branch that     *)
(* would drop a packet for it is never taken.)                             *)
DispatchObtain ==
  /\ DispatcherGoto("obtaining", IF CutsHere THEN "opening" ELSE "handing")
  /\ Core!Deliver(dmeta)
  /\ count' = IF dmeta \in KeyFrames THEN count + 1 ELSE count
  /\ UNCHANGED <<clientVars, accepting, running, dispatchQueue, dmeta, current, segment, writerVars, fileVars, spc>>

(* ... or has run out of tries and releases the slot.                      *)
DispatchTimeout ==
  /\ "noPacket" \in Events \/ ~running
  /\ DispatcherGoto("obtaining", "fetching")
  /\ GiveUp(dmeta)
  /\ UNCHANGED <<clientVars, accepting, running, dispatchQueue, dmeta, current, segment, count, writerVars, fileVars, spc>>

(* openNewSegmentFor(idleWriter_) and the swap; a failure leaves the file  *)
(* of the idle writer as it was, and the writers are swapped all the same. *)
DispatchOpen ==
  /\ Idle(Other(current))
  /\ DispatcherGoto("opening", "syncing")
  /\ segment' = segment + 1
  /\ \/ file' = [file EXCEPT ![Other(current)] = segment + 1]
     \/ "openFails" \in Events /\ UNCHANGED file
  /\ current' = Other(current)
  /\ count' = 0
  /\ UNCHANGED <<coreVars, clientVars, accepting, running, dispatchQueue, dmeta, writerVars, written, synced, spc>>

(* waitUntilWriterIdle and flushAndSyncWriter for the writer that got no   *)
(* packets from the swap on.                                               *)
DispatchSync ==
  LET old == file[Other(current)]
  IN /\ Idle(Other(current))
     /\ DispatcherGoto("syncing", "handing")
     /\ synced' = IF old = 0 THEN synced ELSE [synced EXCEPT ![old] = Len(written[old])]
     /\ UNCHANGED <<coreVars, clientVars, accepting, running, dispatchQueue, dmeta, current, segment, count, writerVars, file, written, spc>>

DispatchHand ==
  /\ wpc[current] # "blocking"
  /\ DispatcherGoto("handing", "fetching")
  /\ pendingCount' = [pendingCount EXCEPT ![current] = @ + 1]
  /\ wqueue' = [wqueue EXCEPT ![current] = Append(@, dmeta)]
  /\ wpc' = [wpc EXCEPT ![current] = Woken(@)]
  /\ UNCHANGED <<coreVars, clientVars, accepting, running, dispatchQueue, dmeta, current, segment, count, wmeta, fileVars, spc>>

-----------------------------------------------------------------------------
(* writerLoop.                                                             *)

WriterFetch(w) ==
  /\ wpc[w] = "fetching"
  /\ \/ /\ wqueue[w] # <<>>
        /\ wpc' = [wpc EXCEPT ![w] = "writing"]
        /\ wmeta' = [wmeta EXCEPT ![w] = Head(wqueue[w])]
        /\ wqueue' = [wqueue EXCEPT ![w] = Tail(@)]
     \/ /\ wqueue[w] = <<>>
        /\ wpc' = [wpc EXCEPT ![w] = IF running THEN "blocking" ELSE "exited"]
        /\ UNCHANGED <<wmeta, wqueue>>
  /\ UNCHANGED <<coreVars, clientVars, accepting, running, dispatchQueue, dispatchVars, pendingCount, fileVars, spc>>

WriterSleep(w) ==
  /\ WriterGoto(w, "blocking", "asleep")
  /\ UNCHANGED <<coreVars, clientVars, accepting, running, dispatchQueue, dispatchVars, wqueue, pendingCount, wmeta, fileVars, spc>>

(* The packet is appended to the file behind fp, or dropped without one.   *)
WriterWrite(w) ==
  /\ WriterGoto(w, "writing", "finishing")
  /\ \/ /\ file[w] # 0
        /\ written' = [written EXCEPT ![file[w]] = Append(@, wmeta[w])]
     \/ /\ file[w] = 0 \/ "noData" \in Events
        /\ UNCHANGED written
  /\ UNCHANGED <<coreVars, clientVars, accepting, running, dispatchQueue, dispatchVars, wqueue, pendingCount, wmeta, file, synced, spc>>

(* Mutant of WriterFinish: a path that leaves the count as it is.          *)
WriterFinishUncounted(w) ==
  /\ WriterGoto(w, "finishing", "releasing")
  /\ UNCHANGED <<coreVars, clientVars, accepting, running, dispatchQueue, dispatchVars, wqueue, pendingCount, wmeta, fileVars, spc>>

WriterFinish(w) ==
  /\ wpc[w] = "finishing"
  /\ wpc' = [wpc EXCEPT ![w] = "releasing"]
  /\ pendingCount' = [pendingCount EXCEPT ![w] = IF @ > 0 THEN @ - 1 ELSE @]
  /\ UNCHANGED <<coreVars, clientVars, accepting, running, dispatchQueue, dispatchVars, wqueue, wmeta, fileVars, spc>>

(* Mutant of WriterRelease: the guard does not release.                    *)
WriterReleaseForgets(w) ==
  /\ WriterGoto(w, "releasing", "fetching")
  /\ UNCHANGED <<coreVars, clientVars, accepting, running, dispatchQueue, dispatchVars, wqueue, pendingCount, wmeta, fileVars, spc>>

(* The SlotGuard goes out of scope.                                        *)
WriterRelease(w) ==
  /\ WriterGoto(w, "releasing", "fetching")
  /\ Core!Return(wmeta[w])
  /\ UNCHANGED <<clientVars, accepting, running, dispatchQueue, dispatchVars, wqueue, pendingCount, wmeta, fileVars, spc>>

-----------------------------------------------------------------------------
(* stop.  No mutex is held when a flag is cleared or a thread is notified. *)

StopBegin ==
  /\ "stop" \in Events
  /\ StopGoto("idle", "notifying")
  /\ accepting' = FALSE
  /\ UNCHANGED <<coreVars, clientVars, running, dispatchQueue, dispatchVars, writerVars, fileVars>>

StopNotify ==
  /\ StopGoto("notifying", "joiningDispatcher")
  /\ dpc' = Woken(dpc)
  /\ wpc' = [w \in Writers |-> Woken(wpc[w])]
  /\ UNCHANGED <<coreVars, clientVars, accepting, running, dispatchQueue, dmeta, current, segment, count, wqueue, pendingCount, wmeta, fileVars>>

(* The dispatcher is joined and both writers are idle.                     *)
StopDrained ==
  /\ dpc = "exited"
  /\ \A w \in Writers : Idle(w)
  /\ StopGoto("joiningDispatcher", "notifyingWriters")
  /\ running' = FALSE
  /\ UNCHANGED <<coreVars, clientVars, accepting, dispatchQueue, dispatchVars, writerVars, fileVars>>

StopNotifyWriters ==
  /\ StopGoto("notifyingWriters", "joiningWriters")
  /\ wpc' = [w \in Writers |-> Woken(wpc[w])]
  /\ UNCHANGED <<coreVars, clientVars, accepting, running, dispatchQueue, dispatchVars, wqueue, pendingCount, wmeta, fileVars>>

StopJoined ==
  /\ \A w \in Writers : wpc[w] = "exited"
  /\ StopGoto("joiningWriters", "stopped")
  /\ UNCHANGED <<coreVars, clientVars, accepting, running, dispatchQueue, dispatchVars, writerVars, fileVars>>

-----------------------------------------------------------------------------
Client == PushCheck \/ PushQueue

Dispatcher ==
  \/ DispatchFetch \/ DispatchSleep \/ DispatchObtain \/ DispatchTimeout
  \/ DispatchOpen \/ DispatchSync \/ DispatchHand

Writer(w) ==
  WriterFetch(w) \/ WriterSleep(w) \/ WriterWrite(w) \/ WriterFinish(w) \/ WriterRelease(w)

Stop == StopNotify \/ StopDrained \/ StopNotifyWriters \/ StopJoined

Next == Client \/ CoreEncodes \/ Dispatcher \/ (\E w \in Writers : Writer(w)) \/ StopBegin \/ Stop

Spec == Init /\ [][Next]_vars

(* The threads of the writer run on, the core encodes what it was given,   *)
(* and stop(), once called, goes on; nobody is bound to call it.           *)
Fairness ==
  /\ WF_vars(CoreEncodes)
  /\ WF_vars(Dispatcher)
  /\ \A w \in Writers : WF_vars(Writer(w))
  /\ WF_vars(Stop)

LiveSpec == Spec /\ Fairness
-----------------------------------------------------------------------------
(* Properties.                                                             *)

Elements(q) == {q[i] : i \in DOMAIN q}

(* Every variable has its type; in particular currentPacketCount_ stays    *)
(* within packetsPerSegment_ and pendingCount within what was handed out.  *)
TypeOK ==
  /\ phase \in [Metas -> Core!Phase] /\ queue \in Seq(Metas)
  /\ next \in 1 .. NumMetas + 1 /\ ppc \in {"idle", "pushing"}
  /\ outcome \in [Metas -> {"none", "accepted", "refused"}]
  /\ accepting \in BOOLEAN /\ running \in BOOLEAN
  /\ dispatchQueue \in Seq(Metas)
  /\ dpc \in {"fetching", "blocking", "asleep", "obtaining", "opening", "syncing", "handing", "exited"}
  /\ dmeta \in Metas \cup {None}
  /\ current \in Writers /\ segment \in Segments /\ count \in 0 .. PacketsPerSegment
  /\ wqueue \in [Writers -> Seq(Metas)]
  /\ pendingCount \in [Writers -> 0 .. NumMetas]
  /\ file \in [Writers -> Segments \cup {0}]
  /\ wpc \in [Writers -> {"fetching", "blocking", "asleep", "writing", "finishing", "releasing", "exited"}]
  /\ wmeta \in [Writers -> Metas \cup {None}]
  /\ written \in [Segments -> Seq(Metas)] /\ synced \in [Segments -> Nat]
  /\ spc \in {"idle", "notifying", "joiningDispatcher", "notifyingWriters", "joiningWriters", "stopped"}

Rising(q) == \A i, j \in DOMAIN q : i < j => q[i] < q[j]

Precedes(S, T) == \A x \in S, y \in T : x < y

(* Read one after the other, the segments are the stream: the packets come *)
(* in the order they were pushed, each once, although two threads write    *)
(* them.  (With a segment that cannot be opened the packets go to an older *)
(* file, and the order is lost.)                                           *)
StreamInOrder ==
  "openFails" \notin Events =>
    /\ \A n \in Segments : Rising(written[n])
    /\ \A m, n \in Segments : m < n => Precedes(Elements(written[m]), Elements(written[n]))

(* The file behind a writer is replaced only when that writer has written  *)
(* everything it was given (streamWriter.cpp:154).                         *)
FileOutlivesItsPackets ==
  [][\A w \in Writers :
       file'[w] # file[w] => wqueue[w] = <<>> /\ wpc[w] \notin {"writing", "finishing"}]_vars

(* In the end every meta that pushMeta accepted has given its slot back,   *)
(* stop() or not, but for those pushed when the dispatcher had gone.       *)
AcceptedIsReturned ==
  <>[](\A m \in Metas : outcome[m] = "accepted" =>
         phase[m] = "returned" \/ (dpc = "exited" /\ m \in Elements(dispatchQueue)))

(* stop() gets past its first join and drains both writers, unless the     *)
(* dispatcher was testing its predicate when the notification passed.      *)
StopDrains ==
  spc = "joiningDispatcher" /\ dpc \notin {"blocking", "asleep"} ~> spc = "joiningWriters"

(* What stop() promises (docs/plans/2026-03-14-mpp-stability-plan.md:107,  *)
(* "drain already queued work"): when it returns, every meta that pushMeta *)
(* accepted has given its slot back.                                       *)
NothingLeftBehind ==
  spc = "stopped" => \A m \in Metas : outcome[m] = "accepted" => phase[m] = "returned"
=============================================================================
