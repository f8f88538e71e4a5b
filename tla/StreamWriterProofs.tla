------------------------- MODULE StreamWriterProofs -------------------------
(***************************************************************************)
(* What holds of the segmenting writer for any number of packets, any key  *)
(* frames and segment lengths, whatever fails, and wherever stop() comes.  *)
(***************************************************************************)
EXTENDS StreamWriter, SequenceTheorems, FiniteSetTheorems, TLAPS

-----------------------------------------------------------------------------
(* Sequences of packets.                                                   *)

LEMMA AppendElements ==
  ASSUME NEW s \in Seq(Metas), NEW x \in Metas
  PROVE  /\ Append(s, x) \in Seq(Metas) /\ Len(Append(s, x)) = Len(s) + 1
         /\ Elements(Append(s, x)) = Elements(s) \cup {x}
<1>1. /\ Append(s, x) \in Seq(Metas) /\ Len(s) \in Nat
      /\ DOMAIN s = 1 .. Len(s) /\ DOMAIN Append(s, x) = 1 .. Len(s) + 1
      /\ \A i \in 1 .. Len(s) : Append(s, x)[i] = s[i]
      /\ Append(s, x)[Len(s) + 1] = x /\ Len(Append(s, x)) = Len(s) + 1
  OBVIOUS
<1>2. \A i \in DOMAIN Append(s, x) : i \in DOMAIN s \/ i = Len(s) + 1
  BY <1>1
<1>3. Elements(Append(s, x)) \subseteq Elements(s) \cup {x}
  BY <1>1, <1>2 DEF Elements
<1>4. Elements(s) \cup {x} \subseteq Elements(Append(s, x))
  BY <1>1 DEF Elements
<1> QED BY <1>1, <1>3, <1>4

(* A later packet keeps a rising sequence rising.                          *)
LEMMA AppendRises ==
  ASSUME NEW s \in Seq(Metas), NEW x \in Metas, Rising(s), Precedes(Elements(s), {x})
  PROVE  Rising(Append(s, x))
<1>1. /\ Len(s) \in Nat /\ DOMAIN s = 1 .. Len(s) /\ DOMAIN Append(s, x) = 1 .. Len(s) + 1
      /\ \A i \in 1 .. Len(s) : Append(s, x)[i] = s[i]
      /\ Append(s, x)[Len(s) + 1] = x
  OBVIOUS
<1> SUFFICES ASSUME NEW i \in DOMAIN Append(s, x), NEW j \in DOMAIN Append(s, x), i < j
             PROVE  Append(s, x)[i] < Append(s, x)[j]
  BY DEF Rising
<1>2. i \in DOMAIN s /\ Append(s, x)[i] \in Elements(s)
  BY <1>1 DEF Elements
<1>3. CASE j \in DOMAIN s
  BY <1>1, <1>2, <1>3 DEF Rising
<1>4. CASE j = Len(s) + 1
  BY <1>1, <1>2, <1>4 DEF Precedes
<1> QED BY <1>1, <1>3, <1>4

(* The head of a rising sequence comes before the rest.                    *)
LEMMA HeadPrecedes ==
  ASSUME NEW s \in Seq(Metas), s # <<>>, Rising(s)
  PROVE  /\ Head(s) \in Metas /\ Tail(s) \in Seq(Metas) /\ Len(Tail(s)) = Len(s) - 1
         /\ Elements(s) = {Head(s)} \cup Elements(Tail(s))
         /\ Rising(Tail(s)) /\ Precedes({Head(s)}, Elements(Tail(s)))
<1>1. /\ Len(s) \in Nat \ {0} /\ Tail(s) \in Seq(Metas) /\ Head(s) = s[1] /\ s[1] \in Metas
      /\ DOMAIN s = 1 .. Len(s) /\ DOMAIN Tail(s) = 1 .. Len(s) - 1
      /\ \A i \in 1 .. Len(s) - 1 : Tail(s)[i] = s[i + 1]
      /\ Len(Tail(s)) = Len(s) - 1
  OBVIOUS
<1>2. \A i \in DOMAIN Tail(s) : i + 1 \in DOMAIN s /\ 1 < i + 1
  BY <1>1
<1>3. 1 \in DOMAIN s
  BY <1>1
<1>4. \A i \in DOMAIN s : i = 1 \/ \E j \in DOMAIN Tail(s) : s[i] = Tail(s)[j]
  <2> SUFFICES ASSUME NEW i \in DOMAIN s, i # 1
               PROVE  \E j \in DOMAIN Tail(s) : s[i] = Tail(s)[j]
    OBVIOUS
  <2>1. i - 1 \in DOMAIN Tail(s) /\ s[i] = Tail(s)[i - 1]
    BY <1>1
  <2> QED BY <2>1
<1>5. Elements(s) \subseteq {Head(s)} \cup Elements(Tail(s))
  BY <1>1, <1>4 DEF Elements
<1>6. {Head(s)} \cup Elements(Tail(s)) \subseteq Elements(s)
  BY <1>1, <1>2, <1>3 DEF Elements
<1>7. Rising(Tail(s))
  BY <1>1, <1>2 DEF Rising
<1>8. Precedes({Head(s)}, Elements(Tail(s)))
  BY <1>1, <1>2, <1>3 DEF Rising, Precedes, Elements
<1> QED BY <1>1, <1>5, <1>6, <1>7, <1>8

LEMMA EmptyElements == Elements(<<>>) = {} /\ Rising(<<>>) /\ <<>> \in Seq(Metas)
BY DEF Elements, Rising

-----------------------------------------------------------------------------
DispatcherAt == {"fetching", "blocking", "asleep", "obtaining", "opening", "syncing", "handing", "exited"}
WriterAt == {"fetching", "blocking", "asleep", "writing", "finishing", "releasing", "exited"}

(* The dispatcher has a packet in hand.                                    *)
Carrying == {"obtaining", "opening", "syncing", "handing"}

(* The types the argument needs. *)
StreamTypes ==
  /\ next \in Nat \ {0} /\ (ppc = "pushing" => next \in Metas)
  /\ dispatchQueue \in Seq(Metas)
  /\ dpc \in DispatcherAt /\ (dpc \in Carrying => dmeta \in Metas)
  /\ current \in Writers /\ segment \in Nat \ {0}
  /\ wqueue \in [Writers -> Seq(Metas)]
  /\ pendingCount \in [Writers -> Nat]
  /\ file \in [Writers -> Nat]
  /\ wpc \in [Writers -> WriterAt]
  /\ wmeta \in [Writers -> Metas \cup {None}]
  /\ \A w \in Writers : wpc[w] = "writing" => wmeta[w] \in Metas
  /\ written \in [Segments -> Seq(Metas)]

(* pendingCount is what a writer has not finished, what it holds included. *)
Unfinished(w) == Len(wqueue[w]) + IF wpc[w] \in {"writing", "finishing"} THEN 1 ELSE 0

CountInv == \A w \in Writers : pendingCount[w] = Unfinished(w)

(* What is on its way, from the disk back to the client.                   *)
InFiles == UNION {Elements(written[n]) : n \in Segments}
Held(w) == IF wpc[w] = "writing" THEN {wmeta[w]} ELSE {}
Handed(w) == Elements(wqueue[w])
InHand == IF dpc \in Carrying THEN {dmeta} ELSE {}
Waiting == Elements(dispatchQueue)
Stages == InFiles \cup (UNION {Held(w) \cup Handed(w) : w \in Writers}) \cup InHand \cup Waiting

(* Each stage comes before the one behind it. *)
StageInv ==
  /\ \A w \in Writers : Rising(wqueue[w]) /\ Precedes(Held(w), Handed(w))
  /\ \A w \in Writers : Precedes(InFiles, Held(w) \cup Handed(w))
  /\ \A w \in Writers : Precedes(Held(w) \cup Handed(w), InHand \cup Waiting)
  /\ Precedes(InFiles, InHand \cup Waiting)
  /\ Precedes(InHand, Waiting) /\ Rising(dispatchQueue)
  /\ \A x \in Stages : x < next

(* Only one writer has packets: the current one, or, from the swap until   *)
(* it has been waited for, the other one; there is no segment beyond its.  *)
NoPackets(w) == wqueue[w] = <<>> /\ wpc[w] # "writing"

SwapInv ==
  /\ file[current] = segment
  /\ dpc # "syncing" => NoPackets(Other(current))
  /\ dpc = "syncing" =>
       /\ NoPackets(current)
       /\ file[Other(current)] = segment - 1
       /\ segment \in Segments => written[segment] = <<>>
  /\ \A n \in Segments : n > segment => written[n] = <<>>

FileInv ==
  /\ \A n \in Segments : Rising(written[n])
  /\ \A m, n \in Segments : m < n => Precedes(Elements(written[m]), Elements(written[n]))

OrderInv == StageInv /\ SwapInv /\ FileInv

StreamInv == StreamTypes /\ CountInv /\ ("openFails" \notin Events => OrderInv)
-----------------------------------------------------------------------------
(* The types and the counts, which hold whatever fails.                    *)

LEMMA EverySoFar == Writers = {"A", "B"} /\ \A w \in Writers : Other(w) \in Writers /\ Other(w) # w /\ Other(Other(w)) = w
BY DEF Writers, Other

LEMMA BaseInit ==
  ASSUME Init
  PROVE  StreamTypes /\ CountInv
<1> USE DEF Init
<1>1. <<>> \in Seq(Metas) /\ Len(<<>>) = 0
  OBVIOUS
<1>2. file \in [Writers -> Nat] /\ current \in Writers
  BY DEF Writers
<1>3. wpc \in [Writers -> WriterAt] /\ dpc \in DispatcherAt /\ dpc \notin Carrying
  BY DEF WriterAt, DispatcherAt, Carrying
<1>4. StreamTypes
  BY <1>1, <1>2, <1>3 DEF StreamTypes
<1>5. CountInv
  BY <1>1 DEF CountInv, Unfinished
<1> QED BY <1>4, <1>5

(* The client and the threads that only change their place.                *)
LEMMA ClientBase ==
  ASSUME StreamTypes, CountInv, Client
  PROVE  StreamTypes' /\ CountInv'
<1> USE DEF StreamTypes, dispatchVars, writerVars, fileVars
<1>1. CASE PushCheck
  <2>1. (ppc' = "pushing" /\ next' = next /\ next <= NumMetas) \/ (ppc' = ppc /\ ppc = "idle" /\ next' = next + 1)
    BY <1>1 DEF PushCheck
  <2>2. next' \in Nat \ {0} /\ (ppc' = "pushing" => next' \in Metas)
    BY <2>1, StreamWriterAssumption DEF Metas
  <2>3. UNCHANGED <<dispatchQueue, dispatchVars, writerVars, fileVars>>
    BY <1>1 DEF PushCheck
  <2> QED BY <2>2, <2>3 DEF CountInv, Unfinished
<1>2. CASE PushQueue
  <2>1. /\ next \in Metas /\ dispatchQueue' = Append(dispatchQueue, next)
        /\ dpc' = Woken(dpc) /\ next' = next + 1 /\ ppc' = "idle"
        /\ UNCHANGED <<dmeta, current, segment, writerVars, fileVars>>
    BY <1>2 DEF PushQueue
  <2>2. dispatchQueue' \in Seq(Metas)
    BY <2>1
  <2>3. dpc' \in DispatcherAt /\ (dpc' \in Carrying => dpc' = dpc)
    BY <2>1 DEF Woken, DispatcherAt, Carrying
  <2> QED BY <2>1, <2>2, <2>3 DEF CountInv, Unfinished
<1> QED BY <1>1, <1>2 DEF Client

LEMMA DispatcherBase ==
  ASSUME StreamTypes, CountInv, Dispatcher
  PROVE  StreamTypes' /\ CountInv'
<1> USE DEF StreamTypes, clientVars, dispatchVars, writerVars, fileVars
<1>1. CASE DispatchFetch
  <2>1. CASE dispatchQueue # <<>>
    <3>1. Head(dispatchQueue) \in Metas /\ Tail(dispatchQueue) \in Seq(Metas)
      BY <2>1
    <3> QED BY <1>1, <2>1, <3>1 DEF DispatchFetch, CountInv, Unfinished, DispatcherAt
  <2>2. CASE dispatchQueue = <<>>
    BY <1>1, <2>2 DEF DispatchFetch, CountInv, Unfinished, DispatcherAt, Carrying
  <2> QED BY <2>1, <2>2
<1>2. CASE DispatchSleep
  BY <1>2 DEF DispatchSleep, DispatcherGoto, CountInv, Unfinished, DispatcherAt, Carrying
<1>3. CASE DispatchObtain
  BY <1>3 DEF DispatchObtain, DispatcherGoto, CountInv, Unfinished, DispatcherAt, Carrying
<1>4. CASE DispatchTimeout
  BY <1>4 DEF DispatchTimeout, DispatcherGoto, CountInv, Unfinished, DispatcherAt, Carrying
<1>5. CASE DispatchOpen
  <2>1. /\ dpc = "opening" /\ dpc' = "syncing" /\ segment' = segment + 1
        /\ file' = [file EXCEPT ![Other(current)] = segment + 1] \/ file' = file
        /\ current' = Other(current)
        /\ UNCHANGED <<next, ppc, dispatchQueue, dmeta, writerVars, written>>
    BY <1>5 DEF DispatchOpen, DispatcherGoto
  <2>2. current' \in Writers /\ file' \in [Writers -> Nat]
    BY <2>1, EverySoFar
  <2> QED BY <2>1, <2>2 DEF CountInv, Unfinished, DispatcherAt, Carrying
<1>6. CASE DispatchSync
  BY <1>6 DEF DispatchSync, DispatcherGoto, CountInv, Unfinished, DispatcherAt, Carrying
<1>7. CASE DispatchHand
  <2>1. /\ dpc = "handing" /\ dpc' = "fetching"
        /\ pendingCount' = [pendingCount EXCEPT ![current] = @ + 1]
        /\ wqueue' = [wqueue EXCEPT ![current] = Append(@, dmeta)]
        /\ wpc' = [wpc EXCEPT ![current] = Woken(@)]
        /\ UNCHANGED <<next, ppc, dispatchQueue, dmeta, current, segment, wmeta, fileVars>>
    BY <1>7 DEF DispatchHand, DispatcherGoto
  <2>2. dmeta \in Metas
    BY <2>1 DEF Carrying
  <2>3. Append(wqueue[current], dmeta) \in Seq(Metas) /\ Len(Append(wqueue[current], dmeta)) = Len(wqueue[current]) + 1
    BY <2>2, AppendElements
  <2>4. Woken(wpc[current]) \in WriterAt
        /\ \A p \in {"writing", "finishing"} : Woken(wpc[current]) = p <=> wpc[current] = p
    BY DEF Woken, WriterAt
  <2>5. StreamTypes'
    BY <2>1, <2>2, <2>3, <2>4 DEF DispatcherAt, Carrying
  <2>6. ASSUME NEW w \in Writers, w = current
        PROVE  pendingCount'[w] = Unfinished(w)'
    BY <2>1, <2>3, <2>4, <2>6 DEF CountInv, Unfinished
  <2>7. ASSUME NEW w \in Writers, w # current
        PROVE  pendingCount'[w] = Unfinished(w)'
    BY <2>1, <2>7 DEF CountInv, Unfinished
  <2> QED BY <2>5, <2>6, <2>7 DEF CountInv
<1> QED BY <1>1, <1>2, <1>3, <1>4, <1>5, <1>6, <1>7 DEF Dispatcher

LEMMA WriterBase ==
  ASSUME StreamTypes, CountInv, NEW w \in Writers, Writer(w)
  PROVE  StreamTypes' /\ CountInv'
<1> USE DEF StreamTypes, clientVars, dispatchVars, writerVars, fileVars
<1>1. CASE WriterFetch(w) /\ wqueue[w] # <<>>
  <2>1. /\ wpc[w] = "fetching" /\ wpc' = [wpc EXCEPT ![w] = "writing"]
        /\ wmeta' = [wmeta EXCEPT ![w] = Head(wqueue[w])]
        /\ wqueue' = [wqueue EXCEPT ![w] = Tail(@)]
        /\ UNCHANGED <<next, ppc, dispatchQueue, dispatchVars, pendingCount, fileVars>>
    BY <1>1 DEF WriterFetch
  <2>2. Head(wqueue[w]) \in Metas /\ Tail(wqueue[w]) \in Seq(Metas) /\ Len(Tail(wqueue[w])) = Len(wqueue[w]) - 1
    BY <1>1
  <2>3. StreamTypes'
    BY <2>1, <2>2 DEF WriterAt
  <2>4. pendingCount'[w] = Unfinished(w)'
    <3>1. wpc'[w] = "writing" /\ wqueue'[w] = Tail(wqueue[w])
      BY <2>1
    <3>2. Len(wqueue[w]) \in Nat
      OBVIOUS
    <3>3. pendingCount[w] = Len(wqueue[w])
      <4>1. Unfinished(w) = Len(wqueue[w]) + 0
        BY <2>1 DEF Unfinished
      <4> QED BY <3>2, <4>1 DEF CountInv
    <3> QED BY <2>1, <2>2, <3>1, <3>2, <3>3 DEF Unfinished
  <2>5. \A x \in Writers \ {w} : pendingCount'[x] = Unfinished(x)'
    BY <2>1 DEF CountInv, Unfinished
  <2> QED BY <2>3, <2>4, <2>5 DEF CountInv
<1>2. CASE \/ WriterFetch(w) /\ wqueue[w] = <<>>
           \/ WriterSleep(w) \/ WriterRelease(w)
  <2>1. /\ \E p \in WriterAt : /\ wpc' = [wpc EXCEPT ![w] = p]
                              /\ {p, wpc[w]} \cap {"writing", "finishing"} = {}
        /\ UNCHANGED <<next, ppc, dispatchQueue, dispatchVars, wqueue, pendingCount, wmeta, fileVars>>
    BY <1>2 DEF WriterFetch, WriterSleep, WriterRelease, WriterGoto, WriterAt
  <2> QED BY <2>1 DEF CountInv, Unfinished
<1>3. CASE WriterWrite(w)
  <2>1. /\ wpc[w] = "writing" /\ wpc' = [wpc EXCEPT ![w] = "finishing"]
        /\ written' = written \/ written' = [written EXCEPT ![file[w]] = Append(@, wmeta[w])]
        /\ UNCHANGED <<next, ppc, dispatchQueue, dispatchVars, wqueue, pendingCount, wmeta, file>>
    BY <1>3 DEF WriterWrite, WriterGoto
  <2>2. \A n \in Segments : Append(written[n], wmeta[w]) \in Seq(Metas)
    BY <2>1
  <2>3. written' \in [Segments -> Seq(Metas)]
    BY <2>1, <2>2
  <2> QED BY <2>1, <2>3 DEF CountInv, Unfinished, WriterAt
<1>4. CASE WriterFinish(w)
  <2>1. /\ wpc[w] = "finishing" /\ wpc' = [wpc EXCEPT ![w] = "releasing"]
        /\ pendingCount' = [pendingCount EXCEPT ![w] = IF @ > 0 THEN @ - 1 ELSE @]
        /\ UNCHANGED <<next, ppc, dispatchQueue, dispatchVars, wqueue, wmeta, fileVars>>
    BY <1>4 DEF WriterFinish
  <2>2. pendingCount[w] = Len(wqueue[w]) + 1 /\ Len(wqueue[w]) \in Nat
    BY <2>1 DEF CountInv, Unfinished
  <2> QED BY <2>1, <2>2 DEF CountInv, Unfinished, WriterAt
<1> QED BY <1>1, <1>2, <1>3, <1>4 DEF Writer, WriterFetch

(* Steps that move no packet: the core's, and those of the thread that     *)
(* stops the writer.                                                       *)
Still ==
  /\ UNCHANGED <<next, ppc, dispatchQueue, dmeta, current, segment, wqueue, pendingCount, wmeta, file, written>>
  /\ dpc' = dpc \/ dpc' = Woken(dpc)
  /\ wpc' = wpc \/ wpc' = [w \in Writers |-> Woken(wpc[w])]

LEMMA OthersAreStill ==
  ASSUME CoreEncodes \/ StopBegin \/ Stop \/ UNCHANGED vars
  PROVE  Still
BY DEF CoreEncodes, StopBegin, Stop, StopNotify, StopDrained, StopNotifyWriters, StopJoined, Still,
       vars, clientVars, dispatchVars, writerVars, fileVars

LEMMA StillThreads ==
  ASSUME StreamTypes, Still
  PROVE  /\ dpc' \in DispatcherAt /\ (dpc' = dpc \/ {dpc, dpc'} \cap Carrying = {})
         /\ wpc' \in [Writers -> WriterAt]
         /\ \A w \in Writers : wpc'[w] = wpc[w] \/ {wpc[w], wpc'[w]} \cap {"writing", "finishing"} = {}
BY DEF Still, StreamTypes, Woken, DispatcherAt, WriterAt, Carrying

LEMMA StillBase ==
  ASSUME StreamTypes, CountInv, Still
  PROVE  StreamTypes' /\ CountInv'
<1>1. StreamTypes'
  BY StillThreads DEF StreamTypes, Still
<1>2. \A w \in Writers : Unfinished(w)' = Unfinished(w)
  BY StillThreads DEF Unfinished, Still
<1> QED BY <1>1, <1>2 DEF CountInv, Still

LEMMA BaseStep ==
  ASSUME StreamTypes, CountInv, [Next]_vars
  PROVE  StreamTypes' /\ CountInv'
BY ClientBase, DispatcherBase, WriterBase, OthersAreStill, StillBase DEF Next

-----------------------------------------------------------------------------
(* Only DispatchOpen replaces a file, and it waits until nothing is left.  *)
LEMMA OnlyOpenReplaces ==
  ASSUME StreamTypes, CountInv, [Next]_vars, NEW w \in Writers, file'[w] # file[w]
  PROVE  wqueue[w] = <<>> /\ wpc[w] \notin {"writing", "finishing"}
<1>1. DispatchOpen
  BY DEF Next, Client, PushCheck, PushQueue, CoreEncodes, Dispatcher, DispatchFetch, DispatchSleep,
         DispatchObtain, DispatchTimeout, DispatchSync, DispatchHand, Writer, WriterFetch, WriterSleep,
         WriterWrite, WriterFinish, WriterRelease, StopBegin, Stop, StopNotify, StopDrained,
         StopNotifyWriters, StopJoined, vars, fileVars
<1>2. w = Other(current)
  BY <1>1 DEF DispatchOpen, StreamTypes
<1>3. pendingCount[w] = 0 /\ wqueue[w] = <<>>
  BY <1>1, <1>2 DEF DispatchOpen, Idle
<1>4. Unfinished(w) = 0 /\ Len(wqueue[w]) = 0
  BY <1>3 DEF CountInv
<1> QED BY <1>3, <1>4 DEF Unfinished

(* A segment file is replaced only when its writer has written everything  *)
(* it was given, whatever fails (streamWriter.cpp: waitUntilWriterIdle     *)
(* before openNewSegmentFor).                                              *)
THEOREM FilesOutliveTheirPackets == Spec => FileOutlivesItsPackets
<1>1. Init => StreamTypes /\ CountInv
  BY BaseInit
<1>2. StreamTypes /\ CountInv /\ [Next]_vars => StreamTypes' /\ CountInv'
  BY BaseStep
<1>3. StreamTypes /\ CountInv /\ [Next]_vars =>
        [\A w \in Writers : file'[w] # file[w] => wqueue[w] = <<>> /\ wpc[w] \notin {"writing", "finishing"}]_vars
  BY OnlyOpenReplaces
<1> QED BY <1>1, <1>2, <1>3, PTL DEF Spec, FileOutlivesItsPackets

-----------------------------------------------------------------------------
(* The order of the packets.                                               *)

LEMMA StagesAreMetas ==
  ASSUME StreamTypes
  PROVE  /\ InFiles \subseteq Metas /\ InHand \subseteq Metas /\ Waiting \subseteq Metas
         /\ \A w \in Writers : Held(w) \subseteq Metas /\ Handed(w) \subseteq Metas
         /\ Metas \subseteq Nat \ {0}
<1>1. \A s \in Seq(Metas) : Elements(s) \subseteq Metas
  BY DEF Elements
<1> QED BY <1>1, StreamWriterAssumption DEF StreamTypes, InFiles, InHand, Waiting, Held, Handed, Metas

(* Packets that stay where they are, or are dropped, stay in order.        *)
LEMMA StagesShrink ==
  ASSUME StreamTypes, StageInv,
         InFiles' \subseteq InFiles, InHand' \subseteq InHand, Waiting' \subseteq Waiting,
         \A w \in Writers : Held(w)' \subseteq Held(w) /\ Handed(w)' \subseteq Handed(w),
         \A w \in Writers : Rising(wqueue'[w]), Rising(dispatchQueue'),
         next' \in Nat, next' >= next
  PROVE  StageInv'
<1> USE DEF StageInv
<1>1. Stages' \subseteq Stages
  BY DEF Stages
<1>2. \A x \in Stages' : x < next'
  <2>1. Stages \subseteq Nat
    BY StagesAreMetas DEF Stages
  <2> QED BY <1>1, <2>1 DEF StreamTypes
<1>3. \A w \in Writers :
        /\ Precedes(Held(w)', Handed(w)')
        /\ Precedes(InFiles', Held(w)' \cup Handed(w)')
        /\ Precedes(Held(w)' \cup Handed(w)', InHand' \cup Waiting')
  BY DEF Precedes
<1>4. Precedes(InFiles', InHand' \cup Waiting') /\ Precedes(InHand', Waiting')
  BY DEF Precedes
<1> QED BY <1>2, <1>3, <1>4

(* pushMeta: the next packet comes after all others.                       *)
LEMMA PushStages ==
  ASSUME StreamTypes, StageInv, PushQueue
  PROVE  StageInv'
<1> USE DEF StageInv
<1>1. /\ next \in Metas /\ dispatchQueue' = Append(dispatchQueue, next)
      /\ dpc' = Woken(dpc) /\ next' = next + 1
      /\ UNCHANGED <<dmeta, wqueue, wpc, wmeta, written>>
  BY DEF PushQueue, StreamTypes, writerVars, fileVars
<1>2. Waiting' = Waiting \cup {next}
  BY <1>1, AppendElements DEF Waiting, StreamTypes
<1>3. /\ InFiles' = InFiles /\ InHand' = InHand
      /\ \A w \in Writers : Held(w)' = Held(w) /\ Handed(w)' = Handed(w)
  BY <1>1 DEF InFiles, InHand, Held, Handed, Woken, Carrying
<1>4. Stages \subseteq Nat /\ next \in Nat
  BY StagesAreMetas DEF Stages, StreamTypes
<1>5. \A x \in Stages : x < next
  OBVIOUS
<1>6. \A x \in Stages' : x < next'
  <2>1. Stages' = Stages \cup {next}
    BY <1>2, <1>3 DEF Stages
  <2> QED BY <1>1, <1>4, <1>5, <2>1
<1>7. Rising(dispatchQueue')
  <2>1. Precedes(Elements(dispatchQueue), {next})
    BY <1>5 DEF Precedes, Stages, Waiting
  <2> QED BY <1>1, <2>1, AppendRises DEF StreamTypes
<1>8. /\ \A w \in Writers : Precedes(Held(w) \cup Handed(w), {next})
      /\ Precedes(InFiles, {next}) /\ Precedes(InHand, {next})
  BY <1>5 DEF Precedes, Stages
<1>9. /\ \A w \in Writers : Precedes(Held(w)' \cup Handed(w)', InHand' \cup Waiting')
      /\ Precedes(InFiles', InHand' \cup Waiting')
      /\ Precedes(InHand', Waiting')
  BY <1>2, <1>3, <1>8 DEF Precedes
<1>10. \A w \in Writers :
         Rising(wqueue'[w]) /\ Precedes(Held(w)', Handed(w)') /\ Precedes(InFiles', Held(w)' \cup Handed(w)')
  BY <1>1, <1>3
<1> QED BY <1>6, <1>7, <1>9, <1>10

(* dispatchLoop takes the head of the queue.                               *)
LEMMA FetchStages ==
  ASSUME StreamTypes, StageInv, DispatchFetch
  PROVE  StageInv'
<1> USE DEF StageInv
<1>1. CASE dispatchQueue = <<>>
  <2>1. /\ dpc = "fetching" /\ dpc' \in {"blocking", "exited"}
        /\ UNCHANGED <<next, dispatchQueue, dmeta, wqueue, wpc, wmeta, written>>
    BY <1>1 DEF DispatchFetch, clientVars, writerVars, fileVars
  <2>2. /\ InFiles' = InFiles /\ InHand' = InHand /\ Waiting' = Waiting
        /\ \A w \in Writers : Held(w)' = Held(w) /\ Handed(w)' = Handed(w)
    BY <2>1 DEF InFiles, InHand, Held, Handed, Waiting, Carrying
  <2>3. next' \in Nat /\ next' >= next
    BY <2>1 DEF StreamTypes
  <2> QED BY <2>1, <2>2, <2>3, StagesShrink
<1>2. CASE dispatchQueue # <<>>
  <2>1. /\ dpc = "fetching" /\ dpc' = "obtaining" /\ dmeta' = Head(dispatchQueue)
        /\ dispatchQueue' = Tail(dispatchQueue)
        /\ UNCHANGED <<next, wqueue, wpc, wmeta, written>>
    BY <1>2 DEF DispatchFetch, clientVars, writerVars, fileVars
  <2>2. InHand = {} /\ InHand' = {Head(dispatchQueue)}
    BY <2>1 DEF InHand, Carrying
  <2>3. /\ Waiting = InHand' \cup Waiting' /\ Precedes(InHand', Waiting') /\ Rising(dispatchQueue')
    BY <1>2, <2>1, <2>2, HeadPrecedes DEF Waiting, StreamTypes
  <2>4. /\ InFiles' = InFiles
        /\ \A w \in Writers : Held(w)' = Held(w) /\ Handed(w)' = Handed(w)
    BY <2>1 DEF InFiles, Held, Handed
  <2>5. Stages' = Stages
    BY <2>2, <2>3, <2>4 DEF Stages
  <2>6. InHand' \cup Waiting' = InHand \cup Waiting
    BY <2>2, <2>3
  <2> QED BY <2>1, <2>3, <2>4, <2>5, <2>6
<1> QED BY <1>1, <1>2

(* dispatchLoop hands its packet to the current writer.                    *)
LEMMA HandStages ==
  ASSUME StreamTypes, StageInv, DispatchHand
  PROVE  StageInv'
<1> USE DEF StageInv
<1>1. PICK c \in Writers : c = current
  BY DEF StreamTypes
<1>2. /\ dpc = "handing" /\ dpc' = "fetching" /\ dmeta \in Metas
      /\ wqueue' = [wqueue EXCEPT ![c] = Append(@, dmeta)]
      /\ wpc' = [wpc EXCEPT ![c] = Woken(@)]
      /\ UNCHANGED <<next, dispatchQueue, wmeta, written>>
  BY <1>1 DEF DispatchHand, DispatcherGoto, Carrying, clientVars, fileVars, StreamTypes
<1>3. InHand = {dmeta} /\ InHand' = {}
  BY <1>2 DEF InHand, Carrying
<1>4. InFiles' = InFiles /\ Waiting' = Waiting
  BY <1>2 DEF InFiles, Waiting
<1>5. \A w \in Writers : Held(w)' = Held(w)
  BY <1>2 DEF Held, Woken, StreamTypes
<1>6. Handed(c)' = Handed(c) \cup {dmeta} /\ \A w \in Writers \ {c} : Handed(w)' = Handed(w)
  BY <1>2, AppendElements DEF Handed, StreamTypes
<1>7. \A w \in Writers : Rising(wqueue'[w])
  <2>1. Precedes(Elements(wqueue[c]), {dmeta})
    BY <1>3 DEF Precedes, Handed
  <2>2. Rising(Append(wqueue[c], dmeta))
    BY <1>2, <2>1, AppendRises DEF StreamTypes
  <2> QED BY <1>2, <2>2 DEF StreamTypes
<1>8. \A w \in Writers : Precedes(Held(w)', Handed(w)')
  BY <1>3, <1>5, <1>6 DEF Precedes
<1>9. \A w \in Writers : Precedes(InFiles', Held(w)' \cup Handed(w)')
  BY <1>3, <1>4, <1>5, <1>6 DEF Precedes
<1>10. \A w \in Writers : Precedes(Held(w)' \cup Handed(w)', InHand' \cup Waiting')
  BY <1>3, <1>4, <1>5, <1>6 DEF Precedes
<1>11. Precedes(InFiles', InHand' \cup Waiting') /\ Precedes(InHand', Waiting')
  BY <1>3, <1>4 DEF Precedes
<1>12. Stages' \subseteq Stages
  BY <1>3, <1>4, <1>5, <1>6 DEF Stages
<1> QED BY <1>2, <1>7, <1>8, <1>9, <1>10, <1>11, <1>12

(* writerLoop takes the head of its queue.                                 *)
LEMMA TakeStages ==
  ASSUME StreamTypes, StageInv, NEW w \in Writers, WriterFetch(w)
  PROVE  StageInv'
<1> USE DEF StageInv
<1>1. CASE wqueue[w] = <<>>
  <2>1. /\ wpc[w] = "fetching" /\ \E p \in {"blocking", "exited"} : wpc' = [wpc EXCEPT ![w] = p]
        /\ UNCHANGED <<next, dispatchQueue, dpc, dmeta, wqueue, wmeta, written>>
    BY <1>1 DEF WriterFetch, clientVars, dispatchVars, fileVars
  <2>2. /\ InFiles' = InFiles /\ InHand' = InHand /\ Waiting' = Waiting
        /\ \A x \in Writers : Held(x)' = Held(x) /\ Handed(x)' = Handed(x)
    BY <2>1 DEF InFiles, InHand, Held, Handed, Waiting, StreamTypes
  <2>3. next' \in Nat /\ next' >= next
    BY <2>1 DEF StreamTypes
  <2> QED BY <2>1, <2>2, <2>3, StagesShrink
<1>2. CASE wqueue[w] # <<>>
  <2>1. /\ wpc[w] = "fetching" /\ wpc' = [wpc EXCEPT ![w] = "writing"]
        /\ wmeta' = [wmeta EXCEPT ![w] = Head(wqueue[w])]
        /\ wqueue' = [wqueue EXCEPT ![w] = Tail(@)]
        /\ UNCHANGED <<next, dispatchQueue, dpc, dmeta, written>>
    BY <1>2 DEF WriterFetch, clientVars, dispatchVars, fileVars
  <2>2. InFiles' = InFiles /\ InHand' = InHand /\ Waiting' = Waiting
    BY <2>1 DEF InFiles, InHand, Waiting
  <2>3. Held(w)' = {Head(wqueue[w])} /\ Handed(w)' = Elements(Tail(wqueue[w]))
    BY <2>1 DEF Held, Handed, StreamTypes
  <2>4. /\ Handed(w) = Held(w)' \cup Handed(w)' /\ Rising(Tail(wqueue[w])) /\ Precedes(Held(w)', Handed(w)')
    BY <1>2, <2>3, HeadPrecedes DEF Handed, StreamTypes
  <2>5. \A x \in Writers \ {w} : Held(x)' = Held(x) /\ Handed(x)' = Handed(x)
    BY <2>1 DEF Held, Handed, StreamTypes
  <2>6. \A x \in Writers : Held(x)' \cup Handed(x)' \subseteq Held(x) \cup Handed(x)
    BY <2>4, <2>5
  <2>7. \A x \in Writers : Rising(wqueue'[x]) /\ Precedes(Held(x)', Handed(x)')
    BY <2>1, <2>4, <2>5 DEF StreamTypes
  <2>8. \A x \in Writers : /\ Precedes(InFiles', Held(x)' \cup Handed(x)')
                           /\ Precedes(Held(x)' \cup Handed(x)', InHand' \cup Waiting')
    BY <2>2, <2>6 DEF Precedes
  <2>9. Stages' \subseteq Stages
    BY <2>2, <2>6 DEF Stages
  <2> QED BY <2>1, <2>2, <2>7, <2>8, <2>9
<1> QED BY <1>1, <1>2

-----------------------------------------------------------------------------
(* A writer that holds a packet is the only one that has any, and there is *)
(* no packet in a segment after that of its file.                          *)
LEMMA WriterIsAlone ==
  ASSUME StreamTypes, SwapInv, NEW w \in Writers, ~NoPackets(w)
  PROVE  /\ \A x \in Writers \ {w} : NoPackets(x)
         /\ \A n \in Segments : n > file[w] => written[n] = <<>>
<1> USE DEF SwapInv
<1>1. current \in Writers /\ segment \in Nat /\ Segments \subseteq Nat
  BY DEF StreamTypes, Segments
<1>2. \A x \in Writers : x = current \/ x = Other(current)
  BY EverySoFar, <1>1 DEF Writers, Other
<1>3. CASE dpc = "syncing"
  <2>1. w = Other(current) /\ file[w] = segment - 1
    BY <1>2, <1>3
  <2>2. \A n \in Segments : n > segment - 1 => n = segment \/ n > segment
    BY <1>1
  <2> QED BY <1>2, <1>3, <2>1, <2>2
<1>4. CASE dpc # "syncing"
  <2>1. w = current /\ file[w] = segment
    BY <1>2, <1>4
  <2> QED BY <1>2, <1>4, <2>1
<1> QED BY <1>3, <1>4

(* What the writer appends comes after all that has been written.          *)
LEMMA WriteStep ==
  ASSUME StreamTypes, OrderInv, NEW w \in Writers, WriterWrite(w)
  PROVE  OrderInv'
<1> USE DEF OrderInv
<1> DEFINE x == wmeta[w]
           f == file[w]
<1>1. /\ wpc[w] = "writing" /\ wpc' = [wpc EXCEPT ![w] = "finishing"]
      /\ written' = written \/ written' = [written EXCEPT ![f] = Append(@, x)]
      /\ UNCHANGED <<next, dispatchQueue, dpc, dmeta, current, segment, wqueue, wmeta, file>>
  BY DEF WriterWrite, WriterGoto, clientVars, dispatchVars
<1>2. x \in Metas /\ Held(w) = {x} /\ ~NoPackets(w)
  BY <1>1 DEF StreamTypes, Held, NoPackets
<1>3. /\ \A y \in Writers \ {w} : NoPackets(y)
      /\ \A n \in Segments : n > f => written[n] = <<>>
  BY <1>2, WriterIsAlone
<1>4. /\ Held(w)' = {} /\ Handed(w)' = Handed(w) /\ InHand' = InHand /\ Waiting' = Waiting
      /\ \A y \in Writers \ {w} : Held(y)' = {} /\ Handed(y)' = {}
  BY <1>1, <1>3, EmptyElements DEF Held, Handed, InHand, Waiting, NoPackets, StreamTypes
<1>5. \A n \in Segments : written'[n] = written[n] \/ (n = f /\ written'[n] = Append(written[n], x))
  BY <1>1 DEF StreamTypes
<1>6. \A n \in Segments : written[n] \in Seq(Metas)
  BY DEF StreamTypes
<1>7. \A n \in Segments : Elements(written'[n]) \subseteq Elements(written[n]) \cup {x}
  BY <1>2, <1>5, <1>6, AppendElements
<1>8. \A n \in Segments : n # f => Elements(written'[n]) = Elements(written[n])
  BY <1>5
<1>9. InFiles' \subseteq InFiles \cup {x}
  BY <1>7 DEF InFiles
<1>10. \A n \in Segments : Precedes(Elements(written[n]), {x})
  BY <1>2 DEF StageInv, Precedes, InFiles
<1> HIDE DEF x, f
<1>11. StageInv'
  <2> USE DEF StageInv
  <2>1. Stages' \subseteq Stages
    BY <1>2, <1>4, <1>9 DEF Stages
  <2>2. \A y \in Stages' : y < next'
    BY <1>1, <2>1
  <2>3. Precedes({x}, Handed(w)) /\ Precedes({x}, InHand \cup Waiting)
    BY <1>2 DEF Precedes
  <2>4. \A y \in Writers : Precedes(InFiles', Held(y)' \cup Handed(y)')
    BY <1>4, <1>9, <2>3 DEF Precedes
  <2>5. Precedes(InFiles', InHand' \cup Waiting')
    BY <1>4, <1>9, <2>3 DEF Precedes
  <2>6. \A y \in Writers : Precedes(Held(y)' \cup Handed(y)', InHand' \cup Waiting') /\ Precedes(Held(y)', Handed(y)')
    BY <1>4 DEF Precedes
  <2>7. Precedes(InHand', Waiting') /\ Rising(dispatchQueue') /\ \A y \in Writers : Rising(wqueue'[y])
    BY <1>1, <1>4
  <2> QED BY <2>2, <2>4, <2>5, <2>6, <2>7
<1>12. FileInv'
  <2> USE DEF FileInv
  <2>1. \A n \in Segments : Rising(written'[n])
    BY <1>2, <1>5, <1>6, <1>10, AppendRises
  <2>2. ASSUME NEW m \in Segments, NEW n \in Segments, m < n
        PROVE  Precedes(Elements(written'[m]), Elements(written'[n]))
    <3>1. CASE m = f
      <4>1. written[n] = <<>> /\ n # f
        BY <1>3, <2>2, <3>1 DEF Segments
      <4>2. Elements(written'[n]) = {}
        BY <1>8, <4>1, EmptyElements
      <4> QED BY <4>2 DEF Precedes
    <3>2. CASE m # f
      BY <1>7, <1>8, <1>10, <2>2, <3>2 DEF Precedes
    <3> QED BY <3>1, <3>2
  <2> QED BY <2>1, <2>2
<1>13. SwapInv'
  <2> USE DEF SwapInv
  <2>1. \A y \in Writers : NoPackets(y) => NoPackets(y)'
    BY <1>1 DEF NoPackets, StreamTypes
  <2>2. current \in Writers /\ Other(current) \in Writers /\ segment \in Nat \ {0} /\ Segments \subseteq Nat
    BY EverySoFar DEF StreamTypes, Segments
  <2>3. f <= segment /\ f \in Nat
    <3>1. CASE w = current
      BY <2>2, <3>1 DEF f
    <3>2. CASE w = Other(current) /\ dpc = "syncing"
      BY <2>2, <3>2 DEF f
    <3>3. w = current \/ w = Other(current)
      BY <2>2 DEF Writers, Other
    <3> QED BY <1>2, <3>1, <3>2, <3>3
  <2>4. \A n \in Segments : n > segment => written'[n] = <<>>
    BY <1>5, <2>2, <2>3
  <2>5. dpc = "syncing" => f = segment - 1
    BY <1>2, <2>2 DEF f, Writers, Other
  <2>6. dpc = "syncing" /\ segment \in Segments => written'[segment] = <<>>
    BY <1>5, <2>2, <2>5
  <2> QED BY <1>1, <2>1, <2>2, <2>4, <2>6
<1> QED BY <1>11, <1>12, <1>13

-----------------------------------------------------------------------------
(* Steps that write nothing keep the files in order, and those that give   *)
(* no writer a packet keep the writers apart.                              *)
LEMMA FilesStay ==
  ASSUME FileInv, written' = written
  PROVE  FileInv'
BY DEF FileInv

LEMMA SwapStays ==
  ASSUME StreamTypes, SwapInv, UNCHANGED <<current, segment, file, written>>,
         dpc' = dpc \/ (dpc # "syncing" /\ dpc' # "syncing"),
         \A w \in Writers : NoPackets(w) => NoPackets(w)'
  PROVE  SwapInv'
<1>1. current \in Writers /\ Other(current) \in Writers
  BY EverySoFar DEF StreamTypes
<1> QED BY <1>1 DEF SwapInv

LEMMA ClientStep ==
  ASSUME StreamTypes, OrderInv, Client
  PROVE  OrderInv'
<1> USE DEF OrderInv
<1>1. CASE PushCheck
  <2>1. /\ next' = next \/ next' = next + 1
        /\ UNCHANGED <<dispatchQueue, dpc, dmeta, current, segment, wqueue, wpc, wmeta, file, written>>
    BY <1>1 DEF PushCheck, dispatchVars, writerVars, fileVars
  <2>2. next' \in Nat /\ next' >= next
    BY <2>1 DEF StreamTypes
  <2>3. /\ InFiles' = InFiles /\ InHand' = InHand /\ Waiting' = Waiting
        /\ \A w \in Writers : Held(w)' = Held(w) /\ Handed(w)' = Handed(w)
    BY <2>1 DEF InFiles, InHand, Held, Handed, Waiting
  <2>4. StageInv'
    BY <2>1, <2>2, <2>3, StagesShrink DEF StageInv
  <2>5. \A w \in Writers : NoPackets(w) => NoPackets(w)'
    BY <2>1 DEF NoPackets
  <2> QED BY <2>1, <2>4, <2>5, FilesStay, SwapStays
<1>2. CASE PushQueue
  <2>1. UNCHANGED <<current, segment, wqueue, wpc, file, written>>
    BY <1>2 DEF PushQueue, writerVars, fileVars
  <2>2. dpc' = dpc \/ (dpc # "syncing" /\ dpc' # "syncing")
    BY <1>2 DEF PushQueue, Woken
  <2>3. \A w \in Writers : NoPackets(w) => NoPackets(w)'
    BY <2>1 DEF NoPackets
  <2> QED BY <1>2, <2>1, <2>2, <2>3, PushStages, FilesStay, SwapStays
<1> QED BY <1>1, <1>2 DEF Client

(* The swap: the writer that becomes current is idle, and its new file is  *)
(* the first of its segment.                                               *)
LEMMA OpenStep ==
  ASSUME StreamTypes, CountInv, OrderInv, "openFails" \notin Events, DispatchOpen
  PROVE  OrderInv'
<1> USE DEF OrderInv
<1>1. PICK c \in Writers : c = current
  BY DEF StreamTypes
<1>2. PICK o \in Writers : o = Other(c) /\ o # c /\ Other(o) = c
  BY EverySoFar
<1>3. /\ dpc = "opening" /\ dpc' = "syncing" /\ segment' = segment + 1 /\ current' = o
      /\ file' = [file EXCEPT ![o] = segment + 1]
      /\ UNCHANGED <<next, dispatchQueue, dmeta, wqueue, wpc, wmeta, written>>
  BY <1>1, <1>2 DEF DispatchOpen, DispatcherGoto, clientVars, writerVars
<1>4. StageInv'
  <2>1. /\ InFiles' = InFiles /\ InHand' = InHand /\ Waiting' = Waiting
        /\ \A w \in Writers : Held(w)' = Held(w) /\ Handed(w)' = Handed(w)
    BY <1>3 DEF InFiles, InHand, Held, Handed, Waiting, Carrying
  <2>2. next' \in Nat /\ next' >= next
    BY <1>3 DEF StreamTypes
  <2> QED BY <1>3, <2>1, <2>2, StagesShrink DEF StageInv
<1>5. SwapInv'
  <2> USE DEF SwapInv
  <2>1. NoPackets(o) /\ NoPackets(o)'
    BY <1>1, <1>2, <1>3 DEF NoPackets
  <2>2. segment \in Nat /\ Segments \subseteq Nat
    BY DEF StreamTypes, Segments
  <2>3. file[c] = segment /\ file'[c] = segment /\ file'[o] = segment + 1
    BY <1>1, <1>2, <1>3 DEF StreamTypes
  <2>4. \A n \in Segments : n > segment => written'[n] = <<>>
    BY <1>3
  <2>5. \A n \in Segments : n > segment + 1 => written'[n] = <<>>
    BY <2>2, <2>4
  <2>6. segment + 1 \in Segments => written'[segment + 1] = <<>>
    BY <2>2, <2>4
  <2> QED BY <1>2, <1>3, <2>1, <2>2, <2>3, <2>5, <2>6
<1> QED BY <1>3, <1>4, <1>5, FilesStay

(* flushAndSyncWriter comes after the other writer is idle again.          *)
LEMMA DispatcherStep ==
  ASSUME StreamTypes, CountInv, OrderInv, "openFails" \notin Events, Dispatcher
  PROVE  OrderInv'
<1> USE DEF OrderInv
<1>1. CASE DispatchFetch
  <2>1. UNCHANGED <<current, segment, wqueue, wpc, file, written>> /\ dpc # "syncing" /\ dpc' # "syncing"
    BY <1>1 DEF DispatchFetch, writerVars, fileVars
  <2>2. \A w \in Writers : NoPackets(w) => NoPackets(w)'
    BY <2>1 DEF NoPackets
  <2> QED BY <1>1, <2>1, <2>2, FetchStages, FilesStay, SwapStays
<1>2. CASE DispatchSleep \/ DispatchObtain \/ DispatchTimeout
  <2>1. /\ UNCHANGED <<next, dispatchQueue, dmeta, current, segment, wqueue, wpc, wmeta, file, written>>
        /\ dpc # "syncing" /\ dpc' # "syncing"
        /\ dpc' \in Carrying => dpc \in Carrying
    BY <1>2 DEF DispatchSleep, DispatchObtain, DispatchTimeout, DispatcherGoto, Carrying,
                clientVars, dispatchVars, writerVars, fileVars
  <2>2. next' \in Nat /\ next' >= next
    BY <2>1 DEF StreamTypes
  <2>3. /\ InFiles' = InFiles /\ InHand' \subseteq InHand /\ Waiting' = Waiting
        /\ \A w \in Writers : Held(w)' = Held(w) /\ Handed(w)' = Handed(w)
    BY <2>1 DEF InFiles, InHand, Held, Handed, Waiting
  <2>4. StageInv'
    BY <2>1, <2>2, <2>3, StagesShrink DEF StageInv
  <2>5. \A w \in Writers : NoPackets(w) => NoPackets(w)'
    BY <2>1 DEF NoPackets
  <2> QED BY <2>1, <2>4, <2>5, FilesStay, SwapStays
<1>3. CASE DispatchOpen
  BY <1>3, OpenStep
<1>4. CASE DispatchSync
  <2>1. /\ dpc = "syncing" /\ dpc' = "handing" /\ Idle(Other(current))
        /\ UNCHANGED <<next, dispatchQueue, dmeta, current, segment, wqueue, wpc, wmeta, file, written>>
    BY <1>4 DEF DispatchSync, DispatcherGoto, clientVars, writerVars
  <2>2. next' \in Nat /\ next' >= next
    BY <2>1 DEF StreamTypes
  <2>3. /\ InFiles' = InFiles /\ InHand' = InHand /\ Waiting' = Waiting
        /\ \A w \in Writers : Held(w)' = Held(w) /\ Handed(w)' = Handed(w)
    BY <2>1 DEF InFiles, InHand, Held, Handed, Waiting, Carrying
  <2>4. StageInv'
    BY <2>1, <2>2, <2>3, StagesShrink DEF StageInv
  <2>5. NoPackets(Other(current))
    <3>1. PICK o \in Writers : o = Other(current)
      BY EverySoFar DEF StreamTypes
    <3>2. pendingCount[o] = 0 /\ wqueue[o] = <<>>
      BY <2>1, <3>1 DEF Idle
    <3>3. Unfinished(o) = 0 /\ Len(wqueue[o]) = 0
      BY <3>2 DEF CountInv
    <3> QED BY <3>1, <3>2, <3>3 DEF NoPackets, Unfinished
  <2>6. SwapInv'
    <3>1. NoPackets(Other(current))'
      BY <2>1, <2>5 DEF NoPackets
    <3> QED BY <2>1, <3>1 DEF SwapInv
  <2> QED BY <2>1, <2>4, <2>6, FilesStay
<1>5. CASE DispatchHand
  <2>1. /\ dpc = "handing" /\ dpc' = "fetching" /\ UNCHANGED <<current, segment, file, written>>
        /\ wqueue' = [wqueue EXCEPT ![current] = Append(@, dmeta)]
        /\ wpc' = [wpc EXCEPT ![current] = Woken(@)]
    BY <1>5 DEF DispatchHand, DispatcherGoto, fileVars
  <2>2. PICK o \in Writers : o = Other(current) /\ o # current
    BY EverySoFar DEF StreamTypes
  <2>3. NoPackets(o) /\ wqueue'[o] = wqueue[o] /\ wpc'[o] = wpc[o]
    BY <2>1, <2>2 DEF SwapInv, StreamTypes
  <2>4. NoPackets(o)'
    BY <2>3 DEF NoPackets
  <2>5. SwapInv'
    BY <2>1, <2>2, <2>4 DEF SwapInv
  <2> QED BY <1>5, <2>1, <2>5, HandStages, FilesStay
<1> QED BY <1>1, <1>2, <1>3, <1>4, <1>5 DEF Dispatcher

LEMMA WriterStep ==
  ASSUME StreamTypes, OrderInv, NEW w \in Writers, Writer(w)
  PROVE  OrderInv'
<1> USE DEF OrderInv
<1>1. CASE WriterFetch(w)
  <2>1. UNCHANGED <<current, segment, dpc, file, written>>
    BY <1>1 DEF WriterFetch, dispatchVars, fileVars
  <2>2. \A x \in Writers : NoPackets(x) => NoPackets(x)'
    <3> SUFFICES ASSUME NEW x \in Writers, NoPackets(x) PROVE NoPackets(x)'
      OBVIOUS
    <3>1. CASE x = w
      BY <1>1, <3>1 DEF NoPackets, WriterFetch, StreamTypes
    <3>2. CASE x # w
      BY <1>1, <3>2 DEF NoPackets, WriterFetch, StreamTypes
    <3> QED BY <3>1, <3>2
  <2> QED BY <1>1, <2>1, <2>2, TakeStages, FilesStay, SwapStays
<1>2. CASE WriterSleep(w) \/ WriterFinish(w) \/ WriterRelease(w)
  <2>1. /\ UNCHANGED <<next, dispatchQueue, dpc, dmeta, current, segment, wqueue, wmeta, file, written>>
        /\ \E p \in WriterAt \ {"writing"} : wpc' = [wpc EXCEPT ![w] = p]
        /\ wpc[w] # "writing"
    BY <1>2 DEF WriterSleep, WriterFinish, WriterRelease, WriterGoto, WriterAt, clientVars, dispatchVars, fileVars
  <2>2. next' \in Nat /\ next' >= next
    BY <2>1 DEF StreamTypes
  <2>3. /\ InFiles' = InFiles /\ InHand' = InHand /\ Waiting' = Waiting
        /\ \A x \in Writers : Held(x)' = Held(x) /\ Handed(x)' = Handed(x)
    BY <2>1 DEF InFiles, InHand, Held, Handed, Waiting, StreamTypes
  <2>4. StageInv'
    BY <2>1, <2>2, <2>3, StagesShrink DEF StageInv
  <2>5. \A x \in Writers : NoPackets(x) => NoPackets(x)'
    BY <2>1 DEF NoPackets, StreamTypes
  <2> QED BY <2>1, <2>4, <2>5, FilesStay, SwapStays
<1>3. CASE WriterWrite(w)
  BY <1>3, WriteStep
<1> QED BY <1>1, <1>2, <1>3 DEF Writer

LEMMA StillStep ==
  ASSUME StreamTypes, OrderInv, Still
  PROVE  OrderInv'
<1> USE DEF OrderInv
<1>1. /\ dpc' = dpc \/ {dpc, dpc'} \cap Carrying = {}
      /\ \A w \in Writers : wpc'[w] = "writing" <=> wpc[w] = "writing"
      /\ UNCHANGED <<next, dispatchQueue, dmeta, current, segment, wqueue, wmeta, file, written>>
  BY StillThreads DEF Still
<1>2. next' \in Nat /\ next' >= next
  BY <1>1 DEF StreamTypes
<1>3. /\ InFiles' = InFiles /\ InHand' = InHand /\ Waiting' = Waiting
      /\ \A w \in Writers : Held(w)' = Held(w) /\ Handed(w)' = Handed(w)
  BY <1>1 DEF InFiles, InHand, Held, Handed, Waiting
<1>4. StageInv'
  BY <1>1, <1>2, <1>3, StagesShrink DEF StageInv
<1>5. \A w \in Writers : NoPackets(w) => NoPackets(w)'
  BY <1>1 DEF NoPackets
<1>6. dpc' = dpc \/ (dpc # "syncing" /\ dpc' # "syncing")
  BY <1>1 DEF Carrying
<1> QED BY <1>1, <1>4, <1>5, <1>6, FilesStay, SwapStays

-----------------------------------------------------------------------------
LEMMA OrderInit ==
  ASSUME Init, "openFails" \notin Events
  PROVE  OrderInv
<1> USE DEF Init
<1>1. /\ written = [n \in Segments |-> <<>>] /\ dispatchQueue = <<>>
      /\ wqueue = [w \in Writers |-> <<>>] /\ wpc = [w \in Writers |-> "fetching"]
      /\ dpc = "fetching" /\ current = "A" /\ segment = 1 /\ file = [A |-> 1, B |-> 0] /\ next = 1
  OBVIOUS
<1>2. /\ InFiles = {} /\ InHand = {} /\ Waiting = {}
      /\ \A w \in Writers : Held(w) = {} /\ Handed(w) = {}
  BY <1>1, EmptyElements DEF InFiles, InHand, Waiting, Held, Handed, Carrying
<1>3. StageInv
  BY <1>1, <1>2, EmptyElements DEF StageInv, Stages, Precedes
<1>4. SwapInv
  BY <1>1 DEF SwapInv, NoPackets, Other, Writers
<1>5. FileInv
  BY <1>1, EmptyElements DEF FileInv, Precedes
<1> QED BY <1>3, <1>4, <1>5 DEF OrderInv

LEMMA OrderStep ==
  ASSUME StreamTypes, CountInv, OrderInv, "openFails" \notin Events, [Next]_vars
  PROVE  OrderInv'
BY ClientStep, DispatcherStep, WriterStep, OthersAreStill, StillStep DEF Next

(* Read one after the other, the segments are the stream: the packets come *)
(* in the order they were pushed, each once, although two threads write    *)
(* them and any of them may be lost, as long as each segment can be opened *)
(* (streamWriter.cpp: dispatchLoop, openNewSegmentFor, writerLoop).            *)
THEOREM StreamKeepsOrder == Spec => []StreamInOrder
<1>1. Init => StreamInv
  BY BaseInit, OrderInit DEF StreamInv
<1>2. StreamInv /\ [Next]_vars => StreamInv'
  BY BaseStep, OrderStep DEF StreamInv
<1>3. StreamInv => StreamInOrder
  BY DEF StreamInv, OrderInv, FileInv, StreamInOrder
<1> QED BY <1>1, <1>2, <1>3, PTL DEF Spec

-----------------------------------------------------------------------------
(* Segments and files.  Every cut takes a key frame that is behind all     *)
(* that is still ahead of the dispatcher, so that there are not more       *)
(* segments than Segments has room for.                                    *)
Ahead == Waiting \cup {next} \cup IF dpc = "obtaining" THEN {dmeta} ELSE {}
Passed == {k \in KeyFrames : \A m \in Ahead : k < m}
Cuts == segment + IF dpc = "opening" THEN 1 ELSE 0

FrontInv ==
  /\ Rising(dispatchQueue) /\ Precedes(InHand, Waiting)
  /\ \A x \in InHand \cup Waiting : x < next

CutInv == Cuts <= 1 + Cardinality(Passed) /\ \A w \in Writers : file[w] <= segment

LEMMA KeyFramesAreFinite ==
  /\ IsFiniteSet(KeyFrames) /\ Cardinality(KeyFrames) \in Nat /\ KeyFrames \subseteq Nat
  /\ \A S \in SUBSET KeyFrames :
       IsFiniteSet(S) /\ Cardinality(S) \in Nat /\ Cardinality(S) <= Cardinality(KeyFrames)
<1>1. IsFiniteSet(Metas)
  BY StreamWriterAssumption, FS_Interval DEF Metas
<1>2. IsFiniteSet(KeyFrames) /\ KeyFrames \subseteq Nat
  <2>1. KeyFrames \in SUBSET Metas /\ Metas \subseteq Nat
    BY StreamWriterAssumption DEF Metas
  <2> QED BY <1>1, <2>1, FS_Subset
<1>3. \A S \in SUBSET KeyFrames : IsFiniteSet(S) /\ Cardinality(S) <= Cardinality(KeyFrames)
  BY <1>2, FS_Subset
<1> QED BY <1>2, <1>3, FS_CardinalityType

LEMMA FrontStays ==
  ASSUME StreamTypes, FrontInv, InHand' \subseteq InHand, UNCHANGED dispatchQueue,
         next' \in Nat, next' >= next
  PROVE  FrontInv'
<1>1. InHand \cup Waiting \subseteq Nat
  BY StagesAreMetas
<1>2. \A x \in InHand' \cup Waiting' : x < next'
  BY <1>1 DEF FrontInv, Waiting, StreamTypes
<1> QED BY <1>2 DEF FrontInv, Precedes, Waiting

(* No key frame that has been passed is ahead again.                       *)
LEMMA PassedStays ==
  ASSUME StreamTypes, \A k \in Passed : \A m \in Ahead' : k < m
  PROVE  Passed \subseteq Passed' /\ Cardinality(Passed) <= Cardinality(Passed')
<1>1. Passed \subseteq Passed' /\ Passed' \in SUBSET KeyFrames
  BY DEF Passed
<1>2. IsFiniteSet(Passed')
  BY <1>1, KeyFramesAreFinite
<1> QED BY <1>1, <1>2, FS_Subset

LEMMA CutsStay ==
  ASSUME StreamTypes, CutInv, \A k \in Passed : \A m \in Ahead' : k < m,
         Cuts' <= Cuts, Cuts' \in Nat, UNCHANGED <<file, segment>>
  PROVE  CutInv'
<1>1. Cardinality(Passed) <= Cardinality(Passed')
  BY PassedStays
<1>2. Passed \in SUBSET KeyFrames /\ Passed' \in SUBSET KeyFrames
  BY DEF Passed
<1>3. Cardinality(Passed) \in Nat /\ Cardinality(Passed') \in Nat
  BY <1>2, KeyFramesAreFinite
<1>4. Cuts \in Nat
  BY DEF Cuts, StreamTypes
<1> QED BY <1>1, <1>3, <1>4 DEF CutInv

LEMMA FrontClient ==
  ASSUME StreamTypes, FrontInv, CutInv, Client
  PROVE  FrontInv' /\ CutInv'
<1>1. next \in Nat /\ KeyFrames \subseteq Nat
  BY KeyFramesAreFinite DEF StreamTypes
<1>2. Passed \subseteq Nat /\ \A k \in Passed : \A m \in Ahead : k < m
  BY <1>1 DEF Passed
<1>3. CASE PushCheck
  <2>1. /\ next' = next \/ next' = next + 1
        /\ UNCHANGED <<dispatchQueue, dpc, dmeta, segment, file>>
    BY <1>3 DEF PushCheck, dispatchVars, fileVars
  <2>2. InHand' = InHand /\ Cuts' = Cuts /\ Cuts' \in Nat
    BY <2>1 DEF InHand, Cuts, StreamTypes
  <2>3. Ahead' \subseteq Ahead \cup {next'}
    BY <2>1 DEF Ahead, Waiting
  <2>4. \A k \in Passed : k < next
    BY <1>2 DEF Ahead
  <2>5. \A k \in Passed : \A m \in Ahead' : k < m
    BY <1>1, <1>2, <2>1, <2>3, <2>4
  <2> QED BY <1>1, <2>1, <2>2, <2>5, FrontStays, CutsStay
<1>4. CASE PushQueue
  <2>1. /\ next \in Metas /\ dispatchQueue' = Append(dispatchQueue, next)
        /\ dpc' = Woken(dpc) /\ next' = next + 1
        /\ UNCHANGED <<dmeta, segment, file>>
    BY <1>4 DEF PushQueue, StreamTypes, fileVars
  <2>2. Waiting' = Waiting \cup {next}
    BY <2>1, AppendElements DEF Waiting, StreamTypes
  <2>3. /\ InHand' = InHand /\ Cuts' = Cuts /\ Cuts' \in Nat
        /\ (dpc' = "obtaining" <=> dpc = "obtaining")
    BY <2>1 DEF InHand, Cuts, StreamTypes, Woken, Carrying
  <2>4. Ahead' \subseteq Ahead \cup {next + 1}
    BY <2>1, <2>2, <2>3 DEF Ahead
  <2>5. \A k \in Passed : k < next
    BY <1>2 DEF Ahead
  <2>6. \A k \in Passed : \A m \in Ahead' : k < m
    BY <1>1, <1>2, <2>4, <2>5
  <2>7. InHand \cup Waiting \subseteq Nat
    BY StagesAreMetas
  <2>8. Rising(dispatchQueue')
    <3>1. Precedes(Elements(dispatchQueue), {next})
      BY DEF FrontInv, Precedes, Waiting
    <3> QED BY <2>1, <3>1, AppendRises DEF FrontInv, StreamTypes
  <2>9. Precedes(InHand', Waiting') /\ \A x \in InHand' \cup Waiting' : x < next'
    BY <1>1, <2>1, <2>2, <2>3, <2>7 DEF FrontInv, Precedes
  <2> QED BY <2>1, <2>3, <2>6, <2>8, <2>9, CutsStay DEF FrontInv
<1> QED BY <1>3, <1>4 DEF Client

LEMMA FrontDispatcher ==
  ASSUME StreamTypes, FrontInv, CutInv, Dispatcher
  PROVE  FrontInv' /\ CutInv'
<1>1. next \in Nat /\ segment \in Nat /\ KeyFrames \subseteq Nat
  BY KeyFramesAreFinite DEF StreamTypes
<1>2. Passed \subseteq Nat /\ \A k \in Passed : \A m \in Ahead : k < m
  BY <1>1 DEF Passed
<1>3. CASE DispatchFetch
  <2>1. CASE dispatchQueue = <<>>
    <3>1. /\ dpc = "fetching" /\ dpc' \in {"blocking", "exited"}
          /\ UNCHANGED <<next, dispatchQueue, dmeta, segment, file>>
      BY <1>3, <2>1 DEF DispatchFetch, clientVars, fileVars
    <3>2. InHand' = InHand /\ Cuts' = Cuts /\ Cuts' \in Nat /\ Ahead' = Ahead
      BY <1>1, <3>1 DEF InHand, Cuts, Carrying, Ahead, Waiting
    <3> QED BY <1>1, <1>2, <3>1, <3>2, FrontStays, CutsStay
  <2>2. CASE dispatchQueue # <<>>
    <3>1. /\ dpc = "fetching" /\ dpc' = "obtaining" /\ dmeta' = Head(dispatchQueue)
          /\ dispatchQueue' = Tail(dispatchQueue)
          /\ UNCHANGED <<next, segment, file>>
      BY <1>3, <2>2 DEF DispatchFetch, clientVars, fileVars
    <3>2. InHand = {} /\ InHand' = {Head(dispatchQueue)} /\ Cuts' = Cuts /\ Cuts' \in Nat
      BY <1>1, <3>1 DEF InHand, Carrying, Cuts
    <3>3. Waiting = InHand' \cup Waiting' /\ Precedes(InHand', Waiting') /\ Rising(dispatchQueue')
      BY <2>2, <3>1, <3>2, HeadPrecedes DEF Waiting, StreamTypes, FrontInv
    <3>4. Ahead' = Ahead
      BY <3>1, <3>2, <3>3 DEF Ahead
    <3>5. FrontInv'
      BY <3>1, <3>2, <3>3 DEF FrontInv
    <3> QED BY <1>2, <3>1, <3>2, <3>4, <3>5, CutsStay
  <2> QED BY <2>1, <2>2
<1>4. CASE DispatchObtain
  <2>1. /\ dpc = "obtaining" /\ dpc' = IF CutsHere THEN "opening" ELSE "handing"
        /\ UNCHANGED <<next, dispatchQueue, dmeta, segment, file>>
    BY <1>4 DEF DispatchObtain, DispatcherGoto, clientVars, fileVars
  <2>2. InHand' = InHand /\ InHand = {dmeta} /\ Ahead = Ahead' \cup {dmeta}
    BY <2>1 DEF InHand, Carrying, Ahead, Waiting
  <2>3. FrontInv'
    BY <1>1, <2>1, <2>2, FrontStays
  <2>4. CASE ~CutsHere
    <3>1. Cuts' = Cuts /\ Cuts' \in Nat
      BY <1>1, <2>1, <2>4 DEF Cuts
    <3> QED BY <1>2, <2>1, <2>2, <2>3, <3>1, CutsStay
  <2>5. CASE CutsHere
    <3>1. dmeta \in KeyFrames /\ dpc' = "opening"
      BY <2>1, <2>5 DEF CutsHere
    <3>2. \A m \in Ahead' : dmeta < m
      BY <2>1, <2>2, <3>1 DEF FrontInv, Ahead, Precedes, Waiting
    <3>3. dmeta \in Passed' /\ dmeta \notin Passed
      BY <1>2, <2>1, <2>2, <3>1, <3>2 DEF Passed
    <3>4. Passed \subseteq Passed'
      BY <1>2, <2>2, PassedStays
    <3>5. IsFiniteSet(Passed) /\ Cardinality(Passed) \in Nat /\ IsFiniteSet(Passed') /\ Cardinality(Passed') \in Nat
      BY KeyFramesAreFinite DEF Passed
    <3>6. Cardinality(Passed \cup {dmeta}) = Cardinality(Passed) + 1
      BY <3>3, <3>5, FS_AddElement
    <3>7. Cardinality(Passed \cup {dmeta}) <= Cardinality(Passed')
      BY <3>3, <3>4, <3>5, FS_Subset
    <3>8. Cuts' = Cuts + 1 /\ Cuts \in Nat
      BY <1>1, <2>1, <3>1 DEF Cuts
    <3> QED BY <2>1, <2>3, <3>5, <3>6, <3>7, <3>8 DEF CutInv
  <2> QED BY <2>4, <2>5
<1>5. CASE DispatchOpen
  <2>1. /\ dpc = "opening" /\ dpc' = "syncing" /\ segment' = segment + 1
        /\ file' = file \/ file' = [file EXCEPT ![Other(current)] = segment + 1]
        /\ UNCHANGED <<next, dispatchQueue, dmeta>>
    BY <1>5 DEF DispatchOpen, DispatcherGoto, clientVars
  <2>2. InHand' = InHand /\ Ahead' = Ahead /\ Cuts' = Cuts
    BY <1>1, <2>1 DEF InHand, Carrying, Ahead, Waiting, Cuts
  <2>3. FrontInv'
    BY <1>1, <2>1, <2>2, FrontStays
  <2>4. Passed' = Passed
    BY <2>2 DEF Passed
  <2>5. \A w \in Writers : file'[w] <= segment'
    <3> SUFFICES ASSUME NEW w \in Writers PROVE file'[w] <= segment'
      OBVIOUS
    <3>1. file[w] \in Nat /\ file[w] <= segment
      BY DEF CutInv, StreamTypes
    <3>2. file'[w] = file[w] \/ file'[w] = segment + 1
      BY <2>1 DEF StreamTypes
    <3> QED BY <1>1, <2>1, <3>1, <3>2
  <2> QED BY <2>2, <2>3, <2>4, <2>5 DEF CutInv
<1>6. CASE DispatchSleep \/ DispatchTimeout \/ DispatchSync \/ DispatchHand
  <2>1. /\ UNCHANGED <<next, dispatchQueue, dmeta, segment, file>>
        /\ dpc' \notin {"obtaining", "opening"} /\ dpc # "opening"
        /\ dpc' \in Carrying => dpc \in Carrying
    BY <1>6 DEF DispatchSleep, DispatchTimeout, DispatchSync, DispatchHand, DispatcherGoto, Carrying,
                clientVars, dispatchVars, fileVars
  <2>2. InHand' \subseteq InHand /\ Ahead' \subseteq Ahead /\ Cuts' = Cuts /\ Cuts' \in Nat
    BY <1>1, <2>1 DEF InHand, Ahead, Waiting, Cuts
  <2> QED BY <1>1, <1>2, <2>1, <2>2, FrontStays, CutsStay
<1> QED BY <1>3, <1>4, <1>5, <1>6 DEF Dispatcher

LEMMA FrontOthers ==
  ASSUME StreamTypes, FrontInv, CutInv, Still \/ \E w \in Writers : Writer(w)
  PROVE  FrontInv' /\ CutInv'
<1>1. /\ dpc' = dpc \/ {dpc, dpc'} \cap Carrying = {}
      /\ UNCHANGED <<next, dispatchQueue, dmeta, segment, file>>
  BY StillThreads DEF Still, Writer, WriterFetch, WriterSleep, WriterWrite, WriterFinish, WriterRelease,
     clientVars, dispatchVars, fileVars
<1>2. InHand' = InHand /\ Ahead' = Ahead /\ Cuts' = Cuts /\ Cuts' \in Nat
  <2>1. InHand' = InHand /\ Ahead' = Ahead
    BY <1>1 DEF InHand, Ahead, Waiting, Carrying
  <2>2. Cuts' = Cuts
    BY <1>1 DEF Cuts, Carrying
  <2>3. Cuts \in Nat
    BY DEF Cuts, StreamTypes
  <2> QED BY <2>1, <2>2, <2>3
<1>3. next' \in Nat /\ next' >= next
  BY <1>1 DEF StreamTypes
<1>4. \A k \in Passed : \A m \in Ahead : k < m
  BY DEF Passed
<1> QED BY <1>1, <1>2, <1>3, <1>4, FrontStays, CutsStay

(* segmentIndex_ counts cuts at key frames only, each packet is counted    *)
(* once, and a file is that of a segment begun: what StreamInOrder says of *)
(* Segments, it says of every file there is (streamWriter.cpp:             *)
(* dispatchLoop, openNewSegmentFor).                                       *)
THEOREM SegmentsSuffice == Spec => [](segment \in Segments /\ file \in [Writers -> Segments \cup {0}])
<1>1. Init => StreamTypes /\ CountInv /\ FrontInv /\ CutInv
  <2> SUFFICES ASSUME Init PROVE FrontInv /\ CutInv
    BY BaseInit
  <2>1. FrontInv
    BY EmptyElements DEF Init, FrontInv, InHand, Waiting, Carrying, Precedes
  <2>2. segment = 1 /\ Cuts = 1 /\ \A w \in Writers : file[w] <= 1
    BY DEF Init, Cuts, Writers
  <2>3. Cardinality(Passed) \in Nat
    BY KeyFramesAreFinite DEF Passed
  <2> QED BY <2>1, <2>2, <2>3 DEF CutInv
<1>2. StreamTypes /\ CountInv /\ FrontInv /\ CutInv /\ [Next]_vars => (StreamTypes /\ CountInv /\ FrontInv /\ CutInv)'
  BY BaseStep, FrontClient, FrontDispatcher, FrontOthers, OthersAreStill DEF Next
<1>3. StreamTypes /\ CutInv => segment \in Segments /\ file \in [Writers -> Segments \cup {0}]
  <2> SUFFICES ASSUME StreamTypes, CutInv
               PROVE  segment \in Segments /\ file \in [Writers -> Segments \cup {0}]
    OBVIOUS
  <2>1. Cardinality(Passed) \in Nat /\ Cardinality(Passed) <= Cardinality(KeyFrames) /\ Cardinality(KeyFrames) \in Nat
    BY KeyFramesAreFinite DEF Passed
  <2>2. segment \in Nat \ {0} /\ segment <= Cuts /\ Cuts \in Nat
    BY DEF StreamTypes, Cuts
  <2>3. segment \in Segments
    BY <2>1, <2>2 DEF CutInv, Segments
  <2>4. \A n \in Nat : n <= segment => n \in Segments \cup {0}
    BY <2>1, <2>2, <2>3 DEF Segments
  <2> QED BY <2>3, <2>4 DEF CutInv, StreamTypes
<1> QED BY <1>1, <1>2, <1>3, PTL DEF Spec

=============================================================================
