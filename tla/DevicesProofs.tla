---------------------------- MODULE DevicesProofs ----------------------------
(***************************************************************************)
(* What holds, for every instance, of the parts that keep devices: the     *)
(* monitor of udev, the controller of the DRM device, its buffers, and the *)
(* way of a buffer to the screen.  A behaviour of Parts is a behaviour of  *)
(* the part it has chosen, so that an invariant of that part's steps is    *)
(* one of Parts.                                                           *)
(***************************************************************************)
EXTENDS Parts, SequenceTheorems, FiniteSetTheorems, WellFoundedInduction, TLAPS

-----------------------------------------------------------------------------
\* No step changes the choice.
LEMMA PartStays ==
  ASSUME [PartsNext]_partsVars
  PROVE  part' = part
BY DEF PartsNext, partsVars, CameraPart, OrderedPart, SafePart, LogPart, DisplayPart,
       UdevPart, MousePart, ParamPart, ServerPart, DmaPart, MemoryPart, ConfigPart, DevicesPart,
       HttpPart, JpegPart, ContextPart

-----------------------------------------------------------------------------
(***************************************************************************)
(* The udev monitor.  As long as no start or stop has begun before the     *)
(* last one was through, what is held follows from where the one caller    *)
(* that starts or stops is, and from where the loop is.                    *)
(***************************************************************************)
Starting == {"udev", "monitor", "epoll", "launch"}
Busy(c) == inUdev[c] \notin {"out", "check"}
LoopHolds == {"top", "wait", "receive", "snapshot", "post", "leave"}

\* What has been opened before the start comes to a stage.
HeldBefore(step) ==
  CASE step = "udev" -> {}
    [] step = "monitor" -> {"udev"}
    [] step = "epoll" -> {"udev", "monitor"}
    [] OTHER -> Udev!Resources

UdevTypes ==
  /\ held \subseteq Udev!Resources
  /\ inUdev \in [Callers -> {"out", "check", "join", "close"} \cup Starting]
  /\ inRun \in LoopHolds \cup {"none", "drain", "ended"}
  /\ running_ \in BOOLEAN /\ crossed \in BOOLEAN

CallerHolds(c) ==
  /\ inUdev[c] \in Starting => running_ /\ inRun = "none" /\ held = HeldBefore(inUdev[c])
  /\ inUdev[c] = "join" => ~running_ /\ inRun # "none"
  /\ inUdev[c] = "close" => ~running_ /\ inRun = "none" /\ held = {}

UdevOrder ==
  /\ open = [r \in Udev!Resources |-> IF r \in held THEN 1 ELSE 0]
  /\ \A c, d \in Callers : Busy(c) /\ Busy(d) => c = d
  /\ \A c \in Callers : CallerHolds(c)
  /\ (\A c \in Callers : ~Busy(c)) => IF running_ THEN inRun # "none" ELSE inRun = "none" /\ held = {}
  /\ inRun \in LoopHolds => held = Udev!Resources
  /\ inRun \in {"drain", "ended"} => held = {}

UdevInv == UdevTypes /\ (~crossed => UdevOrder)

LEMMA UdevAlone ==
  ASSUME [PartsNext]_partsVars, part = "udev"
  PROVE  [Udev!Next]_udevVars
BY DEF PartsNext, partsVars, threadVars, CameraPart, OrderedPart, SafePart, LogPart, DisplayPart,
       UdevPart, MousePart, ParamPart, ServerPart, DmaPart, MemoryPart, ConfigPart, DevicesPart,
       HttpPart, JpegPart, ContextPart

LEMMA UdevInit == Udev!Init => UdevInv
BY DEF Udev!Init, UdevInv, UdevTypes, UdevOrder, CallerHolds, Busy, Udev!Resources, Starting, LoopHolds

LEMMA UdevCallers ==
  ASSUME UdevInv, NEW c \in Callers,
         \/ Udev!RegisterHandler(c) \/ Udev!StartClaim(c) \/ Udev!StartLaunch(c)
         \/ \E r \in Udev!Resources : Udev!StartOpen(c, r) \/ Udev!StartFails(c, r)
         \/ Udev!Stop(c) \/ Udev!StopJoin(c) \/ Udev!StopClose(c)
  PROVE  UdevInv'
<1> USE DEF UdevInv, UdevTypes, UdevOrder, CallerHolds, Busy, Starting, LoopHolds, Udev!Goes,
            Udev!Resources, Udev!switches, Udev!looping, Udev!counts, HeldBefore
<1>1. CASE Udev!RegisterHandler(c)
  BY <1>1 DEF Udev!RegisterHandler
<1>2. CASE Udev!StartClaim(c)
  BY <1>2 DEF Udev!StartClaim, Udev!Others
<1>3. CASE Udev!StartLaunch(c)
  BY <1>3 DEF Udev!StartLaunch
<1>4. ASSUME NEW r \in Udev!Resources, Udev!StartOpen(c, r) PROVE UdevInv'
  <2>1. /\ inUdev[c] = r /\ inUdev' = [inUdev EXCEPT ![c] = Udev!After(r)]
        /\ held' = held \cup {r} /\ open' = [open EXCEPT ![r] = @ + 1]
        /\ running_' = running_ /\ inRun' = inRun /\ crossed' = crossed
    BY <1>4 DEF Udev!StartOpen, Udev!Opens
  <2>2. r \in Starting /\ Udev!After(r) \in Starting
    BY DEF Udev!After
  <2>3. UdevTypes'
    BY <2>1, <2>2
  <2>4. ASSUME ~crossed PROVE UdevOrder'
    <3>1. running_ /\ inRun = "none" /\ held = HeldBefore(r) /\ \A d \in Callers \ {c} : ~Busy(d)
      BY <2>1, <2>2, <2>4
    <3>2. held' = HeldBefore(Udev!After(r)) /\ r \notin held
      BY <2>1, <3>1 DEF Udev!After
    <3>3. open' = [q \in Udev!Resources |-> IF q \in held' THEN 1 ELSE 0]
      <4>1. open = [q \in Udev!Resources |-> IF q \in held THEN 1 ELSE 0]
        BY <2>4
      <4>2. ASSUME NEW q \in Udev!Resources PROVE open'[q] = IF q \in held' THEN 1 ELSE 0
        BY <2>1, <3>2, <4>1
      <4>3. open' = [q \in Udev!Resources |-> open'[q]]
        BY <2>1, <4>1
      <4> QED BY <4>2, <4>3
    <3>4. inUdev'[c] = Udev!After(r) /\ \A d \in Callers \ {c} : inUdev'[d] = inUdev[d]
      BY <2>1
    <3>5. \A d \in Callers : CallerHolds(d)'
      BY <2>1, <2>2, <3>1, <3>2, <3>4
    <3> HIDE DEF CallerHolds, HeldBefore
    <3> QED BY <2>1, <2>2, <3>1, <3>3, <3>4, <3>5
  <2> QED BY <2>1, <2>3, <2>4
<1>5. ASSUME NEW r \in Udev!Resources, Udev!StartFails(c, r) PROVE UdevInv'
  <2>1. held' = {} /\ open' = [q \in Udev!Resources |-> open[q] - (IF q \in held THEN 1 ELSE 0)]
    BY <1>5 DEF Udev!StartFails, Udev!Release
  <2>2. UdevTypes'
    BY <1>5, <2>1 DEF Udev!StartFails
  <2>3. ~crossed => open' = [q \in Udev!Resources |-> 0]
    BY <2>1
  <2>4. ~crossed' => UdevOrder'
    BY <1>5, <2>1, <2>3 DEF Udev!StartFails
  <2> QED BY <2>2, <2>4
<1>6. CASE Udev!Stop(c)
  BY <1>6 DEF Udev!Stop, Udev!Others
<1>7. CASE Udev!StopJoin(c)
  BY <1>7 DEF Udev!StopJoin
<1>8. CASE Udev!StopClose(c)
  BY <1>8 DEF Udev!StopClose, Udev!Release
<1> QED BY <1>1, <1>2, <1>3, <1>4, <1>5, <1>6, <1>7, <1>8

LEMMA UdevLoop ==
  ASSUME UdevInv, Udev!LoopStep
  PROVE  UdevInv'
<1> USE DEF UdevInv, UdevTypes, UdevOrder, CallerHolds, Busy, Starting, LoopHolds, Udev!LoopGoes,
            Udev!Resources, Udev!switches, Udev!counts
<1>11. CASE Udev!LoopTop
  BY <1>11 DEF Udev!LoopTop
<1>12. CASE Udev!LoopWait
  BY <1>12 DEF Udev!LoopWait
<1>13. CASE Udev!LoopError
  BY <1>13 DEF Udev!LoopError
<1>21. CASE Udev!LoopReceive
  BY <1>21 DEF Udev!LoopReceive
<1>22. CASE Udev!LoopSnapshot
  BY <1>22 DEF Udev!LoopSnapshot
<1>23. CASE Udev!LoopPost
  BY <1>23 DEF Udev!LoopPost
<1>3. CASE Udev!LoopLeave
  BY <1>3 DEF Udev!LoopLeave, Udev!Release
<1>4. CASE Udev!LoopDrained
  BY <1>4 DEF Udev!LoopDrained
<1> QED BY <1>11, <1>12, <1>13, <1>21, <1>22, <1>23, <1>3, <1>4 DEF Udev!LoopStep

LEMMA UdevStep ==
  ASSUME UdevInv, [Udev!Next]_udevVars
  PROVE  UdevInv'
<1>1. CASE UNCHANGED <<running_, held, open, inUdev, inRun, crossed>>
  BY <1>1 DEF UdevInv, UdevTypes, UdevOrder, CallerHolds, Busy
<1>2. CASE Udev!HandlerRuns \/ Udev!EventOccurs \/ Udev!DebounceExpires \/ UNCHANGED udevVars
  BY <1>1, <1>2 DEF Udev!HandlerRuns, Udev!EventOccurs, Udev!DebounceExpires, udevVars,
                    Udev!switches, Udev!looping, Udev!counts
<1> QED BY <1>2, UdevCallers, UdevLoop DEF Udev!Next

(* The monitor keeps what its fields name over any sequence of starts, stops *)
(* and failures in which none begins before the last is through: nothing     *)
(* leaks and nothing is closed twice, and its loop polls and reads what is   *)
(* open (udevMonitor.cpp: startIfNeededUnlocked, stop, run).                 *)
THEOREM MonitorHolds == PartsSpec => []MonitorIsHeld
<1> DEFINE Inv == part = "udev" => UdevInv
<1>1. PartsInit => Inv
  BY UdevInit DEF PartsInit
<1>2. Inv /\ [PartsNext]_partsVars => Inv'
  BY PartStays, UdevAlone, UdevStep
<1>3. Inv => MonitorIsHeld
  BY DEF UdevInv, UdevTypes, UdevOrder, MonitorIsHeld, Udev!MonitorIsHeld, CallerHolds, Busy, Starting,
         LoopHolds, Udev!Resources
<1> QED BY <1>1, <1>2, <1>3, PTL DEF PartsSpec

-----------------------------------------------------------------------------
(***************************************************************************)
(* The device controller, for every number of connectors, CRTCs, planes    *)
(* and clients, whatever is plugged and whatever fails.                    *)
(***************************************************************************)
LEMMA DevicesAlone ==
  ASSUME [PartsNext]_partsVars, part = "devices"
  PROVE  [Devices!Next]_deviceVars
BY DEF PartsNext, partsVars, dataVars, CameraPart, OrderedPart, SafePart, LogPart, DisplayPart,
       UdevPart, MousePart, ParamPart, ServerPart, DmaPart, MemoryPart, ConfigPart, DevicesPart,
       HttpPart, JpegPart, ContextPart

(* Both names of the controller mean the same.                              *)

(* Finitely many connectors, planes that are told apart by their ids, and a *)
(* null pointer that is no list.                                            *)
Proper ==
  /\ IsFiniteSet(Devices!Connectors)
  /\ Nil \notin SUBSET Planes
  /\ \A p, q \in Planes : p.id = q.id => p = q

Crtcs == UNION {UNION {Encoders[c][i] : i \in DOMAIN Encoders[c]} : c \in Devices!Connectors}
Device == [connector : Devices!Connectors, crtc : Crtcs]
Seeker == [at : {"idle", "asks"}, crtc : Crtcs \cup {0},
           found : SUBSET {p.id : p \in Planes}, mixed : BOOLEAN]

Distinct(s) == \A i, j \in 1..Len(s) : i # j => s[i] # s[j]

(* The types the argument needs. *)
DeviceTypes ==
  /\ present \in SUBSET Devices!Connectors
  /\ link \in [Devices!Connectors -> Crtcs \cup {0}]
  /\ resources_ # Nil => resources_ \in Seq(Devices!Connectors) /\ Distinct(resources_)
  /\ planeResources_ \in {Nil} \cup SUBSET Planes
  /\ refreshing \in BOOLEAN
  /\ todo \in Seq(Devices!Connectors)
  /\ crtcStatu \in SUBSET Crtcs
  /\ tempDevices \in Seq(Device)
  /\ devices_ \in Seq(Device)
  /\ seeker \in [Clients -> Seeker]

Apart(s) ==
  \A i, j \in 1..Len(s) : i # j => s[i].crtc # s[j].crtc /\ s[i].connector # s[j].connector
Linked(s) ==
  \A i \in 1..Len(s) : s[i].connector \in present => link[s[i].connector] = s[i].crtc

(* The devices found so far have CRTCs that are recorded as given away, and *)
(* connectors the walk does not meet again.                                 *)
WalkInv ==
  /\ Distinct(todo)
  /\ Apart(tempDevices) /\ Linked(tempDevices)
  /\ \A i \in 1..Len(tempDevices) : tempDevices[i].crtc \in crtcStatu
  /\ \A i \in 1..Len(tempDevices), n \in 1..Len(todo) : tempDevices[i].connector # todo[n]

ListInv ==
  /\ Apart(devices_)
  /\ ~refreshing => Linked(devices_)

(* Until somebody else asks, the cache holds planes of the client's CRTC.   *)
PlaneInv ==
  /\ planeResources_ = Nil => planesCache_ = {}
  /\ \A q \in planesCache_ : \E p \in Planes : p.id = q.id
  /\ \A k \in Clients : seeker[k].at = "asks" /\ ~seeker[k].mixed =>
       \A q \in planesCache_ : \E p \in Planes : p.id = q.id /\ seeker[k].crtc \in p.crtcs
  /\ \A k \in Clients : ~seeker[k].mixed =>
       \A p \in Planes : p.id \in seeker[k].found => seeker[k].crtc \in p.crtcs

DeviceInv == DeviceTypes /\ WalkInv /\ ListInv /\ PlaneInv

(* A CRTC of an encoder is a CRTC. *)
LEMMA CrtcsOfEncoders ==
  ASSUME NEW c \in Devices!Connectors, NEW i \in DOMAIN Encoders[c], NEW x \in Encoders[c][i]
  PROVE  x \in Crtcs
BY DEF Crtcs

(* setUpDevice chooses a CRTC that is not recorded. *)
LEMMA ChosenIsFree ==
  ASSUME DeviceTypes, NEW c \in Devices!Connectors, NEW active \in {link[c], 0},
         NEW readable \in SUBSET DOMAIN Encoders[c],
         NEW crtc \in Devices!SetUpDevice(c, active, readable)
  PROVE  crtc \in Crtcs \ crtcStatu
<1>1. CASE active \notin crtcStatu \cup {0}
  BY <1>1 DEF Devices!SetUpDevice, DeviceTypes
<1>2. CASE active \in crtcStatu \cup {0}
  <2>1. PICK p \in Devices!FreeAlong(c, readable) : crtc = p[2]
    BY <1>2 DEF Devices!SetUpDevice, Devices!FirstFree
  <2>2. p[1] \in DOMAIN Encoders[c] /\ p[2] \in Encoders[c][p[1]] \ crtcStatu
    BY <2>1 DEF Devices!FreeAlong
  <2> QED BY <2>1, <2>2, CrtcsOfEncoders
<1> QED BY <1>1, <1>2

(* The connectors in the driver's order are a sequence without repetition. *)
LEMMA OrdersAreDistinct ==
  ASSUME Proper, NEW S \in SUBSET Devices!Connectors, NEW s \in Devices!Orders(S)
  PROVE  s \in Seq(Devices!Connectors) /\ Distinct(s)
<1>1. Cardinality(S) \in Nat
  BY FS_Subset, FS_CardinalityType DEF Proper
<1>4. Devices!Cardinality(S) = Cardinality(S)
  BY DEF Devices!Cardinality, Cardinality, Devices!IsFiniteSet, IsFiniteSet
<1>2. s \in Seq(Devices!Connectors)
  BY <1>1, <1>4 DEF Devices!Orders
<1>3. DOMAIN s = 1..Len(s)
  BY <1>2, LenProperties
<1> QED BY <1>2, <1>3 DEF Devices!Orders, Distinct

LEMMA DevicesInit ==
  ASSUME Devices!Init
  PROVE  DeviceInv
<1> USE DEF Devices!Init
<1>1. DeviceTypes
  BY EmptySeq DEF DeviceTypes, Seeker, Devices!Idle
<1>2. WalkInv
  BY EmptySeq DEF WalkInv, Distinct, Apart, Linked
<1>3. ListInv
  BY EmptySeq DEF ListInv, Apart, Linked
<1>4. PlaneInv
  BY DEF PlaneInv, Devices!Idle
<1> QED BY <1>1, <1>2, <1>3, <1>4 DEF DeviceInv

(* What the driver does: a plug changes nothing we know, a connector that   *)
(* vanishes is no longer spoken of.                                         *)
LEMMA ConnectorStep ==
  ASSUME DeviceInv, Devices!Plug \/ Devices!Vanish
  PROVE  DeviceInv'
<1> USE DEF DeviceInv
<1>1. CASE Devices!Plug
  <2> USE <1>1 DEF Devices!Plug, Devices!resources, Devices!enumeration, Devices!planes
  <2>1. DeviceTypes'
    BY DEF DeviceTypes
  <2>2. WalkInv'
    BY DEF WalkInv, Distinct, Apart, Linked
  <2>3. ListInv'
    BY DEF ListInv, Apart, Linked
  <2>4. PlaneInv'
    BY DEF PlaneInv
  <2> QED BY <2>1, <2>2, <2>3, <2>4
<1>2. CASE Devices!Vanish
  <2>1. PICK c \in present : /\ present' = present \ {c}
                            /\ link' = [link EXCEPT ![c] = 0]
                            /\ UNCHANGED <<fd_ptr, Devices!resources, Devices!enumeration, Devices!planes>>
    BY <1>2 DEF Devices!Vanish
  <2> USE <2>1 DEF Devices!resources, Devices!enumeration, Devices!planes
  <2>2. \A d \in Devices!Connectors : d \in present' => d \in present /\ link'[d] = link[d]
    BY DEF DeviceTypes
  <2>3. DeviceTypes'
    BY DEF DeviceTypes
  <2>4. ASSUME NEW s \in Seq(Device), Linked(s)
        PROVE  \A i \in 1..Len(s) : s[i].connector \in present' => link'[s[i].connector] = s[i].crtc
    BY <2>2, <2>4, ElementOfSeq DEF Linked, Device
  <2>5. WalkInv'
    BY <2>4 DEF WalkInv, DeviceTypes, Distinct, Apart, Linked
  <2>6. ListInv'
    BY <2>4 DEF ListInv, DeviceTypes, Apart, Linked
  <2>7. PlaneInv'
    BY DEF PlaneInv
  <2> QED BY <2>3, <2>5, <2>6, <2>7
<1> QED BY <1>1, <1>2

(* Construction and the two lists of the driver. *)
LEMMA ResourcesStep ==
  ASSUME Proper, DeviceInv, Devices!Create \/ Devices!RefreshResources
  PROVE  DeviceInv'
<1> USE DEF DeviceInv
<1>1. CASE Devices!Create
  <2> USE <1>1 DEF Devices!Create, Devices!driver, Devices!resources, Devices!enumeration, Devices!planes
  <2>1. DeviceTypes'
    BY DEF DeviceTypes
  <2>2. WalkInv'
    BY DEF WalkInv, Distinct, Apart, Linked
  <2>3. ListInv'
    BY DEF ListInv, Apart, Linked
  <2>4. PlaneInv'
    BY DEF PlaneInv
  <2> QED BY <2>1, <2>2, <2>3, <2>4
<1>2. CASE Devices!RefreshResources
  <2> USE <1>2 DEF Devices!RefreshResources, Devices!driver, Devices!enumeration, Devices!planes
  <2>1. resources_' \in Seq(Devices!Connectors) /\ Distinct(resources_')
    BY OrdersAreDistinct DEF DeviceTypes
  <2>2. planeResources_' = planeResources_ \/ planeResources_' \in SUBSET Planes
    OBVIOUS
  <2>3. DeviceTypes'
    BY <2>1, <2>2 DEF DeviceTypes
  <2>4. WalkInv'
    BY DEF WalkInv, Distinct, Apart, Linked
  <2>5. ListInv'
    BY DEF ListInv, Apart, Linked
  <2>6. PlaneInv'
    BY <2>2 DEF PlaneInv, Proper
  <2> QED BY <2>3, <2>4, <2>5, <2>6
<1> QED BY <1>1, <1>2

(* A refresh begins with every connector ahead of it, and ends with a list  *)
(* the driver agrees with.                                                  *)
LEMMA RefreshEnds ==
  ASSUME DeviceInv, Devices!BeginRefresh \/ Devices!EndRefresh
  PROVE  DeviceInv'
<1> USE DEF DeviceInv
<1>1. CASE Devices!BeginRefresh
  <2>1. CASE resources_ = Nil
    <3> USE <1>1, <2>1 DEF Devices!BeginRefresh, Devices!driver, Devices!resources, Devices!enumeration, Devices!planes
    <3>1. DeviceTypes'
      BY DEF DeviceTypes
    <3>2. WalkInv'
      BY DEF WalkInv, Distinct, Apart, Linked
    <3>3. ListInv'
      BY DEF ListInv, Apart, Linked
    <3>4. PlaneInv'
      BY DEF PlaneInv
    <3> QED BY <3>1, <3>2, <3>3, <3>4
  <2>2. CASE resources_ # Nil
    <3> USE <1>1, <2>2 DEF Devices!BeginRefresh, Devices!driver, Devices!resources, Devices!planes
    <3>1. DeviceTypes'
      BY EmptySeq DEF DeviceTypes
    <3>2. WalkInv'
      BY EmptySeq DEF WalkInv, DeviceTypes, Distinct, Apart, Linked
    <3>3. ListInv'
      BY DEF ListInv, Apart, Linked
    <3>4. PlaneInv'
      BY DEF PlaneInv
    <3> QED BY <3>1, <3>2, <3>3, <3>4
  <2> QED BY <2>1, <2>2
<1>2. CASE Devices!EndRefresh
  <2> USE <1>2 DEF Devices!EndRefresh, Devices!driver, Devices!resources, Devices!planes
  <2>1. DeviceTypes'
    BY EmptySeq DEF DeviceTypes
  <2>2. WalkInv'
    BY EmptySeq DEF WalkInv, Distinct, Apart, Linked
  <2>3. ListInv'
    BY DEF ListInv, WalkInv, Apart, Linked
  <2>4. PlaneInv'
    BY DEF PlaneInv
  <2> QED BY <2>1, <2>2, <2>3, <2>4
<1> QED BY <1>1, <1>2

(* What is left of the walk after a connector has been looked at. *)
LEMMA WalkGoesOn ==
  ASSUME DeviceTypes, WalkInv, todo # <<>>, todo' = Tail(todo)
  PROVE  /\ Head(todo) \in Devices!Connectors
         /\ todo' \in Seq(Devices!Connectors)
         /\ Distinct(todo')
         /\ \A n \in 1..Len(todo') : /\ todo'[n] # Head(todo)
                                     /\ \E m \in 1..Len(todo) : todo'[n] = todo[m]
<1>1. /\ Head(todo) \in Devices!Connectors
      /\ todo' \in Seq(Devices!Connectors)
      /\ Len(todo') = Len(todo) - 1
      /\ \A n \in 1..Len(todo') : todo'[n] = todo[n + 1]
  BY HeadTailProperties DEF DeviceTypes
<1>2. Head(todo) = todo[1] /\ Len(todo) \in Nat \ {0}
  BY EmptySeq DEF DeviceTypes
<1>3. Len(todo') \in Nat
  BY <1>1, LenProperties
<1>4. Distinct(todo)
  BY DEF WalkInv
<1>5. Distinct(todo')
  BY <1>1, <1>2, <1>3, <1>4 DEF Distinct
<1>6. ASSUME NEW n \in 1..Len(todo')
      PROVE  todo'[n] # Head(todo) /\ \E m \in 1..Len(todo) : todo'[n] = todo[m]
  <2>1. n + 1 \in 1..Len(todo) /\ n + 1 # 1 /\ 1 \in 1..Len(todo) /\ todo'[n] = todo[n + 1]
    BY <1>1, <1>2, <1>3
  <2> QED BY <2>1, <1>2, <1>4 DEF Distinct
<1> QED BY <1>1, <1>5, <1>6

(* A connector that is passed over. *)
LEMMA IgnoreStep ==
  ASSUME DeviceInv, Devices!Ignore
  PROVE  DeviceInv'
<1> USE DEF DeviceInv
<1>1. /\ todo # <<>> /\ todo' = Tail(todo)
      /\ UNCHANGED <<fd_ptr, refreshing, devices_, Devices!resources, Devices!planes, Devices!driver, crtcStatu, tempDevices>>
  BY DEF Devices!Ignore, Devices!Looked
<1> USE <1>1 DEF Devices!driver, Devices!resources, Devices!planes
<1>2. DeviceTypes'
  BY WalkGoesOn DEF DeviceTypes
<1>3. \A i \in 1..Len(tempDevices), n \in 1..Len(todo') : tempDevices[i].connector # todo'[n]
  BY WalkGoesOn DEF WalkInv
<1>4. Apart(tempDevices)' /\ Linked(tempDevices)' /\ Distinct(todo)'
  BY WalkGoesOn DEF WalkInv, Apart, Linked, Distinct
<1>5. WalkInv'
  BY <1>3, <1>4 DEF WalkInv
<1>6. ListInv'
  BY DEF ListInv, Apart, Linked
<1>7. PlaneInv'
  BY DEF PlaneInv
<1> QED BY <1>2, <1>5, <1>6, <1>7

(* A device joins the list: its CRTC was free and its connector is new. *)
LEMMA DeviceJoins ==
  ASSUME DeviceInv, todo # <<>>, todo' = Tail(todo),
         NEW crtc \in Crtcs \ crtcStatu, crtcStatu' = crtcStatu \cup {crtc},
         Devices!DriverBinds(Head(todo), crtc),
         tempDevices' = Append(tempDevices, [connector |-> Head(todo), crtc |-> crtc])
  PROVE  WalkInv' /\ tempDevices' \in Seq(Device) /\ link' \in [Devices!Connectors -> Crtcs \cup {0}]
<1> USE DEF DeviceInv
<1> DEFINE c == Head(todo)
           d == [connector |-> c, crtc |-> crtc]
<1>1. c \in Devices!Connectors /\ d \in Device
  BY WalkGoesOn DEF Device
<1>2. /\ tempDevices' \in Seq(Device)
      /\ Len(tempDevices) \in Nat
      /\ Len(tempDevices') = Len(tempDevices) + 1
      /\ \A i \in 1..Len(tempDevices) : tempDevices'[i] = tempDevices[i]
      /\ tempDevices'[Len(tempDevices) + 1] = d
  BY <1>1, AppendProperties, LenProperties DEF DeviceTypes
<1>3. /\ present' = present
      /\ link' \in [Devices!Connectors -> Crtcs \cup {0}]
      /\ link'[c] = crtc
      /\ \A e \in Devices!Connectors \ {c} : link'[e] = link[e]
  BY <1>1 DEF Devices!DriverBinds, DeviceTypes
<1>4. \A i \in 1..Len(tempDevices) :
        /\ tempDevices[i] \in Device
        /\ tempDevices[i].crtc \in crtcStatu
        /\ tempDevices[i].connector # c
  <2>1. c = todo[1] /\ 1 \in 1..Len(todo)
    BY EmptySeq DEF DeviceTypes
  <2> QED BY <2>1, ElementOfSeq DEF WalkInv, DeviceTypes
<1>5. \A i \in 1..Len(tempDevices') : i \in 1..Len(tempDevices) \/ i = Len(tempDevices) + 1
  BY <1>2
<1>6. d.connector = c /\ d.crtc = crtc
  OBVIOUS
<1> HIDE DEF c, d
<1>7. Apart(tempDevices')
  <2> SUFFICES ASSUME NEW i \in 1..Len(tempDevices'), NEW j \in 1..Len(tempDevices'), i # j
               PROVE  /\ tempDevices'[i].crtc # tempDevices'[j].crtc
                      /\ tempDevices'[i].connector # tempDevices'[j].connector
    BY DEF Apart
  <2>1. CASE i \in 1..Len(tempDevices) /\ j \in 1..Len(tempDevices)
    BY <2>1, <1>2 DEF WalkInv, Apart
  <2>2. CASE i = Len(tempDevices) + 1
    <3>1. j \in 1..Len(tempDevices)
      BY <2>2, <1>5
    <3> QED BY <3>1, <2>2, <1>2, <1>4, <1>6
  <2>3. CASE j = Len(tempDevices) + 1
    <3>1. i \in 1..Len(tempDevices)
      BY <2>3, <1>5
    <3> QED BY <3>1, <2>3, <1>2, <1>4, <1>6
  <2> QED BY <1>5, <2>1, <2>2, <2>3
<1>8. Linked(tempDevices)'
  <2> SUFFICES ASSUME NEW i \in 1..Len(tempDevices'), tempDevices'[i].connector \in present'
               PROVE  link'[tempDevices'[i].connector] = tempDevices'[i].crtc
    BY DEF Linked
  <2>1. CASE i \in 1..Len(tempDevices)
    <3>1. tempDevices[i].connector \in Devices!Connectors \ {c}
      BY <2>1, <1>4 DEF Device
    <3> QED BY <3>1, <2>1, <1>2, <1>3 DEF WalkInv, Linked
  <2>2. CASE i = Len(tempDevices) + 1
    BY <2>2, <1>2, <1>3, <1>6
  <2> QED BY <1>5, <2>1, <2>2
<1>9. \A i \in 1..Len(tempDevices') : tempDevices'[i].crtc \in crtcStatu'
  BY <1>2, <1>4, <1>5, <1>6
<1>10. \A i \in 1..Len(tempDevices'), n \in 1..Len(todo') : tempDevices'[i].connector # todo'[n]
  <2> SUFFICES ASSUME NEW i \in 1..Len(tempDevices'), NEW n \in 1..Len(todo')
               PROVE  tempDevices'[i].connector # todo'[n]
    OBVIOUS
  <2>1. todo'[n] # c /\ \E m \in 1..Len(todo) : todo'[n] = todo[m]
    BY WalkGoesOn DEF c
  <2>2. CASE i \in 1..Len(tempDevices)
    BY <2>1, <2>2, <1>2 DEF WalkInv
  <2>3. CASE i = Len(tempDevices) + 1
    BY <2>1, <2>3, <1>2, <1>6
  <2> QED BY <1>5, <2>2, <2>3
<1>11. Distinct(todo')
  BY WalkGoesOn
<1> QED
  <2>1. Apart(tempDevices)' /\ Distinct(todo)'
    BY <1>7, <1>11 DEF Apart, Distinct
  <2> QED BY <2>1, <1>2, <1>3, <1>8, <1>9, <1>10 DEF WalkInv

LEMMA BindStep ==
  ASSUME DeviceInv, Devices!BindConn2Crtc
  PROVE  DeviceInv'
<1> USE DEF DeviceInv
<1>1. /\ refreshing /\ todo # <<>> /\ todo' = Tail(todo)
      /\ UNCHANGED <<fd_ptr, refreshing, devices_, Devices!resources, Devices!planes>>
  BY DEF Devices!BindConn2Crtc, Devices!Looked
<1>2. Head(todo) \in Devices!Connectors
  BY <1>1, WalkGoesOn
<1>3. PICK crtc \in Crtcs \ crtcStatu :
        /\ crtcStatu' = crtcStatu \cup {crtc}
        /\ \/ Devices!DriverBinds(Head(todo), crtc)
              /\ tempDevices' = Append(tempDevices, [connector |-> Head(todo), crtc |-> crtc])
           \/ UNCHANGED <<Devices!driver, tempDevices>>
  BY <1>2, ChosenIsFree DEF Devices!BindConn2Crtc
<1>4. present' = present
  BY <1>3 DEF Devices!DriverBinds, Devices!driver
<1>5. /\ WalkInv'
      /\ tempDevices' \in Seq(Device)
      /\ link' \in [Devices!Connectors -> Crtcs \cup {0}]
  <2>1. CASE /\ Devices!DriverBinds(Head(todo), crtc)
             /\ tempDevices' = Append(tempDevices, [connector |-> Head(todo), crtc |-> crtc])
    BY <1>1, <1>3, <2>1, DeviceJoins
  <2>2. CASE UNCHANGED <<Devices!driver, tempDevices>>
    <3> USE <2>2 DEF Devices!driver
    <3>1. \A i \in 1..Len(tempDevices), n \in 1..Len(todo') : tempDevices[i].connector # todo'[n]
      BY <1>1, WalkGoesOn DEF WalkInv
    <3>2. Apart(tempDevices)' /\ Linked(tempDevices)' /\ Distinct(todo)'
      BY <1>1, WalkGoesOn DEF WalkInv, Apart, Linked, Distinct
    <3>3. \A i \in 1..Len(tempDevices) : tempDevices[i].crtc \in crtcStatu'
      BY <1>3 DEF WalkInv
    <3> QED BY <3>1, <3>2, <3>3 DEF WalkInv, DeviceTypes
  <2> QED BY <1>3, <2>1, <2>2
<1>6. todo' \in Seq(Devices!Connectors)
  BY <1>1, WalkGoesOn
<1> USE <1>1 DEF Devices!resources, Devices!planes
<1>7. DeviceTypes'
  BY <1>3, <1>4, <1>5, <1>6 DEF DeviceTypes, Distinct
<1>8. ListInv'
  BY DEF ListInv, Apart
<1>9. PlaneInv'
  BY DEF PlaneInv
<1> QED BY <1>5, <1>7, <1>8, <1>9

(* A client asks for the planes of a device: the cache is that device's, and *)
(* every other client's answer is spoilt.                                    *)
LEMMA RefreshPlaneStep ==
  ASSUME Proper, DeviceInv, NEW k, Devices!RefreshPlane(k)
  PROVE  DeviceInv'
<1> USE DEF DeviceInv
<1>1. PICK i \in DOMAIN devices_ :
        /\ IF planeResources_ = Nil THEN UNCHANGED planesCache_
           ELSE \E read \in SUBSET planeResources_ : \E known \in SUBSET read :
                  planesCache_' = {[id |-> p.id, kind |-> Devices!KindOf(p, known), formats |-> p.formats] :
                                    p \in {q \in read : devices_[i].crtc \in q.crtcs}}
        /\ seeker' = [m \in Clients |->
             IF m = k THEN [at |-> "asks", crtc |-> devices_[i].crtc, found |-> {}, mixed |-> FALSE]
             ELSE [seeker[m] EXCEPT !.mixed = TRUE]]
        /\ UNCHANGED <<fd_ptr, Devices!driver, Devices!resources, Devices!enumeration>>
  BY DEF Devices!RefreshPlane
<1>2. devices_[i].crtc \in Crtcs
  <2>1. devices_ \in Seq(Device)
    BY DEF DeviceTypes
  <2>2. i \in 1..Len(devices_)
    BY <2>1, LenProperties
  <2>3. devices_[i] \in Device
    BY <2>1, <2>2, ElementOfSeq
  <2> QED BY <2>3 DEF Device
<1>3. planeResources_ = Nil => planesCache_' = {}
  BY <1>1 DEF PlaneInv
<1>4. \A q \in planesCache_' : \E p \in Planes : p.id = q.id /\ devices_[i].crtc \in p.crtcs
  <2>1. CASE planeResources_ = Nil
    BY <1>3, <2>1
  <2>2. CASE planeResources_ # Nil
    <3>1. planeResources_ \in SUBSET Planes
      BY <2>2 DEF DeviceTypes
    <3> QED BY <1>1, <2>2, <3>1
  <2> QED BY <2>1, <2>2
<1>5. ASSUME NEW m \in Clients
      PROVE  seeker'[m] =
               IF m = k THEN [at |-> "asks", crtc |-> devices_[i].crtc, found |-> {}, mixed |-> FALSE]
               ELSE [seeker[m] EXCEPT !.mixed = TRUE]
  BY <1>1
<1>6. ASSUME NEW m \in Clients
      PROVE  /\ seeker'[m] \in Seeker
             /\ ~seeker'[m].mixed => seeker'[m].crtc = devices_[i].crtc /\ seeker'[m].found = {}
  <2>1. seeker[m] \in Seeker
    BY DEF DeviceTypes
  <2>2. CASE m = k
    <3>1. seeker'[m] = [at |-> "asks", crtc |-> devices_[i].crtc, found |-> {}, mixed |-> FALSE]
      BY <1>5, <2>2
    <3>2. ASSUME NEW x \in Crtcs
          PROVE  [at |-> "asks", crtc |-> x, found |-> {}, mixed |-> FALSE] \in Seeker
      BY DEF Seeker
    <3>3. seeker'[m] \in Seeker
      BY <1>2, <3>1, <3>2
    <3>4. seeker'[m].crtc = devices_[i].crtc /\ seeker'[m].found = {}
      BY <3>1
    <3> QED BY <3>3, <3>4
  <2>3. CASE m # k
    <3>1. seeker'[m] = [seeker[m] EXCEPT !.mixed = TRUE]
      BY <1>5, <2>3
    <3>2. ASSUME NEW F, NEW C, NEW s \in [at : {"idle", "asks"}, crtc : C, found : F, mixed : BOOLEAN]
          PROVE  /\ [s EXCEPT !.mixed = TRUE] \in [at : {"idle", "asks"}, crtc : C, found : F, mixed : BOOLEAN]
                 /\ [s EXCEPT !.mixed = TRUE].mixed
      OBVIOUS
    <3>3. seeker'[m] \in Seeker /\ seeker'[m].mixed
      BY <2>1, <3>1, <3>2 DEF Seeker
    <3> QED BY <3>3
  <2> QED BY <2>2, <2>3
<1>7. seeker' \in [Clients -> Seeker]
  BY <1>1, <1>6
<1>8. UNCHANGED <<fd_ptr, Devices!driver, Devices!resources, Devices!enumeration>>
  BY <1>1
<1>9. DeviceTypes'
  BY <1>7, <1>8 DEF DeviceTypes, Devices!driver, Devices!resources, Devices!enumeration
<1>10. WalkInv'
  <2>1. UNCHANGED <<present, link, todo, crtcStatu, tempDevices>> /\ WalkInv
    BY <1>8 DEF Devices!driver, Devices!enumeration
  <2> QED BY <2>1 DEF WalkInv, Distinct, Apart, Linked
<1>11. ListInv'
  BY <1>8 DEF ListInv, Apart, Linked, Devices!driver, Devices!enumeration
<1>12. PlaneInv'
  <2>1. planeResources_' = planeResources_
    BY <1>8 DEF Devices!resources
  <2> QED BY <1>3, <1>4, <1>6, <2>1 DEF PlaneInv
<1> QED BY <1>9, <1>10, <1>11, <1>12

(* The answer: ids of the planes in the cache, which name them uniquely. *)
LEMMA GetPossiblePlaneStep ==
  ASSUME Proper, DeviceInv, NEW k \in Clients, Devices!GetPossiblePlane(k)
  PROVE  DeviceInv'
<1> USE DEF DeviceInv
<1>1. PICK kind \in Kinds, format \in Formats :
        seeker' = [seeker EXCEPT ![k].at = "idle",
          ![k].found = {p.id : p \in {q \in planesCache_ :
             q.kind = kind /\ Devices!IsFormatSupported(format, q)}}]
  BY DEF Devices!GetPossiblePlane
<1> DEFINE ids == {p.id : p \in {q \in planesCache_ : q.kind = kind /\ Devices!IsFormatSupported(format, q)}}
<1>2. UNCHANGED <<fd_ptr, Devices!driver, Devices!resources, Devices!enumeration, planesCache_>> /\ seeker[k].at = "asks"
  BY DEF Devices!GetPossiblePlane
<1>3. \A x \in ids : \E q \in planesCache_ : x = q.id
  OBVIOUS
<1>4. \A m \in Clients : seeker[m] \in Seeker
  BY DEF DeviceTypes
<1>5. seeker' = [seeker EXCEPT ![k].at = "idle", ![k].found = ids]
  BY <1>1
<1> HIDE DEF ids
<1>6. ASSUME NEW m \in Clients
      PROVE  /\ m # k => seeker'[m] = seeker[m]
             /\ m = k => /\ seeker'[m].at = "idle" /\ seeker'[m].found = ids
                         /\ seeker'[m].crtc = seeker[m].crtc /\ seeker'[m].mixed = seeker[m].mixed
  BY <1>4, <1>5 DEF DeviceTypes, Seeker
<1>7. ids \in SUBSET {p.id : p \in Planes}
  BY <1>3 DEF PlaneInv
<1>8. seeker' \in [Clients -> Seeker]
  BY <1>4, <1>5, <1>7 DEF DeviceTypes, Seeker
<1>9. DeviceTypes'
  BY <1>2, <1>8 DEF DeviceTypes, Devices!driver, Devices!resources, Devices!enumeration
<1>10. WalkInv'
  BY <1>2 DEF WalkInv, Distinct, Apart, Linked, Devices!driver, Devices!enumeration
<1>11. ListInv'
  BY <1>2 DEF ListInv, Apart, Linked, Devices!driver, Devices!enumeration
<1>12. ASSUME ~seeker[k].mixed, NEW p \in Planes, p.id \in ids
       PROVE  seeker[k].crtc \in p.crtcs
  <2>1. PICK q \in planesCache_ : p.id = q.id
    BY <1>3, <1>12
  <2>2. PICK r \in Planes : r.id = q.id /\ seeker[k].crtc \in r.crtcs
    BY <1>2, <1>12 DEF PlaneInv
  <2> QED BY <2>1, <2>2 DEF Proper
<1>13. PlaneInv'
  <2>1. planeResources_' = planeResources_ /\ planesCache_' = planesCache_
    BY <1>2 DEF Devices!resources
  <2>2. ASSUME NEW m \in Clients, seeker'[m].at = "asks", ~seeker'[m].mixed
        PROVE  \A q \in planesCache_ : \E p \in Planes : p.id = q.id /\ seeker'[m].crtc \in p.crtcs
    BY <1>6, <2>2 DEF PlaneInv
  <2>3. ASSUME NEW m \in Clients, ~seeker'[m].mixed, NEW p \in Planes, p.id \in seeker'[m].found
        PROVE  seeker'[m].crtc \in p.crtcs
    <3>1. CASE m = k
      BY <1>6, <1>12, <2>3, <3>1
    <3>2. CASE m # k
      BY <1>6, <2>3, <3>2 DEF PlaneInv
    <3> QED BY <3>1, <3>2
  <2> QED BY <2>1, <2>2, <2>3 DEF PlaneInv
<1> QED BY <1>9, <1>10, <1>11, <1>13

LEMMA DevicesKeep ==
  ASSUME Proper, DeviceInv, [Devices!Next]_deviceVars
  PROVE  DeviceInv'
<1>1. CASE Devices!Next
  BY <1>1, ConnectorStep, ResourcesStep, RefreshEnds, IgnoreStep, BindStep, RefreshPlaneStep,
     GetPossiblePlaneStep DEF Devices!Next
<1>2. CASE UNCHANGED deviceVars
  <2> USE <1>2 DEF deviceVars, DeviceInv
  <2>1. DeviceTypes'
    BY DEF DeviceTypes
  <2>2. WalkInv'
    BY DEF WalkInv, Distinct, Apart, Linked
  <2>3. ListInv'
    BY DEF ListInv, Apart, Linked
  <2>4. PlaneInv'
    BY DEF PlaneInv
  <2> QED BY <2>1, <2>2, <2>3, <2>4
<1> QED BY <1>1, <1>2

(* What the run checks follows. *)
LEMMA DevicesSuffice ==
  ASSUME DeviceInv
  PROVE  Devices!DevicesAreBound
<1> USE DEF DeviceInv
<1>1. DOMAIN devices_ = 1..Len(devices_)
  BY LenProperties DEF DeviceTypes
<1> QED BY <1>1 DEF Devices!DevicesAreBound, ListInv, PlaneInv, Apart, Linked

(* Devices never share a connector or a CRTC, the driver agrees with the    *)
(* list whenever no refresh is at work, and planes belong to the CRTC they  *)
(* were asked for, with any hardware: see DevicesAreBound.                  *)
THEOREM BoundAlways ==
  ASSUME Proper
  PROVE  Devices!Spec => []Devices!DevicesAreBound
<1>1. Devices!Init => DeviceInv
  BY DevicesInit
<1>2. DeviceInv /\ [Devices!Next]_(Devices!deviceVars) => DeviceInv'
  BY DevicesKeep DEF deviceVars, Devices!deviceVars, Devices!driver, Devices!resources,
     Devices!enumeration, Devices!planes
<1>3. DeviceInv => Devices!DevicesAreBound
  BY DevicesSuffice
<1> QED BY <1>1, <1>2, <1>3, PTL DEF Devices!Spec

(* Of the controller among the other parts: see BoundAlways.                *)
THEOREM ScreensAreBound ==
  ASSUME Proper
  PROVE  PartsSpec => []DevicesAreBound
<1> DEFINE Inv == part = "devices" => DeviceInv
<1>1. PartsInit => Inv
  BY DevicesInit DEF PartsInit
<1>2. Inv /\ [PartsNext]_partsVars => Inv'
  BY PartStays, DevicesAlone, DevicesKeep
<1>3. Inv => DevicesAreBound
  BY DevicesSuffice DEF DevicesAreBound
<1> QED BY <1>1, <1>2, <1>3, PTL DEF PartsSpec

-----------------------------------------------------------------------------
(***************************************************************************)
(* DMA buffers.  A handle in use belongs to one object or to the creation  *)
(* in progress, or an import made it and it stays open; a descriptor in    *)
(* use belongs to one object or to somebody else; and a mapping is counted *)
(* once for each object that has it.                                       *)
(***************************************************************************)
LEMMA DmaAlone ==
  ASSUME [PartsNext]_partsVars, part = "dma"
  PROVE  [Dma!Next]_dmaVars
BY DEF PartsNext, partsVars, dataVars, CameraPart, OrderedPart, SafePart, LogPart, DisplayPart,
       UdevPart, MousePart, ParamPart, ServerPart, DmaPart, MemoryPart, ConfigPart, DevicesPart,
       HttpPart, JpegPart, ContextPart

Refs == Numbers \cup {Dma!None}
MemoryOrNone == Memories \cup {Dma!None}
DmaObject == [alive : BOOLEAN, primeFd : Refs, handle : Refs, ptr : MemoryOrNone, isImported : BOOLEAN]

KernelTypes ==
  /\ handles \in [Numbers -> MemoryOrNone] /\ files \in [Numbers -> MemoryOrNone]
  /\ mapped \in [Memories -> Int] /\ born \in Nat
  /\ unclosed \subseteq Numbers /\ lent \subseteq Numbers

\* What is left of an object that is not alive.
Blank(object) ==
  /\ object.handle = Dma!None /\ object.primeFd = Dma!None
  /\ object.ptr = Dma!None /\ ~object.isImported

ObjectTypes ==
  /\ objects \in [Objects -> DmaObject]
  /\ \A o \in Objects : ~objects[o].alive => Blank(objects[o])

ViewTypes ==
  /\ views = [v \in Views |-> views[v]]
  /\ \A v \in Views : views[v] = [owner |-> views[v].owner, ptr |-> views[v].ptr]
  /\ \A v \in Views : views[v] # Dma!NoView => views[v].owner \in Objects

MakingTypes ==
  /\ making \in [object : Objects \cup {Dma!None}, attempt : Int, handle : Refs]
  /\ making.object # Dma!None => ~objects[making.object].alive
  /\ making.handle # Dma!None => making.object # Dma!None

DmaTypes == KernelTypes /\ ObjectTypes /\ ViewTypes /\ MakingTypes

\* The objects that give a handle, a descriptor back.
HandleInv ==
  /\ \A o \in Dma!Owners : objects[o].handle # Dma!None =>
       /\ handles[objects[o].handle] # Dma!None
       /\ objects[o].handle # making.handle /\ objects[o].handle \notin unclosed
       /\ \A p \in Dma!Owners : objects[p].handle = objects[o].handle => p = o
  /\ making.handle # Dma!None => handles[making.handle] # Dma!None /\ making.handle \notin unclosed
  /\ \A n \in unclosed : handles[n] # Dma!None
  /\ \A n \in Numbers : handles[n] # Dma!None =>
       n \in unclosed \/ making.handle = n \/ \E o \in Dma!Owners : objects[o].handle = n

FileInv ==
  /\ \A o \in Dma!Owners : objects[o].primeFd # Dma!None =>
       /\ files[objects[o].primeFd] # Dma!None /\ objects[o].primeFd \notin lent
       /\ \A p \in Dma!Owners : objects[p].primeFd = objects[o].primeFd => p = o
  /\ \A n \in lent : files[n] # Dma!None
  /\ \A n \in Numbers : files[n] # Dma!None =>
       n \in lent \/ \E o \in Dma!Owners : objects[o].primeFd = n

Mappers(m) == {o \in Objects : objects[o].ptr = m}

MapInv == \A m \in Memories : mapped[m] = Cardinality(Mappers(m))

DmaInv == DmaTypes /\ HandleInv /\ FileInv /\ MapInv

LEMMA Minimum ==
  ASSUME NEW T \in SUBSET Nat, T # {}
  PROVE  \E n \in T : \A k \in T : n <= k
<1> DEFINE R == OpToRel(<, Nat)
<1>1. IsWellFoundedOn(R, Nat)
  BY NatLessThanWellFounded
<1>2. \A x, y \in Nat : x < y => <<x, y>> \in R
  BY DEF OpToRel
<1> HIDE DEF R
<1>3. PICK n \in T : \A k \in T : ~(<<k, n>> \in R)
  BY <1>1, WFMin
<1>4. \A k \in T : ~(k < n)
  BY <1>2, <1>3
<1> QED BY <1>4

LEMMA CountedFromOne ==
  (\E n \in Nat : Numbers = 1..n) /\ (\E m \in Nat : Memories = 1..m)
<1>1. Cardinality(Numbers) \in Nat /\ Cardinality(Memories) \in Nat
  BY DmaAssumption, FS_CardinalityType
<1> QED BY <1>1, DmaAssumption

LEMMA FreeNumber ==
  ASSUME NEW f, \E n \in Numbers : f[n] = Dma!None
  PROVE  Dma!LowestFree(f) \in Numbers /\ f[Dma!LowestFree(f)] = Dma!None
<1> DEFINE T == {n \in Numbers : f[n] = Dma!None}
<1>1. PICK top \in Nat : Numbers = 1..top
  BY CountedFromOne
<1>2. T \subseteq Nat /\ T # {}
  BY <1>1
<1>3. PICK n \in T : \A k \in T : n <= k
  BY <1>2, Minimum
<1>4. \A k \in 1..n - 1 : k \in Numbers /\ k \notin T
  BY <1>1, <1>3
<1>5. n \in Numbers /\ f[n] = Dma!None /\ \A k \in 1..n - 1 : f[k] # Dma!None
  BY <1>3, <1>4
<1> HIDE DEF T
<1>6. \E i \in Numbers : f[i] = Dma!None /\ \A k \in 1..i - 1 : f[k] # Dma!None
  BY <1>5
<1> QED BY <1>6, Zenon DEF Dma!LowestFree

\* No number and no memory is null.
LEMMA NullIsApart ==
  Dma!None = 0 /\ 0 \notin Numbers /\ 0 \notin Memories /\ Memories \subseteq Nat /\ Numbers \subseteq Nat
<1>1. \A n \in Nat : 0 \notin 1..n /\ 1..n \subseteq Nat
  OBVIOUS
<1> QED BY <1>1, CountedFromOne DEF Dma!None

LEMMA MappersAreFinite ==
  ASSUME NEW m
  PROVE  IsFiniteSet(Mappers(m)) /\ Cardinality(Mappers(m)) \in Nat
<1>1. IsFiniteSet(Objects) /\ Mappers(m) \in SUBSET Objects
  BY DmaAssumption DEF Mappers
<1>2. IsFiniteSet(Mappers(m))
  BY <1>1, FS_Subset
<1> QED BY <1>2, FS_CardinalityType

LEMMA DmaInit == Dma!Init => DmaInv
<1> SUFFICES ASSUME Dma!Init PROVE DmaInv
  OBVIOUS
<1> USE NullIsApart
<1>1. Dma!NoObject \in DmaObject /\ ~Dma!NoObject.alive /\ Dma!NoObject.ptr = 0
  BY DEF Dma!NoObject, DmaObject, Refs, MemoryOrNone
<1>2. objects \in [Objects -> DmaObject] /\ \A o \in Objects : objects[o] = Dma!NoObject
  BY <1>1 DEF Dma!Init
<1>3. /\ making \in [object : Objects \cup {Dma!None}, attempt : Int, handle : Refs]
      /\ making.object = 0 /\ making.handle = 0
  BY DEF Dma!Init, Dma!NotMaking, Refs
<1>4. /\ views = [v \in Views |-> views[v]] /\ \A v \in Views : views[v] = Dma!NoView
      /\ Dma!NoView = [owner |-> Dma!NoView.owner, ptr |-> Dma!NoView.ptr]
  BY DEF Dma!Init, Dma!NoView
<1>5. /\ handles \in [Numbers -> MemoryOrNone] /\ files \in [Numbers -> MemoryOrNone]
      /\ mapped \in [Memories -> Int] /\ born \in Nat /\ unclosed = {} /\ lent = {}
      /\ \A n \in Numbers : handles[n] = 0 /\ files[n] = 0
      /\ \A m \in Memories : mapped[m] = 0
  BY DEF Dma!Init, MemoryOrNone
<1>6. DmaTypes
  <2>1. KernelTypes /\ ObjectTypes
    BY <1>2, <1>5 DEF KernelTypes, ObjectTypes, Blank, Dma!NoObject
  <2>2. ViewTypes /\ MakingTypes
    BY <1>3, <1>4 DEF ViewTypes, MakingTypes
  <2> QED BY <2>1, <2>2 DEF DmaTypes
<1>7. Dma!Owners = {}
  BY <1>1, <1>2 DEF Dma!Owners, Dma!Alive
<1>8. HandleInv /\ FileInv
  BY <1>3, <1>5, <1>7 DEF HandleInv, FileInv
<1>9. ASSUME NEW m \in Memories PROVE mapped[m] = Cardinality(Mappers(m))
  <2>1. Mappers(m) = {}
    BY <1>1, <1>2 DEF Mappers
  <2> QED BY <1>5, <2>1, FS_EmptySet
<1> QED BY <1>6, <1>8, <1>9 DEF DmaInv, MapInv

\* An object without a mapping gets one.
LEMMA Mapping ==
  ASSUME DmaTypes, MapInv, NEW o \in Objects, NEW m \in Memories, objects[o].ptr = Dma!None,
         mapped' = [mapped EXCEPT ![m] = @ + 1],
         objects'[o].ptr = m, \A p \in Objects \ {o} : objects'[p].ptr = objects[p].ptr
  PROVE  MapInv' /\ mapped' \in [Memories -> Int]
<1>1. mapped \in [Memories -> Int] /\ mapped' \in [Memories -> Int]
  BY DEF DmaTypes, KernelTypes
<1>2. ASSUME NEW k \in Memories PROVE mapped'[k] = Cardinality(Mappers(k)')
  <2>1. IsFiniteSet(Mappers(k)) /\ Cardinality(Mappers(k)) \in Nat /\ mapped[k] = Cardinality(Mappers(k))
    BY MappersAreFinite DEF MapInv
  <2>2. CASE k = m
    <3>1. Mappers(k)' = Mappers(k) \cup {o} /\ o \notin Mappers(k)
      BY <2>2, NullIsApart DEF Mappers
    <3>2. Cardinality(Mappers(k)') = Cardinality(Mappers(k)) + 1
      BY <2>1, <3>1, FS_AddElement
    <3> QED BY <1>1, <2>1, <2>2, <3>2
  <2>3. CASE k # m
    <3>1. Mappers(k)' = Mappers(k)
      BY <2>3, NullIsApart DEF Mappers
    <3> QED BY <1>1, <2>1, <2>3, <3>1
  <2> QED BY <2>2, <2>3
<1> QED BY <1>1, <1>2 DEF MapInv

\* munmap is called for an object that has a mapping; p takes over what o had
\* mapped from p, if p is another one.
LEMMA Unmapping ==
  ASSUME DmaTypes, MapInv, NEW o \in Objects, mapped' = Dma!Unmapped(o),
         NEW p \in Objects, objects'[p].ptr = Dma!None,
         p # o => objects'[o].ptr = objects[p].ptr,
         \A q \in Objects \ {o, p} : objects'[q].ptr = objects[q].ptr
  PROVE  MapInv' /\ mapped' \in [Memories -> Int]
<1>1. mapped \in [Memories -> Int] /\ objects[o].ptr \in Memories \cup {0} /\ 0 \notin Memories
  BY NullIsApart DEF DmaTypes, KernelTypes, ObjectTypes, DmaObject, MemoryOrNone
<1>2. /\ mapped' \in [Memories -> Int]
      /\ \A k \in Memories : mapped'[k] = IF objects[o].ptr = k THEN mapped[k] - 1 ELSE mapped[k]
  BY <1>1, NullIsApart DEF Dma!Unmapped
<1>3. ASSUME NEW k \in Memories PROVE mapped'[k] = Cardinality(Mappers(k)')
  <2>1. IsFiniteSet(Mappers(k)) /\ Cardinality(Mappers(k)) \in Nat /\ mapped[k] = Cardinality(Mappers(k))
    BY MappersAreFinite DEF MapInv
  <2> DEFINE rest == Mappers(k) \ {o}
  <2>6. IsFiniteSet(rest) /\ Cardinality(rest) = IF o \in Mappers(k) THEN Cardinality(Mappers(k)) - 1
                                                  ELSE Cardinality(Mappers(k))
    BY <2>1, FS_RemoveElement
  <2>2. /\ IsFiniteSet(rest) /\ Cardinality(rest) \in Int
        /\ Cardinality(rest) = IF o \in Mappers(k) THEN Cardinality(Mappers(k)) - 1 ELSE Cardinality(Mappers(k))
    BY <2>1, <2>6
  <2>3. mapped'[k] = Cardinality(rest)
    BY <1>1, <1>2, <2>1, <2>2 DEF Mappers
  <2>4. CASE p = o \/ objects[p].ptr # k
    <3>1. Mappers(k)' = rest
      BY <1>1, <2>4, NullIsApart DEF Mappers
    <3> QED BY <2>3, <3>1
  <2>5. CASE p # o /\ objects[p].ptr = k
    <3> DEFINE others == rest \ {p}
    <3>1. p \in rest /\ o \notin others
      BY <2>5 DEF Mappers
    <3>2. IsFiniteSet(others) /\ Cardinality(others) = Cardinality(rest) - 1
      BY <2>2, <3>1, FS_RemoveElement
    <3>3. Cardinality(others \cup {o}) = Cardinality(others) + 1
      BY <3>1, <3>2, FS_AddElement
    <3>4. Mappers(k)' = others \cup {o}
      BY <1>1, <2>5, NullIsApart DEF Mappers
    <3> QED BY <2>2, <2>3, <3>2, <3>3, <3>4
  <2> QED BY <2>4, <2>5
<1> QED BY <1>2, <1>3 DEF MapInv

LEMMA MappingsStay ==
  ASSUME MapInv, mapped' = mapped, \A o \in Objects : objects'[o].ptr = objects[o].ptr
  PROVE  MapInv'
<1>1. \A m \in Memories : Mappers(m)' = Mappers(m)
  BY DEF Mappers
<1> QED BY <1>1 DEF MapInv

\* A step that leaves alone who has which handle and which descriptor.
LEMMA HoldersStay ==
  ASSUME HandleInv, FileInv, UNCHANGED <<handles, files, unclosed, lent>>, making'.handle = making.handle,
         \A o \in Objects : /\ objects'[o].alive = objects[o].alive
                            /\ objects'[o].isImported = objects[o].isImported
                            /\ objects'[o].handle = objects[o].handle
                            /\ objects'[o].primeFd = objects[o].primeFd
  PROVE  HandleInv' /\ FileInv'
<1>1. Dma!Owners' = Dma!Owners
  BY DEF Dma!Owners, Dma!Alive
<1>2. \A o \in Dma!Owners : objects'[o].handle = objects[o].handle /\ objects'[o].primeFd = objects[o].primeFd
  BY DEF Dma!Owners
<1>3. HandleInv'
  BY <1>1, <1>2 DEF HandleInv
<1>4. FileInv'
  BY <1>1, <1>2 DEF FileInv
<1> QED BY <1>3, <1>4

LEMMA LendKeeps ==
  ASSUME DmaInv, Dma!Lend
  PROVE  DmaInv'
<1> DEFINE n == Dma!LowestFree(files)
<1>1. n \in Numbers /\ files[n] = Dma!None
  BY FreeNumber DEF Dma!Lend, Dma!Room
<1> HIDE DEF n
<1>2. /\ files' = [files EXCEPT ![n] = born + 1] /\ lent' = lent \cup {n} /\ born' = born + 1
      /\ born + 1 \in Memories /\ UNCHANGED <<handles, mapped, unclosed, objects, views, making>>
  BY DEF Dma!Lend, n
<1>3. /\ handles \in [Numbers -> MemoryOrNone] /\ files \in [Numbers -> MemoryOrNone]
      /\ mapped \in [Memories -> Int] /\ born \in Nat
      /\ unclosed \subseteq Numbers /\ lent \subseteq Numbers /\ HandleInv /\ FileInv /\ MapInv
  BY DEF DmaInv, DmaTypes, KernelTypes
<1>4. born + 1 \in MemoryOrNone /\ born + 1 # Dma!None /\ born + 1 \in Nat
  BY <1>2, <1>3, NullIsApart DEF MemoryOrNone
<1>5. KernelTypes'
  BY <1>1, <1>2, <1>3, <1>4 DEF KernelTypes
<1>6. ObjectTypes' /\ ViewTypes' /\ MakingTypes'
  BY <1>2 DEF DmaInv, DmaTypes, ObjectTypes, ViewTypes, MakingTypes, Refs
<1>7. HandleInv' /\ MapInv'
  BY <1>2, <1>3 DEF HandleInv, MapInv, Mappers, Dma!Owners, Dma!Alive
<1>8. /\ \A k \in Numbers : files'[k] = IF k = n THEN born + 1 ELSE files[k]
      /\ Dma!Owners' = Dma!Owners /\ objects' = objects
      /\ \A o \in Dma!Owners : objects[o].primeFd \in Refs
  BY <1>2, <1>3 DEF Dma!Owners, Dma!Alive, DmaInv, DmaTypes, ObjectTypes, DmaObject
<1>9. FileInv'
  BY <1>1, <1>2, <1>3, <1>4, <1>8 DEF FileInv, Refs
<1> QED BY <1>5, <1>6, <1>7, <1>9 DEF DmaInv, DmaTypes

LEMMA TakeBackKeeps ==
  ASSUME DmaInv, NEW f \in Numbers, Dma!TakeBack(f)
  PROVE  DmaInv'
<1>1. /\ f \in lent /\ lent' = lent \ {f} /\ files' = [files EXCEPT ![f] = Dma!None]
      /\ UNCHANGED <<handles, mapped, born, unclosed, objects, views, making>>
  BY DEF Dma!TakeBack
<1>2. /\ handles \in [Numbers -> MemoryOrNone] /\ files \in [Numbers -> MemoryOrNone]
      /\ mapped \in [Memories -> Int] /\ born \in Nat
      /\ unclosed \subseteq Numbers /\ lent \subseteq Numbers /\ HandleInv /\ FileInv /\ MapInv
  BY DEF DmaInv, DmaTypes, KernelTypes
<1>3. KernelTypes'
  BY <1>1, <1>2 DEF KernelTypes, MemoryOrNone
<1>4. ObjectTypes' /\ ViewTypes' /\ MakingTypes'
  BY <1>1 DEF DmaInv, DmaTypes, ObjectTypes, ViewTypes, MakingTypes, Refs
<1>5. HandleInv' /\ MapInv'
  BY <1>1, <1>2 DEF HandleInv, MapInv, Mappers, Dma!Owners, Dma!Alive
<1>6. /\ \A k \in Numbers : files'[k] = IF k = f THEN Dma!None ELSE files[k]
      /\ Dma!Owners' = Dma!Owners /\ objects' = objects
      /\ \A o \in Dma!Owners : objects[o].primeFd \in Refs
  BY <1>1, <1>2 DEF Dma!Owners, Dma!Alive, DmaInv, DmaTypes, ObjectTypes, DmaObject
<1>7. FileInv'
  BY <1>1, <1>2, <1>6 DEF FileInv, Refs
<1> QED BY <1>3, <1>4, <1>5, <1>7 DEF DmaInv, DmaTypes

\* The parts of the invariant, for the steps below.
LEMMA DmaFacts ==
  ASSUME DmaInv
  PROVE  /\ handles \in [Numbers -> MemoryOrNone] /\ files \in [Numbers -> MemoryOrNone]
         /\ mapped \in [Memories -> Int] /\ born \in Nat
         /\ unclosed \subseteq Numbers /\ lent \subseteq Numbers
         /\ \A o \in Objects : objects[o].handle \in Refs /\ objects[o].primeFd \in Refs
         /\ making.handle \in Refs
         /\ Dma!Owners \subseteq Objects
BY DEF DmaInv, DmaTypes, KernelTypes, ObjectTypes, MakingTypes, DmaObject, Dma!Owners

LEMMA CreateKeeps ==
  ASSUME DmaInv, \/ Dma!Misfit
                 \/ \E o \in Objects : Dma!Create(o)
  PROVE  DmaInv'
<1>1. UNCHANGED <<handles, files, mapped, born, unclosed, lent, objects, views>>
  BY DEF Dma!Misfit, Dma!Create, Dma!kernel
<1>2. making.handle = Dma!None /\ making'.handle = Dma!None /\ MakingTypes'
  <2>1. CASE Dma!Misfit
    <3>1. MakingTypes /\ Dma!NotMaking \in [object : Objects \cup {Dma!None}, attempt : Int, handle : Refs]
      BY <2>1 DEF DmaInv, DmaTypes, Dma!NotMaking, Refs
    <3>2. [making EXCEPT !.attempt = @ + 1] \in [object : Objects \cup {Dma!None}, attempt : Int, handle : Refs]
      BY <3>1 DEF MakingTypes
    <3>3. making.handle = Dma!None /\ (making' = Dma!NotMaking \/ making' = [making EXCEPT !.attempt = @ + 1])
      BY <2>1 DEF Dma!Misfit, Dma!Trying
    <3>4. /\ making' \in [object : Objects \cup {Dma!None}, attempt : Int, handle : Refs]
          /\ making'.handle = Dma!None /\ making'.object \in {making.object, Dma!None}
      BY <3>1, <3>2, <3>3 DEF Dma!NotMaking, MakingTypes
    <3> QED BY <1>1, <3>1, <3>3, <3>4 DEF MakingTypes, Refs
  <2>2. ASSUME NEW o \in Objects, Dma!Create(o) PROVE making.handle = Dma!None /\ making'.handle = Dma!None /\ MakingTypes'
    BY <1>1, <2>2 DEF Dma!Create, Dma!NotMaking, Dma!Alive, MakingTypes, Refs
  <2> QED BY <2>1, <2>2
<1>3. KernelTypes' /\ ObjectTypes' /\ ViewTypes'
  BY <1>1 DEF DmaInv, DmaTypes, KernelTypes, ObjectTypes, ViewTypes
<1>4. HandleInv' /\ FileInv' /\ MapInv'
  BY <1>1, <1>2, HoldersStay, MappingsStay DEF DmaInv
<1> QED BY <1>2, <1>3, <1>4 DEF DmaInv, DmaTypes

LEMMA FitsKeeps ==
  ASSUME DmaInv, Dma!Fits
  PROVE  DmaInv'
<1> DEFINE n == Dma!LowestFree(handles)
<1>1. n \in Numbers /\ handles[n] = Dma!None
  BY FreeNumber DEF Dma!Fits, Dma!Room
<1> HIDE DEF n
<1>2. /\ handles' = [handles EXCEPT ![n] = born + 1] /\ making' = [making EXCEPT !.handle = n]
      /\ born' = born + 1 /\ born + 1 \in Memories /\ making.object # Dma!None /\ making.handle = Dma!None
      /\ UNCHANGED <<files, mapped, unclosed, lent, objects, views>>
  BY DEF Dma!Fits, Dma!Trying, n
<1>3. KernelTypes /\ MakingTypes /\ HandleInv /\ FileInv /\ MapInv
  BY DEF DmaInv, DmaTypes
<1>4. born + 1 \in MemoryOrNone /\ born + 1 # Dma!None /\ born + 1 \in Nat
  BY <1>2, NullIsApart DEF MemoryOrNone
<1>5. KernelTypes'
  BY <1>1, <1>2, <1>3, <1>4 DEF KernelTypes
<1>6. making'.handle = n /\ making'.object = making.object /\ MakingTypes'
  BY <1>1, <1>2, <1>3 DEF MakingTypes, Refs
<1>7. ObjectTypes' /\ ViewTypes'
  BY <1>2 DEF DmaInv, DmaTypes, ObjectTypes, ViewTypes
<1>8. FileInv' /\ MapInv'
  BY <1>2, <1>3 DEF FileInv, MapInv, Mappers, Dma!Owners, Dma!Alive
<1>9. /\ \A k \in Numbers : handles'[k] = IF k = n THEN born + 1 ELSE handles[k]
      /\ Dma!Owners' = Dma!Owners /\ objects' = objects /\ unclosed' = unclosed
  BY <1>2, DmaFacts DEF Dma!Owners, Dma!Alive
<1>10. HandleInv'
  <2>1. ASSUME NEW o \in Dma!Owners, objects[o].handle # Dma!None
        PROVE  /\ handles'[objects[o].handle] # Dma!None
               /\ objects[o].handle # n /\ objects[o].handle \notin unclosed
               /\ \A p \in Dma!Owners : objects[p].handle = objects[o].handle => p = o
    BY <1>1, <1>3, <1>9, <2>1, DmaFacts DEF HandleInv, Refs
  <2>2. handles'[n] # Dma!None /\ n \notin unclosed
    BY <1>1, <1>3, <1>4, <1>9 DEF HandleInv
  <2>3. \A k \in unclosed : handles'[k] # Dma!None
    BY <1>3, <1>4, <1>9, DmaFacts DEF HandleInv
  <2>4. ASSUME NEW k \in Numbers, handles'[k] # Dma!None
        PROVE  k \in unclosed \/ n = k \/ \E o \in Dma!Owners : objects[o].handle = k
    BY <1>2, <1>3, <1>9, <2>4, NullIsApart DEF HandleInv
  <2> QED BY <1>6, <1>9, <2>1, <2>2, <2>3, <2>4 DEF HandleInv
<1> QED BY <1>5, <1>6, <1>7, <1>8, <1>10 DEF DmaInv, DmaTypes

LEMMA ExportFailsKeeps ==
  ASSUME DmaInv, Dma!ExportFails
  PROVE  DmaInv'
<1>1. /\ making.handle # Dma!None /\ making' = Dma!NotMaking
      /\ handles' = [handles EXCEPT ![making.handle] = Dma!None]
      /\ UNCHANGED <<files, mapped, born, unclosed, lent, objects, views>>
  BY DEF Dma!ExportFails
<1>2. KernelTypes /\ MakingTypes /\ HandleInv /\ FileInv /\ MapInv
  BY DEF DmaInv, DmaTypes
<1>3. KernelTypes'
  BY <1>1, <1>2 DEF KernelTypes, MemoryOrNone
<1>4. making'.handle = Dma!None /\ making'.object = Dma!None /\ MakingTypes'
  BY <1>1 DEF MakingTypes, Refs, Dma!NotMaking
<1>5. ObjectTypes' /\ ViewTypes'
  BY <1>1 DEF DmaInv, DmaTypes, ObjectTypes, ViewTypes
<1>6. FileInv' /\ MapInv'
  BY <1>1, <1>2 DEF FileInv, MapInv, Mappers, Dma!Owners, Dma!Alive
<1>7. /\ making.handle \in Numbers
      /\ \A k \in Numbers : handles'[k] = IF k = making.handle THEN Dma!None ELSE handles[k]
      /\ Dma!Owners' = Dma!Owners /\ objects' = objects /\ unclosed' = unclosed
  BY <1>1, DmaFacts DEF Dma!Owners, Dma!Alive, Refs
<1>8. HandleInv'
  BY <1>1, <1>2, <1>4, <1>7, DmaFacts DEF HandleInv, Refs
<1> QED BY <1>3, <1>4, <1>5, <1>6, <1>8 DEF DmaInv, DmaTypes

\* A new object in a place that is free.
LEMMA NewObjects ==
  ASSUME DmaInv, NEW o \in Objects, ~objects[o].alive, NEW fd \in Refs, NEW h \in Refs, NEW foreign \in BOOLEAN,
         objects' = [objects EXCEPT ![o] = Dma!NewObject(fd, h, foreign)]
  PROVE  /\ ObjectTypes' /\ objects'[o] = Dma!NewObject(fd, h, foreign)
         /\ \A p \in Objects \ {o} : objects'[p] = objects[p]
         /\ \A p \in Objects : objects'[p].ptr = objects[p].ptr
         /\ o \notin Dma!Owners
         /\ Dma!Owners' = Dma!Owners \cup (IF foreign THEN {} ELSE {o})
<1> DEFINE new == Dma!NewObject(fd, h, foreign)
<1>1. /\ new \in DmaObject /\ new.alive /\ new.ptr = Dma!None /\ new.isImported = foreign
  BY DEF Dma!NewObject, DmaObject, MemoryOrNone
<1>2. objects \in [Objects -> DmaObject] /\ Blank(objects[o])
      /\ \A p \in Objects : ~objects[p].alive => Blank(objects[p])
  BY DEF DmaInv, DmaTypes, ObjectTypes
<1> HIDE DEF new
<1>3. /\ objects' \in [Objects -> DmaObject] /\ objects'[o] = new
      /\ \A p \in Objects \ {o} : objects'[p] = objects[p]
  BY <1>1, <1>2 DEF new
<1>4. objects[o].ptr = Dma!None /\ \A p \in Objects : objects'[p].ptr = objects[p].ptr
  BY <1>1, <1>2, <1>3 DEF Blank
<1>6. ObjectTypes'
  BY <1>1, <1>2, <1>3 DEF ObjectTypes
<1>5. o \notin Dma!Owners /\ Dma!Owners' = Dma!Owners \cup (IF foreign THEN {} ELSE {o})
  BY <1>1, <1>3 DEF Dma!Owners, Dma!Alive
<1> QED BY <1>3, <1>4, <1>5, <1>6 DEF new

LEMMA ExportKeeps ==
  ASSUME DmaInv, Dma!Export
  PROVE  DmaInv'
<1> DEFINE fd == Dma!LowestFree(files)
           h == making.handle
           o == making.object
<1>1. fd \in Numbers /\ files[fd] = Dma!None
  BY FreeNumber DEF Dma!Export, Dma!Room
<1> HIDE DEF fd
<1>2. /\ h # Dma!None /\ making' = Dma!NotMaking /\ files' = [files EXCEPT ![fd] = handles[h]]
      /\ objects' = [objects EXCEPT ![o] = Dma!NewObject(fd, h, FALSE)]
      /\ UNCHANGED <<handles, mapped, born, unclosed, lent, views>>
  BY DEF Dma!Export, fd
<1>3. KernelTypes /\ MakingTypes /\ HandleInv /\ FileInv /\ MapInv
  BY DEF DmaInv, DmaTypes
<1>4. o \in Objects /\ ~objects[o].alive /\ fd \in Refs /\ h \in Refs /\ h \in Numbers /\ handles[h] # Dma!None
  BY <1>1, <1>2, <1>3 DEF MakingTypes, Refs, HandleInv
<1> HIDE DEF h, o
<1>5. /\ ObjectTypes' /\ objects'[o] = Dma!NewObject(fd, h, FALSE)
      /\ \A p \in Objects \ {o} : objects'[p] = objects[p]
      /\ \A p \in Objects : objects'[p].ptr = objects[p].ptr
      /\ o \notin Dma!Owners /\ Dma!Owners' = Dma!Owners \cup {o}
  BY <1>2, <1>4, NewObjects
<1>6. /\ objects'[o].handle = h /\ objects'[o].primeFd = fd /\ objects'[o].alive
      /\ \A p \in Dma!Owners : objects'[p].handle = objects[p].handle /\ objects'[p].primeFd = objects[p].primeFd
  BY <1>5, DmaFacts DEF Dma!NewObject
<1>7. KernelTypes' /\ MapInv'
  BY <1>1, <1>2, <1>3, <1>4, <1>5, MappingsStay DEF KernelTypes
<1>8. making'.handle = Dma!None /\ making'.object = Dma!None /\ MakingTypes'
  BY <1>2 DEF MakingTypes, Refs, Dma!NotMaking
<1>9. ViewTypes'
  BY <1>2 DEF DmaInv, DmaTypes, ViewTypes
<1>10. HandleInv'
  <2>1. ASSUME NEW p \in Dma!Owners', objects'[p].handle # Dma!None
        PROVE  /\ handles[objects'[p].handle] # Dma!None
               /\ objects'[p].handle # Dma!None /\ objects'[p].handle \notin unclosed
               /\ \A q \in Dma!Owners' : objects'[q].handle = objects'[p].handle => q = p
    <3>1. /\ \A q \in Dma!Owners : objects[q].handle # h
          /\ h # Dma!None /\ handles[h] # Dma!None /\ h \notin unclosed
      BY <1>2, <1>3, <1>4 DEF HandleInv, h
    <3>2. /\ p = o \/ p \in Dma!Owners
          /\ \A q \in Dma!Owners' : q = o \/ q \in Dma!Owners
      BY <1>5
    <3>3. CASE p = o
      BY <1>6, <3>1, <3>2, <3>3
    <3>4. CASE p \in Dma!Owners
      BY <1>3, <1>6, <2>1, <3>1, <3>2, <3>4 DEF HandleInv
    <3> QED BY <3>2, <3>3, <3>4
  <2>2. \A k \in unclosed : handles[k] # Dma!None
    BY <1>3 DEF HandleInv
  <2>3. ASSUME NEW k \in Numbers, handles[k] # Dma!None
        PROVE  k \in unclosed \/ \E p \in Dma!Owners' : objects'[p].handle = k
    <3>1. k \in unclosed \/ h = k \/ \E p \in Dma!Owners : objects[p].handle = k
      BY <1>3, <2>3 DEF HandleInv, h
    <3>2. CASE h = k
      BY <3>2, <1>5, <1>6
    <3>3. ASSUME NEW p \in Dma!Owners, objects[p].handle = k PROVE p \in Dma!Owners' /\ objects'[p].handle = k
      BY <3>3, <1>5, <1>6
    <3> QED BY <3>1, <3>2, <3>3
  <2> QED BY <1>2, <1>8, <2>1, <2>2, <2>3 DEF HandleInv
<1>11. \A k \in Numbers : files'[k] = IF k = fd THEN handles[h] ELSE files[k]
  BY <1>2, DmaFacts
<1>12. FileInv'
  <2>1. ASSUME NEW p \in Dma!Owners', objects'[p].primeFd # Dma!None
        PROVE  /\ files'[objects'[p].primeFd] # Dma!None /\ objects'[p].primeFd \notin lent
               /\ \A q \in Dma!Owners' : objects'[q].primeFd = objects'[p].primeFd => q = p
    <3>1. /\ \A q \in Dma!Owners : objects[q].primeFd # fd
          /\ files'[fd] # Dma!None /\ fd \notin lent
      BY <1>1, <1>3, <1>4, <1>11, NullIsApart DEF FileInv
    <3>2. /\ p = o \/ p \in Dma!Owners
          /\ \A q \in Dma!Owners' : q = o \/ q \in Dma!Owners
      BY <1>5
    <3>3. CASE p = o
      BY <1>6, <3>1, <3>2, <3>3
    <3>4. CASE p \in Dma!Owners
      <4>1. objects'[p].primeFd = objects[p].primeFd /\ objects[p].primeFd \in Numbers
        BY <1>6, <2>1, <3>4, DmaFacts DEF Refs
      <4>2. /\ files[objects[p].primeFd] # Dma!None /\ objects[p].primeFd \notin lent
            /\ \A q \in Dma!Owners : objects[q].primeFd = objects[p].primeFd => q = p
        BY <1>3, <2>1, <3>4, <4>1 DEF FileInv
      <4> QED BY <1>6, <1>11, <3>1, <3>2, <3>4, <4>1, <4>2
    <3> QED BY <3>2, <3>3, <3>4
  <2>2. \A k \in lent : files'[k] # Dma!None
    BY <1>3, <1>4, <1>11, DmaFacts DEF FileInv
  <2>3. ASSUME NEW k \in Numbers, files'[k] # Dma!None
        PROVE  k \in lent \/ \E p \in Dma!Owners' : objects'[p].primeFd = k
    <3>1. k = fd \/ k \in lent \/ \E p \in Dma!Owners : objects[p].primeFd = k
      BY <1>3, <1>11, <2>3 DEF FileInv
    <3>2. CASE k = fd
      BY <1>5, <1>6, <3>2
    <3>3. ASSUME NEW p \in Dma!Owners, objects[p].primeFd = k PROVE p \in Dma!Owners' /\ objects'[p].primeFd = k
      BY <1>5, <1>6, <3>3
    <3> QED BY <3>1, <3>2, <3>3
  <2> QED BY <1>2, <2>1, <2>2, <2>3 DEF FileInv
<1> QED BY <1>5, <1>7, <1>8, <1>9, <1>10, <1>12 DEF DmaInv, DmaTypes

LEMMA ImportKeeps ==
  ASSUME DmaInv, NEW o \in Objects, NEW fd \in Numbers, Dma!ImportFromFD(o, fd)
  PROVE  DmaInv'
<1> DEFINE known == {n \in Numbers : handles[n] = files[fd]}
           h == IF known # {} THEN CHOOSE k \in known : TRUE ELSE Dma!LowestFree(handles)
<1>1. /\ making = Dma!NotMaking /\ ~objects[o].alive /\ files[fd] # Dma!None
      /\ known # {} \/ Dma!Room(handles)
      /\ handles' = [handles EXCEPT ![h] = files[fd]]
      /\ unclosed' = IF known # {} THEN unclosed ELSE unclosed \cup {h}
      /\ objects' = [objects EXCEPT ![o] = Dma!NewObject(fd, h, TRUE)]
      /\ UNCHANGED <<files, mapped, born, lent, views, making>>
  BY DEF Dma!ImportFromFD, Dma!Alive
<1>2. known # {} => h \in Numbers /\ handles[h] = files[fd]
  <2>1. ASSUME known # {} PROVE h \in known
    BY <2>1
  <2> QED BY <2>1
<1>3. known = {} => h \in Numbers /\ handles[h] = Dma!None
  BY <1>1, FreeNumber DEF Dma!Room
<1>4. KernelTypes /\ HandleInv /\ FileInv /\ MapInv /\ MakingTypes
  BY DEF DmaInv, DmaTypes
<1>5. h \in Numbers /\ h \in Refs /\ fd \in Refs /\ files[fd] \in MemoryOrNone
  BY <1>2, <1>3, <1>4 DEF Refs, KernelTypes
<1> DEFINE new == known = {}
<1>6. /\ \A k \in Numbers : handles'[k] = IF new /\ k = h THEN files[fd] ELSE handles[k]
      /\ unclosed' = unclosed \cup (IF new THEN {h} ELSE {})
      /\ new => handles[h] = Dma!None
      /\ handles' \in [Numbers -> MemoryOrNone]
  BY <1>1, <1>2, <1>3, <1>4, <1>5 DEF KernelTypes
<1> HIDE DEF new, h
<1>7. KernelTypes'
  BY <1>1, <1>4, <1>5, <1>6 DEF KernelTypes
<1>8. /\ ObjectTypes' /\ objects'[o] = Dma!NewObject(fd, h, TRUE)
      /\ \A p \in Objects \ {o} : objects'[p] = objects[p]
      /\ \A p \in Objects : objects'[p].ptr = objects[p].ptr
      /\ o \notin Dma!Owners /\ Dma!Owners' = Dma!Owners
  BY <1>1, <1>5, NewObjects
<1>9. \A p \in Dma!Owners : objects'[p] = objects[p]
  BY <1>8, DmaFacts
<1>10. FileInv'
  <2>1. Dma!Owners' = Dma!Owners /\ \A p \in Dma!Owners : objects'[p].primeFd = objects[p].primeFd
    BY <1>8, <1>9
  <2>2. files' = files /\ lent' = lent /\ FileInv
    BY <1>1, <1>4
  <2> QED BY <2>1, <2>2 DEF FileInv
<1>11. making.handle = Dma!None /\ making.object = Dma!None /\ MakingTypes' /\ ViewTypes' /\ MapInv'
  <2>1. making.handle = Dma!None /\ making.object = Dma!None
    BY <1>1 DEF Dma!NotMaking
  <2> QED BY <2>1, <1>1, <1>4, <1>8, MappingsStay DEF MakingTypes, Refs, ViewTypes, DmaInv, DmaTypes
<1>12. HandleInv'
  <2>1. ASSUME NEW p \in Dma!Owners, objects[p].handle # Dma!None
        PROVE  /\ handles'[objects[p].handle] # Dma!None
               /\ objects[p].handle \notin unclosed'
               /\ \A q \in Dma!Owners : objects[q].handle = objects[p].handle => q = p
    <3>1. objects[p].handle \in Numbers
      BY <2>1, DmaFacts DEF Refs
    <3> QED BY <1>1, <1>4, <1>6, <2>1, <3>1 DEF HandleInv
  <2>2. \A k \in unclosed' : handles'[k] # Dma!None
    BY <1>1, <1>4, <1>5, <1>6, DmaFacts DEF HandleInv
  <2>3. ASSUME NEW k \in Numbers, handles'[k] # Dma!None
        PROVE  k \in unclosed' \/ \E p \in Dma!Owners : objects[p].handle = k
    <3>1. k \in unclosed \/ (new /\ k = h) \/ making.handle = k \/ \E p \in Dma!Owners : objects[p].handle = k
      BY <1>4, <1>6, <2>3 DEF HandleInv
    <3> QED BY <1>6, <1>11, <3>1, NullIsApart
  <2>4. Dma!Owners' = Dma!Owners /\ making' = making /\ \A p \in Dma!Owners : objects'[p].handle = objects[p].handle
    BY <1>1, <1>8, <1>9
  <2> QED BY <1>11, <2>1, <2>2, <2>3, <2>4 DEF HandleInv
<1> QED BY <1>7, <1>8, <1>10, <1>11, <1>12 DEF DmaInv, DmaTypes

\* Another pointer for one object.
LEMMA Pointers ==
  ASSUME DmaInv, NEW o \in Objects, NEW m \in MemoryOrNone, m # Dma!None => objects[o].alive,
         objects' = [objects EXCEPT ![o].ptr = m]
  PROVE  /\ ObjectTypes' /\ objects'[o].ptr = m
         /\ \A p \in Objects \ {o} : objects'[p].ptr = objects[p].ptr
         /\ \A p \in Objects : /\ objects'[p].alive = objects[p].alive
                                /\ objects'[p].isImported = objects[p].isImported
                                /\ objects'[p].handle = objects[p].handle
                                /\ objects'[p].primeFd = objects[p].primeFd
<1> DEFINE new == [objects[o] EXCEPT !.ptr = m]
<1>1. objects \in [Objects -> DmaObject] /\ \A p \in Objects : ~objects[p].alive => Blank(objects[p])
  BY DEF DmaInv, DmaTypes, ObjectTypes
<1>2. /\ new \in DmaObject /\ new.ptr = m /\ new.alive = objects[o].alive
      /\ new.isImported = objects[o].isImported
      /\ new.handle = objects[o].handle /\ new.primeFd = objects[o].primeFd
  BY <1>1 DEF DmaObject
<1>3. ~objects[o].alive => Blank(new)
  BY <1>1, <1>2 DEF Blank
<1> HIDE DEF new
<1>4. objects' = [objects EXCEPT ![o] = new]
  BY DEF new
<1>5. objects' \in [Objects -> DmaObject] /\ objects'[o] = new /\ \A p \in Objects \ {o} : objects'[p] = objects[p]
  BY <1>1, <1>2, <1>4
<1>6. ObjectTypes'
  BY <1>1, <1>2, <1>3, <1>5 DEF ObjectTypes
<1> QED BY <1>2, <1>5, <1>6

LEMMA MapKeeps ==
  ASSUME DmaInv, NEW o \in Objects, Dma!Map(o)
  PROVE  DmaInv'
<1> DEFINE m == files[objects[o].primeFd]
<1>1. /\ objects[o].alive /\ objects[o].primeFd # Dma!None /\ objects[o].ptr = Dma!None /\ m # Dma!None
      /\ mapped' = [mapped EXCEPT ![m] = @ + 1] /\ objects' = [objects EXCEPT ![o].ptr = m]
      /\ UNCHANGED <<handles, files, born, unclosed, lent, views, making>>
  BY DEF Dma!Map, Dma!Alive
<1>2. m \in Memories
  BY <1>1, DmaFacts DEF Refs, MemoryOrNone
<1> HIDE DEF m
<1>3. /\ ObjectTypes' /\ objects'[o].ptr = m
      /\ \A p \in Objects \ {o} : objects'[p].ptr = objects[p].ptr
      /\ \A p \in Objects : /\ objects'[p].alive = objects[p].alive
                             /\ objects'[p].isImported = objects[p].isImported
                             /\ objects'[p].handle = objects[p].handle
                             /\ objects'[p].primeFd = objects[p].primeFd
  BY <1>1, <1>2, Pointers DEF MemoryOrNone
<1>4. MapInv' /\ mapped' \in [Memories -> Int]
  BY <1>1, <1>2, <1>3, Mapping DEF DmaInv
<1>5. HandleInv' /\ FileInv'
  BY <1>1, <1>3, HoldersStay DEF DmaInv
<1>6. KernelTypes'
  BY <1>1, <1>4 DEF DmaInv, DmaTypes, KernelTypes
<1>7. MakingTypes' /\ ViewTypes'
  BY <1>1, <1>3 DEF DmaInv, DmaTypes, MakingTypes, ViewTypes, Refs
<1> QED BY <1>3, <1>4, <1>5, <1>6, <1>7 DEF DmaInv, DmaTypes

\* unmap() of one object, whatever happens to the views.
LEMMA UnmapKeeps ==
  ASSUME DmaInv, NEW o \in Objects, mapped' = Dma!Unmapped(o), objects' = [objects EXCEPT ![o].ptr = Dma!None],
         UNCHANGED <<handles, files, born, unclosed, lent, making>>, ViewTypes'
  PROVE  DmaInv'
<1>1. /\ ObjectTypes' /\ objects'[o].ptr = Dma!None
      /\ \A p \in Objects \ {o} : objects'[p].ptr = objects[p].ptr
      /\ \A p \in Objects : /\ objects'[p].alive = objects[p].alive
                             /\ objects'[p].isImported = objects[p].isImported
                             /\ objects'[p].handle = objects[p].handle
                             /\ objects'[p].primeFd = objects[p].primeFd
  BY Pointers DEF MemoryOrNone
<1>2. MapInv' /\ mapped' \in [Memories -> Int]
  BY <1>1, Unmapping DEF DmaInv
<1>3. HandleInv' /\ FileInv'
  BY <1>1, HoldersStay DEF DmaInv
<1>4. KernelTypes'
  BY <1>2 DEF DmaInv, DmaTypes, KernelTypes
<1>5. MakingTypes'
  BY <1>1 DEF DmaInv, DmaTypes, MakingTypes, Refs
<1> QED BY <1>1, <1>2, <1>3, <1>4, <1>5 DEF DmaInv, DmaTypes

\* Nothing changes but views.
LEMMA ViewsKeep ==
  ASSUME DmaInv, UNCHANGED <<handles, files, mapped, born, unclosed, lent, objects, making>>, ViewTypes'
  PROVE  DmaInv'
<1>1. KernelTypes' /\ ObjectTypes' /\ MakingTypes'
  BY DEF DmaInv, DmaTypes, KernelTypes, ObjectTypes, MakingTypes, Refs
<1>2. HandleInv' /\ FileInv' /\ MapInv'
  BY HoldersStay, MappingsStay DEF DmaInv
<1> QED BY <1>1, <1>2 DEF DmaInv, DmaTypes

LEMMA ViewKeeps ==
  ASSUME DmaInv, NEW o \in Objects, NEW v \in Views, Dma!View(v, o)
  PROVE  DmaInv'
<1>1. /\ UNCHANGED <<handles, files, mapped, born, unclosed, lent, objects, making>>
      /\ views' = [views EXCEPT ![v] = [owner |-> o, ptr |-> objects[o].ptr]] /\ ViewTypes
  BY DEF Dma!View, Dma!kernel, DmaInv, DmaTypes
<1>2. ViewTypes'
  BY <1>1 DEF ViewTypes
<1> QED BY <1>1, <1>2, ViewsKeep

\* The mapping that a view ends, if it has one.
LEMMA OwnerUnmaps ==
  ASSUME DmaInv, NEW v \in Views, views[v] # Dma!NoView, Dma!UnmapOwner(v),
         UNCHANGED <<handles, files, born, unclosed, lent, making>>, ViewTypes'
  PROVE  DmaInv'
<1>1. views[v].owner \in Objects
  BY DEF DmaInv, DmaTypes, ViewTypes
<1>2. CASE views[v].ptr = Dma!None
  BY <1>2, ViewsKeep DEF Dma!UnmapOwner
<1>3. CASE views[v].ptr # Dma!None
  BY <1>1, <1>3, UnmapKeeps DEF Dma!UnmapOwner
<1> QED BY <1>2, <1>3

LEMMA EndViewKeeps ==
  ASSUME DmaInv, NEW v \in Views, Dma!EndView(v)
  PROVE  DmaInv'
<1>1. /\ views[v] # Dma!NoView /\ Dma!UnmapOwner(v) /\ UNCHANGED <<handles, files, born, unclosed, lent, making>>
      /\ views' = [views EXCEPT ![v] = Dma!NoView] /\ ViewTypes
      /\ Dma!NoView = [owner |-> Dma!NoView.owner, ptr |-> Dma!NoView.ptr]
  BY DEF Dma!EndView, DmaInv, DmaTypes, Dma!NoView
<1>2. ViewTypes'
  BY <1>1 DEF ViewTypes
<1> QED BY <1>1, <1>2, OwnerUnmaps

LEMMA MoveViewKeeps ==
  ASSUME DmaInv, NEW v \in Views, NEW w \in Views, Dma!MoveView(v, w)
  PROVE  DmaInv'
<1>1. /\ v # w /\ views[v] # Dma!NoView /\ views[w] # Dma!NoView /\ Dma!UnmapOwner(v)
      /\ views' = [views EXCEPT ![v].ptr = views[w].ptr, ![w].ptr = Dma!None]
      /\ UNCHANGED <<handles, files, born, unclosed, lent, making>> /\ ViewTypes
  BY DEF Dma!MoveView, DmaInv, DmaTypes
<1>2. /\ views[v] = [owner |-> views[v].owner, ptr |-> views[v].ptr] /\ views[v].owner \in Objects
      /\ views[w] = [owner |-> views[w].owner, ptr |-> views[w].ptr] /\ views[w].owner \in Objects
  BY <1>1 DEF ViewTypes
<1> DEFINE first == [owner |-> views[v].owner, ptr |-> views[w].ptr]
           second == [owner |-> views[w].owner, ptr |-> Dma!None]
<1>3. [views[v] EXCEPT !.ptr = views[w].ptr] = first /\ [views[w] EXCEPT !.ptr = Dma!None] = second
  BY <1>2
<1>4. /\ views' = [u \in Views |-> views'[u]] /\ views'[v] = first /\ views'[w] = second
      /\ \A u \in Views \ {v, w} : views'[u] = views[u]
  BY <1>1, <1>3 DEF ViewTypes
<1>5. ViewTypes'
  BY <1>1, <1>2, <1>4 DEF ViewTypes
<1> QED BY <1>1, <1>5, OwnerUnmaps

\* What cleanup() gives back is what an owner holds.
LEMMA CleanupEffect ==
  ASSUME DmaInv, NEW o \in Objects, Dma!Cleanup(o)
  PROVE  /\ handles' \in [Numbers -> MemoryOrNone] /\ files' \in [Numbers -> MemoryOrNone]
         /\ \A n \in Numbers : handles'[n] = IF o \in Dma!Owners /\ objects[o].handle = n THEN Dma!None ELSE handles[n]
         /\ \A n \in Numbers : files'[n] = IF o \in Dma!Owners /\ objects[o].primeFd = n THEN Dma!None ELSE files[n]
<1>1. ~objects[o].alive => Blank(objects[o])
  BY DEF DmaInv, DmaTypes, ObjectTypes
<1>2. CASE objects[o].isImported
  BY <1>2, DmaFacts DEF Dma!Cleanup, Dma!Owners
<1>3. CASE ~objects[o].isImported
  <2>1. /\ files' = [n \in Numbers |-> IF n = objects[o].primeFd THEN Dma!None ELSE files[n]]
        /\ handles' = [n \in Numbers |-> IF n = objects[o].handle THEN Dma!None ELSE handles[n]]
    BY <1>3 DEF Dma!Cleanup
  <2>2. \A n \in Numbers : n = objects[o].handle \/ n = objects[o].primeFd => o \in Dma!Owners
    BY <1>1, <1>3, NullIsApart DEF Blank, Dma!Owners, Dma!Alive
  <2> QED BY <2>1, <2>2, DmaFacts DEF MemoryOrNone
<1> QED BY <1>2, <1>3

LEMMA DestroyKeeps ==
  ASSUME DmaInv, NEW o \in Objects, Dma!Destroy(o)
  PROVE  DmaInv'
<1>1. /\ objects[o].alive /\ Dma!Cleanup(o) /\ objects' = [objects EXCEPT ![o] = Dma!NoObject]
      /\ mapped' = Dma!Unmapped(o) /\ UNCHANGED <<born, unclosed, lent, views, making>>
  BY DEF Dma!Destroy, Dma!Alive, Dma!Cleanup
<1>2. /\ Dma!NoObject \in DmaObject /\ ~Dma!NoObject.alive /\ Blank(Dma!NoObject)
  BY DEF Dma!NoObject, DmaObject, Refs, MemoryOrNone, Blank
<1>3. /\ KernelTypes /\ ObjectTypes /\ MakingTypes /\ ViewTypes /\ HandleInv /\ FileInv /\ MapInv
  BY DEF DmaInv, DmaTypes
<1>4. objects'[o] = Dma!NoObject /\ ObjectTypes' /\ \A p \in Objects \ {o} : objects'[p] = objects[p]
  BY <1>1, <1>2, <1>3 DEF ObjectTypes
<1>5. Dma!Owners' = Dma!Owners \ {o} /\ \A p \in Dma!Owners \ {o} : p \in Objects /\ objects'[p] = objects[p]
  BY <1>2, <1>4 DEF Dma!Owners, Dma!Alive
<1>6. MapInv' /\ mapped' \in [Memories -> Int]
  BY <1>1, <1>2, <1>4, Unmapping DEF DmaInv, Blank
<1>7. /\ handles' \in [Numbers -> MemoryOrNone] /\ files' \in [Numbers -> MemoryOrNone]
      /\ \A n \in Numbers : handles'[n] = IF o \in Dma!Owners /\ objects[o].handle = n THEN Dma!None ELSE handles[n]
      /\ \A n \in Numbers : files'[n] = IF o \in Dma!Owners /\ objects[o].primeFd = n THEN Dma!None ELSE files[n]
  BY <1>1, CleanupEffect
<1>8. KernelTypes' /\ ViewTypes'
  BY <1>1, <1>3, <1>6, <1>7 DEF KernelTypes, ViewTypes
<1>9. MakingTypes'
  BY <1>1, <1>2, <1>3, <1>4 DEF MakingTypes, Refs
<1>10. HandleInv'
  <2>1. ASSUME NEW q \in Dma!Owners \ {o}, objects[q].handle # Dma!None
        PROVE  /\ handles'[objects[q].handle] # Dma!None
               /\ objects[q].handle # making.handle /\ objects[q].handle \notin unclosed
               /\ \A r \in Dma!Owners : objects[r].handle = objects[q].handle => r = q
    <3>1. objects[q].handle \in Numbers
      BY <2>1, DmaFacts DEF Refs
    <3> QED BY <1>3, <1>7, <2>1, <3>1 DEF HandleInv
  <2>2. making.handle # Dma!None => handles'[making.handle] # Dma!None /\ making.handle \notin unclosed
    BY <1>3, <1>7, DmaFacts DEF HandleInv, Refs
  <2>3. ASSUME NEW n \in unclosed PROVE handles'[n] # Dma!None
    <3>1. n \in Numbers /\ handles[n] # Dma!None /\ n # Dma!None
      BY <1>3, DmaFacts, NullIsApart DEF HandleInv
    <3>2. ~(o \in Dma!Owners /\ objects[o].handle = n)
      BY <1>3, <3>1 DEF HandleInv
    <3> QED BY <1>7, <3>1, <3>2
  <2>4. ASSUME NEW n \in Numbers, handles'[n] # Dma!None
        PROVE  n \in unclosed \/ making.handle = n \/ \E q \in Dma!Owners \ {o} : objects[q].handle = n
    BY <1>3, <1>7, <2>4 DEF HandleInv
  <2>5. unclosed' = unclosed /\ making' = making /\ \A q \in Dma!Owners \ {o} : objects'[q].handle = objects[q].handle
    BY <1>1, <1>5
  <2> QED BY <1>5, <2>1, <2>2, <2>3, <2>4, <2>5 DEF HandleInv
<1>11. FileInv'
  <2>1. ASSUME NEW q \in Dma!Owners \ {o}, objects[q].primeFd # Dma!None
        PROVE  /\ files'[objects[q].primeFd] # Dma!None /\ objects[q].primeFd \notin lent
               /\ \A r \in Dma!Owners : objects[r].primeFd = objects[q].primeFd => r = q
    <3>1. objects[q].primeFd \in Numbers
      BY <2>1, DmaFacts DEF Refs
    <3> QED BY <1>3, <1>7, <2>1, <3>1 DEF FileInv
  <2>2. ASSUME NEW n \in lent PROVE files'[n] # Dma!None
    <3>1. n \in Numbers /\ files[n] # Dma!None /\ n # Dma!None
      BY <1>3, DmaFacts, NullIsApart DEF FileInv
    <3>2. ~(o \in Dma!Owners /\ objects[o].primeFd = n)
      BY <1>3, <3>1 DEF FileInv
    <3> QED BY <1>7, <3>1, <3>2
  <2>3. ASSUME NEW n \in Numbers, files'[n] # Dma!None
        PROVE  n \in lent \/ \E q \in Dma!Owners \ {o} : objects[q].primeFd = n
    BY <1>3, <1>7, <2>3 DEF FileInv
  <2>4. lent' = lent /\ \A q \in Dma!Owners \ {o} : objects'[q].primeFd = objects[q].primeFd
    BY <1>1, <1>5
  <2> QED BY <1>5, <2>1, <2>2, <2>3, <2>4 DEF FileInv
<1> QED BY <1>4, <1>6, <1>8, <1>9, <1>10, <1>11 DEF DmaInv, DmaTypes

LEMMA MoveKeeps ==
  ASSUME DmaInv, NEW o \in Objects, NEW p \in Objects, Dma!Move(o, p)
  PROVE  DmaInv'
<1> DEFINE empty == [Dma!NoObject EXCEPT !.alive = TRUE]
<1>1. /\ o # p /\ objects[p].alive /\ making.object # o /\ Dma!Cleanup(o)
      /\ objects' = [objects EXCEPT ![o] = objects[p], ![p] = empty]
      /\ mapped' = Dma!Unmapped(o) /\ UNCHANGED <<born, unclosed, lent, views, making>>
  BY DEF Dma!Move, Dma!Alive, Dma!Cleanup
<1>2. /\ empty \in DmaObject /\ empty.alive /\ Blank(empty)
  BY DEF Dma!NoObject, DmaObject, Refs, MemoryOrNone, Blank
<1>3. /\ KernelTypes /\ ObjectTypes /\ MakingTypes /\ ViewTypes /\ HandleInv /\ FileInv /\ MapInv
  BY DEF DmaInv, DmaTypes
<1> HIDE DEF empty
<1>4. /\ objects'[o] = objects[p] /\ objects'[p] = empty /\ ObjectTypes'
      /\ \A q \in Objects \ {o, p} : objects'[q] = objects[q]
  BY <1>1, <1>2, <1>3 DEF ObjectTypes
<1>5. MapInv' /\ mapped' \in [Memories -> Int]
  <2>1. /\ objects'[p].ptr = Dma!None /\ objects'[o].ptr = objects[p].ptr
        /\ \A q \in Objects \ {o, p} : objects'[q].ptr = objects[q].ptr
    BY <1>2, <1>4 DEF Blank
  <2> QED BY <1>1, <2>1, Unmapping DEF DmaInv
<1>6. /\ handles' \in [Numbers -> MemoryOrNone] /\ files' \in [Numbers -> MemoryOrNone]
      /\ \A n \in Numbers : handles'[n] = IF o \in Dma!Owners /\ objects[o].handle = n THEN Dma!None ELSE handles[n]
      /\ \A n \in Numbers : files'[n] = IF o \in Dma!Owners /\ objects[o].primeFd = n THEN Dma!None ELSE files[n]
  BY <1>1, CleanupEffect
<1>7. KernelTypes' /\ ViewTypes'
  BY <1>1, <1>3, <1>5, <1>6 DEF KernelTypes, ViewTypes
<1>8. MakingTypes'
  BY <1>1, <1>2, <1>3, <1>4 DEF MakingTypes, Refs
<1> DEFINE before(q) == IF q = o THEN p ELSE q
           after(q) == IF q = p THEN o ELSE q
\* What an owner holds it had before, or the object that it was moved from.
<1>9. ASSUME NEW q \in Dma!Owners', q # p
      PROVE  /\ before(q) \in Dma!Owners /\ before(q) # o /\ objects'[q] = objects[before(q)]
             /\ q = after(before(q))
  BY <1>1, <1>4, <1>9 DEF Dma!Owners, Dma!Alive
<1>10. objects'[p].handle = Dma!None /\ objects'[p].primeFd = Dma!None
  BY <1>2, <1>4 DEF Blank
<1>11. ASSUME NEW q \in Dma!Owners, q # o
       PROVE  /\ after(q) \in Dma!Owners' /\ objects'[after(q)] = objects[q]
  BY <1>1, <1>4, <1>11 DEF Dma!Owners, Dma!Alive
<1> HIDE DEF before, after
<1>12. HandleInv'
  <2>1. ASSUME NEW q \in Dma!Owners', objects'[q].handle # Dma!None
        PROVE  /\ handles'[objects'[q].handle] # Dma!None
               /\ objects'[q].handle # making.handle /\ objects'[q].handle \notin unclosed
               /\ \A r \in Dma!Owners' : objects'[r].handle = objects'[q].handle => r = q
    <3>1. q # p /\ before(q) \in Dma!Owners /\ before(q) # o /\ objects[before(q)].handle = objects'[q].handle
      BY <1>9, <1>10, <2>1
    <3>2. /\ handles[objects'[q].handle] # Dma!None
          /\ objects'[q].handle # making.handle /\ objects'[q].handle \notin unclosed
          /\ \A r \in Dma!Owners : objects[r].handle = objects'[q].handle => r = before(q)
          /\ objects'[q].handle \in Numbers
      BY <1>3, <2>1, <3>1, DmaFacts DEF HandleInv, Refs
    <3>3. handles'[objects'[q].handle] # Dma!None
      BY <1>6, <3>1, <3>2
    <3>4. ASSUME NEW r \in Dma!Owners', objects'[r].handle = objects'[q].handle PROVE r = q
      <4>1. r # p /\ before(r) = before(q)
        BY <1>9, <1>10, <2>1, <3>2, <3>4
      <4> QED BY <1>9, <3>1, <4>1
    <3> QED BY <3>2, <3>3, <3>4
  <2>2. making.handle # Dma!None => handles'[making.handle] # Dma!None /\ making.handle \notin unclosed
    BY <1>3, <1>6, DmaFacts DEF HandleInv, Refs
  <2>3. ASSUME NEW n \in unclosed PROVE handles'[n] # Dma!None
    <3>1. n \in Numbers /\ handles[n] # Dma!None /\ n # Dma!None
      BY <1>3, DmaFacts, NullIsApart DEF HandleInv
    <3>2. ~(o \in Dma!Owners /\ objects[o].handle = n)
      BY <1>3, <3>1 DEF HandleInv
    <3> QED BY <1>6, <3>1, <3>2
  <2>4. ASSUME NEW n \in Numbers, handles'[n] # Dma!None
        PROVE  n \in unclosed \/ making.handle = n \/ \E q \in Dma!Owners' : objects'[q].handle = n
    <3>1. n \in unclosed \/ making.handle = n \/ \E q \in Dma!Owners : q # o /\ objects[q].handle = n
      BY <1>3, <1>6, <2>4 DEF HandleInv
    <3> QED BY <1>11, <3>1
  <2> QED BY <1>1, <2>1, <2>2, <2>3, <2>4 DEF HandleInv
<1>13. FileInv'
  <2>1. ASSUME NEW q \in Dma!Owners', objects'[q].primeFd # Dma!None
        PROVE  /\ files'[objects'[q].primeFd] # Dma!None /\ objects'[q].primeFd \notin lent
               /\ \A r \in Dma!Owners' : objects'[r].primeFd = objects'[q].primeFd => r = q
    <3>1. q # p /\ before(q) \in Dma!Owners /\ before(q) # o /\ objects[before(q)].primeFd = objects'[q].primeFd
      BY <1>9, <1>10, <2>1
    <3>2. /\ files[objects'[q].primeFd] # Dma!None /\ objects'[q].primeFd \notin lent
          /\ \A r \in Dma!Owners : objects[r].primeFd = objects'[q].primeFd => r = before(q)
          /\ objects'[q].primeFd \in Numbers
      BY <1>3, <2>1, <3>1, DmaFacts DEF FileInv, Refs
    <3>3. files'[objects'[q].primeFd] # Dma!None
      BY <1>6, <3>1, <3>2
    <3>4. ASSUME NEW r \in Dma!Owners', objects'[r].primeFd = objects'[q].primeFd PROVE r = q
      <4>1. r # p /\ before(r) = before(q)
        BY <1>9, <1>10, <2>1, <3>2, <3>4
      <4> QED BY <1>9, <3>1, <4>1
    <3> QED BY <3>2, <3>3, <3>4
  <2>2. ASSUME NEW n \in lent PROVE files'[n] # Dma!None
    <3>1. n \in Numbers /\ files[n] # Dma!None /\ n # Dma!None
      BY <1>3, DmaFacts, NullIsApart DEF FileInv
    <3>2. ~(o \in Dma!Owners /\ objects[o].primeFd = n)
      BY <1>3, <3>1 DEF FileInv
    <3> QED BY <1>6, <3>1, <3>2
  <2>3. ASSUME NEW n \in Numbers, files'[n] # Dma!None
        PROVE  n \in lent \/ \E q \in Dma!Owners' : objects'[q].primeFd = n
    <3>1. n \in lent \/ \E q \in Dma!Owners : q # o /\ objects[q].primeFd = n
      BY <1>3, <1>6, <2>3 DEF FileInv
    <3> QED BY <1>11, <3>1
  <2> QED BY <1>1, <2>1, <2>2, <2>3 DEF FileInv
<1> QED BY <1>4, <1>5, <1>7, <1>8, <1>12, <1>13 DEF DmaInv, DmaTypes

LEMMA DmaKeeps ==
  ASSUME DmaInv, [Dma!Next]_dmaVars
  PROVE  DmaInv'
<1>1. CASE Dma!Lend
  BY <1>1, LendKeeps
<1>2. CASE Dma!Misfit
  BY <1>2, CreateKeeps
<1>3. CASE Dma!Fits
  BY <1>3, FitsKeeps
<1>4. CASE Dma!Export
  BY <1>4, ExportKeeps
<1>5. CASE Dma!ExportFails
  BY <1>5, ExportFailsKeeps
<1>6. ASSUME NEW f \in Numbers, Dma!TakeBack(f) \/ \E o \in Objects : Dma!ImportFromFD(o, f) PROVE DmaInv'
  BY <1>6, TakeBackKeeps, ImportKeeps
<1>7. ASSUME NEW o \in Objects,
             \/ Dma!Create(o) \/ Dma!Map(o) \/ Dma!Unmap(o) \/ Dma!Destroy(o)
             \/ \E p \in Objects : Dma!Move(o, p)
             \/ \E v \in Views : Dma!View(v, o)
      PROVE  DmaInv'
  <2>1. ASSUME Dma!Unmap(o) PROVE DmaInv'
    <3>1. /\ mapped' = Dma!Unmapped(o) /\ objects' = [objects EXCEPT ![o].ptr = Dma!None]
          /\ UNCHANGED <<handles, files, born, unclosed, lent, making>> /\ ViewTypes'
      BY <2>1 DEF Dma!Unmap, DmaInv, DmaTypes, ViewTypes
    <3> QED BY <3>1, UnmapKeeps
  <2> QED BY <1>7, <2>1, CreateKeeps, MapKeeps, DestroyKeeps, MoveKeeps, ViewKeeps
<1>8. ASSUME NEW v \in Views, Dma!EndView(v) \/ \E w \in Views : Dma!MoveView(v, w) PROVE DmaInv'
  BY <1>8, EndViewKeeps, MoveViewKeeps
<1>9. CASE UNCHANGED dmaVars
  <2>1. UNCHANGED <<handles, files, mapped, born, unclosed, lent, objects, views, making>>
    BY <1>9 DEF dmaVars
  <2> QED BY <2>1, ViewsKeep DEF DmaInv, DmaTypes, ViewTypes
<1> QED BY <1>1, <1>2, <1>3, <1>4, <1>5, <1>6, <1>7, <1>8, <1>9 DEF Dma!Next

\* What the property counts.
LEMMA AtMostOne ==
  ASSUME NEW T \in SUBSET Objects, \A o, p \in T : o = p
  PROVE  Dma!Cardinality(T) = IF T = {} THEN 0 ELSE 1
<1>1. Dma!Cardinality(T) = Cardinality(T)
  BY DEF Dma!Cardinality, Cardinality, Dma!IsFiniteSet, IsFiniteSet
<1>2. ASSUME T # {} PROVE Cardinality(T) = 1
  <2>1. PICK o \in T : TRUE
    BY <1>2
  <2>2. T = {o}
    BY <2>1
  <2> QED BY <2>2, FS_Singleton
<1> QED BY <1>1, <1>2, FS_EmptySet

LEMMA DmaOwned ==
  ASSUME DmaInv
  PROVE  Dma!BuffersAreOwned
<1>1. HandleInv /\ FileInv /\ MapInv
  BY DEF DmaInv
<1>2. ASSUME NEW n \in Numbers
      PROVE  Dma!Cardinality({o \in Dma!Owners : objects[o].handle = n})
               + (IF making.handle = n THEN 1 ELSE 0) + (IF n \in unclosed THEN 1 ELSE 0)
               = (IF handles[n] = Dma!None THEN 0 ELSE 1)
  <2> DEFINE T == {o \in Dma!Owners : objects[o].handle = n}
  <2>1. T \in SUBSET Objects /\ n # Dma!None
    BY DmaFacts, NullIsApart
  <2>2. \A o, p \in T : o = p
    BY <1>1, <2>1 DEF HandleInv
  <2>3. Dma!Cardinality(T) = IF T = {} THEN 0 ELSE 1
    BY <2>1, <2>2, AtMostOne
  <2>4. /\ T # {} => making.handle # n /\ n \notin unclosed /\ handles[n] # Dma!None
        /\ making.handle = n => n \notin unclosed /\ handles[n] # Dma!None
        /\ n \in unclosed => handles[n] # Dma!None
        /\ handles[n] # Dma!None => T # {} \/ making.handle = n \/ n \in unclosed
    BY <1>1, <2>1 DEF HandleInv
  <2> HIDE DEF T
  <2>5. Dma!Cardinality(T) + (IF making.handle = n THEN 1 ELSE 0) + (IF n \in unclosed THEN 1 ELSE 0)
          = (IF handles[n] = Dma!None THEN 0 ELSE 1)
    BY <2>3, <2>4
  <2> QED BY <2>5 DEF T
<1>3. ASSUME NEW n \in Numbers
      PROVE  Dma!Cardinality({o \in Dma!Owners : objects[o].primeFd = n}) + (IF n \in lent THEN 1 ELSE 0)
               = (IF files[n] = Dma!None THEN 0 ELSE 1)
  <2> DEFINE T == {o \in Dma!Owners : objects[o].primeFd = n}
  <2>1. T \in SUBSET Objects /\ n # Dma!None
    BY DmaFacts, NullIsApart
  <2>2. \A o, p \in T : o = p
    BY <1>1, <2>1 DEF FileInv
  <2>3. Dma!Cardinality(T) = IF T = {} THEN 0 ELSE 1
    BY <2>1, <2>2, AtMostOne
  <2>4. /\ T # {} => n \notin lent /\ files[n] # Dma!None
        /\ n \in lent => files[n] # Dma!None
        /\ files[n] # Dma!None => T # {} \/ n \in lent
    BY <1>1, <2>1 DEF FileInv
  <2> HIDE DEF T
  <2>5. Dma!Cardinality(T) + (IF n \in lent THEN 1 ELSE 0) = (IF files[n] = Dma!None THEN 0 ELSE 1)
    BY <2>3, <2>4
  <2> QED BY <2>5 DEF T
<1>4. ASSUME NEW m \in Memories
      PROVE  mapped[m] = Dma!Cardinality({o \in Objects : objects[o].ptr = m})
  <2>1. mapped[m] = Cardinality(Mappers(m))
    BY <1>1 DEF MapInv
  <2>2. Dma!Cardinality(Mappers(m)) = Cardinality(Mappers(m))
    BY DEF Dma!Cardinality, Cardinality, Dma!IsFiniteSet, IsFiniteSet
  <2> QED BY <2>1, <2>2 DEF Mappers
<1> QED BY <1>2, <1>3, <1>4, Zenon DEF Dma!BuffersAreOwned

\* Every handle of create(), every descriptor and every mapping belongs to one
\* object, whatever fails, is moved, imported or mapped twice (DmaBuffer::create,
\* operator=, cleanup); the handles that importFromFD() made belong to none of
\* the objects that close theirs, and stay open.
THEOREM BuffersAreHeld == PartsSpec => []BuffersAreOwned
<1> DEFINE I == part = "dma" => DmaInv
<1>1. PartsInit => I
  BY DmaInit DEF PartsInit
<1>2. I /\ [PartsNext]_partsVars => I'
  BY PartStays, DmaAlone, DmaKeeps
<1>3. I => BuffersAreOwned
  BY DmaOwned DEF BuffersAreOwned
<1> QED BY <1>1, <1>2, <1>3, PTL DEF PartsSpec

-----------------------------------------------------------------------------
(***************************************************************************)
(* From a buffer to the screen.  A layer keeps handles of its newest       *)
(* buffers; every handle is a lease of one entry of the cache, and all     *)
(* that the compositor and the kernel have of a recent buffer is a copy of *)
(* a handle that is kept.                                                  *)
(***************************************************************************)
LEMMA DisplayAlone ==
  ASSUME [PartsNext]_partsVars, part = "display"
  PROVE  [Display!Next]_displayVars
BY DEF PartsNext, partsVars, threadVars, CameraPart, OrderedPart, SafePart, LogPart, DisplayPart,
       UdevPart, MousePart, ParamPart, ServerPart, DmaPart, MemoryPart, ConfigPart, DevicesPart,
       HttpPart, JpegPart, ContextPart

DisplayHandle == [id : Display!Ids \cup {0}, generation : Nat, image : Images \cup {Nil}, n : Nat]
DisplayLayer == [at : {"idle", "acquire", "publish", "push"}, fb : DisplayHandle,
                 handles : Seq(DisplayHandle), next : DisplayHandle, updates : Nat]
DisplayEntry == [id : Display!Ids, generation : Nat, image : Images, leases : Int]

LayerTypes ==
  /\ layer \in [Layers -> DisplayLayer]
  /\ DOMAIN layers_ \subseteq Layers /\ layers_ \in [DOMAIN layers_ -> DisplayHandle]

ScreenTypes ==
  /\ request \in [Layers -> DisplayHandle]
  /\ pending \in [Layers -> DisplayHandle] /\ screen \in [Layers -> DisplayHandle]

CacheTypes ==
  /\ entries \subseteq DisplayEntry
  /\ fbs \in [Display!Ids -> Images \cup {Nil}] /\ generation \in Nat

Pushed(l) == IF layer[l].at = "push" THEN layer[l].updates - 1 ELSE layer[l].updates

\* The handles of a layer are numbered in order, and the last cacheSize_ of
\* them are not older than the last cacheSize_ updates.
Rises(l) ==
  /\ \A i, j \in DOMAIN layer[l].handles :
       i < j => layer[l].handles[i].n < layer[l].handles[j].n
  /\ \A i \in DOMAIN layer[l].handles :
       layer[l].handles[i].n + Len(layer[l].handles) - i <= Pushed(l)
  /\ layer[l].at = "push" => layer[l].next.n = layer[l].updates
  /\ layer[l].at \in {"acquire", "publish"} => layer[l].next.n = layer[l].updates + 1
  /\ layer[l].at = "acquire" => layer[l].next.image \in Images

HeldBy(l) ==
  {layer[l].handles[k] : k \in DOMAIN layer[l].handles}
    \cup {h \in {layer[l].next} : layer[l].at \in {"publish", "push"}}

Matches(e, h) == e.id = h.id /\ e.generation = h.generation /\ e.image = h.image
HoldersOf(e) == {p \in Layers \X Nat : \E g \in HeldBy(p[1]) : g.n = p[2] /\ Matches(e, g)}

\* The entries are told apart by their ids and by what they are made of, and
\* each is leased as often as handles of it are held.
EntriesInv ==
  /\ \A e \in entries : fbs[e.id] = e.image
  /\ \A e, f \in entries : e.id = f.id \/ (e.generation = f.generation /\ e.image = f.image) => e = f
  /\ \A l \in Layers : \A g \in HeldBy(l) : \E e \in entries : Matches(e, g)
  /\ \A e \in entries : IsFiniteSet(HoldersOf(e)) /\ e.leases = Cardinality(HoldersOf(e))

Alike(h, g) == h.id = g.id /\ h.generation = g.generation /\ h.image = g.image /\ h.n = g.n

\* A copy of a handle: as long as it is recent, the layer holds the handle.
Kept(l, h) ==
  h = Display!NoHandle \/
    (layer[l].updates - h.n < cacheSize_ => \E g \in HeldBy(l) : Alike(h, g))

PlacesInv ==
  \A l \in Layers :
    /\ l \in DOMAIN layers_ => Kept(l, layers_[l])
    /\ Kept(l, layer[l].fb) /\ Kept(l, request[l]) /\ Kept(l, pending[l]) /\ Kept(l, screen[l])

ShowInv ==
  /\ LayerTypes /\ ScreenTypes /\ CacheTypes
  /\ (\A l \in Layers : Rises(l)) /\ EntriesInv /\ PlacesInv

LEMMA NoHandleType == Display!NoHandle \in DisplayHandle /\ Display!NoHandle.id = 0
BY DEF Display!NoHandle, DisplayHandle

LEMMA IdsAreNumbers == Display!Ids \subseteq Nat \ {0}
<1>1. Display!Cardinality(Layers) = Cardinality(Layers)
  BY DEF Display!Cardinality, Cardinality, Display!IsFiniteSet, IsFiniteSet
<1>2. Cardinality(Layers) \in Nat
  BY FS_CardinalityType, DisplayAssumption
<1>3. Display!Cardinality(Layers) * (cacheSize_ + 2) \in Nat
  BY <1>1, <1>2, DisplayAssumption
<1> QED BY <1>3 DEF Display!Ids

LEMMA SmallestIsIn ==
  ASSUME NEW T \in SUBSET Nat, T # {}
  PROVE  Display!Smallest(T) \in T
BY Minimum DEF Display!Smallest

LEMMA ShowInit == Display!Init => ShowInv
<1> SUFFICES ASSUME Display!Init PROVE ShowInv
  OBVIOUS
<1> USE NoHandleType DEF Display!Init
<1>1. LayerTypes
  BY DEF LayerTypes, DisplayLayer
<1>2. ScreenTypes
  BY DEF ScreenTypes
<1>3. CacheTypes
  BY DEF CacheTypes
<1>4. \A l \in Layers : layer[l].at = "idle" /\ layer[l].handles = <<>> /\ layer[l].fb = Display!NoHandle
  OBVIOUS
<1>5. \A l \in Layers : Rises(l)
  BY <1>4 DEF Rises
<1>6. EntriesInv
  BY <1>4 DEF EntriesInv, HeldBy
<1>7. PlacesInv
  BY <1>4 DEF PlacesInv, Kept
<1> QED BY <1>1, <1>2, <1>3, <1>5, <1>6, <1>7 DEF ShowInv

\* The layer by itself.
LEMMA OfLayer ==
  ASSUME LayerTypes, NEW l \in Layers
  PROVE  /\ layer[l] \in DisplayLayer
         /\ layer[l].handles \in Seq(DisplayHandle) /\ layer[l].updates \in Nat
         /\ layer[l].next \in DisplayHandle /\ layer[l].fb \in DisplayHandle
         /\ DOMAIN layer[l].handles = 1..Len(layer[l].handles) /\ Len(layer[l].handles) \in Nat
         /\ \A i \in DOMAIN layer[l].handles : layer[l].handles[i] \in DisplayHandle
BY DEF LayerTypes, DisplayLayer

\* The handle on its way is newer than all in the deque.
LEMMA NextIsLast ==
  ASSUME LayerTypes, NEW l \in Layers, Rises(l), NEW i \in DOMAIN layer[l].handles,
         layer[l].at \in {"publish", "push"}
  PROVE  layer[l].handles[i].n < layer[l].next.n
<1> DEFINE ni == layer[l].handles[i].n
           k == Len(layer[l].handles)
<1>1. ni \in Nat /\ i \in 1..k /\ k \in Nat /\ layer[l].updates \in Nat /\ layer[l].next.n \in Nat
  BY OfLayer DEF DisplayHandle
<1>2. ni + k - i <= Pushed(l)
  BY DEF Rises
<1>3. Pushed(l) < layer[l].next.n /\ Pushed(l) \in Int
  BY <1>1 DEF Rises, Pushed
<1> HIDE DEF ni, k
<1>4. ni < layer[l].next.n
  BY <1>1, <1>2, <1>3
<1> QED BY <1>4 DEF ni

\* Of what is held each number is there once.
LEMMA HeldAreApart ==
  ASSUME LayerTypes, NEW l \in Layers, Rises(l)
  PROVE  /\ HeldBy(l) \subseteq DisplayHandle
         /\ \A g, h \in HeldBy(l) : g.n = h.n => g = h
<1>1. layer[l] \in DisplayLayer /\ layer[l].handles \in Seq(DisplayHandle)
      /\ DOMAIN layer[l].handles = 1..Len(layer[l].handles) /\ layer[l].updates \in Nat
      /\ layer[l].next \in DisplayHandle
  BY DEF LayerTypes, DisplayLayer
<1>2. \A i \in DOMAIN layer[l].handles : layer[l].handles[i] \in DisplayHandle
  BY <1>1
<1>3. HeldBy(l) \subseteq DisplayHandle
  BY <1>1, <1>2 DEF HeldBy
<1>4. \A i \in DOMAIN layer[l].handles : layer[l].at \in {"publish", "push"} =>
        layer[l].handles[i].n < layer[l].next.n
  BY NextIsLast
<1>5. \A i, j \in DOMAIN layer[l].handles :
        layer[l].handles[i].n = layer[l].handles[j].n => layer[l].handles[i] = layer[l].handles[j]
  <2> SUFFICES ASSUME NEW i \in DOMAIN layer[l].handles, NEW j \in DOMAIN layer[l].handles,
                      layer[l].handles[i].n = layer[l].handles[j].n
               PROVE  i = j
    OBVIOUS
  <2>1. layer[l].handles[i].n \in Nat /\ layer[l].handles[j].n \in Nat
    BY <1>2 DEF DisplayHandle
  <2>2. ~(i < j) /\ ~(j < i)
    BY <2>1 DEF Rises
  <2> QED BY <1>1, <2>2
<1>6. \A g \in HeldBy(l) :
        (\E i \in DOMAIN layer[l].handles : g = layer[l].handles[i])
          \/ (layer[l].at \in {"publish", "push"} /\ g = layer[l].next)
  BY DEF HeldBy
<1>7. layer[l].next.n \in Nat
  BY <1>1 DEF DisplayHandle
<1>8. \A i \in DOMAIN layer[l].handles : layer[l].handles[i].n \in Nat
  BY <1>2 DEF DisplayHandle
<1>9. \A g, h \in HeldBy(l) : g.n = h.n => g = h
  BY <1>4, <1>5, <1>6, <1>7, <1>8
<1> QED BY <1>3, <1>9

-----------------------------------------------------------------------------
\* What a step leaves alone.
LEMMA LayerStays ==
  ASSUME NEW m \in Layers, layer'[m] = layer[m], Rises(m)
  PROVE  Rises(m)' /\ HeldBy(m)' = HeldBy(m)
BY DEF Rises, HeldBy, Pushed

LEMMA EntriesStay ==
  ASSUME EntriesInv, UNCHANGED <<entries, fbs>>, \A m \in Layers : HeldBy(m)' = HeldBy(m)
  PROVE  EntriesInv'
<1>1. \A e : HoldersOf(e)' = HoldersOf(e)
  BY DEF HoldersOf
<1>2. (\A e \in entries : IsFiniteSet(HoldersOf(e)) /\ e.leases = Cardinality(HoldersOf(e)))'
  BY <1>1 DEF EntriesInv
<1>3. (\A e \in entries : fbs[e.id] = e.image)'
  BY DEF EntriesInv
<1>4. (\A e, f \in entries :
         e.id = f.id \/ (e.generation = f.generation /\ e.image = f.image) => e = f)'
  BY DEF EntriesInv
<1>5. (\A m \in Layers : \A g \in HeldBy(m) : \E e \in entries : Matches(e, g))'
  BY DEF EntriesInv, Matches
<1> QED BY <1>2, <1>3, <1>4, <1>5 DEF EntriesInv

LEMMA KeptStays ==
  ASSUME NEW m \in Layers, NEW h \in DisplayHandle, Kept(m, h),
         layer[m].updates \in Nat, layer'[m].updates \in Nat,
         layer'[m].updates >= layer[m].updates,
         \A g \in HeldBy(m) : g \in HeldBy(m)' \/ layer'[m].updates - g.n >= cacheSize_
  PROVE  Kept(m, h)'
<1>1. CASE h = Display!NoHandle
  BY <1>1 DEF Kept, Display!NoHandle
<1>2. CASE layer[m].updates - h.n < cacheSize_ /\ h # Display!NoHandle
  <2>1. PICK g \in HeldBy(m) : Alike(h, g)
    BY <1>2 DEF Kept
  <2>2. g \in HeldBy(m)' \/ layer'[m].updates - h.n >= cacheSize_
    BY <2>1 DEF Alike
  <2>3. CASE g \in HeldBy(m)'
    BY <2>1, <2>3 DEF Kept, Alike
  <2>4. CASE layer'[m].updates - h.n >= cacheSize_
    <3>1. h.n \in Nat
      BY DEF DisplayHandle
    <3> QED BY <2>4, <3>1, DisplayAssumption DEF Kept
  <2> QED BY <2>2, <2>3, <2>4
<1>3. CASE ~(layer[m].updates - h.n < cacheSize_)
  <2>1. h.n \in Nat
    BY DEF DisplayHandle
  <2> QED BY <1>3, <2>1, DisplayAssumption DEF Kept
<1> QED BY <1>1, <1>2, <1>3

\* A step that leaves the layers and the cache alone, and moves copies about.
LEMMA ShowStays ==
  ASSUME ShowInv, UNCHANGED <<entries, fbs, layer>>
  PROVE  /\ LayerTypes /\ layer' = layer
         /\ EntriesInv' /\ \A m \in Layers : Rises(m)'
         /\ \A m \in Layers : \A h \in DisplayHandle : Kept(m, h) => Kept(m, h)'
<1> USE DEF ShowInv
<1>1. \A m \in Layers : Rises(m)' /\ HeldBy(m)' = HeldBy(m)
  BY LayerStays
<1>2. EntriesInv'
  BY <1>1, EntriesStay
<1>3. ASSUME NEW m \in Layers, NEW h \in DisplayHandle, Kept(m, h) PROVE Kept(m, h)'
  <2>1. layer[m].updates \in Nat /\ layer'[m].updates = layer[m].updates
    BY DEF LayerTypes, DisplayLayer
  <2>2. layer'[m].updates >= layer[m].updates /\ layer'[m].updates \in Nat
    BY <2>1
  <2> QED BY <2>1, <2>2, <1>1, <1>3, KeptStays
<1> QED BY <1>1, <1>2, <1>3

LEMMA PlacesMove ==
  ASSUME ShowInv, UNCHANGED <<entries, fbs, layer>>, generation' \in Nat,
         layers_' = layers_ \/ layers_' = [l \in {} |-> Display!NoHandle] \/ Display!addLayers,
         \A m \in Layers :
           /\ \/ request'[m] = request[m] \/ request'[m] = Display!NoHandle
              \/ m \in DOMAIN layers_ /\ request'[m] = layers_[m]
           /\ \/ screen'[m] = screen[m] \/ screen'[m] = pending[m],
         ScreenTypes', \A m \in Layers : Kept(m, pending'[m])
  PROVE  ShowInv'
<1> USE DEF ShowInv
<1>1. /\ LayerTypes /\ layer' = layer
      /\ EntriesInv' /\ \A m \in Layers : Rises(m)'
      /\ \A m \in Layers : \A h \in DisplayHandle : Kept(m, h) => Kept(m, h)'
  BY ShowStays
<1>2. \A m \in Layers : layer[m].fb \in DisplayHandle
  BY DEF LayerTypes, DisplayLayer
<1>3. LayerTypes'
  BY <1>2, NoHandleType DEF LayerTypes, Display!addLayers
<1>4. CacheTypes'
  BY DEF CacheTypes
<1>5. \A m \in Layers : m \in DOMAIN layers_' =>
        \/ m \in DOMAIN layers_ /\ layers_'[m] = layers_[m]
        \/ layers_'[m] = layer[m].fb
  BY DEF Display!addLayers
<1>6. ASSUME NEW m \in Layers
      PROVE  /\ m \in DOMAIN layers_' => Kept(m, layers_'[m])
             /\ Kept(m, request'[m]) /\ Kept(m, screen'[m]) /\ Kept(m, layer'[m].fb)
  <2>1. Kept(m, Display!NoHandle)
    BY DEF Kept
  <2> QED BY <1>5, <1>1, <2>1 DEF PlacesInv
<1>7. ASSUME NEW m \in Layers
      PROVE  /\ m \in DOMAIN layers_' => layers_'[m] \in DisplayHandle
             /\ request'[m] \in DisplayHandle /\ screen'[m] \in DisplayHandle
             /\ pending'[m] \in DisplayHandle /\ layer'[m].fb \in DisplayHandle
  BY <1>3, <1>2 DEF LayerTypes, ScreenTypes
<1>8. PlacesInv'
  <2> SUFFICES ASSUME NEW m \in Layers
               PROVE  (/\ m \in DOMAIN layers_ => Kept(m, layers_[m])
                       /\ Kept(m, layer[m].fb) /\ Kept(m, request[m])
                       /\ Kept(m, pending[m]) /\ Kept(m, screen[m]))'
    BY DEF PlacesInv
  <2>1. \A h \in DisplayHandle : Kept(m, h) => Kept(m, h)'
    BY <1>1
  <2>2. (m \in DOMAIN layers_ => Kept(m, layers_[m]))'
    BY <2>1, <1>6, <1>7 DEF Kept
  <2>3. Kept(m, layer[m].fb)'
    BY <2>1, <1>6, <1>7 DEF Kept
  <2>4. Kept(m, request[m])'
    BY <2>1, <1>6, <1>7 DEF Kept
  <2>5. Kept(m, pending[m])'
    BY <2>1, <1>7 DEF Kept
  <2>6. Kept(m, screen[m])'
    BY <2>1, <1>6, <1>7 DEF Kept
  <2> QED BY <2>2, <2>3, <2>4, <2>5, <2>6
<1> QED BY <1>1, <1>3, <1>4, <1>8

\* A commit passes on what the kernel has of the framebuffers it was given.
LEMMA RequestIsKept ==
  ASSUME ShowInv, NEW m \in Layers, request[m].id # 0, fbs[request[m].id] # Nil, request[m].id \in Display!Ids
  PROVE  LET h == [request[m] EXCEPT !.image = fbs[request[m].id]]
         IN  h \in DisplayHandle /\ Kept(m, h)
<1> USE DEF ShowInv
<1> DEFINE r == request[m]
           h == [r EXCEPT !.image = fbs[r.id]]
<1>1. r \in DisplayHandle /\ fbs[r.id] \in Images \cup {Nil}
  BY DEF ScreenTypes, CacheTypes
<1>2. h \in DisplayHandle /\ h.id = r.id /\ h.generation = r.generation /\ h.n = r.n /\ h.image = fbs[r.id]
  BY <1>1 DEF DisplayHandle
<1>3. r # Display!NoHandle
  BY NoHandleType
<1>4. Kept(m, r)
  BY DEF PlacesInv
<1>5. ASSUME layer[m].updates - r.n < cacheSize_ PROVE Kept(m, h)
  <2>1. PICK g \in HeldBy(m) : Alike(r, g)
    BY <1>3, <1>4, <1>5 DEF Kept
  <2>2. PICK e \in entries : Matches(e, g)
    BY <2>1 DEF EntriesInv
  <2>3. fbs[r.id] = g.image
    BY <2>1, <2>2 DEF EntriesInv, Alike, Matches
  <2>4. Alike(h, g)
    BY <1>2, <2>1, <2>3 DEF Alike
  <2> HIDE DEF h
  <2> QED BY <2>1, <2>4 DEF Kept
<1>6. ASSUME ~(layer[m].updates - r.n < cacheSize_) PROVE Kept(m, h)
  <2> HIDE DEF h
  <2> QED BY <1>2, <1>6 DEF Kept
<1> QED BY <1>2, <1>5, <1>6

LEMMA CommitRequestStep ==
  ASSUME ShowInv, Display!CommitRequest
  PROVE  ShowInv'
<1> USE DEF ShowInv
<1>1. UNCHANGED <<entries, fbs, layer, generation, layers_, screen>>
      /\ request' = [l \in Layers |-> Display!NoHandle]
  BY DEF Display!CommitRequest, Display!display
<1>2. \A m \in Layers : Kept(m, pending[m])
  BY DEF PlacesInv
<1>3. CASE pending' = pending
  <2>1. ScreenTypes'
    BY <1>1, <1>3, NoHandleType DEF ScreenTypes
  <2> QED BY <1>1, <1>2, <1>3, <2>1, PlacesMove DEF CacheTypes
<1>4. CASE /\ \A l \in Display!InRequest : fbs[request[l].id] # Nil
           /\ pending' = [l \in Layers |-> IF l \in Display!InRequest
                THEN [request[l] EXCEPT !.image = fbs[request[l].id]] ELSE Display!NoHandle]
  <2>1. ASSUME NEW m \in Layers PROVE pending'[m] \in DisplayHandle /\ Kept(m, pending'[m])
    <3>1. CASE m \in Display!InRequest
      <4>1. request[m].id # 0 /\ fbs[request[m].id] # Nil /\ request[m].id \in Display!Ids
        BY <1>4, <3>1 DEF Display!InRequest, ScreenTypes, DisplayHandle
      <4>2. pending'[m] = [request[m] EXCEPT !.image = fbs[request[m].id]]
        BY <1>4, <3>1
      <4> QED BY <4>1, <4>2, RequestIsKept
    <3>2. CASE m \notin Display!InRequest
      BY <1>4, <3>2, NoHandleType DEF Kept
    <3> QED BY <3>1, <3>2
  <2>2. pending' = [l \in Layers |-> pending'[l]]
    BY <1>4
  <2>3. ScreenTypes'
    BY <1>1, <2>1, <2>2, NoHandleType DEF ScreenTypes
  <2> QED BY <1>1, <2>1, <2>3, PlacesMove DEF CacheTypes
<1> QED BY <1>3, <1>4 DEF Display!CommitRequest

LEMMA FlipStep ==
  ASSUME ShowInv, Display!Flip
  PROVE  ShowInv'
<1> USE DEF ShowInv
<1>1. UNCHANGED <<entries, fbs, layer, generation, layers_, request>>
      /\ pending' = [l \in Layers |-> Display!NoHandle]
      /\ screen' = [l \in Layers |-> IF pending[l] # Display!NoHandle THEN pending[l] ELSE screen[l]]
  BY DEF Display!Flip, Display!display, Display!commit
<1>2. ScreenTypes'
  BY <1>1, NoHandleType DEF ScreenTypes
<1>3. \A m \in Layers : Kept(m, pending'[m])
  BY <1>1 DEF Kept
<1> QED BY <1>1, <1>2, <1>3, PlacesMove DEF CacheTypes

\* The other steps of compositor, watcher and handlers.
LEMMA CopyStep ==
  ASSUME ShowInv, NEW h,
         \/ Display!CommitCollect \/ Display!WatchAtOnce \/ Display!WatchFence \/ Display!WatchAdd
         \/ Display!WatchAddFails \/ Display!CommitterDone \/ Display!LoopSignalled
         \/ Display!LoopExpired \/ Display!LoopCalled \/ Display!LoopEnd \/ Display!Shutdown
         \/ Display!PreRefresh(h) \/ Display!BumpGeneration(h) \/ Display!Refresh(h)
         \/ Display!PostRefresh(h) \/ UNCHANGED displayVars
  PROVE  ShowInv'
<1> USE DEF ShowInv
<1>1. UNCHANGED <<entries, fbs, layer, pending, screen>> /\ generation' \in {generation, generation + 1}
  BY DEF Display!CommitCollect, Display!WatchAtOnce, Display!WatchFence, Display!WatchAdd,
    Display!WatchAddFails, Display!CommitterDone, Display!LoopSignalled, Display!LoopExpired,
    Display!Trigger, Display!LoopCalled, Display!LoopEnd, Display!Shutdown, Display!PreRefresh,
    Display!BumpGeneration, Display!Refresh, Display!PostRefresh, displayVars,
    Display!display, Display!commit, Display!kernel
<1>2. layers_' = layers_ \/ layers_' = [l \in {} |-> Display!NoHandle] \/ Display!addLayers
  BY DEF Display!CommitCollect, Display!WatchAtOnce, Display!WatchFence, Display!WatchAdd,
    Display!WatchAddFails, Display!CommitterDone, Display!LoopSignalled, Display!LoopExpired,
    Display!Trigger, Display!LoopCalled, Display!LoopEnd, Display!Shutdown, Display!PreRefresh,
    Display!BumpGeneration, Display!Refresh, Display!PostRefresh, displayVars, Display!removeAllLayer
<1>3. request' = request
        \/ request' = [l \in Layers |-> IF l \in DOMAIN layers_ THEN layers_[l] ELSE Display!NoHandle]
  BY DEF Display!CommitCollect, Display!WatchAtOnce, Display!WatchFence, Display!WatchAdd,
    Display!WatchAddFails, Display!CommitterDone, Display!LoopSignalled, Display!LoopExpired,
    Display!Trigger, Display!LoopCalled, Display!LoopEnd, Display!Shutdown, Display!PreRefresh,
    Display!BumpGeneration, Display!Refresh, Display!PostRefresh, displayVars, Display!commit
<1>4. ScreenTypes'
  BY <1>1, <1>3, NoHandleType DEF ScreenTypes, LayerTypes
<1>5. generation' \in Nat
  BY <1>1 DEF CacheTypes
<1>6. \A m \in Layers : Kept(m, pending'[m])
  BY <1>1 DEF PlacesInv
<1>7. \A m \in Layers : \/ request'[m] = request[m] \/ request'[m] = Display!NoHandle
                        \/ m \in DOMAIN layers_ /\ request'[m] = layers_[m]
  BY <1>3
<1> QED BY <1>1, <1>2, <1>4, <1>5, <1>6, <1>7, PlacesMove

-----------------------------------------------------------------------------
\* A step of one layer.  Of the rest it may darken a plane.
LEMMA LayerMoves ==
  ASSUME ShowInv, NEW l \in Layers, LayerTypes', ScreenTypes', Rises(l)',
         \A m \in Layers : m # l => layer'[m] = layer[m],
         layer'[l].updates >= layer[l].updates,
         \A g \in HeldBy(l) : g \in HeldBy(l)' \/ layer'[l].updates - g.n >= cacheSize_,
         layer'[l].fb = layer[l].fb \/ layer'[l].fb \in HeldBy(l)',
         \A m \in Layers :
           /\ m \in DOMAIN layers_' =>
                /\ m \in DOMAIN layers_
                /\ layers_'[m] = layers_[m] \/ (m = l /\ layers_'[m] \in HeldBy(l)')
           /\ request'[m] = request[m]
           /\ pending'[m] = pending[m] \/ pending'[m] = Display!NoHandle
           /\ screen'[m] = screen[m] \/ screen'[m] = Display!NoHandle
  PROVE  /\ \A m \in Layers : Rises(m)'
         /\ \A m \in Layers : m # l => HeldBy(m)' = HeldBy(m)
         /\ PlacesInv'
<1> USE DEF ShowInv
<1>1. \A m \in Layers : m # l => Rises(m)' /\ HeldBy(m)' = HeldBy(m)
  BY LayerStays
<1>2. \A m \in Layers : Rises(m)'
  BY <1>1
<1>3. \A m \in Layers : layer[m].updates \in Nat /\ layer'[m].updates \in Nat
  BY DEF LayerTypes, DisplayLayer
<1>4. ASSUME NEW m \in Layers, NEW h \in DisplayHandle, Kept(m, h) PROVE Kept(m, h)'
  <2>1. layer'[m].updates >= layer[m].updates
    BY <1>3
  <2>2. \A g \in HeldBy(m) : g \in HeldBy(m)' \/ layer'[m].updates - g.n >= cacheSize_
    BY <1>1
  <2> QED BY <1>3, <1>4, <2>1, <2>2, KeptStays
<1>5. ASSUME NEW m \in Layers
      PROVE  (/\ m \in DOMAIN layers_ => Kept(m, layers_[m])
              /\ Kept(m, layer[m].fb) /\ Kept(m, request[m])
              /\ Kept(m, pending[m]) /\ Kept(m, screen[m]))'
  <2>1. \A h \in DisplayHandle : Kept(m, h) => Kept(m, h)'
    BY <1>4
  <2>2. /\ m \in DOMAIN layers_ => Kept(m, layers_[m])
        /\ Kept(m, layer[m].fb) /\ Kept(m, request[m]) /\ Kept(m, pending[m]) /\ Kept(m, screen[m])
    BY DEF PlacesInv
  <2>3. /\ m \in DOMAIN layers_ => layers_[m] \in DisplayHandle
        /\ layer[m].fb \in DisplayHandle /\ request[m] \in DisplayHandle
        /\ pending[m] \in DisplayHandle /\ screen[m] \in DisplayHandle
    BY DEF LayerTypes, DisplayLayer, ScreenTypes
  <2>4. (m \in DOMAIN layers_ => Kept(m, layers_[m]))'
    <3>1. CASE m \in DOMAIN layers_' /\ layers_'[m] \in HeldBy(m)'
      BY <3>1 DEF Kept, Alike
    <3>2. CASE m \in DOMAIN layers_' /\ m \in DOMAIN layers_ /\ layers_'[m] = layers_[m]
      BY <2>1, <2>2, <2>3, <3>2 DEF Kept
    <3>3. CASE m \notin DOMAIN layers_'
      BY <3>3
    <3> QED BY <3>1, <3>2, <3>3
  <2>5. Kept(m, layer[m].fb)'
    <3>1. CASE layer'[m].fb \in HeldBy(m)'
      BY <3>1 DEF Kept, Alike
    <3>2. CASE layer'[m].fb = layer[m].fb
      BY <2>1, <2>2, <2>3, <3>2 DEF Kept
    <3> QED BY <3>1, <3>2
  <2>6. Kept(m, request[m])'
    BY <2>1, <2>2, <2>3 DEF Kept
  <2>7. Kept(m, pending[m])'
    BY <2>1, <2>2, <2>3 DEF Kept, Display!NoHandle
  <2>8. Kept(m, screen[m])'
    BY <2>1, <2>2, <2>3 DEF Kept, Display!NoHandle
  <2> QED BY <2>4, <2>5, <2>6, <2>7, <2>8
<1>6. PlacesInv'
  BY <1>5 DEF PlacesInv
<1> QED BY <1>1, <1>2, <1>6

\* Steps that change neither what is held nor the cache.
LEMMA UpdateStep ==
  ASSUME ShowInv, NEW l \in Layers, Display!UpdateBuffer(l) \/ Display!AcquireFails(l)
  PROVE  ShowInv'
<1> USE DEF ShowInv
<1>1. UNCHANGED <<entries, fbs, generation, layers_, request, pending, screen>>
  BY DEF Display!UpdateBuffer, Display!AcquireFails, Display!display, Display!commit, Display!kernel
<1>2. /\ layer' \in [Layers -> DisplayLayer]
      /\ layer'[l].fb = layer[l].fb /\ layer'[l].handles = layer[l].handles
      /\ layer'[l].updates = layer[l].updates
      /\ layer[l].at \in {"idle", "acquire"}
      /\ \/ layer'[l].at = "idle"
         \/ /\ layer'[l].at = "acquire" /\ layer'[l].next.n = layer[l].updates + 1
            /\ layer'[l].next.image \in Images
      /\ \A m \in Layers : m # l => layer'[m] = layer[m]
  <2>1. CASE Display!UpdateBuffer(l)
    <3>1. PICK b \in Images : layer' = [layer EXCEPT ![l].at = "acquire",
         ![l].next = [id |-> 0, generation |-> generation, image |-> b, n |-> layer[l].updates + 1]]
      BY <2>1 DEF Display!UpdateBuffer
    <3>2. [id |-> 0, generation |-> generation, image |-> b, n |-> layer[l].updates + 1] \in DisplayHandle
      BY OfLayer DEF DisplayHandle, CacheTypes
    <3>3. layer[l].at = "idle"
      BY <2>1 DEF Display!UpdateBuffer
    <3> QED BY <3>1, <3>2, <3>3 DEF LayerTypes, DisplayLayer
  <2>2. CASE Display!AcquireFails(l)
    BY <2>2, NoHandleType DEF Display!AcquireFails, LayerTypes, DisplayLayer
  <2> QED BY <2>1, <2>2
<1>3. HeldBy(l)' = HeldBy(l)
  BY <1>2 DEF HeldBy
<1>4. Rises(l)'
  BY <1>2 DEF Rises, Pushed
<1>5. LayerTypes' /\ ScreenTypes' /\ CacheTypes'
  BY <1>1, <1>2 DEF LayerTypes, ScreenTypes, CacheTypes
<1>6. layer'[l].updates >= layer[l].updates
  BY <1>2, OfLayer
<1>7. /\ \A m \in Layers : Rises(m)'
      /\ \A m \in Layers : m # l => HeldBy(m)' = HeldBy(m)
      /\ PlacesInv'
  BY <1>1, <1>2, <1>3, <1>4, <1>5, <1>6, LayerMoves
<1>8. EntriesInv'
  BY <1>1, <1>3, <1>7, EntriesStay
<1> QED BY <1>5, <1>7, <1>8

LEMMA PublishStep ==
  ASSUME ShowInv, NEW l \in Layers, Display!Publish(l)
  PROVE  ShowInv'
<1> USE DEF ShowInv
<1>1. UNCHANGED <<entries, fbs, generation, request, pending, screen>>
  BY DEF Display!Publish, Display!display, Display!commit, Display!kernel
<1>2. /\ layer' \in [Layers -> DisplayLayer]
      /\ layer'[l].fb = layer[l].next /\ layer'[l].handles = layer[l].handles
      /\ layer'[l].updates = layer[l].next.n /\ layer'[l].next = layer[l].next
      /\ layer[l].at = "publish" /\ layer'[l].at = "push"
      /\ \A m \in Layers : m # l => layer'[m] = layer[m]
  <2>1. layer[l].next.n \in Nat
    BY OfLayer DEF DisplayHandle
  <2> QED BY <2>1 DEF Display!Publish, LayerTypes, DisplayLayer
<1>3. layer'[l].updates = layer[l].updates + 1
  BY <1>2 DEF Rises
<1>4. layers_' = IF l \in DOMAIN layers_ THEN [layers_ EXCEPT ![l] = layer[l].next] ELSE layers_
  BY DEF Display!Publish
<1>5. HeldBy(l)' = HeldBy(l) /\ layer[l].next \in HeldBy(l)
  BY <1>2 DEF HeldBy
<1>6. Rises(l)'
  <2>1. layer'[l].updates - 1 = layer[l].updates
    BY <1>3, OfLayer
  <2> QED BY <1>2, <2>1 DEF Rises, Pushed
<1>7. LayerTypes' /\ ScreenTypes' /\ CacheTypes'
  BY <1>1, <1>2, <1>4, OfLayer DEF LayerTypes, ScreenTypes, CacheTypes
<1>8. layer'[l].updates >= layer[l].updates
  BY <1>3, OfLayer
<1>9. \A m \in Layers : m \in DOMAIN layers_' =>
        m \in DOMAIN layers_ /\ (layers_'[m] = layers_[m] \/ (m = l /\ layers_'[m] \in HeldBy(l)'))
  BY <1>4, <1>5
<1>10. /\ \A m \in Layers : Rises(m)'
       /\ \A m \in Layers : m # l => HeldBy(m)' = HeldBy(m)
       /\ PlacesInv'
  BY <1>1, <1>2, <1>5, <1>6, <1>7, <1>8, <1>9, LayerMoves
<1>11. EntriesInv'
  BY <1>1, <1>5, <1>10, EntriesStay
<1> QED BY <1>7, <1>10, <1>11

LEMMA PushStep ==
  ASSUME ShowInv, NEW l \in Layers, Display!Push(l)
  PROVE  ShowInv'
<1> USE DEF ShowInv
<1> DEFINE hs == layer[l].handles
           k == Len(hs)
<1>1. UNCHANGED <<entries, fbs, generation, layers_, request, pending, screen>>
  BY DEF Display!Push, Display!display, Display!commit, Display!kernel
<1>2. /\ hs \in Seq(DisplayHandle) /\ k \in Nat /\ DOMAIN hs = 1..k
      /\ layer[l].next \in DisplayHandle /\ layer[l].updates \in Nat
      /\ \A i \in DOMAIN hs : hs[i].n \in Nat
  BY OfLayer DEF DisplayHandle
<1>3. /\ Append(hs, layer[l].next) \in Seq(DisplayHandle)
      /\ Len(Append(hs, layer[l].next)) = k + 1
      /\ \A i \in 1..k : Append(hs, layer[l].next)[i] = hs[i]
      /\ Append(hs, layer[l].next)[k + 1] = layer[l].next
  BY <1>2, AppendProperties
<1>4. /\ layer' \in [Layers -> DisplayLayer]
      /\ layer'[l].fb = layer[l].fb /\ layer'[l].handles = Append(hs, layer[l].next)
      /\ layer'[l].updates = layer[l].updates
      /\ layer[l].at = "push" /\ layer'[l].at = "idle"
      /\ \A m \in Layers : m # l => layer'[m] = layer[m]
  BY <1>3, NoHandleType DEF Display!Push, LayerTypes, DisplayLayer
<1>5. /\ DOMAIN layer'[l].handles = 1..k + 1
      /\ \A i \in 1..k : layer'[l].handles[i] = hs[i]
      /\ layer'[l].handles[k + 1] = layer[l].next
  BY <1>3, <1>4, <1>2
<1>6. HeldBy(l)' = HeldBy(l)
  <2>1. \A g : g \in HeldBy(l) <=> (\E i \in 1..k : g = hs[i]) \/ g = layer[l].next
    BY <1>2, <1>4 DEF HeldBy
  <2>2. \A g : g \in HeldBy(l)' <=> \E i \in 1..k + 1 : g = layer'[l].handles[i]
    BY <1>4, <1>5 DEF HeldBy
  <2>3. \A i \in 1..k + 1 : i \in 1..k \/ i = k + 1
    BY <1>2
  <2>4. 1..k \subseteq 1..k + 1 /\ k + 1 \in 1..k + 1
    BY <1>2
  <2>5. \A g : (\E i \in 1..k + 1 : g = layer'[l].handles[i])
               <=> (\E i \in 1..k : g = hs[i]) \/ g = layer[l].next
    BY <1>5, <2>3, <2>4
  <2> QED BY <2>1, <2>2, <2>5
<1>7. \A i \in 1..k : hs[i].n + k - i <= layer[l].updates - 1
  BY <1>2, <1>4 DEF Rises, Pushed
<1>8. layer[l].next.n = layer[l].updates
  BY <1>4 DEF Rises
<1>9. Rises(l)'
  <2>1. ASSUME NEW i \in 1..k + 1
        PROVE  layer'[l].handles[i].n + (k + 1) - i <= layer[l].updates
    <3>1. CASE i \in 1..k
      <4>1. layer'[l].handles[i].n = hs[i].n /\ hs[i].n \in Nat
        BY <1>2, <1>5, <3>1
      <4>2. hs[i].n + k - i <= layer[l].updates - 1
        BY <1>7, <3>1
      <4> QED BY <1>2, <3>1, <4>1, <4>2
    <3>2. CASE i = k + 1
      <4>1. layer'[l].handles[i].n = layer[l].updates
        BY <1>5, <1>8, <3>2
      <4> QED BY <1>2, <3>2, <4>1
    <3> QED BY <1>2, <3>1, <3>2
  <2>2. ASSUME NEW i \in 1..k + 1, NEW j \in 1..k + 1, i < j
        PROVE  layer'[l].handles[i].n < layer'[l].handles[j].n
    <3>1. i \in 1..k
      BY <1>2, <2>2
    <3>2. CASE j \in 1..k
      BY <1>2, <1>5, <2>2, <3>1, <3>2 DEF Rises
    <3>3. CASE j = k + 1
      <4>1. hs[i].n + k - i <= layer[l].updates - 1 /\ hs[i].n \in Nat
        BY <1>2, <1>7, <3>1
      <4>3. k \in Nat /\ layer[l].updates \in Nat
        BY <1>2
      <4>2. hs[i].n < layer[l].updates
        <5> HIDE DEF hs, k
        <5> QED BY <4>3, <3>1, <4>1
      <4> QED BY <1>5, <1>8, <3>1, <3>3, <4>2
    <3> QED BY <1>2, <3>2, <3>3
  <2>3. Len(layer'[l].handles) = k + 1
    BY <1>3, <1>4
  <2> QED BY <1>4, <1>5, <2>1, <2>2, <2>3 DEF Rises, Pushed
<1>10. LayerTypes' /\ ScreenTypes' /\ CacheTypes'
  BY <1>1, <1>4 DEF LayerTypes, ScreenTypes, CacheTypes
<1>11. layer'[l].updates >= layer[l].updates
  BY <1>2, <1>4
<1> HIDE DEF hs, k
<1>12. /\ \A m \in Layers : Rises(m)'
       /\ \A m \in Layers : m # l => HeldBy(m)' = HeldBy(m)
       /\ PlacesInv'
  BY <1>1, <1>4, <1>6, <1>9, <1>10, <1>11, LayerMoves
<1>13. EntriesInv'
  BY <1>1, <1>6, <1>12, EntriesStay
<1> QED BY <1>10, <1>12, <1>13

-----------------------------------------------------------------------------
\* A handle that is given out is held, and counted with its entry only.
LEMMA GotOne ==
  ASSUME LayerTypes, NEW l \in Layers, Rises(l), layer[l].at = "acquire",
         NEW i \in Display!Ids, Display!Got(l, i)
  PROVE  /\ layer' \in [Layers -> DisplayLayer]
         /\ layer'[l].fb = layer[l].fb /\ layer'[l].updates = layer[l].updates
         /\ \A m \in Layers : m # l => layer'[m] = layer[m]
         /\ Rises(l)' /\ HeldBy(l)' = HeldBy(l) \cup {layer'[l].next}
         /\ \A e : Matches(e, layer'[l].next) <=> e.id = i /\ Display!Same(e, layer[l].next)
         /\ \A e : ~Matches(e, layer'[l].next) => HoldersOf(e)' = HoldersOf(e)
         /\ \A e : Matches(e, layer'[l].next) =>
              /\ HoldersOf(e)' = HoldersOf(e) \cup {<<l, layer[l].next.n>>}
              /\ <<l, layer[l].next.n>> \notin HoldersOf(e)
<1> DEFINE n == layer[l].next.n
           g0 == layer'[l].next
<1>1. layer' = [layer EXCEPT ![l].at = "publish", ![l].next.id = i]
  BY DEF Display!Got
<1>2. /\ layer' \in [Layers -> DisplayLayer]
      /\ layer'[l].fb = layer[l].fb /\ layer'[l].updates = layer[l].updates
      /\ layer'[l].handles = layer[l].handles /\ layer'[l].at = "publish"
      /\ g0.id = i /\ g0.n = n /\ g0.generation = layer[l].next.generation
      /\ g0.image = layer[l].next.image
      /\ \A m \in Layers : m # l => layer'[m] = layer[m]
  <2> DEFINE g1 == [layer[l].next EXCEPT !.id = i]
             r1 == [layer[l] EXCEPT !.at = "publish", !.next = g1]
  <2>1. g1 \in DisplayHandle /\ g1.id = i /\ g1.n = n /\ g1.generation = layer[l].next.generation
        /\ g1.image = layer[l].next.image
    BY OfLayer DEF DisplayHandle
  <2>2. layer' = [layer EXCEPT ![l] = r1]
    BY <1>1
  <2> HIDE DEF g1
  <2>3. r1 \in DisplayLayer /\ r1.fb = layer[l].fb /\ r1.updates = layer[l].updates
        /\ r1.handles = layer[l].handles /\ r1.at = "publish" /\ r1.next = g1
    BY <2>1, OfLayer DEF DisplayLayer
  <2> HIDE DEF r1
  <2>4. layer' \in [Layers -> DisplayLayer] /\ layer'[l] = r1
        /\ \A m \in Layers : m # l => layer'[m] = layer[m]
    BY <2>2, <2>3 DEF LayerTypes
  <2> QED BY <2>1, <2>3, <2>4
<1>3. Rises(l)'
  BY <1>2 DEF Rises, Pushed
<1>4. HeldBy(l)' = HeldBy(l) \cup {g0}
  BY <1>2 DEF HeldBy
<1>5. \A m \in Layers : m # l => HeldBy(m)' = HeldBy(m)
  BY <1>2 DEF HeldBy
<1>6. \A e : Matches(e, g0) <=> e.id = i /\ Display!Same(e, layer[l].next)
  BY <1>2 DEF Matches, Display!Same
<1>7. n \in Nat /\ n = layer[l].updates + 1
  BY OfLayer DEF Rises, DisplayHandle
<1>8. \A g \in HeldBy(l) : g.n # n
  <2>1. ASSUME NEW j \in DOMAIN layer[l].handles PROVE layer[l].handles[j].n < n
    <3> DEFINE nj == layer[l].handles[j].n
               k == Len(layer[l].handles)
    <3>1. nj + k - j <= layer[l].updates
      BY DEF Rises, Pushed
    <3>2. nj \in Nat /\ j \in 1..k /\ k \in Nat /\ layer[l].updates \in Nat
      BY OfLayer DEF DisplayHandle
    <3> HIDE DEF nj, k, n
    <3>3. nj < n
      BY <3>1, <3>2, <1>7
    <3> QED BY <3>3 DEF nj, n
  <2>2. ASSUME NEW j \in DOMAIN layer[l].handles PROVE layer[l].handles[j].n # n
    <3>1. layer[l].handles[j].n \in Nat
      BY OfLayer DEF DisplayHandle
    <3> QED BY <2>1, <3>1, <1>7
  <2> QED BY <2>2 DEF HeldBy
<1> HIDE DEF n, g0
<1>9. ASSUME NEW e, NEW p \in Layers \X Nat
      PROVE  p \in HoldersOf(e)' <=> p \in HoldersOf(e) \/ (Matches(e, g0) /\ p = <<l, n>>)
  <2>1. p \in HoldersOf(e) <=> \E g \in HeldBy(p[1]) : g.n = p[2] /\ Matches(e, g)
    BY DEF HoldersOf
  <2>2. p \in HoldersOf(e)' <=> \E g \in HeldBy(p[1])' : g.n = p[2] /\ Matches(e, g)
    BY DEF HoldersOf, Matches
  <2>3. CASE p[1] # l
    <3>1. HeldBy(p[1])' = HeldBy(p[1])
      BY <1>5, <2>3 DEF HeldBy
    <3> QED BY <2>1, <2>2, <2>3, <3>1
  <2>4. CASE p[1] = l
    <3>1. HeldBy(p[1])' = HeldBy(p[1]) \cup {g0}
      BY <1>4, <2>4 DEF HeldBy
    <3>2. g0.n = p[2] <=> p = <<l, n>>
      BY <1>2, <2>4
    <3> QED BY <2>1, <2>2, <3>1, <3>2
  <2> QED BY <2>3, <2>4
<1>10. \A e : HoldersOf(e) \subseteq Layers \X Nat /\ HoldersOf(e)' \subseteq Layers \X Nat
  BY DEF HoldersOf
<1>11. <<l, n>> \in Layers \X Nat
  BY <1>7
<1>12. \A e : ~Matches(e, g0) => HoldersOf(e)' = HoldersOf(e)
  BY <1>9, <1>10
<1>13. \A e : Matches(e, g0) => HoldersOf(e)' = HoldersOf(e) \cup {<<l, n>>}
  BY <1>9, <1>10, <1>11
<1>14. \A e : <<l, n>> \notin HoldersOf(e)
  BY <1>8 DEF HoldersOf
<1> QED BY <1>2, <1>3, <1>4, <1>6, <1>12, <1>13, <1>14 DEF n, g0

LEMMA AcquireHitStep ==
  ASSUME ShowInv, NEW l \in Layers, Display!AcquireHit(l)
  PROVE  ShowInv'
<1> USE DEF ShowInv
<1>1. UNCHANGED <<fbs, generation, layers_, request, pending, screen>> /\ layer[l].at = "acquire"
  BY DEF Display!AcquireHit, Display!commit, Display!kernel
<1>2. PICK e0 \in entries :
        /\ Display!Same(e0, layer[l].next)
        /\ entries' = (entries \ {e0}) \cup {[e0 EXCEPT !.leases = e0.leases + 1]}
        /\ Display!Got(l, e0.id)
  BY DEF Display!AcquireHit
<1> DEFINE e1 == [e0 EXCEPT !.leases = e0.leases + 1]
           new == layer'[l].next
           p0 == <<l, layer[l].next.n>>
<1>3. /\ e0 \in DisplayEntry /\ e0.id \in Display!Ids /\ e1 \in DisplayEntry
      /\ e1.id = e0.id /\ e1.generation = e0.generation /\ e1.image = e0.image
      /\ e1.leases = e0.leases + 1
  BY DEF CacheTypes, DisplayEntry
<1>4. /\ layer' \in [Layers -> DisplayLayer]
      /\ layer'[l].fb = layer[l].fb /\ layer'[l].updates = layer[l].updates
      /\ \A m \in Layers : m # l => layer'[m] = layer[m]
      /\ Rises(l)' /\ HeldBy(l)' = HeldBy(l) \cup {new}
  BY <1>1, <1>2, <1>3, GotOne
<1>5. /\ \A e : Matches(e, new) <=> e.id = e0.id /\ Display!Same(e, layer[l].next)
      /\ \A e : ~Matches(e, new) => HoldersOf(e)' = HoldersOf(e)
      /\ \A e : Matches(e, new) => HoldersOf(e)' = HoldersOf(e) \cup {p0} /\ p0 \notin HoldersOf(e)
  BY <1>1, <1>2, <1>3, GotOne
<1> HIDE DEF e1, new, p0
<1>6. LayerTypes' /\ ScreenTypes'
  BY <1>1, <1>4 DEF LayerTypes, ScreenTypes
<1>7. entries' = (entries \ {e0}) \cup {e1}
  BY <1>2 DEF e1
<1>8. CacheTypes'
  BY <1>1, <1>3, <1>7 DEF CacheTypes
<1>9. layer'[l].updates >= layer[l].updates
  BY <1>4, OfLayer
<1>10. /\ \A m \in Layers : Rises(m)'
       /\ \A m \in Layers : m # l => HeldBy(m)' = HeldBy(m)
       /\ PlacesInv'
  BY <1>1, <1>4, <1>6, <1>9, LayerMoves
<1>11. Matches(e0, new) /\ \A e \in entries : Matches(e, new) => e = e0
  BY <1>2, <1>5 DEF EntriesInv
<1>12. \A e \in entries' : (e \in entries /\ e # e0) \/ e = e1
  BY <1>7
<1>13. (\A e \in entries : fbs[e.id] = e.image)'
  BY <1>1, <1>3, <1>12 DEF EntriesInv
<1>14. (\A e, f \in entries :
          e.id = f.id \/ (e.generation = f.generation /\ e.image = f.image) => e = f)'
  BY <1>3, <1>12 DEF EntriesInv
<1>15. (\A m \in Layers : \A g \in HeldBy(m) : \E e \in entries : Matches(e, g))'
  <2> SUFFICES ASSUME NEW m \in Layers, NEW g \in HeldBy(m)' PROVE \E e \in entries' : Matches(e, g)
    BY DEF Matches
  <2>1. PICK e \in entries : Matches(e, g)
    <3>1. CASE g \in HeldBy(m)
      BY <3>1 DEF EntriesInv
    <3>2. CASE g = new
      BY <1>11, <3>2
    <3> QED BY <3>1, <3>2, <1>4, <1>10
  <2>2. CASE e = e0
    BY <2>1, <2>2, <1>3, <1>7 DEF Matches
  <2> QED BY <2>1, <2>2, <1>7
<1>17. HoldersOf(e1) = HoldersOf(e0) /\ Matches(e1, new)
  BY <1>3, <1>11 DEF HoldersOf, Matches
<1>18. (\A e \in entries : IsFiniteSet(HoldersOf(e)) /\ e.leases = Cardinality(HoldersOf(e)))'
  <2> SUFFICES ASSUME NEW e \in entries'
               PROVE  IsFiniteSet(HoldersOf(e)') /\ e.leases = Cardinality(HoldersOf(e)')
    OBVIOUS
  <2>1. CASE e \in entries /\ e # e0
    BY <2>1, <1>5, <1>11 DEF EntriesInv
  <2>2. CASE e = e1
    <3>1. IsFiniteSet(HoldersOf(e0)) /\ e0.leases = Cardinality(HoldersOf(e0))
      BY DEF EntriesInv
    <3>2. HoldersOf(e)' = HoldersOf(e0) \cup {p0} /\ p0 \notin HoldersOf(e0)
      BY <2>2, <1>5, <1>17
    <3>3. IsFiniteSet(HoldersOf(e0) \cup {p0})
          /\ Cardinality(HoldersOf(e0) \cup {p0}) = Cardinality(HoldersOf(e0)) + 1
      BY <3>1, <3>2, FS_AddElement
    <3> QED BY <2>2, <3>1, <3>2, <3>3, <1>3
  <2> QED BY <2>1, <2>2, <1>12
<1> QED BY <1>6, <1>8, <1>10, <1>13, <1>14, <1>15, <1>18 DEF EntriesInv

\* What is collected is held by no layer.
LEMMA CollectedIsFree ==
  ASSUME EntriesInv, LayerTypes, \A m \in Layers : Rises(m),
         NEW c, NEW e \in entries, Display!Collectable(e, c), NEW m \in Layers, NEW g \in HeldBy(m)
  PROVE  ~Matches(e, g)
<1>1. Cardinality(HoldersOf(e)) = 0 /\ IsFiniteSet(HoldersOf(e))
  BY DEF Display!Collectable, EntriesInv
<1>2. HoldersOf(e) = {}
  BY <1>1, FS_EmptySet
<1>3. g.n \in Nat
  BY HeldAreApart DEF DisplayHandle
<1>4. <<m, g.n>> \in Layers \X Nat /\ <<m, g.n>>[1] = m /\ <<m, g.n>>[2] = g.n
  BY <1>3
<1>5. Matches(e, g) => <<m, g.n>> \in HoldersOf(e)
  BY <1>4 DEF HoldersOf
<1> QED BY <1>2, <1>5

LEMMA ClearStep ==
  ASSUME ShowInv, NEW h, Display!ClearGeneration(h)
  PROVE  ShowInv'
<1> USE DEF ShowInv
<1> DEFINE old == {e \in entries : Display!Collectable(e, hot[h].generation)}
           ids == {e.id : e \in old}
<1>1. /\ UNCHANGED <<generation, layer, layers_, request>>
      /\ entries' = entries \ old
      /\ fbs' = [i \in Display!Ids |-> IF i \in ids THEN Nil ELSE fbs[i]]
      /\ screen' = [l \in Layers |-> IF screen[l].id \in ids THEN Display!NoHandle ELSE screen[l]]
      /\ pending' = [l \in Layers |-> IF pending[l].id \in ids THEN Display!NoHandle ELSE pending[l]]
  BY DEF Display!ClearGeneration, Display!commit, Display!Collect, Display!Removed
<1>2. \A e \in old : e \in entries /\ Display!Collectable(e, hot[h].generation)
  OBVIOUS
<1>3. \A i \in ids : \E e \in old : i = e.id
  OBVIOUS
<1>4. \A e \in old : e.id \in ids
  OBVIOUS
<1> HIDE DEF old, ids
<1>5. \A m \in Layers : HeldBy(m)' = HeldBy(m) /\ Rises(m)'
  BY <1>1, LayerStays
<1>6. LayerTypes'
  BY <1>1 DEF LayerTypes
<1>7. ScreenTypes'
  BY <1>1, NoHandleType DEF ScreenTypes
<1>8. CacheTypes'
  BY <1>1 DEF CacheTypes
<1>9. PlacesInv'
  <2>1. \A m \in Layers : layer'[m] = layer[m] /\ layer[m].updates \in Nat
    BY <1>1, OfLayer
  <2> SUFFICES ASSUME NEW m \in Layers
               PROVE  (/\ m \in DOMAIN layers_ => Kept(m, layers_[m])
                       /\ Kept(m, layer[m].fb) /\ Kept(m, request[m])
                       /\ Kept(m, pending[m]) /\ Kept(m, screen[m]))'
    BY DEF PlacesInv
  <2>2. /\ m \in DOMAIN layers_ => Kept(m, layers_[m])
        /\ Kept(m, layer[m].fb) /\ Kept(m, request[m]) /\ Kept(m, pending[m]) /\ Kept(m, screen[m])
    BY DEF PlacesInv
  <2>3. (m \in DOMAIN layers_ => Kept(m, layers_[m])) ' /\ Kept(m, layer[m].fb)' /\ Kept(m, request[m])'
    BY <1>1, <1>5, <2>1, <2>2 DEF Kept, Display!NoHandle, Alike
  <2>4. Kept(m, pending[m])'
    <3>1. pending'[m] = pending[m] \/ pending'[m] = Display!NoHandle
      BY <1>1
    <3> QED BY <1>5, <2>1, <2>2, <3>1 DEF Kept, Display!NoHandle, Alike
  <2>5. Kept(m, screen[m])'
    <3>1. screen'[m] = screen[m] \/ screen'[m] = Display!NoHandle
      BY <1>1
    <3> QED BY <1>5, <2>1, <2>2, <3>1 DEF Kept, Display!NoHandle, Alike
  <2> QED BY <2>3, <2>4, <2>5
<1>10. (\A e \in entries : fbs[e.id] = e.image)'
  <2> SUFFICES ASSUME NEW e \in entries' PROVE fbs'[e.id] = e.image
    OBVIOUS
  <2>1. e \in entries /\ e \notin old /\ e.id \in Display!Ids
    BY <1>1 DEF CacheTypes, DisplayEntry
  <2>2. e.id \notin ids
    BY <2>1, <1>2, <1>3 DEF EntriesInv
  <2> QED BY <2>1, <2>2, <1>1 DEF EntriesInv
<1>11. (\A e, f \in entries :
          e.id = f.id \/ (e.generation = f.generation /\ e.image = f.image) => e = f)'
  BY <1>1 DEF EntriesInv
<1>12. (\A m \in Layers : \A g \in HeldBy(m) : \E e \in entries : Matches(e, g))'
  <2> SUFFICES ASSUME NEW m \in Layers, NEW g \in HeldBy(m) PROVE \E e \in entries' : Matches(e, g)
    BY <1>5 DEF Matches
  <2>1. PICK e \in entries : Matches(e, g)
    BY DEF EntriesInv
  <2>2. e \notin old
    BY <2>1, <1>2, CollectedIsFree
  <2> QED BY <2>1, <2>2, <1>1
<1>13. (\A e \in entries : IsFiniteSet(HoldersOf(e)) /\ e.leases = Cardinality(HoldersOf(e)))'
  <2>1. \A e : HoldersOf(e)' = HoldersOf(e)
    BY <1>5 DEF HoldersOf
  <2> QED BY <2>1, <1>1 DEF EntriesInv
<1> QED BY <1>5, <1>6, <1>7, <1>8, <1>9, <1>10, <1>11, <1>12, <1>13 DEF EntriesInv

LEMMA AcquireMissStep ==
  ASSUME ShowInv, NEW l \in Layers, Display!AcquireMiss(l)
  PROVE  ShowInv'
<1> USE DEF ShowInv
<1> DEFINE h == layer[l].next
           i0 == Display!Smallest({j \in Display!Ids : fbs[j] = Nil})
           old == {e \in entries : Display!Collectable(e, h.generation)}
           ids == {e.id : e \in old}
           en == [id |-> i0, generation |-> h.generation, image |-> h.image, leases |-> 1]
           new == layer'[l].next
           p0 == <<l, h.n>>
<1>1. /\ UNCHANGED <<generation, layers_, request>> /\ layer[l].at = "acquire"
      /\ \A e \in entries : ~Display!Same(e, h)
      /\ entries' = (entries \ old) \cup {en}
      /\ fbs' = [j \in Display!Ids |-> IF j = i0 THEN h.image ELSE IF j \in ids THEN Nil ELSE fbs[j]]
      /\ screen' = [m \in Layers |-> IF screen[m].id \in ids THEN Display!NoHandle ELSE screen[m]]
      /\ pending' = [m \in Layers |-> IF pending[m].id \in ids THEN Display!NoHandle ELSE pending[m]]
      /\ Display!Got(l, i0) /\ \E j \in Display!Ids : fbs[j] = Nil
  BY DEF Display!AcquireMiss, Display!commit
<1>2. i0 \in Display!Ids /\ fbs[i0] = Nil
  <2>1. {j \in Display!Ids : fbs[j] = Nil} \in SUBSET Nat /\ {j \in Display!Ids : fbs[j] = Nil} # {}
    BY <1>1, IdsAreNumbers
  <2> QED BY <2>1, SmallestIsIn
<1>3. h \in DisplayHandle /\ h.generation \in Nat /\ h.image \in Images /\ h.n \in Nat
  BY <1>1, OfLayer DEF Rises, DisplayHandle
<1>4. /\ en \in DisplayEntry /\ en.id = i0 /\ en.generation = h.generation /\ en.image = h.image
      /\ en.leases = 1
  BY <1>2, <1>3 DEF DisplayEntry
<1>5. /\ \A e \in old : e \in entries /\ Display!Collectable(e, h.generation) /\ e.id \in ids
      /\ \A j \in ids : \E e \in old : j = e.id
  OBVIOUS
<1>6. /\ layer' \in [Layers -> DisplayLayer]
      /\ layer'[l].fb = layer[l].fb /\ layer'[l].updates = layer[l].updates
      /\ \A m \in Layers : m # l => layer'[m] = layer[m]
      /\ Rises(l)' /\ HeldBy(l)' = HeldBy(l) \cup {new}
  BY <1>1, <1>2, GotOne
<1>7. /\ \A e : Matches(e, new) <=> e.id = i0 /\ Display!Same(e, h)
      /\ \A e : ~Matches(e, new) => HoldersOf(e)' = HoldersOf(e)
      /\ \A e : Matches(e, new) => HoldersOf(e)' = HoldersOf(e) \cup {p0} /\ p0 \notin HoldersOf(e)
  BY <1>1, <1>2, GotOne
<1> HIDE DEF h, i0, old, ids, en, new, p0
<1>8. LayerTypes'
  BY <1>1, <1>6 DEF LayerTypes
<1>9. ScreenTypes'
  BY <1>1, NoHandleType DEF ScreenTypes
<1>10. CacheTypes'
  <2>1. entries' \subseteq DisplayEntry
    BY <1>1, <1>4 DEF CacheTypes
  <2>2. fbs' \in [Display!Ids -> Images \cup {Nil}]
    BY <1>1, <1>3 DEF CacheTypes
  <2> QED BY <2>1, <2>2, <1>1 DEF CacheTypes
<1>11. layer'[l].updates >= layer[l].updates
  BY <1>6, OfLayer
<1>12. \A m \in Layers : /\ pending'[m] = pending[m] \/ pending'[m] = Display!NoHandle
                         /\ screen'[m] = screen[m] \/ screen'[m] = Display!NoHandle
  BY <1>1
<1>13. /\ \A m \in Layers : Rises(m)'
       /\ \A m \in Layers : m # l => HeldBy(m)' = HeldBy(m)
       /\ PlacesInv'
  BY <1>1, <1>6, <1>8, <1>9, <1>11, <1>12, LayerMoves
<1>14. Matches(en, new) /\ \A e \in entries : ~Matches(e, new)
  BY <1>1, <1>4, <1>7 DEF Display!Same
<1>15. \A e \in entries' : (e \in entries /\ e \notin old) \/ e = en
  BY <1>1
<1>16. \A e \in entries : e.id # i0 /\ e.id \in Display!Ids
  BY <1>2, DisplayAssumption DEF EntriesInv, CacheTypes, DisplayEntry
<1>17. (\A e \in entries : fbs[e.id] = e.image)'
  <2> SUFFICES ASSUME NEW e \in entries' PROVE fbs'[e.id] = e.image
    OBVIOUS
  <2>1. CASE e = en
    BY <2>1, <1>1, <1>2, <1>4
  <2>2. CASE e \in entries /\ e \notin old
    <3>1. e.id \notin ids
      BY <2>2, <1>5 DEF EntriesInv
    <3> QED BY <2>2, <3>1, <1>1, <1>16 DEF EntriesInv
  <2> QED BY <2>1, <2>2, <1>15
<1>18. (\A e, f \in entries :
          e.id = f.id \/ (e.generation = f.generation /\ e.image = f.image) => e = f)'
  <2>1. \A e \in entries : e.id # en.id /\ ~(e.generation = en.generation /\ e.image = en.image)
    BY <1>1, <1>4, <1>16 DEF Display!Same
  <2> QED BY <2>1, <1>15 DEF EntriesInv
<1>19. (\A m \in Layers : \A g \in HeldBy(m) : \E e \in entries : Matches(e, g))'
  <2> SUFFICES ASSUME NEW m \in Layers, NEW g \in HeldBy(m)' PROVE \E e \in entries' : Matches(e, g)
    BY DEF Matches
  <2>1. CASE g \in HeldBy(m)
    <3>1. PICK e \in entries : Matches(e, g)
      BY <2>1 DEF EntriesInv
    <3>2. e \notin old
      BY <2>1, <3>1, <1>5, CollectedIsFree
    <3> QED BY <3>1, <3>2, <1>1
  <2>2. CASE g = new
    BY <2>2, <1>1, <1>14
  <2> QED BY <2>1, <2>2, <1>6, <1>13
<1>20. HoldersOf(en) = {}
  <2> SUFFICES ASSUME NEW p \in HoldersOf(en) PROVE FALSE
    OBVIOUS
  <2>0. PICK m \in Layers : \E g \in HeldBy(m) : Matches(en, g)
    BY DEF HoldersOf
  <2>1. PICK g \in HeldBy(m) : Matches(en, g)
    BY <2>0
  <2>2. PICK e \in entries : Matches(e, g)
    BY <2>1 DEF EntriesInv
  <2>3. Display!Same(e, h)
    BY <2>1, <2>2, <1>4 DEF Matches, Display!Same
  <2> QED BY <2>3, <1>1
<1>21. (\A e \in entries : IsFiniteSet(HoldersOf(e)) /\ e.leases = Cardinality(HoldersOf(e)))'
  <2> SUFFICES ASSUME NEW e \in entries'
               PROVE  IsFiniteSet(HoldersOf(e)') /\ e.leases = Cardinality(HoldersOf(e)')
    OBVIOUS
  <2>1. CASE e \in entries
    BY <2>1, <1>7, <1>14 DEF EntriesInv
  <2>2. CASE e = en
    <3>1. HoldersOf(e)' = {p0}
      BY <2>2, <1>7, <1>14, <1>20
    <3> QED BY <2>2, <3>1, <1>4, FS_Singleton
  <2> QED BY <2>1, <2>2, <1>15
<1> QED BY <1>8, <1>9, <1>10, <1>13, <1>17, <1>18, <1>19, <1>21 DEF EntriesInv

-----------------------------------------------------------------------------
LEMMA SameSize ==
  ASSUME NEW A, NEW B, IsFiniteSet(A), NEW f \in [A -> B],
         \A x, y \in A : f[x] = f[y] => x = y, \A y \in B : \E x \in A : f[x] = y
  PROVE  IsFiniteSet(B) /\ Cardinality(B) = Cardinality(A)
<1>1. f \in Bijection(A, B)
  BY DEF Bijection, Injection, Surjection, IsInjective
<1>2. ExistsBijection(A, B)
  BY <1>1 DEF ExistsBijection
<1> QED BY <1>2, FS_Bijection

\* The handles at the front of a deque, without the newest cacheSize_.
LEMMA FrontIsOld ==
  ASSUME ShowInv, NEW l \in Layers, NEW d \in Nat, d <= Len(layer[l].handles),
         d = 0 \/ d = Len(layer[l].handles) - cacheSize_,
         layer' \in [Layers -> DisplayLayer], layer'[l].at = layer[l].at,
         layer'[l].next = layer[l].next, layer'[l].updates = layer[l].updates,
         layer'[l].fb = layer[l].fb, Len(layer'[l].handles) = Len(layer[l].handles) - d,
         \A i \in 1..Len(layer[l].handles) - d : layer'[l].handles[i] = layer[l].handles[i + d]
  PROVE  /\ Rises(l)' /\ HeldBy(l)' \subseteq HeldBy(l)
         /\ \A g \in HeldBy(l) : g \in HeldBy(l)' \/ \E i \in 1..d : g = layer[l].handles[i]
         /\ \A g \in HeldBy(l)' : \A i \in 1..d : g.n # layer[l].handles[i].n
         /\ \A i \in 1..d : layer[l].updates - layer[l].handles[i].n >= cacheSize_
<1> USE DEF ShowInv
<1> DEFINE hs == layer[l].handles
           hs2 == layer'[l].handles
           k == Len(hs)
           u == layer[l].updates
<1>1. /\ k \in Nat /\ DOMAIN hs = 1..k /\ u \in Nat /\ \A i \in 1..k : hs[i].n \in Nat
      /\ cacheSize_ \in Nat
  BY OfLayer, DisplayAssumption DEF DisplayHandle
<1>2. Len(hs2) = k - d /\ DOMAIN hs2 = 1..k - d /\ \A i \in 1..k - d : hs2[i] = hs[i + d]
  BY DEF DisplayLayer
<1>3. \A i \in 1..k - d : i + d \in 1..k
  BY <1>1
<1>4. /\ \A i, j \in 1..k : i < j => hs[i].n < hs[j].n
      /\ \A i \in 1..k : hs[i].n + k - i <= Pushed(l)
      /\ Pushed(l) \in Int /\ Pushed(l) <= u
  <2>1. Pushed(l) \in Int /\ Pushed(l) <= u
    BY <1>1 DEF Pushed
  <2>2. \A i, j \in 1..k : i < j => hs[i].n < hs[j].n
    BY <1>1 DEF Rises
  <2>3. \A i \in 1..k : hs[i].n + k - i <= Pushed(l)
    BY <1>1 DEF Rises
  <2> QED BY <2>1, <2>2, <2>3
<1>5. Pushed(l)' = Pushed(l)
  BY DEF Pushed
<1>6. d <= k /\ (d = 0 \/ d = k - cacheSize_)
  OBVIOUS
<1>7. \A i \in 1..k : layer[l].at \in {"publish", "push"} => hs[i].n < layer[l].next.n
  BY <1>1, NextIsLast
<1>8. layer[l].next.n \in Nat
  BY OfLayer DEF DisplayHandle
<1>9. /\ \A g : g \in HeldBy(l) <=> \/ \E i \in 1..k : g = hs[i]
                                    \/ layer[l].at \in {"publish", "push"} /\ g = layer[l].next
      /\ \A g : g \in HeldBy(l)' <=> \/ \E i \in 1..k - d : g = hs2[i]
                                     \/ layer[l].at \in {"publish", "push"} /\ g = layer[l].next
  BY <1>1, <1>2 DEF HeldBy
<1> HIDE DEF hs, hs2, k, u
<1>10. \A i \in 1..k - d : hs2[i].n + (k - d) - i <= Pushed(l)
  <2> SUFFICES ASSUME NEW i \in 1..k - d PROVE hs2[i].n + (k - d) - i <= Pushed(l)
    OBVIOUS
  <2>1. hs2[i].n = hs[i + d].n /\ hs[i + d].n \in Nat /\ hs[i + d].n + k - (i + d) <= Pushed(l)
    BY <1>1, <1>2, <1>3, <1>4
  <2> QED BY <2>1, <1>1, <1>4
<1>11. \A i, j \in 1..k - d : i < j => hs2[i].n < hs2[j].n
  <2> SUFFICES ASSUME NEW i \in 1..k - d, NEW j \in 1..k - d, i < j PROVE hs2[i].n < hs2[j].n
    OBVIOUS
  <2>1. i + d \in 1..k /\ j + d \in 1..k /\ i + d < j + d
    BY <1>1, <1>3
  <2> QED BY <2>1, <1>2, <1>4
<1>12. Rises(l)'
  BY <1>2, <1>5, <1>10, <1>11 DEF Rises, hs2
<1>13. HeldBy(l)' \subseteq HeldBy(l)
  BY <1>2, <1>3, <1>9
<1>14. ASSUME NEW g \in HeldBy(l) PROVE g \in HeldBy(l)' \/ \E i \in 1..d : g = hs[i]
  <2>1. CASE layer[l].at \in {"publish", "push"} /\ g = layer[l].next
    BY <2>1, <1>9
  <2>2. CASE \E i \in 1..k : g = hs[i]
    <3>1. PICK i \in 1..k : g = hs[i]
      BY <2>2
    <3>2. CASE i <= d
      BY <3>1, <3>2
    <3>3. CASE i > d
      <4>1. i - d \in 1..k - d /\ (i - d) + d = i
        BY <1>1, <3>3
      <4>2. hs2[i - d] = g
        BY <4>1, <3>1, <1>2
      <4> QED BY <4>1, <4>2, <1>9
    <3> QED BY <3>2, <3>3, <1>1
  <2> QED BY <2>1, <2>2, <1>9
<1>15. ASSUME NEW g \in HeldBy(l)', NEW i \in 1..d PROVE g.n # hs[i].n
  <2>0. i \in 1..k
    BY <1>1, <1>6
  <2>1. CASE layer[l].at \in {"publish", "push"} /\ g = layer[l].next
    BY <2>0, <2>1, <1>1, <1>7, <1>8
  <2>2. CASE \E j \in 1..k - d : g = hs2[j]
    <3>1. PICK j \in 1..k - d : g = hs2[j]
      BY <2>2
    <3>2. g = hs[j + d] /\ j + d \in 1..k /\ i < j + d
      BY <3>1, <1>1, <1>2, <1>3
    <3>3. hs[i].n < g.n /\ hs[i].n \in Nat /\ g.n \in Nat
      BY <2>0, <3>2, <1>1, <1>4
    <3> QED BY <3>3
  <2> QED BY <2>1, <2>2, <1>9
<1>16. ASSUME NEW i \in 1..d PROVE u - hs[i].n >= cacheSize_
  <2>1. i \in 1..k /\ d = k - cacheSize_
    BY <1>1, <1>6
  <2>2. hs[i].n + k - i <= Pushed(l) /\ hs[i].n \in Nat
    BY <2>1, <1>1, <1>4
  <2>3. i <= k - cacheSize_
    BY <2>1
  <2> QED BY <2>1, <2>2, <2>3, <1>1, <1>4
<1> QED BY <1>12, <1>13, <1>14, <1>15, <1>16 DEF hs, u

LEMMA RecycleStep ==
  ASSUME ShowInv, NEW l \in Layers, NEW w, Display!Recycle(w, l)
  PROVE  ShowInv'
<1> USE DEF ShowInv
<1> DEFINE hs == layer[l].handles
           k == Len(hs)
           drop == k - cacheSize_
           d == IF drop > 0 THEN drop ELSE 0
           rest == IF drop > 0 THEN SubSeq(hs, drop + 1, k) ELSE hs
           Dropped(e) == {i \in 1..drop : /\ hs[i].id = e.id
                                          /\ hs[i].generation = e.generation
                                          /\ hs[i].image = e.image}
           Left(e) == [e EXCEPT !.leases = e.leases - Cardinality(Dropped(e))]
           gone == {<<l, hs[i].n>> : i \in 1..d}
<1>1. /\ UNCHANGED <<fbs, generation, layers_, request, pending, screen>>
      /\ entries' = Display!ReleasedFrom(hs, 1..drop)
      /\ layer' = [layer EXCEPT ![l].handles = rest]
  BY DEF Display!Recycle, Display!commit, Display!kernel
<1>2. /\ hs \in Seq(DisplayHandle) /\ k \in Nat /\ DOMAIN hs = 1..k /\ layer[l] \in DisplayLayer
      /\ \A i \in 1..k : hs[i] \in DisplayHandle /\ hs[i].n \in Nat
      /\ cacheSize_ \in Nat
  BY OfLayer, DisplayAssumption DEF DisplayHandle
<1>3. /\ drop \in Int /\ d \in Nat /\ d <= k /\ (d = 0 \/ d = k - cacheSize_) /\ 1..drop = 1..d
  BY <1>2
<1>4. rest \in Seq(DisplayHandle) /\ Len(rest) = k - d /\ \A i \in 1..k - d : rest[i] = hs[i + d]
  <2>1. CASE drop > 0
    <3> DEFINE tail == SubSeq(hs, drop + 1, k)
    <3>1. drop + 1 \in Int /\ k \in Int /\ d = drop /\ drop <= k
      BY <1>2, <2>1
    <3>2. \A i \in drop + 1..k : hs[i] \in DisplayHandle
      BY <1>2, <2>1
    <3>3. /\ tail \in Seq(DisplayHandle)
          /\ Len(tail) = IF drop + 1 <= k THEN k - (drop + 1) + 1 ELSE 0
          /\ \A i \in 1..k - (drop + 1) + 1 : tail[i] = hs[drop + 1 + i - 1]
      BY <3>1, <3>2, SubSeqProperties
    <3>4. rest = tail
      BY <2>1
    <3> HIDE DEF tail, rest, hs, k, drop, d
    <3>5. k - (drop + 1) + 1 = k - d /\ Len(tail) = k - d
      BY <3>1, <3>3, <1>2, <1>3
    <3>6. \A i \in 1..k - d : drop + 1 + i - 1 = i + d
      BY <3>1, <1>2, <1>3
    <3> QED BY <3>3, <3>4, <3>5, <3>6
  <2>2. CASE ~(drop > 0)
    <3>1. rest = hs /\ d = 0
      BY <2>2
    <3> HIDE DEF rest, hs, d
    <3>2. k - d = k /\ \A i \in 1..k : i + d = i
      BY <3>1, <1>2
    <3> QED BY <3>1, <3>2, <1>2
  <2> QED BY <2>1, <2>2
<1>5. \A e : Display!Cardinality(Dropped(e)) = Cardinality(Dropped(e))
  BY DEF Display!Cardinality, Cardinality, Display!IsFiniteSet, IsFiniteSet
<1>6. entries' = {Left(e) : e \in entries}
  <2>1. Display!ReleasedFrom(hs, 1..drop)
          = {[e EXCEPT !.leases = e.leases - Display!Cardinality(Dropped(e))] : e \in entries}
    BY DEF Display!ReleasedFrom
  <2>2. \A e : [e EXCEPT !.leases = e.leases - Display!Cardinality(Dropped(e))] = Left(e)
    <3> HIDE DEF Dropped
    <3> QED BY <1>5
  <2> HIDE DEF Dropped, Left
  <2> QED BY <1>1, <2>1, <2>2
<1>7. \A e : Dropped(e) \subseteq 1..d /\ IsFiniteSet(Dropped(e)) /\ Cardinality(Dropped(e)) \in Nat
  <2> SUFFICES ASSUME NEW e
               PROVE  Dropped(e) \subseteq 1..d /\ IsFiniteSet(Dropped(e)) /\ Cardinality(Dropped(e)) \in Nat
    OBVIOUS
  <2>1. Dropped(e) \subseteq 1..d
    BY <1>3
  <2>2. IsFiniteSet(1..d)
    BY <1>3, FS_Interval
  <2>3. IsFiniteSet(Dropped(e))
    <3> HIDE DEF Dropped, d
    <3> QED BY <2>1, <2>2, FS_Subset
  <2>4. Cardinality(Dropped(e)) \in Nat
    <3> HIDE DEF Dropped
    <3> QED BY <2>3, FS_CardinalityType
  <2> QED BY <2>1, <2>3, <2>4
<1>8. \A e \in entries : /\ Left(e) \in DisplayEntry /\ Left(e).id = e.id
                         /\ Left(e).generation = e.generation /\ Left(e).image = e.image
                         /\ Left(e).leases = e.leases - Cardinality(Dropped(e))
  <2> HIDE DEF Dropped
  <2> QED BY <1>7 DEF CacheTypes, DisplayEntry
<1>9. /\ layer' \in [Layers -> DisplayLayer] /\ layer'[l].handles = rest
      /\ layer'[l].at = layer[l].at /\ layer'[l].next = layer[l].next
      /\ layer'[l].updates = layer[l].updates /\ layer'[l].fb = layer[l].fb
      /\ \A m \in Layers : m # l => layer'[m] = layer[m]
  <2> HIDE DEF rest
  <2> QED BY <1>1, <1>4 DEF LayerTypes, DisplayLayer
<1>10. \A e, i : i \in Dropped(e) <=> i \in 1..d /\ Matches(e, hs[i])
  BY <1>3 DEF Matches
<1>11. \A p : p \in gone <=> \E i \in 1..d : p = <<l, hs[i].n>>
  OBVIOUS
<1> HIDE DEF rest, Dropped, Left, gone, d, drop
<1>12. /\ Rises(l)' /\ HeldBy(l)' \subseteq HeldBy(l)
       /\ \A g \in HeldBy(l) : g \in HeldBy(l)' \/ \E i \in 1..d : g = hs[i]
       /\ \A g \in HeldBy(l)' : \A i \in 1..d : g.n # hs[i].n
       /\ \A i \in 1..d : layer[l].updates - hs[i].n >= cacheSize_
  BY <1>3, <1>4, <1>9, FrontIsOld
<1>13. LayerTypes' /\ ScreenTypes'
  BY <1>1, <1>9 DEF LayerTypes, ScreenTypes
<1>14. CacheTypes'
  BY <1>1, <1>6, <1>8 DEF CacheTypes
<1>15. layer'[l].updates >= layer[l].updates
  BY <1>9, OfLayer
<1>16. \A g \in HeldBy(l) : g \in HeldBy(l)' \/ layer'[l].updates - g.n >= cacheSize_
  BY <1>9, <1>12
<1>17. /\ \A m \in Layers : Rises(m)'
       /\ \A m \in Layers : m # l => HeldBy(m)' = HeldBy(m)
       /\ PlacesInv'
  BY <1>1, <1>9, <1>12, <1>13, <1>15, <1>16, LayerMoves
<1>18. \A i \in 1..d : i \in 1..k /\ hs[i] \in HeldBy(l)
  BY <1>2, <1>3 DEF HeldBy
<1>19. \A m \in Layers : HeldBy(m)' \subseteq HeldBy(m)
  BY <1>12, <1>17
\* The holders that are left are those whose handles were not given back.
<1>20. ASSUME NEW e PROVE HoldersOf(e)' = HoldersOf(e) \ gone
  <2>1. ASSUME NEW p \in Layers \X Nat
        PROVE  p \in HoldersOf(e)' <=> p \in HoldersOf(e) /\ p \notin gone
    <3>1. p \in HoldersOf(e) <=> \E g \in HeldBy(p[1]) : g.n = p[2] /\ Matches(e, g)
      BY DEF HoldersOf
    <3>2. p \in HoldersOf(e)' <=> \E g \in HeldBy(p[1])' : g.n = p[2] /\ Matches(e, g)
      BY DEF HoldersOf, Matches
    <3>3. CASE p[1] # l
      <4>1. HeldBy(p[1])' = HeldBy(p[1])
        BY <1>17, <3>3 DEF HeldBy
      <4>2. p \notin gone
        BY <1>11, <3>3
      <4> QED BY <3>1, <3>2, <4>1, <4>2
    <3>4. CASE p[1] = l
      <4>1. HeldBy(p[1])' = HeldBy(l)' /\ HeldBy(p[1]) = HeldBy(l)
        BY <3>4 DEF HeldBy
      <4>2. p \in gone <=> \E i \in 1..d : p[2] = hs[i].n
        BY <1>11, <3>4
      <4> HIDE DEF hs
      <4>3. ASSUME NEW g \in HeldBy(l)', g.n = p[2] PROVE p \notin gone /\ g \in HeldBy(l)
        BY <1>12, <4>2, <4>3
      <4>4. ASSUME NEW g \in HeldBy(l), g.n = p[2], p \notin gone PROVE g \in HeldBy(l)'
        BY <1>12, <4>2, <4>4
      <4> QED BY <3>1, <3>2, <4>1, <4>3, <4>4
    <3> QED BY <3>3, <3>4
  <2>2. HoldersOf(e) \subseteq Layers \X Nat /\ HoldersOf(e)' \subseteq Layers \X Nat
    BY DEF HoldersOf
  <2> QED BY <2>1, <2>2
<1>26. \A i, j \in 1..k : i < j => hs[i].n < hs[j].n
  BY <1>2 DEF Rises
\* As many as the positions that were counted.
<1>21. ASSUME NEW e
       PROVE  IsFiniteSet(HoldersOf(e) \cap gone)
              /\ Cardinality(HoldersOf(e) \cap gone) = Cardinality(Dropped(e))
  <2> DEFINE f == [i \in Dropped(e) |-> <<l, hs[i].n>>]
             T == HoldersOf(e) \cap gone
  <2>1. ASSUME NEW i \in Dropped(e) PROVE f[i] \in T
    <3>1. i \in 1..d /\ Matches(e, hs[i]) /\ f[i] = <<l, hs[i].n>>
      BY <1>10
    <3>2. hs[i] \in HeldBy(l) /\ hs[i].n \in Nat
      BY <3>1, <1>2, <1>18
    <3>3. <<l, hs[i].n>> \in HoldersOf(e)
      BY <3>1, <3>2 DEF HoldersOf
    <3> QED BY <3>1, <3>3, <1>11
  <2>2. ASSUME NEW i \in Dropped(e), NEW j \in Dropped(e), f[i] = f[j] PROVE i = j
    <3>1. i \in 1..k /\ j \in 1..k
      BY <1>10, <1>18
    <3>2. hs[i].n = hs[j].n /\ hs[i].n \in Nat
      BY <2>2, <3>1, <1>2
    <3>3. ~(i < j) /\ ~(j < i)
      BY <3>1, <3>2, <1>26
    <3> QED BY <3>1, <3>3, <1>2
  <2>3. ASSUME NEW p \in T PROVE \E i \in Dropped(e) : f[i] = p
    <3>1. PICK i \in 1..d : p = <<l, hs[i].n>>
      BY <1>11
    <3>2. PICK g \in HeldBy(l) : g.n = hs[i].n /\ Matches(e, g)
      BY <3>1 DEF HoldersOf
    <3>3. g = hs[i]
      BY <3>2, <1>18, HeldAreApart
    <3> QED BY <3>1, <3>2, <3>3, <1>10
  <2>4. f \in [Dropped(e) -> T]
    BY <2>1
  <2>5. IsFiniteSet(Dropped(e))
    BY <1>7
  <2> HIDE DEF f, T
  <2>6. IsFiniteSet(T) /\ Cardinality(T) = Cardinality(Dropped(e))
    BY <2>2, <2>3, <2>4, <2>5, SameSize
  <2> QED BY <2>6 DEF T
<1>22. (\A e \in entries : fbs[e.id] = e.image)'
  BY <1>1, <1>6, <1>8 DEF EntriesInv
<1>23. (\A e, f \in entries :
          e.id = f.id \/ (e.generation = f.generation /\ e.image = f.image) => e = f)'
  BY <1>6, <1>8 DEF EntriesInv
<1>24. (\A m \in Layers : \A g \in HeldBy(m) : \E e \in entries : Matches(e, g))'
  <2> SUFFICES ASSUME NEW m \in Layers, NEW g \in HeldBy(m)' PROVE \E e \in entries' : Matches(e, g)
    BY DEF Matches
  <2>1. PICK e \in entries : Matches(e, g)
    BY <1>19 DEF EntriesInv
  <2>2. Matches(Left(e), g)
    BY <2>1, <1>8 DEF Matches
  <2> QED BY <2>2, <1>6
<1>25. (\A e \in entries : IsFiniteSet(HoldersOf(e)) /\ e.leases = Cardinality(HoldersOf(e)))'
  <2> SUFFICES ASSUME NEW x \in entries'
               PROVE  IsFiniteSet(HoldersOf(x)') /\ x.leases = Cardinality(HoldersOf(x)')
    OBVIOUS
  <2>0. PICK e \in entries : x = Left(e)
    BY <1>6
  <2>1. HoldersOf(x) = HoldersOf(e)
    BY <2>0, <1>8 DEF HoldersOf, Matches
  <2>2. HoldersOf(x)' = HoldersOf(e) \ gone
    BY <2>1, <1>20
  <2>3. IsFiniteSet(HoldersOf(e)) /\ e.leases = Cardinality(HoldersOf(e))
    BY DEF EntriesInv
  <2>4. IsFiniteSet(HoldersOf(e) \ gone) /\ Cardinality(HoldersOf(e) \ gone)
          = Cardinality(HoldersOf(e)) - Cardinality(HoldersOf(e) \cap gone)
    BY <2>3, FS_Difference
  <2> QED BY <2>0, <2>2, <2>3, <2>4, <1>8, <1>21
<1> QED BY <1>13, <1>14, <1>17, <1>22, <1>23, <1>24, <1>25 DEF EntriesInv

-----------------------------------------------------------------------------
LEMMA ShowKeeps ==
  ASSUME ShowInv, [Display!Next]_displayVars
  PROVE  ShowInv'
BY CopyStep, CommitRequestStep, FlipStep, ClearStep, UpdateStep, AcquireHitStep, AcquireMissStep,
   PublishStep, PushStep, RecycleStep
   DEF Display!Next, Display!LoopStep, Display!CommitStep, Display!Hotplug

LEMMA ShownIsKept == ShowInv => Display!ShownIsLeased
<1> SUFFICES ASSUME ShowInv, NEW l \in Layers, NEW h \in {pending[l], screen[l]},
                    h # Display!NoHandle, layer[l].updates - h.n < cacheSize_
             PROVE  Display!Leased(h)
  BY DEF Display!ShownIsLeased
<1> USE DEF ShowInv
<1>1. PICK g \in HeldBy(l) : Alike(h, g)
  BY DEF PlacesInv, Kept
<1>2. PICK e \in entries : Matches(e, g)
  BY DEF EntriesInv
<1>3. g.n \in Nat
  BY HeldAreApart DEF DisplayHandle
<1>4. <<l, g.n>> \in HoldersOf(e)
  BY <1>2, <1>3 DEF HoldersOf
<1>5. IsFiniteSet(HoldersOf(e)) /\ e.leases = Cardinality(HoldersOf(e))
  BY DEF EntriesInv
<1>6. Cardinality(HoldersOf(e)) # 0 /\ Cardinality(HoldersOf(e)) \in Nat
  BY <1>4, <1>5, FS_EmptySet, FS_CardinalityType
<1>7. e.leases > 0
  BY <1>5, <1>6
<1> QED BY <1>1, <1>2, <1>7 DEF Display!Leased, Display!Same, Alike, Matches, EntriesInv

\* What a plane shows or is about to show is a framebuffer that its layer still
\* leases, with the image it was given, as long as it is one of the layer's
\* newest cacheSize_ updates: whatever the cache collects and whoever releases.
THEOREM ScreenIsLeased == PartsSpec => []ShownIsLeased
<1> DEFINE Inv == part = "display" => ShowInv
<1>1. PartsInit => Inv
  BY ShowInit DEF PartsInit
<1>2. Inv /\ [PartsNext]_partsVars => Inv'
  BY PartStays, DisplayAlone, ShowKeeps
<1>3. Inv => ShownIsLeased
  BY ShownIsKept DEF ShownIsLeased
<1> QED BY <1>1, <1>2, <1>3, PTL DEF PartsSpec
=============================================================================
