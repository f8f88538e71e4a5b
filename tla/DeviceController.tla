-------------------------- MODULE DeviceController --------------------------
(***************************************************************************)
(* The DRM device controller's picture of the hardware: which connectors   *)
(* have a display, which CRTC drives each of them, and which planes a CRTC *)
(* can use.  Displays are plugged in and out while it looks, and any call  *)
(* to the driver may fail.                                                 *)
(***************************************************************************)
EXTENDS Integers, Sequences, FiniteSets

CONSTANTS
  Encoders,         \* for every connector, its encoders: the CRTCs each can use
  Planes,           \* [id, kind, formats, crtcs]
  Clients,          \* threads that look for planes
  Stranger,         \* any other thread
  Kinds, Formats,   \* what they ask for; format 0 is any
  MaxPlugs,         \* bound: displays plugged in or out
  MaxAsks,          \* bound: calls of the clients
  NoRes             \* a null pointer

VARIABLES
  fd_ptr,           \* "none", "making" (in the constructor), "ready"
  present, lit,     \* the driver: its connectors, and those with a display
  link,             \* the driver: the CRTC of every connector, or 0
  resources_, planeResources_,
  refreshing,       \* refreshAllDevices holds its four mutexes
  todo,             \* the connectors it has yet to look at
  crtcStatu,        \* the CRTCs given away in this refresh
  tempDevices, devices_,  \* sequences of [connector, crtc]
  planesCache_,     \* [id, kind, formats] of the planes of one CRTC
  seeker,           \* [at, crtc, found, mixed] of every client
  plugs, asks

driver == <<present, lit, link, plugs>>
resources == <<resources_, planeResources_>>
enumeration == <<refreshing, todo, crtcStatu, tempDevices, devices_>>
planes == <<planesCache_, seeker, asks>>
deviceVars == <<fd_ptr, driver, resources, enumeration, planes>>

Connectors == DOMAIN Encoders
Idle == [at |-> "idle", crtc |-> 0, found |-> {}, mixed |-> FALSE]

Init ==
  /\ fd_ptr = "none"
  /\ present = Connectors /\ lit = {} /\ link = [c \in Connectors |-> 0] /\ plugs = 0
  /\ resources_ = NoRes /\ planeResources_ = NoRes
  /\ refreshing = FALSE /\ todo = <<>> /\ crtcStatu = {}
  /\ tempDevices = <<>> /\ devices_ = <<>>
  /\ planesCache_ = {} /\ seeker = [k \in Clients |-> Idle] /\ asks = 0

(***************************************************************************)
(* The driver                                                              *)
(***************************************************************************)
\* A display is plugged in or out; the link to the CRTC stays as it was.
Plug ==
  /\ plugs < MaxPlugs /\ plugs' = plugs + 1
  /\ \E c \in present : lit' = (lit \ {c}) \cup ({c} \ lit)
  /\ UNCHANGED <<fd_ptr, present, link, resources, enumeration, planes>>

\* A connector behind a hub goes for good.
Vanish ==
  /\ plugs < MaxPlugs /\ plugs' = plugs + 1
  /\ \E c \in present :
       present' = present \ {c} /\ lit' = lit \ {c} /\ link' = [link EXCEPT ![c] = 0]
  /\ UNCHANGED <<fd_ptr, resources, enumeration, planes>>

\* The atomic commit links a connector.  With another connector on the CRTC the
\* driver may refuse, or show both the same.
DriverBinds(c, crtc) ==
  c \in present /\ link' = [link EXCEPT ![c] = crtc] /\ UNCHANGED <<present, lit, plugs>>

(***************************************************************************)
(* create, and the two refreshes the constructor and every hot-plug call   *)
(***************************************************************************)
\* With one path: an open, a capability or the atomic mode may fail.
Create ==
  /\ fd_ptr = "none" /\ fd_ptr' = "making"
  /\ UNCHANGED <<driver, resources, enumeration, planes>>

\* The driver lists its connectors in any order.
Orders(S) == {s \in [1..Cardinality(S) -> S] : \A i, j \in DOMAIN s : i # j => s[i] # s[j]}

\* Each of the two lists keeps what it was when the driver fails; without the
\* capability for universal planes the driver tells of overlays only.
RefreshResources ==
  /\ fd_ptr # "none" /\ ~refreshing
  /\ resources_' \in Orders(present)
  /\ planeResources_' \in {planeResources_, Planes, {p \in Planes : p.kind = "overlay"}}
  /\ UNCHANGED <<fd_ptr, driver, enumeration, planes>>

BeginRefresh ==
  /\ fd_ptr # "none" /\ ~refreshing
  /\ IF resources_ = NoRes
     THEN fd_ptr' = "ready" /\ UNCHANGED enumeration
     ELSE /\ refreshing' = TRUE /\ todo' = resources_
          /\ crtcStatu' = {} /\ tempDevices' = <<>> /\ UNCHANGED <<fd_ptr, devices_>>
  /\ UNCHANGED <<driver, resources, planes>>

\* setUpDevice: the first CRTC that is free, along the encoders that can be read.
FreeAlong(c, readable) ==
  {p \in readable \X UNION {Encoders[c][i] : i \in readable} :
     p[2] \in Encoders[c][p[1]] \ crtcStatu}
Before(a, b) == a[1] < b[1] \/ (a[1] = b[1] /\ a[2] <= b[2])
FirstFree(c, readable) ==
  {p[2] : p \in {q \in FreeAlong(c, readable) : \A r \in FreeAlong(c, readable) : Before(q, r)}}

(* Mutant of SetUpDevice: the active CRTC is taken without a look at the    *)
(* record.                                                                  *)
SetUpDeviceUnlooked(c, active, readable) ==
  IF active # 0 THEN {active} ELSE FirstFree(c, readable)

\* The CRTC the connector already has, unless an earlier connector got it.
SetUpDevice(c, active, readable) ==
  IF active \notin crtcStatu \cup {0} THEN {active} ELSE FirstFree(c, readable)

Looked == todo' = Tail(todo) /\ UNCHANGED <<fd_ptr, refreshing, devices_, resources, planes>>

\* Nothing is read from the connector, it has no display, no mode, or no CRTC.
Ignore ==
  /\ refreshing /\ todo # <<>> /\ Looked
  /\ UNCHANGED <<driver, crtcStatu, tempDevices>>

\* The CRTC stays recorded when the commit fails, and the device is dropped.
BindConn2Crtc ==
  /\ refreshing /\ todo # <<>> /\ Looked
  /\ LET c == Head(todo) IN
     /\ c \in lit
     /\ \E active \in {link[c], 0}, readable \in SUBSET DOMAIN Encoders[c] :
        \E crtc \in SetUpDevice(c, active, readable) :
          /\ crtcStatu' = crtcStatu \cup {crtc}
          /\ \/ DriverBinds(c, crtc)
                /\ tempDevices' = Append(tempDevices, [connector |-> c, crtc |-> crtc])
             \/ UNCHANGED <<driver, tempDevices>>

EndRefresh ==
  /\ refreshing /\ todo = <<>>
  /\ refreshing' = FALSE /\ devices_' = tempDevices /\ tempDevices' = <<>>
  /\ fd_ptr' = "ready"
  /\ UNCHANGED <<driver, resources, todo, crtcStatu, planes>>

(***************************************************************************)
(* The planes of a device's CRTC                                           *)
(***************************************************************************)
\* getPlaneType: the property "type", or -1.
KindOf(p, told) == IF p \in told THEN p.kind ELSE "unknown"

\* Planes that cannot be read are left out.  The cache is the controller's, not
\* the client's: another client's planes are replaced under it.
RefreshPlane(k) ==
  /\ fd_ptr = "ready" /\ ~refreshing /\ asks < MaxAsks /\ asks' = asks + 1
  /\ \E i \in DOMAIN devices_ :
     LET crtc == devices_[i].crtc IN
     /\ IF planeResources_ = NoRes THEN UNCHANGED planesCache_
        ELSE \E read \in SUBSET planeResources_ : \E told \in SUBSET read :
               planesCache_' = {[id |-> p.id, kind |-> KindOf(p, told), formats |-> p.formats] :
                                 p \in {q \in read : crtc \in q.crtcs}}
     /\ seeker' = [m \in Clients |->
          IF m = k THEN [at |-> "asks", crtc |-> crtc, found |-> {}, mixed |-> FALSE]
          ELSE [seeker[m] EXCEPT !.mixed = TRUE]]
  /\ UNCHANGED <<fd_ptr, driver, resources, enumeration>>

IsFormatSupported(format, p) == format = 0 \/ format \in p.formats

\* An empty cache leaves the caller's list as it was.
GetPossiblePlane(k) ==
  /\ seeker[k].at = "asks"
  /\ \E kind \in Kinds, format \in Formats :
       seeker' = [seeker EXCEPT ![k].at = "idle",
         ![k].found = {p.id : p \in {q \in planesCache_ :
            q.kind = kind /\ IsFormatSupported(format, q)}}]
  /\ UNCHANGED <<fd_ptr, driver, resources, enumeration, planesCache_, asks>>

Next ==
  \/ Plug \/ Vanish \/ Create \/ RefreshResources
  \/ BeginRefresh \/ Ignore \/ BindConn2Crtc \/ EndRefresh
  \/ \E k \in Clients \cup {Stranger} : RefreshPlane(k)
  \/ \E k \in Clients : GetPossiblePlane(k)

Spec == Init /\ [][Next]_deviceVars

\* However displays come and go, and whatever the driver refuses: two devices
\* never share a connector or a CRTC, the driver shows every device of the list
\* on the CRTC the list says, and the planes a client was given belong to the
\* CRTC of its device, unless another client asked for planes in between.
DevicesAreBound ==
  /\ \A i, j \in DOMAIN devices_ : i # j =>
       devices_[i].crtc # devices_[j].crtc /\ devices_[i].connector # devices_[j].connector
  /\ ~refreshing => \A i \in DOMAIN devices_ :
       devices_[i].connector \in present => link[devices_[i].connector] = devices_[i].crtc
  /\ \A k \in Clients : ~seeker[k].mixed =>
       \A p \in Planes : p.id \in seeker[k].found => seeker[k].crtc \in p.crtcs
=============================================================================
