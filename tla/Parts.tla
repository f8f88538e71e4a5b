------------------------------ MODULE Parts -------------------------------
(***************************************************************************)
(* The components that do not call each other, in one model: a behaviour   *)
(* chooses one of them at the start, the others stay in their initial      *)
(* states, and none of their actions is taken.  The snapshots are extended,  *)
(* the others are instances.                                                *)
(***************************************************************************)
EXTENDS JpegEncoder

CONSTANTS Parts, Nil,
  Buffers, CameraFailures, ByHand, MaxFrames, Attempts,
  Producers, Consumers, Requested, MaxId, Policies,
  Threads, Limit, MaxItems, FullPolicies,
  LogThreads, Capacity, Wrap, LogPolicies, Modes, Levels, MaxMessages, MaxInits,
  Layers, Images, cacheSize_, Handlers, Descriptors, MaxUpdates, MaxCommits,
  Callers, UdevKeys, MaxHandlers, MaxStops, MaxDeviceEvents, MaxErrors,
  Watchers, Readers, Width, Height, Values, MaxEvents, MaxCalls,
  ParamControls, Lowest, Highest, Wanted, MaxTargets, MaxFailures,
  Libraries, Names, HandlerNames, Methods, Paths, MaxPlugins, MaxRoutes,
  Objects, Views, Memories, Numbers, Alignments,
  Pools, PoolThreads, CacheSize, Batch, PageBlocks, MaxPages,
  MaxWrites, MaxTime, MaxClientCalls,
  Clients, Encoders, Planes, Kinds, Formats, MaxPlugs, MaxAsks,
  Streams, StreamMethods, Versions, ContentLength, Answers, Chunk, SendfileWorks

VARIABLES part,
  phase, memory_type, buffers, running, paused, is_destroying, thread, callback,
  cameraCapture, control, inside, driver, streaming, queued, frames, lost,
  policy, nextId, filled, frame_id, data_, expected_id_, producer, consumer, taken, torn, shared,
  onFull, offered, ring, head_, tail_, size_, shutdown_, place, mutex, closing, missed,
  logInitialized, mode, logPolicy, queue, contents, queued_count_, logging, worker, hand,
  init_mutex_, inLog, message, wants, uses, sent, inits, pushed, written, dropped,
  entries, fbs, generation, layer, layers_, request, fence, committer, pending, screen,
  signalled, fd_callbacks_, polled, loop, watching, toTell, hot, commits, watched, told,
  running_, worker_, held, open, handlers_, inUdev, inRun, occurred, inHand, snapshot,
  lastTriggerTime, jobs, stops, devEvents, errors, crossed,
  watchRuns, paused_, tokens, mouseFd, screenSize, events, sequence, watch, client, replug,
  reader, delivered, called, latest, doubled,
  applying, pendingControls_, currentControls_, paramLoop, temp, changed, all_success, device,
  asked, refused, strayed,
  document, stage, opened, handle, rawPlugin, registered, plugins, bound, table,
  handles, files, mapped, born, unclosed, lent, objects, views, making,
  freelist, cache, owner, out, pages, putting,
  clock, file, fileConfig, config_file_, last_modified_, hasCallback, announced, loading, checking,
  updates, seen, unseen,
  fd_ptr, present, lit, link, resources_, planeResources_, refreshing, todo, crtcStatu,
  tempDevices, devices_, planesCache_, seeker, plugs, asks,
  messages, arrived, in, isHttp, inLoop, req, requests, given, outgoing, wantWrite, hasToClose,
  connected, wire, peerGone, sendfile

ASSUME CameraAssumption == Attempts \in Nat /\ Nil \notin Buffers
ASSUME DmaAssumption ==
  /\ IsFiniteSet(Numbers) /\ Numbers = 1..Cardinality(Numbers)
  /\ IsFiniteSet(Memories) /\ Memories = 1..Cardinality(Memories)
  /\ IsFiniteSet(Objects)
ASSUME ServerAssumption == Nil \notin Libraries /\ MaxPlugins \in Nat /\ MaxRoutes \in Nat
ASSUME DisplayAssumption == IsFiniteSet(Layers) /\ cacheSize_ \in Nat /\ Nil \notin Images
ASSUME MouseAssumption == Values \subseteq Int /\ Width \in Int /\ Height \in Int
ASSUME RingAssumption == Requested \in 0..1024
ASSUME PoolsAssumption == CacheSize \in Nat /\ Batch \in 1..CacheSize /\ PageBlocks \in Nat \ {0}

Camera == INSTANCE CameraController WITH
  None <- Nil, Failures <- CameraFailures, capture <- cameraCapture
Ordered == INSTANCE OrderedQueue WITH Nothing <- Nil
Safe == INSTANCE SafeQueue WITH Empty <- Nil
Log == INSTANCE Logger WITH
  Threads <- LogThreads, Policies <- LogPolicies, policy <- logPolicy, running_ <- logging,
  place <- inLog, accepted <- pushed, initialized_ <- logInitialized
Display == INSTANCE Display WITH Dark <- Nil
Udev == INSTANCE UdevMonitor WITH
  Keys <- UdevKeys, MaxEvents <- MaxDeviceEvents, at <- inUdev, loop <- inRun, hand <- inHand,
  events <- devEvents
Mouse == INSTANCE MouseWatcher WITH
  running <- watchRuns, screen <- screenSize, hot <- replug
Param == INSTANCE ParamProcessor WITH
  Controls <- ParamControls, running_ <- applying, thread <- paramLoop
Server == INSTANCE ConfiguredServer WITH Missing <- Nil
Dma == INSTANCE DmaBuffer
Memory == INSTANCE MemoryPool WITH Nobody <- Nil
Config == INSTANCE LoggerConfig WITH
  Absent <- Nil, MaxUpdates <- MaxClientCalls, told <- announced, config_ <- fileConfig

Devices == INSTANCE DeviceController WITH
  NoRes <- Nil, Stranger <- Nil

Http == INSTANCE HttpConnection WITH
  Methods <- StreamMethods, Leaves <- TRUE, at <- inLoop, out <- outgoing, closing <- hasToClose, open <- connected

cameraVars == <<phase, memory_type, buffers, running, paused, is_destroying, thread,
  callback, cameraCapture, control, inside, driver, streaming, queued, frames, lost>>
orderVars == <<policy, nextId, filled, frame_id, data_, expected_id_, producer, consumer,
  taken, torn, shared>>
safeVars == <<onFull, offered, ring, head_, tail_, size_, shutdown_, place, mutex, closing, missed>>
logVars == <<logInitialized, mode, logPolicy, queue, contents, queued_count_, logging, worker,
  hand, init_mutex_, inLog, message, wants, uses, sent, inits, pushed, written, dropped>>
displayVars == <<entries, fbs, generation, layer, layers_, request, fence, committer, pending,
  screen, signalled, fd_callbacks_, polled, loop, watching, toTell, hot, commits, watched, told>>
udevVars == <<running_, worker_, held, open, handlers_, inUdev, inRun, occurred, inHand, snapshot,
  lastTriggerTime, jobs, stops, devEvents, errors, crossed>>
mouseVars == <<watchRuns, paused_, tokens, mouseFd, screenSize, events, sequence, watch, client,
  replug, reader, delivered, called, latest, doubled>>
paramVars == <<applying, pendingControls_, currentControls_, paramLoop, temp, changed,
  all_success, device, asked, refused, strayed>>
serverVars == <<document, stage, opened, handle, rawPlugin, registered, plugins, bound, table>>
dmaVars == <<handles, files, mapped, born, unclosed, lent, objects, views, making>>
memoryVars == <<freelist, cache, owner, out, pages, putting>>
configVars == <<clock, file, fileConfig, config_file_, last_modified_, hasCallback, announced,
  loading, checking, updates, seen, unseen>>
deviceVars == <<fd_ptr, present, lit, link, resources_, planeResources_, refreshing, todo,
  crtcStatu, tempDevices, devices_, planesCache_, seeker, plugs, asks>>
httpVars == <<messages, arrived, in, isHttp, inLoop, req, requests, given, outgoing, wantWrite,
  hasToClose, connected, wire, peerGone, sendfile>>

PartsInit ==
  /\ part \in Parts
  /\ Camera!Init /\ (part = "camera" \/ memory_type = "mmap")
  /\ Ordered!Init /\ (part = "ordered" \/ policy = "block")
  /\ Safe!Init /\ (part = "safe" \/ onFull = "block")
  /\ Mouse!Init /\ (part = "mouse" \/ ~mouseFd)
  /\ Param!Init /\ (part = "param" \/ \A c \in ParamControls : device[c] = Lowest)
  /\ IF part = "server" THEN Server!Init ELSE Server!InitWith(Nil)
  /\ Log!Init /\ Display!Init /\ Udev!Init /\ Dma!Init /\ Memory!Init /\ Config!Init
  /\ Devices!Init
  /\ Http!Init /\ (part = "http" \/
       (messages = (CHOOSE m \in Streams : TRUE) /\ sendfile = (CHOOSE w \in SendfileWorks : TRUE)))
  /\ Init

\* The other parts rest.
threadVars == <<cameraVars, orderVars, safeVars, logVars, displayVars, udevVars, mouseVars>>
dataVars == <<paramVars, serverVars, dmaVars, memoryVars, configVars, deviceVars,
  httpVars, vars>>

BesideTheCamera ==
  UNCHANGED <<orderVars, safeVars, logVars, displayVars, udevVars, mouseVars, dataVars>>
BesideTheOrdered ==
  UNCHANGED <<cameraVars, safeVars, logVars, displayVars, udevVars, mouseVars, dataVars>>
BesideTheSafe ==
  UNCHANGED <<cameraVars, orderVars, logVars, displayVars, udevVars, mouseVars, dataVars>>
BesideTheLog ==
  UNCHANGED <<cameraVars, orderVars, safeVars, displayVars, udevVars, mouseVars, dataVars>>
BesideTheDisplay ==
  UNCHANGED <<cameraVars, orderVars, safeVars, logVars, udevVars, mouseVars, dataVars>>
BesideTheUdev ==
  UNCHANGED <<cameraVars, orderVars, safeVars, logVars, displayVars, mouseVars, dataVars>>
BesideTheMouse ==
  UNCHANGED <<cameraVars, orderVars, safeVars, logVars, displayVars, udevVars, dataVars>>
BesideTheParam ==
  UNCHANGED <<serverVars, dmaVars, memoryVars, configVars, deviceVars, httpVars, vars,
    threadVars>>
BesideTheServer ==
  UNCHANGED <<paramVars, dmaVars, memoryVars, configVars, deviceVars, httpVars, vars,
    threadVars>>
BesideTheDma ==
  UNCHANGED <<paramVars, serverVars, memoryVars, configVars, deviceVars, httpVars, vars,
    threadVars>>
BesideTheMemory ==
  UNCHANGED <<paramVars, serverVars, dmaVars, configVars, deviceVars, httpVars, vars,
    threadVars>>
BesideTheConfig ==
  UNCHANGED <<paramVars, serverVars, dmaVars, memoryVars, deviceVars, httpVars, vars,
    threadVars>>
BesideTheDevices ==
  UNCHANGED <<paramVars, serverVars, dmaVars, memoryVars, configVars, httpVars, vars,
    threadVars>>

BesideTheHttp == UNCHANGED <<paramVars, serverVars, dmaVars, memoryVars, configVars,
    deviceVars, vars, threadVars>>
BesideTheJpeg == UNCHANGED <<paramVars, serverVars, dmaVars, memoryVars, configVars,
    deviceVars, httpVars, threadVars>>

CameraPart == part = "camera" /\ Camera!Next /\ UNCHANGED part /\ BesideTheCamera
OrderedPart == part = "ordered" /\ Ordered!Next /\ UNCHANGED part /\ BesideTheOrdered
SafePart == part = "safe" /\ Safe!Next /\ UNCHANGED part /\ BesideTheSafe
LogPart == part = "log" /\ Log!Next /\ UNCHANGED part /\ BesideTheLog
DisplayPart == part = "display" /\ Display!Next /\ UNCHANGED part /\ BesideTheDisplay
UdevPart == part = "udev" /\ Udev!Next /\ UNCHANGED part /\ BesideTheUdev
MousePart == part = "mouse" /\ Mouse!Next /\ UNCHANGED part /\ BesideTheMouse
ParamPart == part = "param" /\ Param!Next /\ UNCHANGED part /\ BesideTheParam
ServerPart == part = "server" /\ Server!Next /\ UNCHANGED part /\ BesideTheServer
DmaPart == part = "dma" /\ Dma!Next /\ UNCHANGED part /\ BesideTheDma
MemoryPart == part = "memory" /\ Memory!Next /\ UNCHANGED part /\ BesideTheMemory
ConfigPart == part = "config" /\ Config!Next /\ UNCHANGED part /\ BesideTheConfig
DevicesPart == part = "devices" /\ Devices!Next /\ UNCHANGED part /\ BesideTheDevices
HttpPart == part = "http" /\ Http!Next /\ UNCHANGED part /\ BesideTheHttp
JpegPart == part = "jpeg" /\ Next /\ UNCHANGED part /\ BesideTheJpeg
ContextPart == part = "context" /\ ContextNext /\ UNCHANGED <<part, jpegVars>> /\ BesideTheJpeg

PartsNext ==
  \/ CameraPart \/ OrderedPart \/ SafePart \/ LogPart \/ DisplayPart \/ UdevPart \/ MousePart
  \/ ParamPart \/ ServerPart \/ DmaPart \/ MemoryPart \/ ConfigPart
  \/ DevicesPart \/ HttpPart \/ JpegPart \/ ContextPart

partsVars == <<part, threadVars, dataVars>>

PartsSpec == PartsInit /\ [][PartsNext]_partsVars

\* The fairness of the parts that have some.  Only one of them moves, so that
\* their assumptions can be stated together, by the name of a thread.
CameraStep(k) ==
  \/ k = "t1" /\ Camera!CaptureStep
  \/ k = "t2" /\ Camera!StopStep
  \/ k = "t3" /\ \E b \in Buffers : Camera!DropFrame(b)

ThreadStep(k) ==
  /\ \/ part = "camera" /\ CameraStep(k) /\ BesideTheCamera
     \/ part = "safe" /\ Safe!Continue(k) /\ BesideTheSafe
     \/ part = "log" /\ k \in LogThreads /\ Log!Inside(k) /\ BesideTheLog
  /\ UNCHANGED part

BackgroundStep ==
  /\ \/ part = "camera" /\ Camera!EnqueueBuffer /\ BesideTheCamera
     \/ part = "safe" /\ Safe!ShutdownNotify /\ BesideTheSafe
     \/ part = "log" /\ Log!WorkerStep /\ BesideTheLog
     \/ part = "display" /\ Display!LoopStep /\ BesideTheDisplay
  /\ UNCHANGED part

Fairness ==
  WF_partsVars(BackgroundStep) /\ \A k \in Threads : SF_partsVars(ThreadStep(k))

\* See the modules of the parts.  A part that rests is in an initial state, and
\* its invariant is checked there when the behaviour chooses it.
OneOwner == part = "camera" => Camera!OneOwner /\ Camera!NoUseAfterRelease
StopReturns == Camera!StopReturns
TakenInOrder == part = "ordered" => Ordered!TakenInOrder
WaitersLeave == Safe!WaitersLeave
WrittenAsAccepted == part = "log" => Log!WrittenAsAccepted
CallsReturn == Log!CallsReturn
ShownIsLeased == part = "display" => Display!ShownIsLeased
CallbackComes == Display!CallbackComes
MonitorIsHeld == part = "udev" => Udev!MonitorIsHeld
PositionIsOne == Mouse!PositionIsOne
DeviceFollows == part = "param" => Param!DeviceFollows
PluginsAreHeld == part = "server" => Server!PluginsAreHeld
BuffersAreOwned == part = "dma" => Dma!BuffersAreOwned
BlockIsOnce == part = "memory" => Memory!BlockIsOnce
ChangesAreSeen == part = "config" => Config!ChangesAreSeen
DevicesAreBound == part = "devices" => Devices!DevicesAreBound
RequestsAsSent == part = "http" => Http!RequestsAsSent
WireIsResponses == part = "http" => Http!WireIsResponses

=============================================================================
