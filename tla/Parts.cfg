SPECIFICATION MCSpec
CONSTANTS
  Parts = {"camera", "ordered", "log", "display", "udev", "mouse",
           "param", "server", "text", "dma", "memory", "config", "devices",
           "http", "jpeg", "context"}
  Nil = Nil
  \* a camera of two buffers
  Buffers = {b1, b2}
  CameraFailures = {"open", "format", "request", "map", "allocate", "qbuf", "streamon", "dqbuf"}
  ByHand = {b2}
  MaxFrames = 2
  Attempts = 2
  \* a ring of two slots for three frame numbers
  Producers = {p1, p2}
  Consumers = {c1, c2}
  Requested = 2
  MaxId = 2
  Policies = {"newest", "oldest", "block"}
  \* a queue of two for three items
  Threads = {"t1", "t2", "t3"}
  Limit = 2
  MaxItems = 3
  FullPolicies = {"newest", "oldest", "block"}
  \* a logger with a queue of one
  LogThreads = {"t1", "t2"}
  Capacity = 1
  Wrap = 8
  LogPolicies = {"block", "dropIfBelowError"}
  Modes = {"async", "sync"}
  Levels = {"info", "error"}
  MaxMessages = 2
  MaxInits = 2
  \* a layer with two images
  Layers = {l1}
  Images = {i1, i2}
  cacheSize_ = 1
  Handlers = {h1}
  Descriptors = {1, 2}
  MaxUpdates = 2
  MaxCommits = 2
  \* a monitor that is started and stopped twice
  Callers = {c1, c2}
  UdevKeys = {k1}
  MaxHandlers = 2
  MaxStops = 2
  MaxDeviceEvents = 2
  MaxErrors = 1
  \* a mouse that moves up to three times
  Watchers = {w1, w2}
  Readers = {r1}
  Width = 2
  Height = 2
  Values = {1}
  MaxEvents = 3
  MaxCalls = 2
  \* two controls of a device
  ParamControls = {k1, k2}
  Lowest = 0
  Highest = 1
  Wanted = {0, 2}
  MaxTargets = 2
  MaxFailures = 2
  \* documents of up to two plugins and two routes
  Libraries = {l1}
  Names = {n1, n2}
  HandlerNames = {h1}
  Methods = {"GET", "POST"}
  Paths = {p1}
  MaxPlugins = 2
  MaxRoutes = 2
  \* a JSON value that is edited twice, and its text once
  Members = {"m1", "m2"}
  Indices = {2}
  MaxEdits = 2
  MaxDamage = 1
  MaxLength = 16
  \* two buffers and two views of them
  Objects = {1, 2}
  Views = {1, 2}
  Memories = {1, 2}
  Numbers = {1, 2}
  Alignments = 2
  \* two pools of blocks, with two pages of two
  Pools = {q1, q2}
  PoolThreads = {"t1", "t2"}
  CacheSize = 3
  Batch = 2
  PageBlocks = 2
  MaxPages = 2
  \* a file that is written twice in two seconds
  MaxWrites = 2
  MaxTime = 2
  MaxClientCalls = 1
  \* a client, and strangers, of a controller with two connectors
  Clients = {a1}
  Encoders <- MCEncoders
  Planes <- MCPlanes
  Kinds = {"overlay"}
  Formats = {0, 2}
  MaxPlugs = 2
  MaxAsks = 2
  \* one peer, and two bytes of a file at a time
  Streams <- MCStreams
  StreamMethods <- MCMethods
  Versions = {" HTTP/1.1"}
  ContentLength <- MCContentLength
  Answers <- MCAnswers
  SendfileWorks = {TRUE, FALSE}
  Chunk = 2
  \* three snapshots and a change of their configuration
  Configs <- MCConfigs
  NoConfig = NoConfig
  MaxResets = 1
  MaxCaptures = 3
  Failures = {"directory", "import", "frame", "put", "get", "late", "file"}
CONSTRAINTS
  StillPromised
  MouseMoves
INVARIANTS
  OneOwner
  TakenInOrder
  WrittenAsAccepted
  ShownIsLeased
  MonitorIsHeld
  DeviceFollows
  PluginsAreHeld
  ParsesWhatIsWritten
  BuffersAreOwned
  BlockIsOnce
  ChangesAreSeen
  DevicesAreBound
  RequestsAsSent
  WireIsResponses
  OneConfiguration
  SavedInOrder
  BuffersGoBack
PROPERTIES
  PositionIsOne
\* The parts come to rest.
CHECK_DEADLOCK FALSE
