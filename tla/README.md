# utilsCore: a TLA+ model of its concurrent parts

utilsCore is a C++17 library for embedded Linux boards (Rockchip): capture from
V4L2, hardware conversion (RGA) and encoding (MPP), display through DRM, and the
threads, queues, pools, loggers and servers around them.  Its hard behaviour is
concurrency: slots and buffers that travel between threads, condition variables
that are notified without their mutex, resets and shutdowns at any moment.  These
modules model that behaviour from the source; paths below are relative to the
repository root.

## Inventory

| Part | Code | State | Operations | Interacts with |
|---|---|---|---|---|
| Encoder core | `src/utils/mpp/encoderCore.cpp` | slots (state, generation, buffers, packet), `free_slots_`, `pending_slots_`, reset flag, active bit, generation | acquire, submit, poll, release, reset, destroy; the worker | clients, MPP library, stream writer |
| Stream writer | `src/utils/mpp/streamWriter.cpp` | dispatch queue, two writers with queue, count and file, segment counters | `pushMeta`, `stop`; dispatcher and two writers | encoder core, files |
| Thread pool | `src/utils/asyncThreadPool.cpp`, `.h` | task queue, active count, workers with their last activity and stop flag | `enqueue`, `post`, `try_*`, `stop`; workers and manager | every user of the pool, the server |
| MPP wrappers | `mpp/encoderContext`, `jpegEncoder`, `mppResourceGuard`, `fileTools` | configuration handle and its keys; initialised flag, file names | configure, configure again, encode one JPEG | encoder core, MPP library, files |
| Camera controller | `v4l2/cameraController.cpp`, `frame.*`, `sharedBufferState.h` | driver buffers, capture thread, pause flag | start, stop, pause, reconfigure, return of a frame | V4L2 driver, frames held by clients |
| V4L2 parameters | `v4l2param/*` | cached controls | set, watch | driver |
| DRM controller, layers, framebuffer cache, compositor | `drm/*` | device fd, resources, cached framebuffers with leases, layers with generations | refresh, hot-plug, lease, clear, commit | DRM, fence watcher, DMA buffers |
| DMA buffers | `dma/dmaBuffer.cpp` | handle, descriptor, mapping of each buffer | create, import, export, map, view, move, destroy | DRM, V4L2, RGA |
| Fence watcher | `fenceWatcher.h` | epoll set, map fd to callback | watch, shutdown | compositor |
| RGA processor | `rga/rgaProcessor.cpp` | buffer pool, task queue, ordered results | start, pause, stop, release | camera frames, thread pool |
| TCP/HTTP server | `net/server.cpp` | connections, response queue, wake fd | accept, read, dispatch, write, reap, start, stop | thread pool, plugins |
| Parsers, configuration, plugins | `net/http`, `json`, `config`, `configuredServer`, `plugin` | none, or a loaded object | parse, load | server |
| Queues and pools | `safeQueue.h`, `orderedQueue.h`, `fixedSizePool.h`, `objectsPool.h` | ring or list, flags | push, pop, shutdown; allocate, free | RGA, camera |
| Thread pauser | `threadPauser.*` | state word, eventfd | pause, wait, resume | camera, mouse, RGA |
| Logger | `logger_v2.cpp`, `logger.cpp`, `logger_config.cpp` | queue, counters, sinks | init, log, flush, shutdown | everything |
| udev monitor | `udevMonitor.cpp` | handlers, thread, fds | register, start, stop | DRM, mouse |
| Mouse watcher | `mouse/watcher.cpp` | device, double-buffered state | start, stop, pause, hot-plug | udev monitor, pauser |
| System monitors and small utilities | `sys/*`, `fdWrapper.h`, `internal/*`, ... | one flag, or none | sample | - |
| `concurrentqueue.h` | third party | - | - | thread pool, server |

What makes the parts correct, and is hard to test:

- *Encoder core*: a slot has one owner; no slot is lost; a client gets the packet
  of its own frame, in order; a reset and an encoding exclude each other; reset,
  shutdown and delivery finish.
- *Stream writer*: the segments are the stream, cut at key frames; a file
  outlives its packets and is synced when it is left; every accepted meta gives
  its slot back; `stop` drains.
- *Thread pool*: no posted task and no waiting thread is forgotten while workers
  come and go; the limits hold; only idle workers are retired; `stop` joins.
- *Server*: no response to the wrong client, none stuck on its way, none cut off by
  the close it asks for; `stop` and restart at any moment; requests of one protocol
  do not depend on how the stream is cut, responses not on how the socket takes
  them.
- *MPP wrappers*: the encoder has every key that the accepted configuration must
  set, whichever call failed in between; a snapshot
  saves the picture it was asked for, or fails; every buffer is given back once.
- *Camera, RGA, DRM*: a buffer is with the driver, with one holder, or on the
  screen, never in two places; nothing in use is freed; stop and restart.
- *Logger, monitors, pauser, queues*: nothing lost or reordered; shutdown and
  wakeups.

`PROJECT.json` lists the hazards at their lines, with the property that covers
each.

## Modules

`EncoderService` is the promise of an encoder to its clients: bounded
occupancy, first-in first-out encoding, own-packet delivery.  `EncoderCore` is
the code; its property `ImplementsService` instantiates `EncoderService` with a
refinement mapping and is checked.  `StreamWriter` composes the writer with
that abstract service instead of the full core.  `EncoderCoreProofs` and
`StreamWriterProofs` hold the theorems about them.

`TaskService` is the promise of a thread pool to those who post; `ThreadPool` is
the code, and `ImplementsTasks` the refinement.  `EventServer` composes the
server with that abstract pool; `MCEventServer` gives its constants values.
`ThreadPoolProofs` and `EventServerProofs` hold theorems.
`HttpConnection` is one connection of that server seen from inside, bytes to
requests and responses to bytes.

`JpegEncoder` extends `EncoderContext`, the configuration of its encoder, and
`JpegEncoderProofs` holds theorems about it.

`RgaProcessor` extends `ThreadPauser`, the switch its worker waits on, and
contains its own share of a thread pool; `RgaProcessorProofs` holds theorems.  `Display` composes a layer, the
framebuffer cache, the compositor, the fence watcher and the hot-plug handlers.

The remaining components do not call each other in a way their properties depend on:
`CameraController`, `OrderedQueue`, `SafeQueue`, `Logger`, `LoggerConfig`,
`UdevMonitor`, `MouseWatcher`, `ParamProcessor`, `ConfiguredServer`, `Json`,
`DmaBuffer`, `MemoryPool`, `DeviceController`, `Display`, `HttpConnection` and
`JpegEncoder`.  `Parts` extends the last and instantiates the others except `Json`,
renaming variables where two modules use one name: a behaviour chooses one of them in
its first state (`part`), the others stay in an initial state, and their actions are
not taken.  A part of its own, `context`, is an encoder context that is used alone and
with every codec.  Each is checked there exactly as it would be alone; an invariant is
guarded by its part, because the state of a part that rests is an initial state, which
is checked when the behaviour chooses that part.  `MCParts` adds the JSON text as one
more part and the values of the constants that a configuration file cannot write; with
the text at rest its steps are those of `Parts`.  Two modules hold theorems about the
parts: `DevicesProofs` about the udev monitor, the DRM controller, the DMA buffers and
the display, `PartsProofs` about the camera, the frame ring, the pools, the controls,
the logger's configuration, the server that is built from a document and the mouse
watcher.

In all of them a step is what the code does between two points at which another
thread can see the difference: one critical section, or one access to an
atomic.  Where a notification can get lost, a wait on a condition variable is three states: the thread tests its
predicate with the mutex held (`fetching`), is about to sleep with the mutex
still held (`blocking`), sleeps (`asleep`).  A notification wakes `asleep` only,
and whoever needs the mutex is held up by `blocking`.  That is what makes a
notification *without* the mutex able to get lost, which the code does in every
destructor and `stop`.

### EncoderCore

| Code | Model |
|---|---|
| `Slot::state`, `generation`, buffers, `packet` | `state`, `generation`, `dmabuf`, `external`, `packet`, functions on `Slots`; a buffer's content is the frame written to it |
| `free_slots_`, `pending_slots_` | `free`, `pending` |
| `running_`, reset flag and active bit of the control word, `configGeneration_` | `running`, `reset`, `encoding`, `configGeneration` |
| client threads | one per frame: `fpc`, `fslot`, `fgen`, `got` |
| `workerThread` | `wpc`, `wslot`, `job`; actions `Worker*` |
| `resetConfig`, destructor | `cpc`, `built`; actions `Reset*`, `BuildSlot`, `Shutdown*` |
| `acquireWritableSlot` | `AcquireCheck`, `AcquirePop`, `AcquireClaim`, `AcquireClaimFails` |
| `submitFilledSlot(WithExternal)` | `SubmitCheck`, `SubmitMark(Fails)`, `SubmitQueue`, `SubmitStamp` |
| `tryGetEncodedPacket` | `TryBegin`, `TryMatch`, `TryPeek`, `TryTake` |
| `releaseSlot`, `recycleSlot` | `Release`, `Abandon`, `Recycle`, `Requeue`, `WorkerRecycle`, `WorkerRequeue` |

External: the MPP library (`WorkerPoll` answers with the frame that was put, or
`WorkerPollFails`), the client that fills the buffer (`Fill`).  One thread
controls: two concurrent `resetConfig` calls, or one beside the destructor, are
not modelled.  `SubmitQueue` merges the push with the
notification that follows it: the worker, which alone could tell, either has the
mutex or sees the slot before it sleeps.  Clients release
each meta once, as the interface asks.

### StreamWriter

One client thread (`PushCheck`, `PushQueue`), the dispatcher (`Dispatch*`), two
writers (`Writer*`), the thread that calls `stop` (`Stop*`), and the core
(`CoreEncodes`, with `Core!Deliver` and `Core!Return`).  A file is a sequence of
packets (`written`), of which a prefix is on disk (`synced`).  That the real core
implements `EncoderService` is checked without give-ups, failed encodings and
resets; the writer's own give-up (`GiveUp`) takes the frame out of the abstract
queue, where the code would leave its index in `pending_slots_` (see the hazard
at `encoderCore.cpp:445`).

### ThreadPool

Each task is posted by a thread of its own (`Poster`), workers are `Worker*`,
the manager `Manager*`.  `tasks` is a set: the order in which a
`ConcurrentQueue` with several producers is emptied is not promised.
`workers` is ordered by last activity, and `stale` says how many of the oldest
are past `kIdleThreshold`, which is all that `adjustThreads` uses of time.

### EventServer

| Code | Model |
|---|---|
| sockets and the kernel's backlog | `client`, `sent`, `answered`, `backlog`; a request is `<<client, number>>`, and so is its response |
| `conns_`, `nextConnId_`, `ctx.id` | `conns` (a function on ids), `nextConnId`, `id` |
| `pending_`, the eventfd; the deque `drainPending` swaps out | `pending`, `wake`; `local` |
| one round of `epoll_wait` | `LoopPoll` captures a `batch`; its events are then handled in any order |
| `acceptAll`, `drainWake`, `drainPending`, `onReadable`, `processLine`/`processHttp`, `onWritable`, `reapIdle` | `AcceptOne`, `DrainWake`, `SwapPending` and one `EnqueueNext` per response, `ReadConn`, `Dispatch`, `WriteConn`/`WriteFails`, `ReapIdle` |
| a pool task: handler, `postResponse` | `WorkerStart`, `WorkerPost`, `WorkerWake` |
| `start`, `stop`, `join` | `Start`, `StopBegin`, `Join` |

`Dispatch` is blocked while the pool's queue is full, as `enqueue` is.  Requests
are complete when they arrive (the remainder kept in `Connection::in` is a
request not yet sent); EPOLLHUP, EPOLLERR and a read of length 0 are one case,
because all end in `closeConn`; a response is written whole or waits.  A handler
that throws posts no response; it is not modelled.  One thread calls `start`,
`stop` and `join` in that order (another order is refused by the flags without
changing anything).

### HttpConnection

| Code | Model |
|---|---|
| `Connection::in`, `isHttp`, `out`, `closing`, `wantWrite` | the same names; text is a sequence of tokens |
| `onReadable` up to its handlers | `Receive` (any number of tokens, at least one), `ReceiveEnd` |
| `processLine`, `processHttp` with `tryParseHttp` | `TakeLine`, `TakeHttp`, one turn of the loop each; `req` is the object that lives through all turns |
| `enqueueResponse` | `Respond`, to any request that has none yet: workers finish in any order |
| `onWritable` | `Writable`, one `SendBytes`, `SendFile`, `Copy` or `SendDmabuf` per call of the kernel with any count, `TakeOff`, `Blocked`, `SendFails`, `Written` |

`messages` is what the peer sends, with what it asks for in each (`asks`); `wire` is
every byte the socket has taken.  A file has a size of its own, which may be less
than the length its head announces.

### EncoderContext and JpegEncoder

| Code | Model |
|---|---|
| `mCfg`, `mCurCfg`, `mCtx` | the same names; `mCfg` is a function on the keys that are set |
| the encoder behind `MPP_ENC_SET_CFG`, `_SEI_CFG`, `_HEADER_MODE` | `encoder`, `applied` |
| `applyConfig` | `Settings(c)`, its calls in order; `ApplyConfig` lets any of them fail, and an optional one be skipped |
| constructor, `resetConfig` | `Construct`, `ResetConfig`; `Create` and `Reset` of the snapshots |
| `captureFromDmabuf` | `CaptureBegin`, `CaptureFails` |
| `encodeToFile` | `GetPacket`, `PollAgain`, `GiveUp`, `GetError`, `WriteFile` |
| the library | `encoding`, `ready`; `Encode` finishes frames in their order, or never |

A frame is the number of its capture, so that a saved file says whose picture it is.

### RgaProcessor and ThreadPauser

| Code | Model |
|---|---|
| the queue of raw frames, held by `weak_ptr` | `raw`, `rawAlive`; `PushRaw`, `DropRawQueue` |
| `workerThreadMain` | `worker`; from the top of the loop through the pause and the wait for room to the post |
| a pool task (`infer`, `dmabufConversion`) | the sets `fetching`, `converting`, `done`, `failed`, `telling`: how many tasks are at that point, with which buffer |
| `inFlightTasks_`, `readyFrames_`, `BufferPool::in_use_` | the same names |
| `taskQueueCv_` | `asleep`: who waits; `NotifyOne` wakes any one of them |
| `dump`, `releaseBuffer` | `client`, `held` |
| `start`, `pause`, `stop`, destructor | `stopper`, `running_`, `stopping_`, `paused`, `tokens` |

The conversion succeeds or fails.  `robbed` records that a client took a wakeup
that the worker needed; `gaveUp` that the last wait of `stop()` ran into its
timeout of 500 ms.

### CameraController

Each driver buffer is with the driver (queued or filled), with the capture
thread, in a `Frame` of a client, or inside `returnBuffer` (`driver`, `capture`,
`frames`, `inside`).  `control` is the thread that calls `start`, `pause`, `stop`
and the destructor; `stop()` marks, reclaims and releases in the steps of the
code, `Attempts` stands for the number of rounds it waits for `Frame`s.
`Failures` lists the calls to the driver that may fail.  `returnBuffer` is two
steps (past its checks, and done), because `stop()` does not take the mutex.

### Display

`entries` are the entries of the framebuffer cache with generation and leases,
`fbs` what the kernel has behind each id.  A layer's update takes a lease,
installs the framebuffer and drops the oldest of its ring (`layer[l].handles`).
The compositor's `commit` collects the layers' framebuffers, hands them to the
kernel and gives the fence to the watcher; the kernel flips, the fence signals,
the watcher's thread (`loop`) wakes by signal or timeout and calls back.  Hot-plug
handlers run the sequence of `notifyPreRefresh`, collection and
`notifyPostRefresh` beside all this.

### UdevMonitor, MouseWatcher, ParamProcessor, Logger, LoggerConfig

`UdevMonitor`: two `Callers` register handlers (the first starts the thread) and
stop the monitor; `held` are the fields, `open` the descriptors of the kernel;
`inRun` is where `run()` is.  `MouseWatcher`: up to two watch threads (a hot-plug
during `pause` can leave two), the two position buffers with `sequence`, and
readers without a lock, which never look at `sequence` again; `latest` records for
each buffer the position published in it.  `ParamProcessor`: the loop compares the list asked for
with the list applied last and sets what differs; the three attempts at one
control are one step that succeeds or fails.  `Logger`: threads log while `init`
and `shutdown` replace the queue; `queue` and `contents` are kept apart from
`queued_count_`, which wraps at `Wrap`.  `LoggerConfig`: the file has an instant and
a second of its last write, `load()` reads it and asks for its time in two steps.

### DeviceController

`RefreshResources` reads what the driver lists (`Plug` and `Vanish` change it at
any moment), `BeginRefresh`, `Ignore`, `BindConn2Crtc` and `EndRefresh` are the walk
over the connectors; `crtcStatu` records the CRTCs taken in this walk, `link` what
the driver has.  `Encoders` gives for each connector its encoders in their order
with the CRTCs of each.  A client asks for the planes of a device
(`RefreshPlane`) and filters them (`GetPossiblePlane`) through the one cache of
the controller, which a `Stranger` uses as well.

### Queues, pools, buffers, text and plugins

`OrderedQueue`: the slot's flag, id and data are separate; a producer's two stores
after its claim come in either order, and several consumers run `try_dequeue` step
by step (`Load`, `Test`, `Move`, `Reset`, `Free`, `Advance`).
`SafeQueue`: a ring under a mutex with two conditions, whose `shutdown` sets its
flag and notifies without the mutex.  `MemoryPool`: free lists per pool, one
`thread_local` cache per thread shared by all pools, pages.  `DmaBuffer`: the
kernel's `handles`, descriptors (`files`) and mappings against the program's
`objects` and `views`; numbers are reused as the kernel does, the smallest free
first; `unclosed` are the handles that imports made, which no object gives back.
`Json`: a value is built by a client, written as characters with every escape,
damaged by one edit, and parsed by the recursive parser; a number is its digits, and
one that `setprecision(15)` shortens, or that has no digits, is a value of its own.
What a text means by RFC 8259 is defined apart from the code (`Meanings`).
`ConfiguredServer`: documents good and bad, the steps of `build()`, of its failure
path and of the destructor, plugin and library each in a step of its own, and the
dispatch of a request to its handler.

## Runs

| Run | Instance | Shows |
|---|---|---|
| `encoder_pool` | 3 frames, 2 slots, spurious compare-exchange failures, external buffer | `ExclusiveOwner`, the refinement `ImplementsService`, `SubmittedIsDelivered` |
| `encoder_reset` | 2 frames, 1 slot, one reset, failed encodings, give-ups, failed allocation, shutdown | `NoSlotLost`, `RebuildExcludesEncoding`, `ControlReturns` |
| `encoder_double_release` | 3 frames, 2 slots, failed encodings and give-ups | *violation* of `LateReleaseIsIgnored`: a late release frees another frame's slot |
| `stream_order` | 5 packets, 4 key frames, 2 per segment, lost packets, `stop` | `StreamInOrder`, `FileOutlivesItsPackets` |
| `stream_faults` | 3 packets, a cut at each, every fault | `AcceptedIsReturned`, `StopDrains` |
| `stream_stop` | 2 packets, `stop` | *violation* of `NothingLeftBehind`: a meta accepted after the dispatcher left |
| `thread_pool` | 3 tasks, queue of 1, 1 to 2 workers, idling, `stop` | the refinement `ImplementsTasks`, `PostedIsRun`, `StopJoins` |
| `thread_pool_retire` | 2 tasks, 1 to 2 workers | *violation* of `RetiresIdleOnly`: a busy worker is retired |
| `event_server` | 2 clients, 3 requests, one of which closes, 2 workers, queue of 1, 2 starts, leaving, reaping, `stop` | `AnswersAreOwn`, `EveryRequestAnswered`, `StopJoins` |
| `rga` | 2 output buffers and pool threads, 2 pending tasks, one posted, failing conversions, pauses, `stop` | `TasksAreAccounted`, `RoomIsUsed` |
| `parts` | one of 16 parts, see `Parts.cfg` | the safety properties below |
| `parts_live` | one of 4 components, see `PartsLive.cfg` | `StopReturns` (camera), `WaitersLeave` (queue), `CallsReturn` (logger), `CallbackComes` (fences) |

The properties of `parts`:

| Property | Part | Says |
|---|---|---|
| `OneOwner` | camera | a buffer has one owner, and is not freed under anybody who uses it |
| `TakenInOrder` | ordered queue | frames come out by their ids, each with its own data, until a slot is taken that is not written, or by two |
| `WrittenAsAccepted` | logger | what a thread logged is written in its order, all of it at shutdown |
| `ChangesAreSeen` | logger configuration | a changed file is recognised by the next check |
| `ShownIsLeased` | display | what the screen shows is leased and is the image that was given |
| `MonitorIsHeld` | udev monitor | its descriptors are neither leaked nor closed twice over restarts |
| `PositionIsOne` | mouse | no reader mixes two positions, unless the update after the next one overtakes it |
| `DeviceFollows` | V4L2 parameters | when the loop rests, the device has what was asked for last |
| `PluginsAreHeld` | configured server | libraries are closed as often as opened, each after its plugin; routes lead where the document says |
| `ParsesWhatIsWritten` | JSON | the parser gives a text of the grammar its value, takes beyond it three named things and nothing else, and reads back what was written but for numbers that are rounded or infinite |
| `BuffersAreOwned` | DMA buffers | each descriptor, mapping and created handle is given back once, on every error path; handles of imports are not |
| `BlockIsOnce` | block pools | a block is in one place |
| `RequestsAsSent` | connection | handlers get the requests the peer sent, with their bodies, however a stream of one protocol with whole request lines is cut |
| `WireIsResponses` | connection | the wire carries the responses one after the other, none cut off by the close it asks for; not with a copied range that ends before its file, and a body of no bytes closes |
| `OneConfiguration` | encoder context | of its mandatory keys, the encoder has those of the configuration accepted last and no mixture of two |
| `SavedInOrder` | snapshots | files follow the captures, no picture is in two, each is whole |
| `BuffersGoBack` | snapshots | every imported buffer is given back once |
| `DevicesAreBound` | DRM devices | no two devices share a CRTC; list and driver agree; planes fit |

Why these bounds.  Ownership of a slot needs three frames to go wrong (the one
that is late, the one that lost the slot, the one that got it) and two slots for
order to matter.  One reset is enough for a meta, a pop or a submission of the
old generation to meet the new one; one slot makes each of them meet.  Both
writers change files only from the third segment on.  A worker can be retired
with the limits one and two, and a posting thread waits with a queue of one.
A connection id can only be confused between two clients; the loop is blocked by
two requests and a queue of one; a response can be late for a connection when
that client leaves, is reaped, or the server starts a second time.
Two RGA buffers and two pending tasks let one task fail while another one is
converted and the worker waits for room.  Two camera buffers let a frame be out
while the other is captured, and the second is also returned by hand; two frames
and two rounds of reclaiming let a late return meet `stop`.  Three ids in a ring
of two reuse a slot; two producers race for one, and so do two consumers.  A logger queue of one is
full at the second message, and a second `init` is the one that meets the first.
Two images and a ring of one make every second update drop a lease that may be
on the screen; two commits make a fence's descriptor be used again.  The monitor
is started and stopped twice, which is when a restart meets a stop.  A torn
position needs the reader to be overtaken by two updates, and three events let the
one behind it have begun and ended; `MouseMoves` allows three of them with one call
of start, stop, pause or resume, and two with two.  Two controls let one
of a round fail and one succeed; two targets change the list meanwhile.  Two
plugins from one library, or with one name, are the cases of counting; two routes
collide.  A number that was closed and handed out again needs two DMA
objects.  A thread's cache of three with batches of two moves blocks of one pool
into the other.  Two writes in two seconds are needed for a write to fall into the
second on record and for one to fall outside it.  Two connectors that both want
one CRTC, one of them with another way, and two plugs give every order of walk
and of hot-plug; the encoders and planes of that instance are in `MCParts`.
A stream of two requests, one with a body that contains the end of a header and
the start of a request, meets every cut that a parser can get wrong; three more
streams are those on which the code's answer depends on the cut; two
responses, one of which may close, are in flight together, and a body of two bytes
is the shortest that a socket can split; a peer may leave, a file may be too short
or go on behind its range, a body may be of no bytes, and `sendfile()` may work or
not.  Two edits build every nesting of member and item with every scalar in
it, and one more damages each text of up to 16 characters at each place.  An abandoned frame needs one capture, a
second to take its packet, and a third to see that it stays late; one change of the
configuration follows one that was accepted or that failed anywhere.
The same constants appear in both configurations, and `PartsLive.cfg` takes smaller
values where a liveness check costs more.  The run `parts` does not go on from a
state in which a part's only property promises nothing any more and cannot again
(`StillPromised`: a torn or shared slot of the ring, crossed calls of the monitor, two
mouse threads at once, a reader that is done): whatever follows is allowed.

Fairness.  Every thread of the library runs on (weak fairness), a task and an
encoding come to an end, and a client that is inside a call finishes it; a client
that holds a slot polls and then releases, because the interface leaves the slot
to it until then.  Nobody is bound to post, acquire, reset or stop.  Retries that
may fail spuriously (`encoder_pool`) have no fairness on success.  Threads that
compete for a mutex (camera, queue, logger) are strongly fair: the lock is free
again and again, and each gets it at some time.  Camera and RGA clients drop the
`Frame`s they hold; an RGA client that is inside `dump` comes out of it, but none
has to call it.  The fence watcher's thread wakes by the descriptor or by its
timeout and is weakly fair.  In `MCParts` only one component moves, so that its
fairness is stated for all of them together: weak for `BackgroundStep`, strong
for `ThreadStep(k)`.

Many properties exclude a window, in the property and not in the model: the
code really has it, the behaviours that go into it are explored, and the
property says that it is the only one.

- A thread between its test and its sleep when a destructor, `stop` or `shutdown`
  notifies without the mutex sleeps for ever: `ControlReturns`, `StopDrains`,
  `ThreadPool`'s `StopJoins`, `WaitersLeave` (`missed`).
- A `stop` before the new thread has run `loop()` is undone by it: `EventServer`'s
  `StopJoins`.
- A second `init` of the logger calls `shutdown` with the mutex that `shutdown`
  locks: `CallsReturn` (`selfLocked`).
- A client in `dump` takes the wakeup of a task that failed: `RoomIsUsed` (`robbed`).
- A start between the flag and the join of a stop: `MonitorIsHeld` (`crossed`).
- A hot-plug during `pause` starts a second watch thread: `PositionIsOne` (`doubled`).
- A reader of the mouse's position in whose buffer the update after the next one has
  begun returns a mixture, since it never looks at the sequence again:
  `PositionIsOne` (`Overtaken`).
- `DISCARD_OLDEST` frees a slot somebody may be writing; a slot whose producer has
  claimed it and not stored both fields can be taken, frame 0 at once, the others
  when the id is seen before the data (`torn`); two consumers can take one slot
  (`shared`): `TakenInOrder`.
- The handle that an import makes is never closed: `BuffersAreOwned` (`unclosed`).
- The handlers of a plugin are destroyed after its library was closed: `PluginsAreHeld`
  says nothing of them.
- Control characters in a string, a damaged `\u`, and zeros before a number are
  accepted, a long number is rounded and an infinite one unreadable:
  `ParsesWhatIsWritten` (the grammar that is not `strict`, `ComesBack`).
- A stream that mixes the protocols, and a request line without its version:
  `RequestsAsSent` (`OneProtocol`, `LinesAreWhole`).
- A write in the second on record, or between the reading and the `stat` of
  `load()`: `ChangesAreSeen`.
- A round of controls that failed in part: `DeviceFollows` (`strayed`).
- A capture loop that has ended with an exception: `OneOwner`.
- A capture that times out, or meets an error of `encode_get_packet`, leaves its
  frame in the encoder, and every snapshot after it is the picture of the one
  before: `SavedInOrder` (`abandoned`).
- `mpp_frame_init` fails and the buffer is put by hand and by its guard:
  `BuffersGoBack` (`frameless`).
- A file that has become shorter than its head says, and a body of no bytes, end the
  connection (`Truncated`, `Empty`); a range that ends before its file is run over
  where `sendfile()` does not work (`RunsOver`): `WireIsResponses`.
- A layer that runs further ahead of its commits than its ring is long:
  `ShownIsLeased`.

## Proofs

`EncoderCoreProofs`, for any number of frames, slots and generations and any set
of events, from `EncoderCoreAssumption` alone unless said:

- `TypeCorrect`: `Spec => []TypeOK`.
- `HandshakeHolds`: `Spec => []RebuildExcludesEncoding`.
- `NothingLost`: `Spec => []NoSlotLost`, when a compare-exchange fails only on
  another value.  (With `compare_exchange_weak` as written, a spurious failure
  in `acquireWritableSlot` does lose the slot: `recycleSlot` finds it Writable
  and leaves it.)

None of these three is inductive.  `PoolInv` adds: whoever uses a slot index has
one (`HoldsSlot`); the active bit is set exactly inside the encode section, up
to the failure paths that leave it late (`Handshake`); a Writable slot is in the
free queue or in the hands of somebody who will put it there
(`WritableTracked`); every slot is tracked in one of the ways its state allows
(`AllTracked`); a slot without buffers is invalid or in a rebuild (`Buffers`); a
slot whose encoding finished was not invalidated (`EncodedIsValid`).
`NoSlotLost` fails to be inductive because it says nothing of who will requeue a
slot between its becoming Writable and the push, and the tracking needs the
handshake to know that a rebuild never meets a worker that will store `Encoded`.
Each action group has a lemma that says which slots it touches; the steps are
combined in `BaseStep` and `PoolStep`.

- `SlotsAreExclusive`: `Spec => []ExclusiveOwner` where the core is `Steady`: no reset
  replaces the slots (`MaxGeneration = 2` is the constructor's own pass), no encoding
  fails and the core is not destroyed.  Clients may give up on a queued frame and
  abandon a slot, and every compare-exchange may fail spuriously.  Each condition is
  needed: with `encodeFails` or `shutdown` alone the worker recycles a slot that its
  client then releases too, which is the finding `encoder_double_release`.
- `PacketIsOwn` and `CoreImplementsService`, where the core is `Calm`, which is steady
  and without `giveUp`: every packet taken is that of the client's own buffer, and
  `Spec => ImplementsService`.  A client that gives up leaves a slot whose packet the
  next owner may take for its own.

The invariant of the first is `PlaceInv`: besides the base invariant, two frames never
hold one slot (`FramesApart`), a slot in the free queue is nobody's and is there once
(`FreeApart`), and the control thread never leaves its place (`Undisturbed`).
`CalmInv` adds which state a slot is in at every point of its frame's passage
(`FrameState`, `FrameContents`), that free slots are Writable without an external
buffer, and where the pending queue and the worker are (`PendingApart`, `WorkerApart`).
The refinement is proved one group of steps at a time: a step of the core is a step of
`EncoderService` or leaves its three variables, whose mapped order is the order of the
pending queue with the worker's slot before it.

`StreamWriterProofs`, for any number of frames, any key frames and segment size, from
`StreamWriterAssumption`:

- `FilesOutliveTheirPackets`: `Spec => FileOutlivesItsPackets`, an action property,
  from `CountInv` (`pendingCount` is what the writer's queue and hand hold).
- `StreamKeepsOrder`: `Spec => []StreamInOrder`.  Order on the disk is not inductive;
  `StageInv` orders everything on its way, from the disk back over the hands and
  queues of both writers and the dispatcher to the queue of accepted metas, and
  `SwapInv` says which writer has which segment and that the one that is swapped in
  has nothing left to write.
- `SegmentsSuffice`: `segment \in Segments` and every file is one of them, so that the
  model's bound on files cuts nothing off: cuts are counted by the key frames
  that have passed the dispatcher (`CutInv`).

`ThreadPoolProofs`, from `ThreadPoolAssumption`: `PoolImplementsTasks` is
`Spec => ImplementsTasks` for any posters, workers and limits; `TaskInv` says in which
place each task is (a poster's hand, the queue, a worker's hand, ended) and that it is
in one.  `ActiveIsRunning` shows that `activeTasks_` counts the workers inside a task.

`RgaProcessorProofs`, from `RgaAssumption`: `BuffersHaveOneHolder`, for any buffers,
threads, failures and moments of `stop()`, of those indices that are not also released
by hand; and `TasksAccounted`, `Spec => []TasksAreAccounted`, where nobody releases by
hand (`ByHand = {}`): a buffer that is released while a task still writes it lets two tasks
share one index, which sets of tasks by index cannot count.  `AccountInv` adds that
the counter is the sum over what is posted, fetched, converted, done and failed
(`CountInv`), and that outside `start()` .. `stop()` nothing runs (`RestInv`).

`EventServerProofs`, from `EventServerAssumption`: `AnswersGoHome`,
`Spec => []AnswersAreOwn`, and `IdsAreUnique`, for any clients, requests, tasks and
numbers of starts.  `AnswerInv` says that an id is given to one client only and never
again (`IdInv`), that whatever is in the pool, in `pendingResponses_`, in the loop's
hands or in an output buffer answers a request that was read from the client with
that id (`KnownInv`), and that it is in one of these places once (`OnceInv`).

`PartsProofs` and `DevicesProofs`, for `PartsSpec` and every value of the constants
that the named assumptions of `Parts` and those of the extended modules allow.  They
are two modules only because one would take too long to check.  The lemma of each part
named `...Alone` says that the steps of `Parts` are that part's own once it is chosen.
`PartsProofs`:

| Theorem | Property | What makes it inductive |
|---|---|---|
| `ControlsFollow` | `DeviceFollows` | `ParamInv`: the device agrees with the list at every moment of a round too, and what a round has set so far is what its list says (`RoundFollows`) |
| `BlocksAreOnce` | `BlockIsOnce` | `MemoryInv`: a cache belongs to a pool as long as it is not empty; lemmas on joining and cutting sequences without repetition.  `PoolsAssumption`: a batch fits a cache, as the template's own constants have it |
| `NoChangeIsLost` | `ChangesAreSeen` | `ConfigInv`: a load between its reading and its stat may have the file of before only if a later writing is on record as unseen (`LoadIsOwn`) |
| `FramesInOrder` | `TakenInOrder` | `OrderInv`, which holds until a slot is taken that is not written or by two: a slot has one producer, and what it has stored is there, in either order (`WritersAlone`); a slot that is filled and complete has data and id of one given frame (`SlotsHold`); at most one consumer is past its test (`OneTakes`), and `PlaceHolds` says what a consumer may rely on at each of its places.  `RingAssumption`: a request of at most 1024, so that the rounding to a power of two can be written without recursion |
| `LibrariesGoBack` | `PluginsAreHeld` | `ServerInv`: what is being loaded at each stage of `build()` and of its failure path (`LoadInv`), how often each library is open at every step (`CountInv`), and that the routes in the table are the first ones of the document, each with its plugin (`RouteInv`).  `ServerAssumption`: null is no library, the bounds are naturals |
| `BuffersHaveOneOwner` | `OneOwner` | `CameraInv`: where the capture thread can be during `stop()` (`ThreadInv`), that reclaiming cannot end while somebody is inside `returnBuffer` (`InsideInv`), and for the indices that go back through their Frames, exclusive ownership together with the flag that lets the next return through (`FlagIsDown`, `GivenBack`).  `CameraAssumption`: the null value is no index |
| `PositionsAreWhole` | `PositionIsOne` | `MouseInv`: as long as one watch thread runs (`OneWriter`), the shown buffer holds `latest`, the hidden one too until it is written, and a reader that is not overtaken has read its half from what was published (`ReaderSees`).  `MouseAssumption`: the screen's size and what a device reports are integers |

`DevicesProofs`:

| Theorem | Property | What makes it inductive |
|---|---|---|
| `MonitorHolds` | `MonitorIsHeld` | `UdevInv`: of the callers at most one is inside, and what is held follows from how far it is (`HeldBefore`) and from where the thread is |
| `ScreensAreBound` | `DevicesAreBound` | `DeviceInv`, see below; under `Proper` |
| `BuffersAreHeld` | `BuffersAreOwned` | `DmaInv`: the counts are restated as ownership.  No two objects that own have one handle (`HandleInv`) or one descriptor (`FileInv`), an unfinished creation shares its own with nobody, an object made by an import owns neither and the handle the import made stays among `unclosed`, and a mapping is counted once for each object that has it (`MapInv`).  `DmaAssumption`: finitely many objects, the kernel counts its numbers and memories from 1 |
| `ScreenIsLeased` | `ShownIsLeased` | `ShowInv`: the handles a layer keeps are numbered in the order of its updates, so that the newest `cacheSize_` updates are among those it keeps (`Rises`); an entry of the cache is leased as often as there are handles of it (`EntriesInv` counts the holders by layer and number); and every copy of a recent handle, in the compositor, in a request, in the kernel or on the screen, is a copy of one that is kept (`PlacesInv`).  `DisplayAssumption`: finitely many layers, a size that is a natural, null is no image |

`BoundAlways` of the same module is the controller's own `Spec => []DevicesAreBound` for any
connectors, encoders, CRTCs, planes and clients and any number of hot-plugs and
requests, from the assumption `Proper`: there are finitely many connectors (their
list is a sequence), the null pointer is no list of planes, and plane ids are
unique.  The property is not inductive: that the list is free of shared CRTCs when
a refresh ends follows from what the walk has done so far.  `DeviceInv` adds the
types (`DeviceTypes`); that what was bound in this walk is recorded in `crtcStatu`,
differs from what is still ahead, and agrees with the driver (`WalkInv`); the same
of the finished list (`ListInv`); and that the cache of planes belongs to whoever
asked last (`PlaneInv`).  The lemma `ChosenIsFree` says that `SetUpDevice` never
answers with a recorded CRTC; the step `BindConn2Crtc` rests on it.

`JpegEncoderProofs`, for any configurations, numbers of captures and sets of failures,
and an encoder of any speed, from no assumption but `JpegEncoderAssumption` and
`EncoderContextAssumption`:

- `FilesInOrder`: `Spec => []SavedInOrder`.
- `BuffersReturned`: `Spec => []BuffersGoBack`.

Both rest on `JpegInv`.  `SavedInOrder` speaks of files only; that the next file will
follow the last holds because of what is still on its way.  `InTurn` orders the
files, the packet in hand, the packets that are ready, the frames in the encoder
and the next capture; `OwnOnly` says that while no capture has left its frame, the only
frame on its way is that of the capture in progress; `Buffers` counts the buffer
of that capture.

- `ConfigurationIsOne`: `Spec => []OneConfiguration`.  With the domains of handle and
  encoder (`ConfigTypes`) the property is inductive, given that no configuration sets a
  key twice (`Clean`, a lemma for each piece of the sequence of settings): whichever
  call fails, the handle's keys reach the encoder all at once.

Only model-checked:

- the liveness properties; liveness under fairness and `ENABLED` are beyond the prover;
- `ParsesWhatIsWritten`: `Json` is recursive, and what a recursive definition computes
  for every input cannot be proved with these provers;
- `WrittenAsAccepted` of the logger, `RequestsAsSent` and `WireIsResponses` of a
  connection: they are stated with `SelectSeq` and `FlattenSeq`, folds that need
  induction over data;
- the other properties of the runs that no theorem above states.

## Not modelled

The MPP, RGA, V4L2 and DRM drivers, beyond what they answer; formatting and
parameter marshalling; the parts marked `not_modelled` in `PROJECT.json`.  Of the
parts marked `partly`:

- moving a `ParamProcessor` (its move assignment calls itself), menus and types of
  controls;
- a DRM controller for a second path, the table of bits per pixel, the numbers of
  plane properties, destroying layers and caches that are in use;
- the planes of each pixel format and the copying of DMA buffers; `DmaBuffer`
  starts with the DRM device open;
- the bytes of a token, decoding of header names and numbers, and methods other
  than the two of `MCParts`;
- the presets of `encoderContext.h` and the writing helpers of `fileTools.h`;
- `ObjectsPool`, moving a queue that is in use, a pool that dies before its blocks;
- the formatting of log records and the older `logger.cpp`;
- the regions and the mapping of coordinates of the mouse watcher.

`endOfEncode` is recorded in `EncoderCore` (`endOfthisEncode` sets it and nothing
clears it) but no property depends on it.

Found while reading, without a property:

- `net/server.cpp:543`: the protocol is chosen from whatever has arrived, so that
  the cut decides whether a request behind a line, or a line that begins like a
  method, is HTTP; a request line that is refused (line 595) keeps its connection,
  and whatever comes behind it waits.
- `net/server.cpp:648`: `send()` of a body of no bytes returns 0, which closes the
  connection, although the design (`docs/plans/2026-02-22-net-rewrite-design.md:11`)
  promises to keep it; line 669: copying a part of a file where `sendfile()` cannot
  reads a full `tmp`, whatever is left of the part, so that it runs past its end
  (`response.h:35`: "bytes to send"); line 535: text that is read in the same call as
  the end of the stream is dropped.
- `mpp/encoderContext.cpp:33`: after a `resetConfig()` that failed, `getConfig()` returns
  the configuration that was refused (`encoderContext.h:215`: the one in effect); line
  305: SEI and header modes are sent before the rest can fail, so that a failure is
  not atomic (`docs/plans/2026-03-14-mpp-stability-plan.md:62`); a key that is optional
  keeps the value of an earlier configuration.
- `net/server.cpp:595`: a request line without a version, behind another request in
  one `recv()`, is answered with the version of that request, because `processHttp`
  keeps one `HttpRequest` for all turns of its loop (the design promises, line 10,
  "Correct stream handling (fragmentation/coalescing)").  The stream is in `MCStreams`,
  and `RequestsAsSent` fails on it without its premise `LinesAreWhole`.
- `mpp/jpegEncoder.cpp:124`: a capture that gives up leaves its frame in the encoder;
  the next one saves that picture under its own name and returns true
  (`jpegEncoder.h:63`: the snapshot of this buffer).  `SavedIsAsked` fails in `parts`.
- `mpp/jpegEncoder.cpp:73`: the buffer is put twice when `mpp_frame_init` fails; a
  first `applyConfig` that fails still counts as initialised; two snapshots in one
  millisecond have one file name.
- `mouse/watcher.cpp:373`: a mapped position is cut to the size of the screen, not
  of the target.
- `drm/deviceController.cpp:57`: `path_` is set before an open that may fail, and the
  next `create` of that path returns the controller of the other one; line 112: the
  udev handler keeps `this` and is never unregistered; `bindConn2Crtc` never destroys
  its mode blobs.  `deviceController.h:163`: `getDevices` returns a reference that a
  hot-plug reassigns.
- `logger_v2.cpp:296`: the default policy drops records of level ERROR too when the
  queue is full (compare `docs/plans/2026-03-14-loggerv2-low-overhead.md`).
- `logger_config.cpp:226`: a `]` inside a pattern ends the array of sinks, so that a
  saved configuration can lose sinks; line 432: a line that is not valid is stored.
- `net/configuredServer.cpp:60`: libraries are closed before the handlers that came
  from them are destroyed (`impl_->handlers` and the router go with the members); on
  the failure path (128-132) `registrarImpl` leaves its scope after the close.
- `orderedQueue.h:151`: `try_dequeue` has no claim between its test and the take,
  although line 17 promises several consumers in order ("多消费者顺序出队"); two of them can return one
  frame, one of them empty.  The stores of lines 135 and 136 are not ordered for the
  consumer, which may see the id before the data.
- `mouse/watcher.cpp:326`: a reader that two updates overtake returns the x of one
  position and the y of another.
- `net/json.cpp:148`: what follows `\u` is not checked, so that `\u00zz` is read as the
  character 0; line 166: control characters are taken in strings; line 195: and
  zeros before a number; line 415: a number with more than 15 digits comes back
  rounded, an infinite one not at all; line 348: copies of a value share its members.
- `dma/dmaBuffer.cpp:270`: the handle that `drmPrimeFDToHandle` makes for an import is
  never closed (line 302).
- `dma/dmaBuffer.cpp:457`: of two views of one buffer, the first to end unmaps both.
- `v4l2param/paramProcessor.cpp:152`: the move assignment calls itself.

## Plan

1. `EventServer` with `HttpConnection` in place of its step.
2. `ObjectsPool`; the mapping of mouse positions; the destruction of layers and
   cache beside a commit.
3. The camera composed with the RGA processor and the encoder: one frame through
   the whole pipeline.
