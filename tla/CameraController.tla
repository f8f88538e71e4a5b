-------------------------- MODULE CameraController --------------------------
(***************************************************************************)
(* The V4L2 camera: its buffers travel between the driver, the capture     *)
(* thread, the clients that hold a Frame, and back through returnBuffer.   *)
(* start, pause, stop and the destructor are called by one controlling     *)
(* thread; Frames are dropped by another one.                              *)
(*                                                                         *)
(* The mutex protects returnBuffer, startStreaming and the ioctl of        *)
(* dequeueBuffer; stop() marks and frees the buffers without it, so the    *)
(* body of returnBuffer is two steps here (past its checks, and done).     *)
(***************************************************************************)
EXTENDS Integers, FiniteSets

CONSTANTS
  Buffers,      \* the indices of the buffers
  Failures,     \* the calls of the driver that may fail
  ByHand,       \* the indices a client may give back while it keeps the Frame
  MaxFrames,    \* bound: Frame objects alive for one index
  Attempts,     \* rounds of reclaimAllBuffers
  None

VARIABLES
  phase,        \* of the object: how far the constructor is, "ready", "gone", ...
  memory_type,  \* whether the driver's memory is mapped or DMA buffers are allocated
  buffers,      \* buffers_: the indices that have memory
  running, paused, is_destroying,
  thread,       \* capture_thread_: "none", "alive", or "over" and not yet joined
  callback,     \* enqueueCallback_ is set
  capture,      \* where the capture thread is, and with which buffer
  control,      \* where stop() is
  inside,       \* who is past the checks of returnBuffer, and for which buffer
  driver,       \* whether the kernel has a buffer, and has filled it
  streaming,
  queued,       \* the flag of every Buffer
  frames,       \* Frame objects the clients hold
  lost          \* buffers whose VIDIOC_QBUF failed or was refused

object == <<phase, memory_type, buffers, running, paused, is_destroying, thread, callback>>
traffic == <<driver, streaming, queued, frames, lost>>
vars == <<object, capture, control, inside, traffic>>

Idle == [at |-> "top", buf |-> None]
Nobody == [who |-> None, buf |-> None]
mutexFree == inside = Nobody

Init ==
  /\ memory_type \in {"mmap", "dmabuf"}
  /\ phase = "new" /\ buffers = {} /\ thread = "none" /\ callback = FALSE
  /\ running = FALSE /\ paused = FALSE /\ is_destroying = FALSE
  /\ capture = Idle /\ inside = Nobody
  /\ control = [at |-> "idle", todo |-> {}, left |-> 0, dying |-> FALSE]
  /\ driver = [b \in Buffers |-> "user"] /\ streaming = FALSE
  /\ queued = [b \in Buffers |-> FALSE]
  /\ frames = [b \in Buffers |-> 0] /\ lost = {}

(***************************************************************************)
(* The constructor.  A step that throws leaves no object behind.           *)
(***************************************************************************)
Stage(from, to, failure) ==
  /\ phase = from
  /\ \/ phase' = to
     \/ failure \in Failures /\ phase' = "failed"
  /\ UNCHANGED <<memory_type, buffers, running, paused, is_destroying, thread, callback,
                 capture, control, inside, traffic>>

Open == Stage("new", "opened", "open")

SetupFormat == Stage("opened", "formatted", "format")

RequestBuffers == Stage("formatted", "requested", "request")

\* One buffer after the other; an exception drops those that came before.
Provide(b, failure) ==
  /\ phase = "requested" /\ b \notin buffers
  /\ \/ /\ buffers' = buffers \cup {b}
        /\ phase' = IF buffers' = Buffers THEN "ready" ELSE phase
     \/ failure \in Failures /\ buffers' = {} /\ phase' = "failed"
  /\ UNCHANGED <<memory_type, running, paused, is_destroying, thread, callback,
                 capture, control, inside, traffic>>

MapBuffer(b) == memory_type = "mmap" /\ Provide(b, "map")

AllocateDMABuffer(b) == memory_type = "dmabuf" /\ Provide(b, "allocate")

(***************************************************************************)
(* returnBuffer                                                            *)
(***************************************************************************)
Accepts(b) == ~is_destroying /\ buffers # {} /\ b \in buffers /\ ~queued[b]

\* Takes the mutex and does the checks; a buffer that is refused although it
\* is not queued goes nowhere.
EnterReturn(who, b) ==
  /\ mutexFree
  /\ IF Accepts(b)
     THEN inside' = [who |-> who, buf |-> b] /\ lost' = lost \ {b}
     ELSE inside' = inside /\ lost' = IF queued[b] THEN lost ELSE lost \cup {b}

\* enqueueBuffer: the ioctl, the flag, and the mutex is released.
EnqueueBuffer ==
  LET b == inside.buf IN
  /\ ~mutexFree /\ inside' = Nobody
  /\ \/ /\ driver[b] = "user"
        /\ driver' = [driver EXCEPT ![b] = "queued"]
        /\ queued' = [queued EXCEPT ![b] = TRUE]
        /\ UNCHANGED lost
     \/ /\ driver[b] # "user" \/ "qbuf" \in Failures
        /\ queued' = [queued EXCEPT ![b] = FALSE]
        /\ lost' = IF driver[b] = "user" THEN lost \cup {b} ELSE lost
        /\ UNCHANGED driver
  /\ UNCHANGED <<object, capture, control, streaming, frames>>

\* A client destroys a Frame: its release callback is returnBuffer.
DropFrame(b) ==
  /\ frames[b] > 0 /\ phase = "ready"
  /\ EnterReturn("client", b)
  /\ frames' = [frames EXCEPT ![b] = @ - 1]
  /\ UNCHANGED <<object, capture, control, driver, streaming, queued>>

\* The public returnBuffer(index), the Frame still being there.
ReturnByHand(b) ==
  /\ b \in ByHand /\ phase = "ready"
  /\ EnterReturn("client", b)
  /\ UNCHANGED <<object, capture, control, driver, streaming, queued, frames>>

(***************************************************************************)
(* start, pause, setFrameCallback                                          *)
(***************************************************************************)
Callable == phase = "ready" /\ control.at = "idle"

SetFrameCallback ==
  /\ Callable /\ ~running /\ ~callback /\ callback' = TRUE
  /\ UNCHANGED <<phase, memory_type, buffers, running, paused, is_destroying, thread,
                 capture, control, inside, traffic>>

Pause ==
  /\ Callable /\ paused' = TRUE
  /\ UNCHANGED <<phase, memory_type, buffers, running, is_destroying, thread, callback,
                 capture, control, inside, traffic>>

\* A paused camera is only resumed, whether it was ever started or not.
Resume ==
  /\ Callable /\ paused /\ paused' = FALSE
  /\ UNCHANGED <<phase, memory_type, buffers, running, is_destroying, thread, callback,
                 capture, control, inside, traffic>>

\* startStreaming, under the mutex: every buffer is offered, some may be refused.
StartStreaming ==
  /\ mutexFree
  /\ \E ok \in SUBSET {b \in buffers : driver[b] = "user"} :
       /\ "qbuf" \in Failures \/ ok = {b \in buffers : driver[b] = "user"}
       /\ queued' = [b \in Buffers |-> IF b \in buffers THEN b \in ok ELSE queued[b]]
       /\ driver' = [b \in Buffers |-> IF b \in ok THEN "queued" ELSE driver[b]]
       /\ lost' = (lost \ ok) \cup {b \in buffers \ ok : driver[b] = "user" /\ frames[b] = 0}

\* A thread that ended by itself was never joined: assigning to it calls
\* std::terminate.
Start ==
  /\ Callable /\ ~paused /\ ~running
  /\ StartStreaming
  /\ \/ /\ streaming' = TRUE /\ running' = TRUE
        /\ thread' = "alive" /\ capture' = Idle
        /\ phase' = IF thread = "none" THEN phase ELSE "terminated"
     \/ /\ "streamon" \in Failures
        /\ UNCHANGED <<streaming, running, thread, capture, phase>>
  /\ UNCHANGED <<memory_type, buffers, paused, is_destroying, callback, control, inside, frames>>

(***************************************************************************)
(* stop and the destructor                                                 *)
(***************************************************************************)
\* The early return of a camera that does not run, and the first assignments.
Stop ==
  /\ Callable
  /\ is_destroying' = TRUE
  /\ \E dying \in BOOLEAN :
       /\ dying => \A b \in Buffers : frames[b] = 0
       /\ control' = [control EXCEPT !.dying = dying,
                        !.at = IF running THEN "join" ELSE IF dying THEN "destroy" ELSE "idle"]
  /\ IF running THEN running' = FALSE /\ paused' = FALSE ELSE UNCHANGED <<running, paused>>
  /\ UNCHANGED <<phase, memory_type, buffers, thread, callback, capture, inside, traffic>>

StopJoin ==
  /\ control.at = "join" /\ thread # "alive"
  /\ thread' = "none"
  /\ control' = [control EXCEPT !.at = "reclaim", !.todo = buffers, !.left = Attempts - 1]
  /\ UNCHANGED <<phase, memory_type, buffers, running, paused, is_destroying, callback,
                 capture, inside, traffic>>

\* reclaimAllBuffers: a buffer whose flag says queued is passed over, for any
\* other one returnBuffer is called (it takes the mutex, and refuses).
ReclaimOne(b) ==
  /\ control.at = "reclaim" /\ b \in control.todo
  /\ queued[b] \/ mutexFree
  /\ control' = [control EXCEPT !.todo = @ \ {b}]
  /\ UNCHANGED <<object, capture, inside, traffic>>

ReclaimAgain ==
  /\ control.at = "reclaim" /\ control.todo = {} /\ control.left > 0
  /\ \E b \in buffers : ~queued[b]
  /\ control' = [control EXCEPT !.todo = buffers, !.left = @ - 1]
  /\ UNCHANGED <<object, capture, inside, traffic>>

\* After the last round every flag is forced.
ReclaimDone ==
  /\ control.at = "reclaim" /\ control.todo = {}
  /\ queued' = [b \in Buffers |-> b \in buffers \/ queued[b]]
  /\ control' = [control EXCEPT !.at = "off"]
  /\ UNCHANGED <<object, capture, inside, driver, streaming, frames, lost>>

StreamOff ==
  /\ control.at = "off" /\ control' = [control EXCEPT !.at = "release"]
  /\ streaming' = FALSE /\ driver' = [b \in Buffers |-> "user"]
  /\ UNCHANGED <<object, capture, inside, queued, frames, lost>>

\* releaseBuffers, without the mutex.
ReleaseBuffers ==
  /\ control.at = "release"
  /\ buffers' = {}
  /\ control' = [control EXCEPT !.at = IF control.dying THEN "destroy" ELSE "idle"]
  /\ UNCHANGED <<phase, memory_type, running, paused, is_destroying, thread, callback,
                 capture, inside, traffic>>

\* The members are destroyed; a thread that is still joinable terminates.
Destroy ==
  /\ control.at = "destroy" /\ mutexFree
  /\ phase' = IF thread = "none" THEN "gone" ELSE "terminated"
  /\ control' = [control EXCEPT !.at = "idle"]
  /\ UNCHANGED <<memory_type, buffers, running, paused, is_destroying, thread, callback,
                 capture, inside, traffic>>

(***************************************************************************)
(* captureLoop                                                             *)
(***************************************************************************)
Capturing(at) ==
  thread = "alive" /\ capture.at = at /\ phase = "ready" /\ inside.who # "capture"

(* Mutant of CaptureTop: running_ is looked at by a paused thread only.        *)
CaptureTopPaused ==
  /\ Capturing("top")
  /\ IF ~running /\ paused THEN thread' = "over" /\ UNCHANGED capture
     ELSE ~paused /\ capture' = [capture EXCEPT !.at = "wait"] /\ UNCHANGED thread
  /\ UNCHANGED <<phase, memory_type, buffers, running, paused, is_destroying, callback,
                 control, inside, traffic>>

CaptureTop ==
  /\ Capturing("top")
  /\ IF ~running THEN thread' = "over" /\ UNCHANGED capture
     ELSE ~paused /\ capture' = [capture EXCEPT !.at = "wait"] /\ UNCHANGED thread
  /\ UNCHANGED <<phase, memory_type, buffers, running, paused, is_destroying, callback,
                 control, inside, traffic>>

\* waitForFrameReady: a frame, the timeout of a second, or a signal.
CaptureWait ==
  /\ Capturing("wait")
  /\ capture' = [capture EXCEPT !.at =
       IF \E b \in Buffers : driver[b] = "filled" THEN "dequeue" ELSE "top"]
  /\ UNCHANGED <<object, control, inside, traffic>>

\* dequeueBuffer: the ioctl, under the mutex.
CaptureDequeue ==
  /\ Capturing("dequeue") /\ mutexFree
  /\ \E b \in Buffers :
       /\ driver[b] = "filled"
       /\ driver' = [driver EXCEPT ![b] = "user"]
       /\ capture' = [at |-> "mark", buf |-> b]
  /\ UNCHANGED <<object, control, inside, streaming, queued, frames, lost>>

\* An exception of select, of the ioctl or of makeFrame ends the loop.
CaptureError ==
  /\ \E at \in {"wait", "dequeue", "frame"} : Capturing(at)
  /\ "dqbuf" \in Failures
  /\ running' = FALSE /\ thread' = "over" /\ capture' = Idle
  /\ lost' = lost \cup {b \in Buffers : b = capture.buf}
  /\ UNCHANGED <<phase, memory_type, buffers, paused, is_destroying, callback, control,
                 inside, driver, streaming, queued, frames>>

(* Mutant of CaptureMark: the flag is not reset.                            *)
CaptureMarkForgets ==
  /\ Capturing("mark")
  /\ capture' = [capture EXCEPT !.at = "frame"]
  /\ UNCHANGED <<object, control, inside, traffic>>

\* The flag follows after the mutex was released.
CaptureMark ==
  /\ Capturing("mark")
  /\ queued' = [queued EXCEPT ![capture.buf] = FALSE]
  /\ capture' = [capture EXCEPT !.at = "frame"]
  /\ UNCHANGED <<object, control, inside, driver, streaming, frames, lost>>

\* A Frame refers to the memory of the buffer and remembers its index.
MakeFrame(b) ==
  /\ frames[b] < MaxFrames
  /\ frames' = [frames EXCEPT ![b] = @ + 1]

\* The Frame is moved into the callback.
CaptureDeliver ==
  /\ Capturing("frame") /\ callback
  /\ MakeFrame(capture.buf)
  /\ capture' = Idle
  /\ UNCHANGED <<object, control, inside, driver, streaming, queued, lost>>

\* Without a callback the buffer goes back at once, and then once more when
\* the Frame leaves its scope.
CaptureGiveBack ==
  /\ Capturing("frame") /\ ~callback
  /\ EnterReturn("capture", capture.buf)
  /\ capture' = [capture EXCEPT !.at = "drop"]
  /\ UNCHANGED <<object, control, driver, streaming, queued, frames>>

CaptureDrop ==
  /\ Capturing("drop")
  /\ EnterReturn("capture", capture.buf)
  /\ capture' = Idle
  /\ UNCHANGED <<object, control, driver, streaming, queued, frames>>

\* External: the driver fills a buffer that was queued.
DriverFills(b) ==
  /\ streaming /\ driver[b] = "queued"
  /\ driver' = [driver EXCEPT ![b] = "filled"]
  /\ UNCHANGED <<object, capture, control, inside, streaming, queued, frames, lost>>

CaptureStep ==
  CaptureTop \/ CaptureWait \/ CaptureDequeue \/ CaptureError \/ CaptureMark
    \/ CaptureDeliver \/ CaptureGiveBack \/ CaptureDrop

StopStep ==
  \/ StopJoin \/ ReclaimAgain \/ ReclaimDone \/ StreamOff \/ ReleaseBuffers \/ Destroy
  \/ \E b \in Buffers : ReclaimOne(b)

Next ==
  \/ Open \/ SetupFormat \/ RequestBuffers
  \/ SetFrameCallback \/ Pause \/ Resume \/ Start \/ Stop
  \/ CaptureStep \/ StopStep \/ EnqueueBuffer
  \/ \E b \in Buffers :
       MapBuffer(b) \/ AllocateDMABuffer(b) \/ DropFrame(b) \/ ReturnByHand(b) \/ DriverFills(b)

Spec == Init /\ [][Next]_vars

\* The threads run, the mutex is handed on, and a client drops its Frames.
Fairness ==
  /\ SF_vars(CaptureStep) /\ SF_vars(StopStep) /\ WF_vars(EnqueueBuffer)
  /\ \A b \in Buffers : SF_vars(DropFrame(b))

LiveSpec == Spec /\ Fairness

(***************************************************************************)
(* Properties                                                              *)
(***************************************************************************)
InHands(b) == thread = "alive" /\ capture.buf = b /\ capture.at \in {"mark", "frame"}

Owners(b) ==
  {o \in {"driver", "capture", "return", "client", "lost"} :
     \/ o = "driver" /\ driver[b] # "user"
     \/ o = "capture" /\ InHands(b)
     \/ o = "return" /\ inside.buf = b
     \/ o = "client" /\ frames[b] > 0
     \/ o = "lost" /\ b \in lost}

\* A buffer has one owner: whoever reads a Frame never shares its memory with
\* the driver, and while the camera streams no buffer disappears other than by
\* a failed or refused return.  Not for an index that is also returned by hand, and
\* not once the capture loop ended with an exception: stop() is then without
\* effect and start() queues the buffers clients still read.
OneOwner ==
  phase = "ready" /\ thread # "over" =>
    \A b \in Buffers \ ByHand :
      /\ Cardinality(Owners(b)) <= 1
      /\ frames[b] <= 1
      /\ streaming /\ buffers # {} /\ control.at # "off" => Owners(b) # {}

\* stop() frees the buffers without the mutex; no thread is then inside
\* returnBuffer past its checks, or in the capture loop with a buffer.
NoUseAfterRelease ==
  /\ inside # Nobody => inside.buf \in buffers
  /\ \A b \in Buffers : InHands(b) => b \in buffers

\* stop() comes back: the capture thread leaves its loop, and reclaiming ends
\* although Frames are still out.
StopReturns == control.at # "idle" ~> control.at = "idle"
=============================================================================
