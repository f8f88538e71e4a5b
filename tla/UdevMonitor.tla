---------------------------- MODULE UdevMonitor ----------------------------
(***************************************************************************)
(* The udev monitor: registering a handler starts the thread, stop() joins *)
(* it and closes what is left.  Start and stop are kept apart by one       *)
(* compare-exchange on running_, which says nothing of the work behind it. *)
(***************************************************************************)
EXTENDS Integers, Sequences, FiniteSets

CONSTANTS
  Callers,          \* threads that register handlers and stop the monitor
  Keys,             \* subsystem, device and action of an event
  MaxHandlers,      \* bound: handlers registered
  MaxStops,         \* bound: calls of stop
  MaxEvents,        \* bound: events that occur
  MaxErrors         \* bound: failures, of a start or of epoll_wait

VARIABLES
  running_,
  worker_,          \* the std::thread: "none", or "joinable"
  held,             \* the fields that are set: among udev_, monitor_, epollFd_
  open,             \* how many of each are open
  handlers_,        \* the handlers registered
  at,               \* where every caller is
  loop,             \* where the monitor's thread is
  occurred,         \* events the kernel has for the monitor
  hand, snapshot,   \* the event in the loop's hands, and the handlers it saw
  lastTriggerTime,  \* the keys that were triggered in the last 500 ms
  jobs,             \* handlers posted to the pool of the loop
  stops, events, errors,
  crossed           \* a start or stop began before another one was through

switches == <<running_, worker_, held, open>>
looping == <<loop, hand, snapshot, lastTriggerTime, jobs>>
counts == <<stops, events, errors>>
udevVars == <<switches, handlers_, at, looping, occurred, counts, crossed>>

Resources == {"udev", "monitor", "epoll"}
None == "none"

Init ==
  /\ running_ = FALSE /\ worker_ = "none" /\ held = {} /\ open = [r \in Resources |-> 0]
  /\ handlers_ = 0 /\ at = [c \in Callers |-> "out"]
  /\ loop = "none" /\ hand = None /\ snapshot = 0 /\ lastTriggerTime = {} /\ jobs = {}
  /\ occurred = <<>> /\ stops = 0 /\ events = 0 /\ errors = 0 /\ crossed = FALSE

\* A field that is set is released and cleared; one that is not is left alone.
Release(rs) ==
  /\ held' = held \ rs
  /\ open' = [r \in Resources |-> open[r] - (IF r \in rs \cap held THEN 1 ELSE 0)]

Opens(r) == held' = held \union {r} /\ open' = [open EXCEPT ![r] = @ + 1]

Goes(c, from, to) == at[c] = from /\ at' = [at EXCEPT ![c] = to]
Others(c) == \E d \in Callers \ {c} : at[d] \notin {"out", "check"}

(***************************************************************************)
(* registerHandler and startIfNeededUnlocked                               *)
(***************************************************************************)
RegisterHandler(c) ==
  /\ Goes(c, "out", "check") /\ handlers_ < MaxHandlers /\ handlers_' = handlers_ + 1
  /\ UNCHANGED <<switches, looping, occurred, counts, crossed>>

\* The test of running_ and the compare-exchange behind it come to one step.
StartClaim(c) ==
  /\ Goes(c, "check", IF running_ THEN "out" ELSE "udev")
  /\ running_' = TRUE /\ crossed' = (crossed \/ (~running_ /\ Others(c)))
  /\ UNCHANGED <<worker_, held, open, handlers_, looping, occurred, counts>>

After(r) == IF r = "udev" THEN "monitor" ELSE IF r = "monitor" THEN "epoll" ELSE "launch"

\* udev_new; the monitor and its descriptor; the epoll set with it.
StartOpen(c, r) ==
  /\ Goes(c, r, After(r)) /\ Opens(r)
  /\ UNCHANGED <<running_, worker_, handlers_, looping, occurred, counts, crossed>>

\* Whatever was opened is released, and running_ is reset.
StartFails(c, r) ==
  /\ Goes(c, r, "out") /\ errors < MaxErrors /\ errors' = errors + 1
  /\ Release(Resources) /\ running_' = FALSE
  /\ UNCHANGED <<worker_, handlers_, looping, occurred, stops, events, crossed>>

\* Assigning to a thread that is joinable ends the program: not followed.
StartLaunch(c) ==
  /\ Goes(c, "launch", "out") /\ worker_ = "none" /\ worker_' = "joinable" /\ loop' = "top"
  /\ UNCHANGED <<running_, held, open, handlers_, hand, snapshot, lastTriggerTime, jobs,
                 occurred, counts, crossed>>

(***************************************************************************)
(* stop                                                                    *)
(***************************************************************************)
Stop(c) ==
  /\ stops < MaxStops /\ stops' = stops + 1
  /\ Goes(c, "out", IF running_ THEN "join" ELSE "out")
  /\ running_' = FALSE /\ crossed' = (crossed \/ (running_ /\ Others(c)))
  /\ UNCHANGED <<worker_, held, open, handlers_, looping, occurred, events, errors>>

(* Mutant of StopJoin: the thread is detached.                              *)
StopDetach(c) ==
  /\ Goes(c, "join", "close")
  /\ worker_' = "none" /\ UNCHANGED <<loop, jobs, lastTriggerTime>>
  /\ UNCHANGED <<running_, held, open, handlers_, hand, snapshot, occurred, counts, crossed>>

\* A monitor that was not launched yet has no thread to wait for.
StopJoin(c) ==
  /\ Goes(c, "join", "close") /\ loop \in {"none", "ended"}
  /\ worker_' = "none" /\ loop' = "none" /\ jobs' = {} /\ lastTriggerTime' = {}
  /\ UNCHANGED <<running_, held, open, handlers_, hand, snapshot, occurred, counts, crossed>>

StopClose(c) ==
  /\ Goes(c, "close", "out") /\ Release(Resources)
  /\ UNCHANGED <<running_, worker_, handlers_, looping, occurred, counts, crossed>>

(***************************************************************************)
(* run                                                                     *)
(***************************************************************************)
LoopGoes(from, to) == loop = from /\ loop' = to

LoopTop ==
  /\ LoopGoes("top", IF running_ THEN "wait" ELSE "leave")
  /\ UNCHANGED <<switches, handlers_, at, hand, snapshot, lastTriggerTime, jobs, occurred,
                 counts, crossed>>

\* epoll_wait comes back after a second, or with the monitor's descriptor.
LoopWait ==
  /\ LoopGoes("wait", IF occurred = <<>> THEN "top" ELSE "receive")
  /\ UNCHANGED <<switches, handlers_, at, hand, snapshot, lastTriggerTime, jobs, occurred,
                 counts, crossed>>

\* An error ends the loop; running_ stays set, and no later registration
\* starts the thread again.
LoopError ==
  /\ LoopGoes("wait", "leave") /\ errors < MaxErrors /\ errors' = errors + 1
  /\ UNCHANGED <<switches, handlers_, at, hand, snapshot, lastTriggerTime, jobs, occurred,
                 stops, events, crossed>>

\* udev_monitor_receive_device, and the debouncing: an event whose key was
\* triggered in the last 500 ms is dropped, the last one of a burst as well.
LoopReceive ==
  LET key == Head(occurred) IN
  /\ LoopGoes("receive", IF key \in lastTriggerTime THEN "top" ELSE "snapshot")
  /\ occurred' = Tail(occurred) /\ hand' = key
  /\ lastTriggerTime' = lastTriggerTime \union {key}
  /\ UNCHANGED <<switches, handlers_, at, snapshot, jobs, counts, crossed>>

LoopSnapshot ==
  /\ LoopGoes("snapshot", "post") /\ snapshot' = handlers_
  /\ UNCHANGED <<switches, handlers_, at, hand, lastTriggerTime, jobs, occurred, counts, crossed>>

\* The handlers of the snapshot that match go to the pool; here all of them do.
LoopPost ==
  /\ LoopGoes("post", "top")
  /\ jobs' = jobs \union {<<hand, h>> : h \in 1..snapshot}
  /\ UNCHANGED <<switches, handlers_, at, hand, snapshot, lastTriggerTime, occurred, counts, crossed>>

\* The loop releases what is there, then its pool is destroyed, which waits
\* for the tasks that run.
LoopLeave ==
  /\ LoopGoes("leave", "drain") /\ Release(Resources)
  /\ UNCHANGED <<running_, worker_, handlers_, at, hand, snapshot, lastTriggerTime, jobs,
                 occurred, counts, crossed>>

LoopDrained ==
  /\ LoopGoes("drain", "ended") /\ jobs = {}
  /\ UNCHANGED <<switches, handlers_, at, hand, snapshot, lastTriggerTime, jobs, occurred,
                 counts, crossed>>

LoopStep ==
  \/ LoopTop \/ LoopWait \/ LoopError \/ LoopReceive \/ LoopSnapshot \/ LoopPost
  \/ LoopLeave \/ LoopDrained

\* A worker of the pool runs a handler.
HandlerRuns ==
  /\ \E j \in jobs : jobs' = jobs \ {j}
  /\ UNCHANGED <<switches, handlers_, at, loop, hand, snapshot, lastTriggerTime, occurred,
                 counts, crossed>>

(***************************************************************************)
(* The kernel, and time                                                    *)
(***************************************************************************)
EventOccurs ==
  /\ events < MaxEvents /\ events' = events + 1
  /\ \E k \in Keys : occurred' = IF open["monitor"] > 0 THEN Append(occurred, k) ELSE occurred
  /\ UNCHANGED <<switches, handlers_, at, looping, stops, errors, crossed>>

DebounceExpires ==
  /\ \E k \in lastTriggerTime : lastTriggerTime' = lastTriggerTime \ {k}
  /\ UNCHANGED <<switches, handlers_, at, loop, hand, snapshot, jobs, occurred, counts, crossed>>

Next ==
  \/ \E c \in Callers :
       \/ RegisterHandler(c) \/ StartClaim(c) \/ StartLaunch(c)
       \/ \E r \in Resources : StartOpen(c, r) \/ StartFails(c, r)
       \/ Stop(c) \/ StopJoin(c) \/ StopClose(c)
  \/ LoopStep \/ HandlerRuns \/ EventOccurs \/ DebounceExpires

Spec == Init /\ [][Next]_udevVars

\* As long as no start or stop begins before the one before it is through:
\* what is open is what the fields name (nothing leaks over a restart, and
\* nothing is closed twice), and the loop polls and reads a monitor that is open.
\* run() and stop() both close the three.
MonitorIsHeld ==
  ~crossed =>
    /\ \A r \in Resources : open[r] = IF r \in held THEN 1 ELSE 0
    /\ loop \in {"wait", "receive"} => {"monitor", "epoll"} \subseteq held
    /\ loop = "top" /\ running_ => held = Resources
=============================================================================
