---------------------------- MODULE MouseWatcher ----------------------------
(***************************************************************************)
(* The mouse watcher: a detached thread reads the device and publishes     *)
(* positions in two buffers that readers look at without a lock, while the *)
(* client starts, stops and pauses it and hot-plug handlers of the udev    *)
(* monitor pause it and exchange the device.                               *)
(***************************************************************************)
EXTENDS Integers

CONSTANTS
  Watchers,         \* watch threads: there may be more than one
  Readers,          \* threads that ask for the position or a key
  Handlers,         \* threads of the udev monitor's pool, each with one hot-plug event
  Width, Height,    \* the screen, once it is set
  Values,           \* values of an event: steps, or a press and a release
  MaxEvents,        \* bound: events the device delivers
  MaxCalls          \* bound: calls of start, stop, pause, resume

VARIABLES
  running,
  paused_, tokens,  \* the pauser: its flag, and wakeups nobody has read yet
  mouseFd,          \* is a device open?
  screen,           \* [w, h]; 0 is "not set"
  events,           \* the two buffers: [x, y, buttons]
  sequence,
  watch,            \* [at, x, y, type, value, seq] of every watch thread
  client,           \* where the client is inside its call
  hot,              \* where every hot-plug handler is
  reader,           \* [at, seq, x, y] of every reader
  delivered, called,
  latest,           \* of each buffer, the position that was published there last
  doubled           \* two watch threads have been alive together

switches == <<running, paused_, tokens, mouseFd, screen>>
buffersOf == <<events, sequence, latest>>
actors == <<watch, client, hot, reader>>
bounds == <<delivered, called, doubled>>
mouseVars == <<switches, buffersOf, actors, bounds>>

Nowhere == [at |-> "gone", x |-> 0, y |-> 0, type |-> "x", value |-> 0, seq |-> 0]

Init ==
  /\ running = FALSE /\ paused_ = FALSE /\ tokens = 0 /\ mouseFd \in BOOLEAN
  /\ screen = [w |-> 0, h |-> 0]
  /\ events = [i \in {0, 1} |-> [x |-> 0, y |-> 0, buttons |-> {}]]
  /\ sequence = 0 /\ latest = [i \in {0, 1} |-> <<0, 0>>]
  /\ watch = [w \in Watchers |-> Nowhere]
  /\ client = "idle"
  /\ hot = [h \in Handlers |-> "idle"]
  /\ reader = [r \in Readers |-> [at |-> "idle", seq |-> 0, x |-> 0, y |-> 0]]
  /\ delivered = 0 /\ called = 0 /\ doubled = FALSE

\* clampInt.  With the screen not set the upper limit is -1.
Clamp(v, lo, hi) == IF v < lo THEN lo ELSE IF v > hi THEN hi ELSE v

(***************************************************************************)
(* start, stop, pause, resume                                              *)
(***************************************************************************)
Alive == {w \in Watchers : watch[w].at # "gone"}

\* start(): the thread begins at the origin.  A watch thread told to stop may
\* still be there.
StartThread ==
  IF running
  THEN UNCHANGED <<running, watch, doubled>>
  ELSE /\ running' = TRUE
       /\ \E w \in Watchers \ Alive : watch' = [watch EXCEPT ![w] = [Nowhere EXCEPT !.at = "top"]]
       /\ doubled' = (doubled \/ Alive # {})

Calls == client = "idle" /\ called < MaxCalls /\ called' = called + 1

Start ==
  /\ Calls /\ StartThread
  /\ UNCHANGED <<paused_, tokens, mouseFd, screen, buffersOf, client, hot, reader, delivered>>

\* stop(): the thread is not joined; a sleeping one is resumed.
Stop ==
  /\ Calls /\ running' = FALSE
  /\ client' = IF running THEN "resume" ELSE "idle"
  /\ UNCHANGED <<paused_, tokens, mouseFd, screen, buffersOf, watch, hot, reader, delivered, doubled>>

\* pause() and resume() look at the flag and then act on it.
PauseAsk ==
  /\ Calls /\ client' = IF paused_ THEN "idle" ELSE "pause"
  /\ UNCHANGED <<switches, buffersOf, watch, hot, reader, delivered, doubled>>

ResumeAsk ==
  /\ Calls /\ client' = "resume"
  /\ UNCHANGED <<switches, buffersOf, watch, hot, reader, delivered, doubled>>

PauseDo ==
  /\ client = "pause" /\ paused_' = TRUE /\ client' = "idle"
  /\ UNCHANGED <<running, tokens, mouseFd, screen, buffersOf, watch, hot, reader, bounds>>

\* ThreadPauser::resume writes one token if the flag was set.
ResumeDo ==
  /\ client = "resume" /\ client' = "idle"
  /\ paused_' = FALSE /\ tokens' = tokens + (IF paused_ THEN 1 ELSE 0)
  /\ UNCHANGED <<running, mouseFd, screen, buffersOf, watch, hot, reader, bounds>>

\* Bound: the client sets the size before its first call, if at all.
SetScreenSize ==
  /\ client = "idle" /\ called = 0 /\ screen' = [w |-> Width, h |-> Height]
  /\ UNCHANGED <<running, paused_, tokens, mouseFd, buffersOf, actors, bounds>>

ClientNext ==
  Start \/ Stop \/ PauseAsk \/ ResumeAsk \/ PauseDo \/ ResumeDo \/ SetScreenSize

(***************************************************************************)
(* The hot-plug handler                                                    *)
(***************************************************************************)
HotGoes(h, from, to) == hot[h] = from /\ hot' = [hot EXCEPT ![h] = to]

HotPauseAsk(h) ==
  /\ HotGoes(h, "idle", IF paused_ THEN "look" ELSE "pause")
  /\ UNCHANGED <<switches, buffersOf, watch, client, reader, bounds>>

HotPause(h) ==
  /\ HotGoes(h, "pause", "look") /\ paused_' = TRUE
  /\ UNCHANGED <<running, tokens, mouseFd, screen, buffersOf, watch, client, reader, bounds>>

\* getMouseInfo opens the first device that is a mouse, if there is one; under
\* fdMtx it becomes the device, and start() is called.  Nothing resumes the
\* watcher, and a stopped watcher is started.
HotSwap(h) ==
  /\ HotGoes(h, "look", "done")
  /\ \/ mouseFd' = FALSE /\ UNCHANGED <<running, watch, doubled>>
     \/ mouseFd' = TRUE /\ StartThread
  /\ UNCHANGED <<paused_, tokens, screen, buffersOf, client, reader, delivered, called>>

(***************************************************************************)
(* watch() and updateMouseEvent()                                          *)
(***************************************************************************)
At(w, from) == watch[w].at = from
WatchGoes(w, to) == watch' = [watch EXCEPT ![w].at = to]
WatchKeeps == UNCHANGED <<running, paused_, mouseFd, screen, client, hot, reader, called, doubled>>

\* The thread may leave here, or before it reads.
WatchTop(w) ==
  /\ At(w, "top") \/ At(w, "check")
  /\ WatchGoes(w, IF ~running THEN "gone" ELSE IF At(w, "top") THEN "wait" ELSE "read")
  /\ UNCHANGED <<tokens, buffersOf, delivered>> /\ WatchKeeps

WaitIfPaused(w) ==
  /\ \/ At(w, "wait") /\ WatchGoes(w, IF paused_ THEN "asleep" ELSE "check") /\ UNCHANGED tokens
     \/ At(w, "asleep") /\ tokens > 0 /\ tokens' = tokens - 1 /\ WatchGoes(w, "wait")
  /\ UNCHANGED <<buffersOf, delivered>> /\ WatchKeeps

\* Without a device, without data, and after an event of another kind, the
\* thread goes round.
ReadNothing(w) ==
  /\ At(w, "read") /\ WatchGoes(w, "top")
  /\ UNCHANGED <<tokens, buffersOf, delivered>> /\ WatchKeeps

\* The callbacks run on threads of their own with copies of the values.
ReadEvent(w) ==
  /\ At(w, "read") /\ mouseFd /\ delivered < MaxEvents /\ delivered' = delivered + 1
  /\ \E type \in {"x", "y", "button"}, value \in Values :
       watch' = [watch EXCEPT ![w] =
         [watch[w] EXCEPT !.at = "load", !.type = type, !.value = value,
            !.x = watch[w].x + (IF type = "x" THEN value ELSE 0),
            !.y = watch[w].y + (IF type = "y" THEN value ELSE 0)]]
  /\ UNCHANGED <<tokens, buffersOf>> /\ WatchKeeps

LoadSequence(w) ==
  /\ At(w, "load")
  /\ watch' = [watch EXCEPT ![w] =
       [watch[w] EXCEPT !.at = "x", !.seq = sequence,
          !.x = Clamp(watch[w].x, 0, screen.w - 1), !.y = Clamp(watch[w].y, 0, screen.h - 1)]]
  /\ UNCHANGED <<tokens, buffersOf, delivered>> /\ WatchKeeps

(* Mutant of OtherIndex: the buffer the readers look at is updated.         *)
SameIndex(seq) == seq % 2

\* The readers look at buffer sequence % 2.
OtherIndex(seq) == (seq + 1) % 2

\* A press is kept in this buffer, and not in the other.
WriteEvent(w) ==
  LET me == watch[w]  into == OtherIndex(me.seq) IN
  /\ \/ At(w, "x") /\ events' = [events EXCEPT ![into].x = me.x] /\ WatchGoes(w, "y")
     \/ /\ At(w, "y") /\ WatchGoes(w, "store")
        /\ events' = [events EXCEPT ![into].y = me.y,
             ![into].buttons = IF me.type = "button" THEN {me.value} ELSE @]
  /\ UNCHANGED <<tokens, sequence, latest, delivered>> /\ WatchKeeps

StoreSequence(w) ==
  /\ At(w, "store") /\ WatchGoes(w, "top")
  /\ sequence' = watch[w].seq + 1
  /\ latest' = [latest EXCEPT ![OtherIndex(watch[w].seq)] = <<watch[w].x, watch[w].y>>]
  /\ UNCHANGED <<tokens, events, delivered>> /\ WatchKeeps

WatchNext(w) ==
  \/ WatchTop(w) \/ WaitIfPaused(w) \/ ReadNothing(w) \/ ReadEvent(w)
  \/ LoadSequence(w) \/ WriteEvent(w) \/ StoreSequence(w)

(***************************************************************************)
(* getLatestPosition() and getLatestKeyEvent()                             *)
(***************************************************************************)
\* Nothing was published yet: false.
ReadSequence(r) ==
  /\ reader[r].at = "idle" /\ sequence # 0
  /\ reader' = [reader EXCEPT ![r].at = "x", ![r].seq = sequence]
  /\ UNCHANGED <<switches, buffersOf, watch, client, hot, bounds>>

ReadPosition(r) ==
  LET from == events[reader[r].seq % 2] IN
  /\ \/ reader[r].at = "x" /\ reader' = [reader EXCEPT ![r].at = "y", ![r].x = from.x]
     \/ reader[r].at = "y" /\ reader' = [reader EXCEPT ![r].at = "done", ![r].y = from.y]
  /\ UNCHANGED <<switches, buffersOf, watch, client, hot, bounds>>

\* The key is looked up in one buffer, which may have missed the last press.
ReadKey(r) ==
  /\ reader[r].at = "x" /\ reader' = [reader EXCEPT ![r].at = "idle"]
  /\ UNCHANGED <<switches, buffersOf, watch, client, hot, bounds>>

ReaderNext(r) == ReadSequence(r) \/ ReadPosition(r) \/ ReadKey(r)

Next ==
  \/ ClientNext
  \/ \E h \in Handlers : HotPauseAsk(h) \/ HotPause(h) \/ HotSwap(h)
  \/ \E w \in Watchers : WatchNext(w)
  \/ \E r \in Readers : ReaderNext(r)

Spec == Init /\ [][Next]_mouseVars

\* The update after the next one goes into the buffer this reader looks at; it
\* has begun.
Overtaken(r) ==
  \/ sequence > reader[r].seq + 1
  \/ /\ sequence = reader[r].seq + 1
     /\ \E w \in Watchers : watch[w].at \in {"x", "y", "store"}

\* A reader returns the position that was published under the sequence number
\* it has loaded, also while the next update is written or after it, and not
\* the x of one update with the y of another: as long as there is one watch
\* thread, and unless the update after the next one begins before the reader
\* is done.  getLatestPosition does not look at the sequence again, and such a
\* reader does return the two halves.
PositionIsOne ==
  [][\A r \in Readers :
       /\ reader[r].at = "y" /\ reader'[r].at = "done"
       /\ ~Overtaken(r) /\ ~doubled
       => <<reader'[r].x, reader'[r].y>> = latest[reader[r].seq % 2]]_mouseVars
=============================================================================
