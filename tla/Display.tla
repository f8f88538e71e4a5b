------------------------------ MODULE Display ------------------------------
(***************************************************************************)
(* From a buffer to the screen: layers lease framebuffers from a shared    *)
(* cache, the compositor commits the framebuffers of its layers, the fence *)
(* watcher tells the layers when a commit is through, and hot-plug events  *)
(* open a new generation of framebuffers.                                  *)
(***************************************************************************)
EXTENDS Integers, Sequences, FiniteSets

CONSTANTS
  Layers,
  Images,           \* the identities of the buffers (planes, size, format)
  cacheSize_,       \* handles a layer keeps
  Handlers,         \* threads of the udev monitor's pool, each with a hot-plug event
  Descriptors,      \* numbers a fence may get
  MaxUpdates,       \* bound: updates of a layer
  MaxCommits,       \* bound: commits
  Dark              \* no image, and no framebuffer

VARIABLES
  entries,          \* entriesByHash_: [id, generation, image, leases]
  fbs,              \* the framebuffers of the kernel: the image behind each id
  generation,       \* resourceGeneration_
  layer,            \* [at, fb, handles, next, updates] of every layer
  layers_,          \* the compositor: the framebuffers of the layers added to it
  request, fence,   \* commit(): what it collected, and the fence it got
  committer,        \* where the committing thread is
  pending, screen,  \* the kernel: the flip to come, and what every plane shows
  signalled,        \* fences whose flip is done
  fd_callbacks_,    \* fences with a callback
  polled,           \* fences in the epoll set
  loop,             \* where the watcher's thread is
  watching,         \* running_ of the watcher
  toTell,           \* layers whose callback the loop, or the committer, has to call
  hot,              \* [at, generation] of every handler
  commits, watched, told  \* commits, those with a callback to come, those it came for

display == <<entries, fbs>>
kernel == <<pending, screen, signalled>>
commit == <<request, fence, committer, commits>>
watcher == <<fd_callbacks_, polled, loop, watching>>
tally == <<watched, told>>
displayVars ==
  <<display, generation, layer, layers_, commit, kernel, watcher, toTell, hot, tally>>

Ids == 1..Cardinality(Layers) * (cacheSize_ + 2)
NoHandle == [id |-> 0, generation |-> 0, image |-> Dark, n |-> 0]

Init ==
  /\ entries = {} /\ fbs = [i \in Ids |-> Dark] /\ generation = 1
  /\ layer = [l \in Layers |->
       [at |-> "idle", fb |-> NoHandle, handles |-> <<>>, next |-> NoHandle, updates |-> 0]]
  /\ layers_ = [l \in Layers |-> NoHandle]
  /\ request = [l \in Layers |-> NoHandle] /\ fence = 0 /\ committer = "idle" /\ commits = 0
  /\ pending = [l \in Layers |-> NoHandle] /\ screen = [l \in Layers |-> NoHandle]
  /\ signalled = {} /\ fd_callbacks_ = [d \in {} |-> 0] /\ polled = {}
  /\ loop = "wait" /\ watching = TRUE
  /\ toTell = [w \in {"loop", "committer"} |-> {}]
  /\ hot = [h \in Handlers |-> [at |-> "idle", generation |-> 0]]
  /\ watched = {} /\ told = {}

Smallest(S) == CHOOSE x \in S : \A y \in S : x <= y

(***************************************************************************)
(* FramebufferCache                                                        *)
(***************************************************************************)
(* Mutant of Collectable: the leases are not looked at.                     *)
CollectableLeased(e, current) == e.generation # current

\* Nobody uses the entry, and it belongs to another generation.  A bucket with
\* more than 8 entries is collected too; it is beyond the bounds.
Collectable(e, current) == e.leases = 0 /\ e.generation # current

\* drmModeRmFB frees the ids, and darkens the planes that show them.
Removed(ids) ==
  /\ fbs' = [i \in Ids |-> IF i \in ids THEN Dark ELSE fbs[i]]
  /\ screen' = [l \in Layers |-> IF screen[l].id \in ids THEN NoHandle ELSE screen[l]]
  /\ pending' = [l \in Layers |-> IF pending[l].id \in ids THEN NoHandle ELSE pending[l]]

Collect(current) ==
  LET old == {e \in entries : Collectable(e, current)} IN
  entries' = entries \ old /\ Removed({e.id : e \in old})

\* releaseFramebuffer, for all of a set of positions in a deque of handles.
ReleasedFrom(handles, positions) ==
  {[e EXCEPT !.leases = e.leases
      - Cardinality({k \in positions : /\ handles[k].id = e.id
                                       /\ handles[k].generation = e.generation
                                       /\ handles[k].image = e.image})] : e \in entries}

(***************************************************************************)
(* DrmLayer::updateBuffer                                                  *)
(***************************************************************************)
\* The generation is read before the cache is locked.
UpdateBuffer(l) ==
  /\ layer[l].at = "idle" /\ layer[l].updates < MaxUpdates
  /\ \E b \in Images :
       layer' = [layer EXCEPT ![l].at = "acquire",
         ![l].next = [id |-> 0, generation |-> generation, image |-> b,
                      n |-> layer[l].updates + 1]]
  /\ UNCHANGED <<display, generation, layers_, commit, kernel, watcher, toTell, hot, tally>>

Same(e, h) == e.generation = h.generation /\ e.image = h.image
Got(l, i) == layer' = [layer EXCEPT ![l].at = "publish", ![l].next.id = i]

AcquireHit(l) ==
  /\ layer[l].at = "acquire"
  /\ \E e \in entries :
       /\ Same(e, layer[l].next)
       /\ entries' = (entries \ {e}) \cup {[e EXCEPT !.leases = e.leases + 1]}
       /\ Got(l, e.id)
  /\ UNCHANGED <<fbs, generation, layers_, commit, kernel, watcher, toTell, hot, tally>>

\* The kernel gives out the smallest free id; then the other generations are
\* collected, from the point of view of the one the layer has read.
AcquireMiss(l) ==
  LET h == layer[l].next
      i == Smallest({j \in Ids : fbs[j] = Dark})
      old == {e \in entries : Collectable(e, h.generation)}
      ids == {e.id : e \in old}
  IN
  /\ layer[l].at = "acquire" /\ ~\E e \in entries : Same(e, h)
  /\ \E j \in Ids : fbs[j] = Dark
  /\ entries' = (entries \ old) \cup
       {[id |-> i, generation |-> h.generation, image |-> h.image, leases |-> 1]}
  /\ fbs' = [j \in Ids |-> IF j = i THEN h.image ELSE IF j \in ids THEN Dark ELSE fbs[j]]
  /\ screen' = [m \in Layers |-> IF screen[m].id \in ids THEN NoHandle ELSE screen[m]]
  /\ pending' = [m \in Layers |-> IF pending[m].id \in ids THEN NoHandle ELSE pending[m]]
  /\ Got(l, i)
  /\ UNCHANGED <<generation, layers_, commit, signalled, watcher, toTell, hot, tally>>

\* drmModeAddFB2 fails: the layer keeps showing what it had.
AcquireFails(l) ==
  /\ layer[l].at = "acquire" /\ ~\E e \in entries : Same(e, layer[l].next)
  /\ layer' = [layer EXCEPT ![l].at = "idle", ![l].next = NoHandle]
  /\ UNCHANGED <<display, generation, layers_, commit, kernel, watcher, toTell, hot, tally>>

\* fb_id_, and the callback into the compositor, which knows added layers only.
Publish(l) ==
  /\ layer[l].at = "publish"
  /\ layer' = [layer EXCEPT ![l].at = "push", ![l].fb = layer[l].next,
                            ![l].updates = layer[l].next.n]
  /\ layers_' = IF l \in DOMAIN layers_ THEN [layers_ EXCEPT ![l] = layer[l].next] ELSE layers_
  /\ UNCHANGED <<display, generation, commit, kernel, watcher, toTell, hot, tally>>

Push(l) ==
  /\ layer[l].at = "push"
  /\ layer' = [layer EXCEPT ![l].at = "idle", ![l].next = NoHandle,
                            ![l].handles = Append(layer[l].handles, layer[l].next)]
  /\ UNCHANGED <<display, generation, layers_, commit, kernel, watcher, toTell, hot, tally>>

\* onFenceSignaled: all but the newest handles are given back.
Recycle(w, l) ==
  LET hs == layer[l].handles
      drop == Len(hs) - cacheSize_
  IN
  /\ l \in toTell[w] /\ toTell' = [toTell EXCEPT ![w] = toTell[w] \ {l}]
  /\ entries' = ReleasedFrom(hs, 1..drop)
  /\ layer' = [layer EXCEPT ![l].handles = IF drop > 0 THEN SubSeq(hs, drop + 1, Len(hs)) ELSE hs]
  /\ UNCHANGED <<fbs, generation, layers_, commit, kernel, watcher, hot, tally>>

(***************************************************************************)
(* PlanesCompositor                                                        *)
(***************************************************************************)
removeAllLayer == layers_' = [l \in {} |-> NoHandle]

\* addLayer takes the framebuffer the layer has by then.
addLayers ==
  layers_' = [l \in Layers |-> IF l \in DOMAIN layers_ THEN layers_[l] ELSE layer[l].fb]

\* The first half of commit(): layers without a framebuffer are skipped.
CommitCollect ==
  /\ committer = "idle" /\ commits < MaxCommits
  /\ request' = [l \in Layers |-> IF l \in DOMAIN layers_ THEN layers_[l] ELSE NoHandle]
  /\ committer' = "commit" /\ commits' = commits + 1
  /\ UNCHANGED <<display, generation, layer, layers_, fence, kernel, watcher, toTell, hot, tally>>

InRequest == {l \in Layers : request[l].id # 0}
Idle == \A l \in Layers : pending[l] = NoHandle
FreeDescriptors == Descriptors \ (DOMAIN fd_callbacks_ \cup polled)

\* The second half, without waiting: the kernel refuses while a flip is to
\* come, and when there is no such framebuffer or nothing to show.
CommitRequest ==
  LET shown(l) == [request[l] EXCEPT !.image = fbs[request[l].id]] IN
  /\ committer = "commit" /\ committer' = "watch"
  /\ \/ /\ Idle /\ InRequest # {} /\ \A l \in InRequest : fbs[request[l].id] # Dark
        /\ FreeDescriptors # {}
        /\ pending' = [l \in Layers |-> IF l \in InRequest THEN shown(l) ELSE NoHandle]
        /\ fence' = Smallest(FreeDescriptors) /\ signalled' = signalled \ {fence'}
     \/ fence' = -1 /\ UNCHANGED <<pending, signalled>>
  /\ request' = [l \in Layers |-> NoHandle]
  /\ UNCHANGED <<display, generation, layer, layers_, commits, screen, watcher, toTell, hot,
                 tally>>

\* External: the scanout of a commit begins, its fence signals.
Flip ==
  /\ ~Idle
  /\ screen' = [l \in Layers |-> IF pending[l] # NoHandle THEN pending[l] ELSE screen[l]]
  /\ pending' = [l \in Layers |-> NoHandle]
  /\ signalled' = signalled \cup (IF committer = "watch" /\ fence > 0 THEN {fence} ELSE {})
                            \cup DOMAIN fd_callbacks_
  /\ UNCHANGED <<display, generation, layer, layers_, commit, watcher, toTell, hot, tally>>

(***************************************************************************)
(* FenceWatcher                                                            *)
(***************************************************************************)
\* Without a fence the callback is called at once, by the caller.
WatchAtOnce ==
  /\ committer = "watch" /\ fence < 0 /\ fence' = 0
  /\ committer' = "tell" /\ toTell' = [toTell EXCEPT !["committer"] = Layers]
  /\ UNCHANGED <<display, generation, layer, layers_, request, commits, kernel,
                 watcher, hot, tally>>

\* The callback is in the map before the fence is in the epoll set.
WatchFence ==
  /\ committer = "watch" /\ fence > 0
  /\ fd_callbacks_' = [d \in DOMAIN fd_callbacks_ \cup {fence} |->
       IF d = fence THEN commits ELSE fd_callbacks_[d]]
  /\ watched' = watched \cup {commits} /\ committer' = "poll"
  /\ UNCHANGED <<display, generation, layer, layers_, request, fence, commits, kernel,
                 polled, loop, watching, toTell, hot, told>>

\* The loop may have found it expired, and have closed it, before.
WatchAdd ==
  /\ committer = "poll"
  /\ polled' = IF fence \in DOMAIN fd_callbacks_ THEN polled \cup {fence} ELSE polled
  /\ committer' = "idle" /\ fence' = 0
  /\ UNCHANGED <<display, generation, layer, layers_, request, commits, kernel,
                 fd_callbacks_, loop, watching, toTell, hot, tally>>

\* epoll_ctl fails: triggerCallback, in the caller's thread.
WatchAddFails ==
  /\ committer = "poll" /\ committer' = "tell" /\ fence' = 0
  /\ IF fence \in DOMAIN fd_callbacks_
     THEN /\ fd_callbacks_' = [d \in DOMAIN fd_callbacks_ \ {fence} |-> fd_callbacks_[d]]
          /\ told' = told \cup {fd_callbacks_[fence]}
          /\ toTell' = [toTell EXCEPT !["committer"] = Layers]
     ELSE UNCHANGED <<fd_callbacks_, told, toTell>>
  /\ UNCHANGED <<display, generation, layer, layers_, request, commits, kernel,
                 polled, loop, watching, hot, watched>>

CommitterDone ==
  /\ committer = "tell" /\ toTell["committer"] = {} /\ committer' = "idle"
  /\ UNCHANGED <<display, generation, layer, layers_, request, fence, commits, kernel,
                 watcher, toTell, hot, tally>>

\* triggerCallback in the loop: out of the map, closed, and then called.
Trigger(d) ==
  /\ loop = "wait" /\ watching /\ d \in DOMAIN fd_callbacks_
  /\ fd_callbacks_' = [e \in DOMAIN fd_callbacks_ \ {d} |-> fd_callbacks_[e]]
  /\ polled' = polled \ {d} /\ signalled' = signalled \ {d}
  /\ loop' = "call"
  /\ told' = told \cup {fd_callbacks_[d]}
  /\ toTell' = [toTell EXCEPT !["loop"] = Layers]
  /\ UNCHANGED <<display, generation, layer, layers_, commit, pending, screen, watching, hot,
                 watched>>

LoopSignalled == \E d \in polled \cap signalled : Trigger(d)

(* Mutant of LoopExpired: a fence counts as expired once it has signalled.  *)
LoopExpiredSignalled == \E d \in signalled : Trigger(d)

\* A second has passed.
LoopExpired == \E d \in DOMAIN fd_callbacks_ : Trigger(d)

LoopCalled ==
  /\ loop = "call" /\ toTell["loop"] = {}
  /\ loop' = "wait"
  /\ UNCHANGED <<display, generation, layer, layers_, commit, kernel, fd_callbacks_, polled,
                 watching, toTell, hot, tally>>

\* shutdown(): the loop ends, what is left is closed and never called.
Shutdown ==
  /\ watching /\ watching' = FALSE
  /\ UNCHANGED <<display, generation, layer, layers_, commit, kernel, fd_callbacks_, polled,
                 loop, toTell, hot, tally>>

LoopEnd ==
  /\ ~watching /\ loop = "wait"
  /\ loop' = "over"
  /\ fd_callbacks_' = [d \in {} |-> 0] /\ polled' = {}
  /\ UNCHANGED <<display, generation, layer, layers_, commit, kernel, watching, toTell, hot,
                 tally>>

(***************************************************************************)
(* DeviceController::handleHotplugEvent                                    *)
(***************************************************************************)
Handler(h, at) == hot' = [hot EXCEPT ![h].at = at]

\* notifyPreRefresh: the program takes its layers out of the compositor.
PreRefresh(h) ==
  /\ hot[h].at = "idle" /\ Handler(h, "bump")
  /\ removeAllLayer
  /\ UNCHANGED <<display, generation, layer, commit, kernel, watcher, toTell, tally>>

BumpGeneration(h) ==
  /\ hot[h].at = "bump" /\ Handler(h, "refresh")
  /\ generation' = generation + 1
  /\ UNCHANGED <<display, layer, layers_, commit, kernel, watcher, toTell, tally>>

\* refreshResources and refreshAllDevices; currentGeneration() is read for the
\* next call.
Refresh(h) ==
  /\ hot[h].at = "refresh"
  /\ hot' = [hot EXCEPT ![h] = [at |-> "clear", generation |-> generation]]
  /\ UNCHANGED <<display, generation, layer, layers_, commit, kernel, watcher, toTell, tally>>

ClearGeneration(h) ==
  /\ hot[h].at = "clear" /\ hot' = [hot EXCEPT ![h] = [at |-> "post", generation |-> 0]]
  /\ Collect(hot[h].generation)
  /\ UNCHANGED <<generation, layer, layers_, commit, signalled, watcher, toTell, tally>>

\* notifyPostRefresh: the program adds its layers again.
PostRefresh(h) ==
  /\ hot[h].at = "post" /\ Handler(h, "over")
  /\ addLayers
  /\ UNCHANGED <<display, generation, layer, commit, kernel, watcher, toTell, tally>>

Hotplug(h) ==
  PreRefresh(h) \/ BumpGeneration(h) \/ Refresh(h) \/ ClearGeneration(h) \/ PostRefresh(h)

CommitStep ==
  CommitCollect \/ CommitRequest \/ WatchAtOnce \/ WatchFence \/ WatchAdd \/ WatchAddFails
    \/ CommitterDone

LoopStep ==
  LoopSignalled \/ LoopExpired \/ LoopCalled \/ LoopEnd \/ \E l \in Layers : Recycle("loop", l)

Next ==
  \/ LoopStep \/ CommitStep \/ Flip \/ Shutdown
  \/ \E l \in Layers :
       \/ UpdateBuffer(l) \/ AcquireHit(l) \/ AcquireMiss(l) \/ AcquireFails(l)
       \/ Publish(l) \/ Push(l) \/ Recycle("committer", l)
  \/ \E h \in Handlers : Hotplug(h)

Spec == Init /\ [][Next]_displayVars

\* The watcher's loop runs, wakes up every 50 ms, and time passes.
Fairness == WF_displayVars(LoopStep)

LiveSpec == Spec /\ Fairness

(***************************************************************************)
(* Properties                                                              *)
(***************************************************************************)
Leased(h) ==
  \E e \in entries : e.id = h.id /\ Same(e, h) /\ e.leases > 0 /\ fbs[e.id] = h.image

\* What a plane shows, or is about to show, is a framebuffer its layer still
\* leases, with the image it was given, whatever is collected meanwhile: as
\* long as it is one of the layer's newest cacheSize_ updates.  A layer that
\* runs further ahead, say because its commits are refused, loses it.
ShownIsLeased ==
  \A l \in Layers : \A h \in {pending[l], screen[l]} :
    h # NoHandle /\ layer[l].updates - h.n < cacheSize_ => Leased(h)

\* Every fence that is watched has its callback called, by its signal or by its
\* timeout, unless the watcher is shut down.
CallbackComes ==
  (\E c \in watched : c \notin told) ~> watched \subseteq told \/ ~watching
=============================================================================
