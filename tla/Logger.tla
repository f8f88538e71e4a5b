------------------------------- MODULE Logger -------------------------------
(***************************************************************************)
(* LoggerV2: threads log into a concurrent queue, whose size is counted    *)
(* beside it; a worker writes to the sinks; init() and shutdown() replace  *)
(* the queue under a mutex that the logging threads do not take.           *)
(***************************************************************************)
EXTENDS Integers, Sequences, FiniteSets

CONSTANTS
  Threads,
  Capacity,         \* capacity_hint_
  Wrap,             \* queued_count_ is counted modulo Wrap (2^64 in the code)
  Policies,         \* among "block", "dropNewest", "dropIfBelowError"
  Modes,            \* async_mode_: among "async", "sync"
  Levels,           \* among "info" (or any other below it) and "error"
  MaxMessages,      \* bound: messages logged in all
  MaxInits          \* bound: queues built; the last one is not shut down

VARIABLES
  initialized_, mode, policy,
  queue,            \* queue_: "none" or "live"
  contents,         \* the messages in it, by thread: it keeps the order of each
  queued_count_, running_,
  worker, hand,     \* the worker thread, and the message it has taken out
  init_mutex_,      \* "free", or the thread that holds it
  place,            \* where every thread is
  message,          \* the message of every thread
  wants,            \* what init() was called for: "log" or "init"
  uses,             \* the number of the queue the thread is inside of
  sent, inits,
  accepted,         \* by thread, the messages pushed while the queue ran
  written,          \* the messages the sinks got, in order
  dropped           \* the levels recordDrop() counted

life == <<initialized_, mode, policy, queue, running_, init_mutex_, inits>>
store == <<contents, queued_count_>>
calls == <<place, message, wants, uses, sent>>
record == <<accepted, written, dropped>>
loggerVars == <<life, store, worker, hand, calls, record>>

Nobody == "free"
Nothing == [by |-> "nobody", n |-> 0, level |-> "info", late |-> FALSE]

Init ==
  /\ initialized_ = FALSE /\ mode = "async" /\ policy = "dropIfBelowError" /\ queue = "none"
  /\ contents = [t \in Threads |-> <<>>] /\ queued_count_ = 0 /\ running_ = FALSE
  /\ worker = "none" /\ hand = Nothing /\ init_mutex_ = Nobody /\ inits = 0
  /\ place = [t \in Threads |-> "out"] /\ message = [t \in Threads |-> Nothing]
  /\ wants = [t \in Threads |-> "log"] /\ uses = [t \in Threads |-> 0]
  /\ sent = 0
  /\ accepted = [t \in Threads |-> <<>>] /\ written = <<>> /\ dropped = {}

Goes(t, at) == place' = [place EXCEPT ![t] = at]
Full == queued_count_ >= Capacity
Counted(n) == queued_count_' = (queued_count_ + n) % Wrap

(***************************************************************************)
(* LoggerV2::log                                                           *)
(***************************************************************************)
\* A message below the global level ends here and is left out.
LogCall(t) ==
  /\ place[t] = "out"
  /\ \E l \in Levels :
       message' = [message EXCEPT ![t] =
         [by |-> t, n |-> sent + 1, level |-> l, late |-> FALSE]]
  /\ sent < MaxMessages /\ sent' = sent + 1
  /\ wants' = [wants EXCEPT ![t] = "log"]
  /\ Goes(t, IF initialized_ THEN "sinks" ELSE "ensure")
  /\ UNCHANGED <<life, store, worker, hand, uses, record>>

\* hasActiveSinks, here and at the start of dispatch: without queue and
\* without sinks the message is forgotten, in the other mode it is written.
Dispatch(t) ==
  /\ place[t] = "sinks"
  /\ IF mode = "async"
     THEN Goes(t, IF queue = "live" THEN "push" ELSE "out") /\ UNCHANGED <<accepted, written>>
     ELSE /\ Goes(t, "out")
          /\ IF initialized_
             THEN /\ written' = Append(written, message[t])
                  /\ accepted' = [accepted EXCEPT ![t] = Append(accepted[t], message[t])]
             ELSE UNCHANGED <<accepted, written>>
  /\ uses' = [uses EXCEPT ![t] = inits]
  /\ UNCHANGED <<life, store, worker, hand, message, wants, sent, dropped>>

Pushes(t) == place[t] \in {"push", "test", "try", "count"}
Alive(t) == queue = "live" /\ uses[t] = inits

\* queue_ was there when dispatch() looked; what happens when shutdown() has
\* deleted it since is undefined, and the thread is not followed further.
Deleted(t) ==
  /\ Pushes(t) /\ ~Alive(t)
  /\ Goes(t, "undefined")
  /\ UNCHANGED <<life, store, worker, hand, message, wants, uses, sent, record>>

Drop(t) == Goes(t, "out") /\ dropped' = dropped \cup {message[t].level}

\* push: the first test of the policies, and the wait of "block".
Push(t) ==
  /\ place[t] = "push" /\ Alive(t)
  /\ \/ /\ policy = "dropIfBelowError"
        /\ IF message[t].level # "error" /\ Full THEN Drop(t)
           ELSE Goes(t, "test") /\ UNCHANGED dropped
     \/ policy = "block" /\ ~(running_ /\ Full) /\ Goes(t, "try") /\ UNCHANGED dropped
     \/ policy = "dropNewest" /\ Goes(t, "test") /\ UNCHANGED dropped
  /\ UNCHANGED <<life, store, worker, hand, message, wants, uses, sent, accepted, written>>

\* The second test makes no difference between the levels.
PushTest(t) ==
  /\ place[t] = "test" /\ Alive(t)
  /\ IF Full THEN Drop(t) ELSE Goes(t, "try") /\ UNCHANGED dropped
  /\ UNCHANGED <<life, store, worker, hand, message, wants, uses, sent, accepted, written>>

\* try_enqueue, which allocates nothing: it fails when other threads hold all
\* the blocks the queue was built with.
TryPush(t) ==
  LET m == [message[t] EXCEPT !.late = ~running_] IN
  /\ place[t] = "try" /\ Alive(t)
  /\ \/ /\ contents' = [contents EXCEPT ![t] = Append(contents[t], m)]
        /\ accepted' = IF m.late THEN accepted
                       ELSE [accepted EXCEPT ![t] = Append(accepted[t], m)]
        /\ Goes(t, "count") /\ UNCHANGED dropped
     \/ /\ \E u \in Threads \ {t} : uses[u] = uses[t]
        /\ Drop(t) /\ UNCHANGED <<contents, accepted>>
  /\ UNCHANGED <<life, queued_count_, worker, hand, message, wants, uses, sent, written>>

TryPushCount(t) ==
  /\ place[t] = "count" /\ Alive(t)
  /\ Counted(1) /\ Goes(t, "out")
  /\ UNCHANGED <<life, contents, worker, hand, message, wants, uses, sent, record>>

(***************************************************************************)
(* init, called by the program or by the first message                     *)
(***************************************************************************)
InitCall(t) ==
  /\ place[t] = "out"
  /\ Goes(t, "ensure") /\ wants' = [wants EXCEPT ![t] = "init"]
  /\ UNCHANGED <<life, store, worker, hand, message, uses, sent, record>>

\* An initialized logger is shut down first: shutdown() takes the mutex that
\* init() holds, and the thread waits for itself.
InitLock(t) ==
  /\ place[t] = "ensure" /\ init_mutex_ = Nobody
  /\ init_mutex_' = t
  /\ Goes(t, IF initialized_ THEN "selfLocked" ELSE "build")
  /\ UNCHANGED <<initialized_, mode, policy, queue, running_, inits, store, worker, hand,
                 message, wants, uses, sent, record>>

\* The first message takes the default configuration: a queue that drops what
\* is below ERROR, and a console.
InitBuild(t) ==
  /\ place[t] = "build"
  /\ \/ wants[t] = "init" /\ mode' \in Modes /\ policy' \in Policies
     \/ wants[t] = "log" /\ mode' = "async" /\ policy' = "dropIfBelowError"
  /\ queue' = IF mode' = "async" THEN "live" ELSE "none"
  /\ contents' = [u \in Threads |-> <<>>] /\ queued_count_' = 0
  /\ Goes(t, "start") /\ inits' = inits + 1
  /\ UNCHANGED <<initialized_, running_, init_mutex_, worker, hand, message, wants, uses, sent, record>>

\* A file sink that cannot open its file logs an error, which initializes the
\* logger, which takes the mutex.
InitFileFails(t) ==
  /\ place[t] = "start" /\ wants[t] = "init"
  /\ Goes(t, "selfLocked")
  /\ UNCHANGED <<life, store, worker, hand, message, wants, uses, sent, record>>

InitStart(t) ==
  /\ place[t] = "start"
  /\ IF queue = "live" THEN running_' = TRUE /\ worker' = "run"
     ELSE UNCHANGED <<running_, worker>>
  /\ initialized_' = TRUE /\ init_mutex_' = Nobody
  /\ Goes(t, IF wants[t] = "log" THEN "sinks" ELSE "out")
  /\ UNCHANGED <<mode, policy, queue, inits, store, hand, message, wants, uses, sent, record>>

(***************************************************************************)
(* The worker                                                              *)
(***************************************************************************)
\* The oldest message of any thread; an empty queue is looked at again later.
WorkerFetch ==
  /\ worker = "run" /\ running_
  /\ \E t \in Threads :
       /\ contents[t] # <<>>
       /\ hand' = Head(contents[t])
       /\ contents' = [contents EXCEPT ![t] = Tail(contents[t])]
  /\ worker' = "count"
  /\ UNCHANGED <<life, queued_count_, calls, record>>

(* Mutant of WorkerCount: the message stays counted.                        *)
WorkerCountForgets ==
  /\ worker = "count" /\ worker' = "write"
  /\ UNCHANGED <<life, store, hand, calls, record>>

\* The thread that pushed the message may not have counted it yet.
WorkerCount ==
  /\ worker = "count" /\ Counted(-1) /\ worker' = "write"
  /\ UNCHANGED <<life, contents, hand, calls, record>>

WorkerWrite ==
  /\ worker = "write"
  /\ written' = Append(written, hand) /\ hand' = Nothing /\ worker' = "run"
  /\ UNCHANGED <<life, store, calls, accepted, dropped>>

WorkerEnd ==
  /\ worker = "run" /\ ~running_ /\ worker' = "over"
  /\ UNCHANGED <<life, store, hand, calls, record>>

(***************************************************************************)
(* shutdown, and AsyncLogQueue::stop                                       *)
(***************************************************************************)
Shutdown(t) ==
  /\ place[t] = "out" /\ init_mutex_ = Nobody /\ initialized_ /\ inits < MaxInits
  /\ IF queue = "live"
     THEN init_mutex_' = t /\ running_' = FALSE /\ Goes(t, "join") /\ UNCHANGED initialized_
     ELSE initialized_' = FALSE /\ UNCHANGED <<init_mutex_, running_, place>>
  /\ UNCHANGED <<mode, policy, queue, inits, store, worker, hand, message, wants, uses, sent, record>>

(* Mutant of ShutdownJoin: the worker is not awaited.                       *)
ShutdownJoinAtOnce(t) ==
  /\ place[t] = "join" /\ Goes(t, "drain")
  /\ UNCHANGED <<life, store, worker, hand, message, wants, uses, sent, record>>

ShutdownJoin(t) ==
  /\ place[t] = "join" /\ worker = "over" /\ Goes(t, "drain")
  /\ UNCHANGED <<life, store, worker, hand, message, wants, uses, sent, record>>

ShutdownDrain(t) ==
  /\ place[t] = "drain"
  /\ \E u \in Threads :
       /\ contents[u] # <<>>
       /\ written' = Append(written, Head(contents[u]))
       /\ contents' = [contents EXCEPT ![u] = Tail(contents[u])]
  /\ Counted(-1)
  /\ UNCHANGED <<life, worker, hand, calls, accepted, dropped>>

ShutdownDrained(t) ==
  /\ place[t] = "drain" /\ \A u \in Threads : contents[u] = <<>>
  /\ Goes(t, "reset")
  /\ UNCHANGED <<life, store, worker, hand, message, wants, uses, sent, record>>

ShutdownReset(t) ==
  /\ place[t] = "reset"
  /\ queue' = "none" /\ initialized_' = FALSE /\ init_mutex_' = Nobody /\ Goes(t, "out")
  /\ contents' = [u \in Threads |-> <<>>] /\ queued_count_' = 0 /\ worker' = "none"
  /\ UNCHANGED <<mode, policy, running_, inits, hand, message, wants, uses, sent, record>>

Inside(t) ==
  \/ Dispatch(t) \/ Deleted(t) \/ Push(t) \/ PushTest(t) \/ TryPush(t) \/ TryPushCount(t)
  \/ InitLock(t) \/ InitBuild(t) \/ InitStart(t)
  \/ ShutdownJoin(t) \/ ShutdownDrain(t) \/ ShutdownDrained(t) \/ ShutdownReset(t)

WorkerStep == WorkerFetch \/ WorkerCount \/ WorkerWrite \/ WorkerEnd

Next ==
  \/ WorkerStep
  \/ \E t \in Threads :
       Inside(t) \/ LogCall(t) \/ InitCall(t) \/ InitFileFails(t) \/ Shutdown(t)

Spec == Init /\ [][Next]_loggerVars

\* The threads run, the worker too, and a mutex that is free is given out.
Fairness ==
  WF_loggerVars(WorkerStep) /\ \A t \in Threads : SF_loggerVars(Inside(t))

LiveSpec == Spec /\ Fairness

(***************************************************************************)
(* Properties                                                              *)
(***************************************************************************)
WrittenBy(t) == SelectSeq(written, LAMBDA m : m.by = t /\ ~m.late)
IsPrefixOf(s, u) == Len(s) <= Len(u) /\ s = SubSeq(u, 1, Len(s))

\* What a thread logged is written in its order, and all of it when shutdown()
\* has returned, by the worker or by the drain; only a message pushed after
\* stop() cleared running_ may be lost.
WrittenAsAccepted ==
  \A t \in Threads :
    /\ IsPrefixOf(WrittenBy(t), accepted[t])
    /\ queue = "none" => WrittenBy(t) = accepted[t]

SelfLocked == \E t \in Threads : place[t] = "selfLocked"

\* Whoever calls the logger comes back, from a full queue that it waits on too;
\* but nobody does once a second init() waits for the mutex it holds itself.
CallsReturn ==
  (\E t \in Threads : place[t] # "out") ~>
    SelfLocked \/ \A t \in Threads : place[t] \in {"out", "undefined"}
=============================================================================
