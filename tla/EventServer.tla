---------------------------- MODULE EventServer ----------------------------
(***************************************************************************)
(* The server of src/src/utils/net/server.cpp: one thread runs an epoll    *)
(* loop that accepts connections, reads requests, hands each of them to a  *)
(* thread pool and writes the responses the pool's workers post back; a    *)
(* control thread starts, stops, joins and starts it again.                *)
(*                                                                         *)
(* The pool is the abstract one of TaskService.  A client connects once    *)
(* and sends numbered requests without waiting for answers; a request is   *)
(* <<client, number>>, and so is its response.                             *)
(***************************************************************************)
EXTENDS Integers, Sequences, FiniteSets, Functions

CONSTANTS
  Clients,
  NumRequests,     (* per client: bound on what it sends                     *)
  Leavers,         (* the clients that may close their socket                *)
  CloseRequests,   (* the requests whose response says `close`               *)
  QueueSize, Crew, (* of the pool: workerQueueSize, workerThreadsMax         *)
  MaxStarts,       (* bound on the calls of start()                          *)
  Events           (* what may happen besides: see AllEvents                 *)

AllEvents == {"idle",    \* idleTimeoutSec passes for a connection
              "stop"}    \* stop() is called

Requests == UNION {{c} \X (1 .. NumRequests[c]) : c \in Clients}

ASSUME EventServerAssumption ==
  /\ NumRequests \in [Clients -> Nat]
  /\ Leavers \subseteq Clients /\ CloseRequests \subseteq Requests
  /\ QueueSize \in Nat \ {0} /\ Crew \in Nat \ {0}
  /\ MaxStarts \in Nat \ {0}
  /\ Events \subseteq AllEvents

VARIABLES
  client, sent, answered,      \* the clients; how much each has sent, its responses
  backlog,                     \* connections the kernel has for accept()
  id, taken,                   \* per client: ctx.id (0: none), requests dispatched
  conns, nextConnId,           \* conns_, nextConnId_
  waiting, inWork, finished,   \* the pool: TaskService
  posted,                      \* tasks between the push and the wake of postResponse
  pending, local, wake,        \* pending_, what drainPending took from it, the eventfd
  running,                     \* Impl::running_
  lpc, batch, reading,         \* the loop: program counter, events, client and extent read
  cpc, starts                  \* the control thread

clientVars == <<client, sent, answered>>
connVars   == <<id, taken, conns, nextConnId>>
poolVars   == <<waiting, inWork, finished, posted>>
queueVars  == <<pending, local, wake>>
loopVars   == <<lpc, batch, reading>>
vars == <<clientVars, backlog, connVars, poolVars, queueVars, running, loopVars, cpc, starts>>

Pool == INSTANCE TaskService WITH Tasks <- Requests

Init ==
  /\ client = [c \in Clients |-> "new"]
  /\ sent = [c \in Clients |-> 0] /\ answered = [c \in Clients |-> <<>>]
  /\ backlog = {}
  /\ id = [c \in Clients |-> 0] /\ taken = [c \in Clients |-> 0]
  /\ conns = <<>> /\ nextConnId = 1
  /\ Pool!Init /\ posted = {}
  /\ pending = <<>> /\ local = <<>> /\ wake = FALSE
  /\ running = FALSE
  /\ lpc = "none" /\ batch = {} /\ reading = <<>>
  /\ cpc = "idle" /\ starts = 0

-----------------------------------------------------------------------------
(* The clients.                                                            *)

Listening == cpc = "started"

(* The server has not closed the connection. *)
Served(c) == c \in backlog \/ id[c] \in DOMAIN conns

Connect(c) ==
  /\ Listening
  /\ client[c] = "new"
  /\ client' = [client EXCEPT ![c] = "connected"]
  /\ backlog' = backlog \cup {c}
  /\ UNCHANGED <<sent, answered, connVars, poolVars, queueVars, running, loopVars, cpc, starts>>

Send(c) ==
  /\ client[c] = "connected" /\ Served(c)
  /\ sent[c] < NumRequests[c]
  /\ sent' = [sent EXCEPT ![c] = @ + 1]
  /\ UNCHANGED <<client, answered, backlog, connVars, poolVars, queueVars, running, loopVars, cpc, starts>>

Leave(c) ==
  /\ c \in Leavers
  /\ client[c] = "connected"
  /\ client' = [client EXCEPT ![c] = "left"]
  /\ UNCHANGED <<sent, answered, backlog, connVars, poolVars, queueVars, running, loopVars, cpc, starts>>

-----------------------------------------------------------------------------
(* The loop.  A batch holds what one epoll_wait returned.                  *)

NewConnection(c) == [peer |-> c, out |-> <<>>, closing |-> FALSE, wantWrite |-> FALSE]

(* conns_.emplace, and closeConn for every connection of a set. *)
With(i, conn) == [j \in DOMAIN conns \cup {i} |-> IF j = i THEN conn ELSE conns[j]]
Without(dead) == [i \in DOMAIN conns \ dead |-> conns[i]]

HasInput(i) ==
  LET c == conns[i].peer IN client[c] = "left" \/ sent[c] > taken[c]

(* Level-triggered readiness.  (EPOLLHUP and a read of length 0 both end   *)
(* in closeConn; a client that has left stands for the two.)               *)
Ready ==
  {<<"listen", 0>> : x \in backlog} \cup (IF wake THEN {<<"wake", 0>>} ELSE {})
    \cup {<<"in", i>> : i \in {j \in DOMAIN conns : HasInput(j)}}
    \cup {<<"out", i>> : i \in {j \in DOMAIN conns : conns[j].wantWrite}}

LoopBegin ==
  /\ lpc = "spawned"
  /\ lpc' = "polling"
  /\ running' = TRUE
  /\ UNCHANGED <<clientVars, backlog, connVars, poolVars, queueVars, batch, reading, cpc, starts>>

(* epoll_wait.  It also returns after a second without an event, for which  *)
(* the loop has a use only when connections are idle for too long.         *)
LoopPoll ==
  /\ lpc = "polling" /\ running
  /\ Ready # {} \/ "idle" \in Events
  /\ lpc' = "handling"
  /\ batch' = Ready
  /\ UNCHANGED <<clientVars, backlog, connVars, poolVars, queueVars, running, reading, cpc, starts>>

(* One event of the batch is done with. *)
Handling(event) ==
  /\ lpc = "handling"
  /\ event \in batch
  /\ batch' = batch \ {event}

(* Mutant of AcceptOne: the lowest id that is free is taken.               *)
AcceptOneReusesId ==
  /\ lpc = "handling" /\ <<"listen", 0>> \in batch
  /\ \E c \in backlog :
       LET i == CHOOSE j \in 1 .. nextConnId : j \notin DOMAIN conns /\ \A k \in 1 .. j - 1 : k \in DOMAIN conns
       IN /\ backlog' = backlog \ {c}
          /\ id' = [id EXCEPT ![c] = i]
          /\ conns' = With(i, NewConnection(c))
          /\ nextConnId' = nextConnId + 1
  /\ batch' = IF backlog' = {} THEN batch \ {<<"listen", 0>>} ELSE batch
  /\ UNCHANGED <<clientVars, taken, poolVars, queueVars, running, lpc, reading, cpc, starts>>

(* acceptAll, one round of its loop; after the last one the event is over. *)
AcceptOne ==
  /\ lpc = "handling" /\ <<"listen", 0>> \in batch
  /\ \E c \in backlog :
       /\ backlog' = backlog \ {c}
       /\ id' = [id EXCEPT ![c] = nextConnId]
       /\ conns' = With(nextConnId, NewConnection(c))
       /\ nextConnId' = nextConnId + 1
  /\ batch' = IF backlog' = {} THEN batch \ {<<"listen", 0>>} ELSE batch
  /\ UNCHANGED <<clientVars, taken, poolVars, queueVars, running, lpc, reading, cpc, starts>>

(* drainWake, which comes before the queue is emptied ... *)
DrainWake ==
  /\ lpc = "handling" /\ <<"wake", 0>> \in batch
  /\ batch' = batch \ {<<"wake", 0>>}
  /\ lpc' = "draining"
  /\ wake' = FALSE
  /\ UNCHANGED <<clientVars, backlog, connVars, poolVars, pending, local, running, reading, cpc, starts>>

(* Mutant of SwapPending: one response for each wake.                      *)
SwapPendingOne ==
  /\ lpc = "draining"
  /\ lpc' = "enqueueing"
  /\ local' = IF pending = <<>> THEN <<>> ELSE <<Head(pending)>>
  /\ pending' = IF pending = <<>> THEN <<>> ELSE Tail(pending)
  /\ UNCHANGED <<clientVars, backlog, connVars, poolVars, wake, running, batch, reading, cpc, starts>>

(* ... drainPending takes the queue under outMutex_ ...                    *)
SwapPending ==
  /\ lpc = "draining"
  /\ lpc' = "enqueueing"
  /\ local' = pending /\ pending' = <<>>
  /\ UNCHANGED <<clientVars, backlog, connVars, poolVars, wake, running, batch, reading, cpc, starts>>

(* enqueueResponse, with enableWrite. *)
Enqueued(conn, request) ==
  [conn EXCEPT !.out = Append(@, request),
               !.closing = @ \/ request \in CloseRequests,
               !.wantWrite = TRUE]

(* ... and gives its responses to their connections one by one; one to a   *)
(* connection that has gone is dropped.                                    *)
EnqueueNext ==
  /\ lpc = "enqueueing"
  /\ IF local = <<>> THEN lpc' = "handling" /\ UNCHANGED <<local, conns>>
     ELSE LET i == Head(local).conn
          IN /\ local' = Tail(local)
             /\ conns' = IF i \in DOMAIN conns THEN [conns EXCEPT ![i] = Enqueued(@, Head(local).request)]
                         ELSE conns
             /\ UNCHANGED lpc
  /\ UNCHANGED <<clientVars, backlog, id, taken, nextConnId, poolVars, pending, wake, running, batch, reading, cpc, starts>>

(* onReadable reads all there is.  When the client has left, the           *)
(* connection is closed at once, with the requests that came before.       *)
ReadConn(i) ==
  /\ Handling(<<"in", i>>)
  /\ LET c == conns[i].peer
     IN IF client[c] = "left"
        THEN conns' = Without({i}) /\ UNCHANGED <<lpc, reading>>
        ELSE lpc' = "dispatching" /\ reading' = <<c, sent[c]>> /\ UNCHANGED conns
  /\ UNCHANGED <<clientVars, backlog, id, taken, nextConnId, poolVars, queueVars, running, cpc, starts>>

(* processLine and processHttp: each complete request goes to the pool.    *)
(* The loop stands still while the pool's queue is full.                   *)
Dispatch ==
  /\ lpc = "dispatching"
  /\ LET c == reading[1]
         r == taken[c] + 1
     IN /\ Pool!Post(<<c, r>>)
        /\ taken' = [taken EXCEPT ![c] = r]
        /\ IF r = reading[2] THEN lpc' = "handling" /\ reading' = <<>>
           ELSE UNCHANGED <<lpc, reading>>
  /\ UNCHANGED <<clientVars, backlog, id, conns, nextConnId, posted, queueVars, running, batch, cpc, starts>>

(* onWritable: the socket takes some of the output; when there is no more, *)
(* the interest in EPOLLOUT ends, and so does a connection that is closing.*)
WriteConn(i) ==
  /\ <<"in", i>> \notin batch
  /\ Handling(<<"out", i>>)
  /\ i \in DOMAIN conns
  /\ \E n \in (IF conns[i].out = <<>> THEN {0} ELSE 1 .. Len(conns[i].out)) :
       LET c    == conns[i].peer
           rest == SubSeq(conns[i].out, n + 1, Len(conns[i].out))
       IN /\ answered' = [answered EXCEPT ![c] = @ \o SubSeq(conns[i].out, 1, n)]
          /\ conns' = IF rest = <<>> /\ conns[i].closing THEN Without({i})
                      ELSE [conns EXCEPT ![i].out = rest, ![i].wantWrite = rest # <<>>]
  /\ UNCHANGED <<client, sent, backlog, id, taken, nextConnId, poolVars, queueVars, running, lpc, reading, cpc, starts>>

(* onWritable finds the client gone, or the connection closed by the read  *)
(* before.                                                                 *)
WriteFails(i) ==
  /\ <<"in", i>> \notin batch
  /\ Handling(<<"out", i>>)
  /\ i \in DOMAIN conns => client[conns[i].peer] = "left"
  /\ conns' = Without({i})
  /\ UNCHANGED <<clientVars, backlog, id, taken, nextConnId, poolVars, queueVars, running, lpc, reading, cpc, starts>>

(* reapIdle, at the end of every round, looks only at the time of the last *)
(* read: also a connection with output may be closed.                      *)
ReapIdle ==
  /\ lpc = "handling" /\ batch = {}
  /\ lpc' = "polling"
  /\ \E dead \in (IF "idle" \in Events THEN SUBSET DOMAIN conns ELSE {{}}) : conns' = Without(dead)
  /\ UNCHANGED <<clientVars, backlog, id, taken, nextConnId, poolVars, queueVars, running, batch, reading, cpc, starts>>

(* Mutant of LoopEnd: the loop waits until its clients have gone.          *)
LoopEndWaits ==
  /\ lpc = "polling" /\ ~running
  /\ conns = <<>>
  /\ lpc' = "exited"
  /\ UNCHANGED <<clientVars, backlog, connVars, poolVars, queueVars, running, batch, reading, cpc, starts>>

(* The loop ends and closes every connection. *)
LoopEnd ==
  /\ lpc = "polling" /\ ~running
  /\ lpc' = "exited"
  /\ conns' = Without(DOMAIN conns)
  /\ UNCHANGED <<clientVars, backlog, id, taken, nextConnId, poolVars, queueVars, running, batch, reading, cpc, starts>>

-----------------------------------------------------------------------------
(* The pool's workers.                                                     *)

WorkerStart(t) ==
  /\ Pool!Start(t)
  /\ UNCHANGED <<clientVars, backlog, connVars, posted, queueVars, running, loopVars, cpc, starts>>

(* The handler has returned: postResponse queues the response under        *)
(* outMutex_ ...                                                           *)
WorkerPost(t) ==
  /\ t \in inWork \ posted
  /\ posted' = posted \cup {t}
  /\ pending' = Append(pending, [conn |-> id[t[1]], request |-> t])
  /\ UNCHANGED <<clientVars, backlog, connVars, waiting, inWork, finished, local, wake, running, loopVars, cpc, starts>>

(* ... and then writes the eventfd. *)
WorkerWake(t) ==
  /\ t \in posted
  /\ posted' = posted \ {t}
  /\ wake' = TRUE
  /\ Pool!Finish(t)
  /\ UNCHANGED <<clientVars, backlog, connVars, pending, local, running, loopVars, cpc, starts>>

-----------------------------------------------------------------------------
(* start, stop, join.  One thread calls them; the pool outlives them all.  *)

Start ==
  /\ cpc = "idle" /\ starts < MaxStarts
  /\ cpc' = "started" /\ starts' = starts + 1
  /\ lpc' = "spawned"
  /\ backlog' = {}
  /\ wake' = FALSE
  /\ UNCHANGED <<clientVars, connVars, poolVars, pending, local, running, batch, reading>>

(* running_ is cleared, which loop() sets when its thread begins to run,   *)
(* and the eventfd written.  (The two are one step: all that the loop      *)
(* could do in between it could also do before.)                           *)
StopBegin ==
  /\ "stop" \in Events
  /\ cpc = "started"
  /\ cpc' = "joining"
  /\ running' = FALSE
  /\ wake' = TRUE
  /\ UNCHANGED <<clientVars, backlog, connVars, poolVars, pending, local, loopVars, starts>>

Join ==
  /\ cpc = "joining" /\ lpc = "exited"
  /\ cpc' = "idle"
  /\ UNCHANGED <<clientVars, backlog, connVars, poolVars, queueVars, running, loopVars, starts>>

-----------------------------------------------------------------------------
Client(c) == Connect(c) \/ Send(c) \/ Leave(c)

Loop ==
  \/ LoopBegin \/ LoopPoll \/ LoopEnd
  \/ AcceptOne
  \/ DrainWake \/ SwapPending \/ EnqueueNext
  \/ \E i \in 1 .. nextConnId : ReadConn(i) \/ WriteConn(i) \/ WriteFails(i)
  \/ Dispatch
  \/ ReapIdle

Worker(t) == WorkerStart(t) \/ WorkerPost(t) \/ WorkerWake(t)

Next ==
  \/ \E c \in Clients : Client(c)
  \/ Loop
  \/ \E t \in Requests : Worker(t)
  \/ Start \/ StopBegin \/ Join

Spec == Init /\ [][Next]_vars

(* The threads of the server run on, a handler returns, and join(), once   *)
(* called, returns when it can.  Nobody is bound to connect, send or stop.  *)
Fairness ==
  /\ WF_vars(Loop)
  /\ \A t \in Requests : WF_vars(Worker(t))
  /\ WF_vars(Join)

LiveSpec == Spec /\ Fairness
-----------------------------------------------------------------------------
(* Properties.                                                             *)

(* Every variable has its type; in particular no connection has an id that *)
(* was not given out.                                                      *)
TypeOK ==
  /\ client \in [Clients -> {"new", "connected", "left"}]
  /\ sent \in [Clients -> Nat] /\ taken \in [Clients -> Nat]
  /\ \A c \in Clients : taken[c] <= sent[c] /\ sent[c] <= NumRequests[c]
  /\ answered \in [Clients -> Seq(Requests)]
  /\ backlog \subseteq Clients
  /\ nextConnId \in Nat \ {0} /\ id \in [Clients -> 0 .. nextConnId - 1]
  /\ DOMAIN conns \subseteq 1 .. nextConnId - 1
  /\ \A i \in DOMAIN conns :
       conns[i] \in [peer : Clients, out : Seq(Requests), closing : BOOLEAN, wantWrite : BOOLEAN]
  /\ waiting \subseteq Requests /\ inWork \subseteq Requests /\ finished \subseteq Requests
  /\ posted \subseteq inWork
  /\ {pending, local} \subseteq Seq([conn : 1 .. nextConnId - 1, request : Requests])
  /\ wake \in BOOLEAN /\ running \in BOOLEAN
  /\ lpc \in {"none", "spawned", "polling", "handling", "draining", "enqueueing", "dispatching", "exited"}
  /\ batch \subseteq {"listen", "wake", "in", "out"} \X (0 .. nextConnId - 1)
  /\ reading = <<>> \/ reading \in Requests
  /\ cpc \in {"idle", "started", "joining"} /\ starts \in 0 .. MaxStarts

(* A client gets responses to its own requests only, each once, although   *)
(* workers answer after connections have gone and the server was started   *)
(* again.                                                                  *)
AnswersAreOwn ==
  \A c \in Clients :
    /\ \A k \in DOMAIN answered[c] : answered[c][k][1] = c /\ answered[c][k][2] <= taken[c]
    /\ IsInjective(answered[c])

(* In the end every request sent on a connection that is still open has    *)
(* been answered: no wakeup is lost between the workers, the eventfd, the  *)
(* response queue and the sockets.                                         *)
EveryRequestAnswered ==
  <>[](\A i \in DOMAIN conns : Len(answered[conns[i].peer]) = sent[conns[i].peer])

(* join() returns after stop(), unless stop() came before the new thread   *)
(* set running_.                                                           *)
StopJoins == cpc = "joining" /\ ~running /\ lpc # "spawned" ~> cpc = "idle"
=============================================================================
