-------------------------- MODULE EventServerProofs --------------------------
(***************************************************************************)
(* What holds of the server for any clients, requests, pool and number of  *)
(* starts.  A request is in one place at a time: the pool, the queue of    *)
(* responses, what the loop has taken from it, the output of a connection, *)
(* or the client; and an id names the connection of one client for ever.   *)
(***************************************************************************)
EXTENDS EventServer, SequenceTheorems, TLAPS

Tokens == Clients \X (Nat \ {0})
Entries == [conn : Nat, request : Tokens]

IsConn(conn) ==
  /\ DOMAIN conn = {"peer", "out", "closing", "wantWrite"}
  /\ conn.peer \in Clients /\ conn.out \in Seq(Tokens)

ServerTypes ==
  /\ id \in [Clients -> Nat] /\ taken \in [Clients -> Nat] /\ nextConnId \in Nat \ {0}
  /\ client \in [Clients -> {"new", "connected", "left"}] /\ backlog \subseteq Clients
  /\ DOMAIN conns \subseteq Nat \ {0} /\ \A i \in DOMAIN conns : IsConn(conns[i])
  /\ answered \in [Clients -> Seq(Tokens)]
  /\ pending \in Seq(Entries) /\ local \in Seq(Entries)
  /\ waiting \subseteq Tokens /\ inWork \subseteq Tokens

(* The loop's events and its read are about connections that exist.        *)
LoopInv ==
  /\ batch # {} => lpc \in {"handling", "draining", "enqueueing", "dispatching"}
  /\ cpc = "idle" => lpc \in {"none", "exited"}
  /\ \A i \in Nat : <<"in", i>> \in batch => i \in DOMAIN conns
  /\ lpc = "dispatching" => reading[1] \in Clients /\ id[reading[1]] # 0
  /\ lpc # "enqueueing" => local = <<>>

(* An id is given out once.                                                *)
IdInv ==
  /\ \A c \in Clients : id[c] < nextConnId
  /\ \A c \in Clients : client[c] = "new" => c \notin backlog /\ id[c] = 0
  /\ \A c \in backlog : id[c] = 0
  /\ \A c, d \in Clients : id[c] = id[d] /\ id[c] # 0 => c = d
  /\ \A i \in DOMAIN conns : id[conns[i].peer] = i
  /\ \A c \in Clients : id[c] = 0 => taken[c] = 0

(* A request that was dispatched, and where its response belongs.          *)
Known(t, upTo) == t \in Tokens /\ t[2] <= upTo[t[1]]

Addressed(q, ids, upTo) ==
  \A k \in DOMAIN q : Known(q[k].request, upTo) /\ q[k].conn = ids[q[k].request[1]]

KnownInv ==
  /\ \A t \in waiting \cup inWork : Known(t, taken)
  /\ Addressed(pending, id, taken) /\ Addressed(local, id, taken)
  /\ \A i \in DOMAIN conns : \A k \in DOMAIN conns[i].out :
       Known(conns[i].out[k], taken) /\ conns[i].out[k][1] = conns[i].peer
  /\ \A c \in Clients : \A k \in DOMAIN answered[c] : Known(answered[c][k], taken) /\ answered[c][k][1] = c

(* The places of a request, and that it is in one of them, once.           *)
Elems(s) == {s[k] : k \in DOMAIN s}
Asked(q) == {q[k].request : k \in DOMAIN q}
Once(q) == \A j, k \in DOMAIN q : q[j].request = q[k].request => j = k

Unanswered == waiting \cup (inWork \ posted)
Written == UNION {Elems(conns[i].out) : i \in DOMAIN conns}
Given == UNION {Elems(answered[c]) : c \in Clients}

Apart ==
  /\ waiting \cap inWork = {}
  /\ Unanswered \cap (Asked(pending) \cup Asked(local) \cup Written \cup Given) = {}
  /\ Asked(pending) \cap (Asked(local) \cup Written \cup Given) = {}
  /\ Asked(local) \cap (Written \cup Given) = {}
  /\ Written \cap Given = {}

OnceInv ==
  /\ Once(pending) /\ Once(local)
  /\ \A i \in DOMAIN conns : IsInjective(conns[i].out)
  /\ \A c \in Clients : IsInjective(answered[c])
  /\ Apart

AnswerInv == ServerTypes /\ LoopInv /\ IdInv /\ KnownInv /\ OnceInv
-----------------------------------------------------------------------------
(* Sequences: adding at the end, taking from the front.                    *)
LEMMA AppendAt ==
  ASSUME NEW S, NEW s \in Seq(S), NEW x \in S
  PROVE  /\ Append(s, x) \in Seq(S)
         /\ \A k \in DOMAIN s : k \in DOMAIN Append(s, x) /\ Append(s, x)[k] = s[k]
         /\ \A k \in DOMAIN Append(s, x) : k \in DOMAIN s \/ k = Len(s) + 1
         /\ Len(s) + 1 \in DOMAIN Append(s, x) /\ Append(s, x)[Len(s) + 1] = x
<1>1. /\ Append(s, x) \in Seq(S) /\ Len(s) \in Nat
      /\ DOMAIN s = 1 .. Len(s) /\ DOMAIN Append(s, x) = 1 .. Len(s) + 1
      /\ \A k \in 1 .. Len(s) : Append(s, x)[k] = s[k]
      /\ Append(s, x)[Len(s) + 1] = x
  OBVIOUS
<1> QED BY <1>1

LEMMA TailAt ==
  ASSUME NEW S, NEW s \in Seq(S), s # <<>>
  PROVE  /\ Tail(s) \in Seq(S) /\ Head(s) \in S /\ 1 \in DOMAIN s /\ Head(s) = s[1]
         /\ DOMAIN s \subseteq Nat /\ DOMAIN Tail(s) \subseteq Nat
         /\ \A k \in DOMAIN Tail(s) : k + 1 \in DOMAIN s /\ k + 1 # 1 /\ Tail(s)[k] = s[k + 1]
<1>1. /\ Len(s) \in Nat \ {0} /\ Tail(s) \in Seq(S) /\ Head(s) = s[1] /\ s[1] \in S
      /\ DOMAIN s = 1 .. Len(s) /\ DOMAIN Tail(s) = 1 .. Len(s) - 1
      /\ \A k \in 1 .. Len(s) - 1 : Tail(s)[k] = s[k + 1]
  OBVIOUS
<1> QED BY <1>1

LEMMA CutAt ==
  ASSUME NEW S, NEW s \in Seq(S), NEW n \in 0 .. Len(s)
  PROVE  /\ SubSeq(s, 1, n) \in Seq(S) /\ SubSeq(s, n + 1, Len(s)) \in Seq(S)
         /\ DOMAIN s \subseteq Nat /\ n \in Nat
         /\ DOMAIN SubSeq(s, 1, n) = 1 .. n
         /\ \A k \in DOMAIN SubSeq(s, 1, n) : k \in DOMAIN s /\ k <= n /\ SubSeq(s, 1, n)[k] = s[k]
         /\ \A k \in DOMAIN SubSeq(s, n + 1, Len(s)) :
              /\ k \in Nat /\ k + n \in DOMAIN s /\ k + n > n
              /\ SubSeq(s, n + 1, Len(s))[k] = s[k + n]
<1>1. /\ Len(s) \in Nat /\ DOMAIN s = 1 .. Len(s) /\ n \in Nat /\ n <= Len(s)
      /\ \A k \in 1 .. Len(s) : s[k] \in S
  OBVIOUS
<1>2. /\ SubSeq(s, 1, n) \in Seq(S) /\ Len(SubSeq(s, 1, n)) = n
      /\ \A k \in 1 .. n : SubSeq(s, 1, n)[k] = s[k]
  BY <1>1
<1>3. /\ SubSeq(s, n + 1, Len(s)) \in Seq(S) /\ Len(SubSeq(s, n + 1, Len(s))) = Len(s) - n
      /\ \A k \in 1 .. Len(s) - n : SubSeq(s, n + 1, Len(s))[k] = s[k + n]
  <2>1. n + 1 \in Int /\ Len(s) \in Int /\ \A i \in n + 1 .. Len(s) : s[i] \in S
    BY <1>1
  <2>2. /\ SubSeq(s, n + 1, Len(s)) \in Seq(S)
        /\ Len(SubSeq(s, n + 1, Len(s))) = IF n + 1 <= Len(s) THEN Len(s) - (n + 1) + 1 ELSE 0
        /\ \A k \in 1 .. Len(s) - (n + 1) + 1 : SubSeq(s, n + 1, Len(s))[k] = s[n + 1 + k - 1]
    BY <2>1, SubSeqProperties
  <2>3. Len(s) - (n + 1) + 1 = Len(s) - n /\ \A k \in 1 .. Len(s) - n : n + 1 + k - 1 = k + n
    BY <1>1
  <2>4. Len(SubSeq(s, n + 1, Len(s))) = Len(s) - n
    <3>1. ASSUME NEW a \in Nat, NEW b \in Nat, a <= b
          PROVE  (IF a + 1 <= b THEN b - (a + 1) + 1 ELSE 0) = b - a
      BY <3>1
    <3> QED BY <1>1, <2>2, <3>1
  <2>5. \A k \in 1 .. Len(s) - n : SubSeq(s, n + 1, Len(s))[k] = s[k + n]
    BY <2>2, <2>3
  <2> QED BY <2>2, <2>4, <2>5
<1> DEFINE u == SubSeq(s, 1, n)
           v == SubSeq(s, n + 1, Len(s))
<1> HIDE DEF u, v
<1>4. DOMAIN u = 1 .. n /\ DOMAIN v = 1 .. Len(s) - n
  <2>1. u \in Seq(S) /\ Len(u) = n /\ v \in Seq(S) /\ Len(v) = Len(s) - n
    BY <1>2, <1>3 DEF u, v
  <2> QED BY <2>1
<1>5. \A k \in 1 .. n : k \in DOMAIN s /\ k <= n
  BY <1>1
<1>6. \A k \in 1 .. Len(s) - n : k \in Nat /\ k + n \in DOMAIN s /\ k + n > n
  BY <1>1
<1>7. DOMAIN s \subseteq Nat
  BY <1>1
<1> QED BY <1>1, <1>2, <1>3, <1>4, <1>5, <1>6, <1>7 DEF u, v

LEMMA ConcatAt ==
  ASSUME NEW S, NEW s \in Seq(S), NEW t \in Seq(S)
  PROVE  /\ s \o t \in Seq(S) /\ Len(s) \in Nat
         /\ \A k \in DOMAIN s : k \in DOMAIN (s \o t) /\ (s \o t)[k] = s[k]
         /\ \A k \in DOMAIN t : k + Len(s) \in DOMAIN (s \o t) /\ (s \o t)[k + Len(s)] = t[k]
         /\ \A k \in DOMAIN (s \o t) :
              \/ k \in DOMAIN s /\ (s \o t)[k] = s[k]
              \/ k \in Nat /\ k - Len(s) \in DOMAIN t /\ (s \o t)[k] = t[k - Len(s)]
<1>1. /\ s \o t \in Seq(S) /\ Len(s) \in Nat /\ Len(t) \in Nat
      /\ DOMAIN s = 1 .. Len(s) /\ DOMAIN t = 1 .. Len(t) /\ DOMAIN (s \o t) = 1 .. Len(s) + Len(t)
      /\ \A k \in 1 .. Len(s) + Len(t) : (s \o t)[k] = IF k <= Len(s) THEN s[k] ELSE t[k - Len(s)]
  OBVIOUS
<1>2. \A k \in DOMAIN t : k + Len(s) \in 1 .. Len(s) + Len(t) /\ ~(k + Len(s) <= Len(s)) /\ k + Len(s) - Len(s) = k
  BY <1>1
<1>3. \A k \in 1 .. Len(s) + Len(t) : k \in Nat /\ (k \in DOMAIN s \/ (~(k <= Len(s)) /\ k - Len(s) \in DOMAIN t))
  BY <1>1
<1> QED BY <1>1, <1>2, <1>3

(* The prefix of one sequence without repetitions moves to another.        *)
LEMMA PrefixMoves ==
  ASSUME NEW S, NEW a \in Seq(S), NEW s \in Seq(S), NEW n \in 0 .. Len(s),
         IsInjective(a), IsInjective(s), Elems(a) \cap Elems(s) = {}
  PROVE  LET sent1 == a \o SubSeq(s, 1, n)
             rest1 == SubSeq(s, n + 1, Len(s))
         IN /\ sent1 \in Seq(S) /\ rest1 \in Seq(S)
            /\ IsInjective(sent1) /\ IsInjective(rest1)
            /\ Elems(sent1) \subseteq Elems(a) \cup Elems(s) /\ Elems(rest1) \subseteq Elems(s)
            /\ Elems(sent1) \cap Elems(rest1) = {}
<1> DEFINE u == SubSeq(s, 1, n)
           rest1 == SubSeq(s, n + 1, Len(s))
           sent1 == a \o u
<1>1. /\ u \in Seq(S) /\ rest1 \in Seq(S) /\ DOMAIN s \subseteq Nat /\ n \in Nat
      /\ \A k \in DOMAIN u : k \in DOMAIN s /\ k <= n /\ u[k] = s[k]
      /\ \A k \in DOMAIN rest1 : k \in Nat /\ k + n \in DOMAIN s /\ k + n > n /\ rest1[k] = s[k + n]
  BY CutAt
<1> HIDE DEF u, rest1
<1>2. /\ sent1 \in Seq(S) /\ Len(a) \in Nat
      /\ \A k \in DOMAIN sent1 :
           \/ k \in DOMAIN a /\ sent1[k] = a[k]
           \/ k \in Nat /\ k - Len(a) \in DOMAIN u /\ sent1[k] = u[k - Len(a)]
  BY <1>1, ConcatAt
<1> HIDE DEF sent1
<1>3. \A k \in DOMAIN u, l \in DOMAIN u : u[k] = u[l] => k = l
  BY <1>1 DEF IsInjective
<1>4. IsInjective(rest1)
  <2> SUFFICES ASSUME NEW k \in DOMAIN rest1, NEW l \in DOMAIN rest1, rest1[k] = rest1[l]
               PROVE  k = l
    BY DEF IsInjective
  <2>1. k + n = l + n
    BY <1>1 DEF IsInjective
  <2>2. k \in Nat /\ l \in Nat /\ n \in Nat
    BY <1>1
  <2> QED BY <2>1, <2>2
<1>5. \A k \in DOMAIN a, l \in DOMAIN u : a[k] # u[l]
  BY <1>1 DEF Elems
<1>6. IsInjective(sent1)
  <2> SUFFICES ASSUME NEW k \in DOMAIN sent1, NEW l \in DOMAIN sent1, sent1[k] = sent1[l]
               PROVE  k = l
    BY DEF IsInjective
  <2>1. CASE k \in DOMAIN a /\ sent1[k] = a[k] /\ l \in DOMAIN a /\ sent1[l] = a[l]
    BY <2>1 DEF IsInjective
  <2>2. CASE /\ k \in Nat /\ k - Len(a) \in DOMAIN u /\ sent1[k] = u[k - Len(a)]
             /\ l \in Nat /\ l - Len(a) \in DOMAIN u /\ sent1[l] = u[l - Len(a)]
    <3>1. k - Len(a) = l - Len(a)
      BY <1>3, <2>2
    <3> QED BY <1>2, <2>2, <3>1
  <2> QED BY <1>2, <1>5, <2>1, <2>2
<1>7. Elems(sent1) \subseteq Elems(a) \cup Elems(s) /\ Elems(rest1) \subseteq Elems(s)
  <2>1. \A k \in DOMAIN sent1 : sent1[k] \in Elems(a) \cup Elems(s)
    <3>1. \A k \in DOMAIN u : u[k] \in Elems(s)
      BY <1>1 DEF Elems
    <3>2. \A k \in DOMAIN a : a[k] \in Elems(a)
      BY DEF Elems
    <3> QED BY <1>2, <3>1, <3>2
  <2>2. \A k \in DOMAIN rest1 : rest1[k] \in Elems(s)
    BY <1>1 DEF Elems
  <2> QED BY <2>1, <2>2 DEF Elems
<1>8. \A k \in DOMAIN u, l \in DOMAIN rest1 : u[k] # rest1[l]
  <2> SUFFICES ASSUME NEW k \in DOMAIN u, NEW l \in DOMAIN rest1, u[k] = rest1[l]
               PROVE  FALSE
    OBVIOUS
  <2>1. k = l + n /\ k <= n /\ l + n > n
    BY <1>1 DEF IsInjective
  <2>2. k \in Nat /\ l \in Nat /\ n \in Nat
    BY <1>1
  <2> QED BY <2>1, <2>2
<1>9. Elems(sent1) \cap Elems(rest1) = {}
  <2>1. \A k \in DOMAIN sent1, l \in DOMAIN rest1 : sent1[k] # rest1[l]
    <3>1. \A l \in DOMAIN rest1 : rest1[l] \in Elems(s)
      BY <1>1 DEF Elems
    <3>2. \A k \in DOMAIN a : a[k] \in Elems(a)
      BY DEF Elems
    <3> QED BY <1>2, <1>8, <3>1, <3>2
  <2> QED BY <2>1 DEF Elems
<1> QED BY <1>1, <1>2, <1>4, <1>6, <1>7, <1>9 DEF sent1, u, rest1

-----------------------------------------------------------------------------
(* The program counters and the batch.                                     *)
LEMMA LoopStep ==
  ASSUME ServerTypes, IdInv, LoopInv, [Next]_vars
  PROVE  LoopInv'
<1> USE DEF LoopInv, clientVars, connVars, poolVars, queueVars, loopVars
<1>1. ASSUME NEW c \in Clients, Client(c)
      PROVE  LoopInv'
  BY <1>1 DEF Client, Connect, Send, Leave
<1>2. CASE LoopBegin \/ LoopEnd \/ ReapIdle
  BY <1>2 DEF LoopBegin, LoopEnd, ReapIdle
<1>3. CASE LoopPoll
  <2>1. \A i \in Nat : <<"in", i>> \in Ready => i \in DOMAIN conns
    BY DEF Ready
  <2> QED BY <1>3, <2>1 DEF LoopPoll
<1>4. CASE AcceptOne
  <2>1. PICK c \in backlog : /\ id' = [id EXCEPT ![c] = nextConnId]
                             /\ conns' = With(nextConnId, NewConnection(c))
    BY <1>4 DEF AcceptOne
  <2>2. DOMAIN conns' = DOMAIN conns \cup {nextConnId}
    BY <2>1 DEF With
  <2>3. \A d \in Clients : id[d] # 0 => id'[d] # 0
    BY <2>1 DEF ServerTypes
  <2>4. lpc = "handling" /\ lpc' = lpc /\ cpc' = cpc /\ local' = local /\ reading' = reading /\ batch' \subseteq batch
    BY <1>4 DEF AcceptOne
  <2> QED BY <2>2, <2>3, <2>4
<1>5. CASE DrainWake \/ SwapPending
  BY <1>5 DEF DrainWake, SwapPending
<1>6. CASE EnqueueNext
  <2>1. DOMAIN conns' = DOMAIN conns
    BY <1>6 DEF EnqueueNext
  <2> QED BY <1>6, <2>1 DEF EnqueueNext
<1>7. ASSUME NEW i \in 1 .. nextConnId, ReadConn(i)
      PROVE  LoopInv'
  <2>1. /\ lpc = "handling" /\ <<"in", i>> \in batch /\ batch' = batch \ {<<"in", i>>}
        /\ UNCHANGED <<cpc, local, id>>
    BY <1>7 DEF ReadConn, Handling
  <2>2. CASE conns' = Without({i}) /\ UNCHANGED <<lpc, reading>>
    <3>1. DOMAIN conns' = DOMAIN conns \ {i}
      BY <2>2 DEF Without
    <3>2. \A j \in Nat : <<"in", j>> \in batch' => j # i /\ j \in DOMAIN conns
      BY <2>1
    <3> QED BY <2>1, <2>2, <3>1, <3>2
  <2>3. CASE lpc' = "dispatching" /\ reading'[1] = conns[i].peer /\ UNCHANGED conns
    <3>1. i \in DOMAIN conns
      BY <2>1, i \in Nat DEF ServerTypes
    <3>2. conns[i].peer \in Clients /\ id[conns[i].peer] # 0
      BY <3>1 DEF ServerTypes, IsConn, IdInv
    <3> QED BY <2>1, <2>3, <3>2
  <2> QED BY <1>7, <2>2, <2>3 DEF ReadConn
<1>8. ASSUME NEW i \in 1 .. nextConnId, WriteConn(i) \/ WriteFails(i)
      PROVE  LoopInv'
  <2>1. /\ lpc = "handling" /\ <<"in", i>> \notin batch /\ batch' \subseteq batch
        /\ UNCHANGED <<lpc, cpc, local, id, reading>>
    BY <1>8 DEF WriteConn, WriteFails, Handling
  <2>2. DOMAIN conns \ {i} \subseteq DOMAIN conns'
    BY <1>8 DEF WriteConn, WriteFails, Without
  <2> QED BY <2>1, <2>2
<1>9. CASE Dispatch
  BY <1>9 DEF Dispatch
<1>10. ASSUME NEW t \in Requests, Worker(t)
       PROVE  LoopInv'
  BY <1>10 DEF Worker, WorkerStart, WorkerPost, WorkerWake
<1>11. CASE Start \/ StopBegin \/ Join
  BY <1>11 DEF Start, StopBegin, Join
<1>12. CASE UNCHANGED vars
  BY <1>12 DEF vars
<1> QED BY <1>1, <1>2, <1>3, <1>4, <1>5, <1>6, <1>7, <1>8, <1>9, <1>10, <1>11, <1>12 DEF Next, Loop

-----------------------------------------------------------------------------
(* The rest of the invariant, one lemma per step that moves something.     *)
DataInv == ServerTypes /\ IdInv /\ KnownInv /\ OnceInv

LEMMA DataStays ==
  ASSUME DataInv, UNCHANGED <<client, backlog, connVars, answered, pending, local, waiting, inWork, posted>>
  PROVE  DataInv'
<1> USE DEF DataInv, connVars
<1>1. ServerTypes'
  BY DEF ServerTypes
<1>2. IdInv'
  BY DEF IdInv
<1>3. KnownInv'
  BY DEF KnownInv, Addressed, Known
<1>4. OnceInv'
  BY DEF OnceInv, Apart, Once, Unanswered, Asked, Written, Given
<1> QED BY <1>1, <1>2, <1>3, <1>4

(* Of the clients and the backlog only the ids speak.                      *)
LEMMA ClientsMove ==
  ASSUME DataInv, UNCHANGED <<connVars, answered, pending, local, waiting, inWork, posted>>,
         client' \in [Clients -> {"new", "connected", "left"}], backlog' \subseteq Clients,
         \A c \in Clients : client'[c] = "new" => client[c] = "new" /\ c \notin backlog',
         \A c \in backlog' : c \in backlog \/ client[c] = "new"
  PROVE  DataInv'
<1> USE DEF DataInv, connVars
<1>1. ServerTypes'
  BY DEF ServerTypes
<1>2. IdInv'
  BY DEF IdInv, ServerTypes
<1>3. KnownInv'
  BY DEF KnownInv, Addressed, Known
<1>4. OnceInv'
  BY DEF OnceInv, Apart, Once, Unanswered, Asked, Written, Given
<1> QED BY <1>1, <1>2, <1>3, <1>4

(* Connections are closed, with the output they still had.                 *)
LEMMA ConnsShrink ==
  ASSUME DataInv, UNCHANGED <<client, backlog, id, taken, nextConnId, answered, pending, local,
                              waiting, inWork, posted>>,
         NEW dead, conns' = Without(dead)
  PROVE  DataInv'
<1> USE DEF DataInv
<1>1. /\ DOMAIN conns' \subseteq DOMAIN conns
      /\ \A i \in DOMAIN conns' : conns'[i] = conns[i]
  BY DEF Without
<1>2. ServerTypes'
  BY <1>1 DEF ServerTypes
<1>3. IdInv'
  BY <1>1 DEF IdInv
<1>4. KnownInv'
  BY <1>1 DEF KnownInv, Addressed, Known
<1>5. Written' \subseteq Written
  BY <1>1 DEF Written
<1>6. OnceInv'
  BY <1>1, <1>5 DEF OnceInv, Apart, Once, Unanswered, Asked, Given
<1> QED BY <1>2, <1>3, <1>4, <1>6

(* A connection gets an id that none had.                                  *)
LEMMA AcceptData ==
  ASSUME DataInv, AcceptOne
  PROVE  DataInv'
<1> USE DEF DataInv, clientVars, poolVars, queueVars
<1>1. PICK c \in backlog : /\ backlog' = backlog \ {c}
                           /\ id' = [id EXCEPT ![c] = nextConnId]
                           /\ conns' = With(nextConnId, NewConnection(c))
                           /\ nextConnId' = nextConnId + 1
  BY DEF AcceptOne
<1>2. UNCHANGED <<client, answered, taken, waiting, inWork, posted, pending, local>>
  BY DEF AcceptOne
<1>3. /\ c \in Clients /\ id[c] = 0 /\ nextConnId \in Nat \ {0} /\ client[c] # "new"
      /\ \A d \in Clients : id'[d] = IF d = c THEN nextConnId ELSE id[d]
      /\ \A d \in Clients : id[d] \in Nat /\ id[d] < nextConnId
  BY <1>1 DEF ServerTypes, IdInv
<1> DEFINE new == NewConnection(c)
<1>4. IsConn(new) /\ new.peer = c /\ new.out = <<>>
  <2>1. <<>> \in Seq(Tokens)
    OBVIOUS
  <2> QED BY <1>3, <2>1 DEF NewConnection, IsConn
<1> HIDE DEF new
<1>5. /\ DOMAIN conns' = DOMAIN conns \cup {nextConnId} /\ nextConnId \notin DOMAIN conns
      /\ conns'[nextConnId] = new /\ \A i \in DOMAIN conns : conns'[i] = conns[i]
  <2>1. nextConnId \notin DOMAIN conns
    BY <1>3 DEF IdInv, ServerTypes, IsConn
  <2> QED BY <1>1, <2>1 DEF With, new
<1>6. ServerTypes'
  <2>1. id' \in [Clients -> Nat] /\ nextConnId' \in Nat \ {0}
    BY <1>1, <1>3 DEF ServerTypes
  <2>2. DOMAIN conns' \subseteq Nat \ {0} /\ \A i \in DOMAIN conns' : IsConn(conns'[i])
    BY <1>3, <1>4, <1>5 DEF ServerTypes
  <2> QED BY <1>1, <1>2, <2>1, <2>2 DEF ServerTypes
<1>7. IdInv'
  <2>1. \A d \in Clients : id'[d] < nextConnId'
    BY <1>1, <1>3
  <2>2. \A d, e \in Clients : id'[d] = id'[e] /\ id'[d] # 0 => d = e
    BY <1>3 DEF IdInv
  <2>3. \A i \in DOMAIN conns' : id'[conns'[i].peer] = i
    <3>1. \A i \in DOMAIN conns : conns[i].peer \in Clients /\ id[conns[i].peer] = i /\ i # 0
      BY DEF IdInv, ServerTypes, IsConn
    <3> QED BY <1>3, <1>4, <1>5, <3>1
  <2>4. /\ \A d \in Clients : client'[d] = "new" => d \notin backlog' /\ id'[d] = 0
        /\ \A d \in backlog' : id'[d] = 0
    BY <1>1, <1>2, <1>3 DEF IdInv, ServerTypes
  <2>5. \A d \in Clients : id'[d] = 0 => taken'[d] = 0
    BY <1>2, <1>3 DEF IdInv
  <2> QED BY <2>1, <2>2, <2>3, <2>4, <2>5 DEF IdInv
<1>8. \A t : Known(t, taken) => id'[t[1]] = id[t[1]] /\ Known(t, taken')
  <2> SUFFICES ASSUME NEW t, Known(t, taken) PROVE t[1] # c /\ t[1] \in Clients
    BY <1>2, <1>3 DEF Known
  <2>1. t[1] \in Clients /\ t[2] \in Nat \ {0} /\ t[2] <= taken[t[1]]
    BY DEF Known, Tokens
  <2>2. taken[c] = 0
    BY <1>3 DEF IdInv
  <2> QED BY <2>1, <2>2
<1>9. KnownInv'
  <2>1. Addressed(pending', id', taken') /\ Addressed(local', id', taken')
    BY <1>2, <1>8 DEF KnownInv, Addressed
  <2>2. \A i \in DOMAIN conns' : \A k \in DOMAIN conns'[i].out :
           Known(conns'[i].out[k], taken') /\ conns'[i].out[k][1] = conns'[i].peer
    BY <1>4, <1>5, <1>8 DEF KnownInv
  <2>3. /\ \A t \in waiting' \cup inWork' : Known(t, taken')
        /\ \A d \in Clients : \A k \in DOMAIN answered'[d] : Known(answered'[d][k], taken') /\ answered'[d][k][1] = d
    BY <1>2, <1>8 DEF KnownInv
  <2> QED BY <2>1, <2>2, <2>3 DEF KnownInv
<1>10. Written' = Written
  <2>1. Elems(new.out) = {}
    BY <1>4 DEF Elems
  <2>2. \A i \in DOMAIN conns' : Elems(conns'[i].out) \subseteq Written
    BY <1>5, <2>1 DEF Written
  <2>3. \A i \in DOMAIN conns : Elems(conns[i].out) \subseteq Written'
    BY <1>5 DEF Written
  <2> QED BY <2>2, <2>3 DEF Written
<1>11. OnceInv'
  <2>1. \A i \in DOMAIN conns' : IsInjective(conns'[i].out)
    BY <1>4, <1>5 DEF OnceInv, IsInjective
  <2> QED BY <1>2, <1>10, <2>1 DEF OnceInv, Apart, Once, Unanswered, Asked, Given
<1> QED BY <1>6, <1>7, <1>9, <1>11

(* drainPending takes all that has come.                                   *)
LEMMA SwapData ==
  ASSUME DataInv, LoopInv, SwapPending
  PROVE  DataInv'
<1> USE DEF DataInv, clientVars, connVars, poolVars
<1>1. /\ local = <<>> /\ local' = pending /\ pending' = <<>>
      /\ UNCHANGED <<client, answered, backlog, id, taken, conns, nextConnId, waiting, inWork, posted>>
  BY DEF SwapPending, LoopInv
<1>2. ServerTypes'
  <2>1. <<>> \in Seq(Entries)
    OBVIOUS
  <2> QED BY <1>1, <2>1 DEF ServerTypes
<1>3. IdInv'
  BY <1>1 DEF IdInv
<1>4. KnownInv'
  <2>1. Addressed(<<>>, id, taken)
    BY DEF Addressed
  <2> QED BY <1>1, <2>1 DEF KnownInv
<1>5. Asked(<<>>) = {} /\ Once(<<>>)
  BY DEF Asked, Once
<1>6. OnceInv'
  <2>1. Unanswered' = Unanswered /\ Written' = Written /\ Given' = Given
    BY <1>1 DEF Unanswered, Written, Given
  <2>2. Asked(pending)' = {} /\ Asked(local)' = Asked(pending)
    BY <1>1, <1>5 DEF Asked
  <2>3. Apart'
    BY <1>1, <2>1, <2>2 DEF OnceInv, Apart
  <2>4. Once(pending)' /\ Once(local)'
    BY <1>1, <1>5 DEF OnceInv, Once
  <2> QED BY <1>1, <2>3, <2>4 DEF OnceInv
<1> QED BY <1>2, <1>3, <1>4, <1>6

(* A response goes to the connection of its request, or nowhere.           *)
LEMMA EnqueueData ==
  ASSUME DataInv, EnqueueNext
  PROVE  DataInv'
<1> USE DEF DataInv, clientVars, poolVars
<1>1. UNCHANGED <<client, answered, backlog, id, taken, nextConnId, pending, waiting, inWork, posted>>
  BY DEF EnqueueNext
<1>2. CASE local = <<>>
  BY <1>1, <1>2, DataStays DEF EnqueueNext, connVars
<1>3. CASE local # <<>>
  <2> DEFINE e == Head(local)
             t == e.request
             i == e.conn
  <2>1. /\ local' = Tail(local)
        /\ conns' = IF i \in DOMAIN conns THEN [conns EXCEPT ![i] = Enqueued(conns[i], t)] ELSE conns
    BY <1>3 DEF EnqueueNext
  <2>2. /\ Tail(local) \in Seq(Entries) /\ e \in Entries /\ 1 \in DOMAIN local /\ e = local[1]
        /\ DOMAIN local \subseteq Nat /\ DOMAIN Tail(local) \subseteq Nat
        /\ \A k \in DOMAIN Tail(local) : k + 1 \in DOMAIN local /\ k + 1 # 1 /\ Tail(local)[k] = local[k + 1]
    BY <1>3, TailAt DEF ServerTypes
  <2>3. t \in Tokens /\ t[1] \in Clients /\ Known(t, taken) /\ i = id[t[1]] /\ i \in Nat
    BY <2>2 DEF KnownInv, Addressed, Entries, Tokens
  <2> HIDE DEF e
  <2>4. Once(local') /\ Asked(local') \subseteq Asked(local) /\ t \in Asked(local) /\ t \notin Asked(local')
    <3>1. Asked(local') \subseteq Asked(local) /\ t \in Asked(local)
      BY <2>1, <2>2 DEF Asked
    <3>2. t \notin Asked(local')
      <4> SUFFICES ASSUME NEW k \in DOMAIN Tail(local), Tail(local)[k].request = t PROVE FALSE
        BY <2>1 DEF Asked
      <4>1. k + 1 = 1
        BY <2>2 DEF OnceInv, Once
      <4> QED BY <2>2, <4>1
    <3>3. Once(local')
      <4> SUFFICES ASSUME NEW k \in DOMAIN Tail(local), NEW l \in DOMAIN Tail(local),
                          Tail(local)[k].request = Tail(local)[l].request
                   PROVE  k = l
        BY <2>1 DEF Once
      <4>1. k + 1 = l + 1
        BY <2>2 DEF OnceInv, Once
      <4>2. k \in Nat /\ l \in Nat
        BY <2>2
      <4> QED BY <4>1, <4>2
    <3> QED BY <3>1, <3>2, <3>3
  <2>5. Addressed(local', id, taken)
    BY <2>1, <2>2 DEF KnownInv, Addressed
  <2>6. CASE i \notin DOMAIN conns
    <3>1. UNCHANGED conns
      BY <2>1, <2>6
    <3>2. ServerTypes' /\ IdInv'
      BY <1>1, <2>1, <2>2, <3>1 DEF ServerTypes, IdInv
    <3>3. KnownInv'
      BY <1>1, <2>5, <3>1 DEF KnownInv
    <3>4. Unanswered' = Unanswered /\ Written' = Written /\ Given' = Given /\ Asked(pending)' = Asked(pending)
      BY <1>1, <3>1 DEF Unanswered, Written, Given, Asked
    <3>5. Apart'
      BY <1>1, <2>4, <3>4 DEF OnceInv, Apart
    <3> QED BY <1>1, <2>4, <3>1, <3>2, <3>3, <3>5 DEF OnceInv, Once
  <2>7. CASE i \in DOMAIN conns
    <3> DEFINE old == conns[i]
               new == Enqueued(old, t)
    <3>1. IsConn(old) /\ old.peer = t[1]
      BY <2>3, <2>7 DEF ServerTypes, IdInv, IsConn
    <3>2. DOMAIN conns' = DOMAIN conns /\ conns'[i] = new /\ \A j \in DOMAIN conns : j # i => conns'[j] = conns[j]
      BY <2>1, <2>7
    <3>3. new.peer = old.peer /\ new.out = Append(old.out, t) /\ DOMAIN new = DOMAIN old
      BY <3>1 DEF Enqueued, IsConn
    <3> HIDE DEF old, new
    <3>4. /\ new.out \in Seq(Tokens)
          /\ \A k \in DOMAIN old.out : k \in DOMAIN new.out /\ new.out[k] = old.out[k]
          /\ \A k \in DOMAIN new.out : k \in DOMAIN old.out \/ k = Len(old.out) + 1
          /\ Len(old.out) + 1 \in DOMAIN new.out /\ new.out[Len(old.out) + 1] = t
      <4>1. old.out \in Seq(Tokens)
        BY <3>1 DEF IsConn
      <4>2. ASSUME NEW o \in Seq(Tokens), NEW x \in Tokens, NEW a, a = Append(o, x)
            PROVE  /\ a \in Seq(Tokens)
                   /\ \A k \in DOMAIN o : k \in DOMAIN a /\ a[k] = o[k]
                   /\ \A k \in DOMAIN a : k \in DOMAIN o \/ k = Len(o) + 1
                   /\ Len(o) + 1 \in DOMAIN a /\ a[Len(o) + 1] = x
        BY <4>2, AppendAt
      <4> QED BY <2>3, <3>3, <4>1, <4>2
    <3>5. IsConn(new)
      BY <3>1, <3>3, <3>4 DEF IsConn
    <3>6. ServerTypes'
      BY <1>1, <2>1, <2>2, <3>2, <3>5 DEF ServerTypes
    <3>7. IdInv'
      BY <1>1, <3>2, <3>3 DEF IdInv, old
    <3>8. \A k \in DOMAIN old.out : Known(old.out[k], taken) /\ old.out[k][1] = old.peer
      BY <2>7 DEF KnownInv, old
    <3>9. \A k \in DOMAIN new.out : Known(new.out[k], taken) /\ new.out[k][1] = new.peer
      BY <2>3, <3>1, <3>3, <3>4, <3>8
    <3>10. KnownInv'
      BY <1>1, <2>5, <3>2, <3>9 DEF KnownInv
    <3>11. Written' \subseteq Written \cup {t}
      <4>1. Elems(new.out) \subseteq Elems(old.out) \cup {t}
        BY <3>4 DEF Elems
      <4>2. Elems(old.out) \subseteq Written
        BY <2>7 DEF Written, old
      <4>3. \A j \in DOMAIN conns' : Elems(conns'[j].out) \subseteq Written \cup {t}
        BY <3>2, <4>1, <4>2 DEF Written
      <4> QED BY <4>3 DEF Written
    <3>12. IsInjective(new.out)
      <4>1. t \notin Elems(old.out) /\ IsInjective(old.out)
        BY <2>4, <2>7 DEF OnceInv, Apart, Written, old
      <4> QED BY <3>4, <4>1 DEF IsInjective, Elems
    <3>13. Unanswered' = Unanswered /\ Given' = Given /\ Asked(pending)' = Asked(pending)
      BY <1>1 DEF Unanswered, Given, Asked
    <3>14. Apart'
      BY <1>1, <2>4, <3>11, <3>13 DEF OnceInv, Apart
    <3> QED BY <1>1, <2>4, <3>2, <3>6, <3>7, <3>10, <3>12, <3>14 DEF OnceInv, Once
  <2> QED BY <2>6, <2>7
<1> QED BY <1>2, <1>3

(* What is in some place was dispatched.                                   *)
LEMMA PlacesKnown ==
  ASSUME KnownInv
  PROVE  \A t \in Unanswered \cup Asked(pending) \cup Asked(local) \cup Written \cup Given : Known(t, taken)
BY DEF KnownInv, Addressed, Unanswered, Asked, Written, Given, Elems

(* A request is dispatched under a number its client has not used.         *)
LEMMA DispatchData ==
  ASSUME DataInv, LoopInv, Dispatch
  PROVE  DataInv'
<1> USE DEF DataInv, clientVars, queueVars
<1> DEFINE c == reading[1]
           r == taken[c] + 1
           t == <<c, r>>
<1>1. /\ waiting' = waiting \cup {t} /\ inWork' = inWork /\ t \notin inWork
      /\ taken' = [taken EXCEPT ![c] = r]
      /\ UNCHANGED <<client, answered, backlog, id, conns, nextConnId, posted, pending, local>>
  BY DEF Dispatch, Pool!Post
<1>2. c \in Clients /\ id[c] # 0 /\ taken[c] \in Nat
  BY DEF Dispatch, LoopInv, ServerTypes
<1> HIDE DEF c
<1>3. /\ t \in Tokens /\ t[1] = c /\ t[2] = r /\ taken'[c] = r
      /\ \A d \in Clients : d # c => taken'[d] = taken[d]
  BY <1>1, <1>2 DEF ServerTypes, Tokens
<1>4. \A x : Known(x, taken) => Known(x, taken') /\ x # t
  <2> SUFFICES ASSUME NEW x, Known(x, taken) PROVE Known(x, taken') /\ x # t
    OBVIOUS
  <2>1. x \in Tokens /\ x[1] \in Clients /\ x[2] \in Nat /\ x[2] <= taken[x[1]]
    BY DEF Known, Tokens
  <2>2. CASE x[1] = c
    <3>1. x[2] # r /\ x[2] <= r
      BY <1>2, <2>1, <2>2
    <3> QED BY <1>3, <2>1, <2>2, <3>1 DEF Known
  <2>3. CASE x[1] # c
    BY <1>3, <2>1, <2>3 DEF Known
  <2> QED BY <2>2, <2>3
<1>5. Known(t, taken')
  <2>1. r <= r
    BY <1>2
  <2> QED BY <1>3, <2>1 DEF Known
<1>6. ServerTypes'
  <2>1. taken' \in [Clients -> Nat]
    BY <1>1, <1>2 DEF ServerTypes
  <2> QED BY <1>1, <1>3, <2>1 DEF ServerTypes
<1>7. IdInv'
  BY <1>1, <1>2, <1>3 DEF IdInv
<1>8. KnownInv'
  BY <1>1, <1>4, <1>5 DEF KnownInv, Addressed
<1> HIDE DEF t
<1>9. t \notin Unanswered \cup Asked(pending) \cup Asked(local) \cup Written \cup Given
  BY <1>4, PlacesKnown
<1>10. /\ Unanswered' = Unanswered \cup {t} /\ Asked(pending)' = Asked(pending) /\ Asked(local)' = Asked(local)
       /\ Written' = Written /\ Given' = Given
  BY <1>1 DEF Unanswered, Asked, Written, Given
<1>11. Apart'
  BY <1>1, <1>9, <1>10 DEF OnceInv, Apart
<1>12. OnceInv'
  BY <1>1, <1>11 DEF OnceInv, Once
<1> QED BY <1>6, <1>7, <1>8, <1>12

(* The workers of the pool.                                                *)
LEMMA WorkerData ==
  ASSUME DataInv, NEW t \in Requests, Worker(t)
  PROVE  DataInv'
<1> USE DEF DataInv, clientVars, connVars, queueVars
<1>1. UNCHANGED <<client, answered, backlog, id, taken, conns, nextConnId, local>>
  BY DEF Worker, WorkerStart, WorkerPost, WorkerWake
<1>2. IdInv'
  BY <1>1 DEF IdInv
<1>3. Written' = Written /\ Given' = Given /\ Asked(local)' = Asked(local)
  BY <1>1 DEF Written, Given, Asked
<1>4. CASE WorkerStart(t) \/ WorkerWake(t)
  <2>1. /\ UNCHANGED pending /\ waiting' \subseteq waiting
        /\ \/ t \in waiting /\ waiting' = waiting \ {t} /\ inWork' = inWork \cup {t} /\ posted' = posted
           \/ waiting' = waiting /\ inWork' = inWork \ {t} /\ posted' = posted \ {t}
    BY <1>4 DEF WorkerStart, WorkerWake, Pool!Start, Pool!Finish
  <2>2. ServerTypes' /\ KnownInv'
    BY <1>1, <2>1 DEF ServerTypes, KnownInv
  <2>3. Unanswered' \subseteq Unanswered /\ waiting' \cap inWork' = {}
    BY <2>1 DEF Unanswered, OnceInv, Apart
  <2>4. Asked(pending)' = Asked(pending)
    BY <2>1 DEF Asked
  <2>5. Apart'
    BY <1>3, <2>3, <2>4 DEF OnceInv, Apart
  <2> QED BY <1>1, <1>2, <2>1, <2>2, <2>5 DEF OnceInv, Once
<1>5. CASE WorkerPost(t)
  <2> DEFINE e == [conn |-> id[t[1]], request |-> t]
  <2>1. /\ t \in inWork /\ t \notin posted /\ posted' = posted \cup {t} /\ pending' = Append(pending, e)
        /\ UNCHANGED <<waiting, inWork>>
    BY <1>5 DEF WorkerPost
  <2>2. Known(t, taken) /\ t \in Tokens /\ t[1] \in Clients
    BY <2>1 DEF KnownInv, Known, Tokens
  <2>3. e \in Entries /\ e.request = t /\ e.conn = id[t[1]]
    BY <2>2 DEF Entries, ServerTypes
  <2> HIDE DEF e
  <2>4. /\ pending' \in Seq(Entries)
        /\ \A k \in DOMAIN pending : k \in DOMAIN pending' /\ pending'[k] = pending[k]
        /\ \A k \in DOMAIN pending' : k \in DOMAIN pending \/ k = Len(pending) + 1
        /\ Len(pending) + 1 \in DOMAIN pending' /\ pending'[Len(pending) + 1] = e
    BY <2>1, <2>3, AppendAt DEF ServerTypes
  <2>5. ServerTypes'
    BY <1>1, <2>1, <2>4 DEF ServerTypes
  <2>6. Addressed(pending', id, taken)
    BY <2>2, <2>3, <2>4 DEF KnownInv, Addressed
  <2>7. KnownInv'
    BY <1>1, <2>1, <2>6 DEF KnownInv
  <2>8. t \in Unanswered /\ t \notin Asked(pending) /\ t \notin waiting
    BY <2>1 DEF Unanswered, OnceInv, Apart
  <2>9. Unanswered' = Unanswered \ {t}
    BY <2>1, <2>8 DEF Unanswered
  <2>10. Asked(pending)' \subseteq Asked(pending) \cup {t}
    BY <2>3, <2>4 DEF Asked
  <2>11. Once(pending)'
    BY <2>3, <2>4, <2>8 DEF OnceInv, Once, Asked
  <2>12. Apart'
    BY <1>3, <2>1, <2>8, <2>9, <2>10 DEF OnceInv, Apart
  <2> QED BY <1>1, <1>2, <2>5, <2>7, <2>11, <2>12 DEF OnceInv, Once
<1> QED BY <1>4, <1>5 DEF Worker

(* The socket takes a part of the output.                                  *)
LEMMA WriteData ==
  ASSUME DataInv, NEW i \in 1 .. nextConnId, WriteConn(i)
  PROVE  DataInv'
<1> USE DEF DataInv, poolVars, queueVars
<1>1. /\ i \in DOMAIN conns
      /\ UNCHANGED <<client, backlog, id, taken, nextConnId, waiting, inWork, posted, pending, local>>
  BY DEF WriteConn
<1> DEFINE c == conns[i].peer
           out == conns[i].out
<1>2. c \in Clients /\ out \in Seq(Tokens) /\ IsConn(conns[i]) /\ answered[c] \in Seq(Tokens)
  BY <1>1 DEF ServerTypes, IsConn
<1>3. PICK n \in (IF out = <<>> THEN {0} ELSE 1 .. Len(out)) :
        /\ answered' = [answered EXCEPT ![c] = answered[c] \o SubSeq(out, 1, n)]
        /\ conns' = IF SubSeq(out, n + 1, Len(out)) = <<>> /\ conns[i].closing THEN Without({i})
                    ELSE [conns EXCEPT ![i].out = SubSeq(out, n + 1, Len(out)),
                                       ![i].wantWrite = SubSeq(out, n + 1, Len(out)) # <<>>]
  BY DEF WriteConn
<1>4. n \in 0 .. Len(out)
  <2>1. Len(out) \in Nat
    BY <1>2
  <2> QED BY <1>3, <2>1
<1>5. Elems(out) \subseteq Written /\ Elems(answered[c]) \subseteq Given
  BY <1>1, <1>2 DEF Written, Given
<1> DEFINE sent1 == answered[c] \o SubSeq(out, 1, n)
           rest1 == SubSeq(out, n + 1, Len(out))
<1>6. /\ sent1 \in Seq(Tokens) /\ rest1 \in Seq(Tokens)
      /\ IsInjective(sent1) /\ IsInjective(rest1)
      /\ Elems(sent1) \subseteq Elems(answered[c]) \cup Elems(out) /\ Elems(rest1) \subseteq Elems(out)
      /\ Elems(sent1) \cap Elems(rest1) = {}
  <2>1. IsInjective(answered[c]) /\ IsInjective(out) /\ Elems(answered[c]) \cap Elems(out) = {}
    BY <1>1, <1>2, <1>5 DEF OnceInv, Apart
  <2> QED BY <1>2, <1>4, <2>1, PrefixMoves
<1>7. /\ answered'[c] = sent1 /\ \A d \in Clients : d # c => answered'[d] = answered[d]
      /\ answered' \in [Clients -> Seq(Tokens)]
  BY <1>2, <1>3, <1>6 DEF ServerTypes
<1>8. /\ DOMAIN conns' \subseteq DOMAIN conns
      /\ \A j \in DOMAIN conns' : j # i => conns'[j] = conns[j]
      /\ i \in DOMAIN conns' =>
           DOMAIN conns'[i] = DOMAIN conns[i] /\ conns'[i].peer = c /\ conns'[i].out = rest1
  <2>1. CASE conns' = Without({i})
    BY <2>1 DEF Without
  <2>2. CASE conns' = [conns EXCEPT ![i].out = rest1, ![i].wantWrite = rest1 # <<>>]
    BY <1>1, <1>2, <2>2 DEF IsConn
  <2> QED BY <1>3, <2>1, <2>2
<1> HIDE DEF sent1, rest1
<1>9. ServerTypes'
  <2>1. \A j \in DOMAIN conns' : IsConn(conns'[j])
    BY <1>2, <1>6, <1>8 DEF ServerTypes, IsConn
  <2> QED BY <1>1, <1>7, <1>8, <2>1 DEF ServerTypes
<1>10. \A j \in DOMAIN conns' : conns'[j].peer = conns[j].peer
  BY <1>8
<1>11. IdInv'
  BY <1>1, <1>8, <1>10 DEF IdInv
<1>12. /\ \A x \in Elems(out) : Known(x, taken) /\ x[1] = c
       /\ \A x \in Elems(answered[c]) : Known(x, taken) /\ x[1] = c
  BY <1>1, <1>2 DEF KnownInv, Elems
<1>13. KnownInv'
  <2>1. \A j \in DOMAIN conns' : \A k \in DOMAIN conns'[j].out :
           Known(conns'[j].out[k], taken) /\ conns'[j].out[k][1] = conns'[j].peer
    <3>1. \A x \in Elems(rest1) : Known(x, taken) /\ x[1] = c
      BY <1>6, <1>12
    <3>2. \A k \in DOMAIN rest1 : Known(rest1[k], taken) /\ rest1[k][1] = c
      BY <3>1 DEF Elems
    <3> QED BY <1>8, <3>2 DEF KnownInv
  <2>2. \A d \in Clients : \A k \in DOMAIN answered'[d] : Known(answered'[d][k], taken) /\ answered'[d][k][1] = d
    <3>1. \A x \in Elems(sent1) : Known(x, taken) /\ x[1] = c
      BY <1>6, <1>12
    <3>2. \A k \in DOMAIN sent1 : Known(sent1[k], taken) /\ sent1[k][1] = c
      BY <3>1 DEF Elems
    <3> QED BY <1>7, <3>2 DEF KnownInv
  <2> QED BY <1>1, <2>1, <2>2 DEF KnownInv
<1>14. \A j \in DOMAIN conns' : Elems(conns'[j].out) \subseteq Written
  BY <1>1, <1>5, <1>6, <1>8 DEF Written
<1>15. \A d \in Clients : Elems(answered'[d]) \subseteq Written \cup Given
  BY <1>5, <1>6, <1>7 DEF Given
<1>16. Written' \cap Given' = {}
  <2> SUFFICES ASSUME NEW j \in DOMAIN conns', NEW d \in Clients, NEW x,
                      x \in Elems(conns'[j].out), x \in Elems(answered'[d])
               PROVE  FALSE
    BY DEF Written, Given
  <2>1. d = conns'[j].peer
    BY <1>13 DEF KnownInv, Elems
  <2>2. CASE d = c
    <3>1. j = i
      BY <1>1, <1>8, <2>1, <2>2 DEF IdInv
    <3> QED BY <1>6, <1>7, <1>8, <2>2, <3>1
  <2>3. CASE d # c
    <3>1. x \in Given
      BY <1>7, <2>3 DEF Given
    <3>2. x \in Written
      BY <1>14
    <3> QED BY <3>1, <3>2 DEF OnceInv, Apart
  <2> QED BY <2>2, <2>3
<1>17. OnceInv'
  <2>1. Unanswered' = Unanswered /\ Asked(pending)' = Asked(pending) /\ Asked(local)' = Asked(local)
    BY <1>1 DEF Unanswered, Asked
  <2>2. Written' \subseteq Written /\ Given' \subseteq Written \cup Given
    BY <1>14, <1>15 DEF Written, Given
  <2>3. Apart'
    BY <1>1, <1>16, <2>1, <2>2 DEF OnceInv, Apart
  <2>4. \A j \in DOMAIN conns' : IsInjective(conns'[j].out)
    BY <1>6, <1>8 DEF OnceInv
  <2>5. \A d \in Clients : IsInjective(answered'[d])
    BY <1>6, <1>7 DEF OnceInv
  <2> QED BY <1>1, <2>3, <2>4, <2>5 DEF OnceInv, Once
<1> QED BY <1>9, <1>11, <1>13, <1>17

-----------------------------------------------------------------------------
LEMMA AnswerInit == Init => AnswerInv
<1> SUFFICES ASSUME Init PROVE AnswerInv
  OBVIOUS
<1>1. <<>> \in Seq(Tokens) /\ <<>> \in Seq(Entries)
  OBVIOUS
<1>2. ServerTypes
  BY <1>1 DEF Init, ServerTypes, Pool!Init
<1>3. LoopInv /\ IdInv
  BY DEF Init, LoopInv, IdInv
<1>4. KnownInv
  BY DEF Init, KnownInv, Addressed, Pool!Init
<1>5. OnceInv
  BY DEF Init, OnceInv, Once, IsInjective, Apart, Unanswered, Asked, Written, Given, Elems, Pool!Init
<1> QED BY <1>2, <1>3, <1>4, <1>5 DEF AnswerInv

LEMMA AnswerStep ==
  ASSUME AnswerInv, [Next]_vars
  PROVE  AnswerInv'
<1> USE DEF AnswerInv, clientVars, poolVars, queueVars, loopVars
<1>1. DataInv
  BY DEF DataInv
<1>2. ASSUME NEW c \in Clients, Client(c)
      PROVE  DataInv'
  <2>1. UNCHANGED <<connVars, answered, pending, local, waiting, inWork, posted>>
    BY <1>2 DEF Client, Connect, Send, Leave
  <2>2. CASE Connect(c)
    <3>1. /\ client[c] = "new" /\ client' = [client EXCEPT ![c] = "connected"]
          /\ backlog' = backlog \cup {c}
      BY <2>2 DEF Connect
    <3> QED BY <1>1, <2>1, <3>1, ClientsMove DEF ServerTypes, IdInv
  <2>3. CASE Send(c)
    BY <1>1, <2>1, <2>3, DataStays DEF Send
  <2>4. CASE Leave(c)
    <3>1. client' = [client EXCEPT ![c] = "left"] /\ backlog' = backlog
      BY <2>4 DEF Leave
    <3> QED BY <1>1, <2>1, <3>1, ClientsMove DEF ServerTypes, IdInv
  <2> QED BY <1>2, <2>2, <2>3, <2>4 DEF Client
<1>3. ASSUME LoopBegin \/ LoopPoll \/ DrainWake \/ StopBegin \/ Join \/ UNCHANGED vars
      PROVE  DataInv'
  BY <1>1, <1>3, DataStays DEF LoopBegin, LoopPoll, DrainWake, StopBegin, Join, vars, connVars
<1>4. ASSUME LoopEnd \/ ReapIdle
      PROVE  DataInv'
  <2>1. PICK dead : conns' = Without(dead)
    BY <1>4 DEF LoopEnd, ReapIdle
  <2> QED BY <1>1, <1>4, <2>1, ConnsShrink DEF LoopEnd, ReapIdle
<1>5. ASSUME NEW i \in 1 .. nextConnId, ReadConn(i) \/ WriteFails(i)
      PROVE  DataInv'
  <2>1. UNCHANGED <<client, backlog, id, taken, nextConnId, answered, pending, local, waiting, inWork, posted>>
    BY <1>5 DEF ReadConn, WriteFails
  <2>2. conns' = Without({i}) \/ UNCHANGED conns
    BY <1>5 DEF ReadConn, WriteFails
  <2> QED BY <1>1, <2>1, <2>2, ConnsShrink, DataStays DEF connVars
<1>6. ASSUME Start
      PROVE  DataInv'
  <2>1. /\ UNCHANGED <<connVars, answered, pending, local, waiting, inWork, posted, client>>
        /\ backlog' = {}
    BY <1>6 DEF Start
  <2> QED BY <1>1, <2>1, ClientsMove DEF ServerTypes
<1>7. DataInv'
  BY <1>1, <1>2, <1>3, <1>4, <1>5, <1>6, AcceptData, SwapData, EnqueueData, DispatchData, WorkerData, WriteData
     DEF Next, Loop
<1>8. LoopInv'
  BY LoopStep
<1> QED BY <1>7, <1>8 DEF DataInv

(* A client gets responses to its own requests only, and each once: for    *)
(* any number of clients, connections, workers and restarts, whenever a    *)
(* connection goes, is reaped, or the loop ends (server.cpp: postResponse, *)
(* drainPending, acceptAll, closeConn).                                    *)
THEOREM AnswersGoHome == Spec => []AnswersAreOwn
<1>1. AnswerInv => AnswersAreOwn
  BY DEF AnswerInv, KnownInv, OnceInv, AnswersAreOwn, Known
<1> QED BY <1>1, AnswerInit, AnswerStep, PTL DEF Spec

(* An id names one connection for ever: a response that waits for it can   *)
(* reach no other client.                                                  *)
THEOREM IdsAreUnique ==
  Spec => [](\A i \in DOMAIN conns : \A c \in Clients : id[c] = i => conns[i].peer = c)
<1>1. AnswerInv => \A i \in DOMAIN conns : \A c \in Clients : id[c] = i => conns[i].peer = c
  BY DEF AnswerInv, IdInv, ServerTypes, IsConn
<1> QED BY <1>1, AnswerInit, AnswerStep, PTL DEF Spec

=============================================================================
