----------------------------- MODULE MemoryPool -----------------------------
(***************************************************************************)
(* Pools of blocks of one size.  Every pool has a free list under a mutex; *)
(* every thread has one cache of free blocks, which all the pools of the   *)
(* program share, and which belongs to the pool the thread used first.     *)
(***************************************************************************)
EXTENDS Integers, Sequences, FiniteSets, SequencesExt

CONSTANTS
  Pools, PoolThreads,
  CacheSize, Batch, \* TLS_CACHE_SIZE, TLS_BATCH_SIZE (no larger)
  PageBlocks,       \* blocksPerPage_
  MaxPages,         \* bound: pages that can be had
  Nobody

VARIABLES
  freelist,         \* of every pool, its head first
  cache, owner,     \* of every thread
  out,              \* the blocks the program uses
  pages,            \* pages so far; the blocks of page k are those of Page(k)
  putting           \* of every thread, a list on its way to the free list

poolVars == <<freelist, cache, owner, out, pages, putting>>

Page(k) == [i \in 1..PageBlocks |-> (k - 1) * PageBlocks + i]

Nothing == [pool |-> Nobody, list |-> <<>>, done |-> FALSE]

Init ==
  /\ freelist = [p \in Pools |-> <<>>] /\ cache = [t \in PoolThreads |-> <<>>]
  /\ owner = [t \in PoolThreads |-> Nobody]
  /\ out = {} /\ pages = 0 /\ putting = [t \in PoolThreads |-> Nothing]

Idle(t) == putting[t] = Nothing

\* get_fast_thread_cache
Owned(t, p) == owner' = [owner EXCEPT ![t] = IF @ = Nobody THEN p ELSE @]

FirstOf(s, n) == SubSeq(s, 1, IF n < Len(s) THEN n ELSE Len(s))

(***************************************************************************)
(* allocate                                                                *)
(***************************************************************************)
Allocate(t, p) ==
  /\ Idle(t) /\ cache[t] # <<>> /\ Owned(t, p)
  /\ out' = out \cup {Last(cache[t])} /\ cache' = [cache EXCEPT ![t] = Front(@)]
  /\ UNCHANGED <<freelist, pages, putting>>

(* Mutant of Refill: the free list forgets one block fewer than were taken. *)
RefillOneTwice(t, p) ==
  /\ Idle(t) /\ cache[t] = <<>> /\ Owned(t, p)
  /\ \/ freelist[p] # <<>> /\ UNCHANGED pages
     \/ freelist[p] = <<>> /\ pages < MaxPages /\ pages' = pages + 1
  /\ LET list == IF freelist[p] = <<>> THEN Page(pages + 1) ELSE freelist[p]
         taken == FirstOf(list, Batch)
     IN /\ freelist' = [freelist EXCEPT ![p] = SubSeq(list, Len(taken), Len(list))]
        /\ out' = out \cup {Last(taken)} /\ cache' = [cache EXCEPT ![t] = Front(taken)]
  /\ UNCHANGED putting

\* An empty cache takes a batch from the free list, which gets a page if it is
\* empty too; without memory nothing is allocated.
Refill(t, p) ==
  /\ Idle(t) /\ cache[t] = <<>> /\ Owned(t, p)
  /\ \/ freelist[p] # <<>> /\ UNCHANGED pages
     \/ freelist[p] = <<>> /\ pages < MaxPages /\ pages' = pages + 1
  /\ LET list == IF freelist[p] = <<>> THEN Page(pages + 1) ELSE freelist[p]
         taken == FirstOf(list, Batch)
     IN /\ freelist' = [freelist EXCEPT ![p] = SubSeq(list, Len(taken) + 1, Len(list))]
        /\ out' = out \cup {Last(taken)} /\ cache' = [cache EXCEPT ![t] = Front(taken)]
  /\ UNCHANGED putting

(***************************************************************************)
(* deallocate: a full cache gives a batch back first, in two steps         *)
(***************************************************************************)
Deallocate(t, p, b) ==
  /\ Idle(t) /\ b \in out /\ Len(cache[t]) < CacheSize /\ Owned(t, p)
  /\ out' = out \ {b} /\ cache' = [cache EXCEPT ![t] = Append(@, b)]
  /\ UNCHANGED <<freelist, pages, putting>>

\* The n blocks on top of the cache, linked outside the mutex.
Unload(t, p, n, done) ==
  LET kept == Len(cache[t]) - n
  IN /\ putting' = [putting EXCEPT ![t] =
           [pool |-> p, list |-> SubSeq(cache[t], kept + 1, Len(cache[t])), done |-> done]]
     /\ cache' = [cache EXCEPT ![t] = FirstOf(@, kept)]

Flush(t, p) ==
  /\ Idle(t) /\ out # {} /\ Len(cache[t]) = CacheSize /\ Owned(t, p)
  /\ Unload(t, p, Batch, FALSE)
  /\ UNCHANGED <<freelist, out, pages>>

\* The thread ends: everything goes to the pool it used first.
FlushAll(t) ==
  /\ Idle(t) /\ cache[t] # <<>> /\ Unload(t, owner[t], Len(cache[t]), TRUE)
  /\ UNCHANGED <<freelist, owner, out, pages>>

\* Under the mutex of the pool.  A thread that has ended may come again, with
\* a cache of its own.
Splice(t) ==
  /\ ~Idle(t)
  /\ LET p == putting[t].pool
     IN freelist' = [freelist EXCEPT ![p] = putting[t].list \o @]
  /\ putting' = [putting EXCEPT ![t] = Nothing]
  /\ owner' = [owner EXCEPT ![t] = IF putting[t].done THEN Nobody ELSE @]
  /\ UNCHANGED <<cache, out, pages>>

Next ==
  \E t \in PoolThreads :
    \/ FlushAll(t) \/ Splice(t)
    \/ \E p \in Pools :
         \/ Allocate(t, p) \/ Refill(t, p) \/ Flush(t, p)
         \/ \E b \in out : Deallocate(t, p, b)

Spec == Init /\ [][Next]_poolVars

-----------------------------------------------------------------------------
\* Where a free block can be, and the blocks that are there.
Places == ({"free"} \X Pools) \cup ({"cached", "moving"} \X PoolThreads)

Lists ==
  [x \in Places |-> CASE x[1] = "free" -> freelist[x[2]]
                      [] x[1] = "cached" -> cache[x[2]]
                      [] OTHER -> putting[x[2]].list]

\* A block is in one place: with the program, in one free list, in one cache
\* or on its way between them, however many threads allocate, free blocks of
\* each other, and end.
BlockIsOnce ==
  /\ \A b \in 1..pages * PageBlocks :
       b \in out \/ \E x \in Places : \E i \in DOMAIN Lists[x] : Lists[x][i] = b
  /\ \A x \in Places : \A i \in DOMAIN Lists[x] :
       /\ Lists[x][i] \notin out
       /\ \A y \in Places : \A j \in DOMAIN Lists[y] : Lists[x][i] = Lists[y][j] => x = y /\ i = j
=============================================================================
