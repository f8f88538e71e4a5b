---------------------------- MODULE OrderedQueue ----------------------------
(***************************************************************************)
(* The ring that puts frames back into the order of their ids: producers   *)
(* claim the slot of their id with a compare-exchange and write it         *)
(* afterwards, consumers take the slot of the id that is expected next.    *)
(* Nothing but `filled` orders the two sides: the two stores of a producer *)
(* come after its claim and may be seen in either order.                   *)
(***************************************************************************)
EXTENDS Integers, Sequences

CONSTANTS
  Producers, Consumers,
  Requested,        \* the capacity asked for
  MaxId,            \* bound: the largest id
  Policies,         \* among "newest", "oldest", "block"
  Nothing           \* a T that was moved from, or never written

VARIABLES
  policy, nextId,
  filled, frame_id, data_,          \* the fields of every slot
  expected_id_,
  producer,                         \* [todo, id]: what a producer has yet to do
  consumer,                         \* [at, id, got] of every consumer
  taken,                            \* the values they returned, in order
  torn,                             \* a slot was taken that was claimed, not written
  shared                            \* ... or that another consumer was emptying

orderVars == <<policy, nextId, filled, frame_id, data_, expected_id_, producer,
               consumer, taken, torn, shared>>

\* next_power_of_two, for rings of up to 1024 slots
RingSize ==
  CHOOSE c \in {1, 2, 4, 8, 16, 32, 64, 128, 256, 512, 1024} :
    c >= Requested /\ (c = 1 \/ c < 2 * Requested)
Slots == 0..RingSize - 1
Slot(id) == id % RingSize

Init ==
  /\ policy \in Policies /\ nextId = 0
  /\ filled = [s \in Slots |-> FALSE] /\ frame_id = [s \in Slots |-> 0]
  /\ data_ = [s \in Slots |-> Nothing]
  /\ expected_id_ = 0
  /\ producer = [p \in Producers |-> [todo |-> {}, id |-> 0]]
  /\ consumer = [c \in Consumers |-> [at |-> "load", id |-> 0, got |-> Nothing]]
  /\ taken = <<>> /\ torn = FALSE /\ shared = FALSE

Todo(p, rest) == producer' = [producer EXCEPT ![p].todo = rest]

\* Ids are given out in order; the producers deliver them in any order, and a
\* frame that is behind the consumers is refused.
Enqueue(p) ==
  /\ producer[p].todo = {} /\ nextId <= MaxId
  /\ nextId' = nextId + 1
  /\ producer' = [producer EXCEPT ![p] =
       [todo |-> IF nextId < expected_id_ THEN {} ELSE {"claim"}, id |-> nextId]]
  /\ UNCHANGED <<policy, filled, frame_id, data_, expected_id_, consumer, taken, torn, shared>>

\* The loop around the weak compare-exchange, by policy: a frame may be dropped
\* although its slot is free.
Claim(p) ==
  LET s == Slot(producer[p].id) IN
  /\ producer[p].todo = {"claim"}
  /\ \/ ~filled[s] /\ filled' = [filled EXCEPT ![s] = TRUE] /\ Todo(p, {"data", "id"})
     \/ policy = "newest" /\ Todo(p, {}) /\ UNCHANGED filled
     \/ policy = "oldest" /\ filled' = [filled EXCEPT ![s] = FALSE] /\ UNCHANGED producer
  /\ UNCHANGED <<policy, nextId, frame_id, data_, expected_id_, consumer, taken, torn, shared>>

\* Two plain stores (lines 135 and 136).
WriteData(p) ==
  /\ "data" \in producer[p].todo /\ Todo(p, producer[p].todo \ {"data"})
  /\ data_' = [data_ EXCEPT ![Slot(producer[p].id)] = producer[p].id]
  /\ UNCHANGED <<policy, nextId, filled, frame_id, expected_id_, consumer, taken, torn, shared>>

WriteId(p) ==
  /\ "id" \in producer[p].todo /\ Todo(p, producer[p].todo \ {"id"})
  /\ frame_id' = [frame_id EXCEPT ![Slot(producer[p].id)] = producer[p].id]
  /\ UNCHANGED <<policy, nextId, filled, data_, expected_id_, consumer, taken, torn, shared>>

\* A producer has claimed the slot and not written all of it.
Held(s) ==
  \E p \in Producers :
    ("data" \in producer[p].todo \/ "id" \in producer[p].todo) /\ Slot(producer[p].id) = s

\* try_dequeue, which comes back for another attempt: the id is loaded first.
Load(c) ==
  /\ consumer[c].at = "load"
  /\ consumer' = [consumer EXCEPT ![c] = [at |-> "test", id |-> expected_id_, got |-> Nothing]]
  /\ UNCHANGED <<policy, nextId, filled, frame_id, data_, expected_id_, producer, taken, torn, shared>>

At(c, at) == consumer' = [consumer EXCEPT ![c].at = at]

Emptied(c, s) ==
  \E d \in Consumers \ {c} :
    consumer[d].at \in {"move", "reset", "free"} /\ Slot(consumer[d].id) = s

Pass(c, s) ==
  /\ At(c, "move")
  /\ torn' = (torn \/ Held(s)) /\ shared' = (shared \/ Emptied(c, s))

(* Mutant of Test: a slot that is filled is taken for the expected one.     *)
TestFilledOnly(c) ==
  LET s == Slot(consumer[c].id) IN
  /\ consumer[c].at = "test"
  /\ IF filled[s] THEN Pass(c, s) ELSE At(c, "load") /\ UNCHANGED <<torn, shared>>
  /\ UNCHANGED <<policy, nextId, filled, frame_id, data_, expected_id_, producer, taken>>

\* A consumer that passes claims nothing, so a second one may pass beside it.
\* The id of an empty slot is 0: the slot of frame 0 looks complete as soon as
\* it is claimed.
Test(c) ==
  LET s == Slot(consumer[c].id) IN
  /\ consumer[c].at = "test"
  /\ IF filled[s] /\ frame_id[s] = consumer[c].id
     THEN Pass(c, s)
     ELSE At(c, "load") /\ UNCHANGED <<torn, shared>>
  /\ UNCHANGED <<policy, nextId, filled, frame_id, data_, expected_id_, producer, taken>>

Move(c) ==
  LET s == Slot(consumer[c].id) IN
  /\ consumer[c].at = "move"
  /\ consumer' = [consumer EXCEPT ![c].at = "reset", ![c].got = data_[s]]
  /\ data_' = [data_ EXCEPT ![s] = Nothing]
  /\ UNCHANGED <<policy, nextId, filled, frame_id, expected_id_, producer, taken, torn, shared>>

Reset(c) ==
  /\ consumer[c].at = "reset" /\ At(c, "free")
  /\ frame_id' = [frame_id EXCEPT ![Slot(consumer[c].id)] = 0]
  /\ UNCHANGED <<policy, nextId, filled, data_, expected_id_, producer, taken, torn, shared>>

Free(c) ==
  /\ consumer[c].at = "free" /\ At(c, "next")
  /\ filled' = [filled EXCEPT ![Slot(consumer[c].id)] = FALSE]
  /\ UNCHANGED <<policy, nextId, frame_id, data_, expected_id_, producer, taken, torn, shared>>

\* The result of the compare-exchange is not looked at.
Advance(c) ==
  /\ consumer[c].at = "next" /\ At(c, "load")
  /\ expected_id_' = IF expected_id_ = consumer[c].id THEN expected_id_ + 1 ELSE expected_id_
  /\ taken' = Append(taken, consumer[c].got)
  /\ UNCHANGED <<policy, nextId, filled, frame_id, data_, producer, torn, shared>>

Next ==
  \/ \E c \in Consumers : Load(c) \/ Test(c) \/ Move(c) \/ Reset(c) \/ Free(c) \/ Advance(c)
  \/ \E p \in Producers : Enqueue(p) \/ Claim(p) \/ WriteData(p) \/ WriteId(p)

Spec == Init /\ [][Next]_orderVars

\* The frames come out in the order of their ids, each with its own data: no
\* slot is taken by two ids, and an id that a consumer loaded long ago finds
\* nothing.  Not with DISCARD_OLDEST, which frees a slot somebody may be
\* writing, and only until a consumer takes a slot whose producer has not stored
\* both fields (torn) or which another consumer is just emptying (shared): the
\* code prevents neither.
TakenInOrder ==
  policy # "oldest" /\ ~torn /\ ~shared => \A k \in DOMAIN taken : taken[k] = k - 1
=============================================================================
