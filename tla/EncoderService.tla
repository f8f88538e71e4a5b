--------------------------- MODULE EncoderService ---------------------------
(***************************************************************************)
(* What an encoder core promises its clients, whatever slots and queues it *)
(* uses inside: at most Capacity frames are inside at a time, frames are   *)
(* encoded in the order they were submitted, and a frame is delivered once *)
(* and with its own packet: a client that gets another frame's packet has  *)
(* taken no step of this service.                                          *)
(***************************************************************************)
EXTENDS Integers, Sequences, FiniteSets

CONSTANTS Frames, Capacity

VARIABLES
  phase,   \* where each frame is
  queue    \* the frames submitted and not yet encoded, oldest first

serviceVars == <<phase, queue>>

Phase == {"outside", "filling", "queued", "ready", "delivered", "returned"}

Inside == {f \in Frames : phase[f] \in {"filling", "queued", "ready", "delivered"}}

Init ==
  /\ phase = [f \in Frames |-> "outside"]
  /\ queue = <<>>

Move(f, from, to) ==
  /\ phase[f] = from
  /\ phase' = [phase EXCEPT ![f] = to]

(* A client gets a slot, or is turned away for good. *)
Enter(f) ==
  /\ Cardinality(Inside) < Capacity
  /\ Move(f, "outside", "filling")
  /\ UNCHANGED queue

TurnAway(f) == Move(f, "outside", "returned") /\ UNCHANGED queue

Submit(f) ==
  /\ Move(f, "filling", "queued")
  /\ queue' = Append(queue, f)

(* The oldest frame is encoded. *)
Encode ==
  /\ queue # <<>>
  /\ Move(Head(queue), "queued", "ready")
  /\ queue' = Tail(queue)

(* The client gets the packet of f.                                        *)
Deliver(f) == Move(f, "ready", "delivered") /\ UNCHANGED queue

(* The slot comes back, with its frame delivered or never submitted. *)
Return(f) ==
  /\ Move(f, "delivered", "returned") \/ Move(f, "filling", "returned")
  /\ UNCHANGED queue

ServiceNext ==
  \/ \E f \in Frames : Enter(f) \/ TurnAway(f) \/ Submit(f) \/ Deliver(f) \/ Return(f)
  \/ Encode

ServiceSpec == Init /\ [][ServiceNext]_serviceVars
=============================================================================
