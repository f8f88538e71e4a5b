--------------------------- MODULE ParamProcessor ---------------------------
(***************************************************************************)
(* The thread that brings the controls of a V4L2 device to the values a    *)
(* client asked for: it compares the list asked for with the list applied  *)
(* last, sets what differs, and takes the new list over when every control *)
(* of it was set.  A list of controls is a function from the controls in   *)
(* it to their values.                                                     *)
(***************************************************************************)
EXTENDS Integers, FiniteSets

CONSTANTS
  Controls,         \* the controls of the device
  Lowest, Highest,  \* their range
  Wanted,           \* the values a client asks for
  MaxTargets,       \* bound: lists asked for
  MaxFailures       \* bound: calls the driver refuses

VARIABLES
  running_, pendingControls_, currentControls_,
  thread,           \* where the loop is
  temp, changed, all_success,
  device,           \* the values in the device
  asked, refused,   \* counters of the bounds
  strayed           \* controls set in a round that failed, and not set since

clientVars == <<pendingControls_, asked>>
roundVars == <<temp, changed, all_success>>
paramVars == <<running_, clientVars, currentControls_, thread, roundVars, device, refused, strayed>>

NoControls == [c \in {} |-> 0]

Lists == UNION {[S -> Wanted] : S \in SUBSET Controls}

Init ==
  /\ running_ = FALSE /\ thread = "none"
  /\ pendingControls_ = NoControls /\ currentControls_ = NoControls
  /\ temp = NoControls /\ changed = {} /\ all_success = TRUE
  /\ device \in [Controls -> {Lowest, Highest}]
  /\ asked = 0 /\ refused = 0 /\ strayed = {}

Clamp(v) == IF v < Lowest THEN Lowest ELSE IF v > Highest THEN Highest ELSE v

(***************************************************************************)
(* The client                                                              *)
(***************************************************************************)
\* A second call without stop() would assign to a joinable thread.
Start ==
  /\ thread = "none"
  /\ running_' = TRUE /\ thread' = "top"
  /\ UNCHANGED <<clientVars, currentControls_, roundVars, device, refused, strayed>>

StopFlag ==
  /\ running_ /\ running_' = FALSE
  /\ UNCHANGED <<clientVars, currentControls_, thread, roundVars, device, refused, strayed>>

StopJoin ==
  /\ thread = "ended" /\ thread' = "none"
  /\ UNCHANGED <<running_, clientVars, currentControls_, roundVars, device, refused, strayed>>

SetTargetControls ==
  /\ asked < MaxTargets /\ asked' = asked + 1
  /\ pendingControls_' \in Lists
  /\ UNCHANGED <<running_, currentControls_, thread, roundVars, device, refused, strayed>>

(***************************************************************************)
(* The loop                                                                *)
(***************************************************************************)
\* The controls of the device with their values; one that cannot be read has
\* the initial value of the structure.
QueryAll ==
  {[c \in Controls |-> IF c \in unread THEN 0 ELSE device[c]] :
     unread \in {U \in SUBSET Controls : refused + Cardinality(U) <= MaxFailures}}

Unread(list) == Cardinality({c \in Controls : list[c] # device[c]})

Diff(old, new) ==
  {c \in DOMAIN new : c \notin DOMAIN old \/ old[c] # new[c]}

\* One pass under the mutex: the list is compared, and copied if it differs.
Compare(list) ==
  /\ pendingControls_' = list
  /\ IF list = currentControls_ THEN UNCHANGED <<thread, roundVars>>
     ELSE /\ temp' = list /\ changed' = Diff(currentControls_, list)
          /\ all_success' = TRUE /\ thread' = "apply"

LoopTop ==
  /\ thread = "top" /\ running_
  /\ IF pendingControls_ = NoControls /\ currentControls_ = NoControls
     THEN \E list \in QueryAll : Compare(list) /\ refused' = refused + Unread(list)
     ELSE Compare(pendingControls_) /\ UNCHANGED refused
  /\ UNCHANGED <<running_, asked, currentControls_, device, strayed>>

LoopEnds ==
  /\ thread = "top" /\ ~running_ /\ thread' = "ended"
  /\ UNCHANGED <<running_, clientVars, currentControls_, roundVars, device, refused, strayed>>

Apply(c) ==
  /\ thread = "apply" /\ c \in changed
  /\ device' = [device EXCEPT ![c] = Clamp(temp[c])]
  /\ changed' = changed \ {c} /\ strayed' = strayed \cup {c}
  /\ UNCHANGED <<running_, clientVars, currentControls_, thread, temp, all_success, refused>>

\* Three attempts failed.
ApplyFails(c) ==
  /\ thread = "apply" /\ c \in changed /\ refused < MaxFailures
  /\ refused' = refused + 1 /\ all_success' = FALSE
  /\ changed' = changed \ {c}
  /\ UNCHANGED <<running_, clientVars, currentControls_, thread, temp, device, strayed>>

(* Mutant of Update: the list asked for by now is taken over.               *)
UpdatePending ==
  /\ thread = "apply" /\ changed = {} /\ thread' = "top"
  /\ IF all_success THEN currentControls_' = pendingControls_ /\ strayed' = {}
     ELSE UNCHANGED <<currentControls_, strayed>>
  /\ UNCHANGED <<running_, clientVars, roundVars, device, refused>>

Update ==
  /\ thread = "apply" /\ changed = {} /\ thread' = "top"
  /\ IF all_success
     THEN currentControls_' = temp /\ strayed' = strayed \ Diff(currentControls_, temp)
     ELSE UNCHANGED <<currentControls_, strayed>>
  /\ UNCHANGED <<running_, clientVars, roundVars, device, refused>>

Next ==
  \/ Start \/ StopFlag \/ StopJoin \/ SetTargetControls
  \/ LoopTop \/ LoopEnds \/ Update
  \/ \E c \in Controls : Apply(c) \/ ApplyFails(c)

Spec == Init /\ [][Next]_paramVars

\* Whenever the loop has nothing to do, the device has the values of the list,
\* cut to their range, whatever was asked for while a round was under way and
\* whichever calls failed; only a control that was set in a round that failed
\* may differ (the list before it is still the current one, so that a return
\* to it sets nothing).
DeviceFollows ==
  thread \in {"top", "ended", "none"} =>
    \A c \in DOMAIN currentControls_ \ strayed : device[c] = Clamp(currentControls_[c])
=============================================================================
