---------------------------- MODULE ThreadPauser ----------------------------
(***************************************************************************)
(* The pause switch, with one thread that waits on it: a flag, and an      *)
(* eventfd in semaphore mode that carries one token for every resume()     *)
(* that found the flag set.  A token nobody read stays there, and the next *)
(* wait looks at the flag once more.                                       *)
(***************************************************************************)
EXTENDS Integers

CONSTANT MaxTokens      \* bound: tokens nobody has read, in the guard of Pause

VARIABLES
  paused_, closed_,
  tokens,       \* the value of the eventfd
  resuming,     \* resume() or close() has cleared the flag and not yet written
  waiter        \* the waiting thread: "out", "test", "read", or in "poll"

pauserVars == <<paused_, closed_, tokens, resuming, waiter>>

PauserTypeOK ==
  /\ {paused_, closed_, resuming} \subseteq BOOLEAN /\ tokens \in 0..MaxTokens
  /\ waiter \in {"out", "test", "read", "poll"}

PauserInit ==
  /\ paused_ = FALSE /\ closed_ = FALSE /\ resuming = FALSE
  /\ tokens = 0 /\ waiter = "out"

\* Every public call but close() throws once the pauser was closed.
EnsureNotClosed == ~closed_

Pause ==
  /\ EnsureNotClosed /\ tokens + (IF resuming THEN 1 ELSE 0) < MaxTokens
  /\ paused_' = TRUE
  /\ UNCHANGED <<closed_, tokens, resuming, waiter>>

\* resume(): the exchange ...
Resume ==
  /\ EnsureNotClosed /\ ~resuming
  /\ paused_' = FALSE /\ resuming' = paused_
  /\ UNCHANGED <<closed_, tokens, waiter>>

\* ... and the token, if there was a pause.
WriteToken ==
  /\ resuming
  /\ resuming' = FALSE /\ tokens' = tokens + 1
  /\ UNCHANGED <<paused_, closed_, waiter>>

Toggle == IF paused_ THEN Resume ELSE ~resuming /\ Pause

\* close() also frees a waiting thread; its descriptor is gone afterwards.
Close ==
  /\ ~closed_ /\ ~resuming
  /\ closed_' = TRUE /\ paused_' = FALSE /\ resuming' = paused_
  /\ UNCHANGED <<tokens, waiter>>

WaitCall ==
  /\ EnsureNotClosed /\ waiter = "out" /\ waiter' = "test"
  /\ UNCHANGED <<paused_, closed_, tokens, resuming>>

WaitTest ==
  /\ waiter = "test"
  /\ waiter' = IF closed_ \/ ~paused_ THEN "out" ELSE "read"
  /\ UNCHANGED <<paused_, closed_, tokens, resuming>>

\* Reading blocks until there is a token; the flag is then looked at again.
WaitRead ==
  /\ waiter = "read" /\ tokens > 0
  /\ tokens' = tokens - 1 /\ waiter' = "test"
  /\ UNCHANGED <<paused_, closed_, resuming>>

WaitForCall ==
  /\ EnsureNotClosed /\ waiter = "out"
  /\ waiter' = IF closed_ \/ ~paused_ THEN "out" ELSE "poll"
  /\ UNCHANGED <<paused_, closed_, tokens, resuming>>

\* wait_if_paused_for comes back with a token, or without one when the time
\* is over; in either case it does not wait again.
WaitForReturn ==
  /\ waiter = "poll" /\ waiter' = "out"
  /\ \/ tokens > 0 /\ tokens' = tokens - 1
     \/ UNCHANGED tokens
  /\ UNCHANGED <<paused_, closed_, resuming>>

PauserNext ==
  \/ Pause \/ Resume \/ WriteToken \/ Toggle \/ Close
  \/ WaitCall \/ WaitTest \/ WaitRead \/ WaitForCall \/ WaitForReturn

PauserSpec == PauserInit /\ [][PauserNext]_pauserVars

\* resume() cannot be lost, whatever tokens earlier rounds left: a thread that
\* sits in the read of the eventfd is still meant to be paused, or has a token
\* to read, or one is about to be written.
SleeperIsMeant == waiter = "read" => paused_ \/ resuming \/ tokens > 0
=============================================================================
