---------------------------- MODULE JpegEncoder ----------------------------
(***************************************************************************)
(* Snapshots: src/src/utils/mpp/jpegEncoder.cpp.  A capture imports a      *)
(* dma-buf, hands a frame to the encoder of EncoderContext, polls for a    *)
(* packet and writes it to a file.  The encoder works on its own and gives *)
(* the packets back in the order of the frames.                            *)
(*                                                                         *)
(* Captures and resets come one after the other, as the class has no lock. *)
(* The frame of a capture is its number.                                   *)
(***************************************************************************)
EXTENDS EncoderContext

CONSTANTS
  MaxCaptures,     (* bound on the calls of captureFromDmabuf()              *)
  Failures         (* what may fail: see AllFailures                         *)

AllFailures ==
  {"directory",    \* mkdir of save_dir
   "import",       \* mpp_buffer_import
   "frame",        \* mpp_frame_init
   "put",          \* encode_put_frame
   "get",          \* encode_get_packet, other than by a timeout
   "late",         \* the encoder needs longer than the polls last
   "file"}         \* fopen, fwrite, fflush, fclose

ASSUME JpegEncoderAssumption ==
  /\ MaxCaptures \in Nat /\ Failures \subseteq AllFailures
  /\ \A c \in Configs : c.retries \in Nat /\ c.timeout \in Nat

\* What toMppConfig() makes.
Jpegs == {c \in Configs : c.codec = "mjpeg"}

VARIABLES
  initialized_, config_,       \* initialized_, config_
  at,                          \* the call in progress: "none", "poll" or "write"
  capture, polls,              \* number of the capture, turns of the loop of encodeToFile
  imported, put,               \* mpp_buffer_import and mpp_buffer_put, counted
  encoding, ready, packet,     \* frames in the encoder, packets it has, the one in hand
  saved,                       \* the captures that returned true: [capture, frame, written]
  abandoned, frameless         \* whether a capture has left its frame in the encoder, had none

jpegVars == <<initialized_, config_, at, capture, polls, imported, put, encoding, ready, packet,
  saved, abandoned, frameless>>
vars == <<contextVars, jpegVars>>

Init ==
  /\ ContextInit
  /\ initialized_ = FALSE /\ config_ = NoConfig /\ at = "none"
  /\ capture = 0 /\ polls = 0 /\ imported = 0 /\ put = 0
  /\ encoding = <<>> /\ ready = <<>> /\ packet = 0 /\ saved = <<>> /\ abandoned = FALSE /\ frameless = FALSE

Captures == <<at, capture, polls, imported, put, encoding, ready, packet, saved, abandoned,
  frameless>>

\* The constructor asks for the handles only, not for the success of
\* applyConfig(); it throws when the directory cannot be made.
Create ==
  /\ \E c \in Jpegs : Construct(c) /\ config_' = c
  /\ initialized_' \in {mCtx' = "made", "directory" \notin Failures /\ mCtx' = "made"}
  /\ UNCHANGED Captures

\* resetConfig: the directory is made first, and config_ is kept whatever comes of it.
Reset ==
  /\ at = "none" /\ initialized_ /\ resets < MaxResets /\ resets' = resets + 1
  /\ \E c \in Jpegs :
       /\ config_' = c
       /\ \/ "directory" \in Failures /\ UNCHANGED <<mCtx, mCurCfg, mCfg, encoder, applied>>
          \/ ResetConfig(c)
  /\ UNCHANGED <<initialized_, Captures>>

Returns == at' = "none" /\ polls' = 0

\* Mutant: put by hand beside the guard.
PutBufferTwice == put' = put + 2

\* The buffer's guard at the end of a capture.
PutBuffer == put' = put + 1

\* captureFromDmabuf, up to encode_put_frame.
CaptureBegin ==
  /\ at = "none" /\ initialized_ /\ capture < MaxCaptures
  /\ capture' = capture + 1
  /\ imported' = imported + 1 /\ put' = put /\ at' = "poll" /\ polls' = 0
  /\ encoding' = Append(encoding, capture')
  /\ UNCHANGED <<contextVars, initialized_, config_, ready, packet, saved, abandoned,
       frameless>>

\* The same when one of its calls fails; mpp_buffer_put comes by hand and
\* from the guard when there is no frame.
CaptureFails ==
  /\ at = "none" /\ initialized_ /\ capture < MaxCaptures
  /\ capture' = capture + 1
  /\ \/ "import" \in Failures /\ UNCHANGED <<imported, put, frameless>>
     \/ "frame" \in Failures /\ imported' = imported + 1 /\ put' = put + 2 /\ frameless' = TRUE
     \/ "put" \in Failures /\ imported' = imported + 1 /\ put' = put + 1 /\ UNCHANGED frameless
  /\ UNCHANGED <<contextVars, initialized_, config_, at, polls, encoding, ready, packet, saved,
       abandoned>>

\* The encoder finishes a frame.
Encode ==
  /\ encoding # <<>>
  /\ ready' = Append(ready, Head(encoding)) /\ encoding' = Tail(encoding)
  /\ UNCHANGED <<contextVars, initialized_, config_, at, capture, polls, imported, put, packet,
       saved, abandoned, frameless>>

\* maxRetry of encodeToFile; a timeout is given in polling intervals.
MaxRetry == LET waits == IF config_.timeout > 1 THEN config_.timeout ELSE 1
            IN IF config_.retries > waits THEN config_.retries ELSE waits

\* encode_get_packet has one.
GetPacket ==
  /\ at = "poll" /\ polls < MaxRetry /\ ready # <<>>
  /\ packet' = Head(ready) /\ ready' = Tail(ready)
  /\ at' = "write"
  /\ UNCHANGED <<contextVars, initialized_, config_, capture, polls, imported, put, encoding,
       saved, abandoned, frameless>>

\* It has none yet: the loop sleeps and asks again.  Without "late" the last turn has one.
PollAgain ==
  /\ at = "poll" /\ polls < MaxRetry /\ ready = <<>>
  /\ polls + 1 < MaxRetry \/ "late" \in Failures
  /\ polls' = polls + 1
  /\ UNCHANGED <<contextVars, initialized_, config_, at, capture, imported, put, encoding, ready,
       packet, saved, abandoned, frameless>>

\* The loop ends without a packet: the frame stays in the encoder.
Abandon ==
  /\ Returns /\ PutBuffer /\ abandoned' = TRUE
  /\ UNCHANGED <<contextVars, initialized_, config_, capture, imported, encoding, ready, packet,
       saved, frameless>>

GiveUp == at = "poll" /\ polls = MaxRetry /\ Abandon
GetError == at = "poll" /\ polls < MaxRetry /\ "get" \in Failures /\ Abandon

\* Mutant: only the count of fwrite() is looked at.
WholeUnflushed(written, flushed, closed) == written

\* What the three results say of the file: fwrite, fflush and fclose.
Whole(written, flushed, closed) == written /\ flushed /\ closed

\* The file is written; a part of it may be missing on the disk.
WriteFile ==
  /\ at = "write"
  /\ \E written, flushed, closed \in IF "file" \in Failures THEN BOOLEAN ELSE {TRUE} :
       IF Whole(written, flushed, closed)
       THEN saved' = Append(saved, [capture |-> capture, frame |-> packet,
                                    written |-> written /\ flushed /\ closed])
       ELSE saved' = saved
  /\ packet' = 0 /\ Returns /\ PutBuffer
  /\ UNCHANGED <<contextVars, initialized_, config_, capture, imported, encoding, ready, abandoned,
       frameless>>

Call ==
  \/ Reset \/ CaptureBegin \/ CaptureFails
  \/ GetPacket \/ PollAgain \/ GiveUp \/ GetError \/ WriteFile

Next == Create \/ Encode \/ Call

Spec == Init /\ [][Next]_vars

-----------------------------------------------------------------------------
\* A capture that returns true has saved the picture it was called for.
SavedIsAsked == \A k \in DOMAIN saved : saved[k].frame = saved[k].capture

\* The same as long as no capture has left its frame behind; and after that
\* still the files follow the order of the captures, no frame is in two of them,
\* none in a file of an earlier capture, and every such file is complete.
SavedInOrder ==
  /\ ~abandoned => SavedIsAsked
  /\ \A k \in DOMAIN saved : saved[k].frame <= saved[k].capture /\ saved[k].written
  /\ \A j, k \in DOMAIN saved : j < k => saved[j].frame < saved[k].frame

\* Every imported buffer is given back once, on every way out of a capture but
\* one: a failing mpp_frame_init gives it back twice.
BuffersGoBack ==
  ~frameless => put <= imported /\ (at = "none" => put = imported)

=============================================================================
