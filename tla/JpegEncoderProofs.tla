------------------------- MODULE JpegEncoderProofs -------------------------
(***************************************************************************)
(* What holds of JpegEncoder for any configurations, any bounds and any    *)
(* set of failures.                                                        *)
(***************************************************************************)
EXTENDS JpegEncoder, TLAPS

Rising(s) == \A i, j \in DOMAIN s : i < j => s[i] < s[j]

Saving == [capture : Nat, frame : Nat, written : BOOLEAN]

JpegTypeOK ==
  /\ at \in {"none", "poll", "write"}
  /\ capture \in Nat /\ imported \in Nat /\ put \in Nat /\ packet \in Nat
  /\ encoding \in Seq(Nat) /\ ready \in Seq(Nat) /\ saved \in Seq(Saving)
  /\ abandoned \in BOOLEAN /\ frameless \in BOOLEAN

\* The frames are on their way in one order: files, the packet in hand, the
\* packets that are ready, the frames in the encoder, the next capture.
InTurn ==
  /\ Rising(ready) /\ Rising(encoding)
  /\ \A i \in DOMAIN ready, j \in DOMAIN encoding : ready[i] < encoding[j]
  /\ \A i \in DOMAIN ready : ready[i] <= capture
  /\ \A i \in DOMAIN encoding : encoding[i] <= capture
  /\ \A k \in DOMAIN saved, i \in DOMAIN ready : saved[k].frame < ready[i]
  /\ \A k \in DOMAIN saved, i \in DOMAIN encoding : saved[k].frame < encoding[i]
  /\ at = "write" =>
       /\ packet <= capture
       /\ \A i \in DOMAIN ready : packet < ready[i]
       /\ \A i \in DOMAIN encoding : packet < encoding[i]
       /\ \A k \in DOMAIN saved : saved[k].frame < packet

Files ==
  /\ \A k \in DOMAIN saved :
       /\ saved[k].frame <= saved[k].capture
       /\ saved[k].frame <= capture
       /\ saved[k].written
  /\ \A j, k \in DOMAIN saved : j < k => saved[j].frame < saved[k].frame

\* While every capture has had its packet, nothing but the frame of the
\* capture in progress is on its way.
OwnOnly ==
  ~abandoned =>
    /\ SavedIsAsked
    /\ at = "none" => ready = <<>> /\ encoding = <<>>
    /\ at = "poll" =>
         \/ ready = <<capture>> /\ encoding = <<>>
         \/ ready = <<>> /\ encoding = <<capture>>
    /\ at = "write" => ready = <<>> /\ encoding = <<>> /\ packet = capture

Buffers == ~frameless => imported = IF at = "none" THEN put ELSE put + 1

JpegInv == JpegTypeOK /\ InTurn /\ Files /\ OwnOnly /\ Buffers

\* What the invariant speaks of.
Progress == <<at, capture, imported, put, encoding, ready, packet, saved, abandoned, frameless>>

-----------------------------------------------------------------------------
\* What Append leaves and adds.
LEMMA AppendKeeps ==
  ASSUME NEW S, NEW s \in Seq(S), NEW e \in S
  PROVE  /\ Append(s, e) \in Seq(S)
         /\ \A k \in DOMAIN Append(s, e) : (k \in DOMAIN s /\ Append(s, e)[k] = s[k]) \/ Append(s, e)[k] = e
         /\ \A j, k \in DOMAIN Append(s, e) : j < k => j \in DOMAIN s /\ Append(s, e)[j] = s[j]
<1>1. /\ Append(s, e) \in Seq(S) /\ Len(s) \in Nat
      /\ DOMAIN s = 1 .. Len(s) /\ DOMAIN Append(s, e) = 1 .. Len(s) + 1
      /\ \A i \in 1 .. Len(s) : Append(s, e)[i] = s[i]
      /\ Append(s, e)[Len(s) + 1] = e
  OBVIOUS
<1>2. \A k \in DOMAIN Append(s, e) : k \in DOMAIN s \/ k = Len(s) + 1
  BY <1>1
<1>3. \A j, k \in DOMAIN Append(s, e) : j < k => j \in DOMAIN s
  BY <1>1
<1> QED
  BY <1>1, <1>2, <1>3

\* A number beyond the last keeps a sequence rising.
LEMMA AppendRises ==
  ASSUME NEW s \in Seq(Nat), NEW n \in Nat, Rising(s), \A i \in DOMAIN s : s[i] < n
  PROVE  /\ Append(s, n) \in Seq(Nat) /\ Rising(Append(s, n))
         /\ \A i \in DOMAIN Append(s, n) : (i \in DOMAIN s /\ Append(s, n)[i] = s[i]) \/ Append(s, n)[i] = n
<1>1. /\ Append(s, n) \in Seq(Nat) /\ Len(s) \in Nat
      /\ DOMAIN s = 1 .. Len(s) /\ DOMAIN Append(s, n) = 1 .. Len(s) + 1
      /\ \A i \in 1 .. Len(s) : Append(s, n)[i] = s[i]
      /\ Append(s, n)[Len(s) + 1] = n
  OBVIOUS
<1>2. \A i \in DOMAIN Append(s, n) : i \in DOMAIN s \/ i = Len(s) + 1
  BY <1>1
<1>3. Rising(Append(s, n))
  <2> SUFFICES ASSUME NEW i \in DOMAIN Append(s, n), NEW j \in DOMAIN Append(s, n), i < j
               PROVE  Append(s, n)[i] < Append(s, n)[j]
    BY DEF Rising
  <2>1. i \in DOMAIN s
    BY <1>1
  <2>2. CASE j \in DOMAIN s
    BY <1>1, <2>1, <2>2 DEF Rising
  <2>3. CASE j = Len(s) + 1
    BY <1>1, <2>1, <2>3
  <2> QED
    BY <1>2, <2>2, <2>3
<1> QED
  BY <1>1, <1>2, <1>3

\* The head of a rising sequence lies below the rest, which rises.
LEMMA TailRises ==
  ASSUME NEW s \in Seq(Nat), s # <<>>, Rising(s)
  PROVE  /\ Tail(s) \in Seq(Nat) /\ Head(s) \in Nat /\ Rising(Tail(s))
         /\ 1 \in DOMAIN s /\ Head(s) = s[1]
         /\ \A i \in DOMAIN Tail(s) : i + 1 \in DOMAIN s /\ Tail(s)[i] = s[i + 1] /\ Head(s) < Tail(s)[i]
<1>1. /\ Len(s) \in Nat /\ Len(s) > 0 /\ Tail(s) \in Seq(Nat) /\ Head(s) = s[1] /\ s[1] \in Nat
      /\ DOMAIN s = 1 .. Len(s) /\ DOMAIN Tail(s) = 1 .. Len(s) - 1
      /\ \A i \in 1 .. Len(s) - 1 : Tail(s)[i] = s[i + 1]
  OBVIOUS
<1>2. \A i \in DOMAIN Tail(s) : i + 1 \in DOMAIN s /\ 1 < i + 1
  BY <1>1
<1>3. 1 \in DOMAIN s
  BY <1>1
<1>4. \A i \in DOMAIN Tail(s) : Tail(s)[i] = s[i + 1] /\ Head(s) < Tail(s)[i]
  BY <1>1, <1>2, <1>3 DEF Rising
<1>5. Rising(Tail(s))
  BY <1>1, <1>2, <1>4 DEF Rising
<1> QED
  BY <1>1, <1>2, <1>3, <1>4, <1>5

\* A file's picture is a number.
LEMMA SavedFrames ==
  ASSUME saved \in Seq(Saving)
  PROVE  \A k \in DOMAIN saved : saved[k].frame \in Nat /\ saved[k].capture \in Nat
<1>1. \A k \in DOMAIN saved : saved[k] \in Saving
  OBVIOUS
<1> QED
  BY <1>1 DEF Saving

-----------------------------------------------------------------------------
\* The initial states.
LEMMA JpegInvInit == Init => JpegInv
<1> SUFFICES ASSUME Init PROVE JpegInv
  OBVIOUS
<1>1. /\ at = "none" /\ capture = 0 /\ imported = 0 /\ put = 0 /\ packet = 0
      /\ encoding = <<>> /\ ready = <<>> /\ saved = <<>> /\ abandoned = FALSE /\ frameless = FALSE
  BY DEF Init
<1>2. JpegTypeOK
  <2>1. <<>> \in Seq(Nat) /\ <<>> \in Seq(Saving)
    OBVIOUS
  <2>2. 0 \in Nat
    OBVIOUS
  <2> QED
    BY <1>1, <2>1, <2>2, Zenon DEF JpegTypeOK
<1>3. InTurn /\ Files
  BY <1>1 DEF InTurn, Files, Rising
<1>4. OwnOnly /\ Buffers
  BY <1>1 DEF OwnOnly, Buffers, SavedIsAsked
<1> QED
  BY <1>2, <1>3, <1>4 DEF JpegInv

\* A step that touches none of it.
LEMMA JpegInvProgress ==
  ASSUME JpegInv, UNCHANGED Progress
  PROVE  JpegInv'
<1>1. JpegTypeOK' /\ InTurn'
  BY DEF JpegInv, Progress, JpegTypeOK, InTurn, Rising
<1>2. Files' /\ OwnOnly' /\ Buffers'
  BY DEF JpegInv, Progress, Files, OwnOnly, Buffers, SavedIsAsked
<1> QED
  BY <1>1, <1>2 DEF JpegInv

\* A capture begins: its frame comes after all others.
LEMMA JpegInvBegin ==
  ASSUME JpegInv, CaptureBegin
  PROVE  JpegInv'
<1> DEFINE n == capture + 1
<1>1. /\ at = "none" /\ at' = "poll" /\ capture' = n
      /\ imported' = imported + 1 /\ encoding' = Append(encoding, n)
      /\ UNCHANGED <<put, ready, packet, saved, abandoned, frameless>>
  BY DEF CaptureBegin
<1>2. /\ capture \in Nat /\ n \in Nat /\ capture < n
      /\ encoding \in Seq(Nat) /\ ready \in Seq(Nat) /\ saved \in Seq(Saving)
  BY DEF JpegInv, JpegTypeOK
<1>3. \A i \in DOMAIN encoding : encoding[i] \in Nat /\ encoding[i] < n
  BY <1>2 DEF JpegInv, InTurn
<1>4. \A i \in DOMAIN ready : ready[i] \in Nat /\ ready[i] < n
  BY <1>2 DEF JpegInv, InTurn
<1>5. \A k \in DOMAIN saved : saved[k].frame \in Nat /\ saved[k].frame < n
  <2>1. \A k \in DOMAIN saved : saved[k].frame \in Nat /\ saved[k].frame <= capture
    BY SavedFrames DEF JpegInv, JpegTypeOK, Files
  <2> QED
    BY <1>2, <2>1
<1>6. /\ encoding' \in Seq(Nat) /\ Rising(encoding')
      /\ \A i \in DOMAIN encoding' : (i \in DOMAIN encoding /\ encoding'[i] = encoding[i]) \/ encoding'[i] = n
  <2>1. Rising(encoding)
    BY DEF JpegInv, InTurn
  <2> QED
    BY <1>1, <1>2, <1>3, <2>1, AppendRises
<1>7. JpegTypeOK'
  <2>1. imported' \in Nat /\ capture' \in Nat
    BY <1>1, <1>2 DEF JpegInv, JpegTypeOK
  <2> QED
    BY <1>1, <1>6, <2>1 DEF JpegInv, JpegTypeOK
<1>8. InTurn'
  <2>1. Rising(ready)' /\ Rising(encoding)'
    BY <1>1, <1>6 DEF JpegInv, InTurn, Rising
  <2>2. \A i \in DOMAIN ready', j \in DOMAIN encoding' : ready'[i] < encoding'[j]
    BY <1>1, <1>4, <1>6 DEF JpegInv, InTurn
  <2>3. (\A i \in DOMAIN ready' : ready'[i] <= capture') /\ (\A i \in DOMAIN encoding' : encoding'[i] <= capture')
    BY <1>1, <1>2, <1>3, <1>4, <1>6
  <2>4. \A k \in DOMAIN saved', i \in DOMAIN encoding' : saved'[k].frame < encoding'[i]
    BY <1>1, <1>5, <1>6 DEF JpegInv, InTurn
  <2> QED
    BY <1>1, <2>1, <2>2, <2>3, <2>4 DEF JpegInv, InTurn
<1>9. Files'
  BY <1>1, <1>2, <1>5 DEF JpegInv, Files
<1>10. OwnOnly'
  <2>1. ASSUME ~abandoned PROVE SavedIsAsked /\ ready = <<>> /\ encoding = <<>>
    BY <1>1, <2>1 DEF JpegInv, OwnOnly
  <2>2. ASSUME ~abandoned PROVE encoding' = <<n>>
    BY <1>1, <2>1, <2>2
  <2>3. SavedIsAsked => SavedIsAsked'
    BY <1>1 DEF SavedIsAsked
  <2> QED
    BY <1>1, <2>1, <2>2, <2>3 DEF OwnOnly
<1>11. Buffers'
  BY <1>1 DEF JpegInv, JpegTypeOK, Buffers
<1> QED
  BY <1>7, <1>8, <1>9, <1>10, <1>11 DEF JpegInv

\* A capture that fails before its frame is in the encoder.
LEMMA JpegInvFails ==
  ASSUME JpegInv, CaptureFails
  PROVE  JpegInv'
<1>1. at = "none" /\ capture' = capture + 1 /\ UNCHANGED <<at, encoding, ready, packet, saved, abandoned>>
  BY DEF CaptureFails
<1>2. \/ UNCHANGED <<imported, put, frameless>>
      \/ imported' = imported + 1 /\ put' = put + 2 /\ frameless' = TRUE
      \/ imported' = imported + 1 /\ put' = put + 1 /\ frameless' = frameless
  BY DEF CaptureFails
<1>3. /\ capture \in Nat /\ imported \in Nat /\ put \in Nat
      /\ encoding \in Seq(Nat) /\ ready \in Seq(Nat) /\ saved \in Seq(Saving)
  BY DEF JpegInv, JpegTypeOK
<1>4. JpegTypeOK'
  <2>1. capture' \in Nat /\ imported' \in Nat /\ put' \in Nat
    BY <1>1, <1>2, <1>3
  <2>2. frameless' \in BOOLEAN
    BY <1>2, Zenon DEF JpegInv, JpegTypeOK
  <2> QED
    BY <1>1, <2>1, <2>2 DEF JpegInv, JpegTypeOK
<1>5. InTurn'
  <2>1. \A i \in DOMAIN ready : ready[i] \in Nat /\ ready[i] <= capture'
    BY <1>1, <1>3 DEF JpegInv, InTurn
  <2>2. \A i \in DOMAIN encoding : encoding[i] \in Nat /\ encoding[i] <= capture'
    BY <1>1, <1>3 DEF JpegInv, InTurn
  <2> QED
    BY <1>1, <2>1, <2>2 DEF JpegInv, InTurn, Rising
<1>6. Files'
  <2>1. \A k \in DOMAIN saved : saved[k].frame \in Nat /\ saved[k].frame <= capture
    BY SavedFrames DEF JpegInv, JpegTypeOK, Files
  <2>2. \A k \in DOMAIN saved : saved[k].frame <= capture'
    BY <1>1, <1>3, <2>1
  <2> QED
    BY <1>1, <2>2 DEF JpegInv, Files
<1>7. OwnOnly'
  BY <1>1 DEF JpegInv, OwnOnly, SavedIsAsked
<1>8. Buffers'
  <2>1. CASE UNCHANGED <<imported, put, frameless>>
    BY <1>1, <2>1 DEF JpegInv, Buffers
  <2>2. CASE frameless' = TRUE
    BY <2>2 DEF Buffers
  <2>3. CASE imported' = imported + 1 /\ put' = put + 1 /\ frameless' = frameless
    BY <1>1, <1>3, <2>3 DEF JpegInv, Buffers
  <2> QED
    BY <1>2, <2>1, <2>2, <2>3
<1> QED
  BY <1>4, <1>5, <1>6, <1>7, <1>8 DEF JpegInv

\* The encoder finishes its first frame, which becomes the last packet.
LEMMA JpegInvEncode ==
  ASSUME JpegInv, Encode
  PROVE  JpegInv'
<1> DEFINE h == Head(encoding)
<1>1. /\ encoding # <<>> /\ ready' = Append(ready, h) /\ encoding' = Tail(encoding)
      /\ UNCHANGED <<at, capture, imported, put, packet, saved, abandoned, frameless>>
  BY DEF Encode
<1>2. /\ capture \in Nat /\ encoding \in Seq(Nat) /\ ready \in Seq(Nat) /\ saved \in Seq(Saving)
      /\ Rising(encoding) /\ Rising(ready)
  BY DEF JpegInv, JpegTypeOK, InTurn
<1>3. /\ encoding' \in Seq(Nat) /\ h \in Nat /\ Rising(encoding')
      /\ 1 \in DOMAIN encoding /\ h = encoding[1]
      /\ \A i \in DOMAIN encoding' :
           i + 1 \in DOMAIN encoding /\ encoding'[i] = encoding[i + 1] /\ h < encoding'[i]
  BY <1>1, <1>2, TailRises
<1>4. \A i \in DOMAIN ready : ready[i] \in Nat /\ ready[i] < h
  BY <1>2, <1>3 DEF JpegInv, InTurn
<1>5. /\ ready' \in Seq(Nat) /\ Rising(ready')
      /\ \A i \in DOMAIN ready' : (i \in DOMAIN ready /\ ready'[i] = ready[i]) \/ ready'[i] = h
  BY <1>1, <1>2, <1>3, <1>4, AppendRises
<1>6. JpegTypeOK'
  BY <1>1, <1>3, <1>5 DEF JpegInv, JpegTypeOK
<1>7. InTurn'
  <2>1. Rising(ready)' /\ Rising(encoding)'
    BY <1>3, <1>5 DEF Rising
  <2>2. \A i \in DOMAIN ready', j \in DOMAIN encoding' : ready'[i] < encoding'[j]
    BY <1>3, <1>5 DEF JpegInv, InTurn
  <2>3. /\ \A i \in DOMAIN ready' : ready'[i] <= capture'
        /\ \A i \in DOMAIN encoding' : encoding'[i] <= capture'
    BY <1>1, <1>3, <1>5 DEF JpegInv, InTurn
  <2>4. /\ \A k \in DOMAIN saved', i \in DOMAIN ready' : saved'[k].frame < ready'[i]
        /\ \A k \in DOMAIN saved', i \in DOMAIN encoding' : saved'[k].frame < encoding'[i]
    BY <1>1, <1>3, <1>5 DEF JpegInv, InTurn
  <2>5. at' = "write" =>
          /\ packet' <= capture'
          /\ \A i \in DOMAIN ready' : packet' < ready'[i]
          /\ \A i \in DOMAIN encoding' : packet' < encoding'[i]
          /\ \A k \in DOMAIN saved' : saved'[k].frame < packet'
    BY <1>1, <1>3, <1>5 DEF JpegInv, InTurn
  <2> QED
    BY <2>1, <2>2, <2>3, <2>4, <2>5 DEF InTurn
<1>8. Files'
  BY <1>1 DEF JpegInv, Files
<1>9. OwnOnly'
  <2> SUFFICES ASSUME ~abandoned PROVE OwnOnly'
    BY <1>1 DEF OwnOnly
  <2>1. at = "poll" /\ ready = <<>> /\ encoding = <<capture>>
    BY <1>1 DEF JpegInv, JpegTypeOK, OwnOnly
  <2>2. ready' = <<capture>> /\ encoding' = <<>>
    BY <1>1, <1>2, <2>1
  <2>3. SavedIsAsked'
    BY <1>1 DEF JpegInv, OwnOnly, SavedIsAsked
  <2> QED
    BY <1>1, <2>1, <2>2, <2>3 DEF OwnOnly
<1>10. Buffers'
  BY <1>1 DEF JpegInv, Buffers
<1> QED
  BY <1>6, <1>7, <1>8, <1>9, <1>10 DEF JpegInv

\* The capture takes the first packet.
LEMMA JpegInvPacket ==
  ASSUME JpegInv, GetPacket
  PROVE  JpegInv'
<1> DEFINE h == Head(ready)
<1>1. /\ at = "poll" /\ ready # <<>> /\ packet' = h /\ ready' = Tail(ready) /\ at' = "write"
      /\ UNCHANGED <<capture, imported, put, encoding, saved, abandoned, frameless>>
  BY DEF GetPacket
<1>2. /\ capture \in Nat /\ encoding \in Seq(Nat) /\ ready \in Seq(Nat) /\ saved \in Seq(Saving)
      /\ Rising(encoding) /\ Rising(ready)
  BY DEF JpegInv, JpegTypeOK, InTurn
<1>3. /\ ready' \in Seq(Nat) /\ h \in Nat /\ Rising(ready')
      /\ 1 \in DOMAIN ready /\ h = ready[1]
      /\ \A i \in DOMAIN ready' : i + 1 \in DOMAIN ready /\ ready'[i] = ready[i + 1] /\ h < ready'[i]
  BY <1>1, <1>2, TailRises
<1>4. JpegTypeOK'
  BY <1>1, <1>3 DEF JpegInv, JpegTypeOK
<1>5. InTurn'
  <2>1. Rising(ready)' /\ Rising(encoding)'
    BY <1>1, <1>2, <1>3 DEF Rising
  <2>2. \A i \in DOMAIN ready', j \in DOMAIN encoding' : ready'[i] < encoding'[j]
    BY <1>1, <1>3 DEF JpegInv, InTurn
  <2>3. /\ \A i \in DOMAIN ready' : ready'[i] <= capture'
        /\ \A i \in DOMAIN encoding' : encoding'[i] <= capture'
    BY <1>1, <1>3 DEF JpegInv, InTurn
  <2>4. /\ \A k \in DOMAIN saved', i \in DOMAIN ready' : saved'[k].frame < ready'[i]
        /\ \A k \in DOMAIN saved', i \in DOMAIN encoding' : saved'[k].frame < encoding'[i]
    BY <1>1, <1>3 DEF JpegInv, InTurn
  <2>5. /\ packet' <= capture'
        /\ \A i \in DOMAIN ready' : packet' < ready'[i]
        /\ \A i \in DOMAIN encoding' : packet' < encoding'[i]
        /\ \A k \in DOMAIN saved' : saved'[k].frame < packet'
    BY <1>1, <1>3 DEF JpegInv, InTurn
  <2> QED
    BY <2>1, <2>2, <2>3, <2>4, <2>5 DEF InTurn
<1>6. Files'
  BY <1>1 DEF JpegInv, Files
<1>7. OwnOnly'
  <2> SUFFICES ASSUME ~abandoned PROVE OwnOnly'
    BY <1>1 DEF OwnOnly
  <2>1. ready = <<capture>> /\ encoding = <<>>
    BY <1>1 DEF JpegInv, OwnOnly
  <2>2. ready' = <<>> /\ packet' = capture
    BY <1>1, <1>2, <2>1
  <2>3. SavedIsAsked'
    BY <1>1 DEF JpegInv, OwnOnly, SavedIsAsked
  <2> QED
    BY <1>1, <2>1, <2>2, <2>3 DEF OwnOnly
<1>8. Buffers'
  BY <1>1 DEF JpegInv, Buffers
<1> QED
  BY <1>4, <1>5, <1>6, <1>7, <1>8 DEF JpegInv

\* The capture gives up.
LEMMA JpegInvAbandon ==
  ASSUME JpegInv, at = "poll", Abandon
  PROVE  JpegInv'
<1>1. /\ at' = "none" /\ put' = put + 1 /\ abandoned' = TRUE
      /\ UNCHANGED <<capture, imported, encoding, ready, packet, saved, frameless>>
  BY DEF Abandon, Returns, PutBuffer
<1>2. put \in Nat /\ imported \in Nat
  BY DEF JpegInv, JpegTypeOK
<1>3. JpegTypeOK'
  <2>1. put' \in Nat
    BY <1>1, <1>2
  <2> QED
    BY <1>1, <2>1 DEF JpegInv, JpegTypeOK
<1>4. InTurn' /\ Files'
  BY <1>1 DEF JpegInv, InTurn, Files, Rising
<1>5. OwnOnly'
  BY <1>1 DEF OwnOnly
<1>6. Buffers'
  BY <1>1, <1>2 DEF JpegInv, Buffers
<1> QED
  BY <1>3, <1>4, <1>5, <1>6 DEF JpegInv

\* The packet in hand goes to a file, or none is kept.
LEMMA JpegInvWrite ==
  ASSUME JpegInv, WriteFile
  PROVE  JpegInv'
<1> DEFINE file == [capture |-> capture, frame |-> packet, written |-> TRUE]
<1>1. /\ at = "write" /\ at' = "none" /\ put' = put + 1 /\ packet' = 0
      /\ UNCHANGED <<capture, imported, encoding, ready, abandoned, frameless>>
  BY DEF WriteFile, Returns, PutBuffer
<1>2. saved' = saved \/ saved' = Append(saved, file)
  <2>1. PICK written, flushed, closed \in BOOLEAN :
          IF Whole(written, flushed, closed)
          THEN saved' = Append(saved, [capture |-> capture, frame |-> packet,
                                       written |-> written /\ flushed /\ closed])
          ELSE saved' = saved
    BY DEF WriteFile
  <2>2. CASE written /\ flushed /\ closed
    <3>1. (written /\ flushed /\ closed) = TRUE
      BY <2>2
    <3> QED
      BY <2>1, <2>2, <3>1 DEF Whole
  <2>3. CASE ~(written /\ flushed /\ closed)
    BY <2>1, <2>3 DEF Whole
  <2> QED
    BY <2>2, <2>3
<1>3. /\ capture \in Nat /\ packet \in Nat /\ put \in Nat /\ imported \in Nat
      /\ encoding \in Seq(Nat) /\ ready \in Seq(Nat) /\ saved \in Seq(Saving)
  BY DEF JpegInv, JpegTypeOK
<1>4. file \in Saving
  BY <1>3 DEF Saving
<1> HIDE DEF file
<1>5. /\ saved' \in Seq(Saving)
      /\ \A k \in DOMAIN saved' : (k \in DOMAIN saved /\ saved'[k] = saved[k]) \/ saved'[k] = file
  <2>1. CASE saved' = saved
    BY <1>3, <2>1
  <2>2. CASE saved' = Append(saved, file)
    BY <1>3, <1>4, <2>2, AppendKeeps
  <2> QED
    BY <1>2, <2>1, <2>2
<1>6. file.frame = packet /\ file.capture = capture /\ file.written
  BY DEF file
<1>7. \A j, k \in DOMAIN saved' : j < k => j \in DOMAIN saved /\ saved'[j] = saved[j]
  <2>1. CASE saved' = saved
    <3>1. DOMAIN saved' = DOMAIN saved
      BY <2>1
    <3> QED
      BY <2>1, <3>1
  <2>2. CASE saved' = Append(saved, file)
    BY <1>3, <1>4, <2>2, AppendKeeps
  <2> QED
    BY <1>2, <2>1, <2>2
<1>8. /\ packet <= capture
      /\ \A i \in DOMAIN ready : packet < ready[i]
      /\ \A i \in DOMAIN encoding : packet < encoding[i]
      /\ \A k \in DOMAIN saved : saved[k].frame < packet
  BY <1>1 DEF JpegInv, InTurn
<1>9. JpegTypeOK'
  <2>1. put' \in Nat /\ packet' \in Nat
    BY <1>1, <1>3
  <2> QED
    BY <1>1, <1>5, <2>1 DEF JpegInv, JpegTypeOK
<1>10. InTurn'
  <2>1. /\ \A k \in DOMAIN saved', i \in DOMAIN ready' : saved'[k].frame < ready'[i]
        /\ \A k \in DOMAIN saved', i \in DOMAIN encoding' : saved'[k].frame < encoding'[i]
    BY <1>1, <1>5, <1>6, <1>8 DEF JpegInv, InTurn
  <2> QED
    BY <1>1, <2>1 DEF JpegInv, InTurn, Rising
<1>11. Files'
  <2>1. \A k \in DOMAIN saved' :
          saved'[k].frame <= saved'[k].capture /\ saved'[k].frame <= capture' /\ saved'[k].written
    BY <1>1, <1>5, <1>6, <1>8 DEF JpegInv, Files
  <2>2. ASSUME NEW j \in DOMAIN saved', NEW k \in DOMAIN saved', j < k
        PROVE  saved'[j].frame < saved'[k].frame
    <3>1. j \in DOMAIN saved /\ saved'[j] = saved[j]
      BY <1>7, <2>2
    <3>2. CASE k \in DOMAIN saved /\ saved'[k] = saved[k]
      BY <2>2, <3>1, <3>2 DEF JpegInv, Files
    <3>3. CASE saved'[k] = file
      BY <1>6, <1>8, <3>1, <3>3
    <3> QED
      BY <1>5, <3>2, <3>3
  <2> QED
    BY <2>1, <2>2 DEF Files
<1>12. OwnOnly'
  <2> SUFFICES ASSUME ~abandoned PROVE OwnOnly'
    BY <1>1 DEF OwnOnly
  <2>1. SavedIsAsked /\ ready = <<>> /\ encoding = <<>> /\ packet = capture
    BY <1>1 DEF JpegInv, OwnOnly
  <2>2. SavedIsAsked'
    BY <1>5, <1>6, <2>1 DEF SavedIsAsked
  <2> QED
    BY <1>1, <2>1, <2>2 DEF OwnOnly
<1>13. Buffers'
  BY <1>1, <1>3 DEF JpegInv, Buffers
<1> QED
  BY <1>9, <1>10, <1>11, <1>12, <1>13 DEF JpegInv

-----------------------------------------------------------------------------
\* Every step keeps the invariant.
LEMMA JpegInvNext == JpegInv /\ [Next]_vars => JpegInv'
<1> SUFFICES ASSUME JpegInv, [Next]_vars PROVE JpegInv'
  OBVIOUS
<1>1. CASE Create
  BY <1>1, JpegInvProgress DEF Create, Captures, Progress
<1>2. CASE Reset
  BY <1>2, JpegInvProgress DEF Reset, Captures, Progress
<1>3. CASE CaptureBegin
  BY <1>3, JpegInvBegin
<1>4. CASE CaptureFails
  BY <1>4, JpegInvFails
<1>5. CASE Encode
  BY <1>5, JpegInvEncode
<1>6. CASE GetPacket
  BY <1>6, JpegInvPacket
<1>7. CASE PollAgain
  BY <1>7, JpegInvProgress DEF PollAgain, Progress
<1>8. CASE GiveUp \/ GetError
  BY <1>8, JpegInvAbandon DEF GiveUp, GetError
<1>9. CASE WriteFile
  BY <1>9, JpegInvWrite
<1>10. CASE UNCHANGED vars
  BY <1>10, JpegInvProgress DEF vars, jpegVars, Progress
<1> QED
  BY <1>1, <1>2, <1>3, <1>4, <1>5, <1>6, <1>7, <1>8, <1>9, <1>10 DEF Next, Call

\* The invariant holds of every execution of the class.
THEOREM JpegInvAlways == Spec => []JpegInv
<1> QED
  BY JpegInvInit, JpegInvNext, PTL DEF Spec

\* As long as no capture has left its frame in the encoder, a capture that
\* returns true has saved the picture it was called for; after that the files
\* still follow the order of the captures, no frame is in two of them, and
\* every one that is reported is complete (encodeToFile).
THEOREM FilesInOrder == Spec => []SavedInOrder
<1>1. JpegInv => SavedInOrder
  <2> SUFFICES ASSUME JpegInv PROVE SavedInOrder
    OBVIOUS
  <2>1. ~abandoned => SavedIsAsked
    BY DEF JpegInv, OwnOnly
  <2> QED
    BY <2>1 DEF JpegInv, Files, SavedInOrder
<1> QED
  BY <1>1, JpegInvAlways, PTL

\* Every buffer captureFromDmabuf imports is given back once, on every way out
\* but that of a failing mpp_frame_init.
THEOREM BuffersReturned == Spec => []BuffersGoBack
<1>1. JpegInv => BuffersGoBack
  BY DEF JpegInv, JpegTypeOK, Buffers, BuffersGoBack
<1> QED
  BY <1>1, JpegInvAlways, PTL

-----------------------------------------------------------------------------
(* The configuration of the encoder.  What the calls of applyConfig() for c *)
(* may set: no key twice, and what goes to the encoder at once is none of  *)
(* the keys of the handle.                                                 *)
Kinds == {"cfg", "optional", "control"}
Values(c) == {<<v>> : v \in {c.width, c.mode, c.rate, c.idr, c.codec, c.colour, <<c.codec, c.mode, c.rate>>}}
Calls(c) == [key : Keys \cup Controls, value : Values(c), by : Kinds]

Clean(s, c, names) ==
  /\ s \in Seq(Calls(c))
  /\ \A i \in DOMAIN s : s[i].key \in names /\ (s[i].by = "control" <=> s[i].key \in Controls)
  /\ \A i, j \in DOMAIN s : s[i].key = s[j].key => i = j

LEMMA CleanSetting ==
  ASSUME NEW c, NEW k \in Keys \cup Controls, NEW v, <<v>> \in Values(c), NEW b \in Kinds,
         b = "control" <=> k \in Controls
  PROVE  Clean(Setting(k, v, b), c, {k})
<1> DEFINE call == [key |-> k, value |-> <<v>>, by |-> b]
<1>1. call \in Calls(c) /\ call.key = k /\ call.by = b
  BY DEF Calls
<1>2. Setting(k, v, b) = <<call>>
  BY DEF Setting
<1> HIDE DEF call
<1>3. <<call>> \in Seq(Calls(c)) /\ DOMAIN <<call>> = {1} /\ <<call>>[1] = call
  BY <1>1
<1> QED BY <1>1, <1>2, <1>3 DEF Clean

LEMMA CleanWhen ==
  ASSUME NEW c, NEW s, NEW names, Clean(s, c, names), NEW condition
  PROVE  Clean(When(condition, s), c, names)
<1>1. Clean(<<>>, c, names)
  BY DEF Clean
<1> QED BY <1>1 DEF When

LEMMA CleanConcat ==
  ASSUME NEW c, NEW s, NEW t, NEW K, NEW L, Clean(s, c, K), Clean(t, c, L), K \cap L = {}
  PROVE  Clean(s \o t, c, K \cup L)
<1>1. s \in Seq(Calls(c)) /\ t \in Seq(Calls(c))
  BY DEF Clean
<1>2. /\ s \o t \in Seq(Calls(c)) /\ Len(s) \in Nat /\ Len(t) \in Nat
      /\ DOMAIN s = 1 .. Len(s) /\ DOMAIN t = 1 .. Len(t)
      /\ DOMAIN (s \o t) = 1 .. Len(s) + Len(t)
      /\ \A i \in 1 .. Len(s) + Len(t) :
           (s \o t)[i] = IF i <= Len(s) THEN s[i] ELSE t[i - Len(s)]
  BY <1>1
<1>3. \A i \in DOMAIN (s \o t) :
        \/ i \in DOMAIN s /\ (s \o t)[i] = s[i]
        \/ i - Len(s) \in DOMAIN t /\ i \notin DOMAIN s /\ (s \o t)[i] = t[i - Len(s)]
  BY <1>2
<1> DEFINE u == s \o t
<1> HIDE DEF u
<1>4. \A i \in DOMAIN u : u[i].key \in K \cup L /\ (u[i].by = "control" <=> u[i].key \in Controls)
  BY <1>3 DEF Clean, u
<1>5. ASSUME NEW i \in DOMAIN u, NEW j \in DOMAIN u, u[i].key = u[j].key
      PROVE  i = j
  <2>1. CASE i \in DOMAIN s /\ u[i] = s[i] /\ j \in DOMAIN s /\ u[j] = s[j]
    BY <1>5, <2>1 DEF Clean
  <2>2. CASE /\ i - Len(s) \in DOMAIN t /\ u[i] = t[i - Len(s)]
             /\ j - Len(s) \in DOMAIN t /\ u[j] = t[j - Len(s)]
    <3>1. i - Len(s) = j - Len(s)
      BY <1>5, <2>2 DEF Clean
    <3>2. i \in Nat /\ j \in Nat
      BY <1>2 DEF u
    <3> QED BY <1>2, <3>1, <3>2
  <2>3. CASE i \in DOMAIN s /\ u[i] = s[i] /\ j - Len(s) \in DOMAIN t /\ u[j] = t[j - Len(s)]
    BY <1>5, <2>3 DEF Clean
  <2>4. CASE j \in DOMAIN s /\ u[j] = s[j] /\ i - Len(s) \in DOMAIN t /\ u[i] = t[i - Len(s)]
    BY <1>5, <2>4 DEF Clean
  <2> QED BY <1>3, <2>1, <2>2, <2>3, <2>4 DEF u
<1> QED BY <1>2, <1>4, <1>5 DEF Clean, u

LEMMA CleanSettings ==
  ASSUME NEW c
  PROVE  Clean(Settings(c), c, Keys \cup Controls)
<1>1. \A v \in {c.width, c.mode, c.rate, c.idr, c.codec, c.colour, <<c.codec, c.mode, c.rate>>} :
        <<v>> \in Values(c)
  BY DEF Values
<1>2. "cfg" \in Kinds /\ "optional" \in Kinds /\ "control" \in Kinds
  BY DEF Kinds
<1> DEFINE prep == Setting("prep", c.width, "cfg")
           mode == Setting("mode", c.mode, "cfg")
           rate == Setting("rate", c.rate, "cfg")
           range == When(c.mode # "fixqp", Setting("range", c.rate, "cfg"))
           idr == When(c.idr > 0, Setting("idr", c.idr, "optional"))
           quality == Setting("quality", <<c.codec, c.mode, c.rate>>, "cfg")
           type == Setting("type", c.codec, "cfg")
           codec == When(c.codec \in {"h264", "h265"}, Setting("codec", c.codec, "cfg"))
           sei == Setting("sei", c.codec, "control")
           header == When(c.codec \in {"h264", "h265"}, Setting("header", c.codec, "control"))
           colour == When(c.colour >= 0, Setting("colour", c.colour, "optional"))
<1>3. Clean(prep, c, {"prep"}) /\ Clean(mode, c, {"mode"})
  BY <1>1, <1>2, CleanSetting DEF Keys, Controls
<1>4. Clean(rate, c, {"rate"}) /\ Clean(quality, c, {"quality"})
  BY <1>1, <1>2, CleanSetting DEF Keys, Controls
<1>5. Clean(type, c, {"type"}) /\ Clean(sei, c, {"sei"})
  BY <1>1, <1>2, CleanSetting DEF Keys, Controls
<1>6. /\ Clean(Setting("range", c.rate, "cfg"), c, {"range"})
      /\ Clean(Setting("idr", c.idr, "optional"), c, {"idr"})
  BY <1>1, <1>2, CleanSetting DEF Keys, Controls
<1>7. /\ Clean(Setting("codec", c.codec, "cfg"), c, {"codec"})
      /\ Clean(Setting("header", c.codec, "control"), c, {"header"})
      /\ Clean(Setting("colour", c.colour, "optional"), c, {"colour"})
  BY <1>1, <1>2, CleanSetting DEF Keys, Controls
<1>8. Clean(range, c, {"range"}) /\ Clean(idr, c, {"idr"})
  BY <1>6, CleanWhen
<1>9. Clean(codec, c, {"codec"}) /\ Clean(header, c, {"header"}) /\ Clean(colour, c, {"colour"})
  BY <1>7, CleanWhen
<1>10. Settings(c) =
         prep \o mode \o When(c.codec # "mjpeg", rate \o range \o idr) \o quality \o (type \o codec)
           \o When(c.codec # "mjpeg", sei \o header) \o colour
  BY DEF Settings, Rates, Quality, Codec, Streaming
<1> HIDE DEF prep, mode, rate, range, idr, quality, type, codec, sei, header, colour
<1>11. Clean(When(c.codec # "mjpeg", rate \o range \o idr), c, {"rate", "range", "idr"})
  <2>1. Clean(rate \o range, c, {"rate"} \cup {"range"})
    BY <1>4, <1>8, CleanConcat
  <2>2. Clean(rate \o range \o idr, c, ({"rate"} \cup {"range"}) \cup {"idr"})
    BY <1>8, <2>1, CleanConcat
  <2>3. ({"rate"} \cup {"range"}) \cup {"idr"} = {"rate", "range", "idr"}
    OBVIOUS
  <2> QED BY <2>2, <2>3, CleanWhen
<1>12. Clean(When(c.codec # "mjpeg", sei \o header), c, {"sei", "header"})
  <2>1. Clean(sei \o header, c, {"sei"} \cup {"header"})
    BY <1>5, <1>9, CleanConcat
  <2>2. {"sei"} \cup {"header"} = {"sei", "header"}
    OBVIOUS
  <2> QED BY <2>1, <2>2, CleanWhen
<1> DEFINE rates == When(c.codec # "mjpeg", rate \o range \o idr)
           streaming == When(c.codec # "mjpeg", sei \o header)
<1> HIDE DEF rates, streaming
<1>13. Clean(prep \o mode, c, {"prep"} \cup {"mode"})
  BY <1>3, CleanConcat
<1>14. Clean(prep \o mode \o rates, c, ({"prep"} \cup {"mode"}) \cup {"rate", "range", "idr"})
  BY <1>11, <1>13, CleanConcat DEF rates
<1>15. Clean(prep \o mode \o rates \o quality, c, (({"prep"} \cup {"mode"}) \cup {"rate", "range", "idr"}) \cup {"quality"})
  BY <1>4, <1>14, CleanConcat
<1>16. Clean(type \o codec, c, {"type"} \cup {"codec"})
  BY <1>5, <1>9, CleanConcat
<1> DEFINE front == prep \o mode \o rates \o quality
           frontKeys == {"prep", "mode", "rate", "range", "idr", "quality"}
<1>17. Clean(front, c, frontKeys)
  <2>1. (({"prep"} \cup {"mode"}) \cup {"rate", "range", "idr"}) \cup {"quality"} = frontKeys
    OBVIOUS
  <2> QED BY <1>15, <2>1
<1> HIDE DEF front
<1>18. Clean(front \o (type \o codec), c, frontKeys \cup ({"type"} \cup {"codec"}))
  BY <1>16, <1>17, CleanConcat
<1>19. Clean(front \o (type \o codec) \o streaming, c, (frontKeys \cup ({"type"} \cup {"codec"})) \cup {"sei", "header"})
  BY <1>12, <1>18, CleanConcat DEF streaming
<1>20. Clean(front \o (type \o codec) \o streaming \o colour, c,
             ((frontKeys \cup ({"type"} \cup {"codec"})) \cup {"sei", "header"}) \cup {"colour"})
  BY <1>9, <1>19, CleanConcat
<1>21. ((frontKeys \cup ({"type"} \cup {"codec"})) \cup {"sei", "header"}) \cup {"colour"} = Keys \cup Controls
  BY DEF Keys, Controls
<1> QED BY <1>10, <1>20, <1>21 DEF front, rates, streaming

(* The handle and the encoder have a place for every key.                  *)
ConfigTypes == DOMAIN mCfg = Keys /\ DOMAIN encoder = Keys \cup Controls

ConfigInv == ConfigTypes /\ OneConfiguration

LEMMA ConfigStays ==
  ASSUME ConfigInv, UNCHANGED <<mCfg, encoder, applied>>
  PROVE  ConfigInv'
BY DEF ConfigInv, ConfigTypes, OneConfiguration

(* However applyConfig() ends: a failed attempt leaves the encoder the keys *)
(* of the handle as they were, and an accepted one has set all its own.    *)
LEMMA ConfigApplied ==
  ASSUME ConfigInv, NEW c \in Configs, ApplyConfig(c)
  PROVE  ConfigInv'
<1> DEFINE s == Settings(c)
<1>1. PICK n \in 0 .. Len(s), accept \in BOOLEAN :
        \E skipped \in SUBSET {i \in 1 .. n : s[i].by = "optional"} :
          LET made == (1 .. n) \ skipped
              direct == Overridden(encoder, s, made, {"control"})
          IN /\ mCfg' = Overridden(mCfg, s, made, {"cfg", "optional"})
             /\ IF HandedOver(s, n) /\ accept
                THEN /\ encoder' = [k \in DOMAIN encoder |-> IF k \in Keys THEN mCfg'[k] ELSE direct[k]]
                     /\ applied' = c
                ELSE encoder' = direct /\ applied' = applied
  BY DEF ApplyConfig
<1>2. PICK skipped \in SUBSET {i \in 1 .. n : s[i].by = "optional"} :
          LET made == (1 .. n) \ skipped
              direct == Overridden(encoder, s, made, {"control"})
          IN /\ mCfg' = Overridden(mCfg, s, made, {"cfg", "optional"})
             /\ IF HandedOver(s, n) /\ accept
                THEN /\ encoder' = [k \in DOMAIN encoder |-> IF k \in Keys THEN mCfg'[k] ELSE direct[k]]
                     /\ applied' = c
                ELSE encoder' = direct /\ applied' = applied
  BY <1>1
<1> DEFINE made == (1 .. n) \ skipped
           direct == Overridden(encoder, s, made, {"control"})
<1>3. /\ mCfg' = Overridden(mCfg, s, made, {"cfg", "optional"})
      /\ \/ /\ HandedOver(s, n) /\ applied' = c
            /\ encoder' = [k \in DOMAIN encoder |-> IF k \in Keys THEN mCfg'[k] ELSE direct[k]]
         \/ encoder' = direct /\ applied' = applied
  BY <1>2
<1>4. Clean(s, c, Keys \cup Controls)
  BY CleanSettings
<1>5. Len(s) \in Nat /\ DOMAIN s = 1 .. Len(s) /\ made \subseteq DOMAIN s
  BY <1>4 DEF Clean
<1>6. Keys \cap Controls = {}
  BY DEF Keys, Controls
<1>7. DOMAIN direct = DOMAIN encoder /\ DOMAIN mCfg' = DOMAIN mCfg
  BY <1>3 DEF Overridden
<1>8. ConfigTypes'
  BY <1>3, <1>7 DEF ConfigInv, ConfigTypes
<1> HIDE DEF s
<1>9. \A k \in Keys : direct[k] = encoder[k]
  BY <1>4, <1>5, <1>6 DEF ConfigInv, ConfigTypes, Overridden, Clean
<1>10. \A i \in DOMAIN s : s[i].by = "cfg" => s[i].key \in Keys
  BY <1>4, <1>6 DEF Clean
<1>11. CASE HandedOver(s, n) /\ applied' = c
            /\ encoder' = [k \in DOMAIN encoder |-> IF k \in Keys THEN mCfg'[k] ELSE direct[k]]
  <2>1. ASSUME NEW i \in DOMAIN s, s[i].by = "cfg"
        PROVE  encoder'[s[i].key] = s[i].value
    <3>1. i \in made
      BY <1>5, <1>11, <2>1 DEF HandedOver
    <3>2. (CHOOSE j \in made : s[j].key = s[i].key) = i
      BY <1>4, <1>5, <3>1 DEF Clean
    <3>3. s[i].key \in DOMAIN mCfg
      BY <1>10, <2>1 DEF ConfigInv, ConfigTypes
    <3>4. mCfg'[s[i].key] = s[i].value
      BY <1>3, <2>1, <3>1, <3>2, <3>3 DEF Overridden
    <3>5. s[i].key \in Keys /\ s[i].key \in DOMAIN encoder
      BY <1>10, <2>1 DEF ConfigInv, ConfigTypes
    <3> QED BY <1>11, <3>4, <3>5
  <2> QED BY <1>8, <1>11, <2>1 DEF ConfigInv, OneConfiguration, s
<1>12. CASE encoder' = direct /\ applied' = applied
  <2>1. \A k \in Keys : encoder'[k] = encoder[k]
    BY <1>9, <1>12
  <2>2. ASSUME applied # NoConfig, NEW i \in DOMAIN Settings(applied), Settings(applied)[i].by = "cfg"
        PROVE  encoder'[Settings(applied)[i].key] = Settings(applied)[i].value
    <3>1. encoder[Settings(applied)[i].key] = Settings(applied)[i].value
      BY <2>2 DEF ConfigInv, OneConfiguration
    <3>2. Settings(applied)[i].key \in Keys
      BY <1>6, <2>2, CleanSettings DEF Clean
    <3> QED BY <2>1, <3>1, <3>2
  <2>3. OneConfiguration'
    BY <1>12, <2>2 DEF OneConfiguration
  <2> QED BY <1>8, <2>3 DEF ConfigInv
<1> QED BY <1>3, <1>11, <1>12

LEMMA ConfigInvNext ==
  ASSUME ConfigInv, [Next]_vars
  PROVE  ConfigInv'
<1>1. CASE Create
  <2>1. PICK c \in Jpegs : Construct(c)
    BY <1>1 DEF Create
  <2>2. c \in Configs
    BY DEF Jpegs
  <2> QED BY <2>1, <2>2, ConfigStays, ConfigApplied DEF Construct
<1>2. CASE Reset
  <2>1. PICK c \in Jpegs : UNCHANGED <<mCfg, encoder, applied>> \/ ResetConfig(c)
    BY <1>2 DEF Reset
  <2>2. c \in Configs
    BY DEF Jpegs
  <2> QED BY <2>1, <2>2, ConfigStays, ConfigApplied DEF ResetConfig
<1>3. CASE UNCHANGED contextVars
  BY <1>3, ConfigStays DEF contextVars
<1>4. Create \/ Reset \/ UNCHANGED contextVars
  BY DEF Next, Call, CaptureBegin, CaptureFails, Encode, GetPacket, PollAgain, GiveUp, GetError,
         Abandon, WriteFile, vars
<1> QED BY <1>1, <1>2, <1>3, <1>4

(* After any sequence of constructor and resetConfig(), each failing at any *)
(* of its calls, the encoder has every setting of the configuration that it *)
(* accepted last (MppEncoderContext::applyConfig).                         *)
THEOREM ConfigurationIsOne == Spec => []OneConfiguration
<1>1. Init => ConfigInv
  BY DEF Init, ContextInit, ConfigInv, ConfigTypes, OneConfiguration
<1>2. ConfigInv => OneConfiguration
  BY DEF ConfigInv
<1> QED BY <1>1, <1>2, ConfigInvNext, PTL DEF Spec

=============================================================================
