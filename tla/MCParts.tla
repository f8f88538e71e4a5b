------------------------------ MODULE MCParts ------------------------------
(***************************************************************************)
(* The parts beside the JSON text, and what they are given: values of the   *)
(* constants that a configuration file cannot write.                       *)
(***************************************************************************)
EXTENDS Parts, TLC

CONSTANTS Members, Indices, MaxEdits, MaxDamage, MaxLength

VARIABLES value, text, edits, damage

Text == INSTANCE Json

textVars == <<value, text, edits, damage>>

\* Two connectors that both want the first CRTC; the second has another way.
MCEncoders == <<<<{1}>>, <<{1}, {2}>>>>
MCPlanes ==
  {[id |-> 11, kind |-> "primary", formats |-> {1}, crtcs |-> {1}],
   [id |-> 12, kind |-> "overlay", formats |-> {2}, crtcs |-> {2}]}

\* What one peer sends: a body that looks like the end of a header and like the
\* start of another request; or lines, of which one is empty.  And the streams
\* of which HttpConnection promises nothing: a request without its version behind
\* another, a line before a request, lines that together look like a request.
MCMethods == {"GET ", "POST "}
MCContentLength == "content-length: 5" :> 5 @@ "content-length: 0" :> 0

Crlf == <<"CR", "LF">>
Asked(words, body) == <<[line |-> words, body |-> body]>>
Line(words) == [http |-> FALSE, text |-> words \o Crlf, asks |-> Asked(words, <<>>)]
Blank == [http |-> FALSE, text |-> Crlf, asks |-> <<>>]
Message(words, headers, body) ==
  [http |-> TRUE, text |-> words \o Crlf \o headers \o Crlf \o body, asks |-> Asked(words, body)]

Get == Message(<<"GET ", "/a", " HTTP/1.1">>, <<>>, <<>>)
Post == Message(<<"POST ", "/p", " HTTP/1.1">>, <<"content-length: 5">> \o Crlf,
  <<"CR", "LF", "CR", "LF", "GET ">>)

Cut == Message(<<"GET ", "/b">>, <<>>, <<>>)
Ping == Line(<<"PING">>)

MCStreams ==
  {<<Post, Get>>, <<Get, Post>>, <<Ping, Blank, Line(<<"SET", " a">>)>>,
   <<Get, Cut>>, <<Ping, Get>>, <<Line(<<"GET ", "/a">>), Line(<<"SAY", " HTTP/1.1">>)>>}

Answer(head, kind, len, size, close) ==
  [head |-> head, kind |-> kind, len |-> len, size |-> size, close |-> close]

\* What handlers answer; the last two are the body of no bytes and the range that
\* ends before its file.
MCAnswers ==
  {Answer(1, "empty", 0, 0, FALSE), Answer(1, "bytes", 2, 2, TRUE), Answer(0, "bytes", 1, 1, FALSE),
   Answer(1, "file", 2, 2, FALSE), Answer(1, "file", 0, 0, FALSE), Answer(1, "file", 2, 1, FALSE),
   Answer(1, "dmabuf", 2, 2, FALSE), Answer(1, "bytes", 0, 0, FALSE), Answer(1, "file", 1, 3, FALSE)}

\* Two sizes and one that is none, one with a longer limit than its retries;
\* and configurations of the other codecs, for a context that is used alone.
Setup(codec, width, control_, rate, idr, colour) ==
  [codec |-> codec, width |-> width, mode |-> control_, rate |-> rate, idr |-> idr,
   colour |-> colour, retries |-> 1, timeout |-> 1]
Jpeg(width, retries, timeout) ==
  [Setup("mjpeg", width, "fixqp", 8, 0, -1) EXCEPT !.retries = retries, !.timeout = timeout]

MCConfigs ==
  {Jpeg(640, 1, 2), Jpeg(1920, 2, 0), Jpeg(0, 1, 1),
   Setup("h264", 640, "vbr", 1, 0, -1), Setup("h264", 640, "fixqp", 2, 30, 1),
   Setup("h265", 1920, "cbr", 2, 0, 0), Setup("vp8", 640, "vbr", 1, 0, -1)}

MCInit == PartsInit /\ Text!Init

TextPart ==
  part = "text" /\ Text!Next /\ UNCHANGED partsVars

MCNext == (PartsNext /\ UNCHANGED textVars) \/ TextPart

MCSpec == MCInit /\ [][MCNext]_<<partsVars, textVars>>

\* A state is not left from where a part promises nothing any more: these marks
\* stay once they are set, and a reader that is done reads no second position.
StillPromised ==
  /\ part = "ordered" => ~torn /\ ~shared
  /\ part = "udev" => ~crossed
  /\ part = "mouse" => ~doubled /\ \E r \in Readers : reader[r].at # "done"

\* Bound: two calls and two events of a mouse, or one and three, or a mouse that is
\* plugged in and three.
MouseMoves == part = "mouse" => delivered + called <= 4

LiveSpec == MCSpec /\ Fairness

\* See Json.
ParsesWhatIsWritten == part = "text" => Text!ParsesWhatIsWritten

=============================================================================
