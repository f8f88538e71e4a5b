--------------------------- MODULE HttpConnection ---------------------------
(***************************************************************************)
(* One connection of src/src/utils/net/server.cpp, seen from inside: how   *)
(* the bytes that recv() delivers, cut anywhere, become requests, and how  *)
(* the responses become bytes again.  EventServer has the loop, the other  *)
(* connections and the queue between the workers and the loop; here a      *)
(* response comes to the connection in one step.                           *)
(*                                                                         *)
(* Text is a sequence of tokens: a method with its blank, a target, a      *)
(* version with its blank, "CR", "LF", header lines, bytes of a body.      *)
(***************************************************************************)
EXTENDS Integers, Sequences, SequencesExt

CONSTANTS
  Streams,         (* what a peer may send: sequences of [http, text, asks]  *)
  Methods,         (* the tokens looksLikeHttp() and a method begin with     *)
  Versions,        (* the tokens that contain " HTTP/1."                     *)
  ContentLength,   (* the number in each content-length header token         *)
  Answers,         (* responses: [head, kind, len, size, close], where kind is *)
                   (* "empty", "bytes", "file" or "dmabuf", and the rest sizes *)
  Chunk,           (* bytes of `tmp` in the fallback of onWritable           *)
  SendfileWorks,   (* whether sendfile() can read the files: values tried    *)
  Leaves           (* whether the peer may close the connection              *)

VARIABLES
  messages, arrived,           \* what the peer sends, how many tokens recv() has delivered
  in, isHttp,                  \* Connection::in, isHttp
  at, req,                     \* the handler the loop is in; request line of processHttp's `req`
  requests, given,             \* requests handed to workers; their responses, as they came
  out, wantWrite, closing,     \* Connection::out, wantWrite, closing
  open, wire, peerGone,        \* the socket; what was written to it; whether the peer closed it
  sendfile                     \* whether sendfile() works

inVars == <<messages, arrived, in, isHttp, req, requests>>
outVars == <<given, out, wantWrite, closing, wire>>
vars == <<inVars, at, outVars, open, peerGone, sendfile>>

Stream == FlattenSeq([m \in DOMAIN messages |-> messages[m].text])
Asked == FlattenSeq([m \in DOMAIN messages |-> messages[m].asks])

Init ==
  /\ messages \in Streams /\ arrived = 0
  /\ in = <<>> /\ isHttp = FALSE /\ at = "poll" /\ req = <<>> /\ requests = <<>>
  /\ given = <<>> /\ out = <<>> /\ wantWrite = FALSE /\ closing = FALSE
  /\ open = TRUE /\ wire = <<>> /\ peerGone = FALSE
  /\ sendfile \in SendfileWorks

(***************************************************************************)
(* Reading                                                                 *)
(***************************************************************************)
LooksLikeHttp(s) ==
  /\ s # <<>> /\ s[1] \in Methods
  /\ \E k \in DOMAIN s : s[k] \in Versions

\* onReadable: recv() until nothing is left, whatever has arrived by then.
Receive ==
  /\ at = "poll" /\ open /\ ~peerGone
  /\ \E n \in arrived + 1 .. Len(Stream) :
       /\ arrived' = n
       /\ in' = in \o SubSeq(Stream, arrived + 1, n)
  /\ isHttp' = (isHttp \/ LooksLikeHttp(in'))
  /\ at' = IF isHttp' THEN "http" ELSE "line"
  /\ req' = <<>>
  /\ UNCHANGED <<messages, requests, outVars, open, peerGone, sendfile>>

\* onReadable, recv() returns 0: what was read before it in the same call stays in `in`.
ReceiveEnd ==
  /\ at = "poll" /\ open /\ peerGone
  /\ open' = FALSE
  /\ UNCHANGED <<inVars, at, outVars, peerGone, sendfile>>

Chomped(line) == IF line # <<>> /\ Last(line) = "CR" THEN Front(line) ELSE line

Upto(s, k) == SubSeq(s, 1, k - 1)
After(s, k) == SubSeq(s, k + 1, Len(s))

\* The places of the first line's end (the text's, if it has none) and of the header's end.
LineEnd(s) == IF "LF" \in ToSet(s) THEN SelectInSeq(s, LAMBDA t : t = "LF") ELSE Len(s) + 1
HeaderEnds(s) == {k \in 1 .. Len(s) - 3 : SubSeq(s, k, k + 3) = <<"CR", "LF", "CR", "LF">>}

Request(line, body) == [line |-> line, body |-> body]

\* processLine, one turn of its loop: an empty line is skipped.
TakeLine ==
  /\ at = "line"
  /\ IF "LF" \in ToSet(in)
     THEN LET line == Chomped(Upto(in, LineEnd(in)))
          IN /\ requests' = IF line = <<>> THEN requests
                            ELSE Append(requests, Request(line, <<>>))
             /\ in' = After(in, LineEnd(in))
             /\ at' = at
     ELSE at' = "poll" /\ UNCHANGED <<requests, in>>
  /\ UNCHANGED <<messages, arrived, isHttp, req, outVars, open, peerGone, sendfile>>

\* A word that the line does not have leaves what an earlier request of this call has put there.
RequestLine(line) ==
  [w \in (1 .. 3) \cap (DOMAIN line \cup DOMAIN req) |->
     IF w \in DOMAIN line THEN line[w] ELSE req[w]]

\* Mutant: a body is taken for the next request.
NeedNothing(headers) == 0

\* What the headers announce; the last of several counts.
Need(headers) ==
  LET lengths == SelectSeq(headers, LAMBDA t : t \in DOMAIN ContentLength)
  IN IF lengths = <<>> THEN 0 ELSE ContentLength[Last(lengths)]

\* processHttp, one turn of its loop with its tryParseHttp.
TakeHttp ==
  /\ at = "http"
  /\ LET ends == HeaderEnds(in)
         end == CHOOSE k \in ends : \A j \in ends : k <= j
         block == Upto(in, end)
         remain == SubSeq(in, end + 4, Len(in))
         line == RequestLine(Chomped(Upto(block, LineEnd(block))))
         need == Need(After(block, LineEnd(block)))
     IN IF ends # {} /\ block # <<>> /\ Len(line) >= 3 /\ need <= Len(remain)
        THEN /\ req' = line
             /\ requests' = Append(requests, Request(line, SubSeq(remain, 1, need)))
             /\ in' = After(remain, need)
             /\ at' = at
        ELSE at' = "poll" /\ UNCHANGED <<req, requests, in>>
  /\ UNCHANGED <<messages, arrived, isHttp, outVars, open, peerGone, sendfile>>

(***************************************************************************)
(* Responding                                                              *)
(***************************************************************************)
\* A piece of `out`: of the response to request i, `size` bytes from `data` on, `len` to send.
Piece(i, part, kind, len, size) ==
  [of |-> i, part |-> part, kind |-> kind, len |-> len, size |-> size, sent |-> 0]

\* enqueueResponse, with enableWrite.
Respond ==
  /\ at = "poll" /\ open
  /\ \E i \in DOMAIN requests \ {given[k].of : k \in DOMAIN given}, a \in Answers :
       /\ given' = Append(given, [of |-> i, answer |-> a])
       /\ out' = out \o (IF a.head > 0 THEN <<Piece(i, "head", "bytes", a.head, a.head)>> ELSE <<>>)
                     \o (IF a.kind # "empty"
                         THEN <<Piece(i, "body", a.kind, a.len, a.size)>> ELSE <<>>)
       /\ closing' = (closing \/ a.close)
  /\ wantWrite' = TRUE
  /\ UNCHANGED <<inVars, at, wire, open, peerGone, sendfile>>

Writable ==
  /\ at = "poll" /\ open /\ wantWrite
  /\ at' = "write"
  /\ UNCHANGED <<inVars, outVars, open, peerGone, sendfile>>

Now == out[1]
Writing == at = "write" /\ out # <<>>

\* Mutant: what went out earlier is forgotten after a short write.
SentOnce(n, ends) ==
  /\ wire' = wire \o [k \in 1 .. n |-> <<Now.of, Now.part, Now.sent + k>>]
  /\ out' = IF ends THEN Tail(out) ELSE [out EXCEPT ![1].sent = n]

\* The next n bytes of the piece go out; `ends` says whether it is then taken off `out`.
Sent(n, ends) ==
  /\ wire' = wire \o [k \in 1 .. n |-> <<Now.of, Now.part, Now.sent + k>>]
  /\ out' = IF ends THEN Tail(out) ELSE [out EXCEPT ![1].sent = @ + n]

KeepWriting == UNCHANGED <<inVars, at, given, wantWrite, closing, open, peerGone, sendfile>>

\* Bytes: at least one byte of them is taken by the socket.
SendBytes ==
  /\ Writing /\ Now.kind = "bytes" /\ ~peerGone
  /\ \E n \in 1 .. Now.len - Now.sent : Sent(n, Now.sent + n = Now.len)
  /\ KeepWriting

\* A file, by sendfile(): no further than the file and the range go.
SendFile ==
  /\ Writing /\ Now.kind = "file" /\ Now.sent # Now.len /\ ~peerGone /\ sendfile
  /\ \E n \in 1 .. Now.len - Now.sent :
       Now.sent + n <= Now.size /\ Sent(n, Now.sent + n = Now.len)
  /\ KeepWriting

\* A file, by pread() of a full `tmp` and send().
Copy ==
  /\ Writing /\ Now.kind = "file" /\ Now.sent # Now.len /\ ~peerGone /\ ~sendfile
  /\ \E n \in 1 .. Chunk :
       Now.sent + n <= Now.size /\ Sent(n, Now.sent + n = Now.len)
  /\ KeepWriting

\* A buffer of the device, mapped and sent; it is taken off when the loop comes to it again.
SendDmabuf ==
  /\ Writing /\ Now.kind = "dmabuf" /\ Now.sent < Now.len /\ ~peerGone
  /\ \E n \in 1 .. Now.len - Now.sent : Sent(n, FALSE)
  /\ KeepWriting

TakeOff ==
  /\ Writing /\ Now.kind # "bytes" /\ Now.sent = Now.len
  /\ Sent(0, TRUE)
  /\ KeepWriting

\* send() returns 0 for no bytes, an error, or there is nothing left to read from
\* the file.  When a file cannot be sent the loop waits for the next event instead.
Fails ==
  \/ peerGone /\ Now.kind # "file"
  \/ Now.kind = "bytes" /\ Now.sent = Now.len
  \/ Now.kind = "file" /\ Now.sent # Now.len /\ Now.sent >= Now.size

SendFails ==
  /\ Writing /\ Fails
  /\ open' = FALSE /\ at' = "poll"
  /\ UNCHANGED <<inVars, outVars, peerGone, sendfile>>

\* The socket takes no more for now.
Blocked ==
  /\ Writing /\ ~Fails /\ Now.sent # Now.len
  /\ at' = "poll"
  /\ UNCHANGED <<inVars, outVars, open, peerGone, sendfile>>

\* The end of onWritable, with disableWrite.
Written ==
  /\ at = "write" /\ out = <<>>
  /\ wantWrite' = FALSE /\ open' = ~closing /\ at' = "poll"
  /\ UNCHANGED <<inVars, given, out, closing, wire, peerGone, sendfile>>

PeerLeaves ==
  /\ Leaves /\ open /\ ~peerGone
  /\ peerGone' = TRUE
  /\ UNCHANGED <<inVars, at, outVars, open, sendfile>>

Finished ==
  /\ at = "poll"
  /\ ~open \/ (out = <<>> /\ Len(given) = Len(requests) /\ arrived = Len(Stream))
  /\ UNCHANGED vars

Read == Receive \/ ReceiveEnd \/ TakeLine \/ TakeHttp
Send == SendBytes \/ SendFile \/ Copy \/ SendDmabuf
Write == Writable \/ TakeOff \/ SendFails \/ Blocked \/ Written

Next == Read \/ Respond \/ Write \/ Send \/ PeerLeaves \/ Finished

Spec == Init /\ [][Next]_vars

-----------------------------------------------------------------------------
\* All messages are HTTP, or all are lines of which none begins like HTTP: the
\* protocol is chosen from whatever has arrived (server.cpp:543), so that on
\* other streams it depends on how recv() cuts them.
OneProtocol ==
  \/ \A m \in DOMAIN messages : messages[m].http
  \/ \A m \in DOMAIN messages : ~messages[m].http /\ messages[m].text[1] \notin Methods

\* No HTTP request comes without its version: behind another it would be given
\* what the line of that one has left (595), alone it would stay in `in` (596).
LinesAreWhole ==
  \A m \in DOMAIN messages : messages[m].http => Len(messages[m].asks[1].line) >= 3

\* The requests that reach the handlers are those the peer has sent, in their
\* order and with their own bodies, however recv() cuts the stream; once all
\* of it is there and parsed, none is missing (onReadable, server.cpp:522).  That
\* is so for the streams of one protocol with whole request lines; on others
\* it is not, and nothing is said of them.
RequestsAsSent ==
  OneProtocol /\ LinesAreWhole =>
    /\ IsPrefix(requests, Asked)
    /\ at = "poll" /\ arrived = Len(Stream) => requests = Asked

\* What a response means on the wire: its head, then as many bytes of its body as it announces.
Text(g) ==
  [k \in 1 .. g.answer.head |-> <<g.of, "head", k>>]
    \o [k \in 1 .. IF g.answer.kind = "empty" THEN 0 ELSE g.answer.len |-> <<g.of, "body", k>>]
TextOf(responses) == FlattenSeq([k \in DOMAIN responses |-> Text(responses[k])])

\* The file of this response has become shorter than it was when the head announced its length.
Truncated(g) == g.answer.kind = "file" /\ g.answer.size < g.answer.len

\* A body of no bytes: send() returns 0, which is taken for an error (server.cpp:648).
Empty(g) == g.answer.kind = "bytes" /\ g.answer.len = 0

\* The file goes on behind the range that is to be sent (response.h:35), and it
\* is copied: a full `tmp` is read, whatever is left of the range (server.cpp:669).
RunsOver(g) == g.answer.kind = "file" /\ g.answer.size > g.answer.len /\ ~sendfile

\* The peer reads one response after the other: no byte is missing, repeated
\* or left over between them, whatever the sockets take at a time (onWritable,
\* server.cpp:632).  And the server closes the connection only when the peer has,
\* when all that was given is written and a response has asked for it, in a
\* file cut short, or at a body of no bytes.  Nothing is said of a connection
\* with a response that runs over its range.
WireIsResponses ==
  (\A k \in DOMAIN given : ~RunsOver(given[k])) =>
    /\ IsPrefix(wire, TextOf(given))
    /\ ~open =>
         \/ peerGone
         \/ wire = TextOf(given) /\ \E k \in DOMAIN given : given[k].answer.close
         \/ \E k \in DOMAIN given : Truncated(given[k]) \/ Empty(given[k])

=============================================================================
