---------------------------- MODULE Http2Session ----------------------------
(***************************************************************************)
(* The HTTP/2 front end, Session of transport/session: one connection and  *)
(* the streams on it.  A client's request arrives as HEADERS and DATA      *)
(* frames; nghttp2 turns them into callbacks, the callbacks collect the    *)
(* request in streams_data_ and DISPATCH it to request_cb_, and the        *)
(* dispatch answers through its sender, at once (inside the callback) or   *)
(* later (when a backend has replied).                                     *)
(*                                                                         *)
(* External, modelled from its use: nghttp2.  It calls on_data_chunk_recv  *)
(* once per piece of a DATA frame, with the flags of the whole FRAME, and  *)
(* not at all for an empty frame; a frame comes in pieces because the      *)
(* session reads 8192 bytes at a time.  It closes a stream when both sides *)
(* have ended it or the client resets it, and drops what is submitted to a *)
(* stream that is closed or that the server has ended.  A stream whose     *)
(* reply waits for the client's window is neither: the HEADERS of another  *)
(* reply go out, only its body is refused.                                 *)
(*                                                                         *)
(* One handler runs at a time here, as with THREADS=1.  Bodies are counted *)
(* in pieces.                                                              *)
(***************************************************************************)
EXTENDS Integers, SequencesExt

CONSTANTS
    Streams,    \* stream ids
    MaxBody,    \* bound: pieces in a request's body
    MaxReply    \* bound: pieces in a reply's body

ASSUME BoundsAssumption == MaxBody \in Nat /\ MaxReply \in Nat

VARIABLES
    conn,           \* the Session object: new, handshake, up, gone
    broken,         \* the socket no longer takes data
    stream,         \* nghttp2: idle, open, ended (by the client), closed
    streams_data,   \* streams_data_: stream -> pieces of body collected
    frame,          \* the DATA frame that is partly received
    sent,           \* pieces of body in the DATA frames begun by the client
    dispatched,     \* the bodies given to request_cb_, for each stream
    pending,        \* senders that have not been called yet
    reply,          \* the server's half of each stream
    misused         \* a sender was called after its session was destroyed

vars == <<conn, broken, stream, streams_data, frame, sent, dispatched, pending,
          reply, misused>>

NoFrame == [stream |-> "none"]
Frames == [stream : Streams, left : 1 .. MaxBody, end : BOOLEAN]

\* want: the length of the (first) reply, as its content-length says; got: what
\* the client is sent of it; heads: the replies whose HEADERS went out.
NoReply == [status |-> "none", want |-> 0, got |-> 0, heads |-> 0]

-----------------------------------------------------------------------------

Init ==
    /\ conn = "new"
    /\ broken = FALSE
    /\ stream = [i \in Streams |-> "idle"]
    /\ streams_data = <<>>
    /\ frame = NoFrame
    /\ sent = [i \in Streams |-> 0]
    /\ dispatched = [i \in Streams |-> <<>>]
    /\ pending = [i \in Streams |-> 0]
    /\ reply = [i \in Streams |-> NoReply]
    /\ misused = FALSE

\* send_response and write_data, by which the reply is sent unless the server has
\* ended the stream, the stream is closed, or the socket fails.  The client's flow-control windows
\* and the frame size leave room for some of the body; read_callback copies up
\* to the first NUL or up to the room, whichever is less, and ends the stream.
\* With no room at all nghttp2 puts the DATA frame off, and read_callback is
\* called when the body it points to no longer exists.  A reply to a stream whose
\* first reply is put off adds its HEADERS, which end the stream if it has no body.
Replied(i, want, text, room) ==
    IF reply[i].status = "sent" \/ stream[i] = "closed" \/ broken
    THEN reply[i]
    ELSE IF reply[i].status = "deferred"
    THEN [reply[i] EXCEPT !.status = IF want = 0 THEN "sent" ELSE "deferred",
                          !.heads = @ + 1]
    ELSE [status |-> IF want > 0 /\ room = 0 THEN "deferred" ELSE "sent",
          want |-> want, got |-> IF text < room THEN text ELSE room, heads |-> 1]

SomeReply(i) ==
    \E want \in 0 .. MaxReply : \E text \in 0 .. want, room \in 0 .. MaxReply :
        reply' = [reply EXCEPT ![i] = Replied(i, want, text, room)]

\* request_cb_ with this body: it calls the sender at once, or keeps it.
RequestCallback(i, body) ==
    /\ dispatched' = [dispatched EXCEPT ![i] = Append(@, body)]
    /\ \/ SomeReply(i) /\ UNCHANGED pending
       \/ pending' = [pending EXCEPT ![i] = @ + 1] /\ UNCHANGED reply

NoCallback == UNCHANGED <<dispatched, pending, reply>>

\* Mutant of EndOfStream: on_stream_close_cb does not erase.
EndOfStreamKeepsData(i, data) ==
    /\ stream' = [stream EXCEPT ![i] =
                    IF reply'[i].status = "sent" THEN "closed" ELSE "ended"]
    /\ streams_data' = data

\* After the callbacks of a frame that ends the client's side, nghttp2 closes
\* the stream if the reply is out, and on_stream_close_cb erases its data.
EndOfStream(i, data) ==
    IF reply'[i].status = "sent"
    THEN /\ stream' = [stream EXCEPT ![i] = "closed"]
         /\ streams_data' = Restrict(data, DOMAIN data \ {i})
    ELSE /\ stream' = [stream EXCEPT ![i] = "ended"]
         /\ streams_data' = data

\* Mutant of Collect: the new body is appended to the old one.
CollectTwice(i, body) ==
    [j \in DOMAIN streams_data \cup {i} |->
        IF j # i THEN streams_data[j]
        ELSE IF i \in DOMAIN streams_data THEN streams_data[i] + body ELSE body]

\* streams_data_[i] = body
Collect(i, body) ==
    [j \in DOMAIN streams_data \cup {i} |-> IF j = i THEN body ELSE streams_data[j]]

-----------------------------------------------------------------------------

Start ==
    /\ conn = "new"
    /\ conn' \in {"handshake", "up"}
    /\ UNCHANGED <<broken, stream, streams_data, frame, sent, dispatched,
                   pending, reply, misused>>

HandshakeDone ==
    /\ conn = "handshake"
    /\ conn' \in {"up", "gone"}
    /\ UNCHANGED <<broken, stream, streams_data, frame, sent, dispatched,
                   pending, reply, misused>>

\* Between two frames of a connection that is read.
BetweenFrames == conn = "up" /\ frame = NoFrame

\* on_header_cb makes the entry; on_frame_recv_cb dispatches if this HEADERS
\* frame is the whole request.
ReceiveHeaders(i, end) ==
    /\ BetweenFrames
    /\ stream[i] = "idle"
    /\ IF end
       THEN RequestCallback(i, 0) /\ EndOfStream(i, Collect(i, 0))
       ELSE /\ NoCallback
            /\ stream' = [stream EXCEPT ![i] = "open"]
            /\ streams_data' = Collect(i, 0)
    /\ UNCHANGED <<conn, broken, frame, sent, misused>>

\* The header of a DATA frame with "size" pieces.  An empty one reaches no
\* callback that looks at its END_STREAM.
ReceiveDataHeader(i, size, end) ==
    /\ BetweenFrames
    /\ stream[i] = "open"
    /\ sent[i] + size <= MaxBody
    /\ sent' = [sent EXCEPT ![i] = @ + size]
    /\ NoCallback
    /\ IF size > 0
       THEN /\ frame' = [stream |-> i, left |-> size, end |-> end]
            /\ UNCHANGED <<stream, streams_data>>
       ELSE /\ end
            /\ EndOfStream(i, streams_data)
            /\ UNCHANGED frame
    /\ UNCHANGED <<conn, broken, misused>>

\* Mutant of ReceiveDataChunk: the piece replaces the body.
ReceiveDataChunkAssigns ==
    /\ conn = "up"
    /\ frame # NoFrame
    /\ LET i == frame.stream
       IN  /\ IF frame.end THEN RequestCallback(i, 1) ELSE NoCallback
           /\ IF frame.end /\ frame.left = 1
              THEN EndOfStream(i, Collect(i, 1))
              ELSE streams_data' = Collect(i, 1) /\ UNCHANGED stream
    /\ frame' = IF frame.left = 1 THEN NoFrame ELSE [frame EXCEPT !.left = @ - 1]
    /\ UNCHANGED <<conn, broken, sent, misused>>

\* Mutant of ReceiveDataChunk: a stream is dispatched for the first piece of the
\* last frame only.
ReceiveDataChunkOnce ==
    /\ conn = "up"
    /\ frame # NoFrame
    /\ LET i == frame.stream
           body == streams_data[i] + 1
       IN  /\ IF frame.end /\ dispatched[i] = <<>>
              THEN RequestCallback(i, body) ELSE NoCallback
           /\ IF frame.end /\ frame.left = 1
              THEN EndOfStream(i, Collect(i, body))
              ELSE streams_data' = Collect(i, body) /\ UNCHANGED stream
    /\ frame' = IF frame.left = 1 THEN NoFrame ELSE [frame EXCEPT !.left = @ - 1]
    /\ UNCHANGED <<conn, broken, sent, misused>>

\* Mutant of ReceiveDataChunk: when a frame that ends the stream is complete,
\* on_frame_recv_cb dispatches the request as well.
ReceiveDataChunkTwice ==
    /\ conn = "up"
    /\ frame # NoFrame
    /\ LET i == frame.stream
           body == streams_data[i] + 1
       IN  /\ IF frame.end /\ frame.left = 1
              THEN /\ dispatched' = [dispatched EXCEPT ![i] = @ \o <<body, body>>]
                   /\ pending' = [pending EXCEPT ![i] = @ + 2]
                   /\ UNCHANGED reply
              ELSE IF frame.end THEN RequestCallback(i, body) ELSE NoCallback
           /\ IF frame.end /\ frame.left = 1
              THEN EndOfStream(i, Collect(i, body))
              ELSE streams_data' = Collect(i, body) /\ UNCHANGED stream
    /\ frame' = IF frame.left = 1 THEN NoFrame ELSE [frame EXCEPT !.left = @ - 1]
    /\ UNCHANGED <<conn, broken, sent, misused>>

\* on_data_chunk_recv_cb with the next piece of the frame.
ReceiveDataChunk ==
    /\ conn = "up"
    /\ frame # NoFrame
    /\ LET i == frame.stream
           body == streams_data[i] + 1
       IN  /\ IF frame.end THEN RequestCallback(i, body) ELSE NoCallback
           /\ IF frame.end /\ frame.left = 1
              THEN EndOfStream(i, Collect(i, body))
              ELSE streams_data' = Collect(i, body) /\ UNCHANGED stream
    /\ frame' = IF frame.left = 1 THEN NoFrame ELSE [frame EXCEPT !.left = @ - 1]
    /\ UNCHANGED <<conn, broken, sent, misused>>

\* HEADERS after the body: neither callback handles them.
ReceiveTrailers(i) ==
    /\ BetweenFrames
    /\ stream[i] = "open"
    /\ NoCallback
    /\ EndOfStream(i, streams_data)
    /\ UNCHANGED <<conn, broken, frame, sent, misused>>

ReceiveReset(i) ==
    /\ BetweenFrames
    /\ stream[i] \in {"open", "ended"}
    /\ stream' = [stream EXCEPT ![i] = "closed"]
    /\ streams_data' = Restrict(streams_data, DOMAIN streams_data \ {i})
    /\ UNCHANGED <<conn, broken, frame, sent, dispatched, pending, reply, misused>>

\* WINDOW_UPDATE: write_data resumes the reply that was put off.  What
\* read_callback finds behind its pointer by then may be anything.
ReceiveWindowUpdate(i) ==
    /\ BetweenFrames
    /\ ~broken
    /\ stream[i] # "closed"
    /\ reply[i].status = "deferred"
    /\ \E read \in 0 .. MaxReply :
        reply' = [reply EXCEPT ![i] = [@ EXCEPT !.status = "sent", !.got = read]]
    /\ IF stream[i] = "ended"
       THEN EndOfStream(i, streams_data)
       ELSE UNCHANGED <<stream, streams_data>>
    /\ UNCHANGED <<conn, broken, frame, sent, dispatched, pending, misused>>

\* Mutant of CallSender: send_response is not followed by write_data.
CallSenderUnwritten(i) ==
    /\ pending[i] > 0
    /\ pending' = [pending EXCEPT ![i] = @ - 1]
    /\ misused' = (misused \/ conn = "gone")
    /\ UNCHANGED <<conn, broken, stream, streams_data, frame, sent, dispatched, reply>>

\* A sender is called after the callback that made it: its forwarded request
\* has come to its end.  It holds a plain pointer to the session.
CallSender(i) ==
    /\ pending[i] > 0
    /\ pending' = [pending EXCEPT ![i] = @ - 1]
    /\ IF conn = "gone"
       THEN misused' = TRUE /\ UNCHANGED <<stream, streams_data, reply>>
       ELSE /\ SomeReply(i)
            /\ IF stream[i] = "ended"
               THEN EndOfStream(i, streams_data)
               ELSE UNCHANGED <<stream, streams_data>>
            /\ UNCHANGED misused
    /\ UNCHANGED <<conn, broken, frame, sent, dispatched>>

\* The client is gone for the writer before the reader hears of it.
SocketBreaks ==
    /\ conn = "up"
    /\ ~broken
    /\ broken' = TRUE
    /\ UNCHANGED <<conn, stream, streams_data, frame, sent, dispatched, pending,
                   reply, misused>>

\* The read handler is given an error, or mem_recv refuses the data: nothing is
\* read any more, and with the handler goes the last reference to the Session.
ReadFails ==
    /\ conn = "up"
    /\ conn' = "gone"
    /\ streams_data' = <<>>
    /\ frame' = NoFrame
    /\ UNCHANGED <<broken, stream, sent, dispatched, pending, reply, misused>>

Receive(i) ==
    \/ \E end \in BOOLEAN : ReceiveHeaders(i, end)
    \/ \E size \in 0 .. MaxBody, end \in BOOLEAN : ReceiveDataHeader(i, size, end)
    \/ ReceiveTrailers(i)
    \/ ReceiveReset(i)
    \/ ReceiveWindowUpdate(i)

Next ==
    \/ Start \/ HandshakeDone
    \/ \E i \in Streams : Receive(i) \/ CallSender(i)
    \/ ReceiveDataChunk
    \/ SocketBreaks \/ ReadFails

Spec == Init /\ [][Next]_vars

\* Every forwarded request comes to its end (ProxyHandler: unless the backend
\* falls silent), and a broken socket is noticed.  The client owes nothing.
FairSpec ==
    /\ Spec
    /\ \A i \in Streams : WF_vars(CallSender(i))
    /\ WF_vars(broken /\ ReadFails)
-----------------------------------------------------------------------------

TypeOK ==
    /\ conn \in {"new", "handshake", "up", "gone"}
    /\ broken \in BOOLEAN
    /\ stream \in [Streams -> {"idle", "open", "ended", "closed"}]
    /\ DOMAIN streams_data \subseteq Streams
    /\ \A i \in DOMAIN streams_data : streams_data[i] \in 0 .. MaxBody
    /\ frame \in Frames \cup {NoFrame}
    /\ sent \in [Streams -> 0 .. MaxBody]
    /\ dispatched \in [Streams -> Seq(0 .. MaxBody)]
    /\ pending \in [Streams -> Nat]
    /\ reply \in [Streams -> [status : {"none", "deferred", "sent"},
                              want : 0 .. MaxReply, got : 0 .. MaxReply,
                              heads : Nat]]
    /\ misused \in BOOLEAN

Live(i) == stream[i] \in {"open", "ended"}

\* streams_data_ follows nghttp2's own table of streams: while the session is
\* read, exactly the streams that nghttp2 has open have an entry, so a callback
\* never revives a closed stream and no entry outlives its stream.
StreamDataLive ==
    conn = "up" => DOMAIN streams_data = {i \in Streams : Live(i)}

\* However the body is cut into frames and the frames into reads, no piece is
\* lost, doubled or given to another stream: what is collected and what is still
\* to come of the current frame make up what the client has sent.
BodyAccounted ==
    conn = "up" => \A i \in Streams : Live(i) =>
        streams_data[i] + (IF frame # NoFrame /\ frame.stream = i THEN frame.left ELSE 0)
            = sent[i]

\* A stream that is dispatched more than once is dispatched with ever more of
\* its body, and once its last frame is in, the last dispatch had all of it.
LastDispatchComplete ==
    \A i \in Streams :
        /\ \A m, n \in DOMAIN dispatched[i] : m < n => dispatched[i][m] < dispatched[i][n]
        /\ stream[i] = "ended" /\ dispatched[i] # <<>> => Last(dispatched[i]) = sent[i]

\* A dispatched request is not forgotten: while its stream lives, a sender is still
\* to be called, or the reply waits for the window, or it is out and only the
\* client's side is open - or the connection fails.  No path through the callbacks,
\* the several dispatches and their senders leaves a stream that nobody will close.
NoDispatchForgotten ==
    \A i \in Streams : Live(i) /\ dispatched[i] # <<>> =>
        \/ pending[i] > 0
        \/ reply[i].status = "deferred"
        \/ reply[i].status = "sent" /\ stream[i] = "open"
        \/ broken
        \/ conn = "gone"

\* However a body is cut and dispatched, a request that request_cb_ is given whole
\* is not given to it again, so its stream gets the HEADERS of at most one reply.
\* More than one go out only where the first dispatch had less than the client has
\* sent by now, and the window held its reply back; never more than dispatches.
OneReplyPerWholeRequest ==
    \A i \in Streams :
        /\ reply[i].heads <= Len(dispatched[i])
        /\ reply[i].heads > 1 => dispatched[i][1] < sent[i]

\* A request that was dispatched and whose client has ended its side is answered
\* and its stream closed, unless the connection is lost or the client leaves no
\* window for the reply.
DispatchedStreamsClose ==
    \A i \in Streams :
        (stream[i] = "ended" /\ dispatched[i] # <<>>)
            ~> (stream[i] = "closed" \/ conn = "gone" \/ reply[i].status = "deferred")

\* session.cpp:143, "If this is the end, then process it": a request that has
\* been received to its end has been given to request_cb_.
EndedRequestIsProcessed ==
    \A i \in Streams : stream[i] = "ended" => dispatched[i] # <<>>

\* session.cpp:200, "Processing complete request with body": what is given to
\* request_cb_ is the whole request.
CompleteRequestIsProcessed ==
    \A i \in Streams :
        frame # NoFrame /\ frame.stream = i => dispatched[i] = <<>>

\* session.cpp:151, "Create sender function that captures the session": the
\* session is there when the sender uses it.
SenderHasSession == ~misused
=============================================================================
