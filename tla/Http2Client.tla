----------------------------- MODULE Http2Client -----------------------------
(***************************************************************************)
(* Http2Client of transport/http2_client: the asynchronous HTTP/2 client   *)
(* the tunnel registers with.  Each send_request makes a socket, a         *)
(* connection and an nghttp2 session of its own, but the object has ONE    *)
(* member for each of them, and as every new session numbers its streams   *)
(* from 1, one entry of streams_ for all the requests.  Requests that      *)
(* overlap, or follow one that was lost, meet in these members.            *)
(*                                                                         *)
(* A socket or a connection is named by the call that made it.  What a     *)
(* connection carries to the server, and what the server answers on it, is *)
(* the environment's; so is nghttp2, which is modelled from its use: a     *)
(* second preface on a connection is never served, and the frames of a     *)
(* stream come in order, its close last and once.  The handlers run on one *)
(* thread, and a host has one address.                                     *)
(***************************************************************************)
EXTENDS Naturals, Sequences

CONSTANTS
    Http2Calls, \* calls of send_request
    NoCall      \* "none of them": a null pointer, an absent value

ASSUME NoCallAssumption == NoCall \notin Http2Calls

VARIABLES
    op,         \* the pending operation of each call
    socket_,    \* socket_: the socket of this call
    streams_,   \* streams_[1], the one entry that is ever used
    via,        \* the socket each call has connected, unless it was closed
    wire,       \* the connection that each socket has
    reading,    \* sockets with a pending async_read_some
    carries,    \* the request that each connection has brought the server
    answer,     \* what the server has answered on each connection
    progress,   \* how much of the answer the client has been given
    outcome,    \* the calls each caller's callback got
    overlapped, \* history: calls made, or pending, while another was pending
    lost        \* history: sockets whose read failed

http2Vars == <<op, socket_, streams_, via, wire, reading, carries, answer,
               progress, outcome, overlapped, lost>>

OpStates == {"idle", "resolving", "connecting", "sent", "failed"}

NoAnswer == 0
AnswerCodes == {200, 400}

\* streams_[1]: the callback, response.status_code and where the body came from.
\* A status has the call whose answer it is beside its code.
NoStatus == [of |-> NoCall, code |-> NoAnswer]
Statuses == [of : Http2Calls, code : AnswerCodes] \cup {NoStatus}
NoEntry == [callback |-> NoCall, status |-> NoStatus, body |-> {}]
Entries == [callback : Http2Calls \cup {NoCall}, status : Statuses, body : SUBSET Http2Calls]

\* What a callback is given: an error, or a response.
Failure == [failed |-> TRUE, status |-> NoStatus, body |-> {}]
Response(status, body) == [failed |-> FALSE, status |-> status, body |-> body]
Outcomes == [failed : BOOLEAN, status : Statuses, body : SUBSET Http2Calls]

\* The caller waits for its callback.
Awaited(c) == op[c] \in {"resolving", "connecting", "sent"} /\ outcome[c] = <<>>

-----------------------------------------------------------------------------

Http2Init ==
    /\ op = [c \in Http2Calls |-> "idle"]
    /\ socket_ = NoCall
    /\ streams_ = NoEntry
    /\ via = [c \in Http2Calls |-> NoCall]
    /\ wire = [c \in Http2Calls |-> NoCall]
    /\ reading = {}
    /\ carries = [c \in Http2Calls |-> NoCall]
    /\ answer = [c \in Http2Calls |-> NoAnswer]
    /\ progress = [c \in Http2Calls |-> "none"]
    /\ outcome = [c \in Http2Calls |-> <<>>]
    /\ overlapped = {}
    /\ lost = {}

CallBack(c, result) == outcome' = [outcome EXCEPT ![c] = Append(@, result)]

\* send_request, connect_and_send: a new socket replaces the one before.
Http2Send(c) ==
    /\ op[c] = "idle"
    /\ op' = [op EXCEPT ![c] = "resolving"]
    /\ socket_' = c
    /\ LET others == {d \in Http2Calls : Awaited(d)}
       IN  overlapped' = IF others = {} THEN overlapped
                                        ELSE overlapped \cup others \cup {c}
    /\ UNCHANGED <<streams_, via, wire, reading, carries, answer, progress, outcome, lost>>

\* The resolve handler: it connects the socket that is socket_ by now, and
\* async_connect first closes what that socket was used for before.
Http2Resolved(c) ==
    /\ op[c] = "resolving"
    /\ op' = [op EXCEPT ![c] = "connecting"]
    /\ via' = [d \in Http2Calls |-> IF d = c THEN socket_
                                    ELSE IF via[d] = socket_ THEN NoCall ELSE via[d]]
    /\ wire' = [wire EXCEPT ![socket_] = NoCall]
    /\ reading' = reading \ {socket_}
    /\ UNCHANGED <<socket_, streams_, carries, answer, progress, outcome, overlapped, lost>>

\* Mutant of Http2ConnectFails: the handler calls back but does not return.
Http2ConnectFailsGoesOn(c) ==
    /\ op[c] \in {"resolving", "connecting"}
    /\ op' = [op EXCEPT ![c] = "connecting"]
    /\ via' = [via EXCEPT ![c] = socket_]
    /\ Len(outcome[c]) < 2
    /\ CallBack(c, Failure)
    /\ UNCHANGED <<socket_, streams_, wire, reading, carries, answer, progress, overlapped, lost>>

\* The resolve handler or the connect handler is given an error.
Http2ConnectFails(c) ==
    /\ op[c] \in {"resolving", "connecting"}
    /\ op' = [op EXCEPT ![c] = "failed"]
    /\ CallBack(c, Failure)
    /\ UNCHANGED <<socket_, streams_, via, wire, reading, carries, answer,
                   progress, overlapped, lost>>

\* What socket_ is connected by when the connect handler of c runs: the
\* connection it has, or - a write to a socket that is being connected waits for
\* it - the one it is about to have.  NoCall: none.
Outlets(c) ==
    {IF via[c] = socket_ THEN c ELSE wire[socket_]} \cup
        {d \in Http2Calls \ {c} : op[d] = "connecting" /\ via[d] = socket_}

\* write_data: the first request that is written on a connection reaches the
\* server, a later one is behind a second preface.  An error is only logged.
Written(c) ==
    \/ UNCHANGED carries
    \/ \E outlet \in Outlets(c) \ {NoCall} :
        /\ carries[outlet] = NoCall
        /\ carries' = [carries EXCEPT ![outlet] = c]

\* The connect handler: a new session, an entry for its stream 1 - whatever is
\* left in it of an earlier request - and a read of socket_.
Http2Connected(c) ==
    /\ op[c] = "connecting"
    /\ op' = [op EXCEPT ![c] = "sent"]
    /\ wire' = [s \in Http2Calls |-> IF s = via[c] THEN c ELSE wire[s]]
    /\ streams_' = [streams_ EXCEPT !.callback = c]
    /\ Written(c)
    /\ reading' = reading \cup {socket_}
    /\ UNCHANGED <<socket_, via, answer, progress, outcome, overlapped, lost>>

-----------------------------------------------------------------------------

\* A read of a socket that was replaced completes only if its data was there
\* already, and then before the new socket's address is resolved.
Readable(s) ==
    /\ s \in reading
    /\ wire[s] # NoCall
    /\ s = socket_ \/ op[socket_] = "resolving"

\* Mutant of ReadOn: the read handler does not call read_data again.
ReadOnce(s) == reading' = reading \ {s}

\* read_data, after the frames were handled, reads socket_; one that is not
\* connected yet fails at once.
ReadOn(s) == reading' = IF s = socket_ THEN reading ELSE reading \ {s}

\* A read handler is given frames of an answer and hands them to nghttp2.
Receive(s, from, to) ==
    /\ Readable(s)
    /\ answer[wire[s]] # NoAnswer
    /\ progress[wire[s]] = from
    /\ progress' = [progress EXCEPT ![wire[s]] = to]
    /\ ReadOn(s)
    /\ UNCHANGED <<op, socket_, via, wire, carries, answer, overlapped, lost>>

HasEntry == streams_.callback # NoCall

\* on_header_cb
OnHeader(s) ==
    /\ Receive(s, "none", "status")
    /\ streams_' = IF HasEntry
                   THEN [streams_ EXCEPT !.status =
                            [of |-> carries[wire[s]], code |-> answer[wire[s]]]]
                   ELSE streams_
    /\ UNCHANGED outcome

\* on_data_chunk_recv_cb
OnDataChunk(s) ==
    /\ Receive(s, "status", "body")
    /\ streams_' = IF HasEntry
                   THEN [streams_ EXCEPT !.body = @ \cup {carries[wire[s]]}]
                   ELSE streams_
    /\ UNCHANGED outcome

\* Mutant of CloseStream: the entry is not erased.
CloseStreamKeepsEntry ==
    IF HasEntry /\ Len(outcome[streams_.callback]) < 2
    THEN /\ CallBack(streams_.callback, Response(streams_.status, streams_.body))
         /\ UNCHANGED streams_
    ELSE UNCHANGED <<streams_, outcome>>

\* on_stream_close_cb.  The error code is not looked at.
CloseStream ==
    IF HasEntry
    THEN /\ CallBack(streams_.callback, Response(streams_.status, streams_.body))
         /\ streams_' = NoEntry
    ELSE UNCHANGED <<streams_, outcome>>

OnStreamClose(s) == Receive(s, "body", "closed") /\ CloseStream

\* The server resets the stream, say because the body was cut by send_http2_request.
OnStreamReset(s) ==
    /\ Readable(s)
    /\ progress[wire[s]] # "closed"
    /\ progress' = [progress EXCEPT ![wire[s]] = "closed"]
    /\ ReadOn(s)
    /\ CloseStream
    /\ UNCHANGED <<op, socket_, via, wire, carries, answer, overlapped, lost>>

\* The read handler is given an error, or nghttp2 rejects the bytes: it returns,
\* and nobody is told.
ReadFails(s) ==
    /\ s \in reading
    /\ reading' = reading \ {s}
    /\ lost' = lost \cup {s}
    /\ UNCHANGED <<op, socket_, streams_, via, wire, carries, answer, progress,
                   outcome, overlapped>>

HandleRead2(s) ==
    OnHeader(s) \/ OnDataChunk(s) \/ OnStreamClose(s) \/ OnStreamReset(s) \/ ReadFails(s)

Http2Handler(c) ==
    Http2Resolved(c) \/ Http2ConnectFails(c) \/ Http2Connected(c)

\* The environment: the server answers the request of connection w.
Answered(w, code) ==
    /\ carries[w] # NoCall
    /\ answer[w] = NoAnswer
    /\ answer' = [answer EXCEPT ![w] = code]
    /\ UNCHANGED <<op, socket_, streams_, via, wire, reading, carries, progress,
                   outcome, overlapped, lost>>

Http2Next ==
    \E c \in Http2Calls :
        \/ Http2Send(c)
        \/ Http2Handler(c)
        \/ HandleRead2(c)
        \/ \E code \in AnswerCodes : Answered(c, code)

Http2Spec == Http2Init /\ [][Http2Next]_http2Vars

-----------------------------------------------------------------------------

Http2TypeOK ==
    /\ op \in [Http2Calls -> OpStates]
    /\ socket_ \in Http2Calls \cup {NoCall}
    /\ streams_ \in Entries
    /\ via \in [Http2Calls -> Http2Calls \cup {NoCall}]
    /\ wire \in [Http2Calls -> Http2Calls \cup {NoCall}]
    /\ reading \subseteq Http2Calls
    /\ carries \in [Http2Calls -> Http2Calls \cup {NoCall}]
    /\ answer \in [Http2Calls -> AnswerCodes \cup {NoAnswer}]
    /\ progress \in [Http2Calls -> {"none", "status", "body", "closed"}]
    /\ outcome \in [Http2Calls -> Seq(Outcomes)]
    /\ overlapped \subseteq Http2Calls
    /\ lost \subseteq Http2Calls

\* However the calls overlap, and whichever of them share the entry of stream 1,
\* no callback is called twice: on_stream_close_cb and the error paths of the
\* resolve and the connect handler exclude each other for each call.
CalledBackAtMostOnce == \A c \in Http2Calls : Len(outcome[c]) <= 1

\* A call that was made when no other was pending, and had none join it, is given
\* a status and a body of its own answer only, or none: nothing of an earlier
\* call is left in streams_[1] or on the old socket.
SoloResponseIsOwn ==
    \A c \in Http2Calls \ overlapped : \A i \in DOMAIN outcome[c] :
        /\ outcome[c][i].status.of \in {c, NoCall}
        /\ outcome[c][i].body \subseteq {c}

\* While the caller of a call that no other overlapped waits for an answer, and its
\* connection is not lost, there is somebody left to call it: the entry of stream 1
\* has its callback, socket_ is its own socket, on its own connection, with a read
\* pending, and the stream has not been closed.  None of the returns, of the reads
\* that stop or of the entries that are replaced leaves it behind.
CallbackNotForgotten ==
    \A c \in Http2Calls \ (overlapped \cup lost) : op[c] = "sent" /\ outcome[c] = <<>> =>
        /\ streams_.callback = c
        /\ socket_ = c /\ wire[c] = c /\ c \in reading
        /\ progress[c] # "closed"
=============================================================================
