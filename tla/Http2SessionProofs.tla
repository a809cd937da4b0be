--------------------------- MODULE Http2SessionProofs ---------------------------
(***************************************************************************)
(* Theorems about the HTTP/2 front end, for any number of streams and for  *)
(* bodies of any length, however they are cut into frames and pieces.      *)
(***************************************************************************)
EXTENDS Http2Session, SequenceTheorems, TLAPS

-----------------------------------------------------------------------------
(* The inductive invariant. *)

\* What is still to come of the frame that is partly received.
InFrame(i) == frame # NoFrame /\ frame.stream = i
Coming(i) == IF InFrame(i) THEN frame.left ELSE 0

\* One stream: it has an entry while it lives, which holds what the client has
\* sent but for the rest of the current frame; what was dispatched of it is not
\* more than that, and nothing before its last frame.
StreamInv(i) ==
    /\ conn \in {"new", "handshake"} => stream[i] = "idle"
    /\ stream[i] = "idle" =>
            sent[i] = 0 /\ dispatched[i] = <<>> /\ pending[i] = 0 /\ reply[i] = NoReply
    /\ conn # "gone" => (i \in DOMAIN streams_data <=> Live(i))
    /\ conn = "up" /\ Live(i) =>
            /\ streams_data[i] + Coming(i) = sent[i]
            /\ \A n \in DOMAIN dispatched[i] : dispatched[i][n] <= streams_data[i]
    /\ conn = "up" /\ stream[i] = "open" /\ dispatched[i] # <<>> => InFrame(i) /\ frame.end
    /\ \A m, n \in DOMAIN dispatched[i] : m < n => dispatched[i][m] < dispatched[i][n]
    /\ stream[i] = "ended" /\ dispatched[i] # <<>> => Last(dispatched[i]) = sent[i]

\* A frame is received on an open stream of a session that is read.
FrameInv == frame # NoFrame => conn = "up" /\ stream[frame.stream] = "open"

Inv == TypeOK /\ FrameInv /\ \A i \in Streams : StreamInv(i)

-----------------------------------------------------------------------------
(* What the helpers do. *)

ReplyType == [status : {"none", "deferred", "sent"}, want : 0 .. MaxReply, got : 0 .. MaxReply,
              heads : Nat]

\* No frame is taken for none.
LEMMA FramesDistinct == \A f \in Frames : f # NoFrame
  <1>. SUFFICES ASSUME NEW f \in Frames PROVE f # NoFrame
    OBVIOUS
  <1>1. DOMAIN f = {"stream", "left", "end"} /\ DOMAIN NoFrame = {"stream"}
    BY DEF Frames, NoFrame
  <1>. QED  BY <1>1

\* The sender changes the reply of its own stream, to a reply.
LEMMA SomeReplyType ==
    ASSUME Inv, NEW i \in Streams, SomeReply(i)
    PROVE  /\ reply' \in [Streams -> ReplyType]
           /\ \A j \in Streams \ {i} : reply'[j] = reply[j]
  <1>0. PICK want \in 0 .. MaxReply : \E text \in 0 .. want, room \in 0 .. MaxReply :
            reply' = [reply EXCEPT ![i] = Replied(i, want, text, room)]
    BY DEF SomeReply
  <1>1. PICK text \in 0 .. want, room \in 0 .. MaxReply :
            reply' = [reply EXCEPT ![i] = Replied(i, want, text, room)]
    BY <1>0
  <1>2. reply \in [Streams -> ReplyType]
    BY DEF Inv, TypeOK, ReplyType
  <1>3. [reply[i] EXCEPT !.status = IF want = 0 THEN "sent" ELSE "deferred", !.heads = @ + 1]
            \in ReplyType
    <2>1. reply[i] \in ReplyType /\ (IF want = 0 THEN "sent" ELSE "deferred") \in {"sent", "deferred"}
      BY <1>2
    <2>2. reply[i].heads + 1 \in Nat
      BY <2>1 DEF ReplyType
    <2>. QED  BY <2>1, <2>2 DEF ReplyType
  <1>4. (IF text < room THEN text ELSE room) \in 0 .. MaxReply
    BY BoundsAssumption
  <1>5. [status |-> IF want > 0 /\ room = 0 THEN "deferred" ELSE "sent", want |-> want,
         got |-> IF text < room THEN text ELSE room, heads |-> 1] \in ReplyType
    BY <1>4 DEF ReplyType
  <1>6. Replied(i, want, text, room) \in ReplyType
    BY <1>2, <1>3, <1>5 DEF Replied
  <1>. QED  BY <1>1, <1>2, <1>6

\* A dispatch is appended to the stream's own, and changes no other stream.
LEMMA RequestCallbackType ==
    ASSUME Inv, NEW i \in Streams, NEW body \in 0 .. MaxBody, RequestCallback(i, body)
    PROVE  /\ dispatched' \in [Streams -> Seq(0 .. MaxBody)]
           /\ dispatched'[i] = Append(dispatched[i], body)
           /\ pending' \in [Streams -> Nat]
           /\ reply' \in [Streams -> ReplyType]
           /\ \A j \in Streams \ {i} :
                dispatched'[j] = dispatched[j] /\ pending'[j] = pending[j] /\ reply'[j] = reply[j]
  <1>1. /\ dispatched' \in [Streams -> Seq(0 .. MaxBody)]
        /\ dispatched'[i] = Append(dispatched[i], body)
        /\ \A j \in Streams \ {i} : dispatched'[j] = dispatched[j]
    BY DEF RequestCallback, Inv, TypeOK
  <1>2. /\ pending' \in [Streams -> Nat]
        /\ \A j \in Streams \ {i} : pending'[j] = pending[j]
    <2>1. pending \in [Streams -> Nat]
      BY DEF Inv, TypeOK
    <2>2. pending' = pending \/ pending' = [pending EXCEPT ![i] = @ + 1]
      BY DEF RequestCallback
    <2>3. CASE pending' = pending
      BY <2>1, <2>3
    <2>4. CASE pending' = [pending EXCEPT ![i] = @ + 1]
      BY <2>1, <2>4
    <2>. QED  BY <2>2, <2>3, <2>4
  <1>3. /\ reply' \in [Streams -> ReplyType]
        /\ \A j \in Streams \ {i} : reply'[j] = reply[j]
    BY SomeReplyType DEF RequestCallback, Inv, TypeOK, ReplyType
  <1>. QED  BY <1>1, <1>2, <1>3

\* An entry is set, and the others are left.
LEMMA CollectType ==
    ASSUME Inv, NEW i \in Streams, NEW body \in 0 .. MaxBody
    PROVE  /\ DOMAIN Collect(i, body) = DOMAIN streams_data \cup {i}
           /\ DOMAIN Collect(i, body) \subseteq Streams
           /\ Collect(i, body)[i] = body
           /\ \A j \in DOMAIN streams_data \ {i} : Collect(i, body)[j] = streams_data[j]
           /\ \A j \in DOMAIN Collect(i, body) : Collect(i, body)[j] \in 0 .. MaxBody
  BY DEF Collect, Inv, TypeOK

\* The client's side of a stream ends: its entry goes if the stream is closed.
LEMMA EndOfStreamType ==
    ASSUME Inv, NEW i \in Streams, NEW data, EndOfStream(i, data)
    PROVE  /\ stream' \in [Streams -> {"idle", "open", "ended", "closed"}]
           /\ \A j \in Streams \ {i} : stream'[j] = stream[j]
           /\ \/ stream'[i] = "closed" /\ DOMAIN streams_data' = DOMAIN data \ {i}
              \/ stream'[i] = "ended" /\ DOMAIN streams_data' = DOMAIN data
           /\ \A j \in DOMAIN streams_data' : streams_data'[j] = data[j]
  <1>1. CASE reply'[i].status = "sent"
    BY <1>1 DEF EndOfStream, Restrict, Inv, TypeOK
  <1>2. CASE reply'[i].status # "sent"
    BY <1>2 DEF EndOfStream, Inv, TypeOK
  <1>. QED  BY <1>1, <1>2

\* A step on one stream leaves the others as they are.
LEMMA OtherStreams ==
    ASSUME Inv, NEW i \in Streams, conn' = conn,
           \A j \in Streams \ {i} :
                /\ stream'[j] = stream[j] /\ sent'[j] = sent[j] /\ dispatched'[j] = dispatched[j]
                /\ pending'[j] = pending[j] /\ reply'[j] = reply[j]
                /\ j \in DOMAIN streams_data' <=> j \in DOMAIN streams_data
                /\ j \in DOMAIN streams_data => streams_data'[j] = streams_data[j],
           frame' = frame \/ \A j \in Streams \ {i} : ~InFrame(j) /\ ~InFrame(j)'
    PROVE  \A j \in Streams \ {i} : StreamInv(j)'
  <1>. SUFFICES ASSUME NEW j \in Streams \ {i}
                PROVE  StreamInv(j)'
    OBVIOUS
  <1>1. StreamInv(j)
    BY DEF Inv
  <1>2. Coming(j)' = Coming(j) /\ (InFrame(j)' <=> InFrame(j))
        /\ (InFrame(j) => frame' = frame)
    BY DEF Coming, InFrame
  <1>3. Live(j)' <=> Live(j)
    BY DEF Live
  <1>. QED  BY <1>1, <1>2, <1>3 DEF StreamInv

-----------------------------------------------------------------------------
(* The steps. *)

\* Nothing has happened on any stream of a new session.
LEMMA InitInv == Init => Inv
  <1>. SUFFICES ASSUME Init PROVE Inv
    OBVIOUS
  <1>. USE DEF Init
  <1>1. TypeOK
    <2>1. broken \in BOOLEAN /\ misused \in BOOLEAN
      OBVIOUS
    <2>2. reply \in [Streams -> ReplyType]
      BY BoundsAssumption DEF NoReply, ReplyType
    <2>3. /\ sent \in [Streams -> 0 .. MaxBody] /\ dispatched \in [Streams -> Seq(0 .. MaxBody)]
          /\ pending \in [Streams -> Nat] /\ DOMAIN streams_data = {}
      BY BoundsAssumption
    <2>. QED  BY <2>1, <2>2, <2>3 DEF TypeOK, ReplyType
  <1>2. FrameInv
    BY DEF FrameInv
  <1>3. \A i \in Streams : StreamInv(i)
    BY DEF StreamInv, Live
  <1>. QED  BY <1>1, <1>2, <1>3 DEF Inv

\* The connection comes up before there are streams.
LEMMA StartInv ==
    ASSUME Inv, Start \/ HandshakeDone
    PROVE  Inv'
  <1>. USE DEF Start, HandshakeDone
  <1>1. TypeOK' /\ FrameInv'
    BY DEF Inv, TypeOK, FrameInv
  <1>2. \A i \in Streams : stream[i] = "idle" /\ i \notin DOMAIN streams_data
    BY DEF Inv, StreamInv, Live
  <1>3. \A i \in Streams : StreamInv(i)'
    BY <1>2 DEF Inv, StreamInv, Live
  <1>. QED  BY <1>1, <1>3 DEF Inv

\* A HEADERS frame makes the entry of an idle stream, and may dispatch it with
\* no body.
LEMMA ReceiveHeadersInv ==
    ASSUME Inv, NEW i \in Streams, NEW end \in BOOLEAN, ReceiveHeaders(i, end)
    PROVE  Inv'
  <1>1. /\ conn = "up" /\ conn' = conn /\ frame = NoFrame /\ frame' = frame
        /\ stream[i] = "idle" /\ UNCHANGED <<broken, sent, misused>>
    BY DEF ReceiveHeaders, BetweenFrames
  <1>2. sent[i] = 0 /\ dispatched[i] = <<>> /\ StreamInv(i)
    BY <1>1 DEF Inv, StreamInv
  <1>3. 0 \in 0 .. MaxBody
    BY BoundsAssumption
  <1>4. FrameInv' /\ \A j \in Streams : ~InFrame(j) /\ ~InFrame(j)'
    BY <1>1 DEF FrameInv, InFrame
  <1>. DEFINE data == Collect(i, 0)
  <1>0. /\ DOMAIN data = DOMAIN streams_data \cup {i}
        /\ DOMAIN data \subseteq Streams
        /\ data[i] = 0
        /\ \A j \in DOMAIN streams_data \ {i} : data[j] = streams_data[j]
        /\ \A j \in DOMAIN data : data[j] \in 0 .. MaxBody
    BY <1>3, CollectType
  <1>. HIDE DEF data
  <1>5. CASE end
    <2>1. RequestCallback(i, 0) /\ EndOfStream(i, data)
      BY <1>5 DEF ReceiveHeaders, data
    <2>2. /\ dispatched' \in [Streams -> Seq(0 .. MaxBody)]
          /\ dispatched'[i] = Append(dispatched[i], 0)
          /\ pending' \in [Streams -> Nat]
          /\ reply' \in [Streams -> ReplyType]
          /\ \A j \in Streams \ {i} :
                dispatched'[j] = dispatched[j] /\ pending'[j] = pending[j] /\ reply'[j] = reply[j]
      BY <1>3, <2>1, RequestCallbackType
    <2>3. /\ stream' \in [Streams -> {"idle", "open", "ended", "closed"}]
          /\ \A j \in Streams \ {i} : stream'[j] = stream[j]
          /\ \/ stream'[i] = "closed" /\ DOMAIN streams_data' = DOMAIN streams_data \ {i}
             \/ stream'[i] = "ended" /\ DOMAIN streams_data' = DOMAIN streams_data \cup {i}
          /\ \A j \in DOMAIN streams_data' : streams_data'[j] = data[j]
      BY <1>0, <2>1, EndOfStreamType
    <2>4. TypeOK'
      BY <1>0, <1>1, <2>2, <2>3 DEF Inv, TypeOK, ReplyType
    <2>5. dispatched'[i] = <<0>> /\ Len(<<0>>) = 1
      BY <1>2, <2>2
    <2>6. StreamInv(i)'
      BY <1>0, <1>1, <1>2, <1>4, <2>3, <2>5 DEF StreamInv, Live, Coming, Last
    <2>7. \A j \in Streams \ {i} : StreamInv(j)'
      BY <1>0, <1>1, <2>2, <2>3, OtherStreams
    <2>. QED  BY <1>4, <2>4, <2>6, <2>7 DEF Inv
  <1>6. CASE ~end
    <2>1. /\ UNCHANGED <<dispatched, pending, reply>>
          /\ stream' = [stream EXCEPT ![i] = "open"] /\ streams_data' = data
      BY <1>6 DEF ReceiveHeaders, NoCallback, data
    <2>2. TypeOK'
      BY <1>0, <1>1, <2>1 DEF Inv, TypeOK
    <2>3. stream'[i] = "open" /\ \A j \in Streams \ {i} : stream'[j] = stream[j]
      BY <2>1 DEF Inv, TypeOK
    <2>4. StreamInv(i)'
      BY <1>0, <1>1, <1>2, <1>4, <2>1, <2>3 DEF StreamInv, Live, Coming
    <2>5. \A j \in Streams \ {i} : StreamInv(j)'
      BY <1>0, <1>1, <2>1, <2>3, OtherStreams
    <2>. QED  BY <1>4, <2>2, <2>4, <2>5 DEF Inv
  <1>. QED  BY <1>5, <1>6

\* The client's side of a stream ends between two frames, or its last reply is
\* written, with no request dispatched in the step.
LEMMA EndsInv ==
    ASSUME Inv, NEW i \in Streams, conn = "up",
           \/ stream[i] = "ended"
           \/ stream[i] = "open" /\ frame = NoFrame,
           EndOfStream(i, streams_data),
           reply' \in [Streams -> ReplyType], \A j \in Streams \ {i} : reply'[j] = reply[j],
           pending' \in [Streams -> Nat], \A j \in Streams \ {i} : pending'[j] = pending[j],
           UNCHANGED <<conn, broken, frame, sent, dispatched, misused>>
    PROVE  Inv'
  <1>1. /\ stream' \in [Streams -> {"idle", "open", "ended", "closed"}]
        /\ \A j \in Streams \ {i} : stream'[j] = stream[j]
        /\ \/ stream'[i] = "closed" /\ DOMAIN streams_data' = DOMAIN streams_data \ {i}
           \/ stream'[i] = "ended" /\ DOMAIN streams_data' = DOMAIN streams_data
        /\ \A j \in DOMAIN streams_data' : streams_data'[j] = streams_data[j]
    BY EndOfStreamType
  <1>2. TypeOK'
    BY <1>1 DEF Inv, TypeOK, ReplyType
  <1>3. FrameInv'
    BY <1>1, FramesDistinct DEF Inv, FrameInv, TypeOK, Frames
  <1>4. StreamInv(i)'
    BY <1>1, <1>3 DEF Inv, StreamInv, Live, Coming, InFrame
  <1>5. \A j \in Streams \ {i} : StreamInv(j)'
    BY <1>1, OtherStreams
  <1>. QED  BY <1>2, <1>3, <1>4, <1>5 DEF Inv

\* The header of a DATA frame announces the pieces that are still to come.
LEMMA ReceiveDataHeaderInv ==
    ASSUME Inv, NEW i \in Streams, NEW size \in 0 .. MaxBody, NEW end \in BOOLEAN,
           ReceiveDataHeader(i, size, end)
    PROVE  Inv'
  <1>1. /\ conn = "up" /\ conn' = conn /\ frame = NoFrame /\ stream[i] = "open"
        /\ sent[i] + size <= MaxBody /\ sent' = [sent EXCEPT ![i] = @ + size]
        /\ UNCHANGED <<broken, dispatched, pending, reply, misused>>
    BY DEF ReceiveDataHeader, BetweenFrames, NoCallback
  <1>2. CASE size > 0
    <2>1. /\ frame' = [stream |-> i, left |-> size, end |-> end]
          /\ UNCHANGED <<stream, streams_data>>
      BY <1>2 DEF ReceiveDataHeader
    <2>2. frame' \in Frames /\ frame' # NoFrame
      BY <1>2, <2>1, BoundsAssumption, FramesDistinct DEF Frames
    <2>3. sent' \in [Streams -> 0 .. MaxBody] /\ sent'[i] = sent[i] + size
          /\ \A j \in Streams \ {i} : sent'[j] = sent[j]
      BY <1>1, BoundsAssumption DEF Inv, TypeOK
    <2>4. TypeOK'
      BY <1>1, <2>1, <2>2, <2>3 DEF Inv, TypeOK
    <2>5. FrameInv'
      BY <1>1, <2>1 DEF FrameInv
    <2>6. StreamInv(i)'
      <3>1. Coming(i) = 0 /\ Coming(i)' = size /\ InFrame(i)' /\ dispatched[i] = <<>>
        BY <1>1, <2>1, <2>2 DEF Coming, InFrame, Inv, StreamInv
      <3>2. streams_data[i] \in Nat /\ sent[i] \in Nat /\ i \in DOMAIN streams_data
        BY <1>1, BoundsAssumption DEF Inv, TypeOK, StreamInv, Live
      <3>. QED  BY <1>1, <2>1, <2>3, <3>1, <3>2 DEF Inv, StreamInv, Live
    <2>7. \A j \in Streams \ {i} : StreamInv(j)'
      BY <1>1, <2>1, <2>3, OtherStreams DEF InFrame
    <2>. QED  BY <2>4, <2>5, <2>6, <2>7 DEF Inv
  <1>3. CASE size = 0
    <2>1. EndOfStream(i, streams_data) /\ frame' = frame
      BY <1>3 DEF ReceiveDataHeader
    <2>2. sent' = sent
      BY <1>1, <1>3, BoundsAssumption DEF Inv, TypeOK
    <2>. QED  BY <1>1, <2>1, <2>2, EndsInv DEF Inv, TypeOK, ReplyType
  <1>. QED  BY <1>2, <1>3

\* The next piece of a frame is added to the entry; of the last frame, it is
\* dispatched with what is there by then.
LEMMA ReceiveDataChunkInv ==
    ASSUME Inv, ReceiveDataChunk
    PROVE  Inv'
  <1>0. PICK i \in Streams : i = frame.stream
    BY DEF ReceiveDataChunk, Inv, TypeOK, Frames
  <1>. DEFINE body == streams_data[i] + 1
              data == Collect(i, body)
  <1>1. /\ conn = "up" /\ conn' = conn /\ frame # NoFrame /\ frame \in Frames
        /\ frame.stream = i /\ frame.left \in 1 .. MaxBody /\ stream[i] = "open"
        /\ UNCHANGED <<broken, sent, misused>>
    BY <1>0 DEF ReceiveDataChunk, Inv, TypeOK, Frames, FrameInv
  <1>2. /\ streams_data[i] \in Nat /\ sent[i] \in 0 .. MaxBody
        /\ streams_data[i] + frame.left = sent[i] /\ i \in DOMAIN streams_data
        /\ StreamInv(i) /\ InFrame(i)
    BY <1>1, BoundsAssumption DEF Inv, TypeOK, StreamInv, Live, Coming, InFrame
  <1>3. body \in 0 .. MaxBody
    BY <1>1, <1>2, BoundsAssumption
  <1>4. IF frame.end THEN RequestCallback(i, body) ELSE NoCallback
    BY <1>0 DEF ReceiveDataChunk
  <1>5. IF frame.end /\ frame.left = 1 THEN EndOfStream(i, data)
        ELSE streams_data' = data /\ UNCHANGED stream
    BY <1>0 DEF ReceiveDataChunk
  <1>6. frame' = IF frame.left = 1 THEN NoFrame ELSE [frame EXCEPT !.left = @ - 1]
    BY DEF ReceiveDataChunk
  <1>7. \/ frame.left = 1 /\ frame' = NoFrame
        \/ /\ frame.left > 1 /\ frame' \in Frames /\ frame' # NoFrame
           /\ frame'.stream = i /\ frame'.left = frame.left - 1 /\ frame'.end = frame.end
    BY <1>1, <1>6, FramesDistinct, BoundsAssumption DEF Frames
  <1>8. /\ dispatched' \in [Streams -> Seq(0 .. MaxBody)]
        /\ dispatched'[i] = IF frame.end THEN Append(dispatched[i], body) ELSE dispatched[i]
        /\ pending' \in [Streams -> Nat]
        /\ reply' \in [Streams -> ReplyType]
        /\ \A j \in Streams \ {i} :
              dispatched'[j] = dispatched[j] /\ pending'[j] = pending[j] /\ reply'[j] = reply[j]
    BY <1>1, <1>3, <1>4, RequestCallbackType DEF NoCallback, Inv, TypeOK, ReplyType
  <1>. HIDE DEF body
  <1>9. /\ DOMAIN data = DOMAIN streams_data
        /\ data[i] = body
        /\ \A j \in DOMAIN streams_data \ {i} : data[j] = streams_data[j]
        /\ \A j \in DOMAIN streams_data : data[j] \in 0 .. MaxBody
    <2>1. /\ DOMAIN data = DOMAIN streams_data \cup {i}
          /\ data[i] = body
          /\ \A j \in DOMAIN streams_data \ {i} : data[j] = streams_data[j]
          /\ \A j \in DOMAIN data : data[j] \in 0 .. MaxBody
      BY <1>3, CollectType
    <2>. HIDE DEF data
    <2>. QED  BY <1>2, <2>1
  <1>. HIDE DEF data
  <1>10. /\ stream' \in [Streams -> {"idle", "open", "ended", "closed"}]
         /\ \A j \in Streams \ {i} : stream'[j] = stream[j]
         /\ \/ /\ stream'[i] = "closed" /\ frame.end /\ frame.left = 1
               /\ DOMAIN streams_data' = DOMAIN streams_data \ {i}
            \/ /\ stream'[i] = "ended" /\ frame.end /\ frame.left = 1
               /\ DOMAIN streams_data' = DOMAIN streams_data
            \/ /\ stream'[i] = "open" /\ ~(frame.end /\ frame.left = 1)
               /\ DOMAIN streams_data' = DOMAIN streams_data
         /\ \A j \in DOMAIN streams_data' : streams_data'[j] = data[j]
    <2>1. CASE frame.end /\ frame.left = 1
      BY <1>1, <1>5, <1>9, <2>1, EndOfStreamType
    <2>2. CASE ~(frame.end /\ frame.left = 1)
      BY <1>1, <1>5, <1>9, <2>2 DEF Inv, TypeOK
    <2>. QED  BY <2>1, <2>2
  <1>11. TypeOK'
    BY <1>1, <1>7, <1>8, <1>9, <1>10 DEF Inv, TypeOK, ReplyType
  <1>12. FrameInv'
    BY <1>1, <1>7, <1>10 DEF FrameInv
  <1>13. StreamInv(i)'
    <2>1. Coming(i)' = frame.left - 1 /\ (frame.left # 1 <=> InFrame(i)')
          /\ (frame.left # 1 => frame'.end = frame.end)
      BY <1>1, <1>7 DEF Coming, InFrame
    <2>2. i \in DOMAIN streams_data' => streams_data'[i] = body
      BY <1>9, <1>10
    <2>3. body = streams_data[i] + 1
      BY DEF body
    <2>4. Live(i)' => streams_data'[i] + Coming(i)' = sent'[i]
      BY <1>1, <1>2, <1>10, <2>1, <2>2, <2>3 DEF Live
    <2>5. dispatched[i] \in Seq(Nat) /\ dispatched'[i] \in Seq(Nat)
      BY <1>1, <1>8, BoundsAssumption DEF Inv, TypeOK
    <2>6. \A n \in DOMAIN dispatched[i] : dispatched[i][n] \in Nat /\ dispatched[i][n] < body
      BY <1>1, <1>2, <2>3, <2>5 DEF StreamInv, Live
    <2>7. \A n \in DOMAIN dispatched'[i] :
            \/ n \in DOMAIN dispatched[i] /\ dispatched'[i][n] = dispatched[i][n]
            \/ n = Len(dispatched[i]) + 1 /\ dispatched'[i][n] = body
      BY <1>3, <1>8, <2>5
    <2>8. \A n \in DOMAIN dispatched'[i] : dispatched'[i][n] <= body
      BY <1>3, <2>6, <2>7
    <2>9. \A m, n \in DOMAIN dispatched'[i] : m < n => dispatched'[i][m] < dispatched'[i][n]
      <3>. SUFFICES ASSUME NEW m \in DOMAIN dispatched'[i], NEW n \in DOMAIN dispatched'[i], m < n
                    PROVE  dispatched'[i][m] < dispatched'[i][n]
        OBVIOUS
      <3>1. m \in DOMAIN dispatched[i] /\ dispatched'[i][m] = dispatched[i][m]
        <4>1. m \in 1 .. Len(dispatched[i]) + 1 /\ n \in 1 .. Len(dispatched[i]) + 1
          BY <2>5, <2>7
        <4>. QED  BY <2>5, <2>7, <4>1
      <3>2. CASE n \in DOMAIN dispatched[i] /\ dispatched'[i][n] = dispatched[i][n]
        BY <1>2, <3>1, <3>2 DEF StreamInv
      <3>3. CASE dispatched'[i][n] = body
        BY <2>6, <3>1, <3>3
      <3>. QED  BY <2>7, <3>2, <3>3
    <2>10. stream'[i] = "open" /\ dispatched'[i] # <<>> => InFrame(i)' /\ frame'.end
      BY <1>1, <1>2, <1>7, <1>8, <1>10, <2>1 DEF StreamInv
    <2>11. stream'[i] = "ended" => Last(dispatched'[i]) = sent'[i]
      BY <1>1, <1>2, <1>3, <1>8, <1>10, <2>3, <2>5 DEF Last
    <2>. QED
      BY <1>1, <1>2, <1>10, <2>2, <2>4, <2>8, <2>9, <2>10, <2>11 DEF StreamInv, Live
  <1>14. \A j \in Streams \ {i} : StreamInv(j)'
    <2>1. \A j \in Streams \ {i} : ~InFrame(j) /\ ~InFrame(j)'
      BY <1>1, <1>7 DEF InFrame
    <2>2. \A j \in Streams \ {i} :
            /\ j \in DOMAIN streams_data' <=> j \in DOMAIN streams_data
            /\ j \in DOMAIN streams_data => streams_data'[j] = streams_data[j]
      BY <1>9, <1>10
    <2>. QED  BY <1>1, <1>8, <1>10, <2>1, <2>2, OtherStreams
  <1>. QED  BY <1>11, <1>12, <1>13, <1>14 DEF Inv

\* Trailers end the client's side of the stream only.
LEMMA ReceiveTrailersInv ==
    ASSUME Inv, NEW i \in Streams, ReceiveTrailers(i)
    PROVE  Inv'
  BY EndsInv DEF ReceiveTrailers, BetweenFrames, NoCallback, Inv, TypeOK, ReplyType

\* A reset takes the entry out with the stream.
LEMMA ReceiveResetInv ==
    ASSUME Inv, NEW i \in Streams, ReceiveReset(i)
    PROVE  Inv'
  <1>. USE DEF ReceiveReset, BetweenFrames
  <1>1. /\ stream'[i] = "closed" /\ \A j \in Streams \ {i} : stream'[j] = stream[j]
        /\ DOMAIN streams_data' = DOMAIN streams_data \ {i}
        /\ \A j \in DOMAIN streams_data' : streams_data'[j] = streams_data[j]
    BY DEF Inv, TypeOK, Restrict
  <1>2. TypeOK'
    BY <1>1 DEF Inv, TypeOK
  <1>3. FrameInv'
    BY DEF FrameInv
  <1>4. StreamInv(i)'
    BY <1>1 DEF Inv, StreamInv, Live
  <1>5. \A j \in Streams \ {i} : StreamInv(j)'
    BY <1>1, OtherStreams
  <1>. QED  BY <1>2, <1>3, <1>4, <1>5 DEF Inv

\* A change of one stream's reply, and perhaps of its senders.
LEMMA ReplyChangesInv ==
    ASSUME Inv, NEW i \in Streams, stream[i] # "idle",
           reply' \in [Streams -> ReplyType], \A j \in Streams \ {i} : reply'[j] = reply[j],
           pending' \in [Streams -> Nat], \A j \in Streams \ {i} : pending'[j] = pending[j],
           misused' \in BOOLEAN,
           UNCHANGED <<conn, broken, frame, sent, dispatched, stream, streams_data>>
    PROVE  Inv'
  <1>1. TypeOK' /\ FrameInv'
    BY DEF Inv, TypeOK, FrameInv, ReplyType
  <1>2. StreamInv(i)'
    BY DEF Inv, StreamInv, Live, Coming, InFrame
  <1>3. \A j \in Streams \ {i} : StreamInv(j)'
    BY OtherStreams
  <1>. QED  BY <1>1, <1>2, <1>3 DEF Inv

\* Resuming a reply may close the stream, with its entry.
LEMMA ReceiveWindowUpdateInv ==
    ASSUME Inv, NEW i \in Streams, ReceiveWindowUpdate(i)
    PROVE  Inv'
  <1>1. PICK read \in 0 .. MaxReply :
            reply' = [reply EXCEPT ![i] = [@ EXCEPT !.status = "sent", !.got = read]]
    BY DEF ReceiveWindowUpdate
  <1>2. /\ reply' \in [Streams -> ReplyType] /\ \A j \in Streams \ {i} : reply'[j] = reply[j]
    BY <1>1 DEF Inv, TypeOK, ReplyType
  <1>3. stream[i] # "idle"
    BY DEF ReceiveWindowUpdate, Inv, StreamInv, NoReply
  <1>4. CASE stream[i] = "ended"
    BY <1>2, <1>4, EndsInv DEF ReceiveWindowUpdate, BetweenFrames, Inv, TypeOK
  <1>5. CASE stream[i] # "ended"
    BY <1>2, <1>3, <1>5, ReplyChangesInv DEF ReceiveWindowUpdate, Inv, TypeOK
  <1>. QED  BY <1>4, <1>5

\* A late sender touches the reply of its stream, and may close it.
LEMMA CallSenderInv ==
    ASSUME Inv, NEW i \in Streams, CallSender(i)
    PROVE  Inv'
  <1>1. /\ pending' \in [Streams -> Nat] /\ \A j \in Streams \ {i} : pending'[j] = pending[j]
        /\ stream[i] # "idle" /\ UNCHANGED <<conn, broken, frame, sent, dispatched>>
    BY DEF CallSender, Inv, TypeOK, StreamInv
  <1>2. CASE conn = "gone"
    BY <1>1, <1>2, ReplyChangesInv DEF CallSender, Inv, TypeOK, ReplyType
  <1>3. CASE conn # "gone"
    <2>1. conn = "up"
      BY <1>1, <1>3 DEF Inv, TypeOK, StreamInv
    <2>2. /\ reply' \in [Streams -> ReplyType] /\ \A j \in Streams \ {i} : reply'[j] = reply[j]
      BY <1>3, SomeReplyType DEF CallSender
    <2>3. CASE stream[i] = "ended"
      BY <1>1, <1>3, <2>1, <2>2, <2>3, EndsInv DEF CallSender
    <2>4. CASE stream[i] # "ended"
      BY <1>1, <1>3, <2>2, <2>4, ReplyChangesInv DEF CallSender, Inv, TypeOK
    <2>. QED  BY <2>3, <2>4
  <1>. QED  BY <1>2, <1>3

\* The socket fails for the writer, or the session is not read any more.
LEMMA ConnectionLostInv ==
    ASSUME Inv, SocketBreaks \/ ReadFails
    PROVE  Inv'
  <1>. USE DEF SocketBreaks, ReadFails
  <1>1. TypeOK' /\ FrameInv'
    <2>1. CASE SocketBreaks
      BY <2>1 DEF Inv, TypeOK, FrameInv
    <2>2. CASE ReadFails
      <3>1. DOMAIN streams_data' = {} /\ frame' = NoFrame /\ conn' = "gone"
        BY <2>2
      <3>. QED  BY <2>2, <3>1 DEF Inv, TypeOK, FrameInv
    <2>. QED  BY <2>1, <2>2
  <1>2. \A i \in Streams : StreamInv(i)'
    BY DEF Inv, StreamInv, Live, Coming, InFrame
  <1>. QED  BY <1>1, <1>2 DEF Inv

\* The invariant depends on the variables of the module only.
LEMMA StutterInv == Inv /\ UNCHANGED vars => Inv'
  BY DEF vars, Inv, TypeOK, FrameInv, StreamInv, Live, Coming, InFrame

\* Every step of the session, or none, preserves the invariant.
LEMMA NextInv == Inv /\ [Next]_vars => Inv'
  BY StartInv, ReceiveHeadersInv, ReceiveDataHeaderInv, ReceiveDataChunkInv, ReceiveTrailersInv,
     ReceiveResetInv, ReceiveWindowUpdateInv, CallSenderInv, ConnectionLostInv, StutterInv
     DEF Next, Receive

-----------------------------------------------------------------------------

\* The invariant holds of every run.
THEOREM Invariant == Spec => []Inv
  BY InitInv, NextInv, PTL DEF Spec

\* The state of a session is well-formed: in particular no body is collected
\* beyond what the client has sent.
THEOREM TypeCorrect == Spec => []TypeOK
  <1>1. Inv => TypeOK
    BY DEF Inv
  <1>. QED  BY <1>1, Invariant, PTL

\* streams_data_ has exactly the streams that nghttp2 has open.
THEOREM StreamDataIsLive == Spec => []StreamDataLive
  <1>1. Inv => StreamDataLive
    BY DEF Inv, TypeOK, StreamInv, StreamDataLive
  <1>. QED  BY <1>1, Invariant, PTL

\* No piece of a body is lost or doubled, however the body is cut.
THEOREM BodyIsAccounted == Spec => []BodyAccounted
  <1>1. Inv => BodyAccounted
    BY DEF Inv, StreamInv, BodyAccounted, Coming, InFrame
  <1>. QED  BY <1>1, Invariant, PTL

\* Of the dispatches of a stream each has more than the one before, and once the
\* client has ended it the last has everything.
THEOREM LastDispatchIsComplete == Spec => []LastDispatchComplete
  <1>1. Inv => LastDispatchComplete
    BY DEF Inv, StreamInv, LastDispatchComplete
  <1>. QED  BY <1>1, Invariant, PTL
-----------------------------------------------------------------------------
(* A request that is given whole gets one reply. *)

\* For one stream: every dispatch is good for one reply, which its sender still
\* owes or whose HEADERS are out; and none had more than the client has sent.
Answered(i) ==
    /\ reply[i].heads + pending[i] <= Len(dispatched[i])
    /\ \A n \in DOMAIN dispatched[i] : dispatched[i][n] <= sent[i]

\* A sender's reply adds the HEADERS of one reply, at most.
LEMMA SomeReplyHeads ==
    ASSUME Inv, NEW i \in Streams, SomeReply(i)
    PROVE  /\ reply'[i].heads \in Nat /\ reply[i].heads \in Nat
           /\ reply'[i].heads <= reply[i].heads + 1
  <1>1. PICK want \in 0 .. MaxReply : \E text \in 0 .. want, room \in 0 .. MaxReply :
            reply' = [reply EXCEPT ![i] = Replied(i, want, text, room)]
    BY DEF SomeReply
  <1>2. PICK text \in 0 .. want, room \in 0 .. MaxReply :
            reply' = [reply EXCEPT ![i] = Replied(i, want, text, room)]
    BY <1>1
  <1>3. reply[i] \in ReplyType /\ reply'[i] = Replied(i, want, text, room)
    BY <1>2 DEF Inv, TypeOK, ReplyType
  <1>4. CASE reply[i].status = "none"
    BY <1>3, <1>4 DEF Replied, ReplyType
  <1>5. CASE reply[i].status # "none"
    BY <1>3, <1>5 DEF Replied, ReplyType
  <1>. QED  BY <1>4, <1>5

\* A dispatch adds to the reply's HEADERS or to the senders what it adds to the
\* dispatches.
LEMMA CallbackAnswers ==
    ASSUME Inv, NEW i \in Streams, Answered(i), NEW body \in 0 .. MaxBody,
           RequestCallback(i, body), body <= sent[i], sent'[i] = sent[i]
    PROVE  Answered(i)'
  <1>1. dispatched[i] \in Seq(0 .. MaxBody) /\ dispatched'[i] = Append(dispatched[i], body)
    BY RequestCallbackType DEF Inv, TypeOK
  <1>2. Len(dispatched'[i]) = Len(dispatched[i]) + 1 /\ Len(dispatched[i]) \in Nat
    BY <1>1
  <1>3. pending[i] \in Nat /\ pending'[i] \in Nat /\ reply[i].heads \in Nat
    BY RequestCallbackType DEF Inv, TypeOK
  <1>4. reply'[i].heads + pending'[i] <= reply[i].heads + pending[i] + 1
    <2>1. CASE SomeReply(i) /\ UNCHANGED pending
      BY <1>3, <2>1, SomeReplyHeads
    <2>2. CASE pending' = [pending EXCEPT ![i] = @ + 1] /\ UNCHANGED reply
      BY <1>3, <2>2 DEF Inv, TypeOK
    <2>. QED  BY <2>1, <2>2 DEF RequestCallback
  <1>5. reply'[i].heads \in Nat
    BY RequestCallbackType DEF ReplyType
  <1>6. reply'[i].heads + pending'[i] <= Len(dispatched'[i])
    BY <1>2, <1>3, <1>4, <1>5 DEF Answered
  <1>7. \A n \in DOMAIN dispatched'[i] : dispatched'[i][n] <= sent'[i]
    BY <1>1 DEF Answered
  <1>. QED  BY <1>6, <1>7 DEF Answered

\* A dispatched body has as many pieces as a request may have.
LEMMA BodyDispatched ==
    ASSUME NEW s \in Seq(0 .. MaxBody), NEW n \in DOMAIN s
    PROVE  s[n] \in 0 .. MaxBody
  <1>1. DOMAIN s = 1 .. Len(s)
    OBVIOUS
  <1>. QED  BY <1>1, ElementOfSeq

\* A step that dispatches nothing and has no sender called adds no HEADERS.
LEMMA QuietAnswers ==
    ASSUME Inv, Inv', NEW i \in Streams, Answered(i),
           dispatched'[i] = dispatched[i], sent[i] <= sent'[i],
           pending'[i] = pending[i], reply'[i].heads = reply[i].heads
    PROVE  Answered(i)'
  <1>1. sent[i] \in 0 .. MaxBody /\ sent'[i] \in 0 .. MaxBody
    BY DEF Inv, TypeOK
  <1>2. dispatched[i] \in Seq(0 .. MaxBody)
    BY DEF Inv, TypeOK
  <1>3. \A n \in DOMAIN dispatched[i] : dispatched[i][n] \in 0 .. MaxBody
    BY <1>2, BodyDispatched
  <1>. QED  BY <1>1, <1>3, BoundsAssumption DEF Answered

\* Each step on its stream, and on the others.
LEMMA StepAnswers ==
    ASSUME Inv, [Next]_vars, NEW j \in Streams, Answered(j)
    PROVE  Answered(j)'
  <1>0. Inv'
    BY NextInv
  <1>1. sent[j] \in 0 .. MaxBody
    BY DEF Inv, TypeOK
  <1>2. CASE UNCHANGED vars \/ Start \/ HandshakeDone \/ SocketBreaks \/ ReadFails
    BY <1>0, <1>1, <1>2, QuietAnswers
       DEF vars, Start, HandshakeDone, SocketBreaks, ReadFails
  <1>3. ASSUME NEW i \in Streams, Receive(i)
        PROVE  Answered(j)'
    <2>1. ASSUME NEW end \in BOOLEAN, ReceiveHeaders(i, end)
          PROVE  Answered(j)'
      <3>1. sent' = sent /\ 0 \in 0 .. MaxBody
        BY <2>1, BoundsAssumption DEF ReceiveHeaders
      <3>2. CASE end /\ i = j
        BY <1>1, <2>1, <3>1, <3>2, CallbackAnswers DEF ReceiveHeaders
      <3>3. CASE end /\ i # j
        <4>1. dispatched'[j] = dispatched[j] /\ pending'[j] = pending[j] /\ reply'[j] = reply[j]
          BY <2>1, <3>1, <3>3, RequestCallbackType DEF ReceiveHeaders
        <4>. QED  BY <1>0, <1>1, <3>1, <4>1, QuietAnswers
      <3>4. CASE ~end
        BY <1>0, <1>1, <2>1, <3>1, <3>4, QuietAnswers DEF ReceiveHeaders, NoCallback
      <3>. QED  BY <3>2, <3>3, <3>4
    <2>2. ASSUME NEW size \in 0 .. MaxBody, NEW end \in BOOLEAN, ReceiveDataHeader(i, size, end)
          PROVE  Answered(j)'
      <3>1. sent[j] <= sent'[j]
        BY <1>1, <2>2, BoundsAssumption DEF ReceiveDataHeader, Inv, TypeOK
      <3>. QED  BY <1>0, <2>2, <3>1, QuietAnswers DEF ReceiveDataHeader, NoCallback
    <2>3. CASE ReceiveTrailers(i) \/ ReceiveReset(i)
      BY <1>0, <1>1, <2>3, QuietAnswers DEF ReceiveTrailers, ReceiveReset, NoCallback
    <2>4. CASE ReceiveWindowUpdate(i)
      <3>1. PICK read \in 0 .. MaxReply :
              reply' = [reply EXCEPT ![i] = [@ EXCEPT !.status = "sent", !.got = read]]
        BY <2>4 DEF ReceiveWindowUpdate
      <3>2. reply'[j].heads = reply[j].heads
        BY <3>1 DEF Inv, TypeOK
      <3>. QED  BY <1>0, <1>1, <2>4, <3>2, QuietAnswers DEF ReceiveWindowUpdate
    <2>. QED  BY <1>3, <2>1, <2>2, <2>3, <2>4 DEF Receive
  <1>4. CASE ReceiveDataChunk
    <2>1. PICK i \in Streams : i = frame.stream
      BY <1>4 DEF ReceiveDataChunk, Inv, TypeOK, Frames
    <2>. DEFINE body == streams_data[i] + 1
    <2>2. /\ streams_data[i] \in Nat /\ sent[i] \in 0 .. MaxBody /\ frame.left \in 1 .. MaxBody
          /\ streams_data[i] + frame.left = sent[i] /\ sent' = sent
      BY <1>4, <2>1, BoundsAssumption DEF ReceiveDataChunk, Inv, TypeOK, Frames, FrameInv,
         StreamInv, Live, Coming, InFrame
    <2>3. body \in 0 .. MaxBody /\ body <= sent[i]
      BY <2>2, BoundsAssumption
    <2>4. IF frame.end THEN RequestCallback(i, body) ELSE NoCallback
      BY <1>4, <2>1 DEF ReceiveDataChunk
    <2>. HIDE DEF body
    <2>5. CASE frame.end /\ i = j
      BY <2>2, <2>3, <2>4, <2>5, CallbackAnswers
    <2>6. CASE frame.end /\ i # j
      <3>1. dispatched'[j] = dispatched[j] /\ pending'[j] = pending[j] /\ reply'[j] = reply[j]
        BY <2>3, <2>4, <2>6, RequestCallbackType
      <3>. QED  BY <1>0, <1>1, <2>2, <3>1, QuietAnswers
    <2>7. CASE ~frame.end
      BY <1>0, <1>1, <2>2, <2>4, <2>7, QuietAnswers DEF NoCallback
    <2>. QED  BY <2>5, <2>6, <2>7
  <1>5. ASSUME NEW i \in Streams, CallSender(i)
        PROVE  Answered(j)'
    <2>1. UNCHANGED <<sent, dispatched>> /\ pending' = [pending EXCEPT ![i] = @ - 1]
          /\ (SomeReply(i) \/ reply' = reply) /\ pending[i] \in Nat
      BY <1>5 DEF CallSender, Inv, TypeOK
    <2>2. CASE i = j
      <3>0. reply[i].heads \in Nat
        BY DEF Inv, TypeOK
      <3>1. reply'[i].heads <= reply[i].heads + 1 /\ reply'[i].heads \in Nat
            /\ reply[i].heads \in Nat
        BY <2>1, <3>0, SomeReplyHeads
      <3>2. pending'[i] = pending[i] - 1 /\ Len(dispatched[i]) \in Nat
        BY <2>1 DEF Inv, TypeOK
      <3>3. reply'[j].heads + pending'[j] <= reply[j].heads + pending[j]
        BY <2>1, <2>2, <3>1, <3>2
      <3>4. reply'[j].heads + pending'[j] <= Len(dispatched[j])
        BY <2>1, <2>2, <3>1, <3>2, <3>3 DEF Answered
      <3>5. dispatched' = dispatched /\ sent' = sent
        BY <2>1
      <3>. QED  BY <3>4, <3>5 DEF Answered
    <2>3. CASE i # j
      <3>1. reply'[j] = reply[j] /\ pending'[j] = pending[j]
        BY <2>1, <2>3, SomeReplyType DEF Inv, TypeOK
      <3>. QED  BY <1>0, <1>1, <2>1, <3>1, QuietAnswers
    <2>. QED  BY <2>2, <2>3
  <1>. QED  BY <1>2, <1>3, <1>4, <1>5 DEF Next

\* However the body is cut into frames and pieces, and however its senders, the
\* client's window and the loss of the connection interleave: a stream that gets
\* the HEADERS of more than one reply was first dispatched before its request was
\* whole.
THEOREM WholeRequestsGetOneReply == Spec => []OneReplyPerWholeRequest
  <1>. DEFINE Answers == \A i \in Streams : Answered(i)
  <1>1. Init => Answers
    BY DEF Init, Answered, NoReply
  <1>2. Inv /\ Answers /\ [Next]_vars => Answers'
    BY StepAnswers
  <1>3. Inv /\ Answers => OneReplyPerWholeRequest
    <2>. SUFFICES ASSUME Inv, Answers, NEW i \in Streams
                  PROVE  /\ reply[i].heads <= Len(dispatched[i])
                         /\ reply[i].heads > 1 => dispatched[i][1] < sent[i]
      BY DEF OneReplyPerWholeRequest
    <2>1. /\ reply[i].heads \in Nat /\ pending[i] \in Nat /\ sent[i] \in 0 .. MaxBody
          /\ dispatched[i] \in Seq(0 .. MaxBody)
      BY DEF Inv, TypeOK
    <2>2. reply[i].heads <= Len(dispatched[i]) /\ Len(dispatched[i]) \in Nat
      BY <2>1 DEF Answered
    <2>3. ASSUME reply[i].heads > 1
          PROVE  dispatched[i][1] < sent[i]
      <3>1. 1 \in DOMAIN dispatched[i] /\ 2 \in DOMAIN dispatched[i]
        BY <2>1, <2>2, <2>3
      <3>2. dispatched[i][1] < dispatched[i][2] /\ dispatched[i][2] <= sent[i]
        BY <3>1 DEF Answered, Inv, StreamInv
      <3>3. dispatched[i][1] \in 0 .. MaxBody /\ dispatched[i][2] \in 0 .. MaxBody
        BY <2>1, <3>1, BodyDispatched
      <3>. QED  BY <2>1, <3>2, <3>3, BoundsAssumption
    <2>. QED  BY <2>2, <2>3
  <1>. HIDE DEF Answers
  <1>. QED  BY <1>1, <1>2, <1>3, Invariant, PTL DEF Spec

-----------------------------------------------------------------------------
(* No dispatch is forgotten.                                                *)

\* NoDispatchForgotten for one stream.
Attended(i) ==
    Live(i) /\ dispatched[i] # <<>> =>
        \/ pending[i] > 0
        \/ reply[i].status = "deferred"
        \/ reply[i].status = "sent" /\ stream[i] = "open"
        \/ broken
        \/ conn = "gone"

\* What the sender leaves: a reply, unless the socket or the stream is gone.
LEMMA SenderLeavesReply ==
    ASSUME Inv, NEW i \in Streams, SomeReply(i), stream[i] # "closed", ~broken
    PROVE  reply'[i].status \in {"deferred", "sent"}
  <1>1. PICK want \in 0 .. MaxReply : \E text \in 0 .. want, room \in 0 .. MaxReply :
            reply' = [reply EXCEPT ![i] = Replied(i, want, text, room)]
    BY DEF SomeReply
  <1>2. PICK text \in 0 .. want, room \in 0 .. MaxReply :
            reply' = [reply EXCEPT ![i] = Replied(i, want, text, room)]
    BY <1>1
  <1>3. reply'[i] = Replied(i, want, text, room)
    BY <1>2 DEF Inv, TypeOK
  <1>4. reply[i].status \in {"none", "deferred", "sent"}
    BY DEF Inv, TypeOK
  <1>. QED  BY <1>3, <1>4 DEF Replied

\* nghttp2 closes a stream that both sides have ended, and only such a stream.
LEMMA EndOfStreamCloses ==
    ASSUME Inv, NEW i \in Streams, NEW data, EndOfStream(i, data)
    PROVE  stream'[i] = IF reply'[i].status = "sent" THEN "closed" ELSE "ended"
  BY DEF EndOfStream, Inv, TypeOK

\* A step on one stream, which it leaves attended.
LEMMA OthersAttended ==
    ASSUME Inv, NoDispatchForgotten, NEW i \in Streams, Attended(i)',
           conn' = conn, broken' = broken,
           \A j \in Streams \ {i} :
                /\ stream'[j] = stream[j] /\ dispatched'[j] = dispatched[j]
                /\ pending'[j] = pending[j] /\ reply'[j] = reply[j]
    PROVE  NoDispatchForgotten'
  <1>. SUFFICES ASSUME NEW j \in Streams PROVE Attended(j)'
    BY DEF NoDispatchForgotten, Attended
  <1>1. CASE j = i
    BY <1>1
  <1>2. CASE j # i
    BY <1>2 DEF NoDispatchForgotten, Attended, Live
  <1>. QED  BY <1>1, <1>2

\* request_cb_ answers at once, or a sender is pending.
LEMMA CallbackAttends ==
    ASSUME Inv, NEW i \in Streams, NEW body \in 0 .. MaxBody, RequestCallback(i, body),
           stream[i] # "closed"
    PROVE  broken \/ pending'[i] > 0 \/ reply'[i].status \in {"deferred", "sent"}
  <1>1. CASE SomeReply(i)
    BY <1>1, SenderLeavesReply
  <1>2. CASE pending' = [pending EXCEPT ![i] = @ + 1]
    <2>1. pending[i] \in Nat /\ pending'[i] = pending[i] + 1
      BY <1>2 DEF Inv, TypeOK
    <2>. QED  BY <2>1
  <1>. QED  BY <1>1, <1>2 DEF RequestCallback

\* The client's frames: what they dispatch is attended, what was attended stays so.
LEMMA ReceiveAttends ==
    ASSUME Inv, NoDispatchForgotten, NEW i \in Streams, Receive(i)
    PROVE  NoDispatchForgotten'
  <1>1. /\ conn' = conn /\ broken' = broken /\ Attended(i)
        /\ reply[i].status \in {"none", "deferred", "sent"}
    BY DEF Receive, ReceiveHeaders, ReceiveDataHeader, ReceiveTrailers, ReceiveReset,
           ReceiveWindowUpdate, NoDispatchForgotten, Attended, Inv, TypeOK
  <1>2. ASSUME NEW end \in BOOLEAN, ReceiveHeaders(i, end)
        PROVE  NoDispatchForgotten'
    <2>1. CASE end
      <3>1. RequestCallback(i, 0) /\ EndOfStream(i, Collect(i, 0)) /\ 0 \in 0 .. MaxBody
            /\ stream[i] = "idle"
        BY <1>2, <2>1, BoundsAssumption DEF ReceiveHeaders
      <3>2. Attended(i)'
        BY <1>1, <3>1, CallbackAttends, EndOfStreamCloses DEF Attended, Live
      <3>. QED  BY <1>1, <3>1, <3>2, RequestCallbackType, EndOfStreamType, OthersAttended
    <2>2. CASE ~end
      <3>1. UNCHANGED <<dispatched, pending, reply>> /\ stream' = [stream EXCEPT ![i] = "open"]
            /\ stream[i] = "idle"
        BY <1>2, <2>2 DEF ReceiveHeaders, NoCallback
      <3>2. dispatched[i] = <<>> /\ \A j \in Streams \ {i} : stream'[j] = stream[j]
        BY <3>1 DEF Inv, StreamInv, TypeOK
      <3>. QED  BY <1>1, <3>1, <3>2, OthersAttended DEF Attended
    <2>. QED  BY <2>1, <2>2
  <1>3. ASSUME Live(i), EndOfStream(i, streams_data), UNCHANGED <<dispatched, pending, reply>>
        PROVE  NoDispatchForgotten'
    <2>1. Attended(i)'
      BY <1>1, <1>3, EndOfStreamCloses DEF Attended, Live
    <2>. QED  BY <1>1, <1>3, <2>1, EndOfStreamType, OthersAttended
  <1>4. ASSUME NEW size \in 0 .. MaxBody, NEW end \in BOOLEAN, ReceiveDataHeader(i, size, end)
        PROVE  NoDispatchForgotten'
    <2>1. CASE size > 0
      BY <1>1, <1>4, <2>1, OthersAttended DEF ReceiveDataHeader, NoCallback, Attended, Live
    <2>2. CASE ~(size > 0)
      BY <1>3, <1>4, <2>2 DEF ReceiveDataHeader, NoCallback, Live
    <2>. QED  BY <2>1, <2>2
  <1>5. ASSUME ReceiveTrailers(i)
        PROVE  NoDispatchForgotten'
    BY <1>3, <1>5 DEF ReceiveTrailers, NoCallback, Live
  <1>6. ASSUME ReceiveReset(i)
        PROVE  NoDispatchForgotten'
    <2>1. /\ stream'[i] = "closed" /\ \A j \in Streams \ {i} : stream'[j] = stream[j]
          /\ UNCHANGED <<dispatched, pending, reply>>
      BY <1>6 DEF ReceiveReset, Inv, TypeOK
    <2>. QED  BY <1>1, <2>1, OthersAttended DEF Attended, Live
  <1>7. ASSUME ReceiveWindowUpdate(i)
        PROVE  NoDispatchForgotten'
    <2>1. PICK read \in 0 .. MaxReply :
            reply' = [reply EXCEPT ![i] = [@ EXCEPT !.status = "sent", !.got = read]]
      BY <1>7 DEF ReceiveWindowUpdate
    <2>2. /\ reply'[i].status = "sent" /\ \A j \in Streams \ {i} : reply'[j] = reply[j]
          /\ UNCHANGED <<dispatched, pending>>
      BY <1>7, <2>1 DEF ReceiveWindowUpdate, Inv, TypeOK
    <2>3. CASE stream[i] = "ended"
      <3>1. EndOfStream(i, streams_data)
        BY <1>7, <2>3 DEF ReceiveWindowUpdate
      <3>2. Attended(i)'
        BY <2>2, <3>1, EndOfStreamCloses DEF Attended, Live
      <3>. QED  BY <1>1, <2>2, <3>1, <3>2, EndOfStreamType, OthersAttended
    <2>4. CASE stream[i] # "ended"
      BY <1>1, <1>7, <2>2, <2>4, OthersAttended DEF ReceiveWindowUpdate, Attended, Live
    <2>. QED  BY <2>3, <2>4
  <1>. QED  BY <1>2, <1>4, <1>5, <1>6, <1>7 DEF Receive

\* A piece of the last frame dispatches its stream, and the one that completes it
\* closes the stream or leaves somebody who will.
LEMMA ChunkAttends ==
    ASSUME Inv, NoDispatchForgotten, ReceiveDataChunk
    PROVE  NoDispatchForgotten'
  <1>1. PICK i \in Streams : i = frame.stream
    BY DEF ReceiveDataChunk, Inv, TypeOK, Frames
  <1>. DEFINE body == streams_data[i] + 1
  <1>2. /\ frame \in Frames /\ frame.left \in 1 .. MaxBody /\ stream[i] = "open" /\ conn = "up"
        /\ conn' = conn /\ broken' = broken
    BY <1>1 DEF ReceiveDataChunk, Inv, TypeOK, Frames, FrameInv
  <1>3. body \in 0 .. MaxBody
    <2>1. /\ streams_data[i] \in Nat /\ sent[i] \in 0 .. MaxBody
          /\ streams_data[i] + frame.left = sent[i]
      BY <1>1, <1>2, BoundsAssumption DEF Inv, TypeOK, StreamInv, Live, Coming, InFrame,
         ReceiveDataChunk
    <2>. QED  BY <1>2, <2>1, BoundsAssumption
  <1>4. /\ IF frame.end THEN RequestCallback(i, body) ELSE NoCallback
        /\ IF frame.end /\ frame.left = 1 THEN EndOfStream(i, Collect(i, body))
           ELSE UNCHANGED stream
    BY <1>1 DEF ReceiveDataChunk
  <1>. HIDE DEF body
  <1>5. \A j \in Streams \ {i} :
            /\ stream'[j] = stream[j] /\ dispatched'[j] = dispatched[j]
            /\ pending'[j] = pending[j] /\ reply'[j] = reply[j]
    BY <1>3, <1>4, RequestCallbackType, EndOfStreamType DEF NoCallback
  <1>6. CASE frame.end
    <2>1. broken \/ pending'[i] > 0 \/ reply'[i].status \in {"deferred", "sent"}
      BY <1>2, <1>3, <1>4, <1>6, CallbackAttends
    <2>2. stream'[i] = "open" \/ stream'[i] = IF reply'[i].status = "sent" THEN "closed" ELSE "ended"
      BY <1>2, <1>4, EndOfStreamCloses
    <2>3. Attended(i)'
      BY <1>2, <2>1, <2>2 DEF Attended, Live
    <2>. QED  BY <1>2, <1>5, <2>3, OthersAttended
  <1>7. CASE ~frame.end
    <2>1. UNCHANGED <<stream, dispatched, pending, reply>>
      BY <1>4, <1>7 DEF NoCallback
    <2>2. Attended(i)'
      BY <1>2, <2>1 DEF NoDispatchForgotten, Attended, Live
    <2>. QED  BY <1>2, <1>5, <2>2, OthersAttended
  <1>. QED  BY <1>6, <1>7

\* A sender that was the last one leaves a reply.
LEMMA SenderAttends ==
    ASSUME Inv, NoDispatchForgotten, NEW i \in Streams, CallSender(i)
    PROVE  NoDispatchForgotten'
  <1>1. /\ UNCHANGED <<conn, broken, dispatched>>
        /\ \A j \in Streams \ {i} : pending'[j] = pending[j]
    BY DEF CallSender, Inv, TypeOK
  <1>2. CASE conn = "gone"
    BY <1>1, <1>2 DEF NoDispatchForgotten
  <1>3. CASE conn # "gone"
    <2>1. /\ SomeReply(i)
          /\ IF stream[i] = "ended" THEN EndOfStream(i, streams_data) ELSE UNCHANGED stream
      BY <1>3 DEF CallSender
    <2>2. \A j \in Streams \ {i} : reply'[j] = reply[j]
      BY <2>1, SomeReplyType
    <2>3. CASE stream[i] = "ended"
      <3>1. broken \/ reply'[i].status \in {"deferred", "sent"}
        BY <2>1, <2>3, SenderLeavesReply
      <3>2. stream'[i] = IF reply'[i].status = "sent" THEN "closed" ELSE "ended"
        BY <2>1, <2>3, EndOfStreamCloses
      <3>3. Attended(i)'
        BY <1>1, <3>1, <3>2 DEF Attended, Live
      <3>. QED  BY <1>1, <2>1, <2>2, <2>3, <3>3, EndOfStreamType, OthersAttended
    <2>4. CASE stream[i] # "ended"
      <3>1. stream' = stream
        BY <2>1, <2>4
      <3>2. stream[i] = "closed" \/ broken \/ reply'[i].status \in {"deferred", "sent"}
        BY <2>1, SenderLeavesReply
      <3>3. Attended(i)'
        BY <1>1, <2>4, <3>1, <3>2 DEF Attended, Live
      <3>. QED  BY <1>1, <2>2, <3>1, <3>3, OthersAttended
    <2>. QED  BY <2>3, <2>4
  <1>. QED  BY <1>2, <1>3

\* Nothing is dispatched before the session is up, and nothing matters after it broke.
LEMMA ConnectionAttends ==
    ASSUME Inv, NoDispatchForgotten, Start \/ HandshakeDone \/ SocketBreaks \/ ReadFails
    PROVE  NoDispatchForgotten'
  <1>1. CASE Start \/ HandshakeDone
    BY <1>1 DEF Start, HandshakeDone, NoDispatchForgotten, Live
  <1>2. CASE SocketBreaks
    BY <1>2 DEF SocketBreaks, NoDispatchForgotten
  <1>3. CASE ReadFails
    BY <1>3 DEF ReadFails, NoDispatchForgotten
  <1>. QED  BY <1>1, <1>2, <1>3

\* While the connection works, whatever was dispatched of a stream that lives has a
\* sender that will be called, or a reply that is out or waits for the window.
THEOREM DispatchesAreAttended == Spec => []NoDispatchForgotten
  <1>1. Init => NoDispatchForgotten
    BY DEF Init, NoDispatchForgotten
  <1>2. Inv /\ NoDispatchForgotten /\ [Next]_vars => NoDispatchForgotten'
    <2>1. UNCHANGED vars /\ NoDispatchForgotten => NoDispatchForgotten'
      BY DEF vars, NoDispatchForgotten, Live
    <2>. QED  BY <2>1, ReceiveAttends, ChunkAttends, SenderAttends, ConnectionAttends DEF Next
  <1>. QED  BY <1>1, <1>2, Invariant, PTL DEF Spec
=============================================================================
