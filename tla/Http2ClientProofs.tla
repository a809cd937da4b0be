--------------------------- MODULE Http2ClientProofs ---------------------------
(***************************************************************************)
(* Theorems about the HTTP/2 client, for any number of calls.              *)
(***************************************************************************)
EXTENDS Http2Client, TLAPS

-----------------------------------------------------------------------------
(* The inductive invariant. *)

\* A call that was made has replaced socket_, and is not called back before it is
\* sent, but when its connection fails.
CallsInv ==
    /\ \A c \in Http2Calls : op[c] # "idle" => socket_ # NoCall
    /\ \A c \in Http2Calls : op[c] \in {"idle", "resolving", "connecting"} => outcome[c] = <<>>
    /\ \A w \in Http2Calls : answer[w] # NoAnswer => carries[w] # NoCall

\* The entry of stream 1 is empty, or its callback is still awaited.
EntryInv ==
    /\ streams_.callback = NoCall => streams_ = NoEntry
    /\ \A c \in Http2Calls : streams_.callback = c => op[c] = "sent" /\ outcome[c] = <<>>

\* While a call is solo, socket_ is its own, and nobody else waits.
SoloInv ==
    \A c \in Http2Calls \ overlapped :
        /\ Awaited(c) => socket_ = c
        /\ socket_ = c => \A d \in Http2Calls \ {c} : ~Awaited(d)

\* The sockets and the connections of a solo call are not those of another.
WiresInv ==
    \A c \in Http2Calls, d \in Http2Calls :
        /\ via[d] = c => c = d \/ {c, d} \subseteq overlapped
        /\ wire[c] = d => c = d \/ {c, d} \subseteq overlapped
        /\ carries[d] = c => c = d \/ d \in overlapped

\* What is collected for a solo call is its own.
OwnInv ==
    \A c \in Http2Calls \ overlapped : streams_.callback = c =>
        /\ streams_.status.of \in {c, NoCall}
        /\ streams_.body \subseteq {c}

Inv ==
    /\ Http2TypeOK /\ CallsInv /\ EntryInv /\ SoloInv /\ WiresInv /\ OwnInv
    /\ CalledBackAtMostOnce /\ SoloResponseIsOwn

-----------------------------------------------------------------------------

\* Two calls that wait at the same time have overlapped.
LEMMA AwaitedOverlap ==
    ASSUME Inv, NEW c \in Http2Calls, NEW d \in Http2Calls, c # d, Awaited(c), Awaited(d)
    PROVE  {c, d} \subseteq overlapped
  BY DEF Inv, SoloInv

\* Before anything is sent there is nothing to mix up.
LEMMA InitInv == Http2Init => Inv
  BY NoCallAssumption
     DEF Http2Init, Inv, Http2TypeOK, OpStates, Entries, NoEntry, Statuses, NoStatus, CallsInv,
         EntryInv, SoloInv, WiresInv, OwnInv, CalledBackAtMostOnce, SoloResponseIsOwn, Awaited

\* A new call is solo only when nobody waits.
LEMMA SendInv ==
    ASSUME Inv, NEW c \in Http2Calls, Http2Send(c)
    PROVE  Inv'
  <1>. USE DEF Http2Send
  <1>1. Http2TypeOK'
    BY DEF Inv, Http2TypeOK, OpStates
  <1>2. op' = [op EXCEPT ![c] = "resolving"] /\ outcome' = outcome /\ op[c] = "idle"
    OBVIOUS
  <1>3. \A d \in Http2Calls \ {c} : Awaited(d)' <=> Awaited(d)
    BY DEF Inv, Http2TypeOK, Awaited
  <1>4. overlapped \subseteq overlapped'
    OBVIOUS
  <1>5. CallsInv'
    BY NoCallAssumption DEF Inv, Http2TypeOK, CallsInv
  <1>6. EntryInv'
    BY DEF Inv, Http2TypeOK, EntryInv
  <1>7. SoloInv'
    <2>1. ASSUME NEW d \in Http2Calls \ {c}, Awaited(d)
          PROVE  c \in overlapped' /\ d \in overlapped'
      BY <2>1
    <2>2. socket_' = c
      OBVIOUS
    <2>. QED  BY <1>3, <2>1, <2>2 DEF SoloInv
  <1>8. WiresInv'
    BY <1>4 DEF Inv, WiresInv
  <1>9. OwnInv' /\ CalledBackAtMostOnce' /\ SoloResponseIsOwn'
    BY <1>4 DEF Inv, OwnInv, CalledBackAtMostOnce, SoloResponseIsOwn
  <1>. QED  BY <1>1, <1>5, <1>6, <1>7, <1>8, <1>9 DEF Inv

\* A call that connects a socket of another one has overlapped with it.
LEMMA ResolvedInv ==
    ASSUME Inv, NEW c \in Http2Calls, Http2Resolved(c)
    PROVE  Inv'
  <1>. USE DEF Http2Resolved
  <1>1. socket_ \in Http2Calls
    BY DEF Inv, Http2TypeOK, CallsInv
  <1>2. Http2TypeOK'
    BY <1>1 DEF Inv, Http2TypeOK, OpStates
  <1>3. Awaited(c)
    BY DEF Inv, CallsInv, Awaited
  <1>4. \A d \in Http2Calls : Awaited(d)' <=> Awaited(d)
    BY DEF Inv, Http2TypeOK, Awaited
  <1>5. CallsInv' /\ EntryInv' /\ SoloInv'
    BY <1>4 DEF Inv, Http2TypeOK, CallsInv, EntryInv, SoloInv
  <1>6. WiresInv'
    <2>1. socket_ = c \/ {socket_, c} \subseteq overlapped
      BY <1>1, <1>3 DEF Inv, SoloInv
    <2>2. \A d \in Http2Calls : via'[d] = IF d = c THEN socket_
                                ELSE IF via[d] = socket_ THEN NoCall ELSE via[d]
      OBVIOUS
    <2>3. \A d \in Http2Calls : wire'[d] \in {wire[d], NoCall}
      BY DEF Inv, Http2TypeOK
    <2>. QED  BY <2>1, <2>2, <2>3, NoCallAssumption DEF Inv, WiresInv
  <1>7. OwnInv' /\ CalledBackAtMostOnce' /\ SoloResponseIsOwn'
    BY DEF Inv, OwnInv, CalledBackAtMostOnce, SoloResponseIsOwn
  <1>. QED  BY <1>2, <1>5, <1>6, <1>7 DEF Inv

\* A callback that is called for the first time and given nothing of another call's.
LEMMA CallBackSafe ==
    ASSUME Inv, NEW c \in Http2Calls, outcome[c] = <<>>,
           NEW result \in Outcomes, CallBack(c, result), overlapped' = overlapped,
           c \notin overlapped => result.status.of \in {c, NoCall} /\ result.body \subseteq {c}
    PROVE  /\ outcome' \in [Http2Calls -> Seq(Outcomes)]
           /\ outcome'[c] # <<>>
           /\ CalledBackAtMostOnce'
           /\ SoloResponseIsOwn'
  <1>1. outcome'[c] = <<result>> /\ \A d \in Http2Calls \ {c} : outcome'[d] = outcome[d]
    BY DEF CallBack, Inv, Http2TypeOK
  <1>2. outcome' \in [Http2Calls -> Seq(Outcomes)]
    BY DEF CallBack, Inv, Http2TypeOK
  <1>3. CalledBackAtMostOnce'
    <2>. SUFFICES ASSUME NEW d \in Http2Calls
                  PROVE  Len(outcome'[d]) <= 1
      BY DEF CalledBackAtMostOnce
    <2>1. CASE d = c
      <3>1. outcome'[d] = <<result>> /\ Len(<<result>>) = 1
        BY <1>1, <2>1
      <3>2. Len(outcome'[d]) = 1
        BY <3>1
      <3>. QED  BY <3>2
    <2>2. CASE d # c
      BY <1>1, <2>2 DEF Inv, CalledBackAtMostOnce
    <2>. QED  BY <2>1, <2>2
  <1>4. SoloResponseIsOwn'
    BY <1>1 DEF Inv, SoloResponseIsOwn
  <1>. QED  BY <1>1, <1>2, <1>3, <1>4

\* The error paths call back a call that is not in the entry.
LEMMA ConnectFailsInv ==
    ASSUME Inv, NEW c \in Http2Calls, Http2ConnectFails(c)
    PROVE  Inv'
  <1>. USE DEF Http2ConnectFails
  <1>1. outcome[c] = <<>>
    BY DEF Inv, CallsInv
  <1>2. Failure \in Outcomes /\ Failure.status.of = NoCall /\ Failure.body = {}
    BY DEF Failure, Outcomes, Statuses, NoStatus
  <1>3. /\ outcome' \in [Http2Calls -> Seq(Outcomes)]
        /\ outcome'[c] # <<>>
        /\ CalledBackAtMostOnce'
        /\ SoloResponseIsOwn'
    BY <1>1, <1>2, CallBackSafe
  <1>4. Http2TypeOK'
    BY <1>3 DEF Inv, Http2TypeOK, OpStates
  <1>5. /\ op'[c] = "failed"
        /\ \A d \in Http2Calls \ {c} : outcome'[d] = outcome[d] /\ op'[d] = op[d]
    BY DEF Inv, Http2TypeOK, CallBack
  <1>6. \A d \in Http2Calls : Awaited(d)' => Awaited(d)
    BY <1>5 DEF Awaited
  <1>7. CallsInv' /\ SoloInv'
    BY <1>5, <1>6 DEF Inv, CallsInv, SoloInv
  <1>8. EntryInv'
    BY <1>5 DEF Inv, EntryInv
  <1>9. WiresInv' /\ OwnInv'
    BY DEF Inv, WiresInv, OwnInv
  <1>. QED  BY <1>3, <1>4, <1>7, <1>8, <1>9 DEF Inv

\* What a request is written on is its own connection, or both have overlapped.
LEMMA WrittenSafe ==
    ASSUME Inv, NEW c \in Http2Calls, op[c] = "connecting", Written(c)
    PROVE  /\ carries' \in [Http2Calls -> Http2Calls \cup {NoCall}]
           /\ \A w \in Http2Calls : carries'[w] # carries[w] =>
                carries[w] = NoCall /\ carries'[w] = c /\ (w = c \/ w \in overlapped)
  <1>1. CASE UNCHANGED carries
    BY <1>1 DEF Inv, Http2TypeOK
  <1>2. ASSUME NEW outlet \in Outlets(c) \ {NoCall},
               carries[outlet] = NoCall, carries' = [carries EXCEPT ![outlet] = c]
        PROVE  outlet \in Http2Calls /\ (outlet = c \/ outlet \in overlapped)
    <2>. Awaited(c) /\ socket_ \in Http2Calls
      BY DEF Inv, CallsInv, Awaited, Http2TypeOK
    <2>1. CASE outlet = c
      BY <2>1
    <2>2. CASE outlet = wire[socket_] /\ outlet # c
      <3>1. outlet \in Http2Calls
        BY <2>2, <1>2 DEF Inv, Http2TypeOK
      <3>2. socket_ = outlet \/ outlet \in overlapped
        BY <2>2, <3>1 DEF Inv, WiresInv
      <3>. QED  BY <2>2, <3>1, <3>2 DEF Inv, SoloInv
    <2>3. CASE outlet \in Http2Calls \ {c} /\ op[outlet] = "connecting"
      <3>1. Awaited(outlet)
        BY <2>3 DEF Inv, CallsInv, Awaited
      <3>. QED  BY <2>3, <3>1, AwaitedOverlap
    <2>. QED  BY <1>2, <2>1, <2>2, <2>3 DEF Outlets
  <1>. QED  BY <1>1, <1>2 DEF Written, Inv, Http2TypeOK

\* A call that takes the entry over from another one has overlapped with it.
LEMMA ConnectedInv ==
    ASSUME Inv, NEW c \in Http2Calls, Http2Connected(c)
    PROVE  Inv'
  <1>. USE DEF Http2Connected
  <1>1. socket_ \in Http2Calls /\ Awaited(c) /\ outcome[c] = <<>>
    BY DEF Inv, Http2TypeOK, CallsInv, Awaited
  <1>2. /\ carries' \in [Http2Calls -> Http2Calls \cup {NoCall}]
        /\ \A w \in Http2Calls : carries'[w] # carries[w] =>
             carries[w] = NoCall /\ carries'[w] = c /\ (w = c \/ w \in overlapped)
    BY WrittenSafe
  <1>3. /\ streams_' \in Entries
        /\ streams_'.callback = c
        /\ streams_'.status = streams_.status /\ streams_'.body = streams_.body
    BY DEF Inv, Http2TypeOK, Entries
  <1>4. Http2TypeOK'
    BY <1>1, <1>2, <1>3 DEF Inv, Http2TypeOK, OpStates
  <1>5. op'[c] = "sent" /\ \A d \in Http2Calls \ {c} : op'[d] = op[d]
    BY DEF Inv, Http2TypeOK
  <1>6. \A d \in Http2Calls : Awaited(d)' <=> Awaited(d)
    BY <1>1, <1>5 DEF Awaited
  <1>7. CallsInv'
    BY <1>2, <1>5, NoCallAssumption DEF Inv, CallsInv
  <1>8. EntryInv'
    BY <1>1, <1>3, <1>5, NoCallAssumption DEF EntryInv
  <1>9. SoloInv'
    BY <1>6 DEF Inv, SoloInv
  <1>10. WiresInv'
    <2>1. \A s \in Http2Calls : wire'[s] = IF s = via[c] THEN c ELSE wire[s]
      OBVIOUS
    <2>. QED  BY <1>2, <2>1, NoCallAssumption DEF Inv, WiresInv
  <1>11. OwnInv'
    <2>1. CASE streams_.callback = NoCall
      BY <2>1, <1>3 DEF Inv, EntryInv, NoEntry, NoStatus, OwnInv
    <2>2. CASE streams_.callback # NoCall
      <3>1. streams_.callback \in Http2Calls /\ streams_.callback # c /\ Awaited(streams_.callback)
        BY <2>2 DEF Inv, Http2TypeOK, Entries, EntryInv, Awaited
      <3>2. c \in overlapped
        BY <1>1, <3>1, AwaitedOverlap
      <3>. QED  BY <1>3, <3>2 DEF OwnInv
    <2>. QED  BY <2>1, <2>2
  <1>12. CalledBackAtMostOnce' /\ SoloResponseIsOwn'
    BY DEF Inv, CalledBackAtMostOnce, SoloResponseIsOwn
  <1>. QED  BY <1>4, <1>7, <1>8, <1>9, <1>10, <1>11, <1>12 DEF Inv

-----------------------------------------------------------------------------

\* While the entry is a solo call's, what is read is the answer to its request.
LEMMA ReadIsOwn ==
    ASSUME Inv, NEW s \in Http2Calls, Readable(s)
    PROVE  /\ wire[s] \in Http2Calls
           /\ \A c \in Http2Calls \ overlapped : streams_.callback = c =>
                wire[s] = c /\ carries[c] \in {c, NoCall}
  <1>1. wire[s] \in Http2Calls
    BY DEF Readable, Inv, Http2TypeOK
  <1>2. ASSUME NEW c \in Http2Calls \ overlapped, streams_.callback = c
        PROVE  wire[s] = c /\ carries[c] \in {c, NoCall}
    <2>1. op[c] = "sent" /\ Awaited(c)
      BY <1>2 DEF Inv, EntryInv, Awaited
    <2>2. s = c
      BY <2>1 DEF Readable, Inv, SoloInv
    <2>3. wire[s] = c
      BY <1>1, <2>2 DEF Inv, WiresInv
    <2>4. carries[c] \in {c, NoCall}
      BY DEF Inv, Http2TypeOK, WiresInv
    <2>. QED  BY <2>3, <2>4
  <1>. QED  BY <1>1, <1>2

\* A read that changes nothing of the calls, but perhaps what was collected.
LEMMA CollectInv ==
    ASSUME Inv, NEW s \in Http2Calls, NEW from, NEW to \in {"status", "body", "closed"},
           Receive(s, from, to), UNCHANGED outcome,
           streams_' \in Entries, streams_'.callback = streams_.callback,
           streams_.callback = NoCall => streams_' = streams_, OwnInv'
    PROVE  Inv'
  <1>. USE DEF Receive, ReadOn
  <1>1. Http2TypeOK'
    BY DEF Inv, Http2TypeOK
  <1>2. CallsInv' /\ SoloInv' /\ WiresInv' /\ CalledBackAtMostOnce' /\ SoloResponseIsOwn'
    BY DEF Inv, CallsInv, SoloInv, WiresInv, CalledBackAtMostOnce, SoloResponseIsOwn, Awaited
  <1>3. EntryInv'
    BY DEF Inv, EntryInv
  <1>. QED  BY <1>1, <1>2, <1>3 DEF Inv

\* on_header_cb writes into the response of the stream it is called for.
LEMMA OnHeaderInv ==
    ASSUME Inv, NEW s \in Http2Calls, OnHeader(s)
    PROVE  Inv'
  <1>. USE DEF OnHeader
  <1>1. /\ Receive(s, "none", "status") /\ Readable(s) /\ answer[wire[s]] # NoAnswer
        /\ wire[s] \in Http2Calls /\ UNCHANGED overlapped
    BY ReadIsOwn DEF Receive
  <1>2. CASE ~HasEntry
    <2>1. streams_' = streams_ /\ streams_' \in Entries /\ OwnInv'
      BY <1>1, <1>2 DEF Inv, Http2TypeOK, OwnInv
    <2>. QED  BY <1>1, <2>1, CollectInv
  <1>3. CASE HasEntry
    <2>. DEFINE status == [of |-> carries[wire[s]], code |-> answer[wire[s]]]
    <2>1. status \in Statuses
      BY <1>1 DEF Inv, Http2TypeOK, CallsInv, Statuses
    <2>2. streams_' = [streams_ EXCEPT !.status = status]
      BY <1>3
    <2>. HIDE DEF status
    <2>3. /\ streams_' \in Entries /\ streams_'.status = status
          /\ streams_'.callback = streams_.callback /\ streams_'.body = streams_.body
      BY <2>1, <2>2 DEF Inv, Http2TypeOK, Entries
    <2>4. OwnInv'
      BY <1>1, <2>3, ReadIsOwn DEF Inv, OwnInv, status
    <2>. QED  BY <1>1, <1>3, <2>3, <2>4, CollectInv DEF HasEntry
  <1>. QED  BY <1>2, <1>3

\* on_data_chunk_recv_cb appends to the response of the stream it is called for.
LEMMA OnDataChunkInv ==
    ASSUME Inv, NEW s \in Http2Calls, OnDataChunk(s)
    PROVE  Inv'
  <1>. USE DEF OnDataChunk
  <1>1. /\ Receive(s, "status", "body") /\ Readable(s) /\ answer[wire[s]] # NoAnswer
        /\ wire[s] \in Http2Calls /\ UNCHANGED overlapped
    BY ReadIsOwn DEF Receive
  <1>2. CASE ~HasEntry
    <2>1. streams_' = streams_ /\ streams_' \in Entries /\ OwnInv'
      BY <1>1, <1>2 DEF Inv, Http2TypeOK, OwnInv
    <2>. QED  BY <1>1, <2>1, CollectInv
  <1>3. CASE HasEntry
    <2>1. carries[wire[s]] \in Http2Calls
      BY <1>1 DEF Inv, Http2TypeOK, CallsInv
    <2>2. /\ streams_' \in Entries /\ streams_'.status = streams_.status
          /\ streams_'.callback = streams_.callback
          /\ streams_'.body = streams_.body \cup {carries[wire[s]]}
      BY <1>3, <2>1 DEF Inv, Http2TypeOK, Entries
    <2>3. OwnInv'
      BY <1>1, <2>1, <2>2, ReadIsOwn, NoCallAssumption DEF Inv, OwnInv
    <2>. QED  BY <1>1, <1>3, <2>2, <2>3, CollectInv DEF HasEntry
  <1>. QED  BY <1>2, <1>3

\* A close calls back the call in the entry, which was not called back before.
LEMMA CloseInv ==
    ASSUME Inv, NEW s \in Http2Calls, Readable(s), ReadOn(s), CloseStream,
           progress' = [progress EXCEPT ![wire[s]] = "closed"],
           UNCHANGED <<op, socket_, via, wire, carries, answer, overlapped, lost>>
    PROVE  Inv'
  <1>1. reading' \subseteq Http2Calls
        /\ progress' \in [Http2Calls -> {"none", "status", "body", "closed"}]
    BY DEF ReadOn, Inv, Http2TypeOK
  <1>2. CASE ~HasEntry
    <2>1. UNCHANGED <<streams_, outcome>>
      BY <1>2 DEF CloseStream
    <2>2. Http2TypeOK'
      BY <1>1, <2>1 DEF Inv, Http2TypeOK
    <2>3. CallsInv' /\ SoloInv' /\ WiresInv' /\ EntryInv' /\ OwnInv'
      BY <2>1 DEF Inv, CallsInv, SoloInv, WiresInv, EntryInv, OwnInv, Awaited
    <2>4. CalledBackAtMostOnce' /\ SoloResponseIsOwn'
      BY <2>1 DEF Inv, CalledBackAtMostOnce, SoloResponseIsOwn
    <2>. QED  BY <2>2, <2>3, <2>4 DEF Inv
  <1>3. CASE HasEntry
    <2>. DEFINE c == streams_.callback
                result == Response(streams_.status, streams_.body)
    <2>1. c \in Http2Calls /\ op[c] = "sent" /\ outcome[c] = <<>>
      BY <1>3 DEF HasEntry, Inv, Http2TypeOK, Entries, EntryInv
    <2>2. CallBack(c, result) /\ streams_' = NoEntry
      BY <1>3 DEF CloseStream
    <2>3. result \in Outcomes /\ result.status = streams_.status /\ result.body = streams_.body
      BY DEF Response, Outcomes, Inv, Http2TypeOK, Entries
    <2>4. c \notin overlapped => result.status.of \in {c, NoCall} /\ result.body \subseteq {c}
      BY <2>1, <2>3 DEF Inv, OwnInv
    <2>5. \A d \in Http2Calls \ {c} : outcome'[d] = outcome[d]
      BY <2>2 DEF CallBack, Inv, Http2TypeOK
    <2>. HIDE DEF c, result
    <2>6. /\ outcome' \in [Http2Calls -> Seq(Outcomes)]
          /\ outcome'[c] # <<>>
          /\ CalledBackAtMostOnce'
          /\ SoloResponseIsOwn'
      BY <2>1, <2>2, <2>3, <2>4, CallBackSafe
    <2>7. NoEntry \in Entries
      BY DEF NoEntry, Entries, Statuses, NoStatus
    <2>8. Http2TypeOK'
      BY <1>1, <2>2, <2>6, <2>7 DEF Inv, Http2TypeOK
    <2>9. \A d \in Http2Calls : Awaited(d)' => Awaited(d)
      BY <2>5, <2>6 DEF Awaited
    <2>10. CallsInv' /\ SoloInv' /\ WiresInv'
      BY <2>1, <2>5, <2>9 DEF Inv, CallsInv, SoloInv, WiresInv
    <2>11. EntryInv' /\ OwnInv'
      BY <2>2, NoCallAssumption DEF EntryInv, OwnInv, NoEntry
    <2>. QED  BY <2>6, <2>8, <2>10, <2>11 DEF Inv
  <1>. QED  BY <1>2, <1>3

\* Whatever a read handler is given.
LEMMA HandleReadInv ==
    ASSUME Inv, NEW s \in Http2Calls, HandleRead2(s)
    PROVE  Inv'
  <1>1. CASE OnHeader(s)
    BY <1>1, OnHeaderInv
  <1>2. CASE OnDataChunk(s)
    BY <1>2, OnDataChunkInv
  <1>3. CASE OnStreamClose(s)
    BY <1>3, CloseInv DEF OnStreamClose, Receive
  <1>4. CASE OnStreamReset(s)
    BY <1>4, CloseInv DEF OnStreamReset
  <1>5. CASE ReadFails(s)
    <2>. USE <1>5 DEF ReadFails
    <2>1. Http2TypeOK'
      BY DEF Inv, Http2TypeOK
    <2>2. CallsInv' /\ SoloInv' /\ WiresInv' /\ EntryInv' /\ OwnInv'
      BY DEF Inv, CallsInv, SoloInv, WiresInv, EntryInv, OwnInv, Awaited
    <2>3. CalledBackAtMostOnce' /\ SoloResponseIsOwn'
      BY DEF Inv, CalledBackAtMostOnce, SoloResponseIsOwn
    <2>. QED  BY <2>1, <2>2, <2>3 DEF Inv
  <1>. QED  BY <1>1, <1>2, <1>3, <1>4, <1>5 DEF HandleRead2

\* The server answers only what it was brought.
LEMMA AnsweredInv ==
    ASSUME Inv, NEW w \in Http2Calls, NEW code \in AnswerCodes, Answered(w, code)
    PROVE  Inv'
  <1>. USE DEF Answered
  <1>1. Http2TypeOK' /\ CallsInv'
    BY DEF Inv, Http2TypeOK, CallsInv
  <1>2. SoloInv' /\ WiresInv' /\ EntryInv' /\ OwnInv'
    BY DEF Inv, SoloInv, WiresInv, EntryInv, OwnInv, Awaited
  <1>3. CalledBackAtMostOnce' /\ SoloResponseIsOwn'
    BY DEF Inv, CalledBackAtMostOnce, SoloResponseIsOwn
  <1>. QED  BY <1>1, <1>2, <1>3 DEF Inv

\* The invariant depends on the variables of the module only.
LEMMA StutterInv == Inv /\ UNCHANGED http2Vars => Inv'
  BY DEF http2Vars, Inv, Http2TypeOK, CallsInv, EntryInv, SoloInv, WiresInv, OwnInv,
         CalledBackAtMostOnce, SoloResponseIsOwn, Awaited

\* Every step of the client, or none, preserves the invariant.
LEMMA NextInv == Inv /\ [Http2Next]_http2Vars => Inv'
  BY SendInv, ResolvedInv, ConnectFailsInv, ConnectedInv, HandleReadInv, AnsweredInv, StutterInv
     DEF Http2Next, Http2Handler

-----------------------------------------------------------------------------

\* The invariant holds of every run.
THEOREM Invariant == Http2Spec => []Inv
  BY InitInv, NextInv, PTL DEF Http2Spec

\* The members of the client, and what nghttp2 and the caller have, keep their types.
THEOREM TypeCorrect == Http2Spec => []Http2TypeOK
  <1>1. Inv => Http2TypeOK
    BY DEF Inv
  <1>. QED  BY <1>1, Invariant, PTL

\* However many calls overlap in the one entry of streams_, no callback of
\* send_request is called twice.
THEOREM OneCallBack == Http2Spec => []CalledBackAtMostOnce
  <1>1. Inv => CalledBackAtMostOnce
    BY DEF Inv
  <1>. QED  BY <1>1, Invariant, PTL

\* A call that no other overlaps gets nothing of another call's answer, whatever
\* happened to the calls before it.
THEOREM SoloIsOwn == Http2Spec => []SoloResponseIsOwn
  <1>1. Inv => SoloResponseIsOwn
    BY DEF Inv
  <1>. QED  BY <1>1, Invariant, PTL

-----------------------------------------------------------------------------
(* No callback is forgotten.                                                *)

\* A connection exists, and has been read from, only once its connect handler ran.
NewInv ==
    \A c \in Http2Calls : op[c] # "sent" =>
        progress[c] = "none" /\ \A s \in Http2Calls : wire[s] # c

\* A solo call connects its own socket.
ViaInv == \A c \in Http2Calls \ overlapped : op[c] = "connecting" => via[c] = c

AliveInv == NewInv /\ ViaInv /\ CallbackNotForgotten

\* While a solo call waits for its answer no other call waits for anything.
LEMMA NobodyElseWaits ==
    ASSUME Inv, NEW c \in Http2Calls \ overlapped, op[c] = "sent", outcome[c] = <<>>,
           NEW d \in Http2Calls
    PROVE  op[d] \notin {"resolving", "connecting"}
  <1>. SUFFICES ASSUME op[d] \in {"resolving", "connecting"}
                PROVE  FALSE
    OBVIOUS
  <1>1. Awaited(c) /\ Awaited(d) /\ c # d
    BY DEF Awaited, Inv, CallsInv
  <1>. QED  BY <1>1, AwaitedOverlap

\* A new call overlaps with whoever waits.
LEMMA SendAlive ==
    ASSUME Inv, AliveInv, NEW d \in Http2Calls, Http2Send(d)
    PROVE  AliveInv'
  <1>. USE DEF Http2Send
  <1>1. /\ op'[d] = "resolving" /\ op[d] = "idle"
        /\ \A c \in Http2Calls \ {d} : op'[c] = op[c]
    BY DEF Inv, Http2TypeOK
  <1>2. NewInv'
    BY <1>1 DEF AliveInv, NewInv
  <1>3. ViaInv'
    BY <1>1 DEF AliveInv, ViaInv
  <1>4. CallbackNotForgotten'
    <2>. SUFFICES ASSUME NEW c \in Http2Calls, c \notin overlapped', c \notin lost',
                         op'[c] = "sent", outcome'[c] = <<>>
                  PROVE  FALSE
      BY DEF CallbackNotForgotten
    <2>1. op[c] = "sent" /\ outcome[c] = <<>>
      BY <1>1
    <2>2. Awaited(c)
      BY <2>1 DEF Awaited
    <2>. QED  BY <2>2
  <1>. QED  BY <1>2, <1>3, <1>4 DEF AliveInv

\* Nothing of a connection is opened or read by the resolve handler, or when a
\* connect fails.
LEMMA ConnectingAlive ==
    ASSUME Inv, AliveInv, NEW d \in Http2Calls, Http2Resolved(d) \/ Http2ConnectFails(d)
    PROVE  AliveInv'
  <1>1. /\ op[d] \in {"resolving", "connecting"} /\ op'[d] \in {"connecting", "failed"}
        /\ \A c \in Http2Calls \ {d} : op'[c] = op[c]
        /\ UNCHANGED <<progress, overlapped, lost>>
    BY DEF Http2Resolved, Http2ConnectFails, Inv, Http2TypeOK
  <1>2. \A s \in Http2Calls : wire'[s] \in {wire[s], NoCall}
    BY DEF Http2Resolved, Http2ConnectFails, Inv, Http2TypeOK, CallsInv
  <1>3. NewInv'
    BY <1>1, <1>2, NoCallAssumption DEF AliveInv, NewInv
  <1>4. ViaInv'
    <2>1. CASE Http2Resolved(d)
      <3>1. Awaited(d)
        BY <1>1 DEF Awaited, Inv, CallsInv
      <3>2. d \notin overlapped => via'[d] = d
        BY <2>1, <3>1 DEF Http2Resolved, Inv, SoloInv
      <3>3. ASSUME NEW c \in Http2Calls \ overlapped, c # d
            PROVE  op[c] # "connecting"
        BY <3>1, <3>3, AwaitedOverlap DEF Awaited, Inv, CallsInv
      <3>. QED  BY <1>1, <3>2, <3>3 DEF ViaInv
    <2>2. CASE Http2ConnectFails(d)
      <3>1. via' = via /\ op'[d] = "failed"
        BY <2>2 DEF Http2ConnectFails, Inv, Http2TypeOK
      <3>. QED  BY <1>1, <3>1 DEF AliveInv, ViaInv
    <2>. QED  BY <2>1, <2>2
  <1>5. CallbackNotForgotten'
    <2>. SUFFICES ASSUME NEW c \in Http2Calls, c \notin overlapped', c \notin lost',
                         op'[c] = "sent", outcome'[c] = <<>>
                  PROVE  FALSE
      BY DEF CallbackNotForgotten
    <2>1. c # d /\ op[c] = "sent" /\ c \notin overlapped
      BY <1>1
    <2>2. outcome[c] = <<>>
      BY <2>1 DEF Http2Resolved, Http2ConnectFails, CallBack, Inv, Http2TypeOK
    <2>. QED  BY <1>1, <2>1, <2>2, NobodyElseWaits
  <1>. QED  BY <1>3, <1>4, <1>5 DEF AliveInv

\* The connect handler of a solo call puts its callback in the entry and reads its
\* own socket.
LEMMA ConnectedAlive ==
    ASSUME Inv, AliveInv, NEW d \in Http2Calls, Http2Connected(d)
    PROVE  AliveInv'
  <1>. USE DEF Http2Connected
  <1>1. /\ op[d] = "connecting" /\ op'[d] = "sent"
        /\ \A c \in Http2Calls \ {d} : op'[c] = op[c]
        /\ UNCHANGED <<socket_, via, outcome, progress, overlapped, lost>>
    BY DEF Inv, Http2TypeOK
  <1>2. \A s \in Http2Calls : wire'[s] = IF s = via[d] THEN d ELSE wire[s]
    OBVIOUS
  <1>3. NewInv'
    BY <1>1, <1>2 DEF AliveInv, NewInv
  <1>4. ViaInv'
    BY <1>1 DEF AliveInv, ViaInv
  <1>5. CallbackNotForgotten'
    <2>. SUFFICES ASSUME NEW c \in Http2Calls, c \notin overlapped, c \notin lost,
                         op'[c] = "sent", outcome[c] = <<>>
                  PROVE  /\ streams_'.callback = c
                         /\ socket_ = c /\ wire'[c] = c /\ c \in reading'
                         /\ progress[c] # "closed"
      BY <1>1 DEF CallbackNotForgotten
    <2>1. c = d
      BY <1>1, NobodyElseWaits
    <2>2. socket_ = c
      BY <1>1, <2>1 DEF Awaited, Inv, SoloInv
    <2>3. via[c] = c /\ progress[c] = "none"
      BY <1>1, <2>1 DEF AliveInv, ViaInv, NewInv
    <2>4. streams_'.callback = c
      BY <2>1 DEF Inv, Http2TypeOK, Entries
    <2>. QED  BY <1>2, <2>1, <2>2, <2>3, <2>4
  <1>. QED  BY <1>3, <1>4, <1>5 DEF AliveInv

\* Only the connection of a solo call is read while its caller waits, so what other
\* connections brought is not in its way.
LEMMA OnlyOwnIsRead ==
    ASSUME Inv, AliveInv, NEW c \in Http2Calls \ (overlapped \cup lost), op[c] = "sent",
           outcome[c] = <<>>, NEW s \in Http2Calls, Readable(s)
    PROVE  s = c /\ wire[s] = c /\ s = socket_ /\ streams_.callback = c
  BY NobodyElseWaits DEF AliveInv, CallbackNotForgotten, Readable

\* Whatever a read handler is given, it calls back or reads on.
LEMMA ReadAlive ==
    ASSUME Inv, AliveInv, NEW s \in Http2Calls, HandleRead2(s)
    PROVE  AliveInv'
  <1>1. UNCHANGED <<op, socket_, via, wire, overlapped>>
    BY DEF HandleRead2, OnHeader, OnDataChunk, OnStreamClose, OnStreamReset, ReadFails, Receive
  <1>2. progress \in [Http2Calls -> {"none", "status", "body", "closed"}]
    BY DEF Inv, Http2TypeOK
  <1>3. CASE ReadFails(s)
    BY <1>1, <1>3 DEF ReadFails, AliveInv, NewInv, ViaInv, CallbackNotForgotten
  <1>4. CASE ~ReadFails(s)
    <2>1. /\ Readable(s) /\ ReadOn(s) /\ lost' = lost /\ wire[s] \in Http2Calls
          /\ \E to \in {"status", "body", "closed"} :
                progress' = [progress EXCEPT ![wire[s]] = to]
          /\ progress'[wire[s]] = "closed" => CloseStream
          /\ progress'[wire[s]] # "closed" =>
                outcome' = outcome /\ streams_'.callback = streams_.callback
      <3>0. wire[s] \in Http2Calls
        BY <1>4 DEF HandleRead2, OnHeader, OnDataChunk, OnStreamClose, OnStreamReset, Receive,
             Readable, Inv, Http2TypeOK
      <3>1. CASE OnHeader(s)
        <4>1. streams_'.callback = streams_.callback
          BY <3>1 DEF OnHeader, Inv, Http2TypeOK, Entries
        <4>. QED  BY <1>2, <3>0, <3>1, <4>1 DEF OnHeader, Receive
      <3>2. CASE OnDataChunk(s)
        <4>1. streams_'.callback = streams_.callback
          BY <3>2 DEF OnDataChunk, Inv, Http2TypeOK, Entries
        <4>. QED  BY <1>2, <3>0, <3>2, <4>1 DEF OnDataChunk, Receive
      <3>3. CASE OnStreamClose(s)
        BY <1>2, <3>0, <3>3 DEF OnStreamClose, Receive
      <3>4. CASE OnStreamReset(s)
        BY <1>2, <3>0, <3>4 DEF OnStreamReset
      <3>. QED  BY <1>4, <3>1, <3>2, <3>3, <3>4 DEF HandleRead2
    <2>2. NewInv'
      BY <1>1, <1>2, <2>1 DEF AliveInv, NewInv
    <2>3. ViaInv'
      BY <1>1 DEF AliveInv, ViaInv
    <2>4. CallbackNotForgotten'
      <3>. SUFFICES ASSUME NEW c \in Http2Calls, c \notin overlapped, c \notin lost,
                           op[c] = "sent", outcome'[c] = <<>>
                    PROVE  /\ streams_'.callback = c
                           /\ socket_ = c /\ wire[c] = c /\ c \in reading'
                           /\ progress'[c] # "closed"
        BY <1>1, <2>1 DEF CallbackNotForgotten
      <3>1. outcome[c] = <<>>
        <4>1. outcome[c] \in Seq(Outcomes)
          BY DEF Inv, Http2TypeOK
        <4>2. ASSUME NEW result
              PROVE  Append(outcome[c], result) # <<>>
          <5>1. Len(Append(outcome[c], result)) = Len(outcome[c]) + 1 /\ Len(outcome[c]) \in Nat
            BY <4>1
          <5>. QED  BY <5>1
        <4>3. outcome'[c] = outcome[c] \/ \E result : outcome'[c] = Append(outcome[c], result)
          BY <2>1 DEF CloseStream, CallBack, Inv, Http2TypeOK
        <4>. QED  BY <4>2, <4>3
      <3>2. s = c /\ wire[s] = c /\ s = socket_ /\ streams_.callback = c
        BY <2>1, <3>1, OnlyOwnIsRead
      <3>3. c \in reading'
        BY <2>1, <3>2 DEF ReadOn, Readable
      <3>4. progress'[c] # "closed"
        <4>1. ASSUME progress'[c] = "closed"
              PROVE  FALSE
          <5>1. CloseStream /\ HasEntry
            BY <2>1, <3>2, <4>1, NoCallAssumption DEF HasEntry
          <5>2. outcome'[c] = Append(outcome[c], Response(streams_.status, streams_.body))
            BY <3>2, <5>1 DEF CloseStream, CallBack, Inv, Http2TypeOK
          <5>3. outcome[c] \in Seq(Outcomes)
            BY DEF Inv, Http2TypeOK
          <5>. QED  BY <5>2, <5>3
        <4>. QED  BY <4>1
      <3>. QED  BY <2>1, <3>2, <3>3, <3>4
    <2>. QED  BY <2>2, <2>3, <2>4 DEF AliveInv
  <1>. QED  BY <1>3, <1>4

\* Every step of the client leaves each solo call somebody who will call it.
LEMMA AliveStep == Inv /\ AliveInv /\ [Http2Next]_http2Vars => AliveInv'
  <1>1. Inv /\ AliveInv /\ UNCHANGED http2Vars => AliveInv'
    BY DEF http2Vars, AliveInv, NewInv, ViaInv, CallbackNotForgotten
  <1>2. ASSUME Inv, AliveInv, NEW w \in Http2Calls, NEW code, Answered(w, code)
        PROVE  AliveInv'
    BY <1>2 DEF Answered, AliveInv, NewInv, ViaInv, CallbackNotForgotten
  <1>. QED
    BY <1>1, <1>2, SendAlive, ConnectingAlive, ConnectedAlive, ReadAlive
       DEF Http2Next, Http2Handler

\* Nothing is connected at first.
LEMMA AliveInit == Http2Init => AliveInv
  BY NoCallAssumption DEF Http2Init, AliveInv, NewInv, ViaInv, CallbackNotForgotten

\* Whatever calls came before and were lost, refused or reset, a call that no other
\* overlaps has its callback in streams_ and a read pending for as long as its
\* caller waits.
THEOREM NobodyIsForgotten == Http2Spec => []CallbackNotForgotten
  <1>1. AliveInv => CallbackNotForgotten
    BY DEF AliveInv
  <1>. QED  BY <1>1, AliveInit, AliveStep, Invariant, PTL DEF Http2Spec
=============================================================================
