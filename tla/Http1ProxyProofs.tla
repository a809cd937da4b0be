--------------------------- MODULE Http1ProxyProofs ---------------------------
(***************************************************************************)
(* Theorems about the HTTP/1.1 front end, for any number of sessions,      *)
(* backends, patterns and requests.                                        *)
(***************************************************************************)
EXTENDS Http1Proxy, BackendRegistryProofs

-----------------------------------------------------------------------------
(* The inductive invariant. *)

\* A session draws its id when it is accepted, and no other session has it.
IdsInv ==
    /\ \A s \in Sessions : pc[s] = "unborn" => request_id[s] = 0
    /\ \A s \in Sessions : pc[s] # "unborn" => request_id[s] \in 1 .. (next_request_id - 1)
    /\ \A s, t \in Sessions :
        pc[s] # "unborn" /\ request_id[s] = request_id[t] => s = t

\* TrackedWhileOpen, with what is needed of the owner of an entry.
TableInv ==
    /\ \A id \in DOMAIN active_requests :
        /\ active_requests[id] \in Sessions
        /\ request_id[active_requests[id]] = id
        /\ pc[active_requests[id]] \in InFlight
    /\ \A s \in Sessions : pc[s] \in InFlight =>
        /\ request_id[s] \in DOMAIN active_requests
        /\ active_requests[request_id[s]] = s

\* What a session knows at each stage.
ChainInv ==
    \A s \in Sessions :
        /\ pc[s] \in {"unborn", "accepted", "reading"} => request[s] = NoRequest
        /\ pc[s] \in Backend => rule[s] \in Rules
        /\ pc[s] = "replying" => response[s] \in Replies

Inv == TypeOK /\ IdsInv /\ TableInv /\ ChainInv

-----------------------------------------------------------------------------
(* Facts about requests and stages. *)

\* The offered requests are requests, and a legible registration names a
\* backend id, and a rule if it is a POST.
LEMMA LegibleBodies ==
    ASSUME NEW req \in Offered, IsLegible(req)
    PROVE  /\ req.body.id \in BackendIds
           /\ req.method = "POST" => req.body.rule \in Rules
  <1>1. req \in Requests
    BY OfferedAssumption
  <1>2. req.body \in Bodies
    BY <1>1 DEF Requests
  <1>3. CASE req.body \in [kind : {"rule"}, id : BackendIds, rule : Rules]
    BY <1>3
  <1>4. CASE req.body \in [kind : {"id"}, id : BackendIds]
    BY <1>4 DEF IsLegible, HasRule
  <1>5. CASE req.body \in [kind : {"junk"}]
    BY <1>5 DEF IsLegible, HasRule, HasId
  <1>. QED  BY <1>2, <1>3, <1>4, <1>5 DEF Bodies

\* The stages of a session are what their names say, and no two are the same.
LEMMA StagesDistinct ==
    /\ "unborn" \notin InFlight /\ "accepted" \notin InFlight /\ "closed" \notin InFlight
    /\ Backend \subseteq InFlight
    /\ InFlight \subseteq Stages
    /\ "reading" \in InFlight \ Backend
    /\ "replying" \in InFlight \ Backend
    /\ "ending" \in InFlight \ Backend
  BY DEF InFlight, Backend, Stages

-----------------------------------------------------------------------------
(* What the helpers of the actions do. *)

\* send_response leaves the session replying, in the table as before.
LEMMA StartReplyInv ==
    ASSUME Inv, NEW s \in Sessions, NEW reply \in Replies, pc[s] \in InFlight,
           StartReply(s, reply), RegistryTypeOK',
           rule' = rule,
           request' \in [Sessions -> Offered \cup {NoRequest}],
           \A t \in Sessions \ {s} : request'[t] = request[t]
    PROVE  Inv'
  <1>. USE DEF StartReply, SetState, GoTo
  <1>1. TypeOK'
    BY DEF Inv, TypeOK, RequestState, Stages, InFlight
  <1>2. IdsInv'
    BY StagesDistinct DEF Inv, TypeOK, IdsInv
  <1>3. TableInv'
    BY StagesDistinct DEF Inv, TypeOK, TableInv
  <1>4. ChainInv'
    BY StagesDistinct DEF Inv, TypeOK, ChainInv
  <1>. QED  BY <1>1, <1>2, <1>3, <1>4 DEF Inv

\* A report of the outcome leaves the session in the table.
LEMMA ReportInv ==
    ASSUME Inv, NEW s \in Sessions, NEW outcome \in RequestState,
           pc[s] \in InFlight, Report(s, outcome),
           received' \in [Sessions -> Seq(Replies)]
    PROVE  Inv'
  <1>. USE DEF Report, SetState, GoTo, registryVars
  <1>1. TypeOK'
    BY StagesDistinct DEF Inv, TypeOK, RegistryTypeOK
  <1>2. IdsInv'
    BY StagesDistinct DEF Inv, TypeOK, IdsInv
  <1>3. TableInv'
    BY StagesDistinct DEF Inv, TypeOK, TableInv
  <1>4. ChainInv'
    BY StagesDistinct DEF Inv, TypeOK, ChainInv
  <1>. QED  BY <1>1, <1>2, <1>3, <1>4 DEF Inv

\* complete_request takes the session out of the table and no other.
LEMMA CompleteSessionInv ==
    ASSUME Inv, NEW s \in Sessions, CompleteSession(s)
    PROVE  Inv'
  <1>1. /\ pc[s] \in InFlight
        /\ request_id[s] \in DOMAIN active_requests
        /\ active_requests[request_id[s]] = s
    BY StagesDistinct DEF CompleteSession, Inv, TableInv
  <1>2. /\ state' = [state EXCEPT ![s] = "Completed"]
        /\ active_requests' = Restrict(active_requests, DOMAIN active_requests \ {request_id[s]})
        /\ UNCHANGED <<next_request_id, request_id>>
    BY <1>1 DEF CompleteSession, CompleteRequest
  <1>3. /\ pc' = [pc EXCEPT ![s] = "closed"]
        /\ UNCHANGED <<backends, before, request, rule, response, received, stalled>>
    BY DEF CompleteSession, GoTo, registryVars
  <1>4. TypeOK'
    BY <1>2, <1>3 DEF Inv, TypeOK, RegistryTypeOK, RequestState, Stages
  <1>5. IdsInv'
    BY <1>1, <1>2, <1>3, StagesDistinct DEF Inv, TypeOK, IdsInv
  <1>6. TableInv'
    <2>1. ASSUME NEW id \in DOMAIN active_requests'
          PROVE  /\ active_requests'[id] \in Sessions
                 /\ request_id'[active_requests'[id]] = id
                 /\ pc'[active_requests'[id]] \in InFlight
      BY <1>1, <1>2, <1>3, <2>1 DEF Inv, TypeOK, TableInv, Restrict
    <2>2. ASSUME NEW t \in Sessions, pc'[t] \in InFlight
          PROVE  /\ request_id'[t] \in DOMAIN active_requests'
                 /\ active_requests'[request_id'[t]] = t
      <3>1. t # s /\ pc[t] \in InFlight
        BY <1>3, <2>2, StagesDistinct DEF Inv, TypeOK
      <3>2. request_id[t] # request_id[s]
        BY <1>1, <3>1 DEF Inv, TableInv
      <3>. QED  BY <1>2, <3>1, <3>2 DEF Inv, TableInv, Restrict
    <2>. QED  BY <2>1, <2>2 DEF TableInv
  <1>7. ChainInv'
    BY <1>3, StagesDistinct DEF Inv, TypeOK, ChainInv
  <1>. QED  BY <1>4, <1>5, <1>6, <1>7 DEF Inv

-----------------------------------------------------------------------------
(* Every action preserves the invariant. *)

\* Before anything is accepted, the table is empty and no id was drawn.
LEMMA InitInv == Init => Inv
  BY DEF Init, Inv, RegistryInit, ManagerInit, TypeOK, RegistryTypeOK, IdsInv,
         TableInv, ChainInv, RequestState, Stages, InFlight, Backend

\* The counter gives an accepted session an id that no other session has.
LEMMA AcceptInv ==
    ASSUME Inv, NEW s \in Sessions, Accept(s)
    PROVE  Inv'
  <1>. USE DEF Accept, GenerateRequestId, GoTo
  <1>1. TypeOK'
    BY DEF Inv, TypeOK, RegistryTypeOK, Stages
  <1>2. IdsInv'
    BY DEF Inv, TypeOK, IdsInv
  <1>3. TableInv'
    <2>1. \A t \in Sessions : pc[t] \in InFlight => t # s
      BY StagesDistinct
    <2>2. \A t \in Sessions : pc'[t] \in InFlight => pc[t] \in InFlight /\ t # s
      BY StagesDistinct DEF Inv, TypeOK
    <2>. QED  BY <2>1, <2>2 DEF Inv, TypeOK, TableInv
  <1>4. ChainInv'
    BY StagesDistinct DEF Inv, TypeOK, ChainInv
  <1>. QED  BY <1>1, <1>2, <1>3, <1>4 DEF Inv

\* Inserting a session under its own id replaces no other entry.
LEMMA StartSessionInv ==
    ASSUME Inv, NEW s \in Sessions, StartSession(s)
    PROVE  Inv'
  <1>. USE DEF StartSession, InsertRequest, WithRequest, GoTo
  <1>1. TypeOK'
    BY DEF Inv, TypeOK, RegistryTypeOK, Stages, InFlight, RequestState
  <1>2. IdsInv'
    BY DEF Inv, TypeOK, IdsInv
  <1>3. TableInv'
    <2>1. ASSUME NEW id \in DOMAIN active_requests
          PROVE  id # request_id[s]
      <3>1. PICK owner \in Sessions : request_id[owner] = id /\ pc[owner] \in InFlight
        BY DEF Inv, TableInv
      <3>2. owner # s
        BY <3>1, StagesDistinct
      <3>. QED  BY <3>1, <3>2, StagesDistinct DEF Inv, IdsInv
    <2>2. \A t \in Sessions : pc[t] \in InFlight => t # s
      BY StagesDistinct
    <2>3. pc'[s] \in InFlight
      BY StagesDistinct DEF Inv, TypeOK
    <2>. QED  BY <2>1, <2>2, <2>3 DEF Inv, TypeOK, TableInv
  <1>4. ChainInv'
    BY StagesDistinct DEF Inv, TypeOK, ChainInv
  <1>. QED  BY <1>1, <1>2, <1>3, <1>4 DEF Inv

\* Reading a request, with the whole of handle_request: a session that goes on to
\* a backend has a rule, one that replies has a reply.
LEMMA ReadRequestInv ==
    ASSUME Inv, NEW s \in Sessions, NEW req \in Offered, ReadRequest(s, req)
    PROVE  Inv'
  <1>1. /\ pc[s] = "reading" /\ pc[s] \in InFlight
        /\ request' \in [Sessions -> Offered \cup {NoRequest}]
        /\ \A t \in Sessions \ {s} : request'[t] = request[t]
    BY StagesDistinct DEF ReadRequest, Inv, TypeOK
  <1>2. CASE HandleRegistration(s, req)
    <2>1. rule' = rule
      BY <1>2 DEF HandleRegistration
    <2>2. CASE IsLegible(req) /\ StartReply(s, OwnReply(200)) /\ req.method = "POST"
                /\ RegisterBackend(req.body.id, req.body.rule)
      <3>1. RegistryTypeOK'
        BY <2>2, LegibleBodies, RegisterBackendType DEF Inv, TypeOK
      <3>2. OwnReply(200) \in Replies
        BY DEF OwnReply, Replies, Codes
      <3>. QED  BY <1>1, <2>1, <2>2, <3>1, <3>2, StartReplyInv
    <2>3. CASE IsLegible(req) /\ StartReply(s, OwnReply(200)) /\ UnregisterBackend(req.body.id)
      <3>1. RegistryTypeOK'
        BY <2>3, LegibleBodies, UnregisterBackendType DEF Inv, TypeOK
      <3>2. OwnReply(200) \in Replies
        BY DEF OwnReply, Replies, Codes
      <3>. QED  BY <1>1, <2>1, <2>3, <3>1, <3>2, StartReplyInv
    <2>4. CASE StartReply(s, OwnReply(400)) /\ UNCHANGED registryVars
      <3>1. RegistryTypeOK'
        BY <2>4 DEF Inv, TypeOK, RegistryTypeOK, registryVars
      <3>2. OwnReply(400) \in Replies
        BY DEF OwnReply, Replies, Codes
      <3>. QED  BY <1>1, <2>1, <2>4, <3>1, <3>2, StartReplyInv
    <2>. QED  BY <1>2, <2>2, <2>3, <2>4 DEF HandleRegistration
  <1>3. CASE ForwardToBackend(s, req)
    <2>1. RegistryTypeOK'
      BY <1>3 DEF ForwardToBackend, Inv, TypeOK, RegistryTypeOK, registryVars
    <2>2. CASE StartReply(s, OwnReply(404)) /\ UNCHANGED rule
      <3>1. OwnReply(404) \in Replies
        BY DEF OwnReply, Replies, Codes
      <3>. QED  BY <1>1, <2>1, <2>2, <3>1, StartReplyInv
    <2>3. ASSUME NEW found \in Rules,
                 rule' = [rule EXCEPT ![s] = found],
                 SetState(s, "Forwarding"),
                 GoTo(s, "resolving"),
                 UNCHANGED <<response, received, stalled>>
          PROVE  Inv'
      <3>. USE <1>1, <2>1, <2>3 DEF SetState, GoTo
      <3>1. "resolving" \in InFlight
        BY DEF InFlight, Backend
      <3>2. TypeOK'
        BY <3>1, StagesDistinct DEF Inv, TypeOK, RequestState
      <3>3. IdsInv'
        BY StagesDistinct DEF Inv, TypeOK, IdsInv
      <3>4. TableInv'
        BY <3>1 DEF Inv, TypeOK, TableInv
      <3>5. ChainInv'
        BY StagesDistinct DEF Inv, TypeOK, ChainInv
      <3>. QED  BY <3>2, <3>3, <3>4, <3>5 DEF Inv
    <2>. QED  BY <1>3, <2>2, <2>3 DEF ForwardToBackend
  <1>. QED  BY <1>2, <1>3 DEF ReadRequest

\* The handlers of the forwarding chain that go on to the next operation.
LEMMA ForwardingInv ==
    ASSUME Inv, NEW s \in Sessions, Resolved(s) \/ Connected(s) \/ RequestWritten(s)
    PROVE  Inv'
  <1>. USE DEF SetState, GoTo, registryVars, managerVars
  <1>1. PICK next \in {"connecting", "writing", "awaiting"} :
            /\ pc[s] \in Backend
            /\ pc' = [pc EXCEPT ![s] = next]
            /\ state' \in {state, [state EXCEPT ![s] = "WaitingBackend"]}
            /\ UNCHANGED <<registryVars, next_request_id, request_id, active_requests,
                           request, rule, response, received, stalled>>
    BY DEF Resolved, Connected, RequestWritten, Backend
  <1>2. next \in Backend
    BY DEF Backend
  <1>3. TypeOK'
    BY <1>1, <1>2, StagesDistinct DEF Inv, TypeOK, RegistryTypeOK, RequestState
  <1>4. IdsInv'
    BY <1>1, <1>2, StagesDistinct DEF Inv, TypeOK, IdsInv
  <1>5. TableInv'
    BY <1>1, <1>2, StagesDistinct DEF Inv, TypeOK, TableInv
  <1>6. ChainInv'
    BY <1>1, <1>2, StagesDistinct DEF Inv, TypeOK, ChainInv
  <1>. QED  BY <1>3, <1>4, <1>5, <1>6 DEF Inv

\* The handlers of the forwarding chain that start the reply.
LEMMA BackendEndsInv ==
    ASSUME Inv, NEW s \in Sessions, BackendReplied(s) \/ BackendFails(s)
    PROVE  Inv'
  <1>1. /\ pc[s] \in InFlight
        /\ rule' = rule
        /\ request' \in [Sessions -> Offered \cup {NoRequest}]
        /\ \A t \in Sessions \ {s} : request'[t] = request[t]
        /\ RegistryTypeOK'
    BY StagesDistinct
    DEF BackendReplied, BackendFails, Backend, InFlight, Inv, TypeOK, RegistryTypeOK,
        registryVars
  <1>2. CASE BackendReplied(s)
    <2>1. rule[s] \in Rules
      BY <1>2 DEF BackendReplied, Backend, Inv, ChainInv
    <2>2. BackendReply(rule[s].addr) \in Replies
      BY <2>1 DEF BackendReply, Replies, Rules
    <2>. QED  BY <1>1, <1>2, <2>2, StartReplyInv DEF BackendReplied
  <1>3. CASE BackendFails(s)
    <2>1. OwnReply(502) \in Replies
      BY DEF OwnReply, Replies, Codes
    <2>. QED  BY <1>1, <1>3, <2>1, StartReplyInv DEF BackendFails
  <1>. QED  BY <1>2, <1>3

\* The handlers that report the outcome of a session.
LEMMA EndsInv ==
    ASSUME Inv, NEW s \in Sessions, ReadFails(s) \/ ReplyWritten(s) \/ ReplyFails(s)
    PROVE  Inv'
  <1>1. pc[s] \in InFlight
    BY StagesDistinct DEF ReadFails, ReplyWritten, ReplyFails
  <1>2. received' \in [Sessions -> Seq(Replies)]
    <2>1. received \in [Sessions -> Seq(Replies)]
      BY DEF Inv, TypeOK
    <2>2. CASE ReplyWritten(s)
      <3>1. response[s] \in Replies
        BY <2>2 DEF ReplyWritten, Inv, ChainInv
      <3>2. Append(received[s], response[s]) \in Seq(Replies)
        BY <2>1, <3>1
      <3>. QED  BY <2>1, <2>2, <3>2 DEF ReplyWritten
    <2>3. CASE UNCHANGED received
      BY <2>1, <2>3
    <2>. QED  BY <2>2, <2>3 DEF ReadFails, ReplyFails
  <1>3. PICK outcome \in RequestState : Report(s, outcome)
    BY DEF ReadFails, ReplyWritten, ReplyFails, RequestState
  <1>. QED  BY <1>1, <1>2, <1>3, ReportInv

\* A peer that falls silent changes nothing the server knows.
LEMMA HangInv ==
    ASSUME Inv, NEW s \in Sessions, Hang(s)
    PROVE  Inv'
  BY DEF Hang, Inv, TypeOK, RegistryTypeOK, IdsInv, TableInv, ChainInv,
         registryVars, managerVars

\* Every step of any session preserves the invariant.
LEMMA NextInv == Inv /\ [Next]_vars => Inv'
  <1>. SUFFICES ASSUME Inv, [Next]_vars
                PROVE  Inv'
    OBVIOUS
  <1>1. CASE UNCHANGED vars
    BY <1>1 DEF vars, Inv, TypeOK, RegistryTypeOK, IdsInv, TableInv, ChainInv
  <1>2. ASSUME NEW s \in Sessions, Accept(s) \/ StartSession(s) \/ Complete(s) \/ Hang(s)
        PROVE  Inv'
    <2>1. CASE Accept(s)
      BY <2>1, AcceptInv
    <2>2. CASE StartSession(s)
      BY <2>2, StartSessionInv
    <2>3. CASE Complete(s)
      BY <2>3, ReadRequestInv, ForwardingInv, BackendEndsInv, EndsInv, CompleteSessionInv
      DEF Complete, Handler
    <2>4. CASE Hang(s)
      BY <2>4, HangInv
    <2>. QED  BY <1>2, <2>1, <2>2, <2>3, <2>4
  <1>. QED  BY <1>1, <1>2 DEF Next

-----------------------------------------------------------------------------

\* The invariant holds in every state the front end reaches.
LEMMA Invariance == Spec => []Inv
  BY InitInv, NextInv, PTL DEF Spec

\* Every variable of the front end stays within its type.
THEOREM TypeCorrect == Spec => []TypeOK
  <1>1. Inv => TypeOK
    BY DEF Inv
  <1>. QED  BY <1>1, Invariance, PTL

\* However many sessions there are and however their handlers interleave, the
\* table of active requests holds exactly the sessions with a pending operation.
THEOREM TrackingIsExact == Spec => []TrackedWhileOpen
  <1>1. Inv => TrackedWhileOpen
    BY DEF Inv, TableInv, TrackedWhileOpen
  <1>. QED  BY <1>1, Invariance, PTL

-----------------------------------------------------------------------------
(* The states of a request. *)

\* What was last reported on a session's request, by the session's stage.  At "ending"
\* it is the outcome.
StateOf(stage) ==
    CASE stage \in {"unborn", "accepted"} -> "Created"
      [] stage = "reading" -> "Parsing"
      [] stage \in {"resolving", "connecting"} -> "Forwarding"
      [] stage \in {"writing", "awaiting"} -> "WaitingBackend"
      [] stage = "replying" -> "SendingResponse"
      [] stage = "closed" -> "Completed"

Outcomes == {"Failed", "Completed"}

StateInv ==
    \A s \in Sessions :
        IF pc[s] = "ending" THEN state[s] \in Outcomes ELSE state[s] = StateOf(pc[s])

\* A step takes one session to another stage, and its request to a state of that
\* stage, which is the same or a later one, except that complete_request overwrites.
LEMMA StateStep ==
    ASSUME Inv, StateInv, [Next]_vars
    PROVE  StateInv' /\ AdvanceStep
  <1>. USE DEF StateOf, Outcomes
  <1>1. CASE UNCHANGED <<pc, state>>
    BY <1>1 DEF StateInv, AdvanceStep
  <1>2. ASSUME NEW s \in Sessions, NEW to \in Stages, NEW reported,
               pc[s] # "closed", pc' = [pc EXCEPT ![s] = to],
               state' = [state EXCEPT ![s] = reported],
               IF to = "ending" THEN reported \in Outcomes ELSE reported = StateOf(to),
               \/ reported = state[s]
               \/ Rank[state[s]] < Rank[reported]
               \/ OverwritesFailure(s)
        PROVE  StateInv' /\ AdvanceStep
    BY <1>2 DEF StateInv, AdvanceStep, Inv, TypeOK
  <1>3. ASSUME NEW s \in Sessions, Accept(s) \/ StartSession(s) \/ Complete(s) \/ Hang(s)
        PROVE  \/ UNCHANGED <<pc, state>>
               \/ \E to \in Stages, reported \in RequestState :
                    /\ pc[s] # "closed" /\ pc' = [pc EXCEPT ![s] = to]
                    /\ state' = [state EXCEPT ![s] = reported]
                    /\ IF to = "ending" THEN reported \in Outcomes ELSE reported = StateOf(to)
                    /\ \/ reported = state[s]
                       \/ Rank[state[s]] < Rank[reported]
                       \/ OverwritesFailure(s)
    <2>. USE DEF GoTo, SetState, Stages, InFlight, Backend, Rank, RequestState
    <2>0. /\ state \in [Sessions -> RequestState] /\ pc \in [Sessions -> Stages]
          /\ pc[s] # "ending" => state[s] = StateOf(pc[s])
      BY DEF Inv, TypeOK, StateInv
    <2>1. CASE Accept(s)
      BY <2>0, <2>1 DEF Accept, GenerateRequestId, Inv, IdsInv
    <2>2. CASE StartSession(s)
      BY <2>0, <2>2 DEF StartSession
    <2>3. CASE \E reply : pc[s] \in InFlight \ {"replying", "ending"} /\ StartReply(s, reply)
      BY <2>0, <2>3 DEF StartReply
    <2>4. CASE \E outcome \in Outcomes : pc[s] \in {"reading", "replying"} /\ Report(s, outcome)
      <3>1. PICK outcome \in Outcomes : Report(s, outcome)
        BY <2>4
      <3>2. pc' = [pc EXCEPT ![s] = "ending"] /\ state' = [state EXCEPT ![s] = outcome]
        BY <3>1 DEF Report
      <3>3. state[s] \in {"Parsing", "SendingResponse"}
        BY <2>0, <2>4
      <3>4. Rank[state[s]] < Rank[outcome]
        BY <3>3
      <3>5. "ending" \in Stages /\ outcome \in RequestState /\ pc[s] # "closed"
        BY <2>4
      <3>. QED  BY <3>2, <3>4, <3>5
    <2>5. CASE CompleteSession(s)
      <3>1. /\ pc[s] = "ending" /\ pc' = [pc EXCEPT ![s] = "closed"]
            /\ state' = [state EXCEPT ![s] = "Completed"]
            /\ request_id[s] \in DOMAIN active_requests \ DOMAIN active_requests'
        BY <2>5 DEF CompleteSession, CompleteRequest, Restrict, Inv, TableInv
      <3>2. state[s] \in Outcomes
        BY <3>1 DEF StateInv
      <3>3. state'[s] = "Completed"
        BY <2>0, <3>1
      <3>4. state[s] = "Completed" \/ OverwritesFailure(s)
        BY <3>1, <3>2, <3>3 DEF OverwritesFailure
      <3>. QED  BY <3>1, <3>4
    <2>6. CASE Resolved(s) \/ Connected(s) \/ RequestWritten(s)
      BY <2>0, <2>6 DEF Resolved, Connected, RequestWritten, managerVars
    <2>7. CASE \E req \in Offered : ReadRequest(s, req)
      BY <2>0, <2>3, <2>7 DEF ReadRequest, HandleRegistration, ForwardToBackend
    <2>8. CASE Hang(s)
      BY <2>8 DEF Hang, managerVars
    <2>9. CASE BackendReplied(s) \/ BackendFails(s)
      BY <2>3, <2>9 DEF BackendReplied, BackendFails
    <2>10. CASE ReadFails(s) \/ ReplyWritten(s) \/ ReplyFails(s)
      BY <2>4, <2>10 DEF ReadFails, ReplyWritten, ReplyFails
    <2>. QED
      BY <1>3, <2>1, <2>2, <2>5, <2>6, <2>7, <2>8, <2>9, <2>10 DEF Complete, Handler
  <1>. QED  BY <1>1, <1>2, <1>3 DEF Next, vars

\* A request's state never goes back, a failure is overwritten by complete_request and
\* by nothing before it, and nothing that happens after it reports on it again.
THEOREM StatesAdvance == Spec => StateOnlyAdvances
  <1>1. Init => StateInv
    BY DEF Init, ManagerInit, StateInv, StateOf
  <1>2. Inv /\ StateInv /\ [Next]_vars => StateInv'
    BY StateStep
  <1>3. Inv /\ StateInv /\ [Next]_vars => [AdvanceStep]_vars
    BY StateStep
  <1>. QED  BY <1>1, <1>2, <1>3, Invariance, PTL DEF Spec, StateOnlyAdvances

-----------------------------------------------------------------------------
(* The front end implements Exchange, one exchange per connection. *)

\* Nothing was received before the outcome.
OnceInv == \A s \in Sessions : pc[s] \notin {"ending", "closed"} => received[s] = <<>>

\* The phases of one session's exchange.
LEMMA Phases ==
    /\ PhaseOf("unborn") = "idle" /\ PhaseOf("accepted") = "idle"
    /\ \A stage \in InFlight \ {"ending"} : PhaseOf(stage) = "open"
    /\ PhaseOf("ending") = "closed" /\ PhaseOf("closed") = "closed"
  BY DEF PhaseOf, InFlight, Backend

\* Every step of the front end is a step of Exchange, or changes none of the
\* connections as their clients see them.
LEMMA ExchangeStep ==
    ASSUME Inv, OnceInv, [Next]_vars
    PROVE  OnceInv' /\ [Connection!Next]_(Connection!exchangeVars)
  <1>. DEFINE phase == [s \in Sessions |-> PhaseOf(pc[s])]
  <1>. USE DEF Connection!exchangeVars
  <1>0. pc \in [Sessions -> Stages] /\ received \in [Sessions -> Seq(Replies)]
    BY DEF Inv, TypeOK
  <1>1. CASE UNCHANGED <<pc, received>>
    BY <1>1 DEF OnceInv
  <1>2. ASSUME NEW s \in Sessions, NEW to \in Stages,
               pc' = [pc EXCEPT ![s] = to], received' = received,
               PhaseOf(to) = PhaseOf(pc[s]),
               pc[s] \in {"ending", "closed"} => to \in {"ending", "closed"}
        PROVE  OnceInv' /\ [Connection!Next]_(Connection!exchangeVars)
    <2>1. phase' = phase
      BY <1>0, <1>2
    <2>. QED  BY <1>0, <1>2, <2>1 DEF OnceInv
  <1>3. CASE \E s \in Sessions : StartSession(s)
    <2>1. PICK s \in Sessions : StartSession(s)
      BY <1>3
    <2>2. pc[s] = "accepted" /\ pc' = [pc EXCEPT ![s] = "reading"] /\ received' = received
      BY <2>1 DEF StartSession, GoTo
    <2>3. phase[s] = "idle" /\ phase' = [phase EXCEPT ![s] = "open"]
      BY <1>0, <2>2, Phases, StagesDistinct
    <2>4. Connection!Open(s)
      BY <2>2, <2>3 DEF Connection!Open
    <2>. QED  BY <1>0, <2>2, <2>4 DEF OnceInv, Connection!Next
  <1>4. CASE \E s \in Sessions : ReplyWritten(s)
    <2>1. PICK s \in Sessions : ReplyWritten(s)
      BY <1>4
    <2>2. /\ pc[s] = "replying" /\ pc' = [pc EXCEPT ![s] = "ending"]
          /\ received' = [received EXCEPT ![s] = Append(received[s], response[s])]
          /\ response[s] \in Replies
      BY <2>1 DEF ReplyWritten, Report, GoTo, Inv, ChainInv
    <2>3. phase[s] = "open" /\ phase' = [phase EXCEPT ![s] = "closed"]
      BY <1>0, <2>2, Phases, StagesDistinct
    <2>4. received[s] = <<>>
      BY <2>2 DEF OnceInv
    <2>5. Append(received[s], response[s]) = <<response[s]>>
      BY <2>2, <2>4
    <2>6. received' = [received EXCEPT ![s] = <<response[s]>>]
      BY <2>2, <2>5
    <2>7. Connection!Answer(s, response[s])
      BY <2>3, <2>6 DEF Connection!Answer
    <2>8. OnceInv'
      BY <1>0, <2>2 DEF OnceInv
    <2>. QED  BY <2>2, <2>7, <2>8 DEF Connection!Next
  <1>5. CASE \E s \in Sessions : ReadFails(s) \/ ReplyFails(s)
    <2>1. PICK s \in Sessions : ReadFails(s) \/ ReplyFails(s)
      BY <1>5
    <2>2. /\ pc[s] \in InFlight \ {"ending"} /\ pc' = [pc EXCEPT ![s] = "ending"]
          /\ received' = received
      BY <2>1, StagesDistinct DEF ReadFails, ReplyFails, Report, GoTo
    <2>3. phase[s] = "open" /\ phase' = [phase EXCEPT ![s] = "closed"]
      BY <1>0, <2>2, Phases, StagesDistinct
    <2>4. phase' = [e \in Sessions |-> IF e \in {s} THEN "closed" ELSE phase[e]]
      BY <2>3
    <2>5. Connection!Abort({s})
      BY <2>2, <2>3, <2>4 DEF Connection!Abort
    <2>6. OnceInv'
      BY <1>0, <2>2 DEF OnceInv
    <2>. QED  BY <2>5, <2>6 DEF Connection!Next
  <1>6. ASSUME NEW s \in Sessions,
               \/ Accept(s) \/ Hang(s) \/ \E req \in Offered : ReadRequest(s, req)
               \/ Resolved(s) \/ Connected(s) \/ RequestWritten(s)
               \/ BackendReplied(s) \/ BackendFails(s) \/ CompleteSession(s)
        PROVE  OnceInv' /\ [Connection!Next]_(Connection!exchangeVars)
    <2>1. CASE Hang(s)
      BY <1>1, <2>1 DEF Hang
    <2>2. CASE Accept(s)
      BY <1>2, <2>2, Phases DEF Accept, GoTo, Stages
    <2>3. CASE CompleteSession(s)
      BY <1>2, <2>3, Phases DEF CompleteSession, GoTo, Stages
    <2>4. CASE ~Accept(s) /\ ~Hang(s) /\ ~CompleteSession(s)
      <3>1. /\ pc[s] \in InFlight \ {"ending"} /\ received' = received
            /\ \E to \in InFlight \ {"ending"} : pc' = [pc EXCEPT ![s] = to]
        BY <1>6, <2>4
        DEF ReadRequest, HandleRegistration, ForwardToBackend, StartReply, GoTo, Resolved,
            Connected, RequestWritten, BackendReplied, BackendFails, InFlight, Backend
      <3>. QED  BY <1>2, <3>1, Phases, StagesDistinct
    <2>. QED  BY <2>1, <2>2, <2>3, <2>4
  <1>. QED
    BY <1>1, <1>3, <1>4, <1>5, <1>6 DEF Next, Complete, Handler, vars

\* The front end implements the abstract exchange: whatever the interleaving and
\* the failures, a connection gets at most one reply and none after its end.
THEOREM ImplementsExchange == Spec => ConnectionIsExchange
  <1>1. Init => Connection!Init /\ OnceInv
    BY Phases DEF Init, Connection!Init, OnceInv
  <1>2. Inv /\ OnceInv /\ [Next]_vars => OnceInv' /\ [Connection!Next]_(Connection!exchangeVars)
    BY ExchangeStep
  <1>. QED
    BY <1>1, <1>2, Invariance, PTL DEF Spec, ConnectionIsExchange, Connection!Spec

-----------------------------------------------------------------------------
(* What the clients rely on: the registry is what the registrations made   *)
(* it, and a reply answers the request that was sent.                      *)

\* Only a session that reads its request touches the requests and the registry,
\* and it has read none before.
LEMMA OnlyReadingChanges ==
    ASSUME Inv, [Next]_vars
    PROVE  \/ request' = request /\ UNCHANGED registryVars
           \/ \E s \in Sessions, req \in Offered :
                ReadRequest(s, req) /\ request[s] = NoRequest
  <1>1. ASSUME NEW s \in Sessions, NEW req \in Offered, ReadRequest(s, req)
        PROVE  request[s] = NoRequest
    BY <1>1 DEF ReadRequest, Inv, ChainInv
  <1>2. CASE UNCHANGED vars
    BY <1>2 DEF vars, registryVars
  <1>3. ASSUME NEW s \in Sessions,
               \/ Accept(s) \/ StartSession(s) \/ Hang(s)
               \/ ReadFails(s) \/ ReplyWritten(s) \/ ReplyFails(s)
               \/ Resolved(s) \/ Connected(s) \/ RequestWritten(s)
               \/ BackendReplied(s) \/ BackendFails(s) \/ CompleteSession(s)
        PROVE  request' = request /\ UNCHANGED registryVars
    BY <1>3 DEF Accept, StartSession, Hang, ReadFails, ReplyWritten, ReplyFails, Report,
                Resolved, Connected, RequestWritten, BackendReplied, BackendFails,
                CompleteSession,
                registryVars
  <1>. QED  BY <1>1, <1>2, <1>3 DEF Next, Complete, Handler

\* A request that was read is never replaced, so what it asked for stays true.
LEMMA RequestsStay ==
    ASSUME Inv, [Next]_vars, NEW s \in Sessions, request[s] # NoRequest
    PROVE  request'[s] = request[s]
  <1>1. CASE request' = request
    BY <1>1
  <1>2. ASSUME NEW t \in Sessions, NEW req \in Offered, ReadRequest(t, req),
               request[t] = NoRequest
        PROVE  request'[s] = request[s]
    BY <1>2 DEF ReadRequest, Inv, TypeOK
  <1>. QED  BY <1>1, <1>2, OnlyReadingChanges

\* A registration or a removal that was read stays on record.
LEMMA RegistersStays ==
    ASSUME Inv, [Next]_vars, NEW s \in Sessions, NEW id \in BackendIds
    PROVE  /\ Registers(s, id) => Registers(s, id)' /\ request'[s] = request[s]
           /\ Unregisters(s, id) => Unregisters(s, id)'
  BY RequestsStay DEF Registers, Unregisters

\* A rule that was registered for a path stays explained, even once it is removed.
LEMMA RegisteredStays ==
    ASSUME Inv, [Next]_vars, NEW found, NEW path, Registered(found, path)
    PROVE  Registered(found, path)'
  <1>1. PICK t \in Sessions, id \in BackendIds :
            /\ Registers(t, id)
            /\ request[t].body.rule = found
            /\ IsPrefix(found.pattern, path)
    BY DEF Registered
  <1>2. Registers(t, id)' /\ request'[t] = request[t]
    BY <1>1, RegistersStays
  <1>. QED  BY <1>1, <1>2 DEF Registered

-----------------------------------------------------------------------------

\* A session's request registers or unregisters a backend if and only if
\* handle_request changed the registry on it.
LEMMA ReadRegisters ==
    ASSUME Inv, NEW s \in Sessions, NEW req \in Offered, ReadRequest(s, req),
           NEW id \in BackendIds
    PROVE  /\ request'[s] = req
           /\ Registers(s, id)' <=>
                IsRegistration(req) /\ req.method = "POST" /\ IsLegible(req) /\ req.body.id = id
           /\ Unregisters(s, id)' <=>
                IsRegistration(req) /\ req.method = "DELETE" /\ IsLegible(req) /\ req.body.id = id
           /\ ~Registers(s, id) /\ ~Unregisters(s, id)
           /\ \A t \in Sessions \ {s} : Registers(t, id)' => Registers(t, id)
  <1>1. request'[s] = req /\ req # NoRequest /\ request[s] = NoRequest
    BY OfferedAssumption DEF ReadRequest, Inv, TypeOK, ChainInv
  <1>2. \A t \in Sessions \ {s} : request'[t] = request[t]
    BY DEF ReadRequest, Inv, TypeOK
  <1>. QED  BY <1>1, <1>2 DEF Registers, Unregisters, IsRegistration, IsLegible

\* What a step of the front end does to the entry of one backend, whatever the table
\* held before: a rule that comes in was asked for, one that goes was asked to go, and
\* a registration that is read is carried out.
LEMMA RegistryEffect ==
    ASSUME Inv, [Next]_vars, NEW id \in BackendIds
    PROVE  /\ id \in DOMAIN backends' =>
                \/ id \in DOMAIN backends /\ backends'[id] = backends[id]
                \/ \E s \in Sessions : Registers(s, id)' /\ request'[s].body.rule = backends'[id]
           /\ id \in DOMAIN backends =>
                id \in DOMAIN backends' \/ \E s \in Sessions : Unregisters(s, id)'
           /\ \A s \in Sessions : Registers(s, id)' => Registers(s, id) \/ id \in DOMAIN backends'
  <1>1. CASE request' = request /\ UNCHANGED registryVars
    BY <1>1 DEF Registers, registryVars
  <1>2. ASSUME NEW s \in Sessions, NEW req \in Offered, ReadRequest(s, req)
        PROVE  /\ id \in DOMAIN backends' =>
                    \/ id \in DOMAIN backends /\ backends'[id] = backends[id]
                    \/ Registers(s, id)' /\ request'[s].body.rule = backends'[id]
               /\ id \in DOMAIN backends => id \in DOMAIN backends' \/ Unregisters(s, id)'
               /\ Registers(s, id)' => id \in DOMAIN backends'
    <2>1. /\ request'[s] = req
          /\ Registers(s, id)' <=>
                IsRegistration(req) /\ req.method = "POST" /\ IsLegible(req) /\ req.body.id = id
          /\ Unregisters(s, id)' <=>
                IsRegistration(req) /\ req.method = "DELETE" /\ IsLegible(req) /\ req.body.id = id
      BY <1>2, ReadRegisters
    <2>2. CASE IsRegistration(req) /\ IsLegible(req) /\ req.method = "POST"
                /\ RegisterBackend(req.body.id, req.body.rule)
      <3>1. /\ DOMAIN backends' = DOMAIN backends \cup {req.body.id}
            /\ backends'[req.body.id] = req.body.rule
            /\ \A i \in DOMAIN backends \ {req.body.id} : backends'[i] = backends[i]
        BY <2>2, LegibleBodies, RegisterBackendType DEF Inv, TypeOK
      <3>. QED  BY <2>1, <2>2, <3>1
    <2>3. CASE IsRegistration(req) /\ IsLegible(req) /\ req.method = "DELETE"
                /\ UnregisterBackend(req.body.id)
      <3>1. /\ DOMAIN backends' = DOMAIN backends \ {req.body.id}
            /\ \A i \in DOMAIN backends \ {req.body.id} : backends'[i] = backends[i]
        BY <2>3, LegibleBodies, UnregisterBackendType DEF Inv, TypeOK
      <3>. QED  BY <2>1, <2>3, <3>1
    <2>4. CASE UNCHANGED registryVars /\ ~(IsRegistration(req) /\ IsLegible(req))
      BY <2>1, <2>4 DEF registryVars
    <2>. QED
      BY <1>2, <2>2, <2>3, <2>4
      DEF ReadRequest, HandleRegistration, ForwardToBackend, IsRegistration
  <1>3. ASSUME NEW s \in Sessions, NEW req \in Offered, ReadRequest(s, req),
               NEW t \in Sessions, Registers(t, id)'
        PROVE  Registers(t, id) \/ id \in DOMAIN backends'
    BY <1>2, <1>3, ReadRegisters
  <1>. QED  BY <1>1, <1>2, <1>3, OnlyReadingChanges

\* No step puts an unasked rule in the registry or drops one nobody asked to drop.
LEMMA RegistryExplainedStep ==
    ASSUME Inv, RegistryExplained, [Next]_vars
    PROVE  RegistryExplained'
  <1>. SUFFICES ASSUME NEW id \in BackendIds
                PROVE  /\ id \in DOMAIN backends' =>
                            \E s \in Sessions :
                                Registers(s, id)' /\ request'[s].body.rule = backends'[id]
                       /\ (\E s \in Sessions : Registers(s, id)')
                                /\ (\A s \in Sessions : ~Unregisters(s, id)')
                            => id \in DOMAIN backends'
    BY DEF RegistryExplained
  <1>1. /\ id \in DOMAIN backends =>
            \E s \in Sessions : Registers(s, id) /\ request[s].body.rule = backends[id]
        /\ (\E s \in Sessions : Registers(s, id)) /\ (\A s \in Sessions : ~Unregisters(s, id))
            => id \in DOMAIN backends
    BY DEF RegistryExplained
  <1>. QED  BY <1>1, RegistryEffect, RegistersStays

\* The registry is what the registrations that were read made it, whatever the
\* sessions do and however many there are.
THEOREM RegistryIsExplained == Spec => []RegistryExplained
  <1>1. Init => RegistryExplained
    BY DEF Init, RegistryInit, RegistryExplained, Registers
  <1>2. Inv /\ Inv' /\ RegistryExplained /\ [Next]_vars => RegistryExplained'
    BY RegistryExplainedStep
  <1>. QED  BY <1>1, <1>2, Invariance, PTL DEF Spec

-----------------------------------------------------------------------------

\* What ReplyExplained says of a reply, without what it says of the registry: what
\* the session itself sees to, whatever the others do to the table.
Shaped(s, reply) ==
    /\ request[s] # NoRequest
    /\ IF IsRegistration(request[s])
       THEN reply = OwnReply(IF IsLegible(request[s]) THEN 200 ELSE 400)
       ELSE \/ reply = OwnReply(404)
            \/ rule[s] # NoRule /\ reply \in {OwnReply(502), BackendReply(rule[s].addr)}

ShapeOf(s) ==
    /\ rule[s] # NoRule => request[s] # NoRequest /\ ~IsRegistration(request[s])
    /\ pc[s] = "replying" => Shaped(s, response[s])
    /\ \A reply \in Range(received[s]) : Shaped(s, reply)

ShapeInv == \A s \in Sessions : ShapeOf(s)

\* And what it says of the registry: a rule that was captured was registered for
\* the path, even if it is removed meanwhile.
RuleInv == \A s \in Sessions : rule[s] # NoRule => Registered(rule[s], request[s].path)

\* "No rule" is not a rule.
LEMMA NoRuleIsNone == NoRule \notin Rules
  <1>1. SUFFICES ASSUME NoRule \in Rules PROVE FALSE
    OBVIOUS
  <1>2. DOMAIN NoRule = {"addr"}
    BY DEF NoRule
  <1>3. DOMAIN NoRule = {"addr", "pattern"}
    BY <1>1 DEF Rules
  <1>. QED  BY <1>2, <1>3

\* What one step does to one session: it reads its request, which it answers or
\* forwards; it starts to write what its backend came to; it finishes writing; or
\* nothing that it was going to say changes.
LEMMA SessionStep ==
    ASSUME Inv, [Next]_vars, NEW s \in Sessions
    PROVE  \/ /\ request[s] = NoRequest /\ request'[s] # NoRequest
              /\ received'[s] = received[s]
              /\ \/ /\ IsRegistration(request'[s]) /\ rule'[s] = rule[s]
                    /\ response'[s] = OwnReply(IF IsLegible(request'[s]) THEN 200 ELSE 400)
                 \/ /\ ~IsRegistration(request'[s]) /\ rule'[s] = rule[s]
                    /\ pc'[s] = "replying" /\ response'[s] = OwnReply(404)
                    /\ Finds(request'[s].path, NoRule)
                 \/ /\ ~IsRegistration(request'[s]) /\ pc'[s] = "resolving"
                    /\ rule'[s] \in Rules /\ Finds(request'[s].path, rule'[s])
           \/ /\ pc[s] \in Backend /\ request'[s] = request[s]
              /\ rule'[s] = rule[s] /\ received'[s] = received[s]
              /\ response'[s] \in {OwnReply(502), BackendReply(rule[s].addr)}
           \/ /\ pc[s] = "replying" /\ pc'[s] # "replying"
              /\ request'[s] = request[s] /\ rule'[s] = rule[s]
              /\ received'[s] = Append(received[s], response[s])
           \/ /\ request'[s] = request[s] /\ rule'[s] = rule[s]
              /\ received'[s] = received[s] /\ response'[s] = response[s]
              /\ pc'[s] = "replying" => pc[s] = "replying"
  <1>. USE DEF Inv, TypeOK
  <1>1. CASE UNCHANGED vars
    BY <1>1 DEF vars
  <1>2. ASSUME NEW t \in Sessions \ {s}, Accept(t) \/ StartSession(t) \/ Complete(t) \/ Hang(t)
        PROVE  /\ pc'[s] = pc[s] /\ request'[s] = request[s] /\ rule'[s] = rule[s]
               /\ response'[s] = response[s] /\ received'[s] = received[s]
    BY <1>2
    DEF Accept, StartSession, Complete, Handler, Hang, ReadFails,
        ReadRequest, HandleRegistration, ForwardToBackend, Resolved, Connected,
        RequestWritten, BackendReplied, BackendFails, ReplyWritten, ReplyFails,
        CompleteSession, StartReply, Report, GoTo
  <1>3. ASSUME NEW req \in Offered, ReadRequest(s, req)
        PROVE  /\ request[s] = NoRequest /\ request'[s] # NoRequest
               /\ received'[s] = received[s]
               /\ \/ /\ IsRegistration(request'[s]) /\ rule'[s] = rule[s]
                     /\ response'[s] = OwnReply(IF IsLegible(request'[s]) THEN 200 ELSE 400)
                  \/ /\ ~IsRegistration(request'[s]) /\ rule'[s] = rule[s]
                     /\ pc'[s] = "replying" /\ response'[s] = OwnReply(404)
                     /\ Finds(request'[s].path, NoRule)
                  \/ /\ ~IsRegistration(request'[s]) /\ pc'[s] = "resolving"
                     /\ rule'[s] \in Rules /\ Finds(request'[s].path, rule'[s])
    <2>1. request[s] = NoRequest /\ request'[s] = req /\ req # NoRequest
      BY <1>3, OfferedAssumption DEF ReadRequest, ChainInv
    <2>2. received'[s] = received[s]
      BY <1>3 DEF ReadRequest, HandleRegistration, ForwardToBackend, StartReply
    <2>3. ASSUME NEW reply, StartReply(s, reply)
          PROVE  response'[s] = reply /\ pc'[s] = "replying"
      BY <2>3 DEF StartReply, GoTo
    <2>4. CASE HandleRegistration(s, req)
      BY <2>1, <2>2, <2>3, <2>4 DEF HandleRegistration
    <2>5. CASE ForwardToBackend(s, req)
      <3>1. CASE Finds(req.path, NoRule) /\ StartReply(s, OwnReply(404)) /\ rule' = rule
        BY <2>1, <2>2, <2>3, <2>5, <3>1 DEF ForwardToBackend
      <3>2. ASSUME NEW found \in Rules, Finds(req.path, found),
                   rule' = [rule EXCEPT ![s] = found], GoTo(s, "resolving")
            PROVE  rule'[s] = found /\ pc'[s] = "resolving"
        BY <3>2 DEF GoTo
      <3>. QED  BY <2>1, <2>2, <2>5, <3>1, <3>2 DEF ForwardToBackend
    <2>. QED  BY <1>3, <2>4, <2>5 DEF ReadRequest
  <1>4. CASE BackendReplied(s) \/ BackendFails(s)
    BY <1>4 DEF BackendReplied, BackendFails, StartReply, Backend
  <1>5. CASE ReplyWritten(s)
    BY <1>5 DEF ReplyWritten, Report, GoTo
  <1>6. CASE \/ Accept(s) \/ StartSession(s) \/ Hang(s) \/ ReadFails(s) \/ ReplyFails(s)
             \/ Resolved(s) \/ Connected(s) \/ RequestWritten(s) \/ CompleteSession(s)
    BY <1>6
    DEF Accept, StartSession, Hang, ReadFails, ReplyFails, Resolved, Connected,
        RequestWritten, CompleteSession, Report, GoTo
  <1>7. CASE \E t \in Sessions \ {s} :
                Accept(t) \/ StartSession(t) \/ Complete(t) \/ Hang(t)
    BY <1>2, <1>7
  <1>8. CASE Accept(s) \/ StartSession(s) \/ Complete(s) \/ Hang(s)
    <2>. HIDE DEF Inv, TypeOK
    <2>1. CASE \E req \in Offered : ReadRequest(s, req)
      BY <1>3, <2>1
    <2>2. \/ \E req \in Offered : ReadRequest(s, req)
          \/ BackendReplied(s) \/ BackendFails(s)
          \/ ReplyWritten(s)
          \/ \/ Accept(s) \/ StartSession(s) \/ Hang(s) \/ ReadFails(s) \/ ReplyFails(s)
             \/ Resolved(s) \/ Connected(s) \/ RequestWritten(s) \/ CompleteSession(s)
      BY <1>8 DEF Complete, Handler
    <2>. QED  BY <1>4, <1>5, <1>6, <2>1, <2>2
  <1>. QED  BY <1>1, <1>7, <1>8 DEF Next

\* A session captures a rule when it reads its request, and then it is the rule of
\* the backend that serves the path at that moment.
LEMMA RuleCaptured ==
    ASSUME Inv, [Next]_vars, NEW s \in Sessions
    PROVE  \/ rule'[s] = rule[s]
           \/ /\ request[s] = NoRequest
              /\ \E id \in DOMAIN backends :
                    ServedBy(request'[s].path, id) /\ rule'[s] = backends[id]
  BY SessionStep, NoRuleIsNone DEF Finds

\* A reply that fits its request goes on fitting it.
LEMMA ShapedStays ==
    ASSUME Inv, [Next]_vars, NEW s \in Sessions, NEW reply, Shaped(s, reply)
    PROVE  Shaped(s, reply)'
  <1>1. request[s] # NoRequest /\ request'[s] = request[s]
    BY RequestsStay DEF Shaped
  <1>2. rule'[s] = rule[s]
    BY <1>1, RuleCaptured
  <1>. QED  BY <1>1, <1>2 DEF Shaped

\* No step gives a session, or starts to send it, a reply that does not fit.
LEMMA ShapeInvStep ==
    ASSUME Inv, ShapeInv, [Next]_vars
    PROVE  ShapeInv'
  <1>. SUFFICES ASSUME NEW s \in Sessions
                PROVE  ShapeOf(s)'
    BY DEF ShapeInv
  <1>1. ShapeOf(s)
    BY DEF ShapeInv
  <1>2. rule'[s] # NoRule => request'[s] # NoRequest /\ ~IsRegistration(request'[s])
    BY <1>1, SessionStep DEF ShapeOf
  <1>3. ASSUME pc'[s] = "replying"
        PROVE  Shaped(s, response[s])'
    <2>1. CASE request[s] = NoRequest /\ request'[s] # NoRequest
      BY <1>3, <2>1, SessionStep, StagesDistinct DEF Shaped, Inv, ChainInv
    <2>2. CASE /\ pc[s] \in Backend /\ request'[s] = request[s] /\ rule'[s] = rule[s]
               /\ response'[s] \in {OwnReply(502), BackendReply(rule[s].addr)}
      <3>1. rule[s] # NoRule
        BY <2>2, NoRuleIsNone DEF Inv, ChainInv
      <3>. QED  BY <1>1, <2>2, <3>1 DEF Shaped, ShapeOf
    <2>3. CASE /\ pc[s] = "replying" /\ response'[s] = response[s]
               /\ request'[s] = request[s] /\ rule'[s] = rule[s]
      BY <1>1, <2>3 DEF Shaped, ShapeOf
    <2>. QED  BY <1>3, <2>1, <2>2, <2>3, SessionStep
  <1>4. ASSUME NEW reply \in Range(received'[s])
        PROVE  Shaped(s, reply)'
    <2>1. CASE reply \in Range(received[s])
      BY <1>1, <2>1, ShapedStays DEF ShapeOf
    <2>2. CASE pc[s] = "replying" /\ received'[s] = Append(received[s], response[s])
      <3>1. received[s] \in Seq(Replies) /\ response[s] \in Replies
        BY <2>2 DEF Inv, TypeOK, ChainInv
      <3>2. reply \in Range(received[s]) \/ reply = response[s]
        BY <1>4, <2>2, <3>1 DEF Range
      <3>. QED  BY <1>1, <2>1, <2>2, <3>2, ShapedStays DEF ShapeOf
    <2>. QED  BY <1>4, <2>1, <2>2, SessionStep
  <1>. QED  BY <1>2, <1>3, <1>4 DEF ShapeOf

\* What forward_to_backend finds, some client registered for the path.
LEMMA RuleInvStep ==
    ASSUME Inv, RegistryExplained, ShapeInv, RuleInv, [Next]_vars
    PROVE  RuleInv'
  <1>. SUFFICES ASSUME NEW s \in Sessions, rule'[s] # NoRule
                PROVE  Registered(rule[s], request[s].path)'
    BY DEF RuleInv
  <1>1. CASE rule'[s] = rule[s]
    <2>1. Registered(rule[s], request[s].path) /\ request'[s] = request[s]
      BY <1>1, RequestsStay DEF RuleInv, ShapeInv, ShapeOf
    <2>2. \A found, path : Registered(found, path) => Registered(found, path)'
      BY RegisteredStays
    <2>3. PICK found, path : found = rule[s] /\ path = request[s].path
      OBVIOUS
    <2>4. Registered(found, path)'
      BY <2>1, <2>2, <2>3
    <2>. QED  BY <1>1, <2>1, <2>3, <2>4 DEF Registered
  <1>2. ASSUME NEW id \in DOMAIN backends, ServedBy(request'[s].path, id), rule'[s] = backends[id]
        PROVE  Registered(rule[s], request[s].path)'
    <2>1. id \in BackendIds /\ IsPrefix(backends[id].pattern, request'[s].path)
      BY <1>2 DEF ServedBy, Hits, Inv, TypeOK, RegistryTypeOK
    <2>2. PICK t \in Sessions : Registers(t, id) /\ request[t].body.rule = backends[id]
      BY <1>2, <2>1 DEF RegistryExplained
    <2>3. Registers(t, id)' /\ request'[t] = request[t]
      BY <2>1, <2>2, RegistersStays
    <2>. QED  BY <1>2, <2>1, <2>2, <2>3 DEF Registered
  <1>. QED  BY <1>1, <1>2, RuleCaptured

\* No client of the front end gets a reply that its own request does not explain:
\* not a reply meant for another session, not a status that belies what became of
\* its registration, and not a backend that nobody registered for the path.
THEOREM RepliesAreExplained == Spec => []ReplyExplained
  <1>1. Init => RegistryExplained /\ ShapeInv /\ RuleInv
    BY DEF Init, RegistryInit, RegistryExplained, Registers, ShapeInv, ShapeOf, RuleInv, Range
  <1>2. /\ Inv /\ RegistryExplained /\ [Next]_vars => RegistryExplained'
        /\ Inv /\ ShapeInv /\ [Next]_vars => ShapeInv'
        /\ Inv /\ RegistryExplained /\ ShapeInv /\ RuleInv /\ [Next]_vars => RuleInv'
    BY RegistryExplainedStep, ShapeInvStep, RuleInvStep
  <1>3. ShapeInv /\ RuleInv => ReplyExplained
    BY DEF ShapeInv, ShapeOf, Shaped, RuleInv, ReplyExplained, Explained
  <1>. QED  BY <1>1, <1>2, <1>3, Invariance, PTL DEF Spec

-----------------------------------------------------------------------------
(* The front end keeps to the registry's methods, so what the registry      *)
(* promises holds in it.                                                    *)

\* A step of the front end is a call of register_backend or unregister_backend
\* with a legal backend id and rule, or leaves the table alone.
LEMMA RegistrySteps ==
    ASSUME Inv, [Next]_vars
    PROVE  [RegistryNext]_registryVars
  <1>1. ASSUME NEW s \in Sessions, NEW req \in Offered, ReadRequest(s, req)
        PROVE  [RegistryNext]_registryVars
    <2>1. CASE UNCHANGED registryVars
      BY <2>1
    <2>2. CASE IsLegible(req) /\ req.method = "POST" /\ RegisterBackend(req.body.id, req.body.rule)
      BY <2>2, LegibleBodies DEF RegistryNext
    <2>3. CASE IsLegible(req) /\ UnregisterBackend(req.body.id)
      BY <2>3, LegibleBodies DEF RegistryNext
    <2>. QED
      BY <1>1, <2>1, <2>2, <2>3 DEF ReadRequest, HandleRegistration, ForwardToBackend
  <1>. QED  BY <1>1, OnlyReadingChanges

\* However many sessions register, remove and look up at once, the front end uses
\* the table only as the registry means it to be used.
THEOREM UsesRegistry == Spec => RegistrySpec
  <1>1. Init => RegistryInit
    BY DEF Init
  <1>. QED  BY <1>1, RegistrySteps, Invariance, PTL DEF Spec, RegistrySpec

\* So no session's removal or re-registration of another backend diverts a path.
THEOREM SessionsNeverDivert == Spec => RoutingIsSticky
  BY UsesRegistry, RoutingNeverDiverts, PTL

-----------------------------------------------------------------------------
(* The front end uses the manager of the active requests as one of the      *)
(* threads of ActiveRequestLifecycle that never runs a cleanup.             *)

\* Where a session is in the use of its request.
UseOf(stage) ==
    CASE stage = "unborn" -> "unborn"
      [] stage = "accepted" -> "drawn"
      [] stage \in InFlight -> "tracked"
      [] stage = "closed" -> "dropped"

\* StartSession inserts the request and reports Parsing at once; the lifecycle may
\* report only after the insertion, so that first report is taken as still to come.
Reported == [s \in Sessions |-> IF pc[s] = "reading" THEN "Created" ELSE state[s]]

Lifecycle == INSTANCE ActiveRequestLifecycle WITH
    phase <- [s \in Sessions |-> UseOf(pc[s])],
    state <- Reported

\* Each stage stands for one phase of the use.
LEMMA Uses ==
    /\ UseOf("unborn") = "unborn" /\ UseOf("accepted") = "drawn" /\ UseOf("closed") = "dropped"
    /\ \A stage \in InFlight : UseOf(stage) = "tracked"
  BY DEF UseOf, InFlight, Backend

\* Every step of the front end draws an id, inserts a request under its own id,
\* reports on one that is tracked, completes one, or does nothing to the manager.
LEMMA UseStep ==
    ASSUME Inv, StateInv, [Next]_vars
    PROVE  [Lifecycle!LifecycleNext]_(Lifecycle!lifecycleVars)
  <1>. DEFINE phase == [s \in Sessions |-> UseOf(pc[s])]
              Goal == [Lifecycle!LifecycleNext]_(Lifecycle!lifecycleVars)
  <1>. USE DEF Lifecycle!lifecycleVars
  <1>0. pc \in [Sessions -> Stages] /\ state \in [Sessions -> RequestState]
    BY DEF Inv, TypeOK
  <1>1. ASSUME UNCHANGED <<pc, managerVars>>
        PROVE  Goal
    BY <1>1 DEF Reported, managerVars
  <1>2. ASSUME NEW s \in Sessions, Accept(s)
        PROVE  Goal
    <2>1. pc[s] = "unborn" /\ pc' = [pc EXCEPT ![s] = "accepted"] /\ state' = state
      BY <1>2 DEF Accept, GoTo, GenerateRequestId
    <2>2. phase[s] = "unborn" /\ phase' = [phase EXCEPT ![s] = "drawn"]
      BY <1>0, <2>1, Uses
    <2>3. Reported' = Reported
      BY <1>0, <2>1 DEF Reported
    <2>4. Lifecycle!Draw(s)
      BY <1>2, <2>2, <2>3 DEF Accept, GenerateRequestId, Lifecycle!Draw, Lifecycle!Move,
         Lifecycle!GenerateRequestId
    <2>. QED  BY <2>4 DEF Lifecycle!LifecycleNext
  <1>3. ASSUME NEW s \in Sessions, StartSession(s)
        PROVE  Goal
    <2>1. pc[s] = "accepted" /\ pc' = [pc EXCEPT ![s] = "reading"]
          /\ state' = [state EXCEPT ![s] = "Parsing"] /\ state[s] = "Created"
      BY <1>3 DEF StartSession, GoTo, StateInv, StateOf
    <2>2. phase[s] = "drawn" /\ phase' = [phase EXCEPT ![s] = "tracked"]
      BY <1>0, <2>1, Uses, StagesDistinct
    <2>3. Reported' = Reported
      BY <1>0, <2>1 DEF Reported
    <2>4. Lifecycle!Insert(s)
      BY <1>3, <2>2, <2>3 DEF StartSession, InsertRequest, WithRequest, Lifecycle!Insert,
         Lifecycle!Move, Lifecycle!InsertRequest, Lifecycle!WithRequest
    <2>. QED  BY <2>4 DEF Lifecycle!LifecycleNext
  <1>4. ASSUME NEW s \in Sessions, NEW newState \in RequestState, NEW to \in InFlight \ {"reading"},
               pc[s] \in InFlight, GoTo(s, to), SetState(s, newState)
        PROVE  Goal
    <2>1. phase[s] = "tracked" /\ phase' = phase
      BY <1>0, <1>4, Uses DEF GoTo
    <2>2. Reported' = [Reported EXCEPT ![s] = newState]
      BY <1>0, <1>4 DEF GoTo, SetState, Reported
    <2>3. Lifecycle!Progress(s, newState)
      BY <1>4, <2>1, <2>2 DEF SetState, Lifecycle!Progress, Lifecycle!SetState
    <2>4. newState \in Lifecycle!RequestState
      BY DEF RequestState, Lifecycle!RequestState
    <2>. QED  BY <2>3, <2>4 DEF Lifecycle!LifecycleNext
  <1>5. ASSUME NEW s \in Sessions, NEW reply, pc[s] \in InFlight, StartReply(s, reply)
        PROVE  Goal
    BY <1>4, <1>5, StagesDistinct DEF StartReply, RequestState
  <1>6. ASSUME NEW s \in Sessions, NEW to \in InFlight \ {"reading"},
               pc[s] \in InFlight \ {"reading"}, GoTo(s, to), UNCHANGED managerVars
        PROVE  Goal
    <2>1. phase' = phase /\ Reported' = Reported
      BY <1>0, <1>6, Uses DEF GoTo, Reported, managerVars
    <2>. QED  BY <1>6, <2>1 DEF managerVars
  <1>7. ASSUME NEW s \in Sessions, CompleteSession(s)
        PROVE  Goal
    <2>1. /\ pc[s] = "ending" /\ pc[s] \in InFlight
          /\ request_id[s] \in DOMAIN active_requests /\ active_requests[request_id[s]] = s
      BY <1>7, StagesDistinct DEF CompleteSession, Inv, TableInv
    <2>2. CompleteRequest(request_id[s]) /\ pc' = [pc EXCEPT ![s] = "closed"]
          /\ state' = [state EXCEPT ![s] = "Completed"]
      BY <1>7, <2>1 DEF CompleteSession, GoTo, CompleteRequest
    <2>3. phase[s] = "tracked" /\ phase' = [phase EXCEPT ![s] = "dropped"]
      BY <1>0, <2>1, <2>2, Uses
    <2>4. Reported' = [Reported EXCEPT ![s] = "Completed"]
      BY <1>0, <2>2 DEF Reported
    <2>5. Lifecycle!Complete(s)
      BY <2>1, <2>2, <2>3, <2>4 DEF CompleteRequest, Restrict, Lifecycle!Complete,
         Lifecycle!CompleteRequest, Lifecycle!Restrict
    <2>. QED  BY <2>5 DEF Lifecycle!LifecycleNext
  <1>8. ASSUME NEW s \in Sessions, NEW req \in Offered, ReadRequest(s, req)
        PROVE  Goal
    <2>1. pc[s] = "reading" /\ pc[s] \in InFlight
      BY <1>8, StagesDistinct DEF ReadRequest
    <2>2. "resolving" \in InFlight \ {"reading"} /\ "Forwarding" \in RequestState
      BY DEF InFlight, Backend, RequestState
    <2>3. (\E reply : StartReply(s, reply)) \/ (SetState(s, "Forwarding") /\ GoTo(s, "resolving"))
      BY <1>8 DEF ReadRequest, HandleRegistration, ForwardToBackend
    <2>. QED  BY <1>4, <1>5, <2>1, <2>2, <2>3
  <1>9. ASSUME NEW s \in Sessions, Resolved(s) \/ RequestWritten(s)
        PROVE  Goal
    BY <1>6, <1>9 DEF Resolved, RequestWritten, InFlight, Backend
  <1>10. ASSUME NEW s \in Sessions, Connected(s)
         PROVE  Goal
    BY <1>4, <1>10 DEF Connected, InFlight, Backend, RequestState
  <1>11. ASSUME NEW s \in Sessions, BackendReplied(s) \/ BackendFails(s)
         PROVE  Goal
    BY <1>5, <1>11 DEF BackendReplied, BackendFails, InFlight, Backend
  <1>12. ASSUME NEW s \in Sessions, ReadFails(s) \/ ReplyWritten(s) \/ ReplyFails(s)
         PROVE  Goal
    BY <1>4, <1>12, StagesDistinct DEF ReadFails, ReplyWritten, ReplyFails, Report, RequestState
  <1>13. ASSUME NEW s \in Sessions, Hang(s)
         PROVE  Goal
    BY <1>1, <1>13 DEF Hang
  <1>. HIDE DEF Goal
  <1>14. Goal
    BY <1>1, <1>2, <1>3, <1>7, <1>8, <1>9, <1>10, <1>11, <1>12, <1>13
    DEF Next, Complete, Handler, vars, managerVars
  <1>. QED  BY <1>14 DEF Goal

\* What the sessions do to the table of active requests is what the threads of the
\* manager may do: each draws one id, inserts one request, reports on it while it is
\* tracked, and completes it once, at its end.
THEOREM SessionsUseManager == Spec => Lifecycle!LifecycleSpec
  <1>1. ASSUME Init
        PROVE  StateInv /\ Lifecycle!LifecycleInit
    <2>. USE <1>1 DEF Init, ManagerInit
    <2>1. StateInv
      BY DEF StateInv, StateOf
    <2>2. Reported = [s \in Sessions |-> "Created"]
      BY DEF Reported
    <2>3. [s \in Sessions |-> UseOf(pc[s])] = [s \in Sessions |-> "unborn"]
      BY Uses
    <2>. QED  BY <2>1, <2>2, <2>3 DEF Lifecycle!LifecycleInit, Lifecycle!ManagerInit
  <1>2. Inv /\ StateInv /\ [Next]_vars => StateInv'
    BY StateStep
  <1>. QED
    BY <1>1, <1>2, UseStep, Invariance, PTL DEF Spec, Lifecycle!LifecycleSpec

-----------------------------------------------------------------------------
(* The front end beside others that use the registry.                       *)

\* What others do to the table, as long as it stays one, takes nothing from the front
\* end: its invariants speak of its own variables.
LEMMA OthersMayRegister ==
    ASSUME Inv, RegistryTypeOK', UNCHANGED <<managerVars, sessionVars>>
    PROVE  /\ Inv'
           /\ StateInv => StateInv'
           /\ OnceInv => OnceInv'
           /\ ShapeInv => ShapeInv'
  <1>. USE DEF managerVars, sessionVars
  <1>1. Inv'
    BY DEF Inv, TypeOK, IdsInv, TableInv, ChainInv
  <1>2. (StateInv => StateInv') /\ (OnceInv => OnceInv') /\ (ShapeInv => ShapeInv')
    BY DEF StateInv, OnceInv, ShapeInv, ShapeOf, Shaped
  <1>. QED  BY <1>1, <1>2
=============================================================================
