--------------------------- MODULE ProxyServerProofs ---------------------------
(***************************************************************************)
(* Theorems about the dispatches of the HTTP/2 side (ProxyHandler), and    *)
(* then about both front ends over one registry (ProxyServer), for any     *)
(* number of dispatches, sessions, backends, patterns and requests.        *)
(***************************************************************************)
EXTENDS ProxyServer, BackendRegistryProofs

-----------------------------------------------------------------------------
(* The inductive invariant of the dispatches. *)

\* A dispatch is forwarded only after it was made, and to an address.
ChainInv ==
    \A d \in Dispatches :
        /\ request[d] = NoRequest => stage[d] = "idle"
        /\ stage[d] \in Pending => target[d] \in Addresses

\* AnswersBalance, with the answers themselves.
BalanceInv ==
    \A d \in Dispatches :
        IF request[d] = NoRequest \/ stage[d] \in Pending
        THEN answers[d] = <<>>
        ELSE \E reply \in Replies : answers[d] = <<reply>>

Inv == TypeOK /\ ChainInv /\ BalanceInv

\* The stages are different from each other.
LEMMA StagesDistinct ==
    /\ "idle" \notin Pending /\ "done" \notin Pending
    /\ Pending \subseteq ClientStages /\ "done" \in ClientStages
    /\ "resolving" \in Pending /\ "connecting" \in Pending
    /\ "writing" \in Pending /\ "reading" \in Pending
  BY DEF Pending, ClientStages

\* A legible registration names a backend id, and a rule if it is a POST.
LEMMA LegibleBodies ==
    ASSUME NEW req \in Offered, IsLegible(req)
    PROVE  /\ req.body.id \in BackendIds
           /\ req.method = "POST" => req.body.rule \in Rules
  <1>1. req \in Requests
    BY OfferedAssumption
  <1>. QED  BY <1>1 DEF Requests, Bodies, IsLegible, HasRule, HasId

\* Changing nothing but one dispatch's own entries, with its answer in the same
\* step or an operation left pending, preserves the invariant.
LEMMA OneDispatch ==
    ASSUME Inv, RegistryTypeOK', NEW d \in Dispatches,
           request' \in [Dispatches -> Offered \cup {NoRequest}],
           stage' \in [Dispatches -> ClientStages],
           target' \in [Dispatches -> Addresses \cup {Nowhere}],
           silent' \subseteq Dispatches,
           answers' \in [Dispatches -> Seq(Replies)],
           \A e \in Dispatches \ {d} :
                /\ request'[e] = request[e] /\ stage'[e] = stage[e]
                /\ target'[e] = target[e] /\ answers'[e] = answers[e],
           request'[d] # NoRequest,
           \/ /\ stage'[d] \in Pending /\ target'[d] \in Addresses
              /\ answers'[d] = <<>>
           \/ /\ stage'[d] \notin Pending
              /\ \E reply \in Replies : answers'[d] = <<reply>>
    PROVE  Inv'
  <1>1. TypeOK'
    BY DEF TypeOK
  <1>2. ChainInv'
    BY DEF Inv, ChainInv
  <1>3. BalanceInv'
    BY DEF Inv, BalanceInv
  <1>. QED  BY <1>1, <1>2, <1>3 DEF Inv

\* The first answer to a dispatch.
LEMMA FirstAnswer ==
    ASSUME Inv, NEW d \in Dispatches, NEW reply \in Replies,
           answers[d] = <<>>, Send(d, reply)
    PROVE  /\ answers' \in [Dispatches -> Seq(Replies)]
           /\ answers'[d] = <<reply>>
           /\ \A e \in Dispatches \ {d} : answers'[e] = answers[e]
  <1>1. answers \in [Dispatches -> Seq(Replies)]
    BY DEF Inv, TypeOK
  <1>2. Append(answers[d], reply) = <<reply>> /\ <<reply>> \in Seq(Replies)
    OBVIOUS
  <1>. QED  BY <1>1, <1>2 DEF Send

\* What a dispatch is answered with is a reply.
LEMMA OwnReplies ==
    ASSUME NEW code \in Codes
    PROVE  OwnReply(code) \in Replies
  BY DEF OwnReply, Replies

\* A dispatch either answers at once, on whatever path through the routing, or
\* leaves an operation pending on an address and has not answered.
LEMMA DispatchOutcome ==
    ASSUME Inv, NEW d \in Dispatches, NEW req \in Offered, Dispatch(d, req)
    PROVE  /\ RegistryTypeOK'
           /\ \/ \E reply \in Replies : Reply(d, reply)
              \/ \E addr \in Addresses : SendRequest(d, addr) /\ answers' = answers
  <1>. USE DEF Codes
  <1>1. RegistryTypeOK
    BY DEF Inv, TypeOK
  <1>2. ASSUME UNCHANGED registryVars
        PROVE  RegistryTypeOK'
    BY <1>1, <1>2 DEF registryVars, RegistryTypeOK
  <1>3. CASE HandleRegistration(d, req)
    <2>1. RegistryTypeOK'
      BY <1>1, <1>2, <1>3, LegibleBodies, RegisterBackendType, UnregisterBackendType
      DEF HandleRegistration
    <2>2. \E code \in Codes : Reply(d, OwnReply(code))
      BY <1>3 DEF HandleRegistration
    <2>. QED  BY <2>1, <2>2, OwnReplies
  <1>4. CASE ForwardRequest(d, req)
    BY <1>2, <1>4, OwnReplies DEF ForwardRequest, Rules
  <1>5. CASE UNCHANGED registryVars /\ \E code \in Codes : Reply(d, OwnReply(code))
    BY <1>2, <1>5, OwnReplies
  <1>. QED
    BY <1>3, <1>4, <1>5
    DEF Dispatch, HandleRequest, HandleRoute, HandleDefaultRoutes, HandleProxyRequest

\* The call of request_cb_ preserves the invariant.
LEMMA DispatchInv ==
    ASSUME Inv, NEW d \in Dispatches, NEW req \in Offered, Dispatch(d, req)
    PROVE  Inv'
  <1>1. /\ request[d] = NoRequest /\ stage[d] = "idle" /\ answers[d] = <<>>
        /\ request' = [request EXCEPT ![d] = req] /\ req # NoRequest
    BY OfferedAssumption DEF Dispatch, Inv, ChainInv, BalanceInv
  <1>2. /\ request' \in [Dispatches -> Offered \cup {NoRequest}]
        /\ request'[d] # NoRequest
        /\ \A e \in Dispatches \ {d} : request'[e] = request[e]
    BY <1>1 DEF Inv, TypeOK
  <1>3. ASSUME NEW reply \in Replies, Reply(d, reply)
        PROVE  Inv'
    <2>1. /\ answers' \in [Dispatches -> Seq(Replies)] /\ answers'[d] = <<reply>>
          /\ \A e \in Dispatches \ {d} : answers'[e] = answers[e]
      BY <1>1, <1>3, FirstAnswer DEF Reply
    <2>2. stage' = stage /\ target' = target /\ silent' = silent
      BY <1>3 DEF Reply, clientVars
    <2>. QED
      BY <1>1, <1>2, <2>1, <2>2, DispatchOutcome, OneDispatch, StagesDistinct DEF Inv, TypeOK
  <1>4. ASSUME NEW addr \in Addresses, SendRequest(d, addr), answers' = answers
        PROVE  Inv'
    <2>1. /\ stage' = [stage EXCEPT ![d] = "resolving"]
          /\ target' = [target EXCEPT ![d] = addr] /\ silent' = silent
      BY <1>4 DEF SendRequest, Advance
    <2>2. /\ stage' \in [Dispatches -> ClientStages] /\ stage'[d] \in Pending
          /\ target' \in [Dispatches -> Addresses \cup {Nowhere}] /\ target'[d] = addr
          /\ \A e \in Dispatches \ {d} : stage'[e] = stage[e] /\ target'[e] = target[e]
      BY <2>1, StagesDistinct DEF Inv, TypeOK, Dispatches
    <2>. QED
      BY <1>1, <1>2, <1>4, <2>1, <2>2, DispatchOutcome, OneDispatch DEF Inv, TypeOK
  <1>. QED  BY <1>3, <1>4, DispatchOutcome

\* A handler of the HttpClient that starts the next operation.
LEMMA ProgressInv ==
    ASSUME Inv, NEW d \in Dispatches, Progress(d)
    PROVE  Inv'
  <1>1. /\ stage[d] \in Pending /\ \E to \in Pending : stage' = [stage EXCEPT ![d] = to]
        /\ target' = target /\ silent' = silent
        /\ answers' = answers /\ request' = request /\ UNCHANGED registryVars
    BY StagesDistinct DEF Progress, HandleResolve, HandleConnect, HandleWrite, Advance
  <1>2. RegistryTypeOK'
    BY <1>1 DEF Inv, TypeOK, RegistryTypeOK, registryVars
  <1>3. /\ request[d] # NoRequest /\ answers[d] = <<>> /\ target[d] \in Addresses
    BY <1>1, StagesDistinct DEF Inv, ChainInv, BalanceInv
  <1>4. /\ stage' \in [Dispatches -> ClientStages] /\ stage'[d] \in Pending
        /\ \A e \in Dispatches \ {d} : stage'[e] = stage[e]
    BY <1>1, StagesDistinct DEF Inv, TypeOK, Dispatches
  <1>. QED  BY <1>1, <1>2, <1>3, <1>4, OneDispatch DEF Inv, TypeOK

\* The last handler of the HttpClient, with the callback: the one answer.
LEMMA CallbackInv ==
    ASSUME Inv, NEW d \in Dispatches, BackendReplied(d) \/ BackendFailed(d)
    PROVE  Inv'
  <1>1. /\ stage[d] \in Pending /\ stage' = [stage EXCEPT ![d] = "done"]
        /\ target' = target /\ silent' = silent
        /\ request' = request /\ UNCHANGED registryVars
    BY StagesDistinct DEF BackendReplied, BackendFailed, HandleRead, HandleError, Advance
  <1>2. RegistryTypeOK'
    BY <1>1 DEF Inv, TypeOK, RegistryTypeOK, registryVars
  <1>3. /\ request[d] # NoRequest /\ answers[d] = <<>> /\ target[d] \in Addresses
    BY <1>1, StagesDistinct DEF Inv, ChainInv, BalanceInv
  <1>4. PICK reply \in Replies : Send(d, reply)
    BY <1>3, OwnReplies DEF BackendReplied, BackendFailed, BackendReply, Replies, Codes
  <1>5. /\ answers' \in [Dispatches -> Seq(Replies)] /\ answers'[d] = <<reply>>
        /\ \A e \in Dispatches \ {d} : answers'[e] = answers[e]
    BY <1>3, <1>4, FirstAnswer
  <1>6. /\ stage' \in [Dispatches -> ClientStages] /\ stage'[d] \notin Pending
        /\ \A e \in Dispatches \ {d} : stage'[e] = stage[e]
    BY <1>1, StagesDistinct DEF Inv, TypeOK, Dispatches
  <1>. QED  BY <1>1, <1>2, <1>3, <1>5, <1>6, OneDispatch DEF Inv, TypeOK

\* Every step of any dispatch preserves the invariant.
LEMMA NextInv == Inv /\ [Next]_vars => Inv'
  <1>. SUFFICES ASSUME Inv, [Next]_vars
                PROVE  Inv'
    OBVIOUS
  <1>1. CASE UNCHANGED vars
    BY <1>1 DEF vars, Inv, TypeOK, RegistryTypeOK, ChainInv, BalanceInv
  <1>2. ASSUME NEW d \in Dispatches, BackendFallsSilent(d)
        PROVE  Inv'
    BY <1>2 DEF BackendFallsSilent, FallSilent, registryVars, Inv, TypeOK, RegistryTypeOK,
                ChainInv, BalanceInv, Dispatches
  <1>. QED  BY <1>1, <1>2, DispatchInv, ProgressInv, CallbackInv DEF Next, Complete

\* The invariant holds in every state that is reached.
LEMMA Invariance == Spec => []Inv
  <1>1. Init => Inv
    BY DEF Init, RegistryInit, ClientInit, Inv, TypeOK, RegistryTypeOK, ChainInv, BalanceInv,
           Dispatches, ClientStages, Pending
  <1>. QED  BY <1>1, NextInv, PTL DEF Spec

-----------------------------------------------------------------------------

\* Every variable of the HTTP/2 side's dispatches stays within its type.
THEOREM TypeCorrect == Spec => []TypeOK
  <1>1. Inv => TypeOK
    BY DEF Inv
  <1>. QED  BY <1>1, Invariance, PTL

\* The invariant says of the answers themselves what AnswersBalance says of their number.
LEMMA BalancedAnswers == Inv => AnswersBalance
  <1>. SUFFICES ASSUME Inv, NEW d \in Dispatches
                PROVE  Len(answers[d]) =
                            IF request[d] = NoRequest \/ stage[d] \in Pending THEN 0 ELSE 1
    BY DEF AnswersBalance
  <1>1. CASE request[d] = NoRequest \/ stage[d] \in Pending
    BY <1>1 DEF Inv, BalanceInv
  <1>2. CASE ~(request[d] = NoRequest \/ stage[d] \in Pending)
    <2>1. PICK reply \in Replies : answers[d] = <<reply>>
      BY <1>2 DEF Inv, BalanceInv
    <2>2. Len(<<reply>>) = 1
      OBVIOUS
    <2>. QED  BY <1>2, <2>1, <2>2
  <1>. QED  BY <1>1, <1>2

\* Every dispatch is answered exactly once unless an operation is pending for it,
\* on every path through the routing, the error branches and the callbacks.
THEOREM AnswersAlwaysBalance == Spec => []AnswersBalance
  BY BalancedAnswers, Invariance, PTL

-----------------------------------------------------------------------------
(* The registry and the forwarding are explained by the dispatches. *)

\* A path begins itself, so a dispatch to the exact path is a registration.
LEMMA RegisterPathIsPrefix == IsPrefix(RegisterPath, RegisterPath)
  <1>1. Len(RegisterPath) <= Len(RegisterPath)
    BY PathsAssumption
  <1>. QED  BY <1>1 DEF IsPrefix

\* What a dispatch asked for, it asked for ever after; one that happens now adds
\* to it what its own request says.
LEMMA RequestsStay ==
    ASSUME Inv, NEW d \in Dispatches, NEW req \in Offered, Dispatch(d, req)
    PROVE  /\ request'[d] = req /\ req # NoRequest
           /\ \A e \in Dispatches \ {d} : request'[e] = request[e]
           /\ \A e \in Dispatches, id \in BackendIds :
                /\ Registers(e, id) => e # d /\ Registers(e, id)' /\ request'[e] = request[e]
                /\ Unregisters(e, id) => Unregisters(e, id)'
                /\ Registers(e, id)' => e = d \/ Registers(e, id)
  <1>1. request[d] = NoRequest /\ request' = [request EXCEPT ![d] = req] /\ req # NoRequest
    BY OfferedAssumption DEF Dispatch
  <1>2. request'[d] = req /\ \A e \in Dispatches \ {d} : request'[e] = request[e]
    BY <1>1 DEF Inv, TypeOK
  <1>. QED  BY <1>1, <1>2 DEF Registers, Unregisters

\* Only a dispatch that reaches the registration code changes the registry, as its
\* request asks.
LEMMA DispatchRegisters ==
    ASSUME Inv, NEW d \in Dispatches, NEW req \in Offered, Dispatch(d, req)
    PROVE  \/ /\ IsPrefix(RegisterPath, req.path) /\ HandleRegistration(d, req)
           \/ /\ UNCHANGED registryVars
              /\ \/ ~IsPrefix(RegisterPath, req.path)
                 \/ req.method # "POST"
  <1>1. CASE req.path = TestPath
    BY <1>1, RegisterPathIsPrefix, PathsAssumption
    DEF Dispatch, HandleRequest, HandleRoute, HandleDefaultRoutes
  <1>2. CASE req.path = RegisterPath /\ HasRoute(req)
    BY <1>2, RegisterPathIsPrefix, PathsAssumption DEF Dispatch, HandleRequest, HandleRoute
  <1>3. CASE req.path = RegisterPath /\ ~HasRoute(req)
    BY <1>3 DEF Dispatch, HandleRequest, HandleDefaultRoutes, HasRoute
  <1>4. CASE req.path \notin {TestPath, RegisterPath} /\ IsPrefix(RegisterPath, req.path)
    BY <1>4 DEF Dispatch, HandleProxyRequest
  <1>5. CASE req.path \notin {TestPath, RegisterPath} /\ ~IsPrefix(RegisterPath, req.path)
    BY <1>5 DEF Dispatch, HandleProxyRequest, ForwardRequest
  <1>. QED  BY <1>1, <1>2, <1>3, <1>4, <1>5

\* What a dispatch does to the entry of one backend, whatever the table held before: a
\* rule that comes in was asked for, one that goes was asked to go, and a registration
\* is carried out.
LEMMA DispatchEffect ==
    ASSUME Inv, NEW d \in Dispatches, NEW req \in Offered, Dispatch(d, req),
           NEW id \in BackendIds
    PROVE  /\ id \in DOMAIN backends' =>
                \/ id \in DOMAIN backends /\ backends'[id] = backends[id]
                \/ Registers(d, id)' /\ request'[d].body.rule = backends'[id]
           /\ id \in DOMAIN backends => id \in DOMAIN backends' \/ Unregisters(d, id)'
           /\ Registers(d, id)' => id \in DOMAIN backends'
  <1>1. request'[d] = req /\ req # NoRequest /\ RegistryTypeOK
    BY RequestsStay DEF Inv, TypeOK
  <1>2. CASE IsPrefix(RegisterPath, req.path) /\ IsLegible(req) /\ req.method = "POST"
                /\ RegisterBackend(req.body.id, req.body.rule)
    <2>1. HasRule(req.body) /\ req.body.id \in BackendIds /\ req.body.rule \in Rules
      BY <1>2, LegibleBodies DEF IsLegible
    <2>2. /\ DOMAIN backends' = DOMAIN backends \cup {req.body.id}
          /\ backends'[req.body.id] = req.body.rule
          /\ \A i \in DOMAIN backends \ {req.body.id} : backends'[i] = backends[i]
      BY <1>1, <1>2, <2>1, RegisterBackendType
    <2>. QED  BY <1>1, <1>2, <2>1, <2>2 DEF Registers
  <1>3. CASE IsPrefix(RegisterPath, req.path) /\ IsLegible(req) /\ req.method = "DELETE"
                /\ UnregisterBackend(req.body.id)
    <2>1. HasId(req.body) /\ req.body.id \in BackendIds
      BY <1>3, LegibleBodies DEF IsLegible
    <2>2. /\ DOMAIN backends' = DOMAIN backends \ {req.body.id}
          /\ \A i \in DOMAIN backends \ {req.body.id} : backends'[i] = backends[i]
      BY <1>1, <1>3, <2>1, UnregisterBackendType
    <2>. QED  BY <1>1, <1>3, <2>1, <2>2 DEF Registers, Unregisters
  <1>4. CASE UNCHANGED registryVars
                /\ (~IsPrefix(RegisterPath, req.path) \/ req.method # "POST" \/ ~HasRule(req.body))
    BY <1>1, <1>4 DEF Registers, registryVars
  <1>. QED  BY <1>2, <1>3, <1>4, DispatchRegisters DEF HandleRegistration, IsLegible

\* A dispatch that is forwarded goes to the backend that serves its path at that
\* moment, and its path is none of the proxy's own.
LEMMA ForwardServed ==
    ASSUME Inv, NEW d \in Dispatches, NEW req \in Offered,
           Dispatch(d, req), NEW addr \in Addresses, SendRequest(d, addr)
    PROVE  /\ req.path # TestPath /\ ~IsPrefix(RegisterPath, req.path)
           /\ \E id \in DOMAIN backends : ServedBy(req.path, id) /\ backends[id].addr = addr
  <1>1. stage[d] = "idle" /\ stage'[d] = "resolving" /\ target'[d] = addr
    BY DEF SendRequest, Advance, Inv, TypeOK, Dispatches
  <1>2. \A reply : ~Reply(d, reply)
    BY <1>1 DEF Reply, clientVars
  <1>3. ForwardRequest(d, req) /\ req.path \notin {TestPath, RegisterPath}
            /\ ~IsPrefix(RegisterPath, req.path)
    BY <1>2 DEF Dispatch, HandleRequest, HandleRoute, HandleDefaultRoutes, HandleProxyRequest,
                HandleRegistration
  <1>4. PICK rule \in Rules : Finds(req.path, rule) /\ SendRequest(d, rule.addr)
    BY <1>2, <1>3 DEF ForwardRequest
  <1>5. rule.addr = addr
    BY <1>1, <1>4 DEF SendRequest, Inv, TypeOK, Dispatches
  <1>6. rule # NoRule
    <2>1. DOMAIN rule = {"addr", "pattern"} /\ DOMAIN NoRule = {"addr"}
      BY <1>4 DEF Rules, NoRule
    <2>. QED  BY <2>1
  <1>. QED  BY <1>3, <1>4, <1>5, <1>6 DEF Finds

-----------------------------------------------------------------------------

\* ForwardingExplained without what it says of the registry: what the dispatch itself
\* sees to, whatever the others do to the table.
ShapeInv ==
    \A d \in Dispatches : stage[d] # "idle" =>
        /\ request[d].path # TestPath /\ ~IsPrefix(RegisterPath, request[d].path)
        /\ stage[d] = "done" =>
            answers[d] \in {<<OwnReply(502)>>, <<BackendReply(target[d])>>}

\* And what it says of the registry: some client registered the address for the path.
TargetInv ==
    \A d \in Dispatches : stage[d] # "idle" =>
        \E other \in Dispatches, id \in BackendIds :
            /\ Registers(other, id)
            /\ request[other].body.rule.addr = target[d]
            /\ IsPrefix(request[other].body.rule.pattern, request[d].path)

\* What a step does to one dispatch: it is made, and answered at once or forwarded by
\* the rule that serves its path; its handlers go on; the callback answers; or nothing.
LEMMA DispatchStep ==
    ASSUME Inv, [Next]_vars, NEW d \in Dispatches
    PROVE  \/ /\ request[d] = NoRequest /\ stage[d] = "idle"
              /\ request'[d].path # TestPath /\ ~IsPrefix(RegisterPath, request'[d].path)
              /\ stage'[d] = "resolving"
              /\ \E id \in DOMAIN backends :
                    ServedBy(request'[d].path, id) /\ backends[id].addr = target'[d]
           \/ stage'[d] = "idle"
           \/ /\ request'[d] = request[d] /\ target'[d] = target[d]
              /\ stage[d] # "idle" /\ stage'[d] # "done"
           \/ /\ request'[d] = request[d] /\ target'[d] = target[d] /\ stage[d] # "idle"
              /\ answers'[d] \in {<<OwnReply(502)>>, <<BackendReply(target[d])>>}
           \/ /\ request'[d] = request[d] /\ target'[d] = target[d]
              /\ stage'[d] = stage[d] /\ answers'[d] = answers[d]
  <1>0. /\ stage \in [Dispatches -> ClientStages]
        /\ target \in [Dispatches -> Addresses \cup {Nowhere}]
        /\ request \in [Dispatches -> Offered \cup {NoRequest}]
        /\ answers \in [Dispatches -> Seq(Replies)]
    BY DEF Inv, TypeOK
  <1>1. CASE UNCHANGED vars
    BY <1>1 DEF vars
  <1>2. ASSUME NEW e \in Dispatches, Progress(e) \/ BackendFallsSilent(e)
        PROVE  /\ request' = request /\ target' = target /\ answers' = answers
               /\ stage'[d] = stage[d] \/ (stage[d] # "idle" /\ stage'[d] # "done")
    BY <1>0, <1>2 DEF Progress, HandleResolve, HandleConnect, HandleWrite, Advance,
       BackendFallsSilent, FallSilent
  <1>3. ASSUME NEW e \in Dispatches, BackendReplied(e) \/ BackendFailed(e)
        PROVE  /\ request' = request /\ target' = target
               /\ \/ stage'[d] = stage[d] /\ answers'[d] = answers[d]
                  \/ /\ stage[d] # "idle"
                     /\ answers'[d] \in {<<OwnReply(502)>>, <<BackendReply(target[d])>>}
    <2>1. /\ stage[e] \in Pending /\ stage' = [stage EXCEPT ![e] = "done"]
          /\ request' = request /\ target' = target
          /\ \E reply \in {OwnReply(502), BackendReply(target[e])} : Send(e, reply)
      BY <1>3, StagesDistinct
      DEF BackendReplied, BackendFailed, HandleRead, HandleError, Advance
    <2>2. answers[e] = <<>> /\ stage[e] # "idle"
      BY <2>1, StagesDistinct DEF Inv, BalanceInv
    <2>. QED  BY <1>0, <2>1, <2>2 DEF Send
  <1>4. ASSUME NEW e \in Dispatches, NEW req \in Offered, Dispatch(e, req), d # e
        PROVE  /\ request'[d] = request[d] /\ target'[d] = target[d]
               /\ stage'[d] = stage[d] /\ answers'[d] = answers[d]
    <2>1. request'[d] = request[d]
      BY <1>4, RequestsStay
    <2>2. CASE \E reply \in Replies : Reply(e, reply)
      BY <1>0, <1>4, <2>1, <2>2 DEF Reply, Send, clientVars
    <2>3. CASE \E addr \in Addresses : SendRequest(e, addr) /\ answers' = answers
      BY <1>0, <1>4, <2>1, <2>3 DEF SendRequest, Advance
    <2>. QED  BY <1>4, <2>2, <2>3, DispatchOutcome
  <1>5. ASSUME NEW req \in Offered, Dispatch(d, req)
        PROVE  \/ stage'[d] = "idle"
               \/ /\ request[d] = NoRequest /\ stage[d] = "idle"
                  /\ request'[d].path # TestPath /\ ~IsPrefix(RegisterPath, request'[d].path)
                  /\ stage'[d] = "resolving"
                  /\ \E id \in DOMAIN backends :
                        ServedBy(request'[d].path, id) /\ backends[id].addr = target'[d]
    <2>1. request[d] = NoRequest /\ stage[d] = "idle" /\ request'[d] = req
      BY <1>5, RequestsStay DEF Dispatch, Inv, ChainInv
    <2>2. CASE \E reply \in Replies : Reply(d, reply)
      BY <2>1, <2>2 DEF Reply, clientVars
    <2>3. ASSUME NEW addr \in Addresses, SendRequest(d, addr)
          PROVE  stage'[d] = "resolving" /\ target'[d] = addr
      BY <1>0, <2>3 DEF SendRequest, Advance, Dispatches
    <2>. QED  BY <1>5, <2>1, <2>2, <2>3, ForwardServed, DispatchOutcome
  <1>. QED  BY <1>1, <1>2, <1>3, <1>4, <1>5 DEF Next, Complete

\* No step forwards a path of the proxy's own or answers a forwarded request itself.
LEMMA ShapeInvStep ==
    ASSUME Inv, ShapeInv, [Next]_vars
    PROVE  ShapeInv'
  <1>. SUFFICES ASSUME NEW d \in Dispatches, stage'[d] # "idle"
                PROVE  /\ request'[d].path # TestPath
                       /\ ~IsPrefix(RegisterPath, request'[d].path)
                       /\ stage'[d] = "done" =>
                            answers'[d] \in {<<OwnReply(502)>>, <<BackendReply(target'[d])>>}
    BY DEF ShapeInv
  <1>. QED  BY DispatchStep DEF ShapeInv

\* What was dispatched goes on explaining what it explained.
LEMMA RegistersStays ==
    ASSUME Inv, [Next]_vars, NEW d \in Dispatches, NEW id \in BackendIds
    PROVE  /\ Registers(d, id) => Registers(d, id)' /\ request'[d] = request[d]
           /\ Unregisters(d, id) => Unregisters(d, id)'
  <1>1. CASE request' = request
    BY <1>1 DEF Registers, Unregisters
  <1>2. ASSUME NEW e \in Dispatches, Complete(e) \/ BackendFallsSilent(e)
        PROVE  request' = request
    BY <1>2 DEF Complete, Progress, BackendReplied, BackendFailed, BackendFallsSilent
  <1>. QED  BY <1>1, <1>2, RequestsStay DEF Next, vars

\* What a step of the HTTP/2 side does to the entry of one backend.
LEMMA RegistryEffect ==
    ASSUME Inv, [Next]_vars, NEW id \in BackendIds
    PROVE  /\ id \in DOMAIN backends' =>
                \/ id \in DOMAIN backends /\ backends'[id] = backends[id]
                \/ \E d \in Dispatches :
                        Registers(d, id)' /\ request'[d].body.rule = backends'[id]
           /\ id \in DOMAIN backends =>
                id \in DOMAIN backends' \/ \E d \in Dispatches : Unregisters(d, id)'
           /\ \A d \in Dispatches :
                Registers(d, id)' => Registers(d, id) \/ id \in DOMAIN backends'
  <1>1. CASE request' = request /\ UNCHANGED registryVars
    BY <1>1 DEF Registers, registryVars
  <1>2. ASSUME NEW e \in Dispatches, Complete(e) \/ BackendFallsSilent(e)
        PROVE  request' = request /\ UNCHANGED registryVars
    BY <1>2 DEF Complete, Progress, BackendReplied, BackendFailed, BackendFallsSilent
  <1>3. ASSUME NEW e \in Dispatches, NEW req \in Offered, Dispatch(e, req),
               NEW d \in Dispatches, Registers(d, id)'
        PROVE  Registers(d, id) \/ id \in DOMAIN backends'
    BY <1>3, DispatchEffect, RequestsStay
  <1>. QED  BY <1>1, <1>2, <1>3, DispatchEffect DEF Next, vars, registryVars

\* Every step keeps the explanations: a request that was dispatched never changes.
LEMMA ExplainedStep ==
    ASSUME Inv, RegistryExplained, TargetInv, [Next]_vars
    PROVE  RegistryExplained' /\ TargetInv'
  <1>1. ASSUME NEW id \in BackendIds
        PROVE  /\ id \in DOMAIN backends' =>
                    \E d \in Dispatches :
                        Registers(d, id)' /\ request'[d].body.rule = backends'[id]
               /\ (\E d \in Dispatches : Registers(d, id)')
                        /\ (\A d \in Dispatches : ~Unregisters(d, id)')
                    => id \in DOMAIN backends'
    <2>1. /\ id \in DOMAIN backends =>
                \E d \in Dispatches : Registers(d, id) /\ request[d].body.rule = backends[id]
          /\ (\E d \in Dispatches : Registers(d, id)) /\ (\A d \in Dispatches : ~Unregisters(d, id))
                => id \in DOMAIN backends
      BY DEF RegistryExplained
    <2>. QED  BY <2>1, RegistryEffect, RegistersStays
  <1>2. ASSUME NEW d \in Dispatches, stage'[d] # "idle"
        PROVE  \E other \in Dispatches, id \in BackendIds :
                    /\ Registers(other, id)
                    /\ request[other].body.rule.addr = target'[d]
                    /\ IsPrefix(request[other].body.rule.pattern, request'[d].path)
    <2>1. CASE request'[d] = request[d] /\ target'[d] = target[d] /\ stage[d] # "idle"
      BY <2>1 DEF TargetInv
    <2>2. ASSUME NEW id \in DOMAIN backends, ServedBy(request'[d].path, id),
                 backends[id].addr = target'[d]
          PROVE  \E other \in Dispatches :
                    /\ Registers(other, id)
                    /\ request[other].body.rule.addr = target'[d]
                    /\ IsPrefix(request[other].body.rule.pattern, request'[d].path)
      <3>1. id \in BackendIds /\ IsPrefix(backends[id].pattern, request'[d].path)
        BY <2>2 DEF ServedBy, Hits, Inv, TypeOK, RegistryTypeOK
      <3>. QED  BY <2>2, <3>1 DEF RegistryExplained
    <2>3. DOMAIN backends \subseteq BackendIds
      BY DEF Inv, TypeOK, RegistryTypeOK
    <2>. QED  BY <1>2, <2>1, <2>2, <2>3, DispatchStep
  <1>3. RegistryExplained'
    BY <1>1 DEF RegistryExplained
  <1>4. TargetInv'
    BY <1>2, RegistersStays DEF TargetInv
  <1>. QED  BY <1>3, <1>4

\* Both explanations together, from the type invariant.
LEMMA Explained == Spec => [](RegistryExplained /\ ForwardingExplained)
  <1>1. Init => RegistryExplained /\ TargetInv /\ ShapeInv
    BY DEF Init, RegistryInit, ClientInit, RegistryExplained, TargetInv, ShapeInv, Registers,
           Dispatches
  <1>2. /\ Inv /\ RegistryExplained /\ TargetInv /\ [Next]_vars => RegistryExplained' /\ TargetInv'
        /\ Inv /\ ShapeInv /\ [Next]_vars => ShapeInv'
    BY ExplainedStep, ShapeInvStep
  <1>3. ShapeInv /\ TargetInv => ForwardingExplained
    BY DEF ShapeInv, TargetInv, ForwardingExplained
  <1>. QED  BY <1>1, <1>2, <1>3, Invariance, PTL DEF Spec

\* The registry holds what clients asked for and nothing else, whatever the mix of
\* routes, methods, bodies and failures.
THEOREM RegistryIsExplained == Spec => []RegistryExplained
  BY Explained, PTL

\* A request is forwarded to an address that was registered for it, a path of the
\* proxy's own never is, and the answer is that backend's or a 502.
THEOREM ForwardingIsExplained == Spec => []ForwardingExplained
  BY Explained, PTL

-----------------------------------------------------------------------------
(* The dispatches implement Exchange. *)

\* A step of one dispatch maps to a step of Exchange if it opens the exchange,
\* or closes it with its first answer.
LEMMA MappedStep ==
    ASSUME Inv, Inv', NEW d \in Dispatches,
           \A e \in Dispatches \ {d} :
                /\ request'[e] = request[e] /\ stage'[e] = stage[e]
                /\ answers'[e] = answers[e],
           request[d] = NoRequest \/ stage[d] \in Pending,
           request'[d] # NoRequest,
           stage'[d] \in Pending => request[d] = NoRequest
    PROVE  DispatchExchange!Next
  <1>. DEFINE phase == [e \in Dispatches |-> PhaseOf(e)]
  <1>1. answers \in [Dispatches -> Seq(Replies)] /\ answers' \in [Dispatches -> Seq(Replies)]
    BY DEF Inv, TypeOK
  <1>2. answers[d] = <<>> /\ phase[d] \in {"idle", "open"}
    BY DEF Inv, BalanceInv, PhaseOf
  <1>3. \A e \in Dispatches \ {d} : phase'[e] = phase[e]
    BY DEF PhaseOf
  <1>4. CASE stage'[d] \in Pending
    <2>1. phase[d] = "idle" /\ phase'[d] = "open"
      BY <1>4 DEF PhaseOf
    <2>2. phase' = [phase EXCEPT ![d] = "open"]
      BY <1>3, <2>1
    <2>3. answers'[d] = answers[d]
      BY <1>2, <1>4 DEF Inv, BalanceInv
    <2>4. answers' = answers
      BY <1>1, <2>3
    <2>5. DispatchExchange!Open(d)
      BY <2>1, <2>2, <2>4 DEF DispatchExchange!Open
    <2>. QED  BY <2>5 DEF DispatchExchange!Next
  <1>5. CASE stage'[d] \notin Pending
    <2>1. phase'[d] = "closed"
      BY <1>5 DEF PhaseOf
    <2>2. phase' = [phase EXCEPT ![d] = "closed"]
      BY <1>3, <2>1
    <2>3. PICK reply \in Replies : answers'[d] = <<reply>>
      BY <1>5 DEF Inv, BalanceInv
    <2>4. answers' = [answers EXCEPT ![d] = <<reply>>]
      BY <1>1, <2>3
    <2>5. DispatchExchange!Answer(d, reply)
      BY <1>2, <2>2, <2>4 DEF DispatchExchange!Answer
    <2>. QED  BY <2>5 DEF DispatchExchange!Next
  <1>. QED  BY <1>4, <1>5

\* Every step of the dispatches maps to a step of Exchange or changes nothing in it.
LEMMA ExchangeStep ==
    ASSUME Inv, [Next]_vars
    PROVE  [DispatchExchange!Next]_(DispatchExchange!exchangeVars)
  <1>. USE DEF DispatchExchange!exchangeVars
  <1>0. Inv'
    BY NextInv
  <1>1. ASSUME request' = request, answers' = answers,
               \A e \in Dispatches : stage'[e] \in Pending <=> stage[e] \in Pending
        PROVE  [DispatchExchange!Next]_(DispatchExchange!exchangeVars)
    <2>1. [e \in Dispatches |-> PhaseOf(e)]' = [e \in Dispatches |-> PhaseOf(e)]
      BY <1>1 DEF PhaseOf
    <2>. QED  BY <1>1, <2>1
  <1>2. CASE UNCHANGED vars
    BY <1>1, <1>2 DEF vars
  <1>3. ASSUME NEW d \in Dispatches, Progress(d) \/ BackendFallsSilent(d)
        PROVE  [DispatchExchange!Next]_(DispatchExchange!exchangeVars)
    BY <1>1, <1>3, StagesDistinct
    DEF Progress, HandleResolve, HandleConnect, HandleWrite, Advance, BackendFallsSilent,
        FallSilent, Inv, TypeOK
  <1>4. ASSUME NEW d \in Dispatches, BackendReplied(d) \/ BackendFailed(d)
        PROVE  DispatchExchange!Next
    <2>1. /\ stage[d] \in Pending /\ stage' = [stage EXCEPT ![d] = "done"]
          /\ request' = request /\ \E reply : Send(d, reply)
      BY <1>4, StagesDistinct
      DEF BackendReplied, BackendFailed, HandleRead, HandleError, Advance
    <2>2. /\ request[d] # NoRequest /\ stage'[d] = "done"
          /\ \A e \in Dispatches \ {d} : stage'[e] = stage[e] /\ answers'[e] = answers[e]
      BY <2>1, StagesDistinct DEF Inv, TypeOK, ChainInv, Send
    <2>. QED  BY <1>0, <2>1, <2>2, MappedStep, StagesDistinct
  <1>5. ASSUME NEW d \in Dispatches, NEW req \in Offered, Dispatch(d, req)
        PROVE  DispatchExchange!Next
    <2>1. /\ request[d] = NoRequest /\ request' = [request EXCEPT ![d] = req]
          /\ req # NoRequest
      BY <1>5, OfferedAssumption DEF Dispatch
    <2>2. \A e \in Dispatches \ {d} : stage'[e] = stage[e] /\ answers'[e] = answers[e]
      <3>1. CASE \E reply \in Replies : Reply(d, reply)
        BY <3>1 DEF Reply, Send, clientVars, Inv, TypeOK
      <3>2. CASE \E addr \in Addresses : SendRequest(d, addr) /\ answers' = answers
        BY <3>2 DEF SendRequest, Advance, Inv, TypeOK
      <3>. QED  BY <1>5, <3>1, <3>2, DispatchOutcome
    <2>3. request'[d] # NoRequest /\ \A e \in Dispatches \ {d} : request'[e] = request[e]
      BY <2>1 DEF Inv, TypeOK
    <2>. QED  BY <1>0, <2>1, <2>2, <2>3, MappedStep
  <1>. QED  BY <1>2, <1>3, <1>4, <1>5 DEF Next, Complete

\* The dispatches implement the abstract exchange: the sender of a dispatch is
\* called at most once, in the call of request_cb_ or after it, and never again.
THEOREM ImplementsExchange == Spec => DispatchIsExchange
  <1>1. Init => DispatchExchange!Init
    BY DEF Init, DispatchExchange!Init, PhaseOf
  <1>2. Inv /\ [Next]_vars => [DispatchExchange!Next]_(DispatchExchange!exchangeVars)
    BY ExchangeStep
  <1>. QED
    BY <1>1, <1>2, Invariance, PTL DEF Spec, DispatchIsExchange, DispatchExchange!Spec

-----------------------------------------------------------------------------
(* The HTTP/2 side keeps to the registry's methods as well.                 *)

\* A step of the HTTP/2 side is a call of register_backend or unregister_backend
\* with a legal backend id and rule, or leaves the table alone.
LEMMA RegistrySteps ==
    ASSUME Inv, [Next]_vars
    PROVE  [RegistryNext]_registryVars
  <1>1. ASSUME NEW d \in Dispatches, NEW req \in Offered, Dispatch(d, req)
        PROVE  [RegistryNext]_registryVars
    <2>1. CASE UNCHANGED registryVars
      BY <2>1
    <2>2. CASE HandleRegistration(d, req)
      <3>1. CASE IsLegible(req) /\ req.method = "POST"
                    /\ RegisterBackend(req.body.id, req.body.rule)
        BY <3>1, LegibleBodies DEF RegistryNext
      <3>2. CASE IsLegible(req) /\ UnregisterBackend(req.body.id)
        BY <3>2, LegibleBodies DEF RegistryNext
      <3>. QED  BY <2>1, <2>2, <3>1, <3>2 DEF HandleRegistration
    <2>. QED
      BY <1>1, <2>1, <2>2
         DEF Dispatch, HandleRequest, HandleRoute, HandleDefaultRoutes, HandleProxyRequest,
             ForwardRequest
  <1>2. ASSUME NEW d \in Dispatches, Complete(d) \/ BackendFallsSilent(d)
        PROVE  UNCHANGED registryVars
    BY <1>2 DEF Complete, Progress, BackendReplied, BackendFailed, BackendFallsSilent
  <1>. QED  BY <1>1, <1>2 DEF Next, vars, registryVars

\* However many sessions dispatch registrations, removals and requests at once, the
\* HTTP/2 side uses the table only as the registry means it to be used.
THEOREM UsesRegistry == Spec => RegistrySpec
  <1>1. Init => RegistryInit
    BY DEF Init
  <1>. QED  BY <1>1, RegistrySteps, Invariance, PTL DEF Spec, RegistrySpec

\* So no dispatched removal or re-registration of another backend diverts a path.
THEOREM DispatchesNeverDivert == Spec => RoutingIsSticky
  BY UsesRegistry, RoutingNeverDiverts, PTL

-----------------------------------------------------------------------------
(* Both front ends over one registry.                                       *)

\* What the HTTP/1.1 sessions do to the table takes nothing from the dispatches, as
\* long as it stays one: the invariants of the dispatches speak of their own variables.
LEMMA OthersMayRegister ==
    ASSUME Inv, RegistryTypeOK', UNCHANGED dispatchVars
    PROVE  Inv' /\ (ShapeInv => ShapeInv')
  BY DEF dispatchVars, Inv, TypeOK, ChainInv, BalanceInv, ShapeInv

\* The instance speaks of the same registry in names of its own: "begins the path",
\* the table's type, and what its methods do are the same on both sides.
LEMMA SamePrefix == \A p, q : Http1!IsPrefix(p, q) <=> IsPrefix(p, q)
  BY DEF Http1!IsPrefix, IsPrefix

\* The paths are what the HTTP/1.1 lemmas were proved for.
LEMMA Http1Paths ==
    /\ RegisterPath \in Paths
    /\ TestPath \in Paths
    /\ RegisterPath \in Seq(STRING)
    /\ ~Http1!IsPrefix(RegisterPath, TestPath)
  BY PathsAssumption, SamePrefix

\* And so are the requests that are offered.
LEMMA Http1Requests ==
    /\ Offered \subseteq Http1!Requests
    /\ NoRequest \notin Http1!Requests
  BY OfferedAssumption
  DEF Requests, Http1!Requests, Methods, Http1!Methods, Bodies, Http1!Bodies, Rules, Http1!Rules

\* A look into the table finds the same, by whichever name.
LEMMA SameLookup ==
    /\ Http1!registryVars = registryVars
    /\ Http1!Rules = Rules /\ Http1!NoRule = NoRule
    /\ Http1!RegistryTypeOK <=> RegistryTypeOK
    /\ \A path : Http1!Hits(path) = Hits(path)
    /\ \A path, id : Http1!ServedBy(path, id) <=> ServedBy(path, id)
    /\ \A path, given : Http1!Finds(path, given) <=> Finds(path, given)
    /\ \A code : Http1!OwnReply(code) = OwnReply(code)
    /\ \A addr : Http1!BackendReply(addr) = BackendReply(addr)
    /\ \A req : Http1!IsLegible(req) <=> IsLegible(req)
  <1>1. Http1!registryVars = registryVars /\ Http1!Rules = Rules /\ Http1!NoRule = NoRule
    BY DEF Http1!registryVars, registryVars, Http1!Rules, Rules, Http1!NoRule, NoRule
  <1>2. Http1!RegistryTypeOK <=> RegistryTypeOK
    BY <1>1 DEF Http1!RegistryTypeOK, RegistryTypeOK
  <1>3. \A path : Http1!Hits(path) = Hits(path)
    BY SamePrefix DEF Http1!Hits, Hits
  <1>4. \A path, id : Http1!ServedBy(path, id) <=> ServedBy(path, id)
    BY <1>3 DEF Http1!ServedBy, ServedBy
  <1>5. \A path, given : Http1!Finds(path, given) <=> Finds(path, given)
    BY <1>1, <1>3, <1>4 DEF Http1!Finds, Finds
  <1>6. /\ \A code : Http1!OwnReply(code) = OwnReply(code)
        /\ \A addr : Http1!BackendReply(addr) = BackendReply(addr)
    BY DEF Http1!OwnReply, OwnReply, Http1!BackendReply, BackendReply
  <1>7. \A req : Http1!IsLegible(req) <=> IsLegible(req)
    BY DEF Http1!IsLegible, IsLegible, Http1!HasRule, HasRule, Http1!HasId, HasId
  <1>. QED  BY <1>1, <1>2, <1>3, <1>4, <1>5, <1>6, <1>7

\* So does a look into the table as a step leaves it.
LEMMA SameTypeNext == Http1!RegistryTypeOK' <=> RegistryTypeOK'
  BY SameLookup DEF Http1!RegistryTypeOK, RegistryTypeOK

\* A change to the table is the same change, by whichever name.
LEMMA SameChange == Http1!RegistryNext <=> RegistryNext
  <1>1. \A keys : Http1!Cardinality(keys) = Cardinality(keys)
    BY DEF Http1!Cardinality, Cardinality
  <1>2. \A keys : Http1!SetToSeqs(keys) = SetToSeqs(keys)
    BY <1>1 DEF Http1!SetToSeqs, SetToSeqs
  <1>3. \A keys : Http1!IterationOrders(keys) = IterationOrders(keys)
    BY <1>2 DEF Http1!IterationOrders, IterationOrders
  <1>4. \A id, given : Http1!RegisterBackend(id, given) <=> RegisterBackend(id, given)
    BY <1>3 DEF Http1!RegisterBackend, RegisterBackend
  <1>5. \A id : Http1!UnregisterBackend(id) <=> UnregisterBackend(id)
    BY DEF Http1!UnregisterBackend, UnregisterBackend, Http1!Restrict, Restrict
  <1>. QED  BY <1>4, <1>5, SameLookup DEF Http1!RegistryNext, RegistryNext

-----------------------------------------------------------------------------
(* The inductive invariant of the server: that of each front end. *)

ServerInv ==
    /\ Inv /\ ShapeInv
    /\ Http1!Inv /\ Http1!StateInv /\ Http1!OnceInv /\ Http1!ShapeInv

\* A step of the server is a step of one of them, and changes nothing of the other's.
LEMMA SideStep ==
    ASSUME [ServerNext]_serverVars
    PROVE  \/ [Next]_vars /\ UNCHANGED http1Vars
           \/ [Http1!Next]_(Http1!vars) /\ UNCHANGED dispatchVars
  BY DEF ServerNext, serverVars, registryVars, dispatchVars, http1Vars, vars, Http1!vars

\* A step of one front end keeps its own invariant, and leaves the other one's to the
\* registry being a registry.
LEMMA ServerInvStep ==
    ASSUME ServerInv, [ServerNext]_serverVars
    PROVE  ServerInv'
  <1>. USE Http1Paths, Http1Requests
  <1>1. CASE [Next]_vars /\ UNCHANGED http1Vars
    <2>1. Inv' /\ ShapeInv'
      BY <1>1, NextInv, ShapeInvStep DEF ServerInv
    <2>2. Http1!RegistryTypeOK'
      BY <2>1, SameTypeNext DEF Inv, TypeOK
    <2>3. UNCHANGED <<Http1!managerVars, Http1!sessionVars>>
      BY <1>1 DEF http1Vars, Http1!managerVars, Http1!sessionVars
    <2>4. Http1!Inv' /\ Http1!StateInv' /\ Http1!OnceInv' /\ Http1!ShapeInv'
      BY <2>2, <2>3, Http1!OthersMayRegister DEF ServerInv
    <2>. QED  BY <2>1, <2>4 DEF ServerInv
  <1>2. CASE [Http1!Next]_(Http1!vars) /\ UNCHANGED dispatchVars
    <2>1. Http1!Inv' /\ Http1!StateInv' /\ Http1!OnceInv' /\ Http1!ShapeInv'
      BY <1>2, Http1!NextInv, Http1!StateStep, Http1!ExchangeStep, Http1!ShapeInvStep
      DEF ServerInv
    <2>2. RegistryTypeOK'
      BY <2>1, SameTypeNext DEF Http1!Inv, Http1!TypeOK
    <2>3. Inv' /\ ShapeInv'
      BY <1>2, <2>2, OthersMayRegister DEF ServerInv
    <2>. QED  BY <2>1, <2>3 DEF ServerInv
  <1>. QED  BY <1>1, <1>2, SideStep

\* Nothing is registered, dispatched or accepted to begin with.
LEMMA ServerInvInit == ServerInit => ServerInv
  <1>. SUFFICES ASSUME ServerInit
                PROVE  ServerInv
    OBVIOUS
  <1>1. Inv /\ ShapeInv
    BY DEF ServerInit, Init, RegistryInit, ClientInit, Inv, TypeOK, RegistryTypeOK, ChainInv,
           BalanceInv, ShapeInv, Dispatches, ClientStages, Pending
  <1>2. Http1!Inv
    BY Http1!InitInv, Http1Paths, Http1Requests DEF ServerInit
  <1>3. Http1!StateInv /\ Http1!OnceInv /\ Http1!ShapeInv
    BY DEF ServerInit, Http1!Init, Http1!ManagerInit, Http1!StateInv, Http1!StateOf,
           Http1!OnceInv, Http1!ShapeInv, Http1!ShapeOf, Http1!Range
  <1>. QED  BY <1>1, <1>2, <1>3 DEF ServerInv

\* The invariant holds in every state the server reaches.
LEMMA ServerInvariance == ServerSpec => []ServerInv
  BY ServerInvInit, ServerInvStep, PTL DEF ServerSpec

-----------------------------------------------------------------------------
(* Each front end keeps its promises beside the other.                      *)

\* What one front end does, the other sees as nothing or as a change of the table.
LEMMA ServerSteps ==
    ASSUME ServerInv, [ServerNext]_serverVars
    PROVE  /\ [RegistryNext]_registryVars
           /\ [DispatchExchange!Next]_(DispatchExchange!exchangeVars)
           /\ [Http1!AdvanceStep]_(Http1!vars)
           /\ [Http1!Connection!Next]_(Http1!Connection!exchangeVars)
  <1>. USE Http1Paths, Http1Requests
  <1>1. CASE [Next]_vars /\ UNCHANGED http1Vars
    <2>1. /\ [RegistryNext]_registryVars
          /\ [DispatchExchange!Next]_(DispatchExchange!exchangeVars)
      BY <1>1, RegistrySteps, ExchangeStep DEF ServerInv
    <2>2. Http1!AdvanceStep
      BY <1>1 DEF http1Vars, Http1!AdvanceStep
    <2>3. UNCHANGED Http1!Connection!exchangeVars
      BY <1>1 DEF http1Vars, Http1!Connection!exchangeVars, Http1!PhaseOf
    <2>. QED  BY <2>1, <2>2, <2>3
  <1>2. CASE [Http1!Next]_(Http1!vars) /\ UNCHANGED dispatchVars
    <2>1. [RegistryNext]_registryVars
      BY <1>2, Http1!RegistrySteps, SameChange
      DEF ServerInv, registryVars, Http1!registryVars
    <2>2. UNCHANGED DispatchExchange!exchangeVars
      BY <1>2 DEF dispatchVars, DispatchExchange!exchangeVars, PhaseOf
    <2>3. [Http1!AdvanceStep]_(Http1!vars)
      BY <1>2, Http1!StateStep DEF ServerInv, Http1!AdvanceStep
    <2>4. [Http1!Connection!Next]_(Http1!Connection!exchangeVars)
      BY <1>2, Http1!ExchangeStep DEF ServerInv
    <2>. QED  BY <2>1, <2>2, <2>3, <2>4
  <1>. QED  BY <1>1, <1>2, SideStep

\* However the two front ends interleave, the one table is only ever registered into
\* and unregistered from, each time as one step.
THEOREM ServerUsesRegistry == ServerSpec => RegistrySpec
  <1>1. ServerInit => RegistryInit
    BY DEF ServerInit, Init
  <1>. QED
    BY <1>1, ServerSteps, ServerInvariance, PTL DEF ServerSpec, RegistrySpec

\* So with both ports open a path that is served goes on being served by the same
\* backend while nothing is inserted: whatever the clients of either port remove or
\* re-register, nothing they do to another backend diverts it.
THEOREM ServerRoutesAsRegistry == ServerSpec => RoutingIsSticky
  BY ServerUsesRegistry, RoutingNeverDiverts, PTL

\* The dispatches of the HTTP/2 side are answered once each, whatever HTTP/1.1 clients
\* register and remove meanwhile.
THEOREM DispatchesBesideSessions == ServerSpec => []AnswersBalance /\ DispatchIsExchange
  <1>1. ServerInit => DispatchExchange!Init
    BY DEF ServerInit, Init, DispatchExchange!Init, PhaseOf
  <1>2. ServerInv => AnswersBalance
    BY BalancedAnswers DEF ServerInv
  <1>. QED
    BY <1>1, <1>2, ServerSteps, ServerInvariance, PTL
    DEF ServerSpec, DispatchIsExchange, DispatchExchange!Spec

\* The HTTP/1.1 sessions are tracked from their start to their complete_request, report
\* states that only advance until it overwrites a failure, and reply once, whatever
\* HTTP/2 clients register and remove meanwhile.
THEOREM SessionsBesideDispatches ==
    ServerSpec => /\ []Http1!TrackedWhileOpen
                  /\ Http1!StateOnlyAdvances
                  /\ Http1!ConnectionIsExchange
  <1>1. ServerInit => Http1!Connection!Init
    BY Http1!Phases, Http1Paths, Http1Requests DEF ServerInit, Http1!Init, Http1!Connection!Init
  <1>2. ServerInv => Http1!TrackedWhileOpen
    BY DEF ServerInv, Http1!Inv, Http1!TableInv, Http1!TrackedWhileOpen
  <1>. QED
    BY <1>1, <1>2, ServerSteps, ServerInvariance, PTL
    DEF ServerSpec, Http1!StateOnlyAdvances, Http1!ConnectionIsExchange, Http1!Connection!Spec

-----------------------------------------------------------------------------
(* What the clients of both ports rely on: the registry is what they made   *)
(* it, and what they get comes from a backend that one of them registered.  *)

\* What was asked for on either port stays asked for.
LEMMA AskedStays ==
    ASSUME ServerInv, [ServerNext]_serverVars, NEW id \in BackendIds
    PROVE  /\ \A given : AskedFor(id, given) => AskedFor(id, given)'
           /\ AskedToRemove(id) => AskedToRemove(id)'
  <1>1. ASSUME NEW d \in Dispatches
        PROVE  /\ Registers(d, id) => Registers(d, id)' /\ request'[d] = request[d]
               /\ Unregisters(d, id) => Unregisters(d, id)'
    <2>1. CASE [Next]_vars
      BY <2>1, RegistersStays DEF ServerInv
    <2>2. CASE UNCHANGED dispatchVars
      BY <2>2 DEF dispatchVars, Registers, Unregisters
    <2>. QED  BY <2>1, <2>2, SideStep
  <1>2. ASSUME NEW s \in Sessions
        PROVE  /\ Http1!Registers(s, id) =>
                    Http1!Registers(s, id)' /\ http1Request'[s] = http1Request[s]
               /\ Http1!Unregisters(s, id) => Http1!Unregisters(s, id)'
    <2>1. CASE [Http1!Next]_(Http1!vars)
      BY <2>1, Http1!RegistersStays, Http1Paths, Http1Requests DEF ServerInv
    <2>2. CASE UNCHANGED http1Vars
      BY <2>2 DEF http1Vars, Http1!Registers, Http1!Unregisters
    <2>. QED  BY <2>1, <2>2, SideStep
  <1>. QED  BY <1>1, <1>2 DEF AskedFor, AskedToRemove

\* What a step of the server does to the entry of one backend.
LEMMA ServerRegistryEffect ==
    ASSUME ServerInv, [ServerNext]_serverVars, NEW id \in BackendIds
    PROVE  /\ id \in DOMAIN backends' =>
                \/ id \in DOMAIN backends /\ backends'[id] = backends[id]
                \/ AskedFor(id, backends[id])'
           /\ id \in DOMAIN backends => id \in DOMAIN backends' \/ AskedToRemove(id)'
           /\ \A given : AskedFor(id, given)' => AskedFor(id, given) \/ id \in DOMAIN backends'
  <1>1. CASE [Next]_vars /\ UNCHANGED http1Vars
    <2>1. \A s \in Sessions : Http1!Registers(s, id)' <=> Http1!Registers(s, id)
      BY <1>1 DEF http1Vars, Http1!Registers
    <2>2. \A d \in Dispatches : Registers(d, id) => request'[d] = request[d]
      BY <1>1, RegistersStays DEF ServerInv
    <2>. QED
      BY <1>1, <2>1, <2>2, RegistryEffect DEF ServerInv, AskedFor, AskedToRemove, http1Vars
  <1>2. CASE [Http1!Next]_(Http1!vars) /\ UNCHANGED dispatchVars
    <2>. USE Http1Paths, Http1Requests
    <2>1. \A d \in Dispatches : Registers(d, id)' <=> Registers(d, id)
      BY <1>2 DEF dispatchVars, Registers
    <2>2. \A s \in Sessions : Http1!Registers(s, id) => http1Request'[s] = http1Request[s]
      BY <1>2, Http1!RegistersStays DEF ServerInv
    <2>. QED
      BY <1>2, <2>1, <2>2, Http1!RegistryEffect
      DEF ServerInv, AskedFor, AskedToRemove, dispatchVars
  <1>. QED  BY <1>1, <1>2, SideStep

\* No step of either front end puts an unasked rule in the registry, or drops one that
\* nobody asked to drop.
LEMMA ServerRegistryExplainedStep ==
    ASSUME ServerInv, ServerRegistryExplained, [ServerNext]_serverVars
    PROVE  ServerRegistryExplained'
  <1>. SUFFICES ASSUME NEW id \in BackendIds
                PROVE  /\ id \in DOMAIN backends' => AskedFor(id, backends[id])'
                       /\ (\E given \in Rules : AskedFor(id, given)') /\ ~AskedToRemove(id)'
                            => id \in DOMAIN backends'
    BY DEF ServerRegistryExplained
  <1>1. /\ id \in DOMAIN backends => AskedFor(id, backends[id])
        /\ (\E given \in Rules : AskedFor(id, given)) /\ ~AskedToRemove(id)
            => id \in DOMAIN backends
    BY DEF ServerRegistryExplained
  <1>2. ASSUME id \in DOMAIN backends', id \in DOMAIN backends, backends'[id] = backends[id]
        PROVE  AskedFor(id, backends[id])'
    <2>1. PICK given : given = backends[id]
      OBVIOUS
    <2>2. AskedFor(id, given)'
      BY <1>1, <1>2, <2>1, AskedStays
    <2>. QED  BY <1>2, <2>1, <2>2 DEF AskedFor
  <1>. QED  BY <1>1, <1>2, ServerRegistryEffect, AskedStays

\* The registry is what the clients of both ports made it, however the two front ends
\* interleave: no session of one loses, alters or invents a registration of the other.
THEOREM ServerRegistryIsExplained == ServerSpec => []ServerRegistryExplained
  <1>1. ServerInit => ServerRegistryExplained
    BY DEF ServerInit, Init, RegistryInit, Http1!Init, ServerRegistryExplained, AskedFor,
           Registers, Http1!Registers
  <1>. QED
    BY <1>1, ServerRegistryExplainedStep, ServerInvariance, PTL DEF ServerSpec

-----------------------------------------------------------------------------

\* What the invariants of the front ends leave open: that the target of a dispatch and
\* the rule a session captured were registered, on some port, for the path.
ServerTargetInv ==
    \A d \in Dispatches : stage[d] # "idle" =>
        \E given \in Rules : given.addr = target[d] /\ RegisteredFor(given, request[d].path)

ServerRuleInv ==
    \A s \in Sessions : captured[s] # NoRule =>
        RegisteredFor(captured[s], http1Request[s].path)

\* A rule that was registered for a path stays explained, even once it is removed.
LEMMA RegisteredForStays ==
    ASSUME ServerInv, [ServerNext]_serverVars
    PROVE  \A given, path : RegisteredFor(given, path) => RegisteredFor(given, path)'
  BY AskedStays DEF RegisteredFor

\* The backend that serves a path was registered for it.
LEMMA ServedIsRegistered ==
    ASSUME RegistryTypeOK, ServerRegistryExplained,
           NEW path, NEW id \in DOMAIN backends, ServedBy(path, id)
    PROVE  backends[id] \in Rules /\ RegisteredFor(backends[id], path)
  <1>1. id \in BackendIds /\ backends[id] \in Rules /\ IsPrefix(backends[id].pattern, path)
    BY DEF ServedBy, Hits, RegistryTypeOK
  <1>. QED  BY <1>1 DEF ServerRegistryExplained, RegisteredFor

\* A dispatch is forwarded to where its path goes as it comes in, and its request and
\* target stay what they are after that.
LEMMA ServerTargetInvStep ==
    ASSUME ServerInv, ServerRegistryExplained, ServerTargetInv, [ServerNext]_serverVars
    PROVE  ServerTargetInv'
  <1>. SUFFICES ASSUME NEW d \in Dispatches, stage'[d] # "idle"
                PROVE  \E given \in Rules :
                            /\ given.addr = target'[d]
                            /\ RegisteredFor(given, request[d].path)'
    BY DEF ServerTargetInv
  <1>1. PICK path : path = request'[d].path
    OBVIOUS
  <1>2. CASE request'[d] = request[d] /\ target'[d] = target[d] /\ stage[d] # "idle"
    <2>1. PICK given \in Rules : given.addr = target[d] /\ RegisteredFor(given, path)
      BY <1>1, <1>2 DEF ServerTargetInv
    <2>2. RegisteredFor(given, path)'
      BY <2>1, RegisteredForStays
    <2>. QED  BY <1>1, <1>2, <2>1, <2>2 DEF RegisteredFor
  <1>3. ASSUME NEW id \in DOMAIN backends, ServedBy(path, id), backends[id].addr = target'[d]
        PROVE  \E given \in Rules :
                    given.addr = target'[d] /\ RegisteredFor(given, request[d].path)'
    <2>1. PICK given \in Rules : given = backends[id] /\ RegisteredFor(given, path)
      BY <1>3, ServedIsRegistered DEF ServerInv, Inv, TypeOK
    <2>2. RegisteredFor(given, path)'
      BY <2>1, RegisteredForStays
    <2>. QED  BY <1>1, <1>3, <2>1, <2>2 DEF RegisteredFor
  <1>4. CASE [Next]_vars
    BY <1>1, <1>2, <1>3, <1>4, DispatchStep DEF ServerInv
  <1>5. CASE UNCHANGED dispatchVars
    BY <1>2, <1>5 DEF dispatchVars
  <1>. QED  BY <1>4, <1>5, SideStep

\* A session captures the rule by which its path goes as its request is read, and its
\* request and rule stay what they are after that.
LEMMA ServerRuleInvStep ==
    ASSUME ServerInv, ServerRegistryExplained, ServerRuleInv, [ServerNext]_serverVars
    PROVE  ServerRuleInv'
  <1>. SUFFICES ASSUME NEW s \in Sessions, captured'[s] # NoRule
                PROVE  RegisteredFor(captured[s], http1Request[s].path)'
    BY DEF ServerRuleInv
  <1>1. PICK given, path : given = captured'[s] /\ path = http1Request'[s].path
    OBVIOUS
  <1>2. ASSUME RegisteredFor(given, path)
        PROVE  RegisteredFor(captured[s], http1Request[s].path)'
    <2>1. RegisteredFor(given, path)'
      BY <1>2, RegisteredForStays
    <2>. QED  BY <1>1, <2>1 DEF RegisteredFor
  <1>3. CASE UNCHANGED <<http1Request[s], captured[s]>>
    BY <1>1, <1>2, <1>3 DEF ServerRuleInv
  <1>4. ASSUME NEW id \in DOMAIN backends, ServedBy(path, id), given = backends[id]
        PROVE  RegisteredFor(captured[s], http1Request[s].path)'
    BY <1>2, <1>4, ServedIsRegistered DEF ServerInv, Inv, TypeOK
  <1>5. CASE [Http1!Next]_(Http1!vars)
    <2>. USE Http1Paths, Http1Requests
    <2>1. \/ captured'[s] = captured[s]
          \/ \E id \in DOMAIN backends : ServedBy(path, id) /\ given = backends[id]
      BY <1>1, <1>5, Http1!RuleCaptured, SameLookup DEF ServerInv
    <2>2. captured'[s] = captured[s] => http1Request'[s] = http1Request[s]
      BY <1>5, Http1!RequestsStay, SameLookup DEF ServerInv, Http1!ShapeInv, Http1!ShapeOf
    <2>. QED  BY <1>3, <1>4, <2>1, <2>2
  <1>6. CASE UNCHANGED http1Vars
    BY <1>3, <1>6 DEF http1Vars
  <1>. QED  BY <1>5, <1>6, SideStep

\* Both follow from the invariants of the front ends and the explanation of the table.
LEMMA ServerExplained == ServerSpec => [](ServerTargetInv /\ ServerRuleInv)
  <1>1. ServerInit => ServerTargetInv /\ ServerRuleInv
    BY SameLookup
    DEF ServerInit, Init, ClientInit, Dispatches, Http1!Init, ServerTargetInv, ServerRuleInv
  <1>2. /\ ServerInv /\ ServerRegistryExplained /\ ServerTargetInv /\ [ServerNext]_serverVars
            => ServerTargetInv'
        /\ ServerInv /\ ServerRegistryExplained /\ ServerRuleInv /\ [ServerNext]_serverVars
            => ServerRuleInv'
    BY ServerTargetInvStep, ServerRuleInvStep
  <1>. QED
    BY <1>1, <1>2, ServerInvariance, ServerRegistryIsExplained, PTL DEF ServerSpec

\* A dispatch is forwarded to an address that a client of either port registered for
\* its path, and answered by that backend or with a 502, whoever removes it meanwhile.
THEOREM ServerForwardingIsExplained == ServerSpec => []ServerForwardingExplained
  <1>1. ServerInv /\ ServerTargetInv => ServerForwardingExplained
    BY DEF ServerInv, ShapeInv, ServerTargetInv, ServerForwardingExplained
  <1>. QED  BY <1>1, ServerExplained, ServerInvariance, PTL

\* No HTTP/1.1 client gets a reply that its own request does not explain, and a backend
\* that replies was registered for the path by a client of either port.
THEOREM ServerRepliesAreExplained == ServerSpec => []ServerReplyExplained
  <1>1. ServerInv /\ ServerRuleInv => ServerReplyExplained
    BY SameLookup
    DEF ServerInv, Http1!ShapeInv, Http1!ShapeOf, Http1!Shaped, Http1!Range, Range,
        ServerRuleInv, ServerReplyExplained
  <1>. QED  BY <1>1, ServerExplained, ServerInvariance, PTL

-----------------------------------------------------------------------------
(* A path leads to one place, whichever port its request comes in on.       *)

\* Of the backends that match a path one serves it, so it goes to that one's address.
LEMMA OneServes == ServedByExactlyOne => OnePlace
  BY DEF ServedByExactlyOne, OnePlace, GoesTo, ServedBy

\* The one answer of the proxy's own to a request that was for a backend.
LEMMA NoRuleMeansNoHits ==
    ASSUME RegistryTypeOK, NEW path, Finds(path, NoRule)
    PROVE  Hits(path) = {}
  <1>1. NoRule \notin Rules
    BY Http1!NoRuleIsNone, Http1Paths, Http1Requests, SameLookup
  <1>. QED  BY <1>1 DEF Finds, RegistryTypeOK

\* A request for a backend that comes in over HTTP/2 is taken to where its path goes,
\* or answered 404 if no pattern begins it.
LEMMA DispatchRoutes ==
    ASSUME Inv, NEW d \in Dispatches, NEW req \in Offered, Dispatch(d, req),
           IsForBackends(req.path)
    PROVE  /\ request'[d] = req
           /\ \/ GoesTo(req.path, target'[d]) /\ stage'[d] = "resolving"
              \/ Hits(req.path) = {} /\ answers'[d] = <<OwnReply(404)>>
  <1>1. request'[d] = req /\ answers[d] = <<>>
    BY RequestsStay DEF Dispatch, Inv, BalanceInv
  <1>2. ForwardRequest(d, req)
    BY RegisterPathIsPrefix DEF Dispatch, HandleProxyRequest, IsForBackends
  <1>3. CASE Finds(req.path, NoRule) /\ Reply(d, OwnReply(404))
    <2>1. answers'[d] = <<OwnReply(404)>>
      BY <1>1, <1>3, FirstAnswer, OwnReplies DEF Reply, Codes
    <2>. QED  BY <1>1, <1>3, <2>1, NoRuleMeansNoHits DEF Inv, TypeOK
  <1>4. ASSUME NEW rule \in Rules, SendRequest(d, rule.addr)
        PROVE  GoesTo(req.path, target'[d]) /\ stage'[d] = "resolving"
    <2>1. rule.addr \in Addresses
      BY DEF Rules
    <2>2. target'[d] = rule.addr /\ stage'[d] = "resolving"
      BY <1>4 DEF SendRequest, Advance, Inv, TypeOK, Dispatches
    <2>. QED  BY <1>4, <2>1, <2>2, ForwardServed DEF GoesTo
  <1>. QED  BY <1>1, <1>2, <1>3, <1>4 DEF ForwardRequest

\* And so is one that comes in over HTTP/1.1.
LEMMA SessionRoutes ==
    ASSUME ServerInv, [Http1!Next]_(Http1!vars), NEW s \in Sessions,
           http1Request'[s] # http1Request[s], IsForBackends(http1Request'[s].path)
    PROVE  \/ GoesTo(http1Request'[s].path, captured'[s].addr) /\ pc'[s] = "resolving"
           \/ /\ Hits(http1Request'[s].path) = {}
              /\ pc'[s] = "replying" /\ response'[s] = OwnReply(404)
  <1>. USE Http1Paths, Http1Requests
  <1>1. PICK path : path = http1Request'[s].path
    OBVIOUS
  <1>2. ~Http1!IsRegistration(http1Request'[s])
    BY RegisterPathIsPrefix DEF IsForBackends, Http1!IsRegistration
  <1>3. \/ pc'[s] = "replying" /\ response'[s] = OwnReply(404) /\ Finds(path, NoRule)
        \/ pc'[s] = "resolving" /\ captured'[s] \in Rules /\ Finds(path, captured'[s])
    BY <1>1, <1>2, Http1!SessionStep, SameLookup DEF ServerInv
  <1>4. Finds(path, NoRule) => Hits(path) = {}
    BY NoRuleMeansNoHits DEF ServerInv, Inv, TypeOK
  <1>5. captured'[s] \in Rules /\ Finds(path, captured'[s]) => GoesTo(path, captured'[s].addr)
    BY Http1!NoRuleIsNone, SameLookup DEF Finds, GoesTo
  <1>. QED  BY <1>1, <1>3, <1>4, <1>5

\* Every step routes what comes in, on either port, by the one table.
LEMMA ServerRouteStep == ServerInv /\ [ServerNext]_serverVars => [RouteStep]_serverVars
  <1>. SUFFICES ASSUME ServerInv, [ServerNext]_serverVars
                PROVE  RouteStep
    OBVIOUS
  <1>1. ASSUME NEW d \in Dispatches,
               request'[d] # request[d], IsForBackends(request'[d].path)
        PROVE  \/ GoesTo(request'[d].path, target'[d]) /\ stage'[d] = "resolving"
               \/ Hits(request'[d].path) = {} /\ answers'[d] = <<OwnReply(404)>>
    <2>1. ASSUME NEW e \in Dispatches, Complete(e) \/ BackendFallsSilent(e)
          PROVE  request' = request
      BY <2>1 DEF Complete, Progress, BackendReplied, BackendFailed, BackendFallsSilent
    <2>2. ASSUME NEW e \in Dispatches, NEW req \in Offered, Dispatch(e, req)
          PROVE  e = d /\ request'[d] = req
      BY <1>1, <2>2, RequestsStay DEF ServerInv
    <2>3. \E req \in Offered : Dispatch(d, req) /\ request'[d] = req
      BY <1>1, <2>1, <2>2, SideStep DEF Next, vars, dispatchVars
    <2>. QED  BY <1>1, <2>3, DispatchRoutes DEF ServerInv
  <1>2. ASSUME NEW s \in Sessions,
               http1Request'[s] # http1Request[s], IsForBackends(http1Request'[s].path)
        PROVE  \/ GoesTo(http1Request'[s].path, captured'[s].addr) /\ pc'[s] = "resolving"
               \/ /\ Hits(http1Request'[s].path) = {}
                  /\ pc'[s] = "replying" /\ response'[s] = OwnReply(404)
    BY <1>2, SessionRoutes, SideStep DEF http1Vars
  <1>. QED  BY <1>1, <1>2 DEF RouteStep

\* README.md, Usage: requests to either port route to the same registered backend.  At
\* any moment a path leads to one address at most, and what comes in is taken there.
THEOREM ServerPortsRouteAlike == ServerSpec => PortsRouteAlike
  BY OneServes, ServerRouteStep, ServerUsesRegistry, RoutingIsAFunction, ServerInvariance, PTL
  DEF ServerSpec, PortsRouteAlike
=============================================================================
