----------------------------- MODULE TunnelProofs -----------------------------
(***************************************************************************)
(* Theorems about the clients that register backends, for any number of    *)
(* operations and calls, in any order, with requests that are lost, cut,   *)
(* reset or served late.                                                   *)
(***************************************************************************)
EXTENDS Tunnel, BackendRegistryProofs, Http2ClientProofs

-----------------------------------------------------------------------------
(* The inductive invariant, beside that of the HTTP/2 client.               *)

\* Which calls exist: an operation is begun after those before it, and only what
\* was begun is pending, has arrived or was served, on a port of the protocol.
BegunInv ==
    /\ is_tunnel_active_ => active_tunnel_ \in TunnelIds
    /\ \A c, d \in Operations : Begun(c) /\ d < c => Begun(d)
    /\ \A c \in Operations : Begun(c) => asked[c].id \in TunnelIds
    /\ \A c \in AppCalls : Begun(c) => asked[c].id = AppId
    /\ \A c \in Http1Calls : stage[c] # "idle" => Begun(c)
    /\ \A c \in arrived : stage[c] # "idle"
    /\ \A c \in Operations : stage[c] # "idle" => Http1Port \in PortsOf(protocol)
    /\ \A c \in Operations : op[c] # "idle" => Begun(c) /\ Http2Port \in PortsOf(protocol)
    /\ \A w \in Operations : carries[w] # NoCall => op[carries[w]] # "idle"
    /\ \A pair \in served : Begun(pair[2])

\* A callback of the HttpClient is called when its call is done.
ToldInv == \A c \in Http1Calls : stage[c] # "done" => told[c] = <<>>

\* A status 200 is on its way only for a request that was carried out.
Truthful(status) == status.code = 200 => <<Http2Port, status.of>> \in served

TruthInv ==
    /\ \A c \in Http1Calls : \A i \in DOMAIN told[c] :
            told[c][i] = 200 => <<Http1Port, c>> \in served
    /\ \A w \in Operations : answer[w] = 200 => <<Http2Port, carries[w]>> \in served
    /\ Truthful(streams_.status)
    /\ \A c \in Operations : \A i \in DOMAIN outcome[c] : Truthful(outcome[c][i].status)

\* The tunnels in the registry, and those that the last operation asked for.
Tunnels == TunnelIds \cap DOMAIN backends
Wanted == IF is_tunnel_active_ THEN {active_tunnel_} ELSE {}

\* For an orderly user: the operations before the last have succeeded, so only the
\* last has requests that are still to be served, and they all ask for one thing.
OrderlyInv ==
    orderly =>
        /\ overlapped = {}
        /\ \A c, d \in Operations : Begun(c) /\ d < c =>
                \A port \in PortsOf(protocol) : Succeeded(d, port)
        /\ Tunnels \subseteq {active_tunnel_}
        /\ \A c \in Operations : LastBegun(c) =>
                /\ asked[c].id = active_tunnel_
                /\ asked[c].method = "POST" <=> is_tunnel_active_
                /\ \A port \in Ports : <<port, c>> \in served => Tunnels = Wanted
        /\ (\A c \in Operations : Begun(c) =>
                \A port \in PortsOf(protocol) : <<port, c>> \in served) => Tunnels = Wanted

TunnelInv == TypeOK /\ Inv /\ BegunInv /\ ToldInv /\ TruthInv /\ OrderlyInv

-----------------------------------------------------------------------------
(* What each kind of step leaves alone. *)

\* Every step of the tunnel is one of its HTTP/2 client, or none of it.
LEMMA ClientSteps == [Next]_vars => [Http2Next]_http2Vars
  <1>1. ASSUME NEW c \in Operations, NEW method, NEW id, NEW inOrder,
               SendOperation(c, method, id, inOrder)
        PROVE  [Http2Next]_http2Vars
    BY <1>1 DEF SendOperation, Http2Next, Operations
  <1>2. ClientStep => [Http2Next]_http2Vars
    BY <1>1 DEF ClientStep, StartTunnel, StopTunnel, Http2Step, ProxyClientSends, Http1Handler,
         Http1Progress, Http1Answered, Http1Failed, Unchanged1, Http2Next, Operations
  <1>3. \A c \in Http1Calls : ServeHttp1(c) => [Http2Next]_http2Vars
    BY DEF ServeHttp1
  <1>4. \A w \in Operations : Serve(w) => [Http2Next]_http2Vars
    BY DEF Serve, ServeHttp2, ServeHttp2Piece, ServeHttp2Rest, Http2Next, Operations, AnswerCodes
  <1>. QED  BY <1>2, <1>3, <1>4 DEF Next, vars

\* A callback once called stays called, with what it was given.
LEMMA OutcomeGrows ==
    ASSUME Inv, [Http2Next]_http2Vars, NEW c \in Operations
    PROVE  \/ outcome'[c] = outcome[c]
           \/ \E result : outcome'[c] = Append(outcome[c], result)
  <1>1. outcome \in [Http2Calls -> Seq(Outcomes)]
    BY DEF Inv, Http2TypeOK
  <1>2. outcome' = outcome \/ \E d \in Http2Calls : \E result : CallBack(d, result)
    <2>1. ASSUME NEW d \in Http2Calls, Http2Send(d) \/ Http2Handler(d)
          PROVE  outcome' = outcome \/ \E e \in Http2Calls : \E result : CallBack(e, result)
      BY <2>1 DEF Http2Send, Http2Handler, Http2Resolved, Http2ConnectFails, Http2Connected
    <2>2. CloseStream => outcome' = outcome \/ \E e \in Http2Calls : \E result : CallBack(e, result)
      BY DEF CloseStream, HasEntry, Inv, Http2TypeOK, Entries
    <2>3. ASSUME NEW d \in Http2Calls, HandleRead2(d)
          PROVE  outcome' = outcome \/ \E e \in Http2Calls : \E result : CallBack(e, result)
      BY <2>2, <2>3 DEF HandleRead2, OnHeader, OnDataChunk, OnStreamClose, OnStreamReset, ReadFails
    <2>. QED  BY <2>1, <2>3 DEF Http2Next, Answered, http2Vars
  <1>. QED  BY <1>1, <1>2 DEF CallBack, Operations

\* Hence a success over HTTP/2 stays one.
LEMMA SuccessStays2 ==
    ASSUME Inv, [Http2Next]_http2Vars, NEW c \in Operations, Succeeded(c, Http2Port)
    PROVE  Succeeded(c, Http2Port)'
  <1>1. outcome[c] \in Seq(Outcomes)
    BY DEF Inv, Http2TypeOK, Operations
  <1>2. PICK i \in DOMAIN outcome[c] : outcome[c][i].status.code = 200
    BY DEF Succeeded, Http1Port, Http2Port
  <1>3. i \in DOMAIN outcome'[c] /\ outcome'[c][i] = outcome[c][i]
    <2>1. CASE outcome'[c] = outcome[c]
      BY <2>1
    <2>2. ASSUME NEW result, outcome'[c] = Append(outcome[c], result)
          PROVE  i \in DOMAIN outcome'[c] /\ outcome'[c][i] = outcome[c][i]
      BY <1>1, <2>2
    <2>. QED  BY <2>1, <2>2, OutcomeGrows
  <1>. QED  BY <1>2, <1>3 DEF Succeeded, Http1Port, Http2Port

\* A caller who is told of a success has had the request carried out, if no call
\* overlapped it.
LEMMA TruthIsSuccess == ASSUME Inv, TruthInv PROVE SuccessIsTrue
  <1>1. ASSUME NEW c \in Operations \ overlapped, Succeeded(c, Http2Port)
        PROVE  <<Http2Port, c>> \in served
    <2>1. PICK i \in DOMAIN outcome[c] : outcome[c][i].status.code = 200
      BY <1>1 DEF Succeeded, Http1Port, Http2Port
    <2>2. outcome[c][i].status \in Statuses
      <3>1. outcome[c] \in Seq(Outcomes)
        BY DEF Inv, Http2TypeOK, Operations
      <3>2. outcome[c][i] \in Outcomes
        BY <3>1
      <3>. QED  BY <3>2 DEF Outcomes
    <2>3. outcome[c][i].status.of = c
      <3>1. outcome[c][i].status.of \in {c, NoCall}
        BY DEF Inv, SoloResponseIsOwn, Operations
      <3>2. outcome[c][i].status # NoStatus
        BY <2>1 DEF NoStatus, NoAnswer
      <3>. QED  BY <2>2, <3>1, <3>2, NoCallAssumption DEF Statuses
    <2>. QED  BY <2>1, <2>3 DEF TruthInv, Truthful
  <1>2. ASSUME NEW c \in Http1Calls, 200 \in {told[c][i] : i \in DOMAIN told[c]}
        PROVE  <<Http1Port, c>> \in served
    BY <1>2 DEF TruthInv
  <1>. QED  BY <1>1, <1>2 DEF SuccessIsTrue
\* The handlers of the HTTP/2 client begin no call, and a connection keeps the
\* request it carries.
LEMMA HandlersOfClient ==
    ASSUME Inv, NEW c \in Operations, Http2Handler(c) \/ HandleRead2(c)
    PROVE  /\ \A d \in Operations : op'[d] = "idle" <=> op[d] = "idle"
           /\ \A w \in Operations :
                \/ carries'[w] = carries[w]
                \/ carries[w] = NoCall /\ carries'[w] = c /\ op[c] # "idle"
           /\ answer' = answer /\ overlapped' = overlapped
  <1>. USE DEF Operations
  <1>1. op \in [Http2Calls -> OpStates] /\ carries \in [Http2Calls -> Http2Calls \cup {NoCall}]
    BY DEF Inv, Http2TypeOK
  <1>2. CASE Http2Resolved(c) \/ Http2ConnectFails(c)
    BY <1>1, <1>2 DEF Http2Resolved, Http2ConnectFails
  <1>3. CASE Http2Connected(c)
    BY <1>1, <1>3 DEF Http2Connected, Written
  <1>4. CASE HandleRead2(c)
    BY <1>4 DEF HandleRead2, OnHeader, OnDataChunk, OnStreamClose, OnStreamReset, ReadFails, Receive
  <1>. QED  BY <1>2, <1>3, <1>4 DEF Http2Handler

-----------------------------------------------------------------------------
(* The types. *)

\* Carrying out a request keeps the registry well-formed.
LEMMA CarryOutType ==
    ASSUME TypeOK, NEW c \in Http1Calls, CarryOut(c)
    PROVE  RegistryTypeOK'
  <1>1. asked[c] \in [method : {"POST", "DELETE"}, id : TunnelIds \cup {AppId}]
    BY DEF TypeOK, CarryOut, Begun
  <1>2. asked[c].id \in BackendIds /\ LocalRule \in Rules
    BY <1>1, TunnelAssumption
  <1>. QED
    BY <1>2, RegisterBackendType, UnregisterBackendType DEF TypeOK, CarryOut

\* An operation of the tunnel, begun.
LEMMA SendOperationType ==
    ASSUME TypeOK, NEW c \in Operations, NEW method \in {"POST", "DELETE"}, NEW id \in TunnelIds,
           NEW inOrder, SendOperation(c, method, id, inOrder)
    PROVE  /\ RegistryTypeOK'
           /\ asked' \in [Http1Calls ->
                    [method : {"POST", "DELETE"}, id : TunnelIds \cup {AppId}] \cup {NotAsked}]
           /\ stage' \in [Http1Calls -> Http1!ClientStages]
           /\ target' \in [Http1Calls -> Ports \cup {0}]
           /\ UNCHANGED <<arrived, told, served>>
           /\ orderly' \in BOOLEAN
  <1>. USE DEF SendOperation
  <1>1. c \in Http1Calls
    BY DEF Http1Calls
  <1>2. RegistryTypeOK'
    BY DEF TypeOK, registryVars, RegistryTypeOK
  <1>3. Asks(method, id) \in [method : {"POST", "DELETE"}, id : TunnelIds \cup {AppId}]
    BY DEF Asks
  <1>4. asked' \in [Http1Calls ->
                    [method : {"POST", "DELETE"}, id : TunnelIds \cup {AppId}] \cup {NotAsked}]
    BY <1>3 DEF TypeOK
  <1>5. /\ stage' \in [Http1Calls -> Http1!ClientStages]
        /\ target' \in [Http1Calls -> Ports \cup {0}]
    BY DEF TypeOK, Http1!SendRequest, Http1!Advance, Http1!ClientStages, Http1!Pending,
         http1Vars, Ports
  <1>6. orderly' \in BOOLEAN
    BY DEF TypeOK
  <1>. QED  BY <1>2, <1>4, <1>5, <1>6

\* Every step keeps the types.
LEMMA TypeStep ==
    ASSUME TypeOK, Inv, BegunInv, [Next]_vars
    PROVE  TypeOK'
  <1>0. Http2TypeOK'
    BY ClientSteps, NextInv DEF Inv
  <1>1. CASE UNCHANGED vars
    BY <1>0, <1>1 DEF TypeOK, vars, registryVars, tunnelVars, http1Vars, RegistryTypeOK
  <1>2. ASSUME NEW c \in Operations, NEW id \in TunnelIds, StartTunnel(c, id)
        PROVE  TypeOK'
    <2>1. SendOperation(c, "POST", id, ~is_tunnel_active_)
      BY <1>2 DEF StartTunnel
    <2>. QED  BY <1>0, <1>2, <2>1, SendOperationType DEF StartTunnel, TypeOK
  <1>3. ASSUME NEW c \in Operations, StopTunnel(c)
        PROVE  TypeOK'
    <2>1. active_tunnel_ \in TunnelIds
      BY <1>3 DEF StopTunnel, BegunInv
    <2>2. SendOperation(c, "DELETE", active_tunnel_, TRUE)
      BY <1>3 DEF StopTunnel
    <2>. QED  BY <1>0, <1>3, <2>1, <2>2, SendOperationType DEF StopTunnel, TypeOK
  <1>4. ASSUME NEW c \in AppCalls, NEW method \in {"POST", "DELETE"}, NEW port \in Ports,
               ProxyClientSends(c, method, port)
        PROVE  TypeOK'
    <2>1. c \in Http1Calls
      BY DEF Http1Calls
    <2>2. asked' \in [Http1Calls ->
                    [method : {"POST", "DELETE"}, id : TunnelIds \cup {AppId}] \cup {NotAsked}]
      BY <1>4 DEF ProxyClientSends, TypeOK, Asks
    <2>3. /\ stage' \in [Http1Calls -> Http1!ClientStages]
          /\ target' \in [Http1Calls -> Ports \cup {0}]
      BY <1>4 DEF ProxyClientSends, TypeOK, Http1!SendRequest, Http1!Advance,
           Http1!ClientStages, Http1!Pending
    <2>. QED
      BY <1>0, <1>4, <2>2, <2>3
         DEF ProxyClientSends, TypeOK, registryVars, RegistryTypeOK, tunnelVars
  <1>5. ASSUME NEW c \in Http1Calls, Http1Handler(c)
        PROVE  TypeOK'
    <2>1. UNCHANGED target /\ \E to \in Http1!ClientStages : stage' = [stage EXCEPT ![c] = to]
      BY <1>5 DEF Http1Handler, Http1Progress, Http1Answered, Http1Failed, Http1!HandleResolve,
           Http1!HandleConnect, Http1!HandleWrite, Http1!HandleRead, Http1!HandleError,
           Http1!Advance, Http1!ClientStages, Http1!Pending
    <2>2. arrived' \subseteq Http1Calls
      BY <1>5 DEF Http1Handler, Http1Progress, Http1Answered, Http1Failed, TypeOK
    <2>3. told' \in [Http1Calls -> Seq({0, 200})]
      <3>1. told[c] \in Seq({0, 200}) /\ told \in [Http1Calls -> Seq({0, 200})]
        BY DEF TypeOK
      <3>2. Append(told[c], 200) \in Seq({0, 200}) /\ Append(told[c], 0) \in Seq({0, 200})
        BY <3>1
      <3>3. \/ told' = told
            \/ told' = [told EXCEPT ![c] = Append(told[c], 200)]
            \/ told' = [told EXCEPT ![c] = Append(told[c], 0)]
        BY <1>5 DEF Http1Handler, Http1Progress, Http1Answered, Http1Failed
      <3>. QED  BY <3>1, <3>2, <3>3
    <2>4. stage' \in [Http1Calls -> Http1!ClientStages]
      BY <2>1 DEF TypeOK
    <2>. QED
      BY <1>0, <1>5, <2>1, <2>2, <2>3, <2>4
         DEF Http1Handler, Http1Progress, Http1Answered, Http1Failed, Unchanged1, TypeOK,
             registryVars, RegistryTypeOK, tunnelVars
  <1>6. ASSUME NEW c \in Operations, Http2Step(c)
        PROVE  TypeOK'
    BY <1>0, <1>6 DEF Http2Step, NotHttp2, TypeOK, registryVars, RegistryTypeOK, tunnelVars, http1Vars
  <1>7. ASSUME NEW c \in Http1Calls, ServeHttp1(c)
        PROVE  TypeOK'
    BY <1>0, <1>7, CarryOutType DEF ServeHttp1, CarryOut, TypeOK, tunnelVars, http1Vars, Ports
  <1>8. ASSUME NEW w \in Operations, Serve(w)
        PROVE  TypeOK'
    <2>1. carries[w] \in Http1Calls
      BY <1>8 DEF Serve, ServeHttp2, ServeHttp2Piece, ServeHttp2Rest, Waits2, Inv, Http2TypeOK,
           Http1Calls, Operations
    <2>2. CASE ServeHttp2Piece(w)
      BY <1>0, <2>2 DEF ServeHttp2Piece, NotHttp2, TypeOK, registryVars, RegistryTypeOK,
           tunnelVars, http1Vars
    <2>3. CASE ServeHttp2(w) \/ ServeHttp2Rest(w)
      BY <1>0, <2>1, <2>3, CarryOutType
         DEF ServeHttp2, ServeHttp2Rest, CarryOut, TypeOK, tunnelVars, http1Vars, Ports
    <2>. QED  BY <1>8, <2>2, <2>3 DEF Serve
  <1>. QED
    BY <1>1, <1>2, <1>3, <1>4, <1>5, <1>6, <1>7, <1>8 DEF Next, ClientStep

-----------------------------------------------------------------------------
(* The calls. *)

\* An operation begins after all those before it, on the ports of the protocol.
LEMMA SendOperationBegins ==
    ASSUME TypeOK, Inv, BegunInv, NEW c \in Operations, NEW method \in {"POST", "DELETE"},
           NEW id \in TunnelIds, NEW inOrder, SendOperation(c, method, id, inOrder),
           protocol' = protocol, is_tunnel_active_' => active_tunnel_' \in TunnelIds
    PROVE  BegunInv'
  <1>. USE DEF SendOperation
  <1>0. c \in Http1Calls /\ c \notin AppCalls /\ Operations \subseteq Nat
    BY TunnelAssumption DEF Http1Calls
  <1>1. /\ asked'[c] = Asks(method, id)
        /\ \A d \in Http1Calls \ {c} : asked'[d] = asked[d]
    BY <1>0 DEF TypeOK
  <1>2. /\ Begun(c)' /\ asked'[c].id = id
        /\ \A d \in Http1Calls \ {c} : Begun(d)' <=> Begun(d)
    <2>1. Asks(method, id) # NotAsked
      BY DEF Asks, NotAsked
    <2>. QED  BY <1>1, <2>1 DEF Begun, Asks
  <1>3. /\ \A d \in Http1Calls : stage'[d] # "idle" =>
                stage[d] # "idle" \/ (d = c /\ Http1Port \in PortsOf(protocol))
        /\ \A d \in Http1Calls : stage[d] # "idle" => stage'[d] # "idle"
    BY <1>0 DEF TypeOK, Http1!SendRequest, Http1!Advance, http1Vars
  <1>4. /\ \A d \in Operations : op'[d] # "idle" =>
                op[d] # "idle" \/ (d = c /\ Http2Port \in PortsOf(protocol))
        /\ \A d \in Operations : op[d] # "idle" => op'[d] # "idle"
        /\ carries' = carries
    BY DEF Http2Send, http2Vars, Inv, Http2TypeOK, Operations
  <1>5. carries \in [Operations -> Operations \cup {NoCall}]
    BY DEF Inv, Http2TypeOK, Operations
  <1>6. \A d, e \in Operations : Begun(d)' /\ e < d => Begun(e)'
    BY <1>0, <1>2 DEF BegunInv, Http1Calls
  <1>7. /\ \A d \in Operations : Begun(d)' => asked'[d].id \in TunnelIds
        /\ \A d \in AppCalls : Begun(d)' => asked'[d].id = AppId
    BY <1>0, <1>1, <1>2 DEF BegunInv, Http1Calls
  <1>8. /\ \A d \in Http1Calls : stage'[d] # "idle" => Begun(d)'
        /\ \A d \in arrived' : stage'[d] # "idle"
        /\ \A d \in Operations : stage'[d] # "idle" => Http1Port \in PortsOf(protocol')
    BY <1>2, <1>3 DEF BegunInv, Http1Calls, TypeOK
  <1>9. /\ \A d \in Operations : op'[d] # "idle" => Begun(d)' /\ Http2Port \in PortsOf(protocol')
        /\ \A w \in Operations : carries'[w] # NoCall => op'[carries'[w]] # "idle"
    BY <1>2, <1>4, <1>5 DEF BegunInv, Http1Calls
  <1>10. \A pair \in served' : Begun(pair[2])'
    BY <1>2 DEF BegunInv, TypeOK
  <1>. QED  BY <1>6, <1>7, <1>8, <1>9, <1>10 DEF BegunInv

\* The request of an operation that is in the hands of the server was begun.
LEMMA CarriedIsBegun ==
    ASSUME Inv, BegunInv, NEW w \in Operations, carries[w] # NoCall
    PROVE  carries[w] \in Operations /\ Begun(carries[w])
  BY DEF BegunInv, Inv, Http2TypeOK, Operations

\* Nothing is begun by a step of the server.
LEMMA ServedIsBegun ==
    ASSUME TypeOK, Inv, BegunInv, NEW c \in Http1Calls, NEW port, Begun(c),
           served' = served \cup {<<port, c>>},
           UNCHANGED <<tunnelVars, asked, http1Vars, arrived>>, UNCHANGED op, UNCHANGED carries
    PROVE  BegunInv'
  BY DEF BegunInv, Begun, tunnelVars, http1Vars

\* Every step keeps the calls in order.
LEMMA BegunStep ==
    ASSUME TypeOK, Inv, BegunInv, [Next]_vars
    PROVE  BegunInv'
  <1>1. CASE UNCHANGED vars
    BY <1>1 DEF BegunInv, Begun, vars, tunnelVars, http1Vars, http2Vars
  <1>2. ASSUME NEW c \in Operations, NEW id \in TunnelIds, StartTunnel(c, id)
        PROVE  BegunInv'
    BY <1>2, SendOperationBegins DEF StartTunnel
  <1>3. ASSUME NEW c \in Operations, StopTunnel(c)
        PROVE  BegunInv'
    <2>1. active_tunnel_ \in TunnelIds
      BY <1>3 DEF StopTunnel, BegunInv
    <2>. QED  BY <1>3, <2>1, SendOperationBegins DEF StopTunnel
  <1>4. ASSUME NEW c \in AppCalls, NEW method \in {"POST", "DELETE"}, NEW port \in Ports,
               ProxyClientSends(c, method, port)
        PROVE  BegunInv'
    <2>0. c \in Http1Calls /\ c \notin Operations
      BY TunnelAssumption DEF Http1Calls
    <2>1. /\ asked'[c] = Asks(method, AppId) /\ Asks(method, AppId) # NotAsked
          /\ \A d \in Http1Calls \ {c} : asked'[d] = asked[d]
      BY <1>4, <2>0 DEF ProxyClientSends, TypeOK, Asks, NotAsked
    <2>2. /\ stage'[c] # "idle"
          /\ \A d \in Http1Calls \ {c} : stage'[d] = stage[d]
      BY <1>4, <2>0 DEF ProxyClientSends, TypeOK, Http1!SendRequest, Http1!Advance
    <2>3. UNCHANGED <<tunnelVars, arrived, served>> /\ UNCHANGED http2Vars
      BY <1>4 DEF ProxyClientSends
    <2>4. carries \in [Operations -> Operations \cup {NoCall}]
      BY DEF Inv, Http2TypeOK, Operations
    <2>5. Begun(c)' /\ asked'[c].id = AppId /\ \A d \in Http1Calls \ {c} : Begun(d)' <=> Begun(d)
      BY <2>1 DEF Begun, Asks
    <2>6. \A d \in Operations : asked'[d] = asked[d] /\ stage'[d] = stage[d] /\ (Begun(d)' <=> Begun(d))
      BY <2>0, <2>1, <2>2, <2>5 DEF Http1Calls
    <2>7. \A pair \in served' : Begun(pair[2])'
      BY <2>3, <2>5 DEF BegunInv, TypeOK
    <2>8. /\ \A d \in Http1Calls : stage'[d] # "idle" => Begun(d)'
          /\ \A d \in arrived' : stage'[d] # "idle"
      BY <2>2, <2>3, <2>5 DEF BegunInv, TypeOK
    <2>9. \A d \in AppCalls : Begun(d)' => asked'[d].id = AppId
      BY <2>1, <2>5 DEF BegunInv, Http1Calls
    <2>. QED
      BY <2>3, <2>4, <2>6, <2>7, <2>8, <2>9 DEF BegunInv, tunnelVars, http2Vars
  <1>5. ASSUME NEW c \in Http1Calls, Http1Handler(c)
        PROVE  BegunInv'
    <2>1. /\ stage[c] # "idle" /\ arrived' \subseteq arrived \cup {c}
          /\ \E to \in Http1!ClientStages \ {"idle"} : stage' = [stage EXCEPT ![c] = to]
      BY <1>5 DEF Http1Handler, Http1Progress, Http1Answered, Http1Failed, Http1!HandleResolve,
           Http1!HandleConnect, Http1!HandleWrite, Http1!HandleRead, Http1!HandleError,
           Http1!Advance, Http1!ClientStages, Http1!Pending
    <2>2. \A d \in Http1Calls : stage'[d] # "idle" <=> stage[d] # "idle"
      BY <2>1 DEF TypeOK
    <2>3. UNCHANGED <<tunnelVars, asked, served>> /\ UNCHANGED http2Vars
      BY <1>5 DEF Http1Handler, Http1Progress, Http1Answered, Http1Failed, Unchanged1
    <2>. QED
      BY <2>1, <2>2, <2>3 DEF BegunInv, Begun, TypeOK, tunnelVars, http2Vars, Http1Calls
  <1>6. ASSUME NEW c \in Operations, Http2Step(c)
        PROVE  BegunInv'
    <2>1. UNCHANGED <<tunnelVars, asked, http1Vars, arrived, served>>
      BY <1>6 DEF Http2Step, NotHttp2
    <2>2. /\ \A d \in Operations : op'[d] = "idle" <=> op[d] = "idle"
          /\ \A w \in Operations : carries'[w] = carries[w] \/ (carries'[w] = c /\ op[c] # "idle")
      BY <1>6, HandlersOfClient DEF Http2Step
    <2>3. carries \in [Operations -> Operations \cup {NoCall}]
      BY DEF Inv, Http2TypeOK, Operations
    <2>. QED  BY <2>1, <2>2, <2>3 DEF BegunInv, Begun, tunnelVars, http1Vars
  <1>7. ASSUME NEW c \in Http1Calls, ServeHttp1(c)
        PROVE  BegunInv'
    BY <1>7, ServedIsBegun DEF ServeHttp1, CarryOut, http2Vars
  <1>8. ASSUME NEW w \in Operations, Serve(w)
        PROVE  BegunInv'
    <2>1. carries[w] \in Http1Calls /\ Begun(carries[w])
      BY <1>8, CarriedIsBegun DEF Serve, ServeHttp2, ServeHttp2Piece, ServeHttp2Rest, Waits2, Http1Calls
    <2>2. CASE ServeHttp2Piece(w)
      BY <2>2 DEF ServeHttp2Piece, NotHttp2, Answered, BegunInv, Begun, tunnelVars, http1Vars
    <2>3. CASE ServeHttp2(w) \/ ServeHttp2Rest(w)
      BY <2>1, <2>3, ServedIsBegun DEF ServeHttp2, ServeHttp2Rest, CarryOut, Answered, http2Vars
    <2>. QED  BY <1>8, <2>2, <2>3 DEF Serve
  <1>. QED
    BY <1>1, <1>2, <1>3, <1>4, <1>5, <1>6, <1>7, <1>8 DEF Next, ClientStep

-----------------------------------------------------------------------------
(* The truth. *)

\* A callback of the HttpClient comes with the end of its call.
LEMMA ToldStep ==
    ASSUME TypeOK, ToldInv, [Next]_vars
    PROVE  ToldInv'
  <1>1. ASSUME NEW c \in Http1Calls, NEW port, Http1!SendRequest(c, port), UNCHANGED told
        PROVE  ToldInv'
    BY <1>1 DEF Http1!SendRequest, Http1!Advance, ToldInv, TypeOK
  <1>2. UNCHANGED <<stage, told>> => ToldInv'
    BY DEF ToldInv
  <1>3. ASSUME NEW c \in Operations, NEW method, NEW id, NEW inOrder,
               SendOperation(c, method, id, inOrder)
        PROVE  ToldInv'
    BY <1>1, <1>2, <1>3 DEF SendOperation, http1Vars, Http1Calls
  <1>4. ASSUME NEW c \in AppCalls, NEW method, NEW port, ProxyClientSends(c, method, port)
        PROVE  ToldInv'
    BY <1>1, <1>4 DEF ProxyClientSends, Http1Calls
  <1>5. ASSUME NEW c \in Http1Calls, Http1Handler(c)
        PROVE  ToldInv'
    <2>1. CASE Http1Progress(c)
      BY <2>1 DEF Http1Progress, Http1!HandleResolve, Http1!HandleConnect, Http1!HandleWrite,
           Http1!Advance, ToldInv, TypeOK
    <2>2. CASE Http1Answered(c) \/ Http1Failed(c)
      BY <2>2 DEF Http1Answered, Http1Failed, Http1!HandleRead, Http1!HandleError,
           Http1!Advance, ToldInv, TypeOK
    <2>. QED  BY <1>5, <2>1, <2>2 DEF Http1Handler
  <1>6. ASSUME NEW c \in Operations, Http2Step(c)
        PROVE  ToldInv'
    BY <1>2, <1>6 DEF Http2Step, NotHttp2, http1Vars
  <1>7. ASSUME NEW c \in Http1Calls, ServeHttp1(c)
        PROVE  ToldInv'
    BY <1>2, <1>7 DEF ServeHttp1, CarryOut, http1Vars
  <1>8. ASSUME NEW w \in Operations, Serve(w)
        PROVE  ToldInv'
    BY <1>2, <1>8 DEF Serve, ServeHttp2, ServeHttp2Piece, ServeHttp2Rest, CarryOut, NotHttp2, http1Vars
  <1>. QED
    BY <1>2, <1>3, <1>4, <1>5, <1>6, <1>7, <1>8 DEF Next, ClientStep, StartTunnel, StopTunnel,
       vars, http1Vars

\* What was carried out stays so.
LEMMA ServedGrows == [Next]_vars => served \subseteq served'
  BY DEF Next, ClientStep, StartTunnel, StopTunnel, SendOperation, ProxyClientSends, Http1Handler,
         Http1Progress, Http1Answered, Http1Failed, Unchanged1, Http2Step, NotHttp2, ServeHttp1,
         Serve, ServeHttp2, ServeHttp2Piece, ServeHttp2Rest, vars

\* The HTTP/1.1 server acknowledges what it has carried out.
LEMMA ToldTrue ==
    ASSUME TypeOK, TruthInv, [Next]_vars
    PROVE  \A c \in Http1Calls : \A i \in DOMAIN told'[c] :
                told'[c][i] = 200 => <<Http1Port, c>> \in served'
  <1>1. CASE told' = told
    BY <1>1, ServedGrows DEF TruthInv
  <1>2. ASSUME NEW c \in Http1Calls, Http1Answered(c) \/ Http1Failed(c)
        PROVE  \A d \in Http1Calls : \A i \in DOMAIN told'[d] :
                    told'[d][i] = 200 => <<Http1Port, d>> \in served'
    <2>1. told \in [Http1Calls -> Seq({0, 200})] /\ told[c] \in Seq({0, 200})
      BY DEF TypeOK
    <2>2. PICK code \in {0, 200} : /\ told' = [told EXCEPT ![c] = Append(told[c], code)]
                                   /\ code = 200 => <<Http1Port, c>> \in served
      BY <1>2 DEF Http1Answered, Http1Failed
    <2>3. \A i \in DOMAIN told'[c] : told'[c][i] = code \/ (i \in DOMAIN told[c] /\ told'[c][i] = told[c][i])
      BY <2>1, <2>2
    <2>4. \A i \in DOMAIN told'[c] : told'[c][i] = 200 => <<Http1Port, c>> \in served'
      BY <2>2, <2>3, ServedGrows DEF TruthInv
    <2>5. \A d \in Http1Calls \ {c} : told'[d] = told[d]
      BY <2>1, <2>2
    <2>. QED  BY <2>4, <2>5, ServedGrows DEF TruthInv
  <1>3. told' = told \/ \E c \in Http1Calls : Http1Answered(c) \/ Http1Failed(c)
    BY DEF Next, ClientStep, StartTunnel, StopTunnel, SendOperation, ProxyClientSends, Http1Handler,
         Http1Progress, Http2Step, NotHttp2, ServeHttp1, CarryOut,
         Serve, ServeHttp2, ServeHttp2Piece, ServeHttp2Rest, vars
  <1>. QED  BY <1>1, <1>2, <1>3

\* The HTTP/2 server answers 200 when it has carried the request out.
LEMMA AnswersTrue ==
    ASSUME Inv, TruthInv, [Next]_vars
    PROVE  \A w \in Operations : answer'[w] = 200 => <<Http2Port, carries'[w]>> \in served'
  <1>1. CASE UNCHANGED <<answer, carries>>
    BY <1>1, ServedGrows DEF TruthInv
  <1>2. ASSUME NEW c \in Operations, Http2Step(c)
        PROVE  \A w \in Operations : answer'[w] = 200 => <<Http2Port, carries'[w]>> \in served'
    <2>1. \A w \in Operations : carries[w] = NoCall => answer[w] = NoAnswer
      BY DEF Inv, CallsInv, Operations
    <2>2. /\ answer' = answer
          /\ \A w \in Operations : carries'[w] = carries[w] \/ carries[w] = NoCall
      BY <1>2, HandlersOfClient DEF Http2Step
    <2>. QED  BY <2>1, <2>2, ServedGrows DEF TruthInv, NoAnswer
  <1>3. ASSUME NEW w \in Operations, Serve(w)
        PROVE  \A v \in Operations : answer'[v] = 200 => <<Http2Port, carries'[v]>> \in served'
    <2>1. answer \in [Operations -> AnswerCodes \cup {NoAnswer}]
      BY DEF Inv, Http2TypeOK, Operations
    <2>2. CASE ServeHttp2(w) \/ ServeHttp2Piece(w)
      BY <2>1, <2>2, ServedGrows DEF ServeHttp2, ServeHttp2Piece, Answered, TruthInv
    <2>3. CASE ServeHttp2Rest(w)
      BY <1>1, <2>3 DEF ServeHttp2Rest, http2Vars
    <2>. QED  BY <1>3, <2>2, <2>3 DEF Serve
  <1>4. \/ UNCHANGED <<answer, carries>>
        \/ \E c \in Operations : Http2Step(c) \/ Serve(c)
    BY DEF Next, ClientStep, StartTunnel, StopTunnel, SendOperation, ProxyClientSends, Http1Handler,
         Http1Progress, Http1Answered, Http1Failed, Unchanged1, ServeHttp1, vars, http2Vars, Http2Send
  <1>. QED  BY <1>1, <1>2, <1>3, <1>4

\* The client makes up no status: it passes on what it was answered.
LEMMA StatusesTrue ==
    ASSUME Inv, TruthInv, [Http2Next]_http2Vars, served \subseteq served'
    PROVE  /\ Truthful(streams_.status)'
           /\ \A c \in Operations : \A i \in DOMAIN outcome'[c] : Truthful(outcome[c][i].status)'
  <1>. USE DEF Operations
  <1>1. /\ outcome \in [Http2Calls -> Seq(Outcomes)]
        /\ streams_ \in Entries
        /\ wire \in [Http2Calls -> Http2Calls \cup {NoCall}]
    BY DEF Inv, Http2TypeOK
  <1>2. ASSUME UNCHANGED outcome
        PROVE  \A c \in Operations : \A i \in DOMAIN outcome'[c] : Truthful(outcome[c][i].status)'
    BY <1>2 DEF TruthInv, Truthful
  <1>3. ASSUME NEW c \in Http2Calls, NEW result, CallBack(c, result), Truthful(result.status)
        PROVE  \A d \in Operations : \A i \in DOMAIN outcome'[d] : Truthful(outcome[d][i].status)'
    <2>1. outcome' = [outcome EXCEPT ![c] = Append(outcome[c], result)]
      BY <1>3 DEF CallBack
    <2>2. outcome[c] \in Seq(Outcomes)
      BY <1>1
    <2>3. \A i \in DOMAIN outcome'[c] : outcome'[c][i] = result
                                          \/ (i \in DOMAIN outcome[c] /\ outcome'[c][i] = outcome[c][i])
      BY <1>1, <2>1, <2>2
    <2>4. \A d \in Operations \ {c} : outcome'[d] = outcome[d]
      BY <1>1, <2>1
    <2>. QED  BY <1>3, <2>3, <2>4 DEF TruthInv, Truthful
  <1>4. ASSUME NEW old, streams_'.status = old, Truthful(old)
        PROVE  Truthful(streams_.status)'
    BY <1>4 DEF Truthful
  <1>5. Truthful(NoStatus) /\ Truthful(streams_.status)
    BY DEF TruthInv, Truthful, NoStatus, NoAnswer
  <1>6. ASSUME NEW c \in Http2Calls, Http2Send(c) \/ Http2Handler(c)
        PROVE  /\ Truthful(streams_.status)'
               /\ \A d \in Operations : \A i \in DOMAIN outcome'[d] : Truthful(outcome[d][i].status)'
    <2>1. streams_'.status = streams_.status
      BY <1>1, <1>6 DEF Http2Send, Http2Handler, Http2Resolved, Http2ConnectFails, Http2Connected, Entries
    <2>2. outcome' = outcome \/ CallBack(c, Failure)
      BY <1>6 DEF Http2Send, Http2Handler, Http2Resolved, Http2ConnectFails, Http2Connected
    <2>3. Truthful(Failure.status)
      BY <1>5 DEF Failure
    <2>. QED  BY <1>2, <1>3, <1>4, <1>5, <2>1, <2>2, <2>3
  <1>7. CloseStream =>
               /\ Truthful(streams_.status)'
               /\ \A d \in Operations : \A i \in DOMAIN outcome'[d] : Truthful(outcome[d][i].status)'
    <2>1. Truthful(Response(streams_.status, streams_.body).status)
      BY <1>5 DEF Response
    <2>2. HasEntry => streams_.callback \in Http2Calls
      BY <1>1 DEF HasEntry, Entries
    <2>3. NoEntry.status = NoStatus
      BY DEF NoEntry
    <2>. QED  BY <1>2, <1>3, <1>4, <1>5, <2>1, <2>2, <2>3 DEF CloseStream
  <1>8. ASSUME NEW s \in Http2Calls, HandleRead2(s)
        PROVE  /\ Truthful(streams_.status)'
               /\ \A d \in Operations : \A i \in DOMAIN outcome'[d] : Truthful(outcome[d][i].status)'
    <2>1. CASE OnHeader(s)
      <3>1. wire[s] \in Http2Calls
        BY <1>1, <2>1 DEF OnHeader, Receive, Readable
      <3>2. Truthful([of |-> carries[wire[s]], code |-> answer[wire[s]]])
        BY <3>1 DEF TruthInv, Truthful
      <3>3. \/ streams_'.status = streams_.status
            \/ streams_'.status = [of |-> carries[wire[s]], code |-> answer[wire[s]]]
        BY <1>1, <2>1 DEF OnHeader, Entries
      <3>. QED  BY <1>2, <1>4, <1>5, <2>1, <3>2, <3>3 DEF OnHeader
    <2>2. CASE OnDataChunk(s)
      <3>1. streams_'.status = streams_.status
        BY <1>1, <2>2 DEF OnDataChunk, Entries
      <3>. QED  BY <1>2, <1>4, <1>5, <2>2, <3>1 DEF OnDataChunk
    <2>3. CASE OnStreamClose(s) \/ OnStreamReset(s)
      BY <1>7, <2>3 DEF OnStreamClose, OnStreamReset
    <2>4. CASE ReadFails(s)
      BY <1>2, <1>4, <1>5, <2>4 DEF ReadFails
    <2>. QED  BY <1>8, <2>1, <2>2, <2>3, <2>4 DEF HandleRead2
  <1>9. CASE UNCHANGED <<streams_, outcome>>
    BY <1>2, <1>4, <1>5, <1>9
  <1>. QED  BY <1>6, <1>8, <1>9 DEF Http2Next, Answered, http2Vars

\* Every step keeps to the truth.
LEMMA TruthStep ==
    ASSUME TypeOK, Inv, TruthInv, [Next]_vars
    PROVE  TruthInv'
  <1>1. /\ Truthful(streams_.status)'
        /\ \A c \in Operations : \A i \in DOMAIN outcome'[c] : Truthful(outcome[c][i].status)'
    BY ClientSteps, ServedGrows, StatusesTrue
  <1>. QED  BY <1>1, ToldTrue, AnswersTrue DEF TruthInv

-----------------------------------------------------------------------------
(* The orderly user. *)

\* A success stays one.
LEMMA SuccessStays ==
    ASSUME TypeOK, Inv, ToldInv, [Next]_vars, NEW c \in Operations, NEW port \in Ports,
           Succeeded(c, port)
    PROVE  Succeeded(c, port)'
  <1>1. CASE port = Http2Port
    BY <1>1, ClientSteps, SuccessStays2
  <1>2. CASE port = Http1Port
    <2>0. c \in Http1Calls
      BY DEF Http1Calls
    <2>1. told[c] = <<200>>
      BY <1>2 DEF Succeeded
    <2>2. stage[c] = "done"
      <3>1. Len(<<200>>) = 1 /\ Len(<<>>) = 0
        OBVIOUS
      <3>2. told[c] # <<>>
        BY <2>1, <3>1
      <3>. QED  BY <2>0, <3>2 DEF ToldInv
    <2>3. told' = told \/ \E d \in Http1Calls : Http1Answered(d) \/ Http1Failed(d)
      BY DEF Next, ClientStep, StartTunnel, StopTunnel, SendOperation, ProxyClientSends,
           Http1Handler, Http1Progress, Http2Step, NotHttp2, ServeHttp1, CarryOut,
           Serve, ServeHttp2, ServeHttp2Piece, ServeHttp2Rest, vars
    <2>4. ASSUME NEW d \in Http1Calls, Http1Answered(d) \/ Http1Failed(d)
          PROVE  told'[c] = told[c]
      BY <2>0, <2>2, <2>4 DEF Http1Answered, Http1Failed, Http1!HandleRead, Http1!HandleError,
           Http1!Advance, Http1!Pending, TypeOK
    <2>. QED  BY <1>2, <2>1, <2>3, <2>4 DEF Succeeded
  <1>. QED  BY <1>1, <1>2 DEF Ports

\* Without overlap, what has succeeded was carried out.
LEMMA SuccessIsServed ==
    ASSUME TypeOK, Inv, TruthInv, overlapped = {}, NEW c \in Operations, NEW port \in Ports,
           Succeeded(c, port)
    PROVE  <<port, c>> \in served
  <1>0. SuccessIsTrue /\ c \in Http1Calls
    BY TruthIsSuccess DEF Http1Calls
  <1>1. CASE port = Http2Port
    BY <1>0, <1>1 DEF SuccessIsTrue
  <1>2. CASE port = Http1Port
    <2>1. told[c] = <<200>>
      BY <1>2 DEF Succeeded
    <2>2. 1 \in DOMAIN told[c] /\ told[c][1] = 200
      BY <2>1
    <2>. QED  BY <1>0, <1>2, <2>2 DEF TruthInv
  <1>. QED  BY <1>1, <1>2 DEF Ports

\* A protocol has a port, and its ports are those of the server.
LEMMA PortsOfProtocol ==
    ASSUME TypeOK
    PROVE  PortsOf(protocol) \subseteq Ports /\ PortsOf(protocol) # {}
  BY DEF TypeOK, Protocols, PortsOf, Ports

\* A step that begins and serves no operation leaves an orderly user's registry.
LEMMA OrderlyStays ==
    ASSUME TypeOK, Inv, ToldInv, OrderlyInv, [Next]_vars,
           UNCHANGED <<tunnelVars, orderly, overlapped>>, Tunnels' = Tunnels,
           \A c \in Operations : asked'[c] = asked[c],
           \A c \in Operations, port \in Ports : <<port, c>> \in served' <=> <<port, c>> \in served
    PROVE  OrderlyInv'
  <1>. SUFFICES ASSUME orderly PROVE OrderlyInv'
    BY DEF OrderlyInv
  <1>1. /\ \A c \in Operations : (Begun(c)' <=> Begun(c)) /\ (LastBegun(c)' <=> LastBegun(c))
        /\ Wanted' = Wanted /\ active_tunnel_' = active_tunnel_ /\ protocol' = protocol
        /\ is_tunnel_active_' = is_tunnel_active_
    BY DEF Begun, LastBegun, Wanted, tunnelVars
  <1>2. \A c, d \in Operations : Begun(c)' /\ d < c =>
            \A port \in PortsOf(protocol') : Succeeded(d, port)'
    BY <1>1, SuccessStays, PortsOfProtocol DEF OrderlyInv
  <1>3. (\A c \in Operations : Begun(c)' =>
            \A port \in PortsOf(protocol') : <<port, c>> \in served') => Tunnels' = Wanted'
    BY <1>1, PortsOfProtocol DEF OrderlyInv
  <1>. QED  BY <1>1, <1>2, <1>3 DEF OrderlyInv

\* Only the last operation has a request that the server still may carry out.
LEMMA OnlyLastIsServed ==
    ASSUME TypeOK, Inv, BegunInv, TruthInv, OrderlyInv, orderly, NEW c \in Operations, Begun(c),
           NEW port \in PortsOf(protocol), <<port, c>> \notin served
    PROVE  LastBegun(c)
  <1>. SUFFICES ASSUME NEW d \in Operations, d > c, Begun(d) PROVE FALSE
    BY DEF LastBegun
  <1>1. c < d
    BY TunnelAssumption
  <1>2. Succeeded(c, port) /\ overlapped = {}
    BY <1>1 DEF OrderlyInv
  <1>. QED  BY <1>2, SuccessIsServed, PortsOfProtocol

\* Carrying out a request changes the entry of its own id.
LEMMA CarryOutEffect ==
    ASSUME NEW c \in Http1Calls, CarryOut(c)
    PROVE  DOMAIN backends' = IF asked[c].method = "POST" THEN DOMAIN backends \cup {asked[c].id}
                                                          ELSE DOMAIN backends \ {asked[c].id}
  BY DEF CarryOut, RegisterBackend, UnregisterBackend, Restrict

\* The server does what the last operation asked for, or what the application did.
LEMMA OrderlyServe ==
    ASSUME TypeOK, Inv, BegunInv, ToldInv, TruthInv, OrderlyInv, [Next]_vars,
           NEW c \in Http1Calls, NEW port \in Ports, CarryOut(c), UNCHANGED overlapped,
           <<port, c>> \notin served, served' = served \cup {<<port, c>>},
           c \in Operations => port \in PortsOf(protocol)
    PROVE  OrderlyInv'
  <1>. SUFFICES ASSUME orderly PROVE OrderlyInv'
    BY DEF OrderlyInv, CarryOut
  <1>1. Begun(c) /\ UNCHANGED <<tunnelVars, asked, orderly>>
    BY DEF CarryOut
  <1>2. CASE c \in AppCalls
    <2>1. asked[c].id \notin TunnelIds /\ c \notin Operations
      BY <1>1, <1>2, TunnelAssumption DEF BegunInv
    <2>2. Tunnels' = Tunnels
      BY <2>1, CarryOutEffect DEF Tunnels
    <2>. QED  BY <1>1, <2>1, <2>2, OrderlyStays
  <1>3. CASE c \in Operations
    <2>1. LastBegun(c)
      BY <1>1, <1>3, OnlyLastIsServed
    <2>2. /\ asked[c].id = active_tunnel_ /\ active_tunnel_ \in TunnelIds
          /\ asked[c].method = "POST" <=> is_tunnel_active_
          /\ Tunnels \subseteq {active_tunnel_} /\ overlapped = {}
      BY <1>1, <1>3, <2>1 DEF OrderlyInv, BegunInv
    <2>3. Tunnels' = Wanted
      BY <2>2, CarryOutEffect DEF Tunnels, Wanted
    <2>4. /\ \A d \in Operations : (Begun(d)' <=> Begun(d)) /\ (LastBegun(d)' <=> LastBegun(d))
          /\ Wanted' = Wanted /\ active_tunnel_' = active_tunnel_ /\ protocol' = protocol
          /\ is_tunnel_active_' = is_tunnel_active_
      BY <1>1 DEF Begun, LastBegun, Wanted, tunnelVars
    <2>5. \A d, e \in Operations : Begun(d)' /\ e < d =>
              \A p \in PortsOf(protocol') : Succeeded(e, p)'
      BY <2>4, SuccessStays, PortsOfProtocol DEF OrderlyInv
    <2>6. Wanted \subseteq {active_tunnel_}
      BY DEF Wanted
    <2>7. \A d \in Operations : LastBegun(d)' =>
              asked'[d].id = active_tunnel_' /\ (asked'[d].method = "POST" <=> is_tunnel_active_')
      BY <1>1, <2>4 DEF OrderlyInv
    <2>. QED  BY <2>2, <2>3, <2>4, <2>5, <2>6, <2>7 DEF OrderlyInv
  <1>. QED  BY <1>2, <1>3 DEF Http1Calls

\* An orderly user begins an operation when nothing is left of the ones before it,
\* so it overlaps none and finds the registry as they left it.
LEMMA OrderlySend ==
    ASSUME TypeOK, Inv, BegunInv, ToldInv, TruthInv, OrderlyInv, [Next]_vars,
           NEW c \in Operations, NEW method \in {"POST", "DELETE"}, NEW id \in TunnelIds,
           NEW inOrder, SendOperation(c, method, id, inOrder),
           protocol' = protocol, active_tunnel_' = id, is_tunnel_active_' \in BOOLEAN,
           method = "POST" <=> is_tunnel_active_',
           inOrder /\ method = "POST" => ~is_tunnel_active_,
           method = "DELETE" => is_tunnel_active_ /\ active_tunnel_ = id
    PROVE  OrderlyInv'
  <1>. USE DEF SendOperation
  <1>0. c \in Http1Calls /\ Operations \subseteq Nat /\ PortsOf(protocol) \subseteq Ports
            /\ PortsOf(protocol) # {}
    BY TunnelAssumption, PortsOfProtocol DEF Http1Calls
  <1>. SUFFICES ASSUME orderly' PROVE OrderlyInv'
    BY DEF OrderlyInv
  <1>1. /\ orderly /\ inOrder
        /\ \A d \in Operations, port \in PortsOf(protocol) : d < c => Succeeded(d, port)
    OBVIOUS
  <1>2. /\ overlapped = {} /\ Tunnels \subseteq {active_tunnel_}
        /\ (\A d \in Operations : Begun(d) =>
                \A port \in PortsOf(protocol) : <<port, d>> \in served) => Tunnels = Wanted
    BY <1>1 DEF OrderlyInv
  <1>3. \A d \in Operations : Begun(d) => d < c
    <2>1. ASSUME NEW d \in Operations, Begun(d), ~(d < c)
          PROVE  FALSE
      <3>1. c < d
        BY <1>0, <2>1
      <3>. QED  BY <2>1, <3>1 DEF BegunInv
    <2>. QED  BY <2>1
  <1>4. Tunnels = Wanted
    BY <1>0, <1>1, <1>2, <1>3, SuccessIsServed
  <1>5. /\ Begun(c)' /\ asked'[c].id = id /\ asked'[c].method = method
        /\ \A d \in Operations \ {c} : asked'[d] = asked[d] /\ (Begun(d)' <=> Begun(d))
    <2>1. Asks(method, id) # NotAsked
      BY DEF Asks, NotAsked
    <2>. QED  BY <1>0, <2>1 DEF Begun, Asks, TypeOK, Http1Calls
  <1>6. overlapped' = {}
    <2>1. CASE Http2Port \in PortsOf(protocol)
      <3>1. ASSUME NEW d \in Http2Calls, Awaited(d)
            PROVE  FALSE
        <4>1. op[d] # "idle" /\ outcome[d] = <<>>
          BY <3>1 DEF Awaited
        <4>2. d \in Operations /\ Begun(d)
          BY <4>1 DEF BegunInv, Operations
        <4>3. Succeeded(d, Http2Port)
          BY <1>1, <1>3, <2>1, <4>2
        <4>. QED  BY <4>1, <4>3 DEF Succeeded, Http1Port, Http2Port
      <3>. QED  BY <1>2, <2>1, <3>1 DEF Http2Send
    <2>2. CASE Http2Port \notin PortsOf(protocol)
      BY <1>2, <2>2 DEF http2Vars
    <2>. QED  BY <2>1, <2>2
  <1>7. \A d, e \in Operations : Begun(d)' /\ e < d =>
            \A port \in PortsOf(protocol') : Succeeded(e, port)'
    <2>. SUFFICES ASSUME NEW d \in Operations, NEW e \in Operations, Begun(d)', e < d,
                         NEW port \in PortsOf(protocol)
                  PROVE  Succeeded(e, port)'
      OBVIOUS
    <2>1. e < c
      BY <1>0, <1>3, <1>5
    <2>. QED  BY <1>0, <1>1, <2>1, SuccessStays
  <1>8. Tunnels' = Tunnels /\ served' = served
    BY DEF Tunnels, registryVars
  <1>9. Tunnels' \subseteq {active_tunnel_'}
    BY <1>1, <1>4, <1>8 DEF Wanted
  <1>10. \A port \in Ports : <<port, c>> \notin served'
    <2>1. ASSUME NEW port \in Ports, <<port, c>> \in served
          PROVE  FALSE
      BY <2>1 DEF BegunInv
    <2>. QED  BY <1>8, <2>1
  <1>11. \A d \in Operations : LastBegun(d)' =>
            /\ asked'[d].id = active_tunnel_'
            /\ asked'[d].method = "POST" <=> is_tunnel_active_'
            /\ \A port \in Ports : <<port, d>> \in served' => Tunnels' = Wanted'
    <2>1. ASSUME NEW d \in Operations, LastBegun(d)'
          PROVE  d = c
      <3>1. Begun(d)' /\ ~(c > d)
        BY <1>5, <2>1 DEF LastBegun
      <3>. QED  BY <1>0, <1>3, <1>5, <3>1
    <2>. QED  BY <1>5, <1>10, <2>1
  <1>12. ~\A d \in Operations : Begun(d)' => \A port \in PortsOf(protocol') : <<port, d>> \in served'
    BY <1>0, <1>5, <1>10
  <1>. QED  BY <1>6, <1>7, <1>9, <1>11, <1>12 DEF OrderlyInv

\* Every step keeps the orderly user's order.
LEMMA OrderlyStep ==
    ASSUME TypeOK, Inv, BegunInv, ToldInv, TruthInv, OrderlyInv, [Next]_vars
    PROVE  OrderlyInv'
  <1>1. ASSUME UNCHANGED <<tunnelVars, orderly, overlapped, asked, served, registryVars>>
        PROVE  OrderlyInv'
    <2>1. Tunnels' = Tunnels
      BY <1>1 DEF Tunnels, registryVars
    <2>. QED  BY <1>1, <2>1, OrderlyStays
  <1>2. ASSUME NEW c \in Operations, NEW id \in TunnelIds, StartTunnel(c, id)
        PROVE  OrderlyInv'
    <2>1. /\ SendOperation(c, "POST", id, ~is_tunnel_active_)
          /\ protocol' = protocol /\ active_tunnel_' = id /\ is_tunnel_active_' = TRUE
      BY <1>2 DEF StartTunnel
    <2>. QED  BY <2>1, OrderlySend
  <1>3. ASSUME NEW c \in Operations, StopTunnel(c)
        PROVE  OrderlyInv'
    <2>1. /\ SendOperation(c, "DELETE", active_tunnel_, TRUE)
          /\ protocol' = protocol /\ active_tunnel_' = active_tunnel_ /\ is_tunnel_active_' = FALSE
          /\ is_tunnel_active_ /\ active_tunnel_ \in TunnelIds
      BY <1>3 DEF StopTunnel, BegunInv
    <2>. QED  BY <2>1, OrderlySend
  <1>4. ASSUME NEW c \in AppCalls, NEW method \in {"POST", "DELETE"}, NEW port \in Ports,
               ProxyClientSends(c, method, port)
        PROVE  OrderlyInv'
    <2>1. \A d \in Operations : asked'[d] = asked[d]
      BY <1>4, TunnelAssumption DEF ProxyClientSends, TypeOK, Http1Calls
    <2>2. /\ UNCHANGED <<tunnelVars, orderly, overlapped, served>> /\ Tunnels' = Tunnels
      BY <1>4 DEF ProxyClientSends, http2Vars, registryVars, Tunnels
    <2>. QED  BY <2>1, <2>2, OrderlyStays
  <1>5. ASSUME NEW c \in Http1Calls, Http1Handler(c)
        PROVE  OrderlyInv'
    BY <1>1, <1>5 DEF Http1Handler, Http1Progress, Http1Answered, Http1Failed, Unchanged1, http2Vars
  <1>6. ASSUME NEW c \in Operations, Http2Step(c)
        PROVE  OrderlyInv'
    BY <1>1, <1>6, HandlersOfClient DEF Http2Step, NotHttp2
  <1>7. ASSUME NEW c \in Http1Calls, ServeHttp1(c)
        PROVE  OrderlyInv'
    <2>1. c \in Operations => Http1Port \in PortsOf(protocol)
      BY <1>7 DEF ServeHttp1, BegunInv
    <2>. QED  BY <1>7, <2>1, OrderlyServe DEF ServeHttp1, Ports, http2Vars
  <1>8. ASSUME NEW w \in Operations, Serve(w)
        PROVE  OrderlyInv'
    <2>1. CASE ServeHttp2Piece(w)
      BY <1>1, <2>1 DEF ServeHttp2Piece, Answered, NotHttp2
    <2>2. CASE ServeHttp2(w) \/ ServeHttp2Rest(w)
      <3>1. carries[w] \in Operations /\ carries[w] \in Http1Calls
        BY <2>2, CarriedIsBegun DEF ServeHttp2, ServeHttp2Rest, Waits2, Http1Calls
      <3>2. Http2Port \in PortsOf(protocol) /\ Http2Port \in Ports
        BY <2>2, <3>1 DEF ServeHttp2, ServeHttp2Rest, Waits2, BegunInv, Ports
      <3>3. UNCHANGED overlapped
        BY <2>2 DEF ServeHttp2, ServeHttp2Rest, Answered, http2Vars
      <3>. QED  BY <2>2, <3>1, <3>2, <3>3, OrderlyServe DEF ServeHttp2, ServeHttp2Rest, Waits2
    <2>. QED  BY <1>8, <2>1, <2>2 DEF Serve
  <1>9. CASE UNCHANGED vars
    BY <1>1, <1>9 DEF vars, http2Vars
  <1>. QED
    BY <1>2, <1>3, <1>4, <1>5, <1>6, <1>7, <1>8, <1>9 DEF Next, ClientStep

-----------------------------------------------------------------------------
(* The theorems. *)

\* Before anything is asked, the registry is empty and nobody was told anything.
LEMMA TunnelInit == Init => TunnelInv
  <1>. SUFFICES ASSUME Init PROVE TunnelInv
    OBVIOUS
  <1>. USE DEF Init
  <1>1. Inv
    BY InitInv
  <1>2. TypeOK
    <2>1. RegistryTypeOK
      BY DEF RegistryInit, RegistryTypeOK
    <2>2. Http2TypeOK
      BY <1>1 DEF Inv
    <2>3. /\ stage \in [Http1Calls -> Http1!ClientStages]
          /\ target \in [Http1Calls -> Ports \cup {0}]
      BY DEF Http1!ClientInit, Http1!ClientStages
    <2>4. told \in [Http1Calls -> Seq({0, 200})]
      <3>1. <<>> \in Seq({0, 200})
        OBVIOUS
      <3>. QED  BY <3>1
    <2>5. asked \in [Http1Calls ->
                    [method : {"POST", "DELETE"}, id : TunnelIds \cup {AppId}] \cup {NotAsked}]
      OBVIOUS
    <2>6. protocol \in Protocols /\ active_tunnel_ \in TunnelIds \cup {NoCall}
          /\ is_tunnel_active_ \in BOOLEAN /\ orderly \in BOOLEAN
          /\ arrived \subseteq Http1Calls /\ served \subseteq Ports \X Http1Calls
      OBVIOUS
    <2>. QED  BY <2>1, <2>2, <2>3, <2>4, <2>5, <2>6 DEF TypeOK
  <1>3. BegunInv /\ ToldInv
    BY DEF BegunInv, ToldInv, Begun, Http1!ClientInit, Http2Init, Operations, Http1Calls
  <1>4. TruthInv
    BY DEF TruthInv, Truthful, Http2Init, NoEntry, NoStatus, NoAnswer, Operations
  <1>5. OrderlyInv
    <2>1. \A c \in Operations : ~Begun(c)
      BY DEF Begun, Http1Calls
    <2>2. Tunnels = {} /\ Wanted = {}
      BY DEF Tunnels, Wanted, RegistryInit
    <2>. QED  BY <2>1, <2>2 DEF OrderlyInv, LastBegun, Http2Init
  <1>. QED  BY <1>1, <1>2, <1>3, <1>4, <1>5 DEF TunnelInv

\* The invariant holds of every run.
LEMMA TunnelInvariance == Spec => []TunnelInv
  <1>1. TunnelInv /\ [Next]_vars => TunnelInv'
    BY ClientSteps, NextInv, TypeStep, BegunStep, ToldStep, TruthStep, OrderlyStep DEF TunnelInv
  <1>. QED  BY <1>1, TunnelInit, PTL DEF Spec

\* The clients, the server's registry and what passes between them keep their types.
THEOREM TunnelTypeCorrect == Spec => []TypeOK
  <1>1. TunnelInv => TypeOK
    BY DEF TunnelInv
  <1>. QED  BY <1>1, TunnelInvariance, PTL

\* The callbacks of HttpClient and, for calls that do not overlap, of Http2Client
\* report a success only of a request that the server has carried out, whatever
\* was lost, cut or reset and in whatever order the rest happened.
THEOREM SuccessesAreTrue == Spec => []SuccessIsTrue
  <1>1. TunnelInv => SuccessIsTrue
    BY TruthIsSuccess DEF TunnelInv
  <1>. QED  BY <1>1, TunnelInvariance, PTL

\* A user of ForwardingClient who waits for each success finds the registry as the
\* last one says, after any number of tunnels, over any protocol, and whatever an
\* application does beside it: no earlier request is left to be carried out late.
THEOREM OrderlyUsersAreServed == Spec => []OrderlyMeansDone
  <1>1. TunnelInv => OrderlyMeansDone
    <2>. SUFFICES ASSUME TunnelInv, orderly, NEW c \in Operations, NEW port \in PortsOf(protocol),
                         LastBegun(c), Succeeded(c, port)
                  PROVE  Tunnels = Wanted
      BY DEF OrderlyMeansDone, Tunnels, Wanted
    <2>1. port \in Ports /\ overlapped = {}
      BY PortsOfProtocol DEF TunnelInv, OrderlyInv
    <2>2. <<port, c>> \in served
      BY <2>1, SuccessIsServed DEF TunnelInv
    <2>. QED  BY <2>1, <2>2 DEF TunnelInv, OrderlyInv
  <1>. QED  BY <1>1, TunnelInvariance, PTL

-----------------------------------------------------------------------------
(* The parts the tunnel is composed of keep their promises in it.           *)

\* The server, whoever's request it carries out, calls register_backend or
\* unregister_backend with a legal id and rule; no client touches the table.
LEMMA TableSteps ==
    ASSUME TypeOK, [Next]_vars
    PROVE  [RegistryNext]_registryVars
  <1>1. ASSUME NEW c \in Http1Calls, CarryOut(c)
        PROVE  RegistryNext
    <2>1. asked[c] \in [method : {"POST", "DELETE"}, id : TunnelIds \cup {AppId}]
      BY <1>1 DEF TypeOK, CarryOut, Begun
    <2>2. asked[c].id \in BackendIds /\ LocalRule \in Rules
      BY <2>1, TunnelAssumption
    <2>. QED  BY <1>1, <2>2 DEF CarryOut, RegistryNext
  <1>2. ClientStep => UNCHANGED registryVars
    BY DEF ClientStep, StartTunnel, StopTunnel, SendOperation, Http2Step, ProxyClientSends,
           Http1Handler, Http1Progress, Http1Answered, Http1Failed, Unchanged1, NotHttp2
  <1>3. \A c \in Http1Calls : ServeHttp1(c) => RegistryNext
    BY <1>1 DEF ServeHttp1
  <1>4. ASSUME NEW w \in Operations, Serve(w)
        PROVE  [RegistryNext]_registryVars
    <2>1. CASE ServeHttp2Piece(w)
      BY <2>1 DEF ServeHttp2Piece, NotHttp2
    <2>2. CASE ServeHttp2(w) \/ ServeHttp2Rest(w)
      <3>1. carries[w] \in Http1Calls
        BY <2>2 DEF ServeHttp2, ServeHttp2Rest, Waits2, TypeOK, Http2TypeOK, Operations, Http1Calls
      <3>. QED  BY <1>1, <2>2, <3>1 DEF ServeHttp2, ServeHttp2Rest
    <2>. QED  BY <1>4, <2>1, <2>2 DEF Serve
  <1>. QED  BY <1>2, <1>3, <1>4 DEF Next, vars

\* What ForwardingClient and an application make the server do to its table, in
\* whatever order their requests arrive, is a run of the registry.
THEOREM TunnelUsesRegistry == Spec => RegistrySpec
  <1>1. Init => RegistryInit
    BY DEF Init
  <1>. QED  BY <1>1, TableSteps, TunnelTypeCorrect, PTL DEF Spec, RegistrySpec

\* So a tunnel that is started or stopped diverts no path from another backend.
THEOREM TunnelsNeverDivert == Spec => RoutingIsSticky
  BY TunnelUsesRegistry, RoutingNeverDiverts, PTL

\* The use that ForwardingClient and the server make of Http2Client is within what
\* that client, with any server, is shown to do.
THEOREM TunnelUsesHttp2Client == Spec => Http2Spec
  <1>1. Init => Http2Init
    BY DEF Init
  <1>. QED  BY <1>1, ClientSteps, PTL DEF Spec, Http2Spec

\* So no operation of the tunnel, however its requests are cut, lost or served late,
\* has its callback called twice or, while nothing overlaps it and its connection
\* lives, forgotten.
THEOREM TunnelCallbacks == Spec => [](CalledBackAtMostOnce /\ SoloResponseIsOwn
                                        /\ CallbackNotForgotten)
  BY TunnelUsesHttp2Client, OneCallBack, SoloIsOwn, NobodyIsForgotten, PTL

-----------------------------------------------------------------------------
(* The calls of HttpClient.                                                 *)

\* A call over HTTP/1.1 is idle, is pending (open) or was called back (closed).
Http1Phase ==
    [c \in Http1Calls |-> CASE stage[c] = "idle" -> "idle"
                            [] stage[c] = "done" -> "closed"
                            [] OTHER -> "open"]

Http1Exchange == INSTANCE Exchange WITH
    Exchanges <- Http1Calls, Answers <- {0, 200}, phase <- Http1Phase, answers <- told

\* A step that moves one call from a pending stage to another is no step of an
\* exchange; a step that ends it with its callback is its answer.
LEMMA Http1ExchangeStep ==
    ASSUME TypeOK, ToldInv, [Next]_vars
    PROVE  [Http1Exchange!Next]_(Http1Exchange!exchangeVars)
  <1>. DEFINE Goal == [Http1Exchange!Next]_(Http1Exchange!exchangeVars)
  <1>1. UNCHANGED <<stage, told>> => Goal
    BY DEF Http1Phase, Http1Exchange!exchangeVars
  <1>2. ASSUME NEW c \in Http1Calls, NEW port, Http1!SendRequest(c, port), UNCHANGED told
        PROVE  Goal
    <2>1. stage[c] = "idle" /\ stage' = [stage EXCEPT ![c] = "resolving"]
      BY <1>2 DEF Http1!SendRequest, Http1!Advance
    <2>2. Http1Phase[c] = "idle" /\ Http1Phase' = [Http1Phase EXCEPT ![c] = "open"]
      BY <2>1 DEF Http1Phase, TypeOK
    <2>. QED  BY <1>2, <2>2 DEF Http1Exchange!Open, Http1Exchange!Next
  <1>3. ASSUME NEW c \in Http1Calls, Http1Handler(c)
        PROVE  Goal
    <2>1. CASE Http1Progress(c)
      <3>1. /\ told' = told
            /\ \E to \in {"connecting", "writing", "reading"} :
                    stage[c] \notin {"idle", "done"} /\ stage' = [stage EXCEPT ![c] = to]
        BY <2>1 DEF Http1Progress, Http1!HandleResolve, Http1!HandleConnect, Http1!HandleWrite,
             Http1!Advance
      <3>2. Http1Phase' = Http1Phase
        BY <3>1 DEF Http1Phase, TypeOK
      <3>. QED  BY <3>1, <3>2 DEF Http1Exchange!exchangeVars
    <2>2. CASE Http1Answered(c) \/ Http1Failed(c)
      <3>1. PICK code \in {0, 200} : told' = [told EXCEPT ![c] = Append(@, code)]
        BY <2>2 DEF Http1Answered, Http1Failed
      <3>2. stage[c] \notin {"idle", "done"} /\ stage' = [stage EXCEPT ![c] = "done"]
        BY <2>2 DEF Http1Answered, Http1Failed, Http1!HandleRead, Http1!HandleError, Http1!Advance,
             Http1!Pending
      <3>3. Http1Phase[c] = "open"
        BY <3>2 DEF Http1Phase
      <3>4. Http1Phase' = [Http1Phase EXCEPT ![c] = "closed"]
        BY <3>2 DEF Http1Phase, TypeOK
      <3>5. told[c] = <<>>
        BY <3>2 DEF ToldInv
      <3>6. told' = [told EXCEPT ![c] = <<code>>]
        BY <3>1, <3>5
      <3>. QED  BY <3>3, <3>4, <3>6 DEF Http1Exchange!Answer, Http1Exchange!Next
    <2>. QED  BY <1>3, <2>1, <2>2 DEF Http1Handler
  <1>4. ASSUME NEW c \in Operations, NEW method, NEW id, NEW inOrder,
               SendOperation(c, method, id, inOrder)
        PROVE  Goal
    BY <1>1, <1>2, <1>4 DEF SendOperation, http1Vars, Http1Calls
  <1>5. ASSUME NEW c \in AppCalls, NEW method, NEW port, ProxyClientSends(c, method, port)
        PROVE  Goal
    BY <1>2, <1>5 DEF ProxyClientSends, Http1Calls
  <1>6. ASSUME NEW c \in Operations, Http2Step(c)
        PROVE  Goal
    BY <1>1, <1>6 DEF Http2Step, NotHttp2, http1Vars
  <1>7. ASSUME NEW c \in Http1Calls, ServeHttp1(c)
        PROVE  Goal
    BY <1>1, <1>7 DEF ServeHttp1, CarryOut, http1Vars
  <1>8. ASSUME NEW w \in Operations, Serve(w)
        PROVE  Goal
    BY <1>1, <1>8 DEF Serve, ServeHttp2, ServeHttp2Piece, ServeHttp2Rest, CarryOut, NotHttp2, http1Vars
  <1>. HIDE DEF Goal
  <1>9. Goal
    BY <1>1, <1>3, <1>4, <1>5, <1>6, <1>7, <1>8 DEF Next, ClientStep, StartTunnel, StopTunnel,
       vars, http1Vars
  <1>. QED  BY <1>9 DEF Goal

\* Each call of HttpClient that a tunnel or the application makes is an exchange:
\* its callback is called at most once, at its end, with an error or with a status.
THEOREM Http1CallsAreExchanges == Spec => Http1Exchange!Spec
  <1>1. Init => Http1Exchange!Init
    BY DEF Init, Http1!ClientInit, Http1Exchange!Init, Http1Phase
  <1>2. TunnelInv => TypeOK /\ ToldInv
    BY DEF TunnelInv
  <1>. QED
    BY <1>1, <1>2, Http1ExchangeStep, TunnelInvariance, PTL DEF Spec, Http1Exchange!Spec

-----------------------------------------------------------------------------
(* What a user of the tunnel can reach.                                     *)

\* These clients register nothing but the local service, under their own ids.
RulesInv ==
    /\ DOMAIN backends \subseteq TunnelIds \cup {AppId}
    /\ \A id \in DOMAIN backends : backends[id] = LocalRule

\* Only what a client asked for gets into the table.
LEMMA RulesStep ==
    ASSUME TypeOK, RulesInv, [Next]_vars
    PROVE  RulesInv'
  <1>1. ASSUME NEW c \in Http1Calls, CarryOut(c)
        PROVE  RulesInv'
    <2>1. asked[c] \in [method : {"POST", "DELETE"}, id : TunnelIds \cup {AppId}]
      BY <1>1 DEF TypeOK, CarryOut, Begun
    <2>2. CASE asked[c].method = "POST"
      BY <1>1, <2>1, <2>2 DEF CarryOut, RegisterBackend, RulesInv
    <2>3. CASE asked[c].method # "POST"
      BY <1>1, <2>1, <2>3 DEF CarryOut, UnregisterBackend, Restrict, RulesInv
    <2>. QED  BY <2>2, <2>3
  <1>2. backends' = backends => RulesInv'
    BY DEF RulesInv
  <1>3. ClientStep => backends' = backends
    BY DEF ClientStep, StartTunnel, StopTunnel, SendOperation, Http2Step, ProxyClientSends, Http1Handler,
           Http1Progress, Http1Answered, Http1Failed, Unchanged1, NotHttp2, registryVars
  <1>4. \A c \in Http1Calls : ServeHttp1(c) => RulesInv'
    BY <1>1 DEF ServeHttp1
  <1>5. ASSUME NEW w \in Operations, Serve(w)
        PROVE  RulesInv'
    <2>1. CASE ServeHttp2Piece(w)
      BY <1>2, <2>1 DEF ServeHttp2Piece, NotHttp2, registryVars
    <2>2. CASE ServeHttp2(w) \/ ServeHttp2Rest(w)
      <3>1. carries[w] \in Http1Calls
        BY <2>2 DEF ServeHttp2, ServeHttp2Rest, Waits2, TypeOK, Http2TypeOK, Operations, Http1Calls
      <3>. QED  BY <1>1, <2>2, <3>1 DEF ServeHttp2, ServeHttp2Rest
    <2>. QED  BY <1>5, <2>1, <2>2 DEF Serve
  <1>. QED  BY <1>2, <1>3, <1>4, <1>5 DEF Next, vars, registryVars

\* Where the proxy sends a path: to the local service as long as somebody has it
\* registered and the path is one of its pattern, and to no backend otherwise.
Reaches(path) ==
    IF (is_tunnel_active_ \/ AppId \in DOMAIN backends) /\ IsPrefix(LocalRule.pattern, path)
    THEN LocalRule ELSE NoRule

\* The user who waits for each success can also tell what find_backend finds.
TunnelDecides ==
    \A c \in Operations, port \in PortsOf(protocol), path \in Paths :
        /\ orderly
        /\ LastBegun(c)
        /\ Succeeded(c, port)
        => \A rule \in Rules \cup {NoRule} : Finds(path, rule) <=> rule = Reaches(path)

\* For an orderly user a started tunnel serves every path of its pattern and a stopped
\* one none, unless the application offers the same service: whatever the order of
\* the table, and over whatever protocol the tunnel was started and stopped.
THEOREM TunnelsAreReached == Spec => []TunnelDecides
  <1>1. Init => RulesInv
    BY DEF Init, RegistryInit, RulesInv
  <1>2. Spec => []RulesInv
    BY <1>1, RulesStep, TunnelTypeCorrect, PTL DEF Spec
  <1>3. ASSUME TypeOK, RulesInv, OrderlyMeansDone, LookupIsAFunction
        PROVE  TunnelDecides
    <2>. SUFFICES ASSUME NEW c \in Operations, NEW port \in PortsOf(protocol), NEW path \in Paths,
                         orderly, LastBegun(c), Succeeded(c, port),
                         NEW rule \in Rules \cup {NoRule}
                  PROVE  Finds(path, rule) <=> rule = Reaches(path)
      BY DEF TunnelDecides
    <2>1. TunnelIds \cap DOMAIN backends = IF is_tunnel_active_ THEN {active_tunnel_} ELSE {}
      BY <1>3 DEF OrderlyMeansDone
    <2>2. DOMAIN backends = {} <=> ~(is_tunnel_active_ \/ AppId \in DOMAIN backends)
      BY <1>3, <2>1 DEF RulesInv
    <2>3. Hits(path) = IF IsPrefix(LocalRule.pattern, path) THEN DOMAIN backends ELSE {}
      BY <1>3 DEF Hits, RulesInv
    <2>4. Reaches(path) = IF Hits(path) = {} THEN NoRule ELSE LocalRule
      BY <2>2, <2>3 DEF Reaches
    <2>5. PICK found \in Rules \cup {NoRule} : \A r : Finds(path, r) <=> r = found
      BY <1>3 DEF LookupIsAFunction
    <2>6. Finds(path, found)
      BY <2>5
    <2>7. found = Reaches(path)
      BY <1>3, <2>4, <2>6 DEF Finds, ServedBy, RulesInv, Hits
    <2>. QED  BY <2>5, <2>7
  <1>. QED
    BY <1>2, <1>3, TunnelTypeCorrect, OrderlyUsersAreServed, TunnelUsesRegistry,
       LookupsAreDeterministic, PTL
=============================================================================
