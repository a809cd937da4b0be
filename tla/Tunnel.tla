------------------------------- MODULE Tunnel -------------------------------
(***************************************************************************)
(* The clients that register backends, and what they may believe: the      *)
(* ForwardingClient of examples/ (start_tunnel and stop_tunnel, over       *)
(* HTTP/1.1 to port 9080, over HTTP/2 to port 8080, or both at once), and  *)
(* an application that uses ProxyClient, composed with the registry.       *)
(*                                                                         *)
(* Operation k of the tunnel makes call k of its Http2Client, call k of    *)
(* its HttpClient, or both.  A request that has reached the server is      *)
(* served some time later, in any order across connections, also when its  *)
(* client is told of an error or is dead by then.  A client may stop at    *)
(* any point: forwarding_main has no handler for Ctrl+C, so that its wait  *)
(* never ends and the stop_tunnel of the destructor is not called.         *)
(***************************************************************************)
EXTENDS BackendRegistry, Http2Client

CONSTANTS
    AppCalls,   \* calls of the ProxyClient
    TunnelIds,  \* "tunnel-" and a number, drawn with each TunnelConfig
    AppId,      \* the backend_id of the application
    LocalRule   \* host, port and path_pattern they all register

Operations == Http2Calls
Http1Calls == Operations \cup AppCalls

ASSUME TunnelAssumption ==
    /\ Operations \subseteq Nat
    /\ Operations \cap AppCalls = {}
    /\ TunnelIds \cup {AppId} \subseteq BackendIds
    /\ AppId \notin TunnelIds
    /\ LocalRule \in Rules

VARIABLES
    protocol,       \* config.protocol
    active_tunnel_, \* tunnel_id of *active_tunnel_, NoCall for a null pointer
    is_tunnel_active_,
    asked,          \* the request each call makes
    stage, target,  \* of the HttpClients
    arrived,        \* HTTP/1.1 calls whose request reached a server that reads it
    told,           \* what the callback of each HTTP/1.1 call was given
    served,         \* requests that the server has carried out, by port
    orderly         \* history: each operation was begun when the last had succeeded

tunnelVars == <<protocol, active_tunnel_, is_tunnel_active_>>
http1Vars == <<stage, target>>
vars == <<registryVars, http2Vars, tunnelVars, asked, http1Vars, arrived,
          told, served, orderly>>

\* The server never falls silent here (see ServerProcess for when it does).
Http1 == INSTANCE HttpClient WITH Calls <- Http1Calls, silent <- {}

Protocols == {"HTTP1_ONLY", "HTTP2_ONLY", "BOTH"}
Http1Port == 9080
Http2Port == 8080
Ports == {Http1Port, Http2Port}

PortsOf(proto) ==
    CASE proto = "HTTP1_ONLY" -> {Http1Port}
      [] proto = "HTTP2_ONLY" -> {Http2Port}
      [] proto = "BOTH" -> Ports

NotAsked == [method |-> "none", id |-> NoCall]
Asks(method, id) == [method |-> method, id |-> id]

-----------------------------------------------------------------------------

Init ==
    /\ RegistryInit
    /\ Http2Init
    /\ Http1!ClientInit(0)
    /\ protocol \in Protocols
    /\ active_tunnel_ = NoCall
    /\ is_tunnel_active_ = FALSE
    /\ asked = [c \in Http1Calls |-> NotAsked]
    /\ arrived = {}
    /\ told = [c \in Http1Calls |-> <<>>]
    /\ served = {}
    /\ orderly = TRUE

\* The caller of operation c was told that it succeeded, on this port.
Succeeded(c, port) ==
    IF port = Http1Port
    THEN told[c] = <<200>>
    ELSE \E i \in DOMAIN outcome[c] : outcome[c][i].status.code = 200

Begun(c) == asked[c] # NotAsked

\* register_with_server and unregister_from_server, for the ports of protocol.
SendOperation(c, method, id, inOrder) ==
    /\ ~Begun(c)
    /\ \A d \in Operations : d < c => Begun(d)
    /\ asked' = [asked EXCEPT ![c] = Asks(method, id)]
    /\ orderly' = (orderly /\ inOrder /\
                    \A d \in Operations, port \in PortsOf(protocol) : d < c => Succeeded(d, port))
    /\ IF Http1Port \in PortsOf(protocol)
       THEN Http1!SendRequest(c, Http1Port) ELSE UNCHANGED http1Vars
    /\ IF Http2Port \in PortsOf(protocol) THEN Http2Send(c) ELSE UNCHANGED http2Vars
    /\ UNCHANGED <<registryVars, arrived, told, served>>

\* start_tunnel, of a config made before or anew.  It does not ask whether a
\* tunnel is active; one that is, is forgotten.
StartTunnel(c, id) ==
    /\ SendOperation(c, "POST", id, ~is_tunnel_active_)
    /\ active_tunnel_' = id
    /\ is_tunnel_active_' = TRUE
    /\ UNCHANGED protocol

\* Mutant of StopTunnel: active_tunnel_ is reset before its id is used.
StopTunnelResetsFirst(c) ==
    /\ is_tunnel_active_
    /\ SendOperation(c, "DELETE", NoCall, TRUE)
    /\ active_tunnel_' = NoCall
    /\ is_tunnel_active_' = FALSE
    /\ UNCHANGED protocol

\* stop_tunnel
StopTunnel(c) ==
    /\ is_tunnel_active_
    /\ SendOperation(c, "DELETE", active_tunnel_, TRUE)
    /\ is_tunnel_active_' = FALSE
    /\ UNCHANGED <<protocol, active_tunnel_>>

\* register_backend and unregister_backend of ProxyClient, at the port it is given.
ProxyClientSends(c, method, port) ==
    /\ asked' = [asked EXCEPT ![c] = Asks(method, AppId)]
    /\ Http1!SendRequest(c, port)
    /\ UNCHANGED <<registryVars, http2Vars, tunnelVars, arrived, told, served, orderly>>

-----------------------------------------------------------------------------
(* The handlers of the clients.  async_write writes at once, so a request   *)
(* may have arrived when HandleConnect returns; the HTTP/2 server hangs up  *)
(* on a request of HTTP/1.1.                                                *)

Unchanged1 == UNCHANGED <<registryVars, http2Vars, tunnelVars, asked, served, orderly>>

Http1Progress(c) ==
    /\ \/ Http1!HandleResolve(c) /\ UNCHANGED arrived
       \/ /\ Http1!HandleConnect(c)
          /\ \/ UNCHANGED arrived
             \/ target[c] = Http1Port /\ arrived' = arrived \cup {c}
       \/ Http1!HandleWrite(c) /\ UNCHANGED arrived
    /\ UNCHANGED told
    /\ Unchanged1

\* Every request the HTTP/1.1 server reads whole is answered 200 here.
Http1Answered(c) ==
    /\ <<Http1Port, c>> \in served
    /\ Http1!HandleRead(c)
    /\ told' = [told EXCEPT ![c] = Append(@, 200)]
    /\ UNCHANGED arrived
    /\ Unchanged1

Http1Failed(c) ==
    /\ Http1!HandleError(c)
    /\ told' = [told EXCEPT ![c] = Append(@, 0)]
    /\ UNCHANGED arrived
    /\ Unchanged1

Http1Handler(c) == Http1Progress(c) \/ Http1Answered(c) \/ Http1Failed(c)

NotHttp2 == <<registryVars, tunnelVars, asked, http1Vars, arrived, told,
              served, orderly>>

Http2Step(c) == (Http2Handler(c) \/ HandleRead2(c)) /\ UNCHANGED NotHttp2

-----------------------------------------------------------------------------
(* The server.                                                              *)

\* handle_registration_request
CarryOut(c) ==
    /\ Begun(c)
    /\ IF asked[c].method = "POST"
       THEN RegisterBackend(asked[c].id, LocalRule)
       ELSE UnregisterBackend(asked[c].id)
    /\ UNCHANGED <<tunnelVars, asked, http1Vars, arrived, told, orderly>>

\* Mutant of ServeHttp1: the reply is sent and the registry left as it is.
ServeHttp1InVain(c) ==
    /\ c \in arrived
    /\ <<Http1Port, c>> \notin served
    /\ served' = served \cup {<<Http1Port, c>>}
    /\ UNCHANGED <<registryVars, http2Vars, tunnelVars, asked, http1Vars,
                   arrived, told, orderly>>

ServeHttp1(c) ==
    /\ c \in arrived
    /\ <<Http1Port, c>> \notin served
    /\ served' = served \cup {<<Http1Port, c>>}
    /\ CarryOut(c)
    /\ UNCHANGED http2Vars

Waits2(w) == carries[w] # NoCall /\ <<Http2Port, carries[w]>> \notin served

\* The request that connection w carries was read in one piece.
ServeHttp2(w) ==
    /\ Waits2(w)
    /\ served' = served \cup {<<Http2Port, carries[w]>>}
    /\ CarryOut(carries[w])
    /\ Answered(w, 200)

\* Mutant of ServeHttp2Piece: the first piece is acknowledged.
ServeHttp2PieceOk(w) ==
    /\ Waits2(w)
    /\ Answered(w, 200)
    /\ UNCHANGED NotHttp2

\* It was read in pieces: the first, which is not JSON, is answered 400.
ServeHttp2Piece(w) ==
    /\ Waits2(w)
    /\ Answered(w, 400)
    /\ UNCHANGED NotHttp2

\* The last piece: the request is carried out all the same.
ServeHttp2Rest(w) ==
    /\ Waits2(w)
    /\ answer[w] = 400
    /\ served' = served \cup {<<Http2Port, carries[w]>>}
    /\ CarryOut(carries[w])
    /\ UNCHANGED http2Vars

Serve(w) == ServeHttp2(w) \/ ServeHttp2Piece(w) \/ ServeHttp2Rest(w)

-----------------------------------------------------------------------------

ClientStep ==
    \/ \E c \in Operations :
        \/ \E id \in TunnelIds : StartTunnel(c, id)
        \/ StopTunnel(c)
        \/ Http2Step(c)
    \/ \E c \in AppCalls, method \in {"POST", "DELETE"}, port \in Ports :
        ProxyClientSends(c, method, port)
    \/ \E c \in Http1Calls : Http1Handler(c)

Next ==
    \/ ClientStep
    \/ \E c \in Http1Calls : ServeHttp1(c)
    \/ \E w \in Operations : Serve(w)

Spec == Init /\ [][Next]_vars

\* The read of connection s has something to give, or is broken.
ReadIsReady(s) ==
    /\ s \in reading
    /\ \/ wire[s] = NoCall \/ carries[wire[s]] = NoCall
       \/ answer[wire[s]] # NoAnswer /\ progress[wire[s]] # "closed"

\* As long as the client is not killed its io_context runs the handlers that are
\* ready, and the server serves what has reached it.
Fairness ==
    \A c \in Operations :
        /\ WF_vars(Http2Handler(c) /\ UNCHANGED NotHttp2)
        /\ WF_vars(ReadIsReady(c) /\ HandleRead2(c) /\ UNCHANGED NotHttp2)
        /\ WF_vars(Serve(c))

FairSpec == Spec /\ Fairness

-----------------------------------------------------------------------------

TypeOK ==
    /\ RegistryTypeOK
    /\ Http2TypeOK
    /\ protocol \in Protocols
    /\ active_tunnel_ \in TunnelIds \cup {NoCall}
    /\ is_tunnel_active_ \in BOOLEAN
    /\ asked \in [Http1Calls ->
                    [method : {"POST", "DELETE"}, id : TunnelIds \cup {AppId}] \cup {NotAsked}]
    /\ stage \in [Http1Calls -> Http1!ClientStages]
    /\ target \in [Http1Calls -> Ports \cup {0}]
    /\ arrived \subseteq Http1Calls
    /\ told \in [Http1Calls -> Seq({0, 200})]
    /\ served \subseteq Ports \X Http1Calls
    /\ orderly \in BOOLEAN

\* A caller that is told of a success - by the HttpClient, or by the Http2Client
\* on a call no other overlapped - has had its own request carried out, whatever
\* was lost, cut or reset on the way.
SuccessIsTrue ==
    /\ \A c \in Http1Calls : 200 \in {told[c][i] : i \in DOMAIN told[c]} =>
            <<Http1Port, c>> \in served
    /\ \A c \in Operations \ overlapped : Succeeded(c, Http2Port) =>
            <<Http2Port, c>> \in served

LastBegun(c) == Begun(c) /\ \A d \in Operations : d > c => ~Begun(d)

\* A user who waits for the success of each operation, on every port, before the
\* next, and starts no tunnel while one is active, finds the registry as the last
\* success says: with the tunnel's id if it is active, with no tunnel's id if it
\* was stopped.  No request of an earlier operation is left to undo it.
OrderlyMeansDone ==
    \A c \in Operations, port \in PortsOf(protocol) :
        /\ orderly
        /\ LastBegun(c)
        /\ Succeeded(c, port)
        => TunnelIds \cap DOMAIN backends =
                IF is_tunnel_active_ THEN {active_tunnel_} ELSE {}

\* A call of the Http2Client is called back unless another overlapped it or its
\* connection broke after the request was written (nobody is told then).
CallsAreAnswered ==
    \A c \in Operations :
        op[c] = "resolving" ~>
            \/ outcome[c] # <<>>
            \/ c \in overlapped
            \/ c \in lost
=============================================================================
