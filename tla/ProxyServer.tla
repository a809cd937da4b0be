---------------------------- MODULE ProxyServer ----------------------------
(***************************************************************************)
(* What main() starts: the HTTP/2 server, whose sessions dispatch requests *)
(* as in ProxyHandler, and the HTTP/1.1 server, whose sessions are those   *)
(* of Http1Proxy.  They run on one io_context, their steps interleave, and *)
(* they share one thing: the table of BackendRegistry::getInstance(),      *)
(* which is the "backends" of both.                                        *)
(*                                                                         *)
(* The HTTP/1.1 side comes as an instance of its proofs, so that what is   *)
(* proved of a step of it may be cited.  A client may send any of the      *)
(* offered requests to either port.                                        *)
(***************************************************************************)
EXTENDS ProxyHandler

CONSTANT Sessions       \* the HTTP/1.1 connections

VARIABLES
    \* the table of active requests
    next_request_id, request_id, state, active_requests,
    \* the HTTP/1.1 sessions: their request and rule are http1Request, captured
    pc, http1Request, captured, response, received, stalled

Http1 == INSTANCE Http1ProxyProofs WITH request <- http1Request, rule <- captured

\* What each side has for itself.
dispatchVars == <<stage, target, silent, request, answers>>
http1Vars == <<next_request_id, request_id, state, active_requests,
               pc, http1Request, captured, response, received, stalled>>

serverVars == <<registryVars, dispatchVars, http1Vars>>

-----------------------------------------------------------------------------

ServerInit == Init /\ Http1!Init

ServerNext ==
    \/ Next /\ UNCHANGED http1Vars
    \/ Http1!Next /\ UNCHANGED dispatchVars

ServerSpec == ServerInit /\ [][ServerNext]_serverVars

-----------------------------------------------------------------------------

\* Neither POST nor DELETE, for the registration endpoint.
IsOtherMethod(req) == req.path = RegisterPath /\ req.method \notin {"POST", "DELETE"}

\* README.md, Error Handling: "405: Method not allowed for registration endpoints".
\* It says so of the server, whose two ports both have the endpoint; all that is asked
\* here is that of two clients who try another method, one on each port, and are
\* answered, one is told so.
RegistrationMethodNotAllowed ==
    \A d \in Dispatches, s \in Sessions :
        /\ request[d] # NoRequest /\ IsOtherMethod(request[d])
        /\ http1Request[s] # NoRequest /\ IsOtherMethod(http1Request[s])
        /\ answers[d] # <<>> /\ received[s] # <<>>
        => OwnReply(405) \in Range(answers[d]) \cup Range(received[s])

-----------------------------------------------------------------------------

\* A client asked, on either port, that the backend be registered with this rule.
AskedFor(id, given) ==
    \/ \E d \in Dispatches : Registers(d, id) /\ request[d].body.rule = given
    \/ \E s \in Sessions : Http1!Registers(s, id) /\ http1Request[s].body.rule = given

AskedToRemove(id) ==
    \/ \E d \in Dispatches : Unregisters(d, id)
    \/ \E s \in Sessions : Http1!Unregisters(s, id)

\* The registry is what the clients of both ports made it: each rule was asked for
\* under its backend id, on one port or the other, and a backend that was registered
\* on one and that nobody asked on either to remove is in it.
ServerRegistryExplained ==
    \A id \in BackendIds :
        /\ id \in DOMAIN backends => AskedFor(id, backends[id])
        /\ (\E given \in Rules : AskedFor(id, given)) /\ ~AskedToRemove(id)
            => id \in DOMAIN backends

\* A rule that a client of either port registered, for this path.
RegisteredFor(given, path) ==
    /\ \E id \in BackendIds : AskedFor(id, given)
    /\ IsPrefix(given.pattern, path)

\* A dispatch is forwarded to an address that a client of either port registered for
\* its path, never for a path of the proxy's own, and the answer is that backend's or
\* a 502.
ServerForwardingExplained ==
    \A d \in Dispatches : stage[d] # "idle" =>
        /\ request[d].path # TestPath /\ ~IsPrefix(RegisterPath, request[d].path)
        /\ \E given \in Rules :
            given.addr = target[d] /\ RegisteredFor(given, request[d].path)
        /\ stage[d] = "done" =>
            answers[d] \in {<<OwnReply(502)>>, <<BackendReply(target[d])>>}

\* The reply to an HTTP/1.1 client is one that its own request can get, and a backend
\* that replies was registered for its path by a client of either port.  As in
\* ReplyExplained, another method of the registration path counts as any request.
ServerReplyExplained ==
    \A s \in Sessions : \A reply \in Range(received[s]) :
        /\ http1Request[s] # NoRequest
        /\ IF Http1!IsRegistration(http1Request[s])
           THEN reply = OwnReply(IF IsLegible(http1Request[s]) THEN 200 ELSE 400)
           ELSE \/ reply = OwnReply(404)
                \/ /\ RegisteredFor(captured[s], http1Request[s].path)
                   /\ reply \in {OwnReply(502), BackendReply(captured[s].addr)}

-----------------------------------------------------------------------------

\* find_backend would send a request for this path there, now.
GoesTo(path, addr) == \E id \in DOMAIN backends : ServedBy(path, id) /\ backends[id].addr = addr

\* A path goes to one place at a time.
OnePlace ==
    \A path \in Paths, a, b \in Addresses : GoesTo(path, a) /\ GoesTo(path, b) => a = b

\* The paths that both sides take for a request to a backend.
IsForBackends(path) == path # TestPath /\ ~IsPrefix(RegisterPath, path)

\* On either port such a request is taken, as it comes in, to where its path goes, or
\* answered 404 if no pattern begins it.
RouteStep ==
    /\ \A d \in Dispatches :
        request'[d] # request[d] /\ IsForBackends(request'[d].path) =>
            \/ GoesTo(request'[d].path, target'[d]) /\ stage'[d] = "resolving"
            \/ Hits(request'[d].path) = {} /\ answers'[d] = <<OwnReply(404)>>
    /\ \A s \in Sessions :
        http1Request'[s] # http1Request[s] /\ IsForBackends(http1Request'[s].path) =>
            \/ GoesTo(http1Request'[s].path, captured'[s].addr) /\ pc'[s] = "resolving"
            \/ /\ Hits(http1Request'[s].path) = {}
               /\ pc'[s] = "replying" /\ response'[s] = OwnReply(404)

\* README.md, Usage: "Both requests route to the same registered backend service
\* automatically".  What goes on between the two, on either port, may change where
\* that is; which port a request comes in on does not.
PortsRouteAlike == []OnePlace /\ [][RouteStep]_serverVars
=============================================================================
