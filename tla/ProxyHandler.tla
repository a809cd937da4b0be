---------------------------- MODULE ProxyHandler ----------------------------
(***************************************************************************)
(* What happens to a request between the HTTP/2 session, which dispatches  *)
(* it through request_cb_, and the one call of the sender that answers it: *)
(* the routing in main(), RequestHandler's route table, the                *)
(* ProxyRequestHandler and its ForwardingHandler, the BackendRegistry and  *)
(* the HttpClient.  A dispatch runs synchronously up to its answer or up   *)
(* to the first asynchronous operation of the HttpClient; dispatches of    *)
(* different sessions run on different threads and meet in the registry.   *)
(***************************************************************************)
EXTENDS BackendRegistry, HttpClient

CONSTANTS
    Offered,    \* the requests that are dispatched
    NoRequest   \* a dispatch that has not happened

ASSUME OfferedAssumption ==
    /\ Offered \subseteq Requests
    /\ NoRequest \notin Requests

VARIABLES
    request,    \* what each dispatch was called with
    answers     \* the calls each dispatch made of its sender

vars == <<backends, before, stage, target, silent, request, answers>>

Dispatches == Calls
Nowhere == NoRule.addr

-----------------------------------------------------------------------------

Init ==
    /\ RegistryInit
    /\ ClientInit(Nowhere)
    /\ request = [d \in Dispatches |-> NoRequest]
    /\ answers = [d \in Dispatches |-> <<>>]

Send(d, reply) == answers' = [answers EXCEPT ![d] = Append(answers[d], reply)]

Reply(d, reply) == Send(d, reply) /\ UNCHANGED clientVars

IsLegible(req) ==
    IF req.method = "POST" THEN HasRule(req.body) ELSE HasId(req.body)

\* Mutant of HandleRegistration: the old rule is dropped before all the fields
\* of the new one are known to be there.
HandleRegistrationDropsFirst(d, req) ==
    \/ /\ req.method \in {"POST", "DELETE"}
       /\ IsLegible(req)
       /\ IF req.method = "POST"
          THEN RegisterBackend(req.body.id, req.body.rule)
          ELSE UnregisterBackend(req.body.id)
       /\ Reply(d, OwnReply(200))
    \/ /\ ~IsLegible(req)
       /\ Reply(d, OwnReply(400))
       /\ IF HasId(req.body) THEN UnregisterBackend(req.body.id)
                            ELSE UNCHANGED registryVars
    \/ /\ req.method \notin {"POST", "DELETE"}
       /\ IsLegible(req)
       /\ Reply(d, OwnReply(405))
       /\ UNCHANGED registryVars

\* ProxyRequestHandler::handle_registration_request.  The body is parsed before
\* the method is looked at, and all the fields are read before the registry is
\* changed.
HandleRegistration(d, req) ==
    \/ /\ req.method \in {"POST", "DELETE"}
       /\ IsLegible(req)
       /\ IF req.method = "POST"
          THEN RegisterBackend(req.body.id, req.body.rule)
          ELSE UnregisterBackend(req.body.id)
       /\ Reply(d, OwnReply(200))
    \/ /\ ~IsLegible(req)
       /\ Reply(d, OwnReply(400))
       /\ UNCHANGED registryVars
    \/ /\ req.method \notin {"POST", "DELETE"}
       /\ IsLegible(req)
       /\ Reply(d, OwnReply(405))
       /\ UNCHANGED registryVars

\* Mutant of ForwardRequest: the null check is missing.
ForwardUnchecked(d, req) ==
    /\ \E rule \in Rules \cup {NoRule} :
        /\ Finds(req.path, rule)
        /\ SendRequest(d, rule.addr)
    /\ UNCHANGED <<registryVars, answers>>

\* ForwardingHandler::forward_request
ForwardRequest(d, req) ==
    /\ \/ /\ Finds(req.path, NoRule)
          /\ Reply(d, OwnReply(404))
       \/ \E rule \in Rules :
            /\ Finds(req.path, rule)
            /\ SendRequest(d, rule.addr)
            /\ UNCHANGED answers
    /\ UNCHANGED registryVars

\* Mutant of HandleProxyRequest: the exact path is compared.
HandleProxyRequestExact(d, req) ==
    IF req.path = RegisterPath THEN HandleRegistration(d, req) ELSE ForwardRequest(d, req)

\* ProxyRequestHandler::handle_proxy_request
HandleProxyRequest(d, req) ==
    IF IsPrefix(RegisterPath, req.path)
    THEN HandleRegistration(d, req)
    ELSE ForwardRequest(d, req)

\* The three routes that main() registers.
HasRoute(req) ==
    \/ req.path = TestPath /\ req.method = "GET"
    \/ req.path = RegisterPath /\ req.method \in {"POST", "DELETE"}

\* What their handlers do.
HandleRoute(d, req) ==
    \/ /\ req.path = TestPath
       /\ Reply(d, OwnReply(204))
       /\ UNCHANGED registryVars
    \/ /\ req.path = RegisterPath
       /\ HandleRegistration(d, req)

\* The default route for GET /health is not reached: main() sends that path to
\* the proxy.
HandleDefaultRoutes(d) == Reply(d, OwnReply(404)) /\ UNCHANGED registryVars

\* RequestHandler::handle_request
HandleRequest(d, req) ==
    IF HasRoute(req) THEN HandleRoute(d, req) ELSE HandleDefaultRoutes(d)

\* request_cb_: the request handler that main() gives the server.
Dispatch(d, req) ==
    /\ request[d] = NoRequest
    /\ request' = [request EXCEPT ![d] = req]
    /\ IF req.path \in {TestPath, RegisterPath}
       THEN HandleRequest(d, req)
       ELSE HandleProxyRequest(d, req)

\* The callback of forward_request, inside the handlers of the HttpClient.
BackendReplied(d) ==
    /\ HandleRead(d)
    /\ Send(d, BackendReply(target[d]))
    /\ UNCHANGED <<registryVars, request>>

\* Mutant of BackendFailed: the error branch of the callback does not return.
BackendFailedTwice(d) ==
    /\ HandleError(d)
    /\ answers' = [answers EXCEPT ![d] = @ \o <<OwnReply(502), BackendReply(target[d])>>]
    /\ UNCHANGED <<registryVars, request>>

\* Mutant of BackendFailed: the error is logged and nobody is told.
BackendFailedSilently(d) ==
    /\ HandleError(d)
    /\ UNCHANGED <<registryVars, request, answers>>

BackendFailed(d) ==
    /\ HandleError(d)
    /\ Send(d, OwnReply(502))
    /\ UNCHANGED <<registryVars, request>>

Progress(d) ==
    /\ HandleResolve(d) \/ HandleConnect(d) \/ HandleWrite(d)
    /\ UNCHANGED <<registryVars, request, answers>>

BackendFallsSilent(d) ==
    /\ FallSilent(d)
    /\ UNCHANGED <<registryVars, request, answers>>

Complete(d) == Progress(d) \/ BackendReplied(d) \/ BackendFailed(d)

Next ==
    \E d \in Dispatches :
        \/ \E req \in Offered : Dispatch(d, req)
        \/ Complete(d)
        \/ BackendFallsSilent(d)

Spec == Init /\ [][Next]_vars

\* The io_context runs the handlers that are ready.
FairSpec == Spec /\ \A d \in Dispatches : WF_vars(Complete(d))

-----------------------------------------------------------------------------

TypeOK ==
    /\ RegistryTypeOK
    /\ stage \in [Dispatches -> ClientStages]
    /\ target \in [Dispatches -> Addresses \cup {Nowhere}]
    /\ silent \subseteq Dispatches
    /\ request \in [Dispatches -> Offered \cup {NoRequest}]
    /\ answers \in [Dispatches -> Seq(Replies)]

\* The sender of a dispatch was called once if nothing is pending for it, and
\* not yet if something is: on every path through the routing, the error paths
\* and the callbacks, no answer is doubled and none is forgotten.
AnswersBalance ==
    \A d \in Dispatches :
        Len(answers[d]) =
            IF request[d] = NoRequest \/ stage[d] \in Pending THEN 0 ELSE 1

\* The dispatches that reached the registration code and changed the registry.
Registers(d, id) ==
    /\ request[d] # NoRequest
    /\ IsPrefix(RegisterPath, request[d].path)
    /\ request[d].method = "POST"
    /\ HasRule(request[d].body)
    /\ request[d].body.id = id

Unregisters(d, id) ==
    /\ request[d] # NoRequest
    /\ IsPrefix(RegisterPath, request[d].path)
    /\ request[d].method = "DELETE"
    /\ HasId(request[d].body)
    /\ request[d].body.id = id

\* The registry is what the dispatched registrations made it: each rule was
\* asked for under its backend id, and a backend that was registered and that
\* nobody asked to remove is in it.
RegistryExplained ==
    \A id \in BackendIds :
        /\ id \in DOMAIN backends =>
            \E d \in Dispatches : Registers(d, id) /\ request[d].body.rule = backends[id]
        /\ (\E d \in Dispatches : Registers(d, id)) /\ (\A d \in Dispatches : ~Unregisters(d, id))
            => id \in DOMAIN backends

\* A backend's answer reaches the dispatch that was forwarded to that backend,
\* and it was forwarded because some client registered the address for a
\* pattern that begins the path; a path the proxy keeps for itself is never
\* forwarded, whatever is registered.
ForwardingExplained ==
    \A d \in Dispatches : stage[d] # "idle" =>
        /\ request[d].path # TestPath /\ ~IsPrefix(RegisterPath, request[d].path)
        /\ \E other \in Dispatches, id \in BackendIds :
            /\ Registers(other, id)
            /\ request[other].body.rule.addr = target[d]
            /\ IsPrefix(request[other].body.rule.pattern, request[d].path)
        /\ stage[d] = "done" =>
            answers[d] \in {<<OwnReply(502)>>, <<BackendReply(target[d])>>}

PhaseOf(d) ==
    CASE request[d] = NoRequest -> "idle"
      [] request[d] # NoRequest /\ stage[d] \in Pending -> "open"
      [] request[d] # NoRequest /\ stage[d] \notin Pending -> "closed"

\* Each dispatch is an exchange: opened by the call of request_cb_, answered in
\* it or later, at most once, and untouched after that.
DispatchExchange == INSTANCE Exchange WITH
    Exchanges <- Dispatches,
    Answers <- Replies,
    phase <- [d \in Dispatches |-> PhaseOf(d)],
    answers <- answers

DispatchIsExchange == DispatchExchange!Spec

\* A forwarded dispatch is answered, unless its backend falls silent for ever.
ForwardedIsAnswered ==
    \A d \in Dispatches : stage[d] \in Pending ~> (answers[d] # <<>> \/ d \in silent)
=============================================================================
