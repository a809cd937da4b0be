----------------------------- MODULE Http1Proxy -----------------------------
(***************************************************************************)
(* The HTTP/1.1 front end, transport/http1_proxy: Http1ProxyServer accepts *)
(* connections, and one Http1ProxySession per connection reads ONE request,*)
(* answers it itself or forwards it to a backend, writes ONE reply and is  *)
(* done.  A session is a chain of asynchronous operations: exactly one is  *)
(* pending at a time, pc names it, and an action is the completion handler *)
(* of that operation, up to the next operation it starts.  The handlers of *)
(* different sessions run on a pool of threads and interleave freely; what *)
(* they share is the registry of backends and the table of active          *)
(* requests, each behind its own mutex.  The last handler of a session is  *)
(* two actions, since it reports how things went before complete_request,  *)
(* under the mutex of the table, reports once more.                        *)
(*                                                                         *)
(* The peers are the environment: an operation may complete, fail, or hang *)
(* for ever when the peer neither sends, nor reads, nor closes.  Name      *)
(* resolution and connecting cannot hang: the resolver and TCP give up.    *)
(***************************************************************************)
EXTENDS BackendRegistry, ActiveRequestManager

CONSTANTS
    Offered,    \* the requests that clients send
    NoRequest   \* a session that has read none

ASSUME OfferedAssumption ==
    /\ Offered \subseteq Requests
    /\ NoRequest \notin Requests

VARIABLES
    pc,         \* the pending operation of each session
    request,    \* request_
    rule,       \* the rule the forwarding chain captured
    response,   \* response_, being written to the client
    received,   \* the replies the client has received in full
    stalled     \* sessions whose pending operation will never complete

sessionVars == <<pc, request, rule, response, received, stalled>>
vars == <<backends, before, next_request_id, request_id, state, active_requests,
          pc, request, rule, response, received, stalled>>

Backend == {"resolving", "connecting", "writing", "awaiting"}
InFlight == {"reading", "replying", "ending"} \cup Backend
Stages == {"unborn", "accepted", "closed"} \cup InFlight

\* Operations that need a peer to act, and so may hang.
MayHang == {"reading", "writing", "awaiting", "replying"}

-----------------------------------------------------------------------------

Init ==
    /\ RegistryInit
    /\ ManagerInit
    /\ pc = [s \in Sessions |-> "unborn"]
    /\ request = [s \in Sessions |-> NoRequest]
    /\ rule = [s \in Sessions |-> NoRule]
    /\ response = [s \in Sessions |-> NoReply]
    /\ received = [s \in Sessions |-> <<>>]
    /\ stalled = {}

GoTo(s, stage) == pc' = [pc EXCEPT ![s] = stage]

\* send_response, and the forwarding of a backend's reply: both store the
\* reply, report SendingResponse and start to write it to the client.
StartReply(s, reply) ==
    /\ response' = [response EXCEPT ![s] = reply]
    /\ SetState(s, "SendingResponse")
    /\ GoTo(s, "replying")
    /\ UNCHANGED <<received, stalled>>

\* The last handler of a session reports how things went, and is about to hand
\* the request to complete_request.
Report(s, outcome) ==
    /\ SetState(s, outcome)
    /\ GoTo(s, "ending")
    /\ UNCHANGED <<registryVars, request, rule, response, stalled>>

-----------------------------------------------------------------------------

\* The accept handler, up to the insertion in create_request.  There is one
\* acceptor with one operation pending, re-armed at the end of the handler,
\* so no two sessions are under construction at once.
Accept(s) ==
    /\ pc[s] = "unborn"
    /\ \A t \in Sessions : pc[t] # "accepted"
    /\ GenerateRequestId(s)
    /\ GoTo(s, "accepted")
    /\ UNCHANGED <<backends, before, request, rule, response, received, stalled>>

\* The rest of it: create_request inserts, start() reports Parsing and reads.
StartSession(s) ==
    /\ pc[s] = "accepted"
    /\ InsertRequest(s)
    /\ state' = [state EXCEPT ![s] = "Parsing"]
    /\ GoTo(s, "reading")
    /\ UNCHANGED <<backends, before, request, rule, response, received, stalled>>

\* Mutant of ReadFails: the error path forgets complete_request.
ReadFailsUntracked(s) ==
    /\ pc[s] = "reading"
    /\ SetState(s, "Failed")
    /\ GoTo(s, "closed")
    /\ UNCHANGED <<registryVars, request, rule, response, received, stalled>>

ReadFails(s) ==
    /\ pc[s] = "reading"
    /\ Report(s, "Failed")
    /\ UNCHANGED received

\* handle_request: registrations are recognised by the exact path and the
\* method; every other request, a GET of that path included, is forwarded.
IsRegistration(req) ==
    req.path = RegisterPath /\ req.method \in {"POST", "DELETE"}

IsLegible(req) ==
    IF req.method = "POST" THEN HasRule(req.body) ELSE HasId(req.body)

\* Mutant of HandleRegistration: the old rule is dropped before all the fields
\* of the new one are known to be there.
HandleRegistrationDropsFirst(s, req) ==
    /\ IsRegistration(req)
    /\ \/ /\ IsLegible(req)
          /\ IF req.method = "POST"
             THEN RegisterBackend(req.body.id, req.body.rule)
             ELSE UnregisterBackend(req.body.id)
          /\ StartReply(s, OwnReply(200))
       \/ /\ ~IsLegible(req)
          /\ IF HasId(req.body) THEN UnregisterBackend(req.body.id)
                               ELSE UNCHANGED registryVars
          /\ StartReply(s, OwnReply(400))
    /\ UNCHANGED rule

HandleRegistration(s, req) ==
    /\ IsRegistration(req)
    /\ \/ /\ IsLegible(req)
          /\ IF req.method = "POST"
             THEN RegisterBackend(req.body.id, req.body.rule)
             ELSE UnregisterBackend(req.body.id)
          /\ StartReply(s, OwnReply(200))
       \/ /\ ~IsLegible(req)
          /\ StartReply(s, OwnReply(400))
          /\ UNCHANGED registryVars
    /\ UNCHANGED rule

\* Mutant of ForwardToBackend: the null check is missing.
ForwardUnchecked(s, req) ==
    /\ ~IsRegistration(req)
    /\ \E found \in Rules \cup {NoRule} :
        /\ Finds(req.path, found)
        /\ rule' = [rule EXCEPT ![s] = found]
    /\ SetState(s, "Forwarding")
    /\ GoTo(s, "resolving")
    /\ UNCHANGED <<registryVars, response, received, stalled>>

\* forward_to_backend, up to async_resolve.
ForwardToBackend(s, req) ==
    /\ ~IsRegistration(req)
    /\ \/ /\ Finds(req.path, NoRule)
          /\ StartReply(s, OwnReply(404))
          /\ UNCHANGED rule
       \/ \E found \in Rules :
            /\ Finds(req.path, found)
            /\ rule' = [rule EXCEPT ![s] = found]
            /\ SetState(s, "Forwarding")
            /\ GoTo(s, "resolving")
            /\ UNCHANGED <<response, received, stalled>>
    /\ UNCHANGED registryVars

ReadRequest(s, req) ==
    /\ pc[s] = "reading"
    /\ request' = [request EXCEPT ![s] = req]
    /\ HandleRegistration(s, req) \/ ForwardToBackend(s, req)

Resolved(s) ==
    /\ pc[s] = "resolving"
    /\ GoTo(s, "connecting")
    /\ UNCHANGED <<registryVars, managerVars, request, rule, response, received, stalled>>

Connected(s) ==
    /\ pc[s] = "connecting"
    /\ SetState(s, "WaitingBackend")
    /\ GoTo(s, "writing")
    /\ UNCHANGED <<registryVars, request, rule, response, received, stalled>>

\* Mutant of RequestWritten: it reports the state that is already past.
RequestWrittenReportsBack(s) ==
    /\ pc[s] = "writing"
    /\ SetState(s, "Forwarding")
    /\ GoTo(s, "awaiting")
    /\ UNCHANGED <<registryVars, request, rule, response, received, stalled>>

RequestWritten(s) ==
    /\ pc[s] = "writing"
    /\ GoTo(s, "awaiting")
    /\ UNCHANGED <<registryVars, managerVars, request, rule, response, received, stalled>>

\* Mutant of BackendReplied: the rule is looked up again, not captured.
BackendRepliedAnew(s) ==
    /\ pc[s] = "awaiting"
    /\ \E found \in Rules :
        Finds(request[s].path, found) /\ StartReply(s, BackendReply(found.addr))
    /\ UNCHANGED <<registryVars, request, rule>>

BackendReplied(s) ==
    /\ pc[s] = "awaiting"
    /\ StartReply(s, BackendReply(rule[s].addr))
    /\ UNCHANGED <<registryVars, request, rule>>

\* Mutant of BackendFails: an error path returns without send_response.
BackendFailsSilently(s) ==
    /\ pc[s] \in Backend
    /\ GoTo(s, "lost")
    /\ UNCHANGED <<registryVars, managerVars, request, rule, response, received, stalled>>

\* Any of the four operations on the backend fails.
BackendFails(s) ==
    /\ pc[s] \in Backend
    /\ StartReply(s, OwnReply(502))
    /\ UNCHANGED <<registryVars, request, rule>>

\* Mutant of ReplyWritten: the session reads a second request.
ReplyWrittenKeepsReading(s) ==
    /\ pc[s] = "replying"
    /\ received' = [received EXCEPT ![s] = Append(received[s], response[s])]
    /\ SetState(s, "Completed")
    /\ GoTo(s, "reading")
    /\ UNCHANGED <<registryVars, request, rule, response, stalled>>

ReplyWritten(s) ==
    /\ pc[s] = "replying"
    /\ received' = [received EXCEPT ![s] = Append(received[s], response[s])]
    /\ Report(s, "Completed")

ReplyFails(s) ==
    /\ pc[s] = "replying"
    /\ Report(s, "Failed")
    /\ UNCHANGED received

\* complete_request, which reports Completed over whatever was reported, and the
\* release of the session.
CompleteSession(s) ==
    /\ pc[s] = "ending"
    /\ CompleteRequest(request_id[s])
    /\ GoTo(s, "closed")
    /\ UNCHANGED <<registryVars, request, rule, response, received, stalled>>

-----------------------------------------------------------------------------

\* The handlers of one session after its start, when they are called.
Handler(s) ==
    \/ ReadFails(s)
    \/ \E req \in Offered : ReadRequest(s, req)
    \/ Resolved(s) \/ Connected(s) \/ RequestWritten(s)
    \/ BackendReplied(s) \/ BackendFails(s)
    \/ ReplyWritten(s) \/ ReplyFails(s) \/ CompleteSession(s)

Complete(s) == s \notin stalled /\ Handler(s)

\* The peer of the pending operation falls silent for good.
Hang(s) ==
    /\ pc[s] \in MayHang
    /\ s \notin stalled
    /\ stalled' = stalled \cup {s}
    /\ UNCHANGED <<registryVars, managerVars, pc, request, rule, response, received>>

Next ==
    \E s \in Sessions : Accept(s) \/ StartSession(s) \/ Complete(s) \/ Hang(s)

Spec == Init /\ [][Next]_vars

\* The io_context runs every handler that is ready: an operation whose peer
\* has not fallen silent completes.  Nothing makes a client connect.
Fairness == \A s \in Sessions : WF_vars(StartSession(s)) /\ WF_vars(Complete(s))

FairSpec == Spec /\ Fairness

-----------------------------------------------------------------------------

TypeOK ==
    /\ RegistryTypeOK
    /\ next_request_id \in Nat \ {0}
    /\ request_id \in [Sessions -> Nat]
    /\ state \in [Sessions -> RequestState]
    /\ pc \in [Sessions -> Stages]
    /\ request \in [Sessions -> Offered \cup {NoRequest}]
    /\ rule \in [Sessions -> Rules \cup {NoRule}]
    /\ response \in [Sessions -> Replies \cup {NoReply}]
    /\ received \in [Sessions -> Seq(Replies)]
    /\ stalled \subseteq Sessions

\* The table of active requests holds exactly the sessions that were started and
\* have not come to their complete_request, each under its own id: none of the
\* early returns, error paths and interleavings leaks an entry or drops one that
\* is in use.
TrackedWhileOpen ==
    /\ \A s \in Sessions :
        pc[s] \in InFlight <=>
            /\ request_id[s] \in DOMAIN active_requests
            /\ active_requests[request_id[s]] = s
    /\ \A id \in DOMAIN active_requests : request_id[active_requests[id]] = id

\* The requests on which handle_request changed the registry.
Registers(s, id) ==
    /\ request[s] # NoRequest
    /\ request[s].path = RegisterPath
    /\ request[s].method = "POST"
    /\ HasRule(request[s].body)
    /\ request[s].body.id = id

Unregisters(s, id) ==
    /\ request[s] # NoRequest
    /\ request[s].path = RegisterPath
    /\ request[s].method = "DELETE"
    /\ HasId(request[s].body)
    /\ request[s].body.id = id

\* The registry is what the registrations that were read made it: each of its
\* rules was asked for by a client under that backend id, and a backend that
\* was registered and that nobody asked to remove is in it - even if the reply
\* was lost, and whatever the other sessions did meanwhile.
RegistryExplained ==
    \A id \in BackendIds :
        /\ id \in DOMAIN backends =>
            \E s \in Sessions : Registers(s, id) /\ request[s].body.rule = backends[id]
        /\ (\E s \in Sessions : Registers(s, id)) /\ (\A s \in Sessions : ~Unregisters(s, id))
            => id \in DOMAIN backends

\* A rule that some client's registration put in the registry, for this path.
Registered(found, path) ==
    \E t \in Sessions, id \in BackendIds :
        /\ Registers(t, id)
        /\ request[t].body.rule = found
        /\ IsPrefix(found.pattern, path)

\* This is a reply that the request of the session can get.
Explained(s, reply) ==
    /\ request[s] # NoRequest
    /\ IF IsRegistration(request[s])
       THEN reply = OwnReply(IF IsLegible(request[s]) THEN 200 ELSE 400)
       ELSE \/ reply = OwnReply(404)
            \/ /\ Registered(rule[s], request[s].path)
               /\ reply \in {OwnReply(502), BackendReply(rule[s].addr)}

\* Every reply is the reply to the request its client sent: 200 or 400 to a
\* registration according to its body, 404 or 502 or a backend's reply to
\* anything else, and a backend's reply comes from an address that a client
\* registered for a pattern that begins the path.  No interleaving hands a
\* client a reply that belongs to another session.
\* "Anything else" includes the other methods of the registration path, which
\* handle_request forwards like any request: README.md:159 promises a 405 for
\* them, which this property does not ask for and ProxyServer finds missing.
ReplyExplained ==
    \A s \in Sessions : \A reply \in Range(received[s]) : Explained(s, reply)

\* The states of a request in the order in which they may be reported.
Rank == [Created |-> 0, Parsing |-> 1, Forwarding |-> 2, WaitingBackend |-> 3,
         SendingResponse |-> 4, Completed |-> 5, Failed |-> 5]

\* complete_request reports Completed over Failed, as it takes the request away.
OverwritesFailure(s) ==
    /\ state[s] = "Failed"
    /\ state'[s] = "Completed"
    /\ request_id[s] \in DOMAIN active_requests \ DOMAIN active_requests'

\* A state that is reported is later in that order than the one before, or is
\* that one exception, and is reported on a session that has not ended.
AdvanceStep ==
    \A s \in Sessions :
        state'[s] # state[s] =>
            /\ Rank[state[s]] < Rank[state'[s]] \/ OverwritesFailure(s)
            /\ pc[s] # "closed"

\* RequestState is a progress report (Created -> ... -> Completed or Failed): it
\* never goes back, it does not change once the request has left the table, and
\* while a request is in the table nothing hides that it failed.  Only the step
\* that takes it out does, always: what holds on to the request later sees every
\* failed one as Completed.
StateOnlyAdvances == [][AdvanceStep]_vars

\* For its client the session ends with the outcome; complete_request is no step.
PhaseOf(stage) ==
    CASE stage \in {"unborn", "accepted"} -> "idle"
      [] stage \in InFlight \ {"ending"} -> "open"
      [] stage \in {"ending", "closed"} -> "closed"

\* Each connection is an exchange: opened once, at most one reply, and nothing
\* after its end.
Connection == INSTANCE Exchange WITH
    Exchanges <- Sessions,
    Answers <- Replies,
    phase <- [s \in Sessions |-> PhaseOf(pc[s])],
    answers <- received

ConnectionIsExchange == Connection!Spec

\* Every request that is being worked on comes to its end, is answered or given
\* up, and leaves the table - unless a peer falls silent for ever.
RequestsEnd ==
    \A s \in Sessions : pc[s] \in InFlight ~> (pc[s] = "closed" \/ s \in stalled)

\* README.md, Error Handling: a backend request that fails, by an error or by a
\* TIMEOUT, is answered.  (The code sets no timer.)
SilentBackendIsAnswered ==
    \A s \in Sessions : pc[s] \in Backend ~> pc[s] \in {"replying", "closed"}
=============================================================================
