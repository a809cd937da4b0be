------------------------------ MODULE MCTunnel ------------------------------
(***************************************************************************)
(* A tunnel that is started and stopped, or started twice, with a config   *)
(* of its own each time, beside an application with one registration.      *)
(***************************************************************************)
EXTENDS Tunnel

CONSTANT p

MCOperations == 1 .. 2
MCTunnelIds == {"tunnel-1", "tunnel-2"}
MCBackendIds == MCTunnelIds \cup {"app"}
MCPatterns == {<<>>}
MCRegisterPath == <<"proxy", "register">>
MCTestPath == <<"test">>
MCPaths == {MCRegisterPath, MCTestPath}
MCAppCalls == {p}
MCLocalRule == [addr |-> "A", pattern |-> <<>>]

\* What need not be interleaved.  A call of the HttpClient is told apart by what
\* the server does with it, so as long as there is nothing to serve, or the client
\* does not yet read the reply, its handlers come first; a read that fails after
\* the answer is complete changes nothing; the application's call is independent
\* of the HTTP/2 client, the tunnel ids are interchangeable, and with both protocols
\* at once only a start and a stop are of interest.
ComesFirst(c) ==
    \/ stage[c] \in {"resolving", "connecting", "writing"}
    \/ stage[c] = "reading" /\ c \notin arrived

Reduced ==
    /\ (\E c \in Http1Calls : ComesFirst(c)) => stage' # stage
    /\ \A s \in reading \ reading' : wire[s] \in MCOperations =>
            progress[wire[s]] # "closed" \/ op' # op
    /\ asked'[p] # NotAsked => protocol = "HTTP1_ONLY"
    /\ asked'[1].id # "tunnel-2"
    /\ protocol = "BOTH" => asked'[2].method # "POST"

MCFairSpec == Init /\ [][Next /\ Reduced]_vars /\ Fairness
=============================================================================
