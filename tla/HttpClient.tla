----------------------------- MODULE HttpClient -----------------------------
(***************************************************************************)
(* HttpClient of transport/http_client: the asynchronous HTTP/1.1 client   *)
(* the HTTP/2 front end forwards with.  One object serves any number of    *)
(* calls at once; each has a socket of its own and is a chain of           *)
(* completion handlers, the last of which calls the caller's callback.     *)
(* The callback runs inside the handler, so an action that calls it leaves *)
(* the effect of the callback to the module that made the call.            *)
(***************************************************************************)
CONSTANT Calls

VARIABLES
    stage,      \* the pending operation of each call
    target,     \* the address each call goes to
    silent      \* calls whose backend has fallen silent for ever

clientVars == <<stage, target, silent>>

Pending == {"resolving", "connecting", "writing", "reading"}
ClientStages == {"idle", "done"} \cup Pending

\* A resolver and a connect give up; a backend that has accepted may neither
\* read nor answer nor close, and the client sets no timer.
SilentStages == {"writing", "reading"}

-----------------------------------------------------------------------------

ClientInit(nowhere) ==
    /\ stage = [c \in Calls |-> "idle"]
    /\ target = [c \in Calls |-> nowhere]
    /\ silent = {}

Advance(c, from, to) ==
    /\ stage[c] \in from
    /\ c \notin silent
    /\ stage' = [stage EXCEPT ![c] = to]
    /\ UNCHANGED silent

\* send_request
SendRequest(c, addr) ==
    /\ Advance(c, {"idle"}, "resolving")
    /\ target' = [target EXCEPT ![c] = addr]

HandleResolve(c) == Advance(c, {"resolving"}, "connecting") /\ UNCHANGED target

HandleConnect(c) == Advance(c, {"connecting"}, "writing") /\ UNCHANGED target

HandleWrite(c) == Advance(c, {"writing"}, "reading") /\ UNCHANGED target

\* handle_read: callback(response, "")
HandleRead(c) == Advance(c, {"reading"}, "done") /\ UNCHANGED target

\* Mutant of HandleError: the handler calls back but does not return.
HandleErrorGoesOn(c) == Advance(c, Pending, "connecting") /\ UNCHANGED target

\* Any of the four handlers is given an error: callback(..., error)
HandleError(c) == Advance(c, Pending, "done") /\ UNCHANGED target

FallSilent(c) ==
    /\ stage[c] \in SilentStages
    /\ c \notin silent
    /\ silent' = silent \cup {c}
    /\ UNCHANGED <<stage, target>>
=============================================================================
