--------------------------- MODULE ProxyRequests ---------------------------
(***************************************************************************)
(* The data both front ends of the proxy understand: forwarding rules,     *)
(* request paths, requests, registration bodies and replies.  Everything   *)
(* here is constant; the modules with state extend it.                     *)
(*                                                                         *)
(* A path or a path_pattern is a sequence of tokens, so that               *)
(* path.find(pattern) == 0 of the code is IsPrefix.  A backend's host and  *)
(* port are one address.  A body is what json::parse and the field reads   *)
(* make of it: a whole forwarding rule, an object with only a backend_id,  *)
(* or text that is not JSON.                                               *)
(***************************************************************************)
EXTENDS SequencesExt

CONSTANTS
    BackendIds,     \* values of backend_id
    Addresses,      \* target_host:target_port of a backend
    Patterns,       \* path_pattern values that backends register
    Paths,          \* request targets that clients ask for
    RegisterPath,   \* "/proxy/register"
    TestPath        \* "/test", the one route main() answers itself

ASSUME PathsAssumption ==
    /\ RegisterPath \in Paths
    /\ TestPath \in Paths
    /\ RegisterPath \in Seq(STRING)
    /\ ~IsPrefix(RegisterPath, TestPath)

Rules == [addr : Addresses, pattern : Patterns]

\* "no forwarding rule": the nullptr that find_backend returns.
NoRule == [addr |-> "nullptr"]

Methods == {"GET", "POST", "DELETE"}

Bodies == [kind : {"rule"}, id : BackendIds, rule : Rules]
            \cup [kind : {"id"}, id : BackendIds]
            \cup [kind : {"junk"}]

Requests == [method : Methods, path : Paths, body : Bodies]

\* What the registration code can read out of a body; a missing field throws.
HasRule(body) == body.kind = "rule"
HasId(body) == body.kind \in {"rule", "id"}

\* A reply made by the proxy itself, and one made by a backend.
Codes == {200, 204, 400, 404, 405, 502}
OwnReply(code) == [code |-> code]
BackendReply(addr) == [from |-> addr]
Replies == [code : Codes] \cup [from : Addresses]

\* "no reply yet".
NoReply == [none |-> TRUE]
=============================================================================
