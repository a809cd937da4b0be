--------------------------- MODULE MCProxyServer ---------------------------
(***************************************************************************)
(* Both ports, with two dispatches of the one and a session of the other:  *)
(* what clients are told who ask for the registration endpoint by another  *)
(* method than POST and DELETE, with or without a backend registered.      *)
(***************************************************************************)
EXTENDS ProxyServer

CONSTANTS d1, d2, s1

MCBackendIds == {"b1"}
MCAddresses == {"A"}
MCPatterns == {<<>>}
MCRegisterPath == <<"proxy", "register">>
MCTestPath == <<"test">>
MCPaths == {MCRegisterPath, MCTestPath}

MCOffered ==
    { [method |-> "POST", path |-> MCRegisterPath,
       body |-> [kind |-> "rule", id |-> "b1", rule |-> [addr |-> "A", pattern |-> <<>>]]],
      [method |-> "GET", path |-> MCRegisterPath, body |-> [kind |-> "junk"]] }

MCCalls == {d1, d2}
MCSessions == {s1}
=============================================================================
