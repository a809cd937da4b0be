---------------------------- MODULE MCHttp1Proxy ----------------------------
(***************************************************************************)
(* Two backends at two addresses; "/" overlaps "/a".  The clients register *)
(* both, move b1 to another rule, remove b1, send illegible registrations, *)
(* and ask for a registered path, an unregistered one and - a legal        *)
(* request that is no registration - GET /proxy/register.                  *)
(***************************************************************************)
EXTENDS Http1Proxy

CONSTANTS s1, s2, s3

MCBackendIds == {"b1", "b2"}
MCAddresses == {"A", "B"}
MCPatterns == {<<>>, <<"a">>}
MCRegisterPath == <<"proxy", "register">>
MCTestPath == <<"test">>
MCPaths == {MCRegisterPath, MCTestPath, <<"a", "x">>}

Rule(id, addr, pattern) ==
    [kind |-> "rule", id |-> id, rule |-> [addr |-> addr, pattern |-> pattern]]
Id(id) == [kind |-> "id", id |-> id]
Junk == [kind |-> "junk"]
Req(method, path, body) == [method |-> method, path |-> path, body |-> body]

Registrations ==
    { Req("POST", MCRegisterPath, Rule("b1", "A", <<"a">>)),
      Req("POST", MCRegisterPath, Rule("b1", "B", <<>>)),
      Req("POST", MCRegisterPath, Rule("b2", "B", <<>>)),
      Req("POST", MCRegisterPath, Id("b1")),
      Req("DELETE", MCRegisterPath, Id("b1")),
      Req("DELETE", MCRegisterPath, Junk) }

MCOffered ==
    Registrations \cup { Req("GET", MCRegisterPath, Junk),
                         Req("GET", <<"a", "x">>, Junk) }

MCThree == {s1, s2, s3}
MCTwo == {s1, s2}

\* Sessions are interchangeable, so let them be accepted in one order: what
\* SYMMETRY does where liveness is not checked.
InOrder ==
    /\ pc'[s2] # "unborn" => pc'[s1] # "unborn"
    /\ pc'[s3] # "unborn" => pc'[s2] # "unborn"

MCFairSpec == Init /\ [][Next /\ InOrder]_vars /\ Fairness
=============================================================================
