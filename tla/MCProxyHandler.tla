--------------------------- MODULE MCProxyHandler ---------------------------
(***************************************************************************)
(* Two backends at two addresses, "/" overlapping "/a".  The requests use  *)
(* every route: registrations that are whole, incomplete or illegible, by  *)
(* the exact path and by a longer one; methods that are not allowed; the   *)
(* test route with the right and the wrong method; a path to forward.      *)
(* Three dispatches: two that register, or one that registers and one that *)
(* removes, and one that is forwarded meanwhile.                           *)
(***************************************************************************)
EXTENDS ProxyHandler

CONSTANTS d1, d2, d3

MCBackendIds == {"b1", "b2"}
MCAddresses == {"A", "B"}
MCPatterns == {<<>>, <<"a">>}
MCRegisterPath == <<"proxy", "register">>
MCTestPath == <<"test">>
MCLongPath == <<"proxy", "register", "x">>
MCPaths == {MCRegisterPath, MCTestPath, MCLongPath, <<"a", "x">>}

Rule(id, addr, pattern) ==
    [kind |-> "rule", id |-> id, rule |-> [addr |-> addr, pattern |-> pattern]]
Id(id) == [kind |-> "id", id |-> id]
Junk == [kind |-> "junk"]
Req(method, path, body) == [method |-> method, path |-> path, body |-> body]

MCOffered ==
    { Req("POST", MCRegisterPath, Rule("b1", "A", <<"a">>)),
      Req("POST", MCLongPath, Rule("b1", "B", <<>>)),
      Req("POST", MCRegisterPath, Rule("b2", "B", <<>>)),
      Req("POST", MCRegisterPath, Id("b1")),
      Req("DELETE", MCRegisterPath, Id("b1")),
      Req("DELETE", MCLongPath, Junk),
      Req("GET", MCRegisterPath, Junk),
      Req("GET", MCLongPath, Id("b1")),
      Req("GET", MCTestPath, Junk),
      Req("POST", MCTestPath, Junk),
      Req("GET", <<"a", "x">>, Junk) }

MCThree == {d1, d2, d3}
=============================================================================
