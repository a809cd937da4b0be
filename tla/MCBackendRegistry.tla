------------------------- MODULE MCBackendRegistry -------------------------
(***************************************************************************)
(* Three backends at one address, with the overlapping patterns "/", "/a"  *)
(* and "/a/b".                                                             *)
(***************************************************************************)
EXTENDS BackendRegistry

CONSTANTS b1, b2, b3

MCBackendIds == {b1, b2, b3}
MCAddresses == {"A"}
MCPatterns == {<<>>, <<"a">>, <<"a", "b">>}
MCRegisterPath == <<"proxy", "register">>
MCTestPath == <<"test">>
MCPaths == {MCRegisterPath, MCTestPath, <<"a">>, <<"a", "b">>}
=============================================================================
