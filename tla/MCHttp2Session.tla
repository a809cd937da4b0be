--------------------------- MODULE MCHttp2Session ---------------------------
(***************************************************************************)
(* Two streams; a request body of up to three pieces, so that one frame    *)
(* may be cut by the read buffer and another go before it; a reply of up   *)
(* to two, so that it may be cut by the client's window.                   *)
(***************************************************************************)
EXTENDS Http2Session

CONSTANTS i1, i2

MCStreams == {i1, i2}
MCOneStream == {i1}
=============================================================================
