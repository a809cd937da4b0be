--------------------------- MODULE MCServerProcess ---------------------------
(***************************************************************************)
(* Two threads and two connections, one of which may forward a request:    *)
(* enough for two threads to meet in a session, for one client to block    *)
(* them both, and for one that is blocked to leave the other running.      *)
(***************************************************************************)
EXTENDS ServerProcess

CONSTANTS t1, t2

MCThreads == {t1, t2}

\* Threads are interchangeable: the signal comes to t1.  Sessions are as well, but
\* that only the first forwards, and over TLS it is alone.
InOrder ==
    /\ signal'.thread # t2
    /\ 2 \in born' => 1 \in born' /\ ~use_ssl
    /\ Reply(2, 1) \notin armed'

MCFairSpec == Init /\ [][Next /\ InOrder]_vars /\ Fairness
=============================================================================
