------------------------------ MODULE Exchange ------------------------------
(***************************************************************************)
(* What every request-carrying component of the proxy promises: an         *)
(* exchange is opened once, gets at most one answer, and ends with the     *)
(* answer or without one; an ended exchange never changes again.           *)
(***************************************************************************)
EXTENDS Sequences

CONSTANTS
    Exchanges,
    Answers

VARIABLES
    phase,      \* "idle", "open" or "closed", for each exchange
    answers     \* the answers given so far, for each exchange

exchangeVars == <<phase, answers>>

Init ==
    /\ phase = [e \in Exchanges |-> "idle"]
    /\ answers = [e \in Exchanges |-> <<>>]

Open(e) ==
    /\ phase[e] = "idle"
    /\ phase' = [phase EXCEPT ![e] = "open"]
    /\ UNCHANGED answers

\* The answer, which may come in the very step that opens the exchange.
Answer(e, a) ==
    /\ phase[e] \in {"idle", "open"}
    /\ phase' = [phase EXCEPT ![e] = "closed"]
    /\ answers' = [answers EXCEPT ![e] = <<a>>]

\* The party that should answer, or be answered, is gone; one failure may end
\* several exchanges.
Abort(ended) ==
    /\ \A e \in ended : phase[e] = "open"
    /\ phase' = [e \in Exchanges |-> IF e \in ended THEN "closed" ELSE phase[e]]
    /\ UNCHANGED answers

Next ==
    \/ \E e \in Exchanges :
        \/ Open(e)
        \/ \E a \in Answers : Answer(e, a)
    \/ \E ended \in SUBSET Exchanges : Abort(ended)

Spec == Init /\ [][Next]_exchangeVars
=============================================================================
