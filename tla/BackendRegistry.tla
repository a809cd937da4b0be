-------------------------- MODULE BackendRegistry --------------------------
(***************************************************************************)
(* BackendRegistry of transport/proxy_handler: the one table of forwarding *)
(* rules that the HTTP/2 and the HTTP/1.1 front end share.  Each method    *)
(* holds mutex_ for its whole body, so each is one atomic step.            *)
(*                                                                         *)
(* backends_ is an unordered_map: a lookup takes the FIRST rule, in the    *)
(* iteration order of the table, whose pattern begins the path, not the    *)
(* longest one.  The iteration order is kept in "before".  Inserting a new *)
(* key may rehash and leave any order; assigning to a key that is present  *)
(* and erasing a key keep the relative order of the others.                *)
(***************************************************************************)
EXTENDS ProxyRequests

VARIABLES
    backends,   \* backends_: a partial function from BackendIds to Rules
    before      \* iteration order of backends_: <<i, j>> iff i comes first

registryVars == <<backends, before>>

-----------------------------------------------------------------------------

\* The iteration orders a table with these keys can have.
IterationOrders(keys) ==
    { {<<seq[p[1]], seq[p[2]]>> : p \in {q \in (DOMAIN seq) \X (DOMAIN seq) : q[1] < q[2]}} :
        seq \in SetToSeqs(keys) }

\* The backends whose pattern begins the path.
Hits(path) == {id \in DOMAIN backends : IsPrefix(backends[id].pattern, path)}

\* The loop of find_backend stops at this backend.
ServedBy(path, id) ==
    /\ id \in Hits(path)
    /\ \A other \in Hits(path) \ {id} : <<id, other>> \in before

\* find_backend(path) returns this rule.
Finds(path, rule) ==
    \/ Hits(path) = {} /\ rule = NoRule
    \/ \E id \in DOMAIN backends : ServedBy(path, id) /\ rule = backends[id]

-----------------------------------------------------------------------------

RegistryInit == backends = <<>> /\ before = {}

\* Mutant of RegisterBackend: the rule is stored under its address, not under the id.
RegisterUnderAddress(id, rule) ==
    /\ backends' = [i \in DOMAIN backends \cup {rule.addr} |->
                        IF i = rule.addr THEN rule ELSE backends[i]]
    /\ IF rule.addr \in DOMAIN backends
       THEN before' = before
       ELSE before' \in IterationOrders(DOMAIN backends')

RegisterBackend(id, rule) ==
    /\ backends' = [i \in DOMAIN backends \cup {id} |->
                        IF i = id THEN rule ELSE backends[i]]
    /\ IF id \in DOMAIN backends
       THEN before' = before
       ELSE before' \in IterationOrders(DOMAIN backends')

\* Mutant of UnregisterBackend: erasing rehashes what is left.
UnregisterRehashes(id) ==
    /\ backends' = Restrict(backends, DOMAIN backends \ {id})
    /\ before' \in IterationOrders(DOMAIN backends')

UnregisterBackend(id) ==
    /\ backends' = Restrict(backends, DOMAIN backends \ {id})
    /\ before' = {pair \in before : pair[1] # id /\ pair[2] # id}

RegistryNext ==
    \E id \in BackendIds :
        \/ \E rule \in Rules : RegisterBackend(id, rule)
        \/ UnregisterBackend(id)

RegistrySpec == RegistryInit /\ [][RegistryNext]_registryVars

-----------------------------------------------------------------------------

\* The table maps backend ids to rules, and the order speaks of its keys only.
RegistryTypeOK ==
    /\ DOMAIN backends \subseteq BackendIds
    /\ \A id \in DOMAIN backends : backends[id] \in Rules
    /\ before \subseteq (DOMAIN backends) \X (DOMAIN backends)

\* If no new backend is inserted and the path gets no new hit, the backend that
\* serves it and still matches it goes on serving it.
KeepsServing(path, id) ==
    /\ ServedBy(path, id)
    /\ DOMAIN backends' \subseteq DOMAIN backends
    /\ Hits(path)' \subseteq Hits(path)
    /\ id \in Hits(path)'
    => ServedBy(path, id)'

StickyStep == \A path \in Paths, id \in BackendIds : KeepsServing(path, id)

\* As long as no new backend is inserted, the backend that serves a path goes
\* on serving it until it is itself removed or given another pattern: removing
\* or re-registering some OTHER backend never diverts the path, even when the
\* patterns overlap.
RoutingIsSticky == [][StickyStep]_registryVars
=============================================================================
