----------------------- MODULE BackendRegistryProofs -----------------------
(***************************************************************************)
(* Type correctness of the registry, and what its two operations do to the *)
(* table, for the proofs of the modules that use it.                       *)
(***************************************************************************)
EXTENDS BackendRegistry, FiniteSetTheorems, FunctionTheorems, TLAPS

\* An iteration order speaks of the keys it was made for, and of nothing else:
\* whatever order a rehash of backends_ leaves, no other key appears in it.
LEMMA OrdersWithinKeys ==
    ASSUME NEW keys, NEW order \in IterationOrders(keys)
    PROVE  order \subseteq keys \X keys
  <1>1. PICK seq \in SetToSeqs(keys) :
            order = {<<seq[p[1]], seq[p[2]]>> :
                        p \in {q \in (DOMAIN seq) \X (DOMAIN seq) : q[1] < q[2]}}
    BY DEF IterationOrders
  <1>2. seq \in [DOMAIN seq -> keys]
    BY DEF SetToSeqs
  <1>. QED  BY <1>1, <1>2

\* register_backend leaves a well-formed table, with the rule under its id and
\* the other entries as they were.
LEMMA RegisterBackendType ==
    ASSUME RegistryTypeOK, NEW id \in BackendIds, NEW rule \in Rules,
           RegisterBackend(id, rule)
    PROVE  /\ RegistryTypeOK'
           /\ DOMAIN backends' = DOMAIN backends \cup {id}
           /\ backends'[id] = rule
           /\ \A i \in DOMAIN backends \ {id} : backends'[i] = backends[i]
  <1>1. /\ DOMAIN backends' = DOMAIN backends \cup {id}
        /\ backends'[id] = rule
        /\ \A i \in DOMAIN backends \ {id} : backends'[i] = backends[i]
    BY DEF RegisterBackend
  <1>2. before' \subseteq (DOMAIN backends') \X (DOMAIN backends')
    <2>1. CASE id \in DOMAIN backends
      BY <1>1, <2>1 DEF RegisterBackend, RegistryTypeOK
    <2>2. CASE id \notin DOMAIN backends
      BY <2>2, OrdersWithinKeys DEF RegisterBackend
    <2>. QED  BY <2>1, <2>2
  <1>. QED  BY <1>1, <1>2 DEF RegistryTypeOK

\* unregister_backend leaves a well-formed table, without the id and with the
\* other entries as they were.
LEMMA UnregisterBackendType ==
    ASSUME RegistryTypeOK, NEW id \in BackendIds, UnregisterBackend(id)
    PROVE  /\ RegistryTypeOK'
           /\ DOMAIN backends' = DOMAIN backends \ {id}
           /\ \A i \in DOMAIN backends \ {id} : backends'[i] = backends[i]
  <1>1. /\ DOMAIN backends' = DOMAIN backends \ {id}
        /\ \A i \in DOMAIN backends \ {id} : backends'[i] = backends[i]
    BY DEF UnregisterBackend, Restrict
  <1>2. before' \subseteq (DOMAIN backends') \X (DOMAIN backends')
    BY <1>1 DEF UnregisterBackend, RegistryTypeOK
  <1>. QED  BY <1>1, <1>2 DEF RegistryTypeOK

\* The table of rules stays well-formed under every sequence of registrations
\* and removals.
THEOREM RegistryTypeCorrect == RegistrySpec => []RegistryTypeOK
  <1>1. RegistryInit => RegistryTypeOK
    BY DEF RegistryInit, RegistryTypeOK
  <1>2. RegistryTypeOK /\ [RegistryNext]_registryVars => RegistryTypeOK'
    <2>1. CASE UNCHANGED registryVars
      BY <2>1 DEF registryVars, RegistryTypeOK
    <2>2. ASSUME RegistryTypeOK, NEW id \in BackendIds, NEW rule \in Rules,
                 RegisterBackend(id, rule)
          PROVE  RegistryTypeOK'
      BY <2>2, RegisterBackendType
    <2>3. ASSUME RegistryTypeOK, NEW id \in BackendIds, UnregisterBackend(id)
          PROVE  RegistryTypeOK'
      BY <2>3, UnregisterBackendType
    <2>. QED  BY <2>1, <2>2, <2>3 DEF RegistryNext
  <1>. QED  BY <1>1, <1>2, PTL DEF RegistrySpec

-----------------------------------------------------------------------------

\* Every operation that inserts nothing keeps the order of what it leaves.
LEMMA OrderStays ==
    ASSUME RegistryTypeOK, [RegistryNext]_registryVars,
           DOMAIN backends' \subseteq DOMAIN backends,
           NEW id \in DOMAIN backends', NEW other \in DOMAIN backends',
           <<id, other>> \in before
    PROVE  <<id, other>> \in before'
  <1>1. CASE UNCHANGED registryVars
    BY <1>1 DEF registryVars
  <1>2. ASSUME NEW key \in BackendIds, NEW rule \in Rules, RegisterBackend(key, rule)
        PROVE  before' = before
    <2>1. key \in DOMAIN backends'
      BY <1>2 DEF RegisterBackend
    <2>. QED  BY <1>2, <2>1 DEF RegisterBackend
  <1>3. ASSUME NEW key \in BackendIds, UnregisterBackend(key)
        PROVE  <<id, other>> \in before'
    <2>1. id # key /\ other # key
      BY <1>3 DEF UnregisterBackend, Restrict
    <2>. QED  BY <1>3, <2>1 DEF UnregisterBackend
  <1>. QED  BY <1>1, <1>2, <1>3 DEF RegistryNext

\* Removing or re-registering other backends never diverts a path, whatever the
\* table, the patterns and the order of the rules.
THEOREM RoutingNeverDiverts == RegistrySpec => RoutingIsSticky
  <1>1. RegistryTypeOK /\ [RegistryNext]_registryVars => [StickyStep]_registryVars
    <2>. SUFFICES ASSUME RegistryTypeOK, [RegistryNext]_registryVars,
                         NEW path \in Paths, NEW id \in BackendIds,
                         ServedBy(path, id),
                         DOMAIN backends' \subseteq DOMAIN backends,
                         Hits(path)' \subseteq Hits(path),
                         id \in Hits(path)',
                         NEW other \in Hits(path)' \ {id}
                  PROVE  <<id, other>> \in before'
      BY DEF StickyStep, KeepsServing, ServedBy
    <2>1. <<id, other>> \in before
      BY DEF ServedBy
    <2>2. id \in DOMAIN backends' /\ other \in DOMAIN backends'
      BY DEF Hits
    <2>. QED  BY <2>1, <2>2, OrderStays
  <1>. QED  BY <1>1, RegistryTypeCorrect, PTL DEF RegistrySpec, RoutingIsSticky

-----------------------------------------------------------------------------

\* Of the keys the loop of find_backend may stop at there is always a first, and
\* no two are each before the other.
OrderInv ==
    /\ IsFiniteSet(DOMAIN backends)
    /\ \A i, j \in DOMAIN backends : ~(<<i, j>> \in before /\ <<j, i>> \in before)
    /\ \A S \in SUBSET DOMAIN backends : S # {} =>
            \E i \in S : \A j \in S \ {i} : <<i, j>> \in before

\* The positions of a table are numbers: some of them is the first.
LEMMA FirstPosition ==
    ASSUME NEW positions \in SUBSET Nat, positions # {}
    PROVE  \E p \in positions : \A q \in positions : p <= q
  <1>1. IsWellFoundedOn({ss \in Nat \X Nat : ss[1] < ss[2]}, Nat)
    BY NatLessThanWellFounded DEF OpToRel
  <1>2. PICK p \in positions : \A q \in positions :
            <<q, p>> \notin {ss \in Nat \X Nat : ss[1] < ss[2]}
    BY <1>1, WFMin
  <1>3. \A q \in positions : ~(q < p)
    BY <1>2
  <1>. QED  BY <1>3

\* Whatever order a rehash leaves, it is one: each key is in it once.
LEMMA OrdersAreTotal ==
    ASSUME NEW keys, IsFiniteSet(keys), NEW order \in IterationOrders(keys)
    PROVE  /\ \A i, j \in keys : ~(<<i, j>> \in order /\ <<j, i>> \in order)
           /\ \A S \in SUBSET keys : S # {} =>
                \E i \in S : \A j \in S \ {i} : <<i, j>> \in order
  <1>. DEFINE D == 1 .. Cardinality(keys)
  <1>1. PICK seq \in SetToSeqs(keys) :
            order = {<<seq[p[1]], seq[p[2]]>> :
                        p \in {q \in (DOMAIN seq) \X (DOMAIN seq) : q[1] < q[2]}}
    BY DEF IterationOrders
  <1>2. seq \in [D -> keys] /\ \A a, b \in D : a # b => seq[a] # seq[b]
    BY DEF SetToSeqs
  <1>3. Cardinality(keys) \in Nat /\ IsFiniteSet(D) /\ Cardinality(D) = Cardinality(keys)
    BY FS_CardinalityType, FS_Interval
  <1>4. \A key \in keys : \E a \in D : seq[a] = key
    <2>1. seq \in Injection(D, keys)
      BY <1>2, Fun_IsInj
    <2>2. seq \in Surjection(D, keys)
      BY <1>3, <2>1, FS_Injection
    <2>. QED  BY <2>2 DEF Surjection
  <1>5. \A a, b \in D : a < b <=> <<seq[a], seq[b]>> \in order
    <2>1. ASSUME NEW a \in D, NEW b \in D, a < b
          PROVE  <<seq[a], seq[b]>> \in order
      <3>1. <<a, b>> \in {q \in (DOMAIN seq) \X (DOMAIN seq) : q[1] < q[2]}
        BY <1>2, <2>1
      <3>. QED  BY <1>1, <3>1
    <2>2. ASSUME NEW a \in D, NEW b \in D, <<seq[a], seq[b]>> \in order
          PROVE  a < b
      <3>1. PICK p \in {q \in (DOMAIN seq) \X (DOMAIN seq) : q[1] < q[2]} :
                <<seq[a], seq[b]>> = <<seq[p[1]], seq[p[2]]>>
        BY <1>1, <2>2
      <3>2. p[1] \in D /\ p[2] \in D /\ p[1] < p[2]
        BY <1>2, <3>1
      <3>3. p[1] = a /\ p[2] = b
        BY <1>2, <3>1, <3>2
      <3>. QED  BY <3>2, <3>3
    <2>. QED  BY <2>1, <2>2
  <1>6. ASSUME NEW i \in keys, NEW j \in keys, <<i, j>> \in order, <<j, i>> \in order
        PROVE  FALSE
    <2>1. PICK a \in D, b \in D : seq[a] = i /\ seq[b] = j
      BY <1>4
    <2>2. a < b /\ b < a
      BY <1>5, <1>6, <2>1
    <2>. QED  BY <1>3, <2>2
  <1>7. ASSUME NEW S \in SUBSET keys, S # {}
        PROVE  \E i \in S : \A j \in S \ {i} : <<i, j>> \in order
    <2>. DEFINE positions == {a \in D : seq[a] \in S}
    <2>1. positions \in SUBSET Nat /\ positions # {}
      BY <1>3, <1>4, <1>7
    <2>2. PICK a \in positions : \A b \in positions : a <= b
      BY <2>1, FirstPosition
    <2>3. ASSUME NEW j \in S \ {seq[a]}
          PROVE  <<seq[a], j>> \in order
      <3>1. PICK b \in positions : seq[b] = j
        BY <1>4
      <3>2. a < b
        BY <1>3, <2>2, <2>3, <3>1
      <3>. QED  BY <1>5, <3>1, <3>2
    <2>. QED  BY <2>3
  <1>. QED  BY <1>6, <1>7

\* Registering keeps the order total: the inserted rule has one place among the
\* others.
LEMMA RegisterOrder ==
    ASSUME RegistryTypeOK, OrderInv, NEW id \in BackendIds, NEW rule \in Rules,
           RegisterBackend(id, rule)
    PROVE  OrderInv'
  <1>1. DOMAIN backends' = DOMAIN backends \cup {id}
    BY DEF RegisterBackend
  <1>2. CASE id \in DOMAIN backends
    <2>1. before' = before /\ DOMAIN backends' = DOMAIN backends
      BY <1>1, <1>2 DEF RegisterBackend
    <2>. QED  BY <2>1 DEF OrderInv
  <1>3. CASE id \notin DOMAIN backends
    <2>1. before' \in IterationOrders(DOMAIN backends')
      BY <1>3 DEF RegisterBackend
    <2>2. IsFiniteSet(DOMAIN backends')
      BY <1>1, FS_AddElement DEF OrderInv
    <2>. QED  BY <2>1, <2>2, OrdersAreTotal DEF OrderInv
  <1>. QED  BY <1>2, <1>3

\* Removing keeps the order total on what is left.
LEMMA UnregisterOrder ==
    ASSUME RegistryTypeOK, OrderInv, NEW id \in BackendIds, UnregisterBackend(id)
    PROVE  OrderInv'
  <1>1. /\ DOMAIN backends' = DOMAIN backends \ {id}
        /\ before' = {pair \in before : pair[1] # id /\ pair[2] # id}
    BY DEF UnregisterBackend, Restrict
  <1>2. IsFiniteSet(DOMAIN backends')
    BY <1>1, FS_RemoveElement DEF OrderInv
  <1>3. \A i, j \in DOMAIN backends' : <<i, j>> \in before' <=> <<i, j>> \in before
    BY <1>1
  <1>4. \A S \in SUBSET DOMAIN backends' : S # {} =>
            \E i \in S : \A j \in S \ {i} : <<i, j>> \in before'
    BY <1>1, <1>3 DEF OrderInv
  <1>. QED  BY <1>1, <1>2, <1>3, <1>4 DEF OrderInv

\* The order of the table stays one through registrations and removals.
LEMMA OrderStaysTotal == RegistrySpec => []OrderInv
  <1>1. RegistryInit => OrderInv
    BY FS_EmptySet DEF RegistryInit, OrderInv
  <1>2. RegistryTypeOK /\ OrderInv /\ [RegistryNext]_registryVars => OrderInv'
    <2>1. CASE UNCHANGED registryVars
      BY <2>1 DEF registryVars, OrderInv
    <2>. QED  BY <2>1, RegisterOrder, UnregisterOrder DEF RegistryNext
  <1>. QED  BY <1>1, <1>2, RegistryTypeCorrect, PTL DEF RegistrySpec

\* The first of the backends that match a path, in the order of the table, is one
\* backend: so ServedBy singles one out.
ServedByExactlyOne ==
    \A path \in Paths :
        Hits(path) # {} =>
            \E id \in Hits(path) :
                \A other \in Hits(path) : ServedBy(path, other) <=> other = id

\* It does, since the order of the table stays total on its keys.
LEMMA RoutingIsAFunction == RegistrySpec => []ServedByExactlyOne
  <1>1. OrderInv => ServedByExactlyOne
    <2>. SUFFICES ASSUME OrderInv, NEW path \in Paths, Hits(path) # {}
                  PROVE  \E id \in Hits(path) :
                            \A other \in Hits(path) : ServedBy(path, other) <=> other = id
      BY DEF ServedByExactlyOne
    <2>1. Hits(path) \in SUBSET DOMAIN backends
      BY DEF Hits
    <2>2. PICK id \in Hits(path) : \A j \in Hits(path) \ {id} : <<id, j>> \in before
      BY <2>1 DEF OrderInv
    <2>3. ServedBy(path, id)
      BY <2>2 DEF ServedBy
    <2>4. ASSUME NEW other \in Hits(path), ServedBy(path, other)
          PROVE  other = id
      BY <2>1, <2>2, <2>4 DEF ServedBy, OrderInv
    <2>. QED  BY <2>3, <2>4
  <1>. QED  BY <1>1, OrderStaysTotal, PTL

\* find_backend gives one answer for each path: the rule of a backend that matches
\* it, or none.
LookupIsAFunction ==
    \A path \in Paths :
        \E found \in Rules \cup {NoRule} : \A rule : Finds(path, rule) <=> rule = found

\* A path that is served by exactly one backend finds the rule of that backend, and
\* a path without a hit finds none.
LEMMA LookupFinds ==
    ASSUME RegistryTypeOK, ServedByExactlyOne
    PROVE  LookupIsAFunction
  <1>. SUFFICES ASSUME NEW path \in Paths
                PROVE  \E found \in Rules \cup {NoRule} : \A rule : Finds(path, rule) <=> rule = found
    BY DEF LookupIsAFunction
  <1>1. CASE Hits(path) = {}
    <2>1. \A rule : Finds(path, rule) <=> rule = NoRule
      BY <1>1 DEF Finds, ServedBy
    <2>. QED  BY <2>1
  <1>2. CASE Hits(path) # {}
    <2>1. PICK id \in Hits(path) : \A other \in Hits(path) : ServedBy(path, other) <=> other = id
      BY <1>2 DEF ServedByExactlyOne
    <2>2. id \in DOMAIN backends /\ backends[id] \in Rules
      BY DEF Hits, RegistryTypeOK
    <2>3. \A other : ServedBy(path, other) <=> other = id
      BY <2>1 DEF ServedBy
    <2>4. \A rule : Finds(path, rule) <=> rule = backends[id]
      BY <1>2, <2>2, <2>3 DEF Finds
    <2>. QED  BY <2>2, <2>4
  <1>. QED  BY <1>1, <1>2

\* So Finds gives every path one answer: a fact about the definitions of the lookup,
\* for the proofs that follow a request from the table to its backend.
LEMMA LookupsAreDeterministic == RegistrySpec => []LookupIsAFunction
  BY RegistryTypeCorrect, RoutingIsAFunction, LookupFinds, PTL
=============================================================================
