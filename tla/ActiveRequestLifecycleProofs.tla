--------------------- MODULE ActiveRequestLifecycleProofs ---------------------
(***************************************************************************)
(* Theorems about the table of active requests under its public interface, *)
(* for any number of threads and requests.                                 *)
(***************************************************************************)
EXTENDS ActiveRequestLifecycle, TLAPS

\* An object draws its id before it is used, from below the counter, and no
\* other object has it.
IdsInv ==
    /\ \A s \in Sessions : phase[s] = "unborn" => request_id[s] = 0
    /\ \A s \in Sessions : phase[s] # "unborn" => request_id[s] \in 1 .. (next_request_id - 1)
    /\ IdsUnique

\* TableIsExact, with what is needed of the owner of an entry.
TableInv ==
    /\ \A id \in DOMAIN active_requests :
        /\ active_requests[id] \in Sessions
        /\ request_id[active_requests[id]] = id
        /\ phase[active_requests[id]] = "tracked"
    /\ \A s \in Sessions : phase[s] = "tracked" =>
        /\ request_id[s] \in DOMAIN active_requests
        /\ active_requests[request_id[s]] = s

Inv == LifecycleTypeOK /\ IdsInv /\ TableInv

-----------------------------------------------------------------------------

\* The manager starts with an empty table and a counter that is not 0.
LEMMA InitInv == LifecycleInit => Inv
  BY DEF LifecycleInit, ManagerInit, Inv, LifecycleTypeOK, IdsInv, IdsUnique, TableInv,
         RequestState, Phases

\* fetch_add gives every object an id of its own, whoever else is creating one.
LEMMA DrawInv ==
    ASSUME Inv, NEW s \in Sessions, Draw(s)
    PROVE  Inv'
  <1>. USE DEF Draw, Move, GenerateRequestId
  <1>1. LifecycleTypeOK'
    BY DEF Inv, LifecycleTypeOK, IdsInv, Phases
  <1>2. IdsInv'
    <2>1. ASSUME NEW t \in Sessions
          PROVE  /\ phase'[t] = "unborn" => request_id'[t] = 0
                 /\ phase'[t] # "unborn" => request_id'[t] \in 1 .. (next_request_id' - 1)
      BY DEF Inv, LifecycleTypeOK, IdsInv
    <2>2. IdsUnique'
      BY DEF Inv, LifecycleTypeOK, IdsInv, IdsUnique
    <2>. QED  BY <2>1, <2>2 DEF IdsInv
  <1>3. TableInv'
    BY DEF Inv, LifecycleTypeOK, TableInv
  <1>. QED  BY <1>1, <1>2, <1>3 DEF Inv

\* Inserting an object under its own id replaces no other entry.
LEMMA InsertInv ==
    ASSUME Inv, NEW s \in Sessions, Insert(s)
    PROVE  Inv'
  <1>. USE DEF Insert, Move, InsertRequest, WithRequest
  <1>1. LifecycleTypeOK'
    BY DEF Inv, LifecycleTypeOK, Phases
  <1>2. IdsInv'
    BY DEF Inv, LifecycleTypeOK, IdsInv, IdsUnique
  <1>3. request_id[s] \notin DOMAIN active_requests
    BY DEF Inv, IdsInv, IdsUnique, TableInv
  <1>4. TableInv'
    BY <1>3 DEF Inv, LifecycleTypeOK, TableInv
  <1>. QED  BY <1>1, <1>2, <1>4 DEF Inv

\* A report changes the object only.
LEMMA ProgressInv ==
    ASSUME Inv, NEW s \in Sessions, NEW newState \in RequestState, Progress(s, newState)
    PROVE  Inv'
  BY DEF Progress, SetState, Inv, LifecycleTypeOK, IdsInv, IdsUnique, TableInv

\* Completing a request takes its own entry out, or none when a cleanup or an
\* earlier completion already did.
LEMMA CompleteInv ==
    ASSUME Inv, NEW s \in Sessions, Complete(s)
    PROVE  Inv'
  <1>. USE DEF Complete, CompleteRequest, Restrict
  <1>1. LifecycleTypeOK'
    BY DEF Inv, LifecycleTypeOK, TableInv, Phases, RequestState
  <1>2. IdsInv'
    BY DEF Inv, LifecycleTypeOK, IdsInv, IdsUnique
  <1>3. TableInv'
    <2>1. ASSUME NEW id \in DOMAIN active_requests'
          PROVE  /\ id \in DOMAIN active_requests /\ id # request_id[s]
                 /\ active_requests'[id] = active_requests[id]
                 /\ active_requests[id] # s
      BY DEF Inv, TableInv
    <2>2. ASSUME NEW t \in Sessions, phase'[t] = "tracked"
          PROVE  /\ phase[t] = "tracked" /\ request_id[t] # request_id[s]
                 /\ request_id[t] \in DOMAIN active_requests'
                 /\ active_requests'[request_id[t]] = t
      <3>1. t # s /\ phase[t] = "tracked"
        BY <2>2 DEF Inv, LifecycleTypeOK
      <3>2. request_id[t] # request_id[s]
        BY <3>1 DEF Inv, IdsInv, IdsUnique
      <3>. QED  BY <3>1, <3>2 DEF Inv, TableInv
    <2>3. request_id' = request_id /\ \A t \in Sessions \ {s} : phase'[t] = phase[t]
      BY DEF Inv, LifecycleTypeOK
    <2>. QED  BY <2>1, <2>2, <2>3 DEF Inv, TableInv
  <1>. QED  BY <1>1, <1>2, <1>3 DEF Inv

\* A cleanup takes out the expired entries, and of those sessions only.
LEMMA CleanupInv ==
    ASSUME Inv, NEW expired \in SUBSET DOMAIN active_requests, Cleanup(expired)
    PROVE  Inv'
  <1>. USE DEF Cleanup, CleanupExpiredRequests, Restrict
  <1>1. LifecycleTypeOK'
    BY DEF Inv, LifecycleTypeOK, Phases, RequestState
  <1>2. ASSUME NEW s \in Sessions, \E id \in expired : active_requests[id] = s
        PROVE  phase[s] = "tracked"
    BY <1>2 DEF Inv, TableInv
  <1>3. IdsInv'
    BY <1>2 DEF Inv, LifecycleTypeOK, IdsInv, IdsUnique
  <1>4. TableInv'
    BY DEF Inv, LifecycleTypeOK, TableInv
  <1>. QED  BY <1>1, <1>3, <1>4 DEF Inv

\* The invariant holds in every state the manager reaches.
LEMMA Invariance == LifecycleSpec => []Inv
  <1>1. Inv /\ [LifecycleNext]_lifecycleVars => Inv'
    <2>. SUFFICES ASSUME Inv, [LifecycleNext]_lifecycleVars
                  PROVE  Inv'
      OBVIOUS
    <2>1. CASE UNCHANGED lifecycleVars
      BY <2>1 DEF lifecycleVars, Inv, LifecycleTypeOK, IdsInv, IdsUnique, TableInv
    <2>. QED
      BY <2>1, DrawInv, InsertInv, ProgressInv, CompleteInv, CleanupInv DEF LifecycleNext
  <1>. QED  BY <1>1, InitInv, PTL DEF LifecycleSpec

-----------------------------------------------------------------------------

\* The counter, the ids and the states keep their types, and 0 stays "no id".
THEOREM LifecycleTypeCorrect == LifecycleSpec => []LifecycleTypeOK
  <1>1. Inv => LifecycleTypeOK
    BY DEF Inv
  <1>. QED  BY <1>1, Invariance, PTL

\* No two requests ever share an id, however many threads create them at once.
THEOREM IdsNeverShared == LifecycleSpec => []IdsUnique
  <1>1. Inv => IdsUnique
    BY DEF Inv, IdsInv
  <1>. QED  BY <1>1, Invariance, PTL

\* The table holds exactly the requests in use, whatever the interleaving of
\* their creation, their completion and the cleanups.
THEOREM TableNeverLies == LifecycleSpec => []TableIsExact
  <1>1. Inv => TableIsExact
    BY DEF Inv, TableInv, TableIsExact
  <1>. QED  BY <1>1, Invariance, PTL
=============================================================================
