----------------------- MODULE ActiveRequestLifecycle -----------------------
(***************************************************************************)
(* The manager under its public interface: several threads create and      *)
(* complete requests while another one runs cleanup_expired_requests.      *)
(* (The server itself never calls the cleanup; Http1Proxy has the calls it *)
(* does make.)                                                             *)
(***************************************************************************)
EXTENDS ActiveRequestManager

VARIABLE phase      \* where each session is in the use of its request

lifecycleVars == <<next_request_id, request_id, state, active_requests, phase>>

Phases == {"unborn", "drawn", "tracked", "dropped"}

LifecycleInit ==
    /\ ManagerInit
    /\ phase = [s \in Sessions |-> "unborn"]

Move(s, from, to) ==
    /\ phase[s] = from
    /\ phase' = [phase EXCEPT ![s] = to]

Draw(s) == Move(s, "unborn", "drawn") /\ GenerateRequestId(s)

Insert(s) == Move(s, "drawn", "tracked") /\ InsertRequest(s) /\ UNCHANGED state

\* The owner reports progress whether or not a cleanup took its request out.
Progress(s, newState) ==
    /\ phase[s] \in {"tracked", "dropped"}
    /\ SetState(s, newState)
    /\ UNCHANGED phase

\* The owner is done: complete_request, possibly a second time or after a
\* cleanup.
Complete(s) ==
    /\ phase[s] \in {"tracked", "dropped"}
    /\ CompleteRequest(request_id[s])
    /\ phase' = [phase EXCEPT ![s] = "dropped"]

Cleanup(expired) ==
    /\ CleanupExpiredRequests(expired)
    /\ phase' = [s \in Sessions |->
                    IF \E id \in expired : active_requests[id] = s
                    THEN "dropped" ELSE phase[s]]

LifecycleNext ==
    \/ \E s \in Sessions :
        \/ Draw(s)
        \/ Insert(s)
        \/ \E newState \in RequestState : Progress(s, newState)
        \/ Complete(s)
    \/ \E expired \in SUBSET DOMAIN active_requests : Cleanup(expired)

LifecycleSpec == LifecycleInit /\ [][LifecycleNext]_lifecycleVars

-----------------------------------------------------------------------------

LifecycleTypeOK ==
    /\ next_request_id \in Nat \ {0}
    /\ request_id \in [Sessions -> Nat]
    /\ state \in [Sessions -> RequestState]
    /\ phase \in [Sessions -> Phases]

\* No two objects are ever given the same id, even when their creations
\* interleave between the counter and the lock: otherwise one would replace
\* the other in the table.
IdsUnique ==
    \A s, t \in Sessions :
        request_id[s] # 0 /\ request_id[s] = request_id[t] => s = t

\* The table holds exactly the requests that were inserted and not yet
\* completed or cleaned up, each under its own id: nothing is lost, nothing
\* comes back, whatever the interleaving of creation, completion and cleanup.
TableIsExact ==
    /\ \A id \in DOMAIN active_requests :
        \E s \in Sessions : phase[s] = "tracked" /\ request_id[s] = id
    /\ \A s \in Sessions :
        phase[s] = "tracked" =>
            /\ request_id[s] \in DOMAIN active_requests
            /\ active_requests[request_id[s]] = s
=============================================================================
