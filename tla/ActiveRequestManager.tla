------------------------ MODULE ActiveRequestManager ------------------------
(***************************************************************************)
(* ActiveRequest and ActiveRequestManager of transport/active_request: the *)
(* table of the HTTP/1.1 requests in progress.  A session owns one         *)
(* ActiveRequest object, shared with the table, so both are named by the   *)
(* session.  The id is drawn from an atomic counter BEFORE mutex_ is       *)
(* taken, hence create_request is two steps; every other method holds      *)
(* mutex_ for its whole body and is one step.                              *)
(*                                                                         *)
(* The clock behind cleanup_expired_requests is abstracted: any of the     *)
(* requests in the table may be the ones older than 30 seconds.            *)
(***************************************************************************)
EXTENDS Naturals, FiniteSets, Functions

CONSTANT Sessions       \* the sessions, each with one ActiveRequest

RequestState == {"Created", "Parsing", "Forwarding", "WaitingBackend",
                 "SendingResponse", "Completed", "Failed"}

VARIABLES
    next_request_id,    \* next_request_id_: the atomic counter
    request_id,         \* request_id_ of each object; 0 before its constructor
    state,              \* state_ of each object
    active_requests     \* active_requests_: request id -> session

managerVars == <<next_request_id, request_id, state, active_requests>>

-----------------------------------------------------------------------------

\* Mutant of ManagerInit: the counter starts at 0.
ManagerInitAtZero ==
    /\ next_request_id = 0
    /\ request_id = [s \in Sessions |-> 0]
    /\ state = [s \in Sessions |-> "Created"]
    /\ active_requests = <<>>

ManagerInit ==
    /\ next_request_id = 1
    /\ request_id = [s \in Sessions |-> 0]
    /\ state = [s \in Sessions |-> "Created"]
    /\ active_requests = <<>>

\* Mutant of GenerateRequestId: the id is derived from the table's size.
GenerateIdFromTable(s) ==
    /\ request_id[s] = 0
    /\ request_id' = [request_id EXCEPT ![s] = Cardinality(DOMAIN active_requests) + 1]
    /\ next_request_id' = next_request_id + 1
    /\ UNCHANGED <<state, active_requests>>

\* create_request, up to the lock: fetch_add and the object's constructor.
GenerateRequestId(s) ==
    /\ request_id[s] = 0
    /\ request_id' = [request_id EXCEPT ![s] = next_request_id]
    /\ next_request_id' = next_request_id + 1
    /\ UNCHANGED <<state, active_requests>>

\* active_requests_[id] = request, as a value.
WithRequest(s) ==
    [id \in DOMAIN active_requests \cup {request_id[s]} |->
        IF id = request_id[s] THEN s ELSE active_requests[id]]

\* create_request, under the lock; the object's state is set by its caller.
InsertRequest(s) ==
    /\ active_requests' = WithRequest(s)
    /\ UNCHANGED <<next_request_id, request_id>>

SetState(s, newState) ==
    /\ state' = [state EXCEPT ![s] = newState]
    /\ UNCHANGED <<next_request_id, request_id, active_requests>>

\* complete_request(id): an unknown id changes nothing.
CompleteRequest(id) ==
    /\ IF id \in DOMAIN active_requests
       THEN /\ state' = [state EXCEPT ![active_requests[id]] = "Completed"]
            /\ active_requests' = Restrict(active_requests, DOMAIN active_requests \ {id})
       ELSE UNCHANGED <<state, active_requests>>
    /\ UNCHANGED <<next_request_id, request_id>>

\* Mutant of CleanupExpiredRequests: failed requests are not erased.
CleanupKeepsEntries(expired) ==
    /\ state' = [s \in Sessions |->
                    IF \E id \in expired : active_requests[id] = s
                    THEN "Failed" ELSE state[s]]
    /\ UNCHANGED <<next_request_id, request_id, active_requests>>

CleanupExpiredRequests(expired) ==
    /\ state' = [s \in Sessions |->
                    IF \E id \in expired : active_requests[id] = s
                    THEN "Failed" ELSE state[s]]
    /\ active_requests' = Restrict(active_requests, DOMAIN active_requests \ expired)
    /\ UNCHANGED <<next_request_id, request_id>>
=============================================================================
