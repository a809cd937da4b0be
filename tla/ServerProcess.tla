---------------------------- MODULE ServerProcess ----------------------------
(***************************************************************************)
(* The process of the server: the threads that main() runs the io_context  *)
(* with, the accept loop of Server, the handlers of the HTTP/2 sessions,   *)
(* the mutexes they take on the way, and the signal handler.               *)
(*                                                                         *)
(* An asynchronous operation is named like its completion handler: it is   *)
(* armed, then its peer completes it and the handler is ready, then some   *)
(* thread runs it.  What a handler does to its session's streams is in     *)
(* Http2Session and ProxyHandler; here it is seen as its logging, its use  *)
(* of the registry's mutex, the operations it arms, and the blocking write *)
(* of send_cb, which does not return while the client is deaf: it reads    *)
(* nothing and the buffers in between are full, for ever.                  *)
(*                                                                         *)
(* The io_context's scheduler is external: its queue is first in, first    *)
(* out, and it has a mutex of its own, which a thread holds while it looks *)
(* for a handler and which stop() takes as well.                           *)
(***************************************************************************)
EXTENDS SequencesExt

CONSTANTS
    Threads,    \* the pool: main() and THREADS - 1 others
    Sessions,   \* HTTP/2 connections
    Forwards,   \* forwarded requests a session may have at once
    Nobody      \* "no thread", "no handler"

VARIABLES
    use_ssl,
    armed,      \* operations that are pending
    ready,      \* the queue of handlers
    pc,         \* where each thread is
    task,       \* the handler each thread runs
    owner,      \* who holds each mutex
    born,       \* sessions that were accepted
    deaf,       \* sessions whose client reads no more
    signal,     \* the thread the signal handler runs on, and its progress
    stopped     \* io_context::stop was called

vars == <<use_ssl, armed, ready, pc, task, owner, born, deaf, signal, stopped>>

Mutexes == {"scheduler", "logger", "registry"}

Accept == [kind |-> "accept"]
Handshake(s) == [kind |-> "handshake", session |-> s]
Read(s) == [kind |-> "read", session |-> s]
Reply(s, f) == [kind |-> "reply", session |-> s, forward |-> f]

\* A reply runs in the session that forwarded: the callback of the HttpClient calls
\* the session's sender.
RepliesTo(s) == {Reply(s, f) : f \in Forwards}
Handlers == {Accept} \cup {Handshake(s) : s \in Sessions} \cup {Read(s) : s \in Sessions}
                \cup {Reply(s, f) : s \in Sessions, f \in Forwards}

ASSUME NobodyAssumption == Nobody \notin Threads \cup Handlers

Queued == ToSet(ready)
Running == {task[t] : t \in Threads} \ {Nobody}
Locations == {"idle", "fetching", "taken", "logging", "handling", "registering",
              "reporting", "writing", "exited"}

\* The signal handler has the thread: its own code does not go on.
Interrupted(t) == signal.thread = t /\ signal.at # "done"

At(t, where) == pc[t] = where /\ ~Interrupted(t)
GoTo(t, where) == pc' = [pc EXCEPT ![t] = where]
Free(m) == owner[m] = Nobody
Lock(t, m) == Free(m) /\ owner' = [owner EXCEPT ![m] = t]
Unlock(ms) == owner' = [m \in Mutexes |-> IF m \in ms THEN Nobody ELSE owner[m]]

-----------------------------------------------------------------------------

\* main(): both servers have been started, the threads run.
Init ==
    /\ use_ssl \in BOOLEAN
    /\ armed = {Accept}
    /\ ready = <<>>
    /\ pc = [t \in Threads |-> "idle"]
    /\ task = [t \in Threads |-> Nobody]
    /\ owner = [m \in Mutexes |-> Nobody]
    /\ born = {}
    /\ deaf = {}
    /\ signal = [thread |-> Nobody, at |-> "none"]
    /\ stopped = FALSE

-----------------------------------------------------------------------------
(* io_context::run                                                          *)

Fetch(t) ==
    /\ At(t, "idle") /\ ~stopped /\ ready # <<>>
    /\ Lock(t, "scheduler")
    /\ GoTo(t, "fetching")
    /\ UNCHANGED <<use_ssl, armed, ready, task, born, deaf, signal, stopped>>

Take(t) ==
    /\ At(t, "fetching") /\ ready # <<>>
    /\ ready' = Tail(ready)
    /\ task' = [task EXCEPT ![t] = Head(ready)]
    /\ Unlock({"scheduler"})
    /\ GoTo(t, "taken")
    /\ UNCHANGED <<use_ssl, armed, born, deaf, signal, stopped>>

\* Another thread took what there was.
FetchNothing(t) ==
    /\ At(t, "fetching") /\ ready = <<>>
    /\ Unlock({"scheduler"})
    /\ GoTo(t, "idle")
    /\ UNCHANGED <<use_ssl, armed, ready, task, born, deaf, signal, stopped>>

\* Mutant of Exit: a thread leaves only when there is nothing to do.
ExitWhenDone(t) ==
    /\ At(t, "idle") /\ stopped /\ armed = {} /\ Free("scheduler")
    /\ GoTo(t, "exited")
    /\ UNCHANGED <<use_ssl, armed, ready, task, owner, born, deaf, signal, stopped>>

\* run() returns after stop(); main() joins the others.
Exit(t) ==
    /\ At(t, "idle") /\ stopped /\ Free("scheduler")
    /\ GoTo(t, "exited")
    /\ UNCHANGED <<use_ssl, armed, ready, task, owner, born, deaf, signal, stopped>>

\* The handler returns, having armed these operations.
Return(t, operations) ==
    /\ armed' = armed \cup operations
    /\ task' = [task EXCEPT ![t] = Nobody]
    /\ GoTo(t, "idle")

-----------------------------------------------------------------------------
(* The handlers.  Each logs before it acts.                                 *)

\* Logger::log
Log(t) ==
    /\ \/ At(t, "taken") /\ GoTo(t, "logging")
       \/ At(t, "registering") /\ GoTo(t, "reporting")
    /\ Lock(t, "logger")
    /\ UNCHANGED <<use_ssl, armed, ready, task, born, deaf, signal, stopped>>

\* Mutant of Logged: the registry's mutex is not released before the reply.
LoggedKeepsRegistry(t) ==
    /\ \/ At(t, "logging") /\ GoTo(t, "handling")
       \/ At(t, "reporting") /\ GoTo(t, "writing")
    /\ Unlock({"logger"})
    /\ UNCHANGED <<use_ssl, armed, ready, task, born, deaf, signal, stopped>>

\* Mutant of Logged: the writing is logged around.
LoggedAround(t) ==
    /\ At(t, "logging") \/ At(t, "reporting")
    /\ IF pc[t] = "logging"
       THEN GoTo(t, "handling") /\ Unlock({"logger"})
       ELSE GoTo(t, "writing") /\ Unlock({"registry"})
    /\ UNCHANGED <<use_ssl, armed, ready, task, born, deaf, signal, stopped>>

\* The lock_guards end: of log, and of register_backend that called it.
Logged(t) ==
    /\ \/ At(t, "logging") /\ GoTo(t, "handling")
       \/ At(t, "reporting") /\ GoTo(t, "writing")
    /\ Unlock({"logger"} \cup IF pc[t] = "reporting" THEN {"registry"} ELSE {})
    /\ UNCHANGED <<use_ssl, armed, ready, task, born, deaf, signal, stopped>>

\* accept_connection: the session starts, or there was an error; it accepts on.
AcceptConnection(t) ==
    /\ At(t, "handling") /\ task[t] = Accept
    /\ \/ \E s \in Sessions \ born :
            /\ born' = born \cup {s}
            /\ Return(t, {Accept, IF use_ssl THEN Handshake(s) ELSE Read(s)})
       \/ Return(t, {Accept}) /\ UNCHANGED born
    /\ UNCHANGED <<use_ssl, ready, owner, deaf, signal, stopped>>

\* handle_ssl_handshake
HandleSslHandshake(t, s) ==
    /\ At(t, "handling") /\ task[t] = Handshake(s)
    /\ Return(t, {Read(s)}) \/ Return(t, {})
    /\ UNCHANGED <<use_ssl, ready, owner, born, deaf, signal, stopped>>

\* The session still has a request to forward or a reply to send.  (A client that
\* leaves while it waits is Http2Session's SenderHasSession.)
Expected(s) == RepliesTo(s) \cap (armed \cup Queued \cup Running) # {}

\* The read handler is given an error, or mem_recv fails: the session ends.
ReadEnds(t, s) ==
    /\ At(t, "handling") /\ task[t] = Read(s)
    /\ ~Expected(s)
    /\ Return(t, {})
    /\ UNCHANGED <<use_ssl, ready, owner, born, deaf, signal, stopped>>

\* Mutant of ReadAnswers: read_data comes before write_data.
ReadAnswersLast(t, s) ==
    /\ At(t, "handling") /\ task[t] = Read(s)
    /\ GoTo(t, "writing")
    /\ armed' = armed \cup {Read(s)}
    /\ UNCHANGED <<use_ssl, ready, task, owner, born, deaf, signal, stopped>>

\* The frames ask for nothing from the registry: write_data.
ReadAnswers(t, s) ==
    /\ At(t, "handling") /\ task[t] = Read(s)
    /\ GoTo(t, "writing")
    /\ UNCHANGED <<use_ssl, armed, ready, task, owner, born, deaf, signal, stopped>>

\* A request is forwarded: find_backend, send_request, write_data.
ReadForwards(t, s) ==
    /\ At(t, "handling") /\ task[t] = Read(s)
    /\ Free("registry")
    /\ \E h \in RepliesTo(s) \ (armed \cup Queued \cup Running) : armed' = armed \cup {h}
    /\ GoTo(t, "writing")
    /\ UNCHANGED <<use_ssl, ready, task, owner, born, deaf, signal, stopped>>

\* A registration: register_backend and unregister_backend log under their mutex,
\* which is released before the reply is sent.
ReadRegisters(t, s) ==
    /\ At(t, "handling") /\ task[t] = Read(s)
    /\ Lock(t, "registry")
    /\ GoTo(t, "registering")
    /\ UNCHANGED <<use_ssl, armed, ready, task, born, deaf, signal, stopped>>

\* The callback of forward_request: the sender, hence write_data.
HandleReply(t, s) ==
    /\ At(t, "handling") /\ task[t] \in RepliesTo(s)
    /\ GoTo(t, "writing")
    /\ UNCHANGED <<use_ssl, armed, ready, task, owner, born, deaf, signal, stopped>>

\* send_cb returns; the read handler reads on.
Written(t, s) ==
    /\ At(t, "writing") /\ task[t] \in {Read(s)} \cup RepliesTo(s)
    /\ s \notin deaf
    /\ Return(t, IF task[t] = Read(s) THEN {Read(s)} ELSE {})
    /\ UNCHANGED <<use_ssl, ready, owner, born, deaf, signal, stopped>>

-----------------------------------------------------------------------------
(* The signal, and the peers.                                               *)

\* SIGINT or SIGTERM: the kernel picks a thread and interrupts it anywhere.
SignalArrives(t) ==
    /\ signal.at = "none" /\ pc[t] # "exited"
    /\ signal' = [thread |-> t, at |-> "log"]
    /\ UNCHANGED <<use_ssl, armed, ready, pc, task, owner, born, deaf, stopped>>

\* signal_handler: LOG_INFO, then io_context::stop.
SignalLogs ==
    /\ signal.at = "log" /\ Free("logger")
    /\ signal' = [signal EXCEPT !.at = "stop"]
    /\ UNCHANGED <<use_ssl, armed, ready, pc, task, owner, born, deaf, stopped>>

SignalStops ==
    /\ signal.at = "stop" /\ Free("scheduler")
    /\ signal' = [signal EXCEPT !.at = "done"]
    /\ stopped' = TRUE
    /\ UNCHANGED <<use_ssl, armed, ready, pc, task, owner, born, deaf>>

\* A client connects, sends or leaves; a backend answers or fails.
Completes(h) ==
    /\ h \in armed
    /\ armed' = armed \ {h}
    /\ ready' = Append(ready, h)
    /\ UNCHANGED <<use_ssl, pc, task, owner, born, deaf, signal, stopped>>

GoesDeaf(s) ==
    /\ s \in born \ deaf
    /\ deaf' = deaf \cup {s}
    /\ UNCHANGED <<use_ssl, armed, ready, pc, task, owner, born, signal, stopped>>

-----------------------------------------------------------------------------

HandlerStep(t) ==
    \/ Log(t) \/ Logged(t) \/ AcceptConnection(t)
    \/ \E s \in Sessions :
        \/ HandleSslHandshake(t, s) \/ ReadEnds(t, s) \/ ReadAnswers(t, s)
        \/ ReadForwards(t, s) \/ ReadRegisters(t, s) \/ HandleReply(t, s)
        \/ Written(t, s)

SchedulerStep(t) ==
    Fetch(t) \/ FetchNothing(t) \/ Take(t) \/ Exit(t)

Next ==
    \/ \E t \in Threads : HandlerStep(t) \/ SchedulerStep(t) \/ SignalArrives(t)
    \/ SignalLogs \/ SignalStops
    \/ \E h \in Handlers : Completes(h)
    \/ \E s \in Sessions : GoesDeaf(s)

Spec == Init /\ [][Next]_vars

\* The operating system runs every thread that can go on, and does not refuse the
\* signal handler a mutex for ever that is free again and again.
Fairness ==
    /\ \A t \in Threads : WF_vars(HandlerStep(t)) /\ WF_vars(SchedulerStep(t))
    /\ SF_vars(SignalLogs \/ SignalStops)

FairSpec == Spec /\ Fairness

-----------------------------------------------------------------------------

\* A mutex is held where a lock_guard is in scope, and nowhere else: not while a
\* thread writes to a client, nor while it looks for its next handler.
Holding(m) ==
    CASE m = "scheduler" -> {"fetching"}
      [] m = "logger" -> {"logging", "reporting"}
      [] m = "registry" -> {"registering", "reporting"}

MutexScopes == \A m \in Mutexes, t \in Threads : owner[m] = t <=> pc[t] \in Holding(m)

\* A thread runs a handler unless it is in the scheduler, and only a handler of a
\* session registers or writes.
HandlerScopes ==
    \A t \in Threads :
        /\ task[t] = Nobody <=> pc[t] \in {"idle", "fetching", "exited"}
        /\ pc[t] \in {"registering", "reporting", "writing"} =>
                \E s \in Sessions : task[t] \in {Read(s)} \cup RepliesTo(s)

\* The types, and the scopes of lock_guards and handlers.
TypeOK ==
    /\ MutexScopes
    /\ HandlerScopes
    /\ use_ssl \in BOOLEAN
    /\ armed \subseteq Handlers
    /\ ready \in Seq(Handlers)
    /\ pc \in [Threads -> Locations]
    /\ task \in [Threads -> Handlers \cup {Nobody}]
    /\ owner \in [Mutexes -> Threads \cup {Nobody}]
    /\ born \subseteq Sessions
    /\ deaf \subseteq Sessions
    /\ signal \in [thread : Threads \cup {Nobody}, at : {"none", "log", "stop", "done"}]
    /\ stopped \in BOOLEAN

\* No session is read on two threads at once, though nothing locks it: its next
\* read is armed as the last thing a read handler does.  Of two threads in one
\* session one is a sender, called by a backend's completion: that the nghttp2
\* session is not shared between them is NOT so.
OneReaderPerSession ==
    \A s \in Sessions :
        /\ Cardinality({t \in Threads : task[t] = Read(s)}) <= 1
        /\ Read(s) \in Running => Read(s) \notin armed \cup Queued
        /\ Read(s) \in armed => Read(s) \notin Queued
        /\ \A i, j \in DOMAIN ready : ready[i] = Read(s) /\ ready[j] = Read(s) => i = j

\* Blocked in send_cb for ever.
Blocked(t) == pc[t] = "writing" /\ task[t].session \in deaf

\* As long as no signal comes, every handler that is queued is run, unless every
\* thread of the pool is blocked by a deaf client.  One thread that is not is
\* enough: a blocked thread holds no mutex that another one needs.
HandlersRun ==
    \A h \in Handlers :
        h \in Queued ~>
            \/ h \notin Queued
            \/ \A t \in Threads : Blocked(t)
            \/ signal.at # "none"

\* The handler waits for a mutex of the thread that it interrupted.
SelfDeadlock ==
    \/ signal.at = "log" /\ owner["logger"] = signal.thread
    \/ signal.at = "stop" /\ owner["scheduler"] = signal.thread

\* What a thread needs to take its next step.
CanGoOn(t) ==
    /\ ~Interrupted(t)
    /\ \/ pc[t] = "idle" /\ (ready # <<>> \/ stopped) /\ Free("scheduler")
       \/ pc[t] \in {"fetching", "logging", "reporting"}
       \/ pc[t] \in {"taken", "registering"} /\ Free("logger")
       \/ pc[t] = "handling" /\ (task[t].kind = "read" => Free("registry"))
       \/ pc[t] = "writing" /\ ~Blocked(t)

SignalGoesOn ==
    \/ signal.at = "log" /\ Free("logger")
    \/ signal.at = "stop" /\ Free("scheduler")

AtRest(t) == pc[t] = "exited" \/ (pc[t] = "idle" /\ ready = <<>> /\ ~stopped)

\* The mutexes never bring the pool to a stop: some thread or the signal handler can
\* go on, unless the signal handler waits for its own thread, or each thread has
\* nothing to do or is blocked by a deaf client.  In particular log(), under the
\* registry's mutex, and the scheduler are never in each other's way.
PoolNeverStuck ==
    \/ \E t \in Threads : CanGoOn(t)
    \/ SignalGoesOn
    \/ SelfDeadlock
    \/ \A t \in Threads : Blocked(t) \/ AtRest(t)

\* A signal ends the process - every thread leaves run(), so main() joins them -
\* unless it interrupted a thread inside log() or the scheduler, or some thread is
\* blocked by a deaf client.
ShutdownCompletes ==
    signal.at = "log" ~>
        \/ \A t \in Threads : pc[t] = "exited"
        \/ SelfDeadlock
        \/ \E t \in Threads : Blocked(t)
=============================================================================
