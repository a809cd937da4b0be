-------------------------- MODULE ServerProcessProofs --------------------------
(***************************************************************************)
(* Theorems about the process of the server, for any number of threads,    *)
(* sessions and forwarded requests.                                        *)
(***************************************************************************)
EXTENDS ServerProcess, FiniteSetTheorems, TLAPS

-----------------------------------------------------------------------------
(* The inductive invariant. *)

\* The operations that make a session read, one after the other.
Chain(s) == {Handshake(s), Read(s)}

\* A session is in one place only: it waits for its client, for a thread, or it
\* runs on one; and it is in none before it was accepted.
ChainInv ==
    \A s \in Sessions :
        /\ \A t, u \in Threads : task[t] \in Chain(s) /\ task[u] \in Chain(s) => t = u
        /\ \A i, j \in DOMAIN ready : ready[i] \in Chain(s) /\ ready[j] \in Chain(s) => i = j
        /\ \A t \in Threads : task[t] \in Chain(s) =>
                Chain(s) \cap armed = {} /\ \A i \in DOMAIN ready : ready[i] \notin Chain(s)
        /\ Chain(s) \cap armed # {} => \A i \in DOMAIN ready : ready[i] \notin Chain(s)
        /\ ~(Chain(s) \subseteq armed)
        /\ s \notin born =>
                /\ Chain(s) \cap armed = {}
                /\ \A i \in DOMAIN ready : ready[i] \notin Chain(s)
                /\ \A t \in Threads : task[t] \notin Chain(s)

Inv == TypeOK /\ ChainInv

-----------------------------------------------------------------------------
(* Handlers and the queue. *)

\* The handlers of a kind and a session are told apart, and none is Nobody.
LEMMA HandlersDistinct ==
    /\ Accept \in Handlers /\ Nobody \notin Handlers
    /\ \A s \in Sessions :
        /\ Handshake(s) \in Handlers /\ Read(s) \in Handlers /\ RepliesTo(s) \subseteq Handlers
        /\ Accept \notin Chain(s) /\ Handshake(s) # Read(s)
        /\ \A r \in Sessions :
            /\ Chain(s) \cap RepliesTo(r) = {}
            /\ s # r => Chain(s) \cap Chain(r) = {}
  <1>1. Accept \in Handlers /\ Nobody \notin Handlers
    BY NobodyAssumption DEF Handlers
  <1>2. \A s \in Sessions : Handshake(s) \in Handlers /\ Read(s) \in Handlers
            /\ RepliesTo(s) \subseteq Handlers
    BY DEF Handlers, RepliesTo
  <1>3. /\ Accept.kind = "accept"
        /\ \A s \in Sessions : Handshake(s).kind = "handshake" /\ Handshake(s).session = s
        /\ \A s \in Sessions : Read(s).kind = "read" /\ Read(s).session = s
        /\ \A s \in Sessions, f \in Forwards : Reply(s, f).kind = "reply"
    BY DEF Accept, Handshake, Read, Reply
  <1>4. ASSUME NEW s \in Sessions
        PROVE  Accept \notin Chain(s) /\ Handshake(s) # Read(s)
    BY <1>3 DEF Chain
  <1>5. ASSUME NEW s \in Sessions, NEW r \in Sessions
        PROVE  /\ Chain(s) \cap RepliesTo(r) = {}
               /\ s # r => Chain(s) \cap Chain(r) = {}
    BY <1>3 DEF Chain, RepliesTo
  <1>. QED  BY <1>1, <1>2, <1>4, <1>5

\* What is left of the queue when its first handler is taken.
LEMMA TailOfQueue ==
    ASSUME NEW queue \in Seq(Handlers), queue # <<>>
    PROVE  /\ Head(queue) = queue[1] /\ 1 \in DOMAIN queue /\ Head(queue) \in Handlers
           /\ Tail(queue) \in Seq(Handlers)
           /\ \A i \in DOMAIN Tail(queue) :
                i \in Nat /\ i + 1 \in DOMAIN queue /\ i + 1 # 1 /\ Tail(queue)[i] = queue[i + 1]
  OBVIOUS

\* A handler that becomes ready is the last one.
LEMMA EndOfQueue ==
    ASSUME NEW queue \in Seq(Handlers), NEW h \in Handlers
    PROVE  /\ Append(queue, h) \in Seq(Handlers)
           /\ \A i \in DOMAIN Append(queue, h) :
                \/ i \in DOMAIN queue /\ Append(queue, h)[i] = queue[i]
                \/ i = Len(queue) + 1 /\ Append(queue, h)[i] = h
  OBVIOUS

-----------------------------------------------------------------------------
(* The scheduler. *)

\* At first only the accept is pending, and no session has begun.
LEMMA InitInv == Init => Inv
  <1>. SUFFICES ASSUME Init PROVE Inv
    OBVIOUS
  <1>. USE DEF Init
  <1>1. MutexScopes
    BY NobodyAssumption DEF MutexScopes, Mutexes, Holding
  <1>2. HandlerScopes
    BY DEF HandlerScopes
  <1>3. TypeOK
    <2>1. use_ssl \in BOOLEAN /\ stopped \in BOOLEAN
      OBVIOUS
    <2>2. signal \in [thread : Threads \cup {Nobody}, at : {"none", "log", "stop", "done"}]
      OBVIOUS
    <2>3. armed \subseteq Handlers /\ ready \in Seq(Handlers)
      BY HandlersDistinct
    <2>4. /\ pc \in [Threads -> Locations]
          /\ task \in [Threads -> Handlers \cup {Nobody}]
          /\ owner \in [Mutexes -> Threads \cup {Nobody}]
      BY DEF Locations
    <2>. QED  BY <1>1, <1>2, <2>1, <2>2, <2>3, <2>4 DEF TypeOK
  <1>4. ChainInv
    BY HandlersDistinct DEF ChainInv, Chain, Handlers
  <1>. QED  BY <1>3, <1>4 DEF Inv

\* A step that takes or returns no handler, and arms none of a session's chain.
LEMMA ChainStays ==
    ASSUME ChainInv, UNCHANGED <<ready, task, born>>,
           \A s \in Sessions : Chain(s) \cap armed' = Chain(s) \cap armed
    PROVE  ChainInv'
  BY DEF ChainInv, Chain

\* A thread that enters the scheduler takes its mutex, and no handler yet.
LEMMA FetchInv ==
    ASSUME Inv, NEW t \in Threads, Fetch(t)
    PROVE  Inv'
  <1>. USE DEF Fetch, At, GoTo, Lock, Free
  <1>1. MutexScopes'
    BY NobodyAssumption DEF Inv, TypeOK, MutexScopes, Mutexes, Holding, Locations
  <1>2. HandlerScopes'
    BY DEF Inv, TypeOK, HandlerScopes, Locations
  <1>3. TypeOK'
    BY <1>1, <1>2 DEF Inv, TypeOK, Locations, Mutexes
  <1>4. ChainInv'
    BY ChainStays DEF Inv
  <1>. QED  BY <1>3, <1>4 DEF Inv

\* A thread that finds nothing waits, and holds nothing.
LEMMA FetchNothingInv ==
    ASSUME Inv, NEW t \in Threads, FetchNothing(t)
    PROVE  Inv'
  <1>. USE DEF FetchNothing, At, GoTo, Unlock
  <1>1. MutexScopes'
    BY NobodyAssumption DEF Inv, TypeOK, MutexScopes, Mutexes, Holding, Locations
  <1>2. HandlerScopes'
    BY DEF Inv, TypeOK, HandlerScopes, Locations
  <1>3. TypeOK'
    BY <1>1, <1>2 DEF Inv, TypeOK, Locations, Mutexes
  <1>4. ChainInv'
    BY ChainStays DEF Inv
  <1>. QED  BY <1>3, <1>4 DEF Inv

\* A thread that leaves the pool holds no handler and no mutex.
LEMMA ExitInv ==
    ASSUME Inv, NEW t \in Threads, Exit(t)
    PROVE  Inv'
  <1>. USE DEF Exit, At, GoTo
  <1>1. MutexScopes'
    BY DEF Inv, TypeOK, MutexScopes, Mutexes, Holding, Locations
  <1>2. HandlerScopes'
    BY DEF Inv, TypeOK, HandlerScopes, Locations
  <1>3. TypeOK'
    BY <1>1, <1>2 DEF Inv, TypeOK, Locations
  <1>4. ChainInv'
    BY ChainStays DEF Inv
  <1>. QED  BY <1>3, <1>4 DEF Inv

\* A handler goes from the queue to the thread.
LEMMA TakeInv ==
    ASSUME Inv, NEW t \in Threads, Take(t)
    PROVE  Inv'
  <1>. USE DEF Take, At, GoTo, Unlock
  <1>1. MutexScopes'
    BY NobodyAssumption DEF Inv, TypeOK, MutexScopes, Mutexes, Holding, Locations
  <1>2. ready \in Seq(Handlers) /\ ready # <<>> /\ ready' = Tail(ready)
    BY DEF Inv, TypeOK
  <1>3. Head(ready) \in Handlers /\ Tail(ready) \in Seq(Handlers)
    BY <1>2, TailOfQueue
  <1>4. /\ task'[t] = Head(ready)
        /\ \A u \in Threads \ {t} : task'[u] = task[u]
    BY DEF Inv, TypeOK
  <1>5. HandlerScopes'
    BY <1>3, <1>4, NobodyAssumption DEF Inv, TypeOK, HandlerScopes, Locations
  <1>6. TypeOK'
    BY <1>1, <1>3, <1>5 DEF Inv, TypeOK, Locations, Mutexes
  <1>7. ChainInv'
    <2>. SUFFICES ASSUME NEW s \in Sessions
                  PROVE  ChainInv!(s)'
      BY DEF ChainInv
    <2>1. task'[t] = ready[1] /\ 1 \in DOMAIN ready
      BY <1>2, <1>4, TailOfQueue
    <2>2. \A i \in DOMAIN ready' :
                i \in Nat /\ i + 1 \in DOMAIN ready /\ i + 1 # 1 /\ ready'[i] = ready[i + 1]
      BY <1>2, TailOfQueue
    <2>3. \A i, j \in DOMAIN ready' : i + 1 = j + 1 => i = j
      BY <2>2
    <2>. QED  BY <1>4, <2>1, <2>2, <2>3 DEF Inv, ChainInv
  <1>. QED  BY <1>6, <1>7 DEF Inv
-----------------------------------------------------------------------------
(* The handlers. *)

\* A step of a handler that takes a mutex, or gives one back.
LEMMA LogInv ==
    ASSUME Inv, NEW t \in Threads, Log(t)
    PROVE  Inv'
  <1>. USE DEF Log, At, GoTo, Lock, Free
  <1>1. MutexScopes'
    BY NobodyAssumption DEF Inv, TypeOK, MutexScopes, Mutexes, Holding, Locations
  <1>2. HandlerScopes'
    BY DEF Inv, TypeOK, HandlerScopes, Locations
  <1>3. TypeOK'
    BY <1>1, <1>2 DEF Inv, TypeOK, Locations, Mutexes
  <1>4. ChainInv'
    BY ChainStays DEF Inv
  <1>. QED  BY <1>3, <1>4 DEF Inv

\* A thread lets go of the logger and goes on with the same handler.
LEMMA LoggedInv ==
    ASSUME Inv, NEW t \in Threads, Logged(t)
    PROVE  Inv'
  <1>. USE DEF Logged, At, GoTo, Unlock
  <1>1. MutexScopes'
    BY NobodyAssumption DEF Inv, TypeOK, MutexScopes, Mutexes, Holding, Locations
  <1>2. HandlerScopes'
    BY DEF Inv, TypeOK, HandlerScopes, Locations
  <1>3. TypeOK'
    BY <1>1, <1>2 DEF Inv, TypeOK, Locations, Mutexes
  <1>4. ChainInv'
    BY ChainStays DEF Inv
  <1>. QED  BY <1>3, <1>4 DEF Inv

\* A read handler that registers takes its session on to the mutex of the
\* registry.
LEMMA ReadRegistersInv ==
    ASSUME Inv, NEW t \in Threads, NEW s \in Sessions, ReadRegisters(t, s)
    PROVE  Inv'
  <1>. USE DEF ReadRegisters, At, GoTo, Lock, Free
  <1>1. MutexScopes'
    BY NobodyAssumption DEF Inv, TypeOK, MutexScopes, Mutexes, Holding, Locations
  <1>2. HandlerScopes'
    BY DEF Inv, TypeOK, HandlerScopes, Locations
  <1>3. TypeOK'
    BY <1>1, <1>2 DEF Inv, TypeOK, Locations, Mutexes
  <1>4. ChainInv'
    BY ChainStays DEF Inv
  <1>. QED  BY <1>3, <1>4 DEF Inv

\* A handler of a session goes on to write_data.
LEMMA WritesInv ==
    ASSUME Inv, NEW t \in Threads, NEW s \in Sessions,
           At(t, "handling"), task[t] \in {Read(s)} \cup RepliesTo(s), GoTo(t, "writing"),
           armed' \subseteq Handlers,
           \A r \in Sessions : Chain(r) \cap armed' = Chain(r) \cap armed,
           UNCHANGED <<use_ssl, ready, task, owner, born, deaf, signal, stopped>>
    PROVE  Inv'
  <1>. USE DEF At, GoTo
  <1>1. MutexScopes'
    BY DEF Inv, TypeOK, MutexScopes, Mutexes, Holding, Locations
  <1>2. HandlerScopes'
    BY DEF Inv, TypeOK, HandlerScopes, Locations
  <1>3. TypeOK'
    BY <1>1, <1>2 DEF Inv, TypeOK, Locations
  <1>4. ChainInv'
    BY ChainStays DEF Inv
  <1>. QED  BY <1>3, <1>4 DEF Inv

\* A read handler that answers at once keeps its session while it writes.
LEMMA ReadAnswersInv ==
    ASSUME Inv, NEW t \in Threads, NEW s \in Sessions, ReadAnswers(t, s)
    PROVE  Inv'
  BY WritesInv DEF ReadAnswers, Inv, TypeOK

\* The handler of a backend's reply writes, and is no reader of the session.
LEMMA HandleReplyInv ==
    ASSUME Inv, NEW t \in Threads, NEW s \in Sessions, HandleReply(t, s)
    PROVE  Inv'
  BY WritesInv DEF HandleReply, Inv, TypeOK

\* A read handler that forwards arms the backend's reply, which is not of the
\* session's own chain.
LEMMA ReadForwardsInv ==
    ASSUME Inv, NEW t \in Threads, NEW s \in Sessions, ReadForwards(t, s)
    PROVE  Inv'
  <1>1. PICK h \in RepliesTo(s) : armed' = armed \cup {h}
    BY DEF ReadForwards
  <1>2. armed' \subseteq Handlers /\ \A r \in Sessions : h \notin Chain(r)
    BY <1>1, HandlersDistinct DEF Inv, TypeOK
  <1>3. \A r \in Sessions : Chain(r) \cap armed' = Chain(r) \cap armed
    BY <1>1, <1>2
  <1>. QED  BY <1>2, <1>3, WritesInv DEF ReadForwards

\* A handler returns: its thread is idle, and the scopes are left.
LEMMA ReturnTypes ==
    ASSUME Inv, NEW t \in Threads, pc[t] \in {"handling", "writing"},
           NEW operations \in SUBSET Handlers, Return(t, operations),
           born' \subseteq Sessions,
           UNCHANGED <<use_ssl, ready, owner, deaf, signal, stopped>>
    PROVE  /\ TypeOK'
           /\ armed' = armed \cup operations
           /\ task'[t] = Nobody
           /\ \A u \in Threads \ {t} : task'[u] = task[u]
  <1>. USE DEF Return, GoTo
  <1>1. MutexScopes'
    BY DEF Inv, TypeOK, MutexScopes, Mutexes, Holding, Locations
  <1>2. HandlerScopes'
    BY DEF Inv, TypeOK, HandlerScopes, Locations
  <1>3. /\ armed' = armed \cup operations
        /\ task'[t] = Nobody
        /\ \A u \in Threads \ {t} : task'[u] = task[u]
    BY DEF Inv, TypeOK
  <1>4. TypeOK'
    BY <1>1, <1>2 DEF Inv, TypeOK, Locations
  <1>. QED  BY <1>3, <1>4

\* A session's handler arms at most the next operation of its own chain.
LEMMA ReturnInv ==
    ASSUME Inv, NEW t \in Threads, pc[t] \in {"handling", "writing"},
           NEW s \in Sessions, NEW operations, Return(t, operations),
           operations # {} => operations = {Read(s)} /\ task[t] \in Chain(s),
           UNCHANGED <<use_ssl, ready, owner, born, deaf, signal, stopped>>
    PROVE  Inv'
  <1>1. operations \in SUBSET Handlers
    BY HandlersDistinct
  <1>2. /\ TypeOK'
        /\ armed' = armed \cup operations
        /\ task'[t] = Nobody
        /\ \A u \in Threads \ {t} : task'[u] = task[u]
    BY <1>1, ReturnTypes DEF Inv, TypeOK
  <1>3. ChainInv'
    <2>. SUFFICES ASSUME NEW r \in Sessions
                  PROVE  ChainInv!(r)'
      BY DEF ChainInv
    <2>1. Nobody \notin Chain(r)
      BY HandlersDistinct DEF Chain
    <2>2. CASE r # s \/ operations = {}
      <3>1. Chain(r) \cap armed' = Chain(r) \cap armed
        BY <1>2, <2>2, HandlersDistinct DEF Chain
      <3>. QED  BY <1>2, <2>1, <3>1 DEF Inv, ChainInv, Chain
    <2>3. CASE r = s /\ operations = {Read(s)}
      <3>1. /\ Chain(s) \cap armed = {}
            /\ \A i \in DOMAIN ready : ready[i] \notin Chain(s)
            /\ \A u \in Threads \ {t} : task[u] \notin Chain(s)
            /\ s \in born
        BY <2>3 DEF Inv, ChainInv
      <3>2. Chain(s) \cap armed' = {Read(s)} /\ Handshake(s) # Read(s)
        BY <1>2, <2>3, <3>1, HandlersDistinct DEF Chain
      <3>. QED  BY <1>2, <2>1, <2>3, <3>1, <3>2 DEF Chain
    <2>. QED  BY <2>2, <2>3
  <1>. QED  BY <1>2, <1>3 DEF Inv

\* The handshake handler of a session goes on to the first read, or ends the chain.
LEMMA HandleSslHandshakeInv ==
    ASSUME Inv, NEW t \in Threads, NEW s \in Sessions, HandleSslHandshake(t, s)
    PROVE  Inv'
  BY ReturnInv DEF HandleSslHandshake, At, Chain

\* A read handler that meets an error ends the chain of its session.
LEMMA ReadEndsInv ==
    ASSUME Inv, NEW t \in Threads, NEW s \in Sessions, ReadEnds(t, s)
    PROVE  Inv'
  BY ReturnInv DEF ReadEnds, At, Chain

\* A read handler arms the next read when its write is done; a sender arms nothing.
LEMMA WrittenInv ==
    ASSUME Inv, NEW t \in Threads, NEW s \in Sessions, Written(t, s)
    PROVE  Inv'
  <1>1. CASE task[t] = Read(s)
    BY <1>1, ReturnInv DEF Written, At, Chain
  <1>2. CASE task[t] # Read(s)
    BY <1>2, ReturnInv DEF Written, At
  <1>. QED  BY <1>1, <1>2

\* A session begins in one place, and was in none.
LEMMA AcceptConnectionInv ==
    ASSUME Inv, NEW t \in Threads, AcceptConnection(t)
    PROVE  Inv'
  <1>1. /\ pc[t] = "handling" /\ task[t] = Accept
        /\ UNCHANGED <<use_ssl, ready, owner, deaf, signal, stopped>>
    BY DEF AcceptConnection, At
  <1>2. ASSUME NEW s \in Sessions \ born, NEW first \in Chain(s),
               born' = born \cup {s}, Return(t, {Accept, first})
        PROVE  Inv'
    <2>1. {Accept, first} \in SUBSET Handlers /\ born' \subseteq Sessions
      BY <1>2, HandlersDistinct DEF Chain, Inv, TypeOK
    <2>2. /\ TypeOK'
          /\ armed' = armed \cup {Accept, first}
          /\ task'[t] = Nobody
          /\ \A u \in Threads \ {t} : task'[u] = task[u]
      BY <1>1, <1>2, <2>1, ReturnTypes
    <2>3. ChainInv'
      <3>. SUFFICES ASSUME NEW r \in Sessions
                    PROVE  ChainInv!(r)'
        BY DEF ChainInv
      <3>1. Nobody \notin Chain(r)
        BY HandlersDistinct DEF Chain
      <3>2. CASE r # s
        <4>1. Chain(r) \cap armed' = Chain(r) \cap armed
          BY <2>2, <3>2, HandlersDistinct
        <4>. QED  BY <1>1, <1>2, <2>2, <3>1, <3>2, <4>1 DEF Inv, ChainInv, Chain
      <3>3. CASE r = s
        <4>1. /\ Chain(s) \cap armed = {}
              /\ \A i \in DOMAIN ready : ready[i] \notin Chain(s)
              /\ \A u \in Threads : task[u] \notin Chain(s)
          BY DEF Inv, ChainInv
        <4>2. Chain(s) \cap armed' = {first} /\ Handshake(s) # Read(s)
          BY <2>2, <4>1, HandlersDistinct
        <4>. QED  BY <1>1, <1>2, <2>2, <3>1, <3>3, <4>1, <4>2 DEF Chain
      <3>. QED  BY <3>2, <3>3
    <2>. QED  BY <2>2, <2>3 DEF Inv
  <1>3. ASSUME Return(t, {Accept}), UNCHANGED born
        PROVE  Inv'
    <2>1. {Accept} \in SUBSET Handlers /\ born' \subseteq Sessions
      BY <1>3, HandlersDistinct DEF Inv, TypeOK
    <2>2. /\ TypeOK'
          /\ armed' = armed \cup {Accept}
          /\ task'[t] = Nobody
          /\ \A u \in Threads \ {t} : task'[u] = task[u]
      BY <1>1, <1>3, <2>1, ReturnTypes
    <2>3. \A r \in Sessions : Nobody \notin Chain(r) /\ Chain(r) \cap armed' = Chain(r) \cap armed
      BY <2>2, HandlersDistinct DEF Chain
    <2>4. ChainInv'
      BY <1>1, <1>3, <2>2, <2>3 DEF Inv, ChainInv, Chain
    <2>. QED  BY <2>2, <2>4 DEF Inv
  <1>. QED  BY <1>2, <1>3 DEF AcceptConnection, Chain

-----------------------------------------------------------------------------
(* The signal and the peers. *)

\* An operation completes: its handler goes to the end of the queue.
LEMMA CompletesInv ==
    ASSUME Inv, NEW h \in Handlers, Completes(h)
    PROVE  Inv'
  <1>. USE DEF Completes
  <1>1. ready' = Append(ready, h) /\ ready \in Seq(Handlers)
    BY DEF Inv, TypeOK
  <1>2. TypeOK'
    <2>1. MutexScopes' /\ HandlerScopes'
      BY DEF Inv, TypeOK, MutexScopes, HandlerScopes
    <2>2. ready' \in Seq(Handlers)
      BY <1>1, EndOfQueue
    <2>. QED  BY <2>1, <2>2 DEF Inv, TypeOK
  <1>3. ChainInv'
    <2>. SUFFICES ASSUME NEW s \in Sessions
                  PROVE  ChainInv!(s)'
      BY DEF ChainInv
    <2>1. \A i \in DOMAIN ready' :
            \/ i \in DOMAIN ready /\ ready'[i] = ready[i]
            \/ i = Len(ready) + 1 /\ ready'[i] = h
      BY <1>1, EndOfQueue
    <2>. QED  BY <2>1 DEF Inv, ChainInv, Chain
  <1>. QED  BY <1>2, <1>3 DEF Inv

\* A client that stops reading changes nothing in the server.
LEMMA GoesDeafInv ==
    ASSUME Inv, NEW s \in Sessions, GoesDeaf(s)
    PROVE  Inv'
  BY ChainStays DEF GoesDeaf, Inv, TypeOK, MutexScopes, HandlerScopes

\* The signal handler changes no thread, no handler and no mutex.
LEMMA SignalInv ==
    ASSUME Inv,
           (\E t \in Threads : SignalArrives(t)) \/ SignalLogs \/ SignalStops
    PROVE  Inv'
  <1>1. UNCHANGED <<use_ssl, armed, ready, pc, task, owner, born, deaf>>
    BY DEF SignalArrives, SignalLogs, SignalStops
  <1>2. MutexScopes' /\ HandlerScopes' /\ ChainInv'
    BY <1>1, ChainStays DEF Inv, TypeOK, MutexScopes, HandlerScopes
  <1>3. signal' \in [thread : Threads \cup {Nobody}, at : {"none", "log", "stop", "done"}]
    BY DEF SignalArrives, SignalLogs, SignalStops, Inv, TypeOK
  <1>4. stopped' \in BOOLEAN
    BY DEF SignalArrives, SignalLogs, SignalStops, Inv, TypeOK
  <1>5. TypeOK'
    BY <1>1, <1>2, <1>3, <1>4 DEF Inv, TypeOK
  <1>. QED  BY <1>2, <1>5 DEF Inv

\* The invariant depends on the variables of the module only.
LEMMA StutterInv == Inv /\ UNCHANGED vars => Inv'
  BY DEF vars, Inv, TypeOK, MutexScopes, HandlerScopes, ChainInv

\* Every step of the server, or none, preserves the invariant.
LEMMA NextInv == Inv /\ [Next]_vars => Inv'
  <1>. SUFFICES ASSUME Inv, [Next]_vars PROVE Inv'
    OBVIOUS
  <1>1. ASSUME NEW t \in Threads, HandlerStep(t)
        PROVE  Inv'
    BY <1>1, LogInv, LoggedInv, AcceptConnectionInv, HandleSslHandshakeInv, ReadEndsInv,
       ReadAnswersInv, ReadForwardsInv, ReadRegistersInv, HandleReplyInv, WrittenInv
       DEF HandlerStep
  <1>2. ASSUME NEW t \in Threads, SchedulerStep(t)
        PROVE  Inv'
    BY <1>2, FetchInv, FetchNothingInv, TakeInv, ExitInv DEF SchedulerStep
  <1>. QED  BY <1>1, <1>2, SignalInv, CompletesInv, GoesDeafInv, StutterInv DEF Next

-----------------------------------------------------------------------------

\* The invariant holds of every run.
THEOREM Invariant == Spec => []Inv
  BY InitInv, NextInv, PTL DEF Spec

\* The state is well-formed, and in particular every mutex is held exactly where a
\* lock_guard is in scope: not while a thread writes to a client.
THEOREM TypeCorrect == Spec => []TypeOK
  <1>1. Inv => TypeOK
    BY DEF Inv
  <1>. QED  BY <1>1, Invariant, PTL

\* However many threads run the io_context, no two of them read one session.
THEOREM SessionsAreSerial == Spec => []OneReaderPerSession
  <1>1. Inv => OneReaderPerSession
    <2>. SUFFICES ASSUME Inv, NEW s \in Sessions
                  PROVE  OneReaderPerSession!(s)
      BY DEF OneReaderPerSession
    <2>. DEFINE readers == {t \in Threads : task[t] = Read(s)}
    <2>1. Cardinality(readers) <= 1
      <3>1. \A t, u \in readers : t = u
        BY DEF Inv, ChainInv, Chain
      <3>2. readers = {} \/ \E t : readers = {t}
        BY <3>1
      <3>3. Cardinality(readers) = 0 \/ Cardinality(readers) = 1
        BY <3>2, FS_EmptySet, FS_Singleton
      <3>. QED  BY <3>3
    <2>2. \A h \in Queued : \E i \in DOMAIN ready : h = ready[i]
      BY DEF Queued, ToSet
    <2>3. Read(s) \in Running => Read(s) \notin armed \cup Queued
      BY <2>2 DEF Running, Inv, ChainInv, Chain
    <2>4. Read(s) \in armed => Read(s) \notin Queued
      BY <2>2 DEF Inv, ChainInv, Chain
    <2>5. \A i, j \in DOMAIN ready : ready[i] = Read(s) /\ ready[j] = Read(s) => i = j
      BY DEF Inv, ChainInv, Chain
    <2>. QED  BY <2>1, <2>3, <2>4, <2>5
  <1>. QED  BY <1>1, Invariant, PTL

-----------------------------------------------------------------------------
(* The mutexes never bring the pool to a stop.                              *)

\* The signal handler has a thread from the signal on, and none before; the
\* io_context is stopped when it is through, and no thread leaves earlier.
SignalShape ==
    /\ IF signal.at = "none" THEN signal.thread = Nobody ELSE signal.thread \in Threads
    /\ stopped => signal.at = "done"
    /\ \A t \in Threads : pc[t] = "exited" => stopped

\* The kernel picks the thread, and nothing moves the handler to another.
LEMMA SignalKeepsShape ==
    ASSUME Inv, SignalShape, [Next]_vars
    PROVE  SignalShape'
  <1>1. ASSUME signal' = signal, stopped' = stopped, pc' = pc
        PROVE  SignalShape'
    BY <1>1 DEF SignalShape
  <1>2. ASSUME signal' = signal, stopped' = stopped, NEW t \in Threads,
               NEW where \in Locations, GoTo(t, where), where = "exited" => stopped
        PROVE  SignalShape'
    <2>1. \A u \in Threads : pc'[u] = IF u = t THEN where ELSE pc[u]
      BY <1>2 DEF GoTo, Inv, TypeOK
    <2>. QED  BY <1>2, <2>1 DEF SignalShape
  <1>3. ASSUME NEW t \in Threads, HandlerStep(t)
        PROVE  SignalShape'
    <2>1. /\ signal' = signal /\ stopped' = stopped
          /\ \E where \in Locations : GoTo(t, where) /\ where # "exited"
      BY <1>3 DEF HandlerStep, Log, Logged, AcceptConnection, HandleSslHandshake, ReadEnds,
         ReadAnswers, ReadForwards, ReadRegisters, HandleReply, Written, Return, Locations
    <2>. QED  BY <1>2, <2>1
  <1>4. ASSUME NEW t \in Threads, SchedulerStep(t)
        PROVE  SignalShape'
    <2>1. /\ signal' = signal /\ stopped' = stopped
          /\ \E where \in Locations : GoTo(t, where) /\ (where = "exited" => stopped)
      BY <1>4 DEF SchedulerStep, Fetch, FetchNothing, Take, Exit, Locations
    <2>. QED  BY <1>2, <2>1
  <1>5. ASSUME NEW t \in Threads, SignalArrives(t)
        PROVE  SignalShape'
    BY <1>5 DEF SignalArrives, SignalShape
  <1>6. ASSUME SignalLogs \/ SignalStops
        PROVE  SignalShape'
    BY <1>6 DEF SignalLogs, SignalStops, SignalShape, Inv, TypeOK
  <1>7. (\E h \in Handlers : Completes(h)) \/ (\E s \in Sessions : GoesDeaf(s)) => SignalShape'
    BY <1>1 DEF Completes, GoesDeaf
  <1>. QED  BY <1>1, <1>3, <1>4, <1>5, <1>6, <1>7 DEF Next, vars

\* The signal is where it says in every state.
LEMMA SignalIsShaped == Spec => []SignalShape
  <1>1. Init => SignalShape
    BY DEF Init, SignalShape
  <1>. QED  BY <1>1, SignalKeepsShape, Invariant, PTL DEF Spec

\* A mutex that is taken is held by a thread in its scope.
LEMMA HolderInScope ==
    ASSUME TypeOK, NEW m \in Mutexes, ~Free(m)
    PROVE  owner[m] \in Threads /\ pc[owner[m]] \in Holding(m)
  BY DEF TypeOK, MutexScopes, Free

\* Who holds the logger or the scheduler, and was not interrupted, can go on.
LEMMA InnerHolderGoesOn ==
    ASSUME TypeOK, NEW m \in {"logger", "scheduler"}, ~Free(m), ~Interrupted(owner[m])
    PROVE  \E t \in Threads : CanGoOn(t)
  <1>1. owner[m] \in Threads /\ pc[owner[m]] \in {"fetching", "logging", "reporting"}
    BY HolderInScope DEF Mutexes, Holding
  <1>. QED  BY <1>1 DEF CanGoOn

\* So can who holds the registry, or then somebody who holds the logger.
LEMMA RegistryHolderGoesOn ==
    ASSUME TypeOK, ~Free("registry"), \A t \in Threads : ~Interrupted(t)
    PROVE  \E t \in Threads : CanGoOn(t)
  <1>1. owner["registry"] \in Threads /\ pc[owner["registry"]] \in {"registering", "reporting"}
    BY HolderInScope DEF Mutexes, Holding
  <1>2. CASE Free("logger") \/ pc[owner["registry"]] = "reporting"
    BY <1>1, <1>2 DEF CanGoOn
  <1>3. CASE ~Free("logger")
    <2>1. owner["logger"] \in Threads
      BY <1>3, HolderInScope DEF Mutexes
    <2>. QED  BY <1>3, <2>1, InnerHolderGoesOn
  <1>. QED  BY <1>1, <1>2, <1>3

\* While the signal handler is under way it goes on, or waits for a thread that can,
\* or for its own.
LEMMA SignalWaitsForSomebody ==
    ASSUME TypeOK, SignalShape, signal.at \in {"log", "stop"}
    PROVE  SignalGoesOn \/ SelfDeadlock \/ \E t \in Threads : CanGoOn(t)
  <1>. DEFINE m == IF signal.at = "log" THEN "logger" ELSE "scheduler"
  <1>1. SUFFICES ASSUME ~Free(m), owner[m] # signal.thread
                 PROVE  \E t \in Threads : CanGoOn(t)
    BY DEF SignalGoesOn, SelfDeadlock
  <1>2. ~Interrupted(owner[m])
    BY <1>1 DEF Interrupted
  <1>. QED  BY <1>1, <1>2, InnerHolderGoesOn

\* A thread that has something to do and is not blocked by its client can go on, or
\* waits for one that can.
LEMMA ThreadWaitsForSomebody ==
    ASSUME TypeOK, \A t \in Threads : ~Interrupted(t),
           NEW t \in Threads, ~Blocked(t), ~AtRest(t)
    PROVE  \E u \in Threads : CanGoOn(u)
  <1>1. \A m \in {"logger", "scheduler"} : Free(m) \/ \E u \in Threads : CanGoOn(u)
    <2>1. ASSUME NEW m \in {"logger", "scheduler"}, ~Free(m)
          PROVE  \E u \in Threads : CanGoOn(u)
      <3>1. owner[m] \in Threads
        BY <2>1, HolderInScope DEF Mutexes
      <3>. QED  BY <2>1, <3>1, InnerHolderGoesOn
    <2>. QED  BY <2>1
  <1>2. CASE pc[t] = "idle"
    BY <1>1, <1>2 DEF CanGoOn, AtRest
  <1>3. CASE pc[t] \in {"fetching", "logging", "reporting", "writing"}
    BY <1>3 DEF CanGoOn
  <1>4. CASE pc[t] \in {"taken", "registering"}
    BY <1>1, <1>4 DEF CanGoOn
  <1>5. CASE pc[t] = "handling"
    BY <1>5, RegistryHolderGoesOn DEF CanGoOn
  <1>6. pc[t] \in Locations /\ pc[t] # "exited"
    BY DEF TypeOK, AtRest
  <1>. QED  BY <1>2, <1>3, <1>4, <1>5, <1>6 DEF Locations

\* For any number of threads and sessions: the logger, the registry and the scheduler
\* are never locked in a circle, whatever the order in which handlers, peers and the
\* signal come.  Only the signal handler can wait for what it interrupted.
THEOREM PoolIsNeverStuck == Spec => []PoolNeverStuck
  <1>1. TypeOK /\ SignalShape => PoolNeverStuck
    <2>. SUFFICES ASSUME TypeOK, SignalShape
                  PROVE  PoolNeverStuck
      OBVIOUS
    <2>1. CASE signal.at \in {"log", "stop"}
      BY <2>1, SignalWaitsForSomebody DEF PoolNeverStuck
    <2>2. CASE signal.at \in {"none", "done"}
      <3>1. \A t \in Threads : ~Interrupted(t)
        BY <2>2, NobodyAssumption DEF Interrupted, SignalShape
      <3>. QED  BY <3>1, ThreadWaitsForSomebody DEF PoolNeverStuck
    <2>. QED  BY <2>1, <2>2 DEF TypeOK
  <1>. QED  BY <1>1, TypeCorrect, SignalIsShaped, PTL

\* Before a signal, as long as a handler is queued some thread can go on, unless every
\* thread of the pool is blocked by a deaf client.
QueueHasServer ==
    signal.at = "none" /\ ready # <<>> =>
        \/ \E t \in Threads : CanGoOn(t)
        \/ \A t \in Threads : Blocked(t)

\* After io_context::stop some thread can go on until each has left run() or is blocked
\* by a deaf client.
ShutdownHasServer ==
    stopped =>
        \/ \E t \in Threads : CanGoOn(t)
        \/ \A t \in Threads : pc[t] = "exited" \/ Blocked(t)

\* So nothing but deaf clients, and a signal handler that waits for its own thread,
\* keeps a queued handler from being run, or main() from joining its threads.
THEOREM PoolIsServed == Spec => [](QueueHasServer /\ ShutdownHasServer)
  <1>1. SignalShape /\ PoolNeverStuck => QueueHasServer
    BY DEF SignalShape, PoolNeverStuck, QueueHasServer, SignalGoesOn, SelfDeadlock, AtRest
  <1>2. SignalShape /\ PoolNeverStuck => ShutdownHasServer
    BY DEF SignalShape, PoolNeverStuck, ShutdownHasServer, SignalGoesOn, SelfDeadlock, AtRest
  <1>. QED  BY <1>1, <1>2, SignalIsShaped, PoolIsNeverStuck, PTL

-----------------------------------------------------------------------------
(* A signal handler that waits for its own thread waits for ever.           *)

\* Another thread gives back only what it holds.
LEMMA OthersKeepMutex ==
    ASSUME Inv, [Next]_vars, NEW m \in {"logger", "scheduler"}, NEW t \in Threads,
           owner[m] = t, Interrupted(t)
    PROVE  owner'[m] = t
  <1>1. /\ m \in Mutexes /\ owner \in [Mutexes -> Threads \cup {Nobody}] /\ t # Nobody
        /\ \A u \in Threads : ~Interrupted(u) => pc[u] \notin Holding(m)
    BY NobodyAssumption DEF Mutexes, Inv, TypeOK, MutexScopes
  <1>2. ASSUME NEW u \in Threads, Log(u) \/ Fetch(u) \/ \E s \in Sessions : ReadRegisters(u, s)
        PROVE  owner'[m] = t
    BY <1>1, <1>2 DEF Log, Fetch, ReadRegisters, Lock, Free
  <1>3. ASSUME NEW u \in Threads, Logged(u)
        PROVE  owner'[m] = t
    <2>1. m # "logger"
      BY <1>1, <1>3 DEF Logged, At, Holding
    <2>. QED  BY <1>1, <1>3, <2>1 DEF Logged, Unlock
  <1>4. ASSUME NEW u \in Threads, Take(u) \/ FetchNothing(u)
        PROVE  owner'[m] = t
    <2>1. m # "scheduler"
      BY <1>1, <1>4 DEF Take, FetchNothing, At, Holding
    <2>. QED  BY <1>1, <1>4, <2>1 DEF Take, FetchNothing, Unlock
  <1>5. ASSUME UNCHANGED owner
        PROVE  owner'[m] = t
    BY <1>5
  <1>6. ASSUME NEW u \in Threads, HandlerStep(u)
        PROVE  owner'[m] = t
    BY <1>2, <1>3, <1>5, <1>6 DEF HandlerStep, AcceptConnection, HandleSslHandshake, ReadEnds,
       ReadAnswers, ReadForwards, HandleReply, Written
  <1>7. ASSUME NEW u \in Threads, SchedulerStep(u)
        PROVE  owner'[m] = t
    BY <1>2, <1>4, <1>5, <1>7 DEF SchedulerStep, Exit
  <1>. QED
    BY <1>5, <1>6, <1>7
       DEF Next, vars, SignalArrives, SignalLogs, SignalStops, Completes, GoesDeaf

\* Once the signal handler waits for the thread it interrupted, no step of any other
\* thread, peer or client frees it.
SelfDeadlockStays == [][SelfDeadlock => SelfDeadlock']_vars

\* main.cpp's handler logs and stops the io_context from inside a signal: if it comes
\* while its thread is in log() or in the scheduler, the shutdown never completes.
THEOREM SelfDeadlockIsForever == Spec => SelfDeadlockStays
  <1>1. ASSUME Inv, SignalShape, SelfDeadlock, [Next]_vars
        PROVE  SelfDeadlock'
    <2>1. PICK m \in {"logger", "scheduler"} :
            /\ owner[m] = signal.thread
            /\ signal.at = IF m = "logger" THEN "log" ELSE "stop"
      BY <1>1 DEF SelfDeadlock
    <2>2. PICK t \in Threads : t = signal.thread
      BY <1>1, <2>1 DEF SignalShape
    <2>3. ~Free(m) /\ Interrupted(t)
      BY <2>1, <2>2, NobodyAssumption DEF Free, Interrupted
    <2>4. owner'[m] = t
      BY <1>1, <2>1, <2>2, <2>3, OthersKeepMutex
    <2>5. signal' = signal
      <3>1. ~SignalLogs /\ ~SignalStops /\ \A u \in Threads : ~SignalArrives(u)
        BY <2>1, <2>3 DEF SignalLogs, SignalStops, SignalArrives
      <3>2. ASSUME NEW u \in Threads, HandlerStep(u) \/ SchedulerStep(u)
            PROVE  signal' = signal
        BY <3>2 DEF HandlerStep, Log, Logged, AcceptConnection, HandleSslHandshake, ReadEnds,
                    ReadAnswers, ReadForwards, ReadRegisters, HandleReply, Written,
                    SchedulerStep, Fetch, FetchNothing, Take, Exit
      <3>. QED  BY <1>1, <3>1, <3>2 DEF Next, vars, Completes, GoesDeaf
    <2>. QED  BY <2>1, <2>2, <2>4, <2>5 DEF SelfDeadlock
  <1>2. Inv /\ SignalShape /\ [Next]_vars => [SelfDeadlock => SelfDeadlock']_vars
    BY <1>1
  <1>. QED  BY <1>2, Invariant, SignalIsShaped, PTL DEF Spec, SelfDeadlockStays
=============================================================================
