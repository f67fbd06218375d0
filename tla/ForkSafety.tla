----------------------------- MODULE ForkSafety -----------------------------
(***************************************************************************)
(* What the native objects of prosody-rb do in a forked child process.    *)
(*                                                                         *)
(* The extension keeps two process-wide singletons: BRIDGE, a OnceLock     *)
(* whose content names a channel that one Ruby thread serves, and RUNTIME, *)
(* a LazyLock around the tokio workers.  Process.fork copies the memory    *)
(* with both and with every native object, but no thread except the        *)
(* forking one.  A call that waits is answered only where the workers and  *)
(* the bridge thread of its handle live.                                   *)
(*                                                                         *)
(* Process ids are taken to be unique for the lifetime of the family.  One *)
(* call per process is followed: calls of other threads share nothing with *)
(* it that fork could break.                                               *)
(***************************************************************************)
EXTENDS FiniteSets

CONSTANTS
    Process,    \* process ids
    First,      \* the process that loads the extension
    None        \* an empty OnceLock or LazyLock

ASSUME ForkAssumption == First \in Process /\ None \notin Process

VARIABLES
    alive,      \* the processes that have been started
    runtime,    \* per process, where the workers of its RUNTIME live
    bridge,     \* per process, where the thread that serves its BRIDGE lives
    objects,    \* per process, the native objects in its memory
    call,       \* per process, the call that waits in queue.pop
    result      \* how the last call that ended did

vars == <<alive, runtime, bridge, objects, call, result>>

Kind == {"client", "reader", "context", "state", "scan", "admin"}

\* pid is the process that ForkGuard recorded, bridge the served process of
\* the handle the object holds.  Scans and contexts hold no ForkGuard.
Object == [kind : Kind, pid : Process, bridge : Process]

Guarded == {"client", "reader", "admin"}

\* on is the kind of the receiver ("new" for Client.new), makes what the
\* answer is wrapped into.
Waiting == [on : Kind \union {"new"}, pid : Process, bridge : Process,
            makes : {"nothing", "client", "reader"}]

NoCall == [on |-> "none"]

Init ==
    /\ alive = {First}
    /\ runtime = [p \in Process |-> None]
    /\ bridge = [p \in Process |-> None]
    /\ objects = [p \in Process |-> {}]
    /\ call = [p \in Process |-> NoCall]
    /\ result = "none"

Ready(p) == p \in alive /\ call[p] = NoCall

---------------------------------------------------------------------------
\* Faulty variant: the bridge is not made with the runtime.
EnsureRuntimeOnly(p) ==
    /\ runtime' = [runtime EXCEPT ![p] = IF @ = None THEN p ELSE @]
    /\ bridge' = bridge

\* ensure_runtime_context: both singletons are made on first use and kept.
EnsureContext(p) ==
    /\ runtime' = [runtime EXCEPT ![p] = IF @ = None THEN p ELSE @]
    /\ bridge' = [bridge EXCEPT ![p] = IF @ = None THEN p ELSE @]

\* Faulty variant: readers carry no guard.
CheckAllButReaders(p, o) == o.kind \in (Guarded \ {"reader"}) => o.pid = p

\* ForkGuard::check.
Check(p, o) == o.kind \in Guarded => o.pid = p

Raise(p) ==
    /\ result' = "raised"
    /\ UNCHANGED <<alive, runtime, bridge, objects, call>>

\* Bridge::wait_for spawns on the RUNTIME of p and blocks in queue.pop.
WaitFor(p, on, pid, handle, makes) ==
    call' = [call EXCEPT ![p] =
                [on |-> on, pid |-> pid, bridge |-> handle, makes |-> makes]]

Keep(p, o) ==
    /\ objects' = [objects EXCEPT ![p] = @ \union {o}]
    /\ result' = "returned"

---------------------------------------------------------------------------
\* Process.fork on a thread of p.  Another thread of p may be waiting.
Fork(p, q) ==
    /\ p \in alive
    /\ q \notin alive
    /\ alive' = alive \union {q}
    /\ runtime' = [runtime EXCEPT ![q] = runtime[p]]
    /\ bridge' = [bridge EXCEPT ![q] = bridge[p]]
    /\ objects' = [objects EXCEPT ![q] = objects[p]]
    /\ UNCHANGED <<call, result>>

\* Client.new waits for the core client before it records its process.
NewClient(p) ==
    /\ Ready(p)
    /\ EnsureContext(p)
    /\ WaitFor(p, "new", p, bridge'[p], "client")
    /\ UNCHANGED <<alive, objects, result>>

\* AdminClient.new waits for nothing.
NewAdmin(p) ==
    /\ Ready(p)
    /\ EnsureContext(p)
    /\ Keep(p, [kind |-> "admin", pid |-> p, bridge |-> bridge'[p]])
    /\ UNCHANGED <<alive, call>>

\* A method that checks the guard, if the object has one, and waits.
Attempt(p, o, makes) ==
    /\ Ready(p)
    /\ o \in objects[p]
    /\ IF Check(p, o)
       THEN /\ WaitFor(p, o.kind, o.pid, o.bridge, makes)
            /\ UNCHANGED <<alive, runtime, bridge, objects, result>>
       ELSE Raise(p)

\* A method that checks likewise, makes an object of the receiver's parts and
\* waits for nothing.
Derive(p, o, kind) ==
    /\ Ready(p)
    /\ o \in objects[p]
    /\ IF Check(p, o)
       THEN /\ Keep(p, [o EXCEPT !.kind = kind])
            /\ UNCHANGED <<alive, runtime, bridge, call>>
       ELSE Raise(p)

\* consumer_state, send, excise, subscribe, the queries, unsubscribe, shutdown.
ClientCall(p, o) == o.kind = "client" /\ Attempt(p, o, "nothing")

\* native_request and native_request_excise.
Request(p, o) == o.kind = "client" /\ Attempt(p, o, "nothing")

\* open_reader: the reader takes over the client's guard and bridge.
OpenReader(p, o) == o.kind = "client" /\ Attempt(p, o, "reader")

\* Reads::read, below every read of a published collection.
Read(p, o) == o.kind = "reader" /\ Attempt(p, o, "nothing")

\* Reads::scan_parts, below scan and keys of the readers.
ReaderScan(p, o) == o.kind = "reader" /\ Derive(p, o, "scan")

\* The context's on_cancel and timer methods.
ContextCall(p, o) == o.kind = "context" /\ Attempt(p, o, "nothing")

\* vend: a state handle of the context.
Vend(p, o) == o.kind = "context" /\ Derive(p, o, "state")

\* run_state, below every operation of an owned state handle.
StateCall(p, o) == o.kind = "state" /\ Attempt(p, o, "nothing")

\* scan, entries and keys of an owned state handle.
StateScan(p, o) == o.kind = "state" /\ Derive(p, o, "scan")

\* next_chunk and close.
Pull(p, o) == o.kind = "scan" /\ Attempt(p, o, "nothing")

\* create_topic and delete_topic.
AdminCall(p, o) == o.kind = "admin" /\ Attempt(p, o, "nothing")

\* A subscribed client hands a context to the handler in its own process.
HandleEvent(p, o) ==
    /\ Ready(p)
    /\ o \in objects[p]
    /\ o.kind = "client"
    /\ o.pid = p
    /\ Keep(p, [o EXCEPT !.kind = "context"])
    /\ UNCHANGED <<alive, runtime, bridge, call>>

\* The workers of p's runtime and the thread that serves the handle live in p.
Answerable(p) == runtime[p] = p /\ call[p].bridge = p

\* The closure that fills the queue has run.
Answer(p) ==
    /\ call[p] # NoCall
    /\ Answerable(p)
    /\ call' = [call EXCEPT ![p] = NoCall]
    /\ result' = "returned"
    /\ objects' = [objects EXCEPT ![p] = @ \union
           { o \in {[kind |-> call[p].makes, pid |-> call[p].pid,
                     bridge |-> call[p].bridge]} : o.kind # "nothing" }]
    /\ UNCHANGED <<alive, runtime, bridge>>

Next ==
    \/ \E p, q \in Process : Fork(p, q)
    \/ \E p \in Process :
          \/ NewClient(p)
          \/ NewAdmin(p)
          \/ Answer(p)
          \/ \E o \in objects[p] :
                \/ ClientCall(p, o)
                \/ Request(p, o)
                \/ OpenReader(p, o)
                \/ Read(p, o)
                \/ ReaderScan(p, o)
                \/ HandleEvent(p, o)
                \/ ContextCall(p, o)
                \/ Vend(p, o)
                \/ StateCall(p, o)
                \/ StateScan(p, o)
                \/ Pull(p, o)
                \/ AdminCall(p, o)

Spec == Init /\ [][Next]_vars

---------------------------------------------------------------------------
\* The variables have their types; a waiting call holds an initialised handle
\* (BRIDGE.get() after ensure_runtime_context is never empty).
TypeOK ==
    /\ alive \subseteq Process
    /\ runtime \in [Process -> Process \union {None}]
    /\ bridge \in [Process -> Process \union {None}]
    /\ objects \in [Process -> SUBSET Object]
    /\ call \in [Process -> Waiting \union {NoCall}]
    /\ result \in {"none", "raised", "returned"}

Blocked(p) == call[p] # NoCall /\ ~Answerable(p)

\* A call of an existing client or reader that waits is always answered, in
\* the process that made it and in every descendant: ForkGuard refuses all
\* others before they wait.
GuardedAnswered ==
    \A p \in Process : Blocked(p) => call[p].on \notin {"client", "reader"}

\* "Create a new client in the child process" (ForkGuard::check) and "each
\* process gets its own bridge channels" (ensure_runtime_context): whatever a
\* process makes for itself can be waited on there.
OwnObjectsAnswered ==
    \A p \in Process : Blocked(p) => call[p].pid # p
=============================================================================
