--------------------------- MODULE ClientLifecycle ---------------------------
(***************************************************************************)
(* subscribe, unsubscribe and shutdown of one Prosody::Client, called from *)
(* any number of Ruby threads.                                             *)
(*                                                                         *)
(* A call builds a future, hands it to the tokio runtime and blocks in     *)
(* Queue#pop.  Ruby may interrupt the blocked thread (Timeout, Thread#kill)*)
(* but nothing takes the future back.  Each subscribe first starts a       *)
(* processing thread of its own; it is stopped when the last owner of the  *)
(* RubyHandler lets go of it.  All shutdown calls poll one Shared future.  *)
(*                                                                         *)
(* The core client is external: it keeps a consumer state behind a lock,   *)
(* refuses what the state does not allow, and drops a handler it refused   *)
(* or no longer needs.                                                     *)
(***************************************************************************)
EXTENDS FiniteSets

CONSTANTS
    Call,       \* the calls, each made once on a thread of its own
    None,
    Initial     \* the consumer states a new core client may be in

ASSUME LifecycleAssumption ==
    /\ None \notin Call
    /\ Call \intersect {"unpolled", "ok", "error"} = {}
    /\ Initial \subseteq {"unconfigured", "configured"}

VARIABLES
    op,         \* what each call asks for
    caller,     \* the Ruby side of each call
    future,     \* the future of each call
    answer,     \* the output of that future
    processor,  \* the AsyncTaskProcessor a subscribe started
    owner,      \* who holds the RubyHandler of a subscribe
    core,       \* the consumer state and the handler it runs
    lock,       \* the future that is inside the core's lock
    shared      \* the Shared shutdown: unpolled, its poller, or its output

vars == <<op, caller, future, answer, processor, owner, core, lock, shared>>

Op == {"subscribe", "unsubscribe", "shutdown"}
Output == {"ok", "error"}

Init ==
    /\ op = [c \in Call |-> "none"]
    /\ caller = [c \in Call |-> "idle"]
    /\ future = [c \in Call |-> "none"]
    /\ answer = [c \in Call |-> "none"]
    /\ processor = [c \in Call |-> "none"]
    /\ owner = [c \in Call |-> "none"]
    /\ core \in [state : Initial, handler : {None}]
    /\ lock = None
    /\ shared = "unpolled"

---------------------------------------------------------------------------
(* The Ruby side.                                                          *)

\* validate_handler! raises, or the processing thread cannot be started.
SubscribeRefused(c) ==
    /\ caller[c] = "idle"
    /\ caller' = [caller EXCEPT ![c] = "raised"]
    /\ op' = [op EXCEPT ![c] = "subscribe"]
    /\ UNCHANGED <<future, answer, processor, owner, core, lock, shared>>

\* Client::subscribe up to wait_for: RubyHandler::new has started a processor
\* and the future owns the handler, but is not spawned.
Subscribe(c) ==
    /\ caller[c] = "idle"
    /\ caller' = [caller EXCEPT ![c] = "calling"]
    /\ op' = [op EXCEPT ![c] = "subscribe"]
    /\ processor' = [processor EXCEPT ![c] = "running"]
    /\ owner' = [owner EXCEPT ![c] = "future"]
    /\ UNCHANGED <<future, answer, core, lock, shared>>

\* Client::unsubscribe and Client::shutdown up to wait_for.
Ask(c, o) ==
    /\ caller[c] = "idle"
    /\ caller' = [caller EXCEPT ![c] = "calling"]
    /\ op' = [op EXCEPT ![c] = o]
    /\ UNCHANGED <<future, answer, processor, owner, core, lock, shared>>

\* Bridge::wait_for: the future is spawned, the caller blocks.
WaitFor(c) ==
    /\ caller[c] = "calling"
    /\ caller' = [caller EXCEPT ![c] = "waiting"]
    /\ future' = [future EXCEPT ![c] = "spawned"]
    /\ UNCHANGED <<op, answer, processor, owner, core, lock, shared>>

\* The answer is pushed by a closure on the bridge, the caller takes it.
Return(c) ==
    /\ caller[c] = "waiting"
    /\ future[c] = "done"
    /\ caller' = [caller EXCEPT ![c] = IF answer[c] = "ok" THEN "returned" ELSE "raised"]
    /\ UNCHANGED <<op, future, answer, processor, owner, core, lock, shared>>

\* An interrupt between the start of the processor and the spawn, in
\* Queue.new: the future is dropped on the Ruby thread, with its handler.
InterruptEarly(c) ==
    /\ caller[c] = "calling"
    /\ caller' = [caller EXCEPT ![c] = "interrupted"]
    /\ owner' = [owner EXCEPT ![c] = IF @ = "future" THEN "dropped" ELSE @]
    /\ UNCHANGED <<op, future, answer, processor, core, lock, shared>>

\* Faulty variant: the future belongs to the caller and is dropped with it.
InterruptAborts(c) ==
    /\ caller[c] = "waiting"
    /\ caller' = [caller EXCEPT ![c] = "interrupted"]
    /\ future' = [future EXCEPT ![c] = IF @ = "spawned" THEN "done" ELSE @]
    /\ owner' = [owner EXCEPT ![c] = IF @ = "future" THEN "dropped" ELSE @]
    /\ UNCHANGED <<op, answer, processor, core, lock, shared>>

\* An interrupt in Queue#pop: the spawned future goes on.
Interrupt(c) ==
    /\ caller[c] = "waiting"
    /\ caller' = [caller EXCEPT ![c] = "interrupted"]
    /\ UNCHANGED <<op, future, answer, processor, owner, core, lock, shared>>

---------------------------------------------------------------------------
(* The futures, on tokio workers.                                          *)

Finish(c, out) ==
    /\ future' = [future EXCEPT ![c] = "done"]
    /\ answer' = [answer EXCEPT ![c] = out]

\* Faulty variant: every shutdown call drives a shutdown of its own.
EnterUnshared(c) ==
    /\ future[c] = "spawned"
    /\ lock = None
    /\ future' = [future EXCEPT ![c] = "inside"]
    /\ lock' = c
    /\ UNCHANGED <<op, caller, answer, processor, owner, core, shared>>

\* A future takes the core's lock.  Of the shutdown calls only the one that
\* polls the Shared future first drives client.shutdown().
Enter(c) ==
    /\ future[c] = "spawned"
    /\ lock = None
    /\ op[c] = "shutdown" => shared \in {"unpolled", c}
    /\ future' = [future EXCEPT ![c] = "inside"]
    /\ lock' = c
    /\ shared' = IF op[c] = "shutdown" THEN c ELSE shared
    /\ UNCHANGED <<op, caller, answer, processor, owner, core>>

\* The first poll of the Shared future may come while another call is inside.
PollShared(c) ==
    /\ future[c] = "spawned"
    /\ op[c] = "shutdown"
    /\ shared = "unpolled"
    /\ lock # None
    /\ shared' = c
    /\ UNCHANGED <<op, caller, future, answer, processor, owner, core, lock>>

\* Faulty variant: a late caller takes what the slot holds, output or not.
ShareOutputEarly(c) ==
    /\ future[c] = "spawned"
    /\ op[c] = "shutdown"
    /\ shared # "unpolled"
    /\ Finish(c, shared)
    /\ UNCHANGED <<op, caller, processor, owner, core, lock, shared>>

\* Faulty variant: an error is not cloned, only the poller gets it.
ShareOutputOk(c) ==
    /\ future[c] = "spawned"
    /\ op[c] = "shutdown"
    /\ shared = "ok"
    /\ Finish(c, shared)
    /\ UNCHANGED <<op, caller, processor, owner, core, lock, shared>>

\* The other shutdown calls get a clone of the output.
ShareOutput(c) ==
    /\ future[c] = "spawned"
    /\ op[c] = "shutdown"
    /\ shared \in Output
    /\ Finish(c, shared)
    /\ UNCHANGED <<op, caller, processor, owner, core, lock, shared>>

\* inner.subscribe(wrapper): taken by a configured client.
SubscribeTaken(c) ==
    /\ lock = c
    /\ op[c] = "subscribe"
    /\ core.state = "configured"
    /\ core' = [state |-> "running", handler |-> c]
    /\ owner' = [owner EXCEPT ![c] = "core"]
    /\ Finish(c, "ok")
    /\ lock' = None
    /\ UNCHANGED <<op, caller, processor, shared>>

\* Faulty variant: the refused handler is kept, as by a forgotten clone.
SubscribeFailsKept(c) ==
    /\ lock = c
    /\ op[c] = "subscribe"
    /\ Finish(c, "error")
    /\ lock' = None
    /\ UNCHANGED <<op, caller, processor, owner, core, shared>>

\* inner.subscribe(wrapper): refused, or Kafka failed; the wrapper is dropped.
SubscribeFails(c) ==
    /\ lock = c
    /\ op[c] = "subscribe"
    /\ owner' = [owner EXCEPT ![c] = "dropped"]
    /\ Finish(c, "error")
    /\ lock' = None
    /\ UNCHANGED <<op, caller, processor, core, shared>>

\* The core lets go of the handler it runs, if any.
Release ==
    owner' = [d \in Call |-> IF d = core.handler THEN "dropped" ELSE owner[d]]

Unsubscribed(c) ==
    /\ lock = c
    /\ op[c] = "unsubscribe"
    /\ IF core.state = "running"
       THEN /\ core' = [state |-> "configured", handler |-> None]
            /\ Finish(c, "ok")
       ELSE /\ core' = core
            /\ Finish(c, "error")
    /\ Release
    /\ lock' = None
    /\ UNCHANGED <<op, caller, processor, shared>>

\* client.shutdown() ends, with or without an error of a service.
ShutDown(c, out) ==
    /\ lock = c
    /\ op[c] = "shutdown"
    /\ core' = [state |-> "shut_down", handler |-> None]
    /\ Release
    /\ Finish(c, out)
    /\ shared' = out
    /\ lock' = None
    /\ UNCHANGED <<op, caller, processor>>

---------------------------------------------------------------------------
(* Drop of the Scheduler, with the last clone of its RubyHandler.          *)

\* Faulty variant: the processor is stopped by unsubscribe and shutdown, not
\* by the drop of the handler.
StopServed(c) ==
    /\ owner[c] = "dropped"
    /\ answer[c] = "ok"
    /\ processor[c] = "running"
    /\ processor' = [processor EXCEPT ![c] = "stopping"]
    /\ UNCHANGED <<op, caller, future, answer, owner, core, lock, shared>>

\* The task that Drop spawns has its closure run: processor.stop(ruby).
Stop(c) ==
    /\ owner[c] = "dropped"
    /\ processor[c] = "running"
    /\ processor' = [processor EXCEPT ![c] = "stopping"]
    /\ UNCHANGED <<op, caller, future, answer, owner, core, lock, shared>>

\* The processing thread has drained its tasks (see TaskDispatch).
ThreadEnds(c) ==
    /\ processor[c] = "stopping"
    /\ processor' = [processor EXCEPT ![c] = "ended"]
    /\ UNCHANGED <<op, caller, future, answer, owner, core, lock, shared>>

---------------------------------------------------------------------------
Ruby(c) ==
    \/ SubscribeRefused(c)
    \/ Subscribe(c)
    \/ Ask(c, "unsubscribe")
    \/ Ask(c, "shutdown")
    \/ Interrupt(c)
    \/ InterruptEarly(c)

Runtime(c) ==
    \/ Enter(c)
    \/ PollShared(c)
    \/ ShareOutput(c)
    \/ SubscribeTaken(c)
    \/ SubscribeFails(c)
    \/ Unsubscribed(c)
    \/ \E out \in Output : ShutDown(c, out)

Finished ==
    /\ \A c \in Call : /\ caller[c] \notin {"idle", "calling", "waiting"}
                       /\ future[c] \in {"none", "done"}
                       /\ processor[c] \in {"none", "ended"} \/ owner[c] = "core"
    /\ UNCHANGED vars

Next ==
    \/ \E c \in Call : \/ Ruby(c)
                       \/ WaitFor(c)
                       \/ Return(c)
                       \/ Runtime(c)
                       \/ Stop(c)
                       \/ ThreadEnds(c)
    \/ Finished

\* Ruby threads that are not blocked run, spawned futures are polled when they
\* can go on (the core's lock is a fair queue), the bridge thread runs, and a
\* stopped processing thread drains.
Fairness ==
    \A c \in Call :
        /\ WF_vars(WaitFor(c))
        /\ WF_vars(Return(c))
        /\ SF_vars(Runtime(c))
        /\ WF_vars(Stop(c))
        /\ WF_vars(ThreadEnds(c))

Spec == Init /\ [][Next]_vars /\ Fairness

---------------------------------------------------------------------------
\* The variables have their types.
TypeOK ==
    /\ op \in [Call -> Op \union {"none"}]
    /\ caller \in [Call -> {"idle", "calling", "waiting", "returned", "raised", "interrupted"}]
    /\ future \in [Call -> {"none", "spawned", "inside", "done"}]
    /\ answer \in [Call -> Output \union {"none"}]
    /\ processor \in [Call -> {"none", "running", "stopping", "ended"}]
    /\ owner \in [Call -> {"none", "future", "core", "dropped"}]
    /\ core \in [state : {"unconfigured", "configured", "running", "shut_down"},
                 handler : Call \union {None}]
    /\ lock \in Call \union {None}
    /\ shared \in {"unpolled"} \union Call \union Output

\* The processor of the running subscription, and only that one, is kept: its
\* thread runs, and no failed or finished subscribe holds a handler.
SubscriptionServed ==
    /\ core.state = "running" <=> core.handler # None
    /\ \A c \in Call :
          /\ core.handler = c <=> owner[c] = "core"
          /\ owner[c] = "core" => processor[c] = "running"
          /\ owner[c] = "future" => future[c] # "done"

\* "Concurrent and repeated calls wait for the same operation": all shutdown
\* calls that end get the same answer, and none before the client is down.
OneShutdown ==
    \A c, d \in Call :
        (op[c] = "shutdown" /\ op[d] = "shutdown"
            /\ answer[c] # "none" /\ answer[d] # "none") =>
        /\ answer[c] = answer[d]
        /\ core.state = "shut_down"

\* A handler that nobody holds any more has its processing thread ended, also
\* when subscribe failed, was refused, or was interrupted on its way.
AbandonedStops ==
    \A c \in Call : (owner[c] = "dropped") ~> (processor[c] = "ended")

\* Once a shutdown has been asked for and spawned, the client gets there and
\* leaves no processing thread of an earlier subscribe, even if every caller
\* was interrupted.
ShutdownCompletes ==
    (\E c \in Call : op[c] = "shutdown" /\ future[c] # "none") ~>
        /\ core.state = "shut_down"
        /\ \A d \in Call : processor[d] \in {"none", "ended"}

\* A call that blocks returns, raises or is interrupted: no order of the calls
\* makes them wait for each other.
CallsReturn ==
    \A c \in Call : (caller[c] = "waiting") ~> (caller[c] # "waiting")
=============================================================================
