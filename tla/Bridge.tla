--------------------------------- MODULE Bridge ---------------------------------
(***************************************************************************)
(* bridge/mod.rs: one Ruby thread runs the closures that tokio tasks and   *)
(* destructors send it.  It polls the channel with the GVL released, takes *)
(* up to BatchSize closures, and runs them with the GVL held.              *)
(*                                                                         *)
(* Three ways in: Bridge::run awaits the closure's value, Bridge::wait_for *)
(* blocks a Ruby thread until a future's result was pushed to its queue,   *)
(* and Bridge::send waits for nothing.                                     *)
(***************************************************************************)
EXTENDS Naturals, Sequences, FiniteSets

CONSTANTS
    Runs,       \* calls of Bridge::run
    Waits,      \* calls of Bridge::wait_for
    Sends,      \* calls of Bridge::send
    BatchSize,  \* POLL_BATCH_SIZE
    MayPanic    \* whether a closure may panic

ASSUME BridgeAssumption ==
    /\ Runs \cap Waits = {}
    /\ (Runs \cup Waits) \cap Sends = {}
    /\ BatchSize \in Nat \ {0}
    /\ MayPanic \in BOOLEAN

Commands == Runs \cup Waits \cup Sends

VARIABLES
    chan,        \* the unbounded channel, by the call that sent each closure
    batch,       \* the closures poll has taken and not yet run
    thread,      \* control point of the bridge thread
    interrupted, \* the unblock function has filled cancel_rx
    executed,    \* closures run to completion, in order (history)
    answer,      \* the oneshot of a run: empty, a value, or its sender dropped
    run,         \* the future of a run, as its caller sees it
    future,      \* the future a wait_for spawned on the runtime
    queue,       \* whether a wait_for's Ruby Queue holds its result
    caller,      \* the Ruby thread in wait_for
    fired        \* sends that were made

chanVars   == <<chan, batch, thread, interrupted, executed>>
runVars    == <<answer, run>>
waitVars   == <<future, queue, caller>>
vars == <<chanVars, runVars, waitVars, fired>>

Init ==
    /\ chan = <<>>
    /\ batch = <<>>
    /\ thread = "polling"
    /\ interrupted = FALSE
    /\ executed = <<>>
    /\ answer = [r \in Runs |-> "empty"]
    /\ run = [r \in Runs |-> "idle"]
    /\ future = [w \in Waits |-> "none"]
    /\ queue = [w \in Waits |-> "empty"]
    /\ caller = [w \in Waits |-> "idle"]
    /\ fired = {}

--------------------------------------------------------------------------------
(* The callers.                                                            *)

(* The channel takes a closure as long as the thread, its receiver, lives. *)
Alive == thread # "dead"
Enqueue(c) == chan' = IF Alive THEN Append(chan, c) ELSE chan

Run(r) ==
    /\ run[r] = "idle"
    /\ Enqueue(r)
    /\ run' = [run EXCEPT ![r] = IF Alive THEN "waiting" ELSE "shutdown"]
    /\ UNCHANGED <<batch, thread, interrupted, executed, answer, waitVars, fired>>

RunResolves(r) ==
    /\ run[r] = "waiting"
    /\ answer[r] # "empty"
    /\ run' = [run EXCEPT ![r] = IF answer[r] = "value" THEN "ok" ELSE "shutdown"]
    /\ UNCHANGED <<chanVars, answer, waitVars, fired>>

(* The awaiting tokio task is dropped; its closure is not taken back.      *)
RunAbandoned(r) ==
    /\ run[r] = "waiting"
    /\ run' = [run EXCEPT ![r] = "abandoned"]
    /\ UNCHANGED <<chanVars, answer, waitVars, fired>>

WaitFor(w) ==
    /\ caller[w] = "idle"
    /\ caller' = [caller EXCEPT ![w] = "blocked"]
    /\ future' = [future EXCEPT ![w] = "running"]
    /\ UNCHANGED <<chanVars, runVars, queue, fired>>

(* The spawned future resolves and sends the closure that completes the    *)
(* callback; a failed send is only logged.                                 *)
FutureResolves(w) ==
    /\ future[w] = "running"
    /\ future' = [future EXCEPT ![w] = "resolved"]
    /\ Enqueue(w)
    /\ UNCHANGED <<batch, thread, interrupted, executed, runVars, queue, caller, fired>>

WaitReturns(w) ==
    /\ caller[w] = "blocked"
    /\ queue[w] = "full"
    /\ caller' = [caller EXCEPT ![w] = "returned"]
    /\ UNCHANGED <<chanVars, runVars, future, queue, fired>>

Send(s) ==
    /\ s \notin fired
    /\ fired' = fired \cup {s}
    /\ Enqueue(s)
    /\ UNCHANGED <<batch, thread, interrupted, executed, runVars, waitVars>>

--------------------------------------------------------------------------------
(* The bridge thread.                                                      *)

(* Ruby interrupts the thread while it is off the GVL.  Once the select of *)
(* this poll is past, the signal is lost with its channel.                 *)
Interrupt ==
    /\ thread = "polling"
    /\ ~interrupted
    /\ interrupted' = TRUE
    /\ UNCHANGED <<chan, batch, thread, executed, runVars, waitVars, fired>>

(* select! took cancel_rx: Err(Cancelled) is logged and the loop polls     *)
(* again with a fresh cancel channel.                                      *)
PollCancelled ==
    /\ thread = "polling"
    /\ interrupted
    /\ interrupted' = FALSE
    /\ UNCHANGED <<chan, batch, thread, executed, runVars, waitVars, fired>>

(* select! took rx; with both ready it may, so the signal is dropped.      *)
TakeFirst ==
    /\ thread = "polling"
    /\ chan # <<>>
    /\ batch' = <<Head(chan)>>
    /\ chan' = Tail(chan)
    /\ thread' = "collecting"
    /\ interrupted' = FALSE
    /\ UNCHANGED <<executed, runVars, waitVars, fired>>

(* Faulty variant: the batch takes one closure too many.                   *)
TakeNextOffByOne ==
    /\ thread = "collecting"
    /\ Len(batch) <= BatchSize
    /\ chan # <<>>
    /\ batch' = Append(batch, Head(chan))
    /\ chan' = Tail(chan)
    /\ UNCHANGED <<thread, interrupted, executed, runVars, waitVars, fired>>

(* Faulty variant: a batch is filled from the front.                       *)
TakeNextInFront ==
    /\ thread = "collecting"
    /\ Len(batch) < BatchSize
    /\ chan # <<>>
    /\ batch' = <<Head(chan)>> \o batch
    /\ chan' = Tail(chan)
    /\ UNCHANGED <<thread, interrupted, executed, runVars, waitVars, fired>>

TakeNext ==
    /\ thread = "collecting"
    /\ Len(batch) < BatchSize
    /\ chan # <<>>
    /\ batch' = Append(batch, Head(chan))
    /\ chan' = Tail(chan)
    /\ UNCHANGED <<thread, interrupted, executed, runVars, waitVars, fired>>

(* Faulty variant: the closure that does not fit the batch is thrown away. *)
StopCollectingDrops ==
    /\ thread = "collecting"
    /\ Len(batch) = BatchSize \/ chan = <<>>
    /\ thread' = "executing"
    /\ chan' = IF chan = <<>> THEN chan ELSE Tail(chan)
    /\ UNCHANGED <<batch, interrupted, executed, runVars, waitVars, fired>>

StopCollecting ==
    /\ thread = "collecting"
    /\ Len(batch) = BatchSize \/ chan = <<>>
    /\ thread' = "executing"
    /\ UNCHANGED <<chan, batch, interrupted, executed, runVars, waitVars, fired>>

Elements(s) == {s[i] : i \in DOMAIN s}

(* Faulty variant: every run of the batch is answered by its first closure. *)
EffectWholeBatch(c) ==
    /\ answer' = [r \in Runs |-> IF r \in Elements(batch) THEN "value" ELSE answer[r]]
    /\ queue' = [w \in Waits |-> IF w = c THEN "full" ELSE queue[w]]

(* What a closure does to its own call: a run's oneshot gets the value, a  *)
(* wait_for's queue the result; a send has an effect elsewhere.            *)
Effect(c) ==
    /\ answer' = [r \in Runs |-> IF r = c THEN "value" ELSE answer[r]]
    /\ queue' = [w \in Waits |-> IF w = c THEN "full" ELSE queue[w]]

(* Faulty variant: a batch is over when its first closure has run.          *)
ExecuteFirst ==
    /\ thread = "executing"
    /\ Effect(Head(batch))
    /\ executed' = Append(executed, Head(batch))
    /\ batch' = <<>>
    /\ thread' = "polling"
    /\ UNCHANGED <<chan, interrupted, run, future, caller, fired>>

Execute ==
    /\ thread = "executing"
    /\ Effect(Head(batch))
    /\ executed' = Append(executed, Head(batch))
    /\ batch' = Tail(batch)
    /\ thread' = IF Len(batch) = 1 THEN "polling" ELSE "executing"
    /\ UNCHANGED <<chan, interrupted, run, future, caller, fired>>

(* Faulty variant: the unwinding thread leaks the rest of its batch.       *)
PanicLeaks ==
    /\ MayPanic
    /\ thread = "executing"
    /\ thread' = "dead"
    /\ answer' = [r \in Runs |-> IF r \in Elements(chan) THEN "dropped" ELSE answer[r]]
    /\ batch' = <<>>
    /\ chan' = <<>>
    /\ UNCHANGED <<interrupted, executed, run, waitVars, fired>>

(* A closure panics.  Unwinding drops it, the rest of the batch and the    *)
(* receiver with all it holds, and with them the oneshot senders inside.   *)
Panic ==
    /\ MayPanic
    /\ thread = "executing"
    /\ thread' = "dead"
    /\ answer' = [r \in Runs |-> IF r \in Elements(batch \o chan) THEN "dropped" ELSE answer[r]]
    /\ batch' = <<>>
    /\ chan' = <<>>
    /\ UNCHANGED <<interrupted, executed, run, waitVars, fired>>

ThreadStep == TakeFirst \/ TakeNext \/ StopCollecting \/ Execute

Next ==
    \/ \E r \in Runs : Run(r) \/ RunResolves(r) \/ RunAbandoned(r)
    \/ \E w \in Waits : WaitFor(w) \/ FutureResolves(w) \/ WaitReturns(w)
    \/ \E s \in Sends : Send(s)
    \/ ThreadStep \/ Interrupt \/ PollCancelled \/ Panic

Spec == Init /\ [][Next]_vars

(* The bridge thread keeps polling and running, and resolved oneshots and  *)
(* filled queues wake their waiters.  A future may run forever.            *)
Fairness ==
    /\ WF_vars(ThreadStep)
    /\ \A r \in Runs : WF_vars(RunResolves(r))
    /\ \A w \in Waits : WF_vars(WaitReturns(w))

FairSpec == Spec /\ Fairness

--------------------------------------------------------------------------------
(* Properties.                                                             *)

(* Every variable stays in its range, a batch within POLL_BATCH_SIZE, and  *)
(* the thread runs exactly when it has a batch to run.                     *)
TypeOK ==
    /\ chan \in Seq(Commands)
    /\ batch \in Seq(Commands)
    /\ Len(batch) <= BatchSize
    /\ thread \in {"polling", "collecting", "executing", "dead"}
    /\ thread \in {"polling", "dead"} <=> batch = <<>>
    /\ interrupted \in BOOLEAN
    /\ executed \in Seq(Commands)
    /\ answer \in [Runs -> {"empty", "value", "dropped"}]
    /\ run \in [Runs -> {"idle", "waiting", "ok", "shutdown", "abandoned"}]
    /\ future \in [Waits -> {"none", "running", "resolved"}]
    /\ queue \in [Waits -> {"empty", "full"}]
    /\ caller \in [Waits -> {"idle", "blocked", "returned"}]
    /\ fired \subseteq Sends

(* A caller of run is told the truth: Ok when its closure ran to the end,  *)
(* Shutdown only when it did not (Bridge::run, "Returns                    *)
(* BridgeError::Shutdown if the bridge has been shut down").               *)
RunTruthful ==
    \A r \in Runs :
        /\ run[r] = "ok" => r \in Elements(executed)
        /\ run[r] = "shutdown" => r \notin Elements(executed) /\ thread = "dead"

(* Nobody awaits run forever, even if the thread dies with the closure in  *)
(* its batch or its channel.                                               *)
RunAnswered == \A r \in Runs : run[r] = "waiting" ~> run[r] # "waiting"

(* A Ruby thread in wait_for returns once its future resolved, as long as  *)
(* the bridge thread lives; interrupts and full batches only delay it.     *)
WaitAnswered ==
    \A w \in Waits :
        (caller[w] = "blocked" /\ future[w] = "resolved")
            ~> (caller[w] = "returned" \/ thread = "dead")

(* The refinement: batching, interrupts and re-polling are invisible.      *)
Abstract == INSTANCE CommandQueue WITH
    pending <- batch \o chan,
    performed <- executed,
    open <- (thread # "dead")

ImplementsCommandQueue == Abstract!Spec

================================================================================
