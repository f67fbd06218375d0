------------------------------ MODULE TaskDispatch ------------------------------
(***************************************************************************)
(* One event's way through the binding: the Rust future of the handler     *)
(* (handler/mod.rs), the closure it sends to the bridge thread             *)
(* (scheduler/), the command queue and fibers of the Ruby processing       *)
(* thread (lib/prosody/processor.rb), and the one-shot result channel that *)
(* comes back (scheduler/result.rs).                                       *)
(*                                                                         *)
(* Four parties interleave: the core's tokio tasks, the bridge thread, the *)
(* processing thread's fibers, and the garbage collector.  The bridge is   *)
(* the FIFO that CommandQueue promises and the module Bridge describes in  *)
(* detail: its thread may die, and then every call of it fails at once.    *)
(***************************************************************************)
EXTENDS Naturals, Sequences, FiniteSets

CONSTANTS
    Tasks,      \* events offered by the core, each a call of the handler
    Key,        \* Key[t] is the key the core serialises t under
    Replying,   \* tasks whose message asks for a response
    Internal,   \* timers that are not of type Application
    Faults      \* which failures outside the handler's contract may occur

ASSUME DispatchAssumption ==
    /\ Key \in [Tasks -> {Key[t] : t \in Tasks}]
    /\ Replying \subseteq Tasks
    /\ Internal \subseteq Tasks
    /\ Faults \subseteq {"capture", "fatal", "bridge"}

VARIABLES
    \* the tokio side, one future per task
    rust,       \* control point of the handler future
    outcome,    \* what the settled future returned
    cancelled,  \* the core cancelled the event's context
    reply,      \* answer of Bridge::run not yet taken, and its failure
    \* the result channel
    taken,      \* the AtomicTake is empty
    chan,       \* what the one-shot channel was given
    claimed,    \* a call of the callback returned true
    \* the processing thread
    worker,     \* control point of the worker fiber
    ended,      \* how the handler's code ended (history)
    signal,     \* entries in the CancellationToken's queue
    watcher,    \* the cancellation watcher fiber
    parent,     \* the fiber of run_with_cancellation
    commands,   \* AsyncTaskProcessor's @command_queue
    loop,       \* process_commands
    \* the bridge and the scheduler
    bridge,     \* whether the bridge thread lives
    bridgeQ,    \* closures waiting for it
    isShutdown, \* RubyProcessor::is_shutdown
    handler     \* whether some RubyHandler clone still holds the Scheduler

futureVars == <<rust, outcome, cancelled, reply>>
resultVars == <<taken, chan, claimed>>
fiberVars  == <<worker, ended, signal, watcher, parent>>
threadVars == <<commands, loop>>
bridgeVars == <<bridge, bridgeQ, isShutdown, handler>>
vars == <<futureVars, resultVars, fiberVars, threadVars, bridgeVars>>

ActiveStates == {"submitting", "waiting", "cancelling", "draining"}
Verdicts == {"ok", "transient", "permanent"}
Replies == {"none", "token", "rejected", "cancelled", "shutdown"}
Endings == {"returned", "transient", "permanent", "stopped", "fatal"}

Active(t) == rust[t] \in ActiveStates

Submit(t)  == [op |-> "submit", task |-> t]
CancelOp(t) == [op |-> "cancel", task |-> t]
Stop       == [op |-> "stop"]
Execute(t) == [op |-> "execute", task |-> t]
Shutdown   == [op |-> "shutdown"]

Ops  == [op : {"submit", "cancel"}, task : Tasks] \cup [op : {"stop"}]
Cmds == [op : {"execute"}, task : Tasks] \cup [op : {"shutdown"}]

Queued(s, x) == \E i \in DOMAIN s : s[i] = x

Init ==
    /\ rust = [t \in Tasks |-> "idle"]
    /\ outcome = [t \in Tasks |-> "none"]
    /\ cancelled = [t \in Tasks |-> FALSE]
    /\ reply = [t \in Tasks |-> "none"]
    /\ taken = [t \in Tasks |-> FALSE]
    /\ chan = [t \in Tasks |-> "empty"]
    /\ claimed = [t \in Tasks |-> FALSE]
    /\ worker = [t \in Tasks |-> "none"]
    /\ ended = [t \in Tasks |-> "none"]
    /\ signal = [t \in Tasks |-> 0]
    /\ watcher = [t \in Tasks |-> "none"]
    /\ parent = [t \in Tasks |-> "none"]
    /\ commands = <<>>
    /\ loop = "popping"
    /\ bridge = "open"
    /\ bridgeQ = <<>>
    /\ isShutdown = FALSE
    /\ handler = "held"

--------------------------------------------------------------------------------
(* The core: it offers at most one event of a key at a time, may cancel an *)
(* event's context, and may drop a future it no longer wants.              *)

(* Bridge::run: the closure joins the channel, or the call fails with      *)
(* BridgeError::Shutdown because the thread with its receiver is gone.     *)
CallBridge(t, op) ==
    IF bridge = "open"
    THEN bridgeQ' = Append(bridgeQ, op) /\ UNCHANGED reply
    ELSE reply' = [reply EXCEPT ![t] = "shutdown"] /\ UNCHANGED bridgeQ

(* A key's next event waits for the future of the one before it.           *)
KeyFree(t) == \A u \in Tasks : Key[u] = Key[t] => ~Active(u)

(* handle_record / on_timer up to the await of Scheduler::schedule: the    *)
(* result channel is made and the submission goes to the bridge.           *)
Dispatch(t) ==
    /\ handler = "held"
    /\ rust[t] = "idle"
    /\ t \notin Internal
    /\ KeyFree(t)
    /\ rust' = [rust EXCEPT ![t] = "submitting"]
    /\ CallBridge(t, Submit(t))
    /\ UNCHANGED <<outcome, cancelled, resultVars, fiberVars, threadVars,
                   bridge, isShutdown, handler>>

(* on_timer's early return: a middleware timer never reaches Ruby.         *)
DispatchInternal(t) ==
    /\ handler = "held"
    /\ rust[t] = "idle"
    /\ t \in Internal
    /\ KeyFree(t)
    /\ rust' = [rust EXCEPT ![t] = "done"]
    /\ outcome' = [outcome EXCEPT ![t] = "ok"]
    /\ UNCHANGED <<cancelled, reply, resultVars, fiberVars, threadVars, bridgeVars>>

Cancel(t) ==
    /\ Active(t)
    /\ ~cancelled[t]
    /\ cancelled' = [cancelled EXCEPT ![t] = TRUE]
    /\ UNCHANGED <<rust, outcome, reply, resultVars, fiberVars, threadVars, bridgeVars>>

(* Dropping the future drops the receiver and the token, and cancels        *)
(* nothing: closures already sent to the bridge still run.                 *)
DropFuture(t) ==
    /\ Active(t)
    /\ rust' = [rust EXCEPT ![t] = "dropped"]
    /\ UNCHANGED <<outcome, cancelled, reply, resultVars, fiberVars, threadVars, bridgeVars>>

(* The last RubyHandler clone goes away with the last future that borrows  *)
(* it; Drop for Scheduler sends processor.stop to the bridge, and only     *)
(* logs that there is no bridge any more.                                  *)
ReleaseHandler ==
    /\ handler = "held"
    /\ \A t \in Tasks : ~Active(t)
    /\ handler' = "released"
    /\ bridgeQ' = IF bridge = "open" THEN Append(bridgeQ, Stop) ELSE bridgeQ
    /\ UNCHANGED <<futureVars, resultVars, fiberVars, threadVars, bridge, isShutdown>>

--------------------------------------------------------------------------------
(* The bridge thread runs the closures one by one, in the order sent.      *)

(* RubyProcessor::submit: refused once stopping, else an Execute command.  *)
BridgeSubmit(t) ==
    /\ bridgeQ # <<>>
    /\ Head(bridgeQ) = Submit(t)
    /\ bridgeQ' = Tail(bridgeQ)
    /\ IF isShutdown
       THEN /\ reply' = [reply EXCEPT ![t] = "rejected"]
            /\ UNCHANGED commands
       ELSE /\ reply' = [reply EXCEPT ![t] = "token"]
            /\ commands' = Append(commands, Execute(t))
    /\ UNCHANGED <<rust, outcome, cancelled, resultVars, fiberVars, loop,
                   bridge, isShutdown, handler>>

(* Faulty variant: the signal reaches every watcher, not the token's own.  *)
BridgeCancelBroadcast(t) ==
    /\ bridgeQ # <<>>
    /\ Head(bridgeQ) = CancelOp(t)
    /\ bridgeQ' = Tail(bridgeQ)
    /\ signal' = [u \in Tasks |-> signal[u] + 1]
    /\ reply' = [reply EXCEPT ![t] = "cancelled"]
    /\ UNCHANGED <<rust, outcome, cancelled, resultVars, worker, ended, watcher,
                   parent, threadVars, bridge, isShutdown, handler>>

(* CancellationToken#cancel pushes one signal for the watcher fiber.       *)
BridgeCancel(t) ==
    /\ bridgeQ # <<>>
    /\ Head(bridgeQ) = CancelOp(t)
    /\ bridgeQ' = Tail(bridgeQ)
    /\ signal' = [signal EXCEPT ![t] = @ + 1]
    /\ reply' = [reply EXCEPT ![t] = "cancelled"]
    /\ UNCHANGED <<rust, outcome, cancelled, resultVars, worker, ended, watcher,
                   parent, threadVars, bridge, isShutdown, handler>>

(* Faulty variant: the flag is set and the Ruby processor never told.      *)
BridgeStopFlagOnly ==
    /\ bridgeQ # <<>>
    /\ Head(bridgeQ) = Stop
    /\ bridgeQ' = Tail(bridgeQ)
    /\ isShutdown' = TRUE
    /\ UNCHANGED <<futureVars, resultVars, fiberVars, threadVars, bridge, handler>>

(* RubyProcessor::stop calls AsyncTaskProcessor#stop once; that does       *)
(* nothing when the processing thread is dead.                             *)
BridgeStop ==
    /\ bridgeQ # <<>>
    /\ Head(bridgeQ) = Stop
    /\ bridgeQ' = Tail(bridgeQ)
    /\ isShutdown' = TRUE
    /\ commands' = IF ~isShutdown /\ loop \in {"popping", "draining"}
                   THEN Append(commands, Shutdown)
                   ELSE commands
    /\ UNCHANGED <<futureVars, resultVars, fiberVars, loop, bridge, handler>>

(* A closure panics and the thread unwinds: everything in the channel is   *)
(* dropped, and the calls whose oneshot goes with it fail (Bridge's Panic, *)
(* CommandQueue's Close).                                                  *)
BridgeDies ==
    /\ "bridge" \in Faults
    /\ bridge = "open"
    /\ bridge' = "closed"
    /\ bridgeQ' = <<>>
    /\ reply' = [t \in Tasks |->
                    IF Queued(bridgeQ, Submit(t)) \/ Queued(bridgeQ, CancelOp(t))
                    THEN "shutdown" ELSE reply[t]]
    /\ UNCHANGED <<rust, outcome, cancelled, resultVars, fiberVars, threadVars,
                   isShutdown, handler>>

--------------------------------------------------------------------------------
(* The handler future on tokio.                                            *)

Settle(t, v) ==
    /\ rust' = [rust EXCEPT ![t] = "done"]
    /\ outcome' = [outcome EXCEPT ![t] = v]

(* Faulty variant: a closed channel is left unclassified.                  *)
ReceivedUnclassified(c) == c

(* ProcessingError::classify_error: a closed channel is transient.         *)
Received(c) == IF c = "closed" THEN "transient" ELSE c

(* An await of the bridge fails, in schedule or in cancel: the ? leaves    *)
(* the future at once with a transient error (RubyHandlerError), whether   *)
(* or not the handler's code still runs.                                   *)
BridgeCallFails(t) ==
    /\ rust[t] \in {"submitting", "cancelling"}
    /\ reply[t] = "shutdown"
    /\ Settle(t, "transient")
    /\ UNCHANGED <<cancelled, reply, resultVars, fiberVars, threadVars, bridgeVars>>

(* schedule returns: a TaskHandle, or what submit raised (transient).      *)
Scheduled(t) ==
    /\ rust[t] = "submitting"
    /\ reply[t] \in {"token", "rejected"}
    /\ reply' = [reply EXCEPT ![t] = "none"]
    /\ IF reply[t] = "rejected"
       THEN Settle(t, "transient")
       ELSE /\ rust' = [rust EXCEPT ![t] = "waiting"]
            /\ UNCHANGED outcome
    /\ UNCHANGED <<cancelled, resultVars, fiberVars, threadVars, bridgeVars>>

(* select!, first branch.  With both branches ready tokio picks either.    *)
ReceiveResult(t) ==
    /\ rust[t] = "waiting"
    /\ chan[t] # "empty"
    /\ Settle(t, Received(chan[t]))
    /\ UNCHANGED <<cancelled, reply, resultVars, fiberVars, threadVars, bridgeVars>>

(* select!, second branch: CancellationToken::cancel goes to the bridge.   *)
ObserveCancel(t) ==
    /\ rust[t] = "waiting"
    /\ cancelled[t]
    /\ rust' = [rust EXCEPT ![t] = "cancelling"]
    /\ CallBridge(t, CancelOp(t))
    /\ UNCHANGED <<outcome, cancelled, resultVars, fiberVars, threadVars,
                   bridge, isShutdown, handler>>

(* Faulty variant: a cancelled future settles without its task's result.   *)
CancelAckedSettles(t) ==
    /\ rust[t] = "cancelling"
    /\ reply[t] = "cancelled"
    /\ reply' = [reply EXCEPT ![t] = "none"]
    /\ Settle(t, "transient")
    /\ UNCHANGED <<cancelled, resultVars, fiberVars, threadVars, bridgeVars>>

(* After cancelling, the future still waits for the task's own result.     *)
CancelAcked(t) ==
    /\ rust[t] = "cancelling"
    /\ reply[t] = "cancelled"
    /\ reply' = [reply EXCEPT ![t] = "none"]
    /\ rust' = [rust EXCEPT ![t] = "draining"]
    /\ UNCHANGED <<outcome, cancelled, resultVars, fiberVars, threadVars, bridgeVars>>

Drain(t) ==
    /\ rust[t] = "draining"
    /\ chan[t] # "empty"
    /\ Settle(t, Received(chan[t]))
    /\ UNCHANGED <<cancelled, reply, resultVars, fiberVars, threadVars, bridgeVars>>

--------------------------------------------------------------------------------
(* The processing thread's command loop.                                   *)

(* handle_execute and run_with_cancellation: worker and watcher fibers.    *)
PopExecute(t) ==
    /\ loop = "popping"
    /\ commands # <<>>
    /\ Head(commands) = Execute(t)
    /\ commands' = Tail(commands)
    /\ worker' = [worker EXCEPT ![t] = "running"]
    /\ watcher' = [watcher EXCEPT ![t] = "waiting"]
    /\ parent' = [parent EXCEPT ![t] = "running"]
    /\ UNCHANGED <<futureVars, resultVars, ended, signal, loop, bridgeVars>>

PopShutdown ==
    /\ loop = "popping"
    /\ commands # <<>>
    /\ Head(commands) = Shutdown
    /\ commands' = Tail(commands)
    /\ loop' = "draining"
    /\ UNCHANGED <<futureVars, resultVars, fiberVars, bridgeVars>>

(* Faulty variant: the loop leaves without waiting for its barrier.        *)
LoopExitsAtOnce ==
    /\ loop = "draining"
    /\ loop' = "exited"
    /\ UNCHANGED <<futureVars, resultVars, fiberVars, commands, bridgeVars>>

(* barrier.wait returned: every run_with_cancellation fiber is over.       *)
LoopExits ==
    /\ loop = "draining"
    /\ \A t \in Tasks : parent[t] # "running"
    /\ loop' = "exited"
    /\ UNCHANGED <<futureVars, resultVars, fiberVars, commands, bridgeVars>>

--------------------------------------------------------------------------------
(* The worker fiber.                                                       *)

(* Faulty variant: the sender is not taken by the first call.              *)
CallCallbackAgain(t, success, result) ==
    /\ taken' = [taken EXCEPT ![t] = TRUE]
    /\ chan' = IF Active(t) THEN [chan EXCEPT ![t] = result] ELSE chan
    /\ claimed' = IF success \/ Active(t) THEN [claimed EXCEPT ![t] = TRUE] ELSE claimed

(* ResultSender::send: the first call takes the sender; a success claims   *)
(* delivery even when the receiver is gone, a failure does not.            *)
CallCallback(t, success, result) ==
    /\ taken' = [taken EXCEPT ![t] = TRUE]
    /\ chan' = IF ~taken[t] /\ Active(t) THEN [chan EXCEPT ![t] = result] ELSE chan
    /\ claimed' = IF ~taken[t] /\ (success \/ Active(t))
                  THEN [claimed EXCEPT ![t] = TRUE]
                  ELSE claimed

(* Faulty variant: the return value is kept though nobody asked for it.    *)
ReturnVerdictsKept(t) == {"ok", "transient"}

(* What send makes of a return value: without a reply the block returns    *)
(* nil, which always has a JSON form; a reply may have none.               *)
ReturnVerdicts(t) == IF t \in Replying THEN {"ok", "transient"} ELSE {"ok"}

(* Faulty variant: an error without permanent? counts as permanent.        *)
RaiseVerdictDefaultTrue(e) == IF e \in {"permanent", "stopped"} THEN "permanent" ELSE "transient"

(* What send makes of a raised error: its permanent? method, false if it   *)
(* has none (RuntimeError of a cancelled task, any foreign exception).     *)
RaiseVerdict(e) == IF e = "permanent" THEN "permanent" ELSE "transient"

(* The block returned, possibly after rescuing Async::Stop.                *)
HandlerReturns(t) ==
    /\ worker[t] \in {"running", "stopping"}
    /\ worker' = [worker EXCEPT ![t] = "reported"]
    /\ ended' = [ended EXCEPT ![t] = "returned"]
    /\ \E v \in ReturnVerdicts(t) : CallCallback(t, TRUE, v)
    /\ UNCHANGED <<futureVars, signal, watcher, parent, threadVars, bridgeVars>>

(* The block raised a StandardError; Sentry's capture comes next.          *)
HandlerRaises(t) ==
    /\ worker[t] \in {"running", "stopping"}
    /\ worker' = [worker EXCEPT ![t] = "capturing"]
    /\ \E e \in {"transient", "permanent"} : ended' = [ended EXCEPT ![t] = e]
    /\ UNCHANGED <<futureVars, resultVars, signal, watcher, parent, threadVars, bridgeVars>>

(* Faulty variant: a cancelled worker does not report.                     *)
HandlerStopsSilently(t) ==
    /\ worker[t] = "stopping"
    /\ worker' = [worker EXCEPT ![t] = "reported"]
    /\ ended' = [ended EXCEPT ![t] = "stopped"]
    /\ UNCHANGED <<futureVars, resultVars, signal, watcher, parent, threadVars, bridgeVars>>

(* The block let Async::Stop through.                                      *)
HandlerStops(t) ==
    /\ worker[t] = "stopping"
    /\ worker' = [worker EXCEPT ![t] = "reported"]
    /\ ended' = [ended EXCEPT ![t] = "stopped"]
    /\ CallCallback(t, FALSE, RaiseVerdict("stopped"))
    /\ UNCHANGED <<futureVars, signal, watcher, parent, threadVars, bridgeVars>>

CaptureReturns(t) ==
    /\ worker[t] = "capturing"
    /\ worker' = [worker EXCEPT ![t] = "reported"]
    /\ CallCallback(t, FALSE, RaiseVerdict(ended[t]))
    /\ UNCHANGED <<futureVars, ended, signal, watcher, parent, threadVars, bridgeVars>>

(* The worker leaves through its ensure clause, which signals the watcher. *)
Leave(t) ==
    /\ worker' = [worker EXCEPT ![t] = "ended"]
    /\ signal' = [signal EXCEPT ![t] = @ + 1]

WorkerExits(t) ==
    /\ worker[t] = "reported"
    /\ Leave(t)
    /\ UNCHANGED <<futureVars, resultVars, ended, watcher, parent, threadVars, bridgeVars>>

(* An exception out of the rescue clause itself skips the callback.        *)
CaptureRaises(t) ==
    /\ "capture" \in Faults
    /\ worker[t] = "capturing"
    /\ Leave(t)
    /\ UNCHANGED <<futureVars, resultVars, ended, watcher, parent, threadVars, bridgeVars>>

(* The block raised something that is not a StandardError: no clause of    *)
(* the worker rescues it and Async takes it out of the reactor, so the     *)
(* processing thread is gone (external, Async::Task).                      *)
HandlerFatal(t) ==
    /\ "fatal" \in Faults
    /\ worker[t] \in {"running", "stopping"}
    /\ ended' = [ended EXCEPT ![t] = "fatal"]
    /\ Leave(t)
    /\ loop' = "crashed"
    /\ UNCHANGED <<futureVars, resultVars, watcher, parent, commands, bridgeVars>>

(* A reactor that is closing stops the fibers still in it.  Landing in a    *)
(* capture, that stop has the effect of CaptureRaises.                     *)
ReactorStops(t) ==
    /\ loop = "crashed"
    /\ worker[t] = "running"
    /\ worker' = [worker EXCEPT ![t] = "stopping"]
    /\ UNCHANGED <<futureVars, resultVars, ended, signal, watcher, parent, threadVars, bridgeVars>>

--------------------------------------------------------------------------------
(* The watcher fiber: it pops one signal and stops the worker, wherever    *)
(* the worker is.  The guard on signal is token.wait.                      *)
WatcherWakes(t) ==
    /\ watcher[t] = "waiting"
    /\ signal[t] > 0
    /\ signal' = [signal EXCEPT ![t] = @ - 1]
    /\ watcher' = [watcher EXCEPT ![t] = "done"]

(* Faulty variant: the watcher wakes and does not stop the worker.         *)
StopRunningMissed(t) ==
    /\ worker[t] = "running"
    /\ WatcherWakes(t)
    /\ UNCHANGED <<futureVars, resultVars, worker, ended, parent, threadVars, bridgeVars>>

(* Async::Stop rises in the handler's code at its next yield.              *)
StopRunning(t) ==
    /\ worker[t] = "running"
    /\ WatcherWakes(t)
    /\ worker' = [worker EXCEPT ![t] = "stopping"]
    /\ UNCHANGED <<futureVars, resultVars, ended, parent, threadVars, bridgeVars>>

(* A stop that lands inside the rescue clause is not rescued there: the    *)
(* worker leaves without its callback.  Only a capture that yields (a      *)
(* synchronous Sentry transport) gives the stop a place to land.           *)
StopCapturing(t) ==
    /\ "capture" \in Faults
    /\ worker[t] = "capturing"
    /\ watcher[t] = "waiting"
    /\ signal[t] > 0
    /\ watcher' = [watcher EXCEPT ![t] = "done"]
    /\ worker' = [worker EXCEPT ![t] = "ended"]
    /\ UNCHANGED <<futureVars, resultVars, ended, signal, parent, threadVars, bridgeVars>>

(* A stop that lands after the success callback is rescued and calls the   *)
(* callback a second time.                                                 *)
StopReported(t) ==
    /\ worker[t] = "reported"
    /\ ended[t] = "returned"
    /\ WatcherWakes(t)
    /\ CallCallback(t, FALSE, RaiseVerdict("stopped"))
    /\ UNCHANGED <<futureVars, worker, ended, parent, threadVars, bridgeVars>>

(* Stopping a worker that has failed already, or is over, changes nothing  *)
(* the callback can see.                                                   *)
StopEnded(t) ==
    /\ worker[t] = "ended" \/ (worker[t] = "reported" /\ ended[t] # "returned")
    /\ WatcherWakes(t)
    /\ UNCHANGED <<futureVars, resultVars, worker, ended, parent, threadVars, bridgeVars>>

(* worker_task.wait returned; the ensure clause stops the watcher.         *)
FinishTask(t) ==
    /\ parent[t] = "running"
    /\ worker[t] = "ended"
    /\ parent' = [parent EXCEPT ![t] = "finished"]
    /\ watcher' = [watcher EXCEPT ![t] = "done"]
    /\ UNCHANGED <<futureVars, resultVars, worker, ended, signal, threadVars, bridgeVars>>

(* The garbage collector frees a callback that was never called, and with  *)
(* it the sender: the receiver sees a closed channel.                      *)
CollectCallback(t) ==
    /\ parent[t] = "finished"
    /\ ~taken[t]
    /\ taken' = [taken EXCEPT ![t] = TRUE]
    /\ chan' = [chan EXCEPT ![t] = "closed"]
    /\ UNCHANGED <<futureVars, claimed, fiberVars, threadVars, bridgeVars>>

(* Nothing is left to do once the scheduler is dropped and Ruby is quiet;  *)
(* a loop whose stop died with the bridge pops for ever.                   *)
Terminated ==
    /\ handler = "released"
    /\ bridgeQ = <<>>
    /\ \/ loop \in {"exited", "crashed"}
       \/ loop = "popping" /\ commands = <<>> /\ bridge = "closed"
    /\ \A t \in Tasks : parent[t] # "running"
    /\ UNCHANGED vars

--------------------------------------------------------------------------------
Core(t) == Dispatch(t) \/ DispatchInternal(t) \/ Cancel(t) \/ DropFuture(t)
BridgeTask(t) == BridgeSubmit(t) \/ BridgeCancel(t)
Future(t) ==
    \/ BridgeCallFails(t) \/ Scheduled(t) \/ ReceiveResult(t)
    \/ ObserveCancel(t) \/ CancelAcked(t) \/ Drain(t)
HandlerEnds(t) == HandlerReturns(t) \/ HandlerRaises(t) \/ HandlerStops(t) \/ HandlerFatal(t)
WorkerMoves(t) == CaptureReturns(t) \/ WorkerExits(t) \/ CaptureRaises(t) \/ ReactorStops(t)
WatcherMoves(t) == StopRunning(t) \/ StopCapturing(t) \/ StopReported(t) \/ StopEnded(t)

TaskNext(t) ==
    \/ Core(t) \/ BridgeTask(t) \/ Future(t) \/ PopExecute(t)
    \/ HandlerEnds(t) \/ WorkerMoves(t) \/ WatcherMoves(t)
    \/ FinishTask(t) \/ CollectCallback(t)

Next ==
    \/ \E t \in Tasks : TaskNext(t)
    \/ ReleaseHandler \/ BridgeStop \/ BridgeDies
    \/ PopShutdown \/ LoopExits \/ Terminated

Spec == Init /\ [][Next]_vars

(* What the code schedules by itself: the bridge thread, tokio, the loop   *)
(* and every fiber that does not depend on the user's code; and that code, *)
(* once Async::Stop was raised in it, leaves.  A running handler may run   *)
(* forever, the core need not offer, cancel or drop anything, and the      *)
(* collector need not run.                                                 *)
StoppedHandlerEnds(t) == worker[t] = "stopping" /\ HandlerEnds(t)

BridgeThread == BridgeStop \/ \E t \in Tasks : BridgeTask(t)
CommandLoop == PopShutdown \/ LoopExits \/ \E t \in Tasks : PopExecute(t)

Fairness ==
    /\ WF_vars(BridgeThread)
    /\ WF_vars(CommandLoop)
    /\ \A t \in Tasks :
        /\ WF_vars(Future(t))
        /\ WF_vars(StoppedHandlerEnds(t))
        /\ WF_vars(WorkerMoves(t))
        /\ WF_vars(WatcherMoves(t))
        /\ WF_vars(FinishTask(t))

FairSpec == Spec /\ Fairness

(* The same, when every handler ends by itself and the collector runs.     *)
FairHandlersSpec ==
    /\ FairSpec
    /\ \A t \in Tasks : WF_vars(HandlerEnds(t)) /\ WF_vars(CollectCallback(t))

--------------------------------------------------------------------------------
(* Properties.                                                             *)

(* Every variable stays in its range; a handler's ending is recorded when  *)
(* and only when its code has ended.                                       *)
TypeOK ==
    /\ rust \in [Tasks -> {"idle", "done", "dropped"} \cup ActiveStates]
    /\ outcome \in [Tasks -> {"none"} \cup Verdicts]
    /\ cancelled \in [Tasks -> BOOLEAN]
    /\ reply \in [Tasks -> Replies]
    /\ taken \in [Tasks -> BOOLEAN]
    /\ chan \in [Tasks -> {"empty", "closed"} \cup Verdicts]
    /\ claimed \in [Tasks -> BOOLEAN]
    /\ worker \in [Tasks -> {"none", "running", "stopping", "capturing", "reported", "ended"}]
    /\ ended \in [Tasks -> {"none"} \cup Endings]
    /\ signal \in [Tasks -> Nat]
    /\ watcher \in [Tasks -> {"none", "waiting", "done"}]
    /\ parent \in [Tasks -> {"none", "running", "finished"}]
    /\ commands \in Seq(Cmds)
    /\ loop \in {"popping", "draining", "exited", "crashed"}
    /\ bridge \in {"open", "closed"}
    /\ bridgeQ \in Seq(Ops)
    /\ isShutdown \in BOOLEAN
    /\ handler \in {"held", "released"}

(* The first result given to the channel is the one the future sees: a     *)
(* later call of the callback, a late stop or the collector changes        *)
(* nothing (ResultSender::send, "guarantee that the result can only be     *)
(* sent once").                                                            *)
FirstResultWins ==
    [][\A t \in Tasks : chan[t] # "empty" => chan'[t] = chan[t]]_vars

(* The verdict the core acts on is true to how the handler's code ended,   *)
(* whatever cancellation, capture failure or crash came in between: only   *)
(* code that returned is committed, only an error that says it is          *)
(* permanent is dropped, and a returned event is retried only when its     *)
(* requested reply has no JSON form.  One future knows nothing of its      *)
(* code: a cancelled one that the bridge's death made give up, to a retry. *)
TrueTo(t, v) ==
    /\ v = "ok" => ended[t] = "returned"
    /\ v = "permanent" => ended[t] = "permanent"
    /\ v = "transient" /\ ended[t] = "returned" => t \in Replying

GaveUp(t) == cancelled[t] /\ reply[t] = "shutdown" /\ outcome[t] = "transient"

ResultTruthful ==
    \A t \in Tasks \ Internal :
        TrueTo(t, Received(chan[t])) /\ (GaveUp(t) \/ TrueTo(t, outcome[t]))

(* While a key's event has code queued or running in Ruby, no other event  *)
(* of the key has, as long as the core keeps its futures: a cancelled      *)
(* future stays until its code ends (ARCHITECTURE.md, per-key order), and  *)
(* when one gives up on its code, nothing follows it into Ruby.            *)
InRuby(t) ==
    \/ worker[t] \in {"running", "stopping"}
    \/ Queued(commands, Execute(t))
    \/ Queued(bridgeQ, Submit(t))

KeyExclusive ==
    \A t, u \in Tasks :
        /\ t # u /\ Key[t] = Key[u]
        /\ InRuby(t) /\ InRuby(u)
        => rust[t] = "dropped" \/ rust[u] = "dropped"

(* Async::Stop is raised only in code whose event was cancelled, or when   *)
(* the whole reactor goes down: a signal never reaches another task.       *)
NoSpuriousStop ==
    \A t \in Tasks :
        worker[t] = "stopping" \/ ended[t] = "stopped" => cancelled[t] \/ loop = "crashed"

(* When the loop has left through Shutdown nothing was cut off: no command *)
(* waits, every worker and watcher is over and nothing was submitted after *)
(* the stop (Scheduler's Drop, barrier.wait, the is_shutdown check).       *)
GracefulShutdown ==
    loop = "exited" =>
        /\ commands = <<>>
        /\ \A t \in Tasks :
            /\ worker[t] \in {"none", "ended"}
            /\ watcher[t] # "waiting"
            /\ reply[t] # "rejected"
            /\ ~Queued(bridgeQ, Submit(t))

(* A task that is over has called its callback.                            *)
CompletedTaskReported ==
    \A t \in Tasks : parent[t] = "finished" => taken[t]

(* A cancelled event settles even when its handler would run forever: the  *)
(* signal is never lost between the bridge, the token and the fibers.      *)
CancelSettles ==
    \A t \in Tasks : (cancelled[t] /\ Active(t)) ~> ~Active(t)

(* Once the scheduler is dropped, the processing thread ends, provided no  *)
(* handler runs forever.                                                   *)
ShutdownExits ==
    (\A t \in Tasks : []<>(worker[t] # "running")) => (isShutdown ~> (loop = "exited"))

(* Every event settles when every handler ends by itself.                  *)
EveryEventSettles ==
    \A t \in Tasks : Active(t) ~> ~Active(t)

--------------------------------------------------------------------------------
(* The inductive invariant of the proofs.                                  *)

Once(s, x) == \A i, j \in DOMAIN s : s[i] = x /\ s[j] = x => i = j

(* The task's submission failed: nothing of it is in Ruby, nor ever will.  *)
Refused(t) == reply[t] = "rejected" \/ (reply[t] = "shutdown" /\ rust[t] = "submitting")

(* A task is in at most one place of its way: not yet offered, in the       *)
(* bridge's channel, in the command queue, in a worker; or it was refused.  *)
OnePlace(t) ==
    /\ Once(bridgeQ, Submit(t))
    /\ Once(commands, Execute(t))
    /\ Queued(bridgeQ, Submit(t)) =>
        /\ rust[t] # "idle"
        /\ ~Queued(commands, Execute(t))
        /\ worker[t] = "none"
        /\ ~Refused(t)
    /\ Queued(commands, Execute(t)) =>
        /\ rust[t] # "idle"
        /\ worker[t] = "none"
        /\ ~Refused(t)
    /\ rust[t] = "idle" => worker[t] = "none" /\ ~Refused(t)
    /\ Refused(t) => worker[t] = "none"
    /\ Queued(bridgeQ, CancelOp(t)) => rust[t] \notin {"idle", "submitting"}
    /\ parent[t] = "finished" => worker[t] = "ended"
    /\ t \in Internal => rust[t] \in {"idle", "done"}

(* The ending is written once, and the callback is called only after it.   *)
EndedOnce(t) ==
    /\ ended[t] = "none" <=> worker[t] \in {"none", "running", "stopping"}
    /\ worker[t] = "capturing" => ended[t] \in {"transient", "permanent"}
    /\ ended[t] = "returned" => taken[t]
    /\ ended[t] = "none" => ~taken[t]
    /\ ~taken[t] => chan[t] = "empty"

(* A future that settles while the bridge lives has no code left in Ruby;  *)
(* one that settled without its code gave up, so a verdict stays true.     *)
SettledIsFinal(t) ==
    /\ rust[t] = "done" /\ InRuby(t) => bridge = "closed" /\ GaveUp(t)
    /\ outcome[t] # "none" => rust[t] = "done"

Truthful(t) ==
    t \notin Internal =>
        TrueTo(t, Received(chan[t])) /\ (GaveUp(t) \/ TrueTo(t, outcome[t]))

(* A call has failed only when the bridge is gone, with all it was sent;   *)
(* a token is spent only on a cancelled event.                             *)
CallsOwed ==
    /\ bridge = "closed" => bridgeQ = <<>>
    /\ \A t \in Tasks :
        /\ reply[t] = "shutdown" => bridge = "closed"
        /\ rust[t] = "cancelling" => cancelled[t]

OneActivePerKey ==
    \A t, u \in Tasks : Active(t) /\ Active(u) /\ Key[t] = Key[u] => t = u

IInv ==
    /\ TypeOK
    /\ OneActivePerKey
    /\ KeyExclusive
    /\ CallsOwed
    /\ \A t \in Tasks : OnePlace(t) /\ EndedOnce(t) /\ SettledIsFinal(t) /\ Truthful(t)

(* A signal that can still reach a task's code comes from its own token,   *)
(* which only the event's cancellation fills while that code runs.         *)
SignalsOwed(t) ==
    /\ Queued(bridgeQ, CancelOp(t)) => cancelled[t]
    /\ signal[t] > 0 /\ worker[t] # "ended" => cancelled[t]
    /\ worker[t] = "stopping" \/ ended[t] = "stopped" => cancelled[t] \/ loop = "crashed"

StopInv == \A t \in Tasks : SignalsOwed(t)

(* The stop is the last closure the bridge is sent and the last command of *)
(* the loop: it is sent when no future is left to send another one.        *)
LastOnly(s, x) == \A i \in DOMAIN s : s[i] = x => i = Len(s)

StopIsLast ==
    /\ LastOnly(bridgeQ, Stop)
    /\ LastOnly(commands, Shutdown)
    /\ Queued(bridgeQ, Stop) \/ isShutdown => handler = "released"
    /\ handler = "released" => \A t \in Tasks : ~Active(t)
    /\ isShutdown => bridgeQ = <<>>
    /\ Queued(commands, Shutdown) => isShutdown
    /\ loop \in {"draining", "exited"} => isShutdown /\ commands = <<>>
    /\ loop = "exited" => \A t \in Tasks : parent[t] # "running"

(* run_with_cancellation outlives its worker and its watcher, and nothing  *)
(* is refused: what could be has gone to the bridge before the stop.       *)
Attended(t) ==
    /\ worker[t] \notin {"none", "ended"} => parent[t] = "running"
    /\ watcher[t] = "waiting" => parent[t] = "running"
    /\ reply[t] # "rejected"

ShutdownInv == StopIsLast /\ \A t \in Tasks : Attended(t)

(* Without faults no worker ends before it has called the callback.        *)
Reported(t) == worker[t] \in {"reported", "ended"} => taken[t]

--------------------------------------------------------------------------------
(* The refinement: a future is what the core sees of a task; the command   *)
(* queue, the worker's control point and its ending are the code's         *)
(* progress; the bridge is the way into Ruby.                              *)
Phase == [t \in Tasks |-> IF Active(t) THEN "pending"
                          ELSE IF rust[t] = "done" THEN "settled" ELSE rust[t]]
Code == [t \in Tasks |-> IF worker[t] \in {"running", "stopping"} THEN "running"
                         ELSE IF Queued(commands, Execute(t)) THEN "queued" ELSE ended[t]]

Contract == INSTANCE HandlerContract
    WITH Events <- Tasks, phase <- Phase, code <- Code, verdict <- outcome,
         reachable <- (bridge = "open")

ImplementsContract == Contract!Spec

================================================================================
