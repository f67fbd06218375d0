--------------------------------- MODULE Logging ---------------------------------
(***************************************************************************)
(* logging.rs on top of Bridge: tracing events go through an unbounded     *)
(* channel to one tokio task that hands them to the Ruby logger, a limited *)
(* number at a time, by Bridge::run.  What the logger or the bridge does   *)
(* not take goes to standard error.  The bridge is itself a source of      *)
(* events: they come back to it as closures.                               *)
(***************************************************************************)
EXTENDS Bridge, SequencesExt

CONSTANTS
    Calls,      \* calls of Bridge::run that are not the logger's
    MaxEvents,  \* bound on the tracing events of the rest of the extension
    Limit       \* CONCURRENT_LOG_REQUESTS

(* Tracing events, numbered as they happen.                                *)
Events == 1 .. MaxEvents

(* The line a cause makes, and the call of Bridge::run that brings it to   *)
(* Ruby: an event, a call nobody awaits, a lost result, a leaked value.    *)
Line(cause) == [log |-> cause]
Lines == {Line(c) : c \in Events \cup Calls \cup Waits \cup Sends}

ASSUME LoggingAssumption ==
    /\ Runs = Calls \cup Lines
    /\ Calls \cap Lines = {}
    /\ Limit \in Nat \ {0}
    /\ MaxEvents \in Nat

VARIABLES
    emitted,  \* lines in the order they were sent to the channel (history)
    logChan,  \* the unbounded channel of the layer
    ruby,     \* lines the Ruby logger took, in order
    stderr    \* lines that `report` wrote, as often as it did

logVars == <<emitted, logChan, ruby, stderr>>

LogInit ==
    /\ emitted = <<>>
    /\ logChan = <<>>
    /\ ruby = <<>>
    /\ stderr = <<>>

--------------------------------------------------------------------------------
(* The layer.                                                              *)

(* The receiver lives in a task of the runtime, so the send succeeds.      *)
Emit(l) ==
    /\ l \notin ToSet(emitted)
    /\ emitted' = Append(emitted, l)
    /\ logChan' = Append(logChan, l)
    /\ UNCHANGED <<ruby, stderr>>

FreshEvents == {e \in Events : Line(e) \notin ToSet(emitted)}
EmitEvent == FreshEvents # {} /\ Emit(Line(Min(FreshEvents)))

OnEvent == EmitEvent /\ UNCHANGED vars

--------------------------------------------------------------------------------
(* The task: for_each_concurrent over log_event.                           *)

InFlight == {l \in Lines : run[l] = "waiting"}
Report(l) == stderr' = Append(stderr, l)

(* Faulty variant: CONCURRENT_LOG_REQUESTS is None.                        *)
LogEventUnlimited ==
    /\ logChan # <<>>
    /\ logChan' = Tail(logChan)
    /\ Run(Head(logChan))
    /\ IF Alive THEN UNCHANGED stderr ELSE Report(Head(logChan))
    /\ UNCHANGED <<emitted, ruby>>

(* Faulty variant: a refused closure is not reported.                      *)
LogEventSilent ==
    /\ logChan # <<>>
    /\ Cardinality(InFlight) < Limit
    /\ logChan' = Tail(logChan)
    /\ Run(Head(logChan))
    /\ UNCHANGED <<emitted, ruby, stderr>>

(* Futures are first polled in the order the stream gave them, and the     *)
(* first poll sends the closure.                                           *)
LogEvent ==
    /\ logChan # <<>>
    /\ Cardinality(InFlight) < Limit
    /\ logChan' = Tail(logChan)
    /\ Run(Head(logChan))
    /\ IF Alive THEN UNCHANGED stderr ELSE Report(Head(logChan))
    /\ UNCHANGED <<emitted, ruby>>

(* Faulty variant: whatever run answers is reported.                       *)
LogEventEndsReported(l) ==
    /\ RunResolves(l)
    /\ Report(l)
    /\ UNCHANGED <<emitted, logChan, ruby>>

LogEventEnds(l) ==
    /\ RunResolves(l)
    /\ IF answer[l] = "value" THEN UNCHANGED stderr ELSE Report(l)
    /\ UNCHANGED <<emitted, logChan, ruby>>

--------------------------------------------------------------------------------
(* The bridge's own steps and the lines they emit.                         *)

(* The closure of a line calls the user's logger, which may raise.         *)
WriteLine(l) ==
    \/ ruby' = Append(ruby, l) /\ UNCHANGED <<emitted, logChan, stderr>>
    \/ Report(l) /\ UNCHANGED <<emitted, logChan, ruby>>

(* "failed to send Ruby bridge result": the caller of run went away.       *)
ExecuteLogged ==
    /\ Execute
    /\ LET c == Head(batch) IN
           \/ c \in Lines /\ WriteLine(c)
           \/ c \in Calls /\ run[c] = "abandoned" /\ Emit(Line(c))
           \/ c \in Calls /\ run[c] # "abandoned" /\ UNCHANGED logVars
           \/ c \in Waits \cup Sends /\ UNCHANGED logVars

(* "failed to send callback to Ruby".                                      *)
FutureResolvesLogged(w) ==
    /\ FutureResolves(w)
    /\ IF Alive THEN UNCHANGED logVars ELSE Emit(Line(w))

(* "error during Ruby bridge poll", as long as MaxEvents leaves one for it. *)
PollCancelledLogged ==
    /\ PollCancelled
    /\ EmitEvent \/ (FreshEvents = {} /\ UNCHANGED logVars)

(* MaxEvents bounds the interrupts, too.                                   *)
QuietBridge ==
    \/ \E r \in Calls : Run(r) \/ RunResolves(r) \/ RunAbandoned(r)
    \/ \E w \in Waits : WaitFor(w) \/ WaitReturns(w)
    \/ TakeFirst \/ TakeNext \/ StopCollecting
    \/ FreshEvents # {} /\ Interrupt

LogTask == LogEvent \/ \E l \in Lines : LogEventEnds(l)

LogStep == OnEvent \/ LogTask

--------------------------------------------------------------------------------
(* Properties.                                                             *)

(* The Ruby logger takes lines in the order they were emitted, although up *)
(* to Limit requests run at once and the bridge takes them in batches.     *)
LinesInOrder ==
    \A i, j \in DOMAIN ruby :
        i < j => \E m, n \in DOMAIN emitted :
                    m < n /\ emitted[m] = ruby[i] /\ emitted[n] = ruby[j]

(* However many lines are emitted, no more than Limit of them stand before *)
(* the closure of an event (CONCURRENT_LOG_REQUESTS).                      *)
LinesAheadBounded ==
    Cardinality({i \in DOMAIN (batch \o chan) : (batch \o chan)[i] \in Lines}) <= Limit

(* A line is written once: by the logger or to standard error, also when   *)
(* the thread dies with the closure in its hands.                          *)
LineOnce == IsInjective(ruby \o stderr)

(* Every line is written in the end, whatever becomes of the bridge: the   *)
(* writers catch up with the emitters.                                     *)
LinesWritten == []<>(ToSet(emitted) = ToSet(ruby \o stderr))

================================================================================
