------------------------ MODULE ThreadSafeValues_proofs ------------------------
(***************************************************************************)
(* Theorems of the users of the bridge: the logger and the drops of Ruby   *)
(* values use it through its three calls only, so what Bridge_proofs says  *)
(* holds of the whole, and a wrapped value has one owner at a time.        *)
(***************************************************************************)
EXTENDS ThreadSafeValues, Bridge_proofs, FiniteSetTheorems

(* The task of the logger asks the bridge for lines and nothing else.      *)
LogTyped == logChan \in Seq(Lines)

ValuesTyped ==
    /\ holder \in [Sends -> {"rust", "closure", "none", "leaked"}]
    /\ releases \in [Sends -> 0 .. 2]

--------------------------------------------------------------------------------
(* The calls of the users are calls of the bridge.                         *)

LEMMA FirstFresh == FreshEvents # {} => Min(FreshEvents) \in FreshEvents
<1> SUFFICES ASSUME FreshEvents # {} PROVE Min(FreshEvents) \in FreshEvents
    OBVIOUS
<1> DEFINE UpTo(e) == {f \in FreshEvents : f <= e}
           Segments == {UpTo(e) : e \in FreshEvents}
<1>1. FreshEvents \subseteq Nat
    BY LoggingAssumption DEF FreshEvents, Events
<1>2. IsFiniteSet(Events) /\ FreshEvents \subseteq Events
    BY FS_Interval, LoggingAssumption DEF FreshEvents, Events
<1>3. IsWellFoundedOn(StrictSubsetOrdering(Events), SUBSET Events)
    BY <1>2, FS_StrictSubsetOrderingWellFounded, FS_FiniteSubsetsOfFinite
<1>4. Segments \subseteq SUBSET Events /\ Segments # {}
    BY <1>2
<1>5. PICK s \in Segments : \A t \in Segments : <<t, s>> \notin StrictSubsetOrdering(Events)
    <2> HIDE DEF Segments
    <2> QED
        BY <1>3, <1>4, WFMin
<1>6. PICK e \in FreshEvents : s = UpTo(e)
    OBVIOUS
<1>7. \A f \in FreshEvents : e <= f
    <2> SUFFICES ASSUME NEW f \in FreshEvents, f < e PROVE FALSE
        BY <1>1
    <2>a. e \in Nat /\ f \in Nat
        BY <1>1
    <2>b. ASSUME NEW g \in UpTo(f) PROVE g \in UpTo(e)
        <3>1. g \in FreshEvents /\ g \in Nat /\ g <= f
            BY <1>1
        <3> QED
            BY <2>a, <3>1
    <2>c. e <= e /\ ~(e <= f)
        BY <2>a
    <2>1. UpTo(f) \subseteq UpTo(e) /\ e \in UpTo(e) /\ e \notin UpTo(f)
        BY <2>b, <2>c, Zenon
    <2>2. UpTo(f) \in Segments /\ UpTo(f) \in SUBSET Events /\ UpTo(e) \in SUBSET Events
        BY <1>2
    <2> QED
        BY <1>5, <1>6, <2>1, <2>2 DEF StrictSubsetOrdering
<1> QED
    BY <1>7 DEF Min

LEMMA Emitted ==
    ASSUME LogTyped, NEW l \in Lines, Emit(l)
    PROVE  LogTyped'
BY AppendProperties DEF LogTyped, Emit

LEMMA EventEmitted == LogTyped /\ EmitEvent => LogTyped'
BY FirstFresh, Emitted DEF EmitEvent, FreshEvents, Lines

(* The task takes the first line of its channel, which is a call of run.   *)
LEMMA FirstLine ==
    ASSUME LogTyped, logChan # <<>>
    PROVE  Head(logChan) \in Lines /\ Head(logChan) \in Runs /\ Tail(logChan) \in Seq(Lines)
BY LoggingAssumption, HeadTailProperties DEF LogTyped

LEMMA UsersStep ==
    ASSUME LogTyped, [AllNext]_allVars
    PROVE  LogTyped' /\ [Next]_vars
<1>1. ASSUME NEW v \in Sends, DropOnRubyThread(v) PROVE LogTyped' /\ [Next]_vars
    BY <1>1 DEF DropOnRubyThread, LogTyped, logVars
<1>2. ASSUME NEW v \in Sends, DropElsewhere(v) PROVE LogTyped' /\ [Next]_vars
    <2>1. Line(v) \in Lines
        BY DEF Lines
    <2>2. Send(v) /\ (Emit(Line(v)) \/ UNCHANGED logVars)
        BY <1>2 DEF DropElsewhere
    <2> QED
        BY <2>1, <2>2, Emitted DEF Next, LogTyped, logVars
<1>3. CASE ExecuteClosure
    <2>1. Execute
        BY <1>3 DEF ExecuteClosure, ExecuteLogged
    <2>2. CASE logChan' = logChan
        BY <2>1, <2>2 DEF LogTyped, Next, ThreadStep
    <2>3. ASSUME NEW c \in Calls, Emit(Line(c)) PROVE LogTyped'
        BY <2>3, Emitted DEF Lines
    <2> QED
        BY <1>3, <2>1, <2>2, <2>3
        DEF ExecuteClosure, ExecuteLogged, WriteLine, Report, logVars, Next, ThreadStep
<1>4. CASE PanicReleases
    BY <1>4 DEF PanicReleases, LogTyped, logVars, Next
<1>5. ASSUME NEW w \in Waits, FutureResolvesLogged(w) PROVE LogTyped' /\ [Next]_vars
    <2>1. Line(w) \in Lines
        BY DEF Lines
    <2>2. FutureResolves(w) /\ (Emit(Line(w)) \/ UNCHANGED logVars)
        BY <1>5 DEF FutureResolvesLogged
    <2> QED
        BY <2>1, <2>2, Emitted DEF Next, LogTyped, logVars
<1>6. CASE PollCancelledLogged
    BY <1>6, EventEmitted DEF PollCancelledLogged, LogTyped, logVars, Next
<1>7. CASE QuietBridge /\ UNCHANGED logVars
    BY <1>7, LoggingAssumption DEF QuietBridge, LogTyped, logVars, Next, ThreadStep
<1>8. CASE OnEvent
    BY <1>8, EventEmitted DEF OnEvent
<1>9. CASE LogEvent
    BY <1>9, FirstLine DEF LogEvent, LogTyped, Next
<1>10. ASSUME NEW l \in Lines, LogEventEnds(l) PROVE LogTyped' /\ [Next]_vars
    BY <1>10, LoggingAssumption DEF LogEventEnds, LogTyped, Next
<1>11. CASE UNCHANGED allVars
    BY <1>11 DEF allVars, LogTyped, logVars
<1> QED
    BY <1>1, <1>2, <1>3, <1>4, <1>5, <1>6, <1>7, <1>8, <1>9, <1>10, <1>11
    DEF AllNext, LogStep, LogTask

(* The logger and the values never do to the bridge what Bridge does not   *)
(* allow (logging.rs:104, util.rs:99), so its theorems hold with them.     *)
THEOREM UsersAreCallers == AllSpec => Spec
<1>1. AllInit => Init /\ LogTyped
    BY EmptySeq DEF AllInit, LogInit, LogTyped
<1>2. LogTyped /\ [AllNext]_allVars => LogTyped' /\ [Next]_vars
    BY UsersStep
<1> QED
    BY <1>1, <1>2, PTL DEF AllSpec, Spec

--------------------------------------------------------------------------------
(* Who holds a value.                                                      *)

LEMMA InHands == ToSet(batch \o chan) = Elements(Pending)
BY DEF ToSet, Elements, Pending

(* A call hands its closure over, if anybody is there to take it.          *)
LEMMA Handled ==
    ASSUME IInv, NEW c \in Commands, Enqueue(c), UNCHANGED <<batch, executed>>
    PROVE  Elements(Pending') = Elements(Pending) \cup (IF Alive THEN {c} ELSE {})
<1>1. TypeOK /\ Pending \in Seq(Commands)
    BY TrailTyped DEF IInv
<1>2. CASE Alive
    <2>1. Pending' = Append(Pending, c)
        BY <1>1, <1>2, Enqueued
    <2>2. Elements(Append(Pending, c)) = Elements(Pending) \cup {c}
        BY <1>1, AppendElements
    <2> QED
        BY <1>2, <2>1, <2>2
<1>3. CASE ~Alive
    BY <1>1, <1>3, Enqueued
<1> QED
    BY <1>2, <1>3

(* What has run is in nobody's hands.                                      *)
LEMMA Apart ==
    IInv => /\ Pending \in Seq(Commands) /\ executed \in Seq(Commands)
            /\ Elements(Trail) = Elements(executed) \cup Elements(Pending)
            /\ Elements(executed) \cap Elements(Pending) = {}
<1> SUFFICES ASSUME IInv
             PROVE  /\ Pending \in Seq(Commands) /\ executed \in Seq(Commands)
                    /\ Elements(Trail) = Elements(executed) \cup Elements(Pending)
                    /\ Elements(executed) \cap Elements(Pending) = {}
    OBVIOUS
<1>1. TypeOK /\ Once(Trail)
    BY DEF IInv
<1>2. executed \in Seq(Commands)
    BY <1>1 DEF TypeOK
<1> QED
    BY <1>1, <1>2, TrailTyped

(* A closure that runs leaves the hands of the bridge, the others stay.    *)
LEMMA Leaves ==
    ASSUME IInv, IInv', Execute
    PROVE  /\ Head(batch) \in Elements(Pending)
           /\ Elements(Pending)' = Elements(Pending) \ {Head(batch)}
<1> DEFINE h == Head(batch)
<1>1. (/\ Elements(Trail) = Elements(executed) \cup Elements(Pending)
       /\ Elements(executed) \cap Elements(Pending) = {})'
    BY Apart, PTL
<1>2. /\ Trail' = Trail /\ Pending # <<>> /\ h = Head(Pending)
      /\ executed' = Append(executed, h)
    BY Executed DEF IInv
<1>3. h \in Commands /\ h \in Elements(Pending)
    <2>1. Pending \in Seq(Commands)
        BY Apart
    <2>2. 1 \in DOMAIN Pending /\ Head(Pending) = Pending[1]
        BY <1>2, <2>1, EmptySeq, LenProperties
    <2> QED
        BY <1>2, <2>1, <2>2 DEF Elements
<1>4. Elements(Append(executed, h)) = Elements(executed) \cup {h}
    BY <1>3, Apart, AppendElements
<1>5. Elements(Trail)' = Elements(Trail) /\ Elements(executed)' = Elements(executed) \cup {h}
    BY <1>2, <1>4 DEF Elements
<1> QED
    BY <1>1, <1>3, <1>5, Apart

(* A step that leaves the values and the sends in the hands of the bridge. *)
LEMMA SameOwners ==
    ASSUME ValuesTyped, OneOwner, UNCHANGED valueVars,
           Elements(Pending)' \cap Sends = Elements(Pending) \cap Sends
    PROVE  ValuesTyped' /\ OneOwner'
<1>1. ToSet(batch \o chan)' = Elements(Pending)'
    BY DEF ToSet, Elements, Pending
<1>2. ValuesTyped'
    BY DEF ValuesTyped, valueVars
<1>3. OneOwner'
    BY <1>1, InHands DEF OneOwner, valueVars
<1> QED
    BY <1>2, <1>3

(* A call that is not a send leaves both.                                  *)
LEMMA OtherCall ==
    ASSUME IInv, ValuesTyped, OneOwner, UNCHANGED valueVars,
           NEW c \in Runs \cup Waits, Enqueue(c), UNCHANGED <<batch, executed>>
    PROVE  ValuesTyped' /\ OneOwner'
<1>1. c \in Commands /\ c \notin Sends
    BY BridgeAssumption DEF Commands
<1>2. Elements(Pending') = Elements(Pending) \cup (IF Alive THEN {c} ELSE {})
    BY <1>1, Handled
<1>3. Elements(Pending)' \cap Sends = Elements(Pending) \cap Sends
    BY <1>1, <1>2 DEF Elements
<1> QED
    BY <1>3, SameOwners

(* Releasing values that one owner each had leaves every value with one    *)
(* owner, if exactly the released ones leave the hands of the bridge.      *)
LEMMA Released ==
    ASSUME ValuesTyped, OneOwner, NEW vs \in SUBSET Sends, Release(vs),
           \A v \in vs : holder[v] \in {"rust", "closure"},
           \A v \in Sends : v \in Elements(Pending)' <=> v \in Elements(Pending) \ vs
    PROVE  ValuesTyped' /\ OneOwner'
<1>1. ValuesTyped'
    BY DEF ValuesTyped, Release
<1>2. ASSUME NEW v \in Sends
      PROVE  /\ releases'[v] = (IF holder'[v] = "none" THEN 1 ELSE 0)
             /\ holder'[v] = "closure" <=> v \in Elements(Pending)'
    <2>1. CASE v \in vs
        BY <2>1, InHands DEF ValuesTyped, OneOwner, Release
    <2>2. CASE v \notin vs
        BY <2>2, InHands DEF ValuesTyped, OneOwner, Release
    <2> QED
        BY <2>1, <2>2
<1>3. ToSet(batch \o chan)' = Elements(Pending)'
    BY DEF ToSet, Elements, Pending
<1> QED
    BY <1>1, <1>2, <1>3 DEF OneOwner

LEMMA OwnersStep ==
    ASSUME IInv, IInv', LogTyped, ValuesTyped, OneOwner, [AllNext]_allVars
    PROVE  ValuesTyped' /\ OneOwner'
<1>q. ASSUME Elements(Pending)' = Elements(Pending), UNCHANGED valueVars
      PROVE  ValuesTyped' /\ OneOwner'
    BY <1>q, SameOwners
<1>u. ASSUME UNCHANGED <<batch, chan>> PROVE Elements(Pending)' = Elements(Pending)
    BY <1>u DEF Elements, Pending
<1>h. \A v \in Sends : holder[v] = "closure" <=> v \in Elements(Pending)
    BY InHands DEF OneOwner
<1>1. ASSUME NEW v \in Sends, DropOnRubyThread(v) PROVE ValuesTyped' /\ OneOwner'
    <2>1. Elements(Pending)' = Elements(Pending) /\ v \notin Elements(Pending)
        BY <1>1, <1>u, <1>h DEF DropOnRubyThread, vars, chanVars
    <2> QED
        BY <1>1, <2>1, Released DEF DropOnRubyThread
<1>2. ASSUME NEW v \in Sends, DropElsewhere(v) PROVE ValuesTyped' /\ OneOwner'
    <2>1. /\ Send(v) /\ holder[v] = "rust" /\ releases' = releases
          /\ holder' = [holder EXCEPT ![v] = IF Alive THEN "closure" ELSE "leaked"]
        BY <1>2 DEF DropElsewhere
    <2>2. v \notin Elements(Pending) /\ v \in Commands
        BY <2>1, <1>h DEF Commands
    <2>3. Elements(Pending)' = Elements(Pending) \cup (IF Alive THEN {v} ELSE {})
        BY <2>1, <2>2, Handled DEF Send, Elements
    <2>4. ToSet(batch \o chan)' = Elements(Pending)'
        BY DEF ToSet, Elements, Pending
    <2>5. ValuesTyped'
        BY <2>1 DEF ValuesTyped
    <2>6. ASSUME NEW u \in Sends
          PROVE  /\ releases'[u] = (IF holder'[u] = "none" THEN 1 ELSE 0)
                 /\ holder'[u] = "closure" <=> u \in Elements(Pending)'
        BY <2>1, <2>2, <2>3, <1>h DEF ValuesTyped, OneOwner
    <2> QED
        BY <2>4, <2>5, <2>6 DEF OneOwner
<1>3. CASE ExecuteClosure
    <2>1. Execute /\ Release({Head(batch)} \cap Sends)
        BY <1>3 DEF ExecuteClosure, ExecuteLogged
    <2>2. Head(batch) \in Elements(Pending) /\ Elements(Pending)' = Elements(Pending) \ {Head(batch)}
        BY <2>1, Leaves
    <2> QED
        BY <1>h, <2>1, <2>2, Released
<1>4. CASE PanicReleases
    <2>1. Release(Elements(Pending) \cap Sends) /\ batch' = <<>> /\ chan' = <<>>
        BY <1>4, InHands DEF PanicReleases, Panic
    <2>2. Elements(Pending)' = {}
        <3>1. Pending' = <<>>
            BY <2>1, EmptySeq, ConcatEmptySeq DEF Pending
        <3> QED
            BY <3>1 DEF Elements
    <2> QED
        BY <1>h, <2>1, <2>2, Released
<1>5. ASSUME NEW c \in Runs, Run(c), UNCHANGED valueVars PROVE ValuesTyped' /\ OneOwner'
    BY <1>5, OtherCall DEF Run
<1>6. ASSUME NEW w \in Waits, FutureResolves(w), UNCHANGED valueVars
      PROVE  ValuesTyped' /\ OneOwner'
    BY <1>6, OtherCall DEF FutureResolves
<1>7. CASE (TakeFirst \/ TakeNext \/ StopCollecting) /\ UNCHANGED valueVars
    <2>1. Pending' = Pending
        BY <1>7, Collected DEF IInv
    <2> QED
        BY <1>7, <2>1, <1>q DEF Elements
<1>8. ASSUME UNCHANGED <<batch, chan, valueVars>> PROVE ValuesTyped' /\ OneOwner'
    BY <1>8, <1>q, <1>u
<1>9. ASSUME QuietBridge, UNCHANGED valueVars PROVE ValuesTyped' /\ OneOwner'
    <2>1. ASSUME NEW r \in Calls, Run(r) PROVE ValuesTyped' /\ OneOwner'
        BY <1>9, <2>1, <1>5, LoggingAssumption
    <2>2. CASE (\E r \in Calls : RunResolves(r) \/ RunAbandoned(r))
               \/ (\E w \in Waits : WaitFor(w) \/ WaitReturns(w)) \/ Interrupt
        BY <1>8, <1>9, <2>2
        DEF RunResolves, RunAbandoned, WaitFor, WaitReturns, Interrupt, chanVars
    <2> QED
        BY <1>7, <1>9, <2>1, <2>2 DEF QuietBridge
<1>10. ASSUME LogStep, UNCHANGED valueVars PROVE ValuesTyped' /\ OneOwner'
    <2>1. CASE OnEvent
        BY <1>8, <1>10, <2>1 DEF OnEvent, vars, chanVars
    <2>2. CASE LogEvent
        BY <1>5, <1>10, <2>2, FirstLine DEF LogEvent
    <2>3. CASE \E l \in Lines : LogEventEnds(l)
        BY <1>8, <1>10, <2>3 DEF LogEventEnds, RunResolves, chanVars
    <2> QED
        BY <1>10, <2>1, <2>2, <2>3 DEF LogStep, LogTask
<1>11. CASE (\E w \in Waits : FutureResolvesLogged(w)) /\ UNCHANGED valueVars
    BY <1>6, <1>11 DEF FutureResolvesLogged
<1>12. CASE PollCancelledLogged /\ UNCHANGED valueVars
    BY <1>8, <1>12 DEF PollCancelledLogged, PollCancelled
<1>13. CASE UNCHANGED allVars
    BY <1>8, <1>13 DEF allVars, vars, chanVars
<1> QED
    BY <1>1, <1>2, <1>3, <1>4, <1>9, <1>10, <1>11, <1>12, <1>13 DEF AllNext

(* Whoever drops a wrapped value, wherever and whatever dies meanwhile, it *)
(* is released at most once and has one owner until then (util.rs:99).     *)
THEOREM ValuesOwned == AllSpec => []OneOwner
<1>1. AllInit => ValuesTyped /\ OneOwner /\ LogTyped
    <2> SUFFICES ASSUME AllInit PROVE ValuesTyped /\ OneOwner /\ LogTyped
        OBVIOUS
    <2>1. batch \o chan = <<>> /\ ToSet(<<>>) = {}
        BY EmptySeq, ConcatEmptySeq DEF AllInit, Init, ToSet
    <2> QED
        BY <2>1, EmptySeq DEF AllInit, LogInit, LogTyped, ValuesTyped, OneOwner
<1>2. IInv /\ IInv' /\ LogTyped /\ ValuesTyped /\ OneOwner /\ [AllNext]_allVars
        => LogTyped' /\ ValuesTyped' /\ OneOwner'
    BY UsersStep, OwnersStep
<1>3. AllSpec => []IInv
    BY UsersAreCallers, Inductive, PTL
<1> QED
    BY <1>1, <1>2, <1>3, PTL DEF AllSpec

--------------------------------------------------------------------------------
(* Log lines.  Each step writes a line, starts or ends a request of the    *)
(* logger, or is quiet: no line is written and no request of a line moves. *)

Quiet ==
    /\ \A l \in Lines : run'[l] = run[l]
    /\ UNCHANGED logVars \/ \E l \in Lines : Emit(l)
    /\ executed' = executed \/ \E c \in Commands \ Lines : executed' = Append(executed, c)
    /\ \/ Trail' = Trail
       \/ Trail' = executed'
       \/ \E c \in Commands \ Lines : Trail' = Append(Trail, c)

LineWritten(l) ==
    /\ thread = "executing"
    /\ Head(batch) = l
    /\ WriteLine(l)
    /\ executed' = Append(executed, l)
    /\ Trail' = Trail
    /\ run' = run

LEMMA LinesAreRuns ==
    /\ Lines \subseteq Runs /\ Lines \subseteq Commands
    /\ Calls \subseteq Commands \ Lines /\ Calls \subseteq Runs
    /\ Waits \subseteq Commands \ Lines /\ Sends \subseteq Commands \ Lines
BY BridgeAssumption, LoggingAssumption DEF Commands

LEMMA KindsOfSteps ==
    ASSUME IInv, [AllNext]_allVars
    PROVE  \/ Quiet
           \/ \E l \in Lines : LineWritten(l) \/ LogEventEnds(l)
           \/ LogEvent
<1>t. TypeOK
    BY DEF IInv
<1>e. ASSUME NEW c \in Commands \ Lines, Enqueue(c), UNCHANGED <<batch, executed>>
      PROVE  /\ executed' = executed
             /\ Trail' = Trail \/ \E d \in Commands \ Lines : Trail' = Append(Trail, d)
    BY <1>t, <1>e, Enqueued
<1>1. ASSUME NEW v \in Sends, DropOnRubyThread(v) PROVE Quiet
    BY <1>1 DEF DropOnRubyThread, Quiet, vars, chanVars, runVars, Trail, Pending
<1>2. ASSUME NEW v \in Sends, DropElsewhere(v) PROVE Quiet
    <2>1. UNCHANGED logVars \/ \E l \in Lines : Emit(l)
        BY <1>2 DEF DropElsewhere, Lines
    <2>2. Enqueue(v) /\ UNCHANGED <<batch, executed, run>>
        BY <1>2 DEF DropElsewhere, Send, runVars
    <2> QED
        BY <1>e, <2>1, <2>2, LinesAreRuns DEF Quiet
<1>3. CASE ExecuteClosure
    <2>1. Execute /\ run' = run /\ thread = "executing"
        BY <1>3 DEF ExecuteClosure, ExecuteLogged, Execute
    <2>2. executed' = Append(executed, Head(batch)) /\ Trail' = Trail
        BY <1>t, <2>1, Executed
    <2>3. Head(batch) \in Commands
        BY <1>t, <2>1, HeadTailProperties DEF Execute, TypeOK
    <2>4. CASE Head(batch) \in Lines
        BY <1>3, <2>1, <2>2, <2>4, LinesAreRuns DEF ExecuteClosure, ExecuteLogged, LineWritten
    <2>5. CASE Head(batch) \notin Lines
        <3>1. UNCHANGED logVars \/ \E l \in Lines : Emit(l)
            BY <1>3, <2>5 DEF ExecuteClosure, ExecuteLogged, Lines
        <3> QED
            BY <2>1, <2>2, <2>3, <2>5, <3>1 DEF Quiet
    <2> QED
        BY <2>4, <2>5
<1>4. CASE PanicReleases
    <2>1. /\ batch' = <<>> /\ chan' = <<>> /\ executed' = executed /\ run' = run
          /\ UNCHANGED logVars
        BY <1>4 DEF PanicReleases, Panic
    <2>2. Trail' = executed'
        BY <1>t, <2>1, EmptySeq, ConcatEmptySeq DEF Trail, Pending, TypeOK
    <2> QED
        BY <2>1, <2>2 DEF Quiet
<1>5. ASSUME NEW w \in Waits, FutureResolvesLogged(w) PROVE Quiet
    <2>1. UNCHANGED logVars \/ \E l \in Lines : Emit(l)
        BY <1>5 DEF FutureResolvesLogged, Lines
    <2>2. Enqueue(w) /\ UNCHANGED <<batch, executed, run>>
        BY <1>5 DEF FutureResolvesLogged, FutureResolves, runVars
    <2> QED
        BY <1>e, <2>1, <2>2, LinesAreRuns DEF Quiet
<1>m. EmitEvent => \E l \in Lines : Emit(l)
    BY FirstFresh DEF EmitEvent, FreshEvents, Lines
<1>6. CASE PollCancelledLogged
    <2>1. UNCHANGED logVars \/ \E l \in Lines : Emit(l)
        BY <1>6, <1>m DEF PollCancelledLogged
    <2>2. UNCHANGED <<batch, chan, executed, run>>
        BY <1>6 DEF PollCancelledLogged, PollCancelled, runVars
    <2> QED
        BY <2>1, <2>2 DEF Quiet, Trail, Pending
<1>7. CASE QuietBridge /\ UNCHANGED logVars
    <2>1. ASSUME NEW r \in Calls, Run(r) PROVE Quiet
        <3>1. Enqueue(r) /\ UNCHANGED <<batch, executed>>
            BY <2>1 DEF Run
        <3>2. \A l \in Lines : run'[l] = run[l]
            BY <1>t, <2>1, LinesAreRuns DEF Run, TypeOK
        <3> QED
            BY <1>7, <1>e, <3>1, <3>2, LinesAreRuns DEF Quiet
    <2>2. ASSUME NEW r \in Calls, RunResolves(r) \/ RunAbandoned(r) PROVE Quiet
        <3>1. UNCHANGED <<batch, chan, executed>>
            BY <2>2 DEF RunResolves, RunAbandoned, chanVars
        <3>2. \A l \in Lines : run'[l] = run[l]
            BY <1>t, <2>2, LinesAreRuns DEF RunResolves, RunAbandoned, TypeOK
        <3> QED
            BY <1>7, <3>1, <3>2 DEF Quiet, Trail, Pending
    <2>3. ASSUME NEW w \in Waits, WaitFor(w) \/ WaitReturns(w) PROVE Quiet
        BY <1>7, <2>3 DEF WaitFor, WaitReturns, chanVars, runVars, Quiet, Trail, Pending
    <2>4. CASE TakeFirst \/ TakeNext \/ StopCollecting
        <3>1. UNCHANGED <<executed, run>>
            BY <2>4 DEF TakeFirst, TakeNext, StopCollecting, runVars
        <3> QED
            BY <1>7, <1>t, <2>4, <3>1, Collected DEF Quiet
    <2>5. CASE Interrupt
        BY <1>7, <2>5 DEF Interrupt, runVars, Quiet, Trail, Pending
    <2> QED
        BY <1>7, <2>1, <2>2, <2>3, <2>4, <2>5 DEF QuietBridge
<1>8. CASE OnEvent
    BY <1>8, <1>m DEF OnEvent, Quiet, vars, chanVars, runVars, Trail, Pending
<1>9. CASE UNCHANGED allVars
    BY <1>9 DEF allVars, Quiet, vars, chanVars, runVars, Trail, Pending
<1> QED
    BY <1>1, <1>2, <1>3, <1>4, <1>5, <1>6, <1>7, <1>8, <1>9 DEF AllNext, LogStep, LogTask

(* What the pieces of a step say of the sets.                              *)
LEMMA QuietSets ==
    ASSUME IInv, IInv', Quiet
    PROVE  /\ Elements(executed) \subseteq Elements(executed)'
           /\ Elements(Trail)' \cap Lines \subseteq Elements(Trail)
           /\ Elements(Pending)' \cap Lines \subseteq Elements(Pending)
<1>1. /\ executed \in Seq(Commands) /\ Trail \in Seq(Commands)
      /\ Elements(Trail) = Elements(executed) \cup Elements(Pending)
    BY Apart, TrailTyped DEF IInv
<1>2. (/\ Elements(Trail) = Elements(executed) \cup Elements(Pending)
       /\ Elements(executed) \cap Elements(Pending) = {})'
    BY Apart, PTL
<1>3. /\ Elements(executed) \subseteq Elements(executed)'
      /\ Elements(executed)' \cap Lines = Elements(executed) \cap Lines
    <2>1. CASE executed' = executed
        BY <2>1 DEF Elements
    <2>2. ASSUME NEW c \in Commands \ Lines, executed' = Append(executed, c)
          PROVE  Elements(executed)' = Elements(executed) \cup {c}
        BY <1>1, <2>2, AppendElements DEF Elements
    <2> QED
        BY <2>1, <2>2 DEF Quiet
<1>4. Elements(Trail)' \cap Lines \subseteq Elements(Trail)
    <2>1. CASE Trail' = Trail
        BY <2>1 DEF Elements
    <2>2. CASE Trail' = executed'
        <3>1. Elements(Trail)' = Elements(executed)'
            BY <2>2 DEF Elements
        <3> QED
            BY <1>1, <1>3, <3>1
    <2>3. ASSUME NEW c \in Commands \ Lines, Trail' = Append(Trail, c)
          PROVE  Elements(Trail)' = Elements(Trail) \cup {c}
        BY <1>1, <2>3, AppendElements DEF Elements
    <2> QED
        BY <2>1, <2>2, <2>3 DEF Quiet
<1> QED
    BY <1>1, <1>2, <1>3, <1>4

(* The closure of a line runs after everything that ran before.            *)
LEMMA NextLine ==
    ASSUME IInv, NEW l \in Lines, LineWritten(l)
    PROVE  /\ l \notin Elements(executed) /\ l \in Elements(Trail)
           /\ Elements(executed)' = Elements(executed) \cup {l}
           /\ Elements(Trail)' = Elements(Trail)
           /\ \A a \in Elements(executed) : \E i, j \in DOMAIN Trail :
                 i < j /\ Trail[i] = a /\ Trail[j] = l
<1>1. /\ executed \in Seq(Commands) /\ batch \in Seq(Commands) /\ chan \in Seq(Commands)
      /\ batch # <<>> /\ Once(Trail)
    BY DEF IInv, TypeOK, LineWritten
<1>2. Pending \in Seq(Commands) /\ Pending # <<>> /\ Head(Pending) = l
    BY <1>1, Ends, TrailTyped DEF IInv, Pending, LineWritten
<1>3. Len(executed) \in Nat /\ Len(Pending) \in Nat \ {0} /\ Pending[1] = l
    BY <1>1, <1>2, EmptySeq, LenProperties
<1> DEFINE n == Len(executed) + 1
<1>4. /\ DOMAIN executed = 1 .. Len(executed) /\ DOMAIN Trail = 1 .. Len(executed) + Len(Pending)
      /\ \A i \in DOMAIN executed : Trail[i] = executed[i]
      /\ n \in DOMAIN Trail /\ Trail[n] = l
    BY <1>1, <1>2, <1>3, ConcatProperties, LenProperties DEF Trail
<1>5. \A i \in DOMAIN executed : i \in DOMAIN Trail /\ i < n
    BY <1>3, <1>4
<1>6. \A a \in Elements(executed) : \E i, j \in DOMAIN Trail :
          i < j /\ Trail[i] = a /\ Trail[j] = l
    BY <1>4, <1>5 DEF Elements
<1>7. l \notin Elements(executed)
    <2>1. \A i \in DOMAIN executed : executed[i] # l
        BY <1>1, <1>3, <1>4, <1>5 DEF Once
    <2> QED
        BY <2>1 DEF Elements
<1>8. l \in Elements(Trail)
    BY <1>4 DEF Elements
<1>9. Elements(executed)' = Elements(executed) \cup {l} /\ Elements(Trail)' = Elements(Trail)
    <2>1. executed' = Append(executed, l) /\ Trail' = Trail /\ l \in Commands
        BY LinesAreRuns DEF LineWritten
    <2>2. Elements(Append(executed, l)) = Elements(executed) \cup {l}
        BY <1>1, <2>1, AppendElements
    <2> QED
        BY <2>1, <2>2 DEF Elements
<1> QED
    BY <1>6, <1>7, <1>8, <1>9

(* The logger's request: its line joins the trail, if the thread lives.    *)
LEMMA Requests ==
    ASSUME IInv, LogTyped, LogEvent
    PROVE  /\ Head(logChan) \in Lines /\ run[Head(logChan)] = "idle"
           /\ Head(logChan) \notin Elements(Trail)
           /\ executed' = executed
           /\ Trail' = IF Alive THEN Append(Trail, Head(logChan)) ELSE Trail
           /\ run' = [run EXCEPT ![Head(logChan)] = IF Alive THEN "waiting" ELSE "shutdown"]
<1> DEFINE h == Head(logChan)
<1>1. h \in Lines /\ h \in Runs /\ h \in Commands /\ Run(h)
    BY FirstLine, LinesAreRuns DEF LogEvent
<1>2. /\ Enqueue(h) /\ UNCHANGED <<batch, executed>> /\ run[h] = "idle"
      /\ run' = [run EXCEPT ![h] = IF Alive THEN "waiting" ELSE "shutdown"]
    BY <1>1 DEF Run
<1>3. h \notin Elements(Trail)
    BY <1>1, <1>2 DEF IInv, Fresh
<1>4. Trail' = IF Alive THEN Append(Trail, h) ELSE Trail
    BY <1>1, <1>2, Enqueued DEF IInv
<1> QED
    BY <1>1, <1>2, <1>3, <1>4

--------------------------------------------------------------------------------
(* A line is written once.                                                 *)

(* The logger takes lines whose closure runs; standard error those whose   *)
(* closure ran and raised, and those the bridge refused or dropped.        *)
WrittenInv ==
    /\ ruby \in Seq(Lines) /\ stderr \in Seq(Lines)
    /\ Once(ruby) /\ Once(stderr)
    /\ Elements(ruby) \cap Elements(stderr) = {}
    /\ Elements(ruby) \subseteq Elements(executed)
    /\ \A l \in Elements(ruby) \cup Elements(stderr) :
          l \in Elements(executed) \/ run[l] = "shutdown"

LEMMA ConcatOnce ==
    ASSUME NEW S, NEW s \in Seq(S), NEW t \in Seq(S), Once(s), Once(t),
           Elements(s) \cap Elements(t) = {}
    PROVE  Once(s \o t)
<1>1. /\ Len(s) \in Nat /\ Len(t) \in Nat
      /\ DOMAIN s = 1 .. Len(s) /\ DOMAIN t = 1 .. Len(t)
      /\ DOMAIN (s \o t) = 1 .. Len(s) + Len(t)
    BY LenProperties, ConcatProperties
<1>2. \A i \in DOMAIN (s \o t) :
          \/ i \in DOMAIN s /\ (s \o t)[i] = s[i]
          \/ i \notin DOMAIN s /\ i - Len(s) \in DOMAIN t /\ (s \o t)[i] = t[i - Len(s)]
    BY <1>1, ConcatProperties
<1>3. \A i \in DOMAIN s, j \in DOMAIN t : s[i] # t[j]
    BY DEF Elements
<1> SUFFICES ASSUME NEW i \in DOMAIN (s \o t), NEW j \in DOMAIN (s \o t),
                    (s \o t)[i] = (s \o t)[j]
             PROVE  i = j
    BY DEF Once
<1>4. CASE i \in DOMAIN s /\ j \in DOMAIN s
    BY <1>2, <1>4 DEF Once
<1>5. CASE i \notin DOMAIN s /\ j \notin DOMAIN s
    <2>1. i - Len(s) = j - Len(s)
        BY <1>2, <1>5 DEF Once
    <2> QED
        BY <1>1, <2>1
<1>6. CASE ~(i \in DOMAIN s <=> j \in DOMAIN s)
    BY <1>2, <1>3, <1>6
<1> QED
    BY <1>4, <1>5, <1>6

LEMMA LineReported ==
    ASSUME NEW l \in Lines, ruby \in Seq(Lines), stderr \in Seq(Lines),
           Once(stderr), Elements(ruby) \cap Elements(stderr) = {},
           l \notin Elements(ruby) \cup Elements(stderr), Report(l), ruby' = ruby
    PROVE  /\ stderr' \in Seq(Lines) /\ Once(stderr')
           /\ Elements(ruby)' = Elements(ruby) /\ Elements(stderr)' = Elements(stderr) \cup {l}
           /\ Elements(ruby)' \cap Elements(stderr)' = {}
<1>1. /\ Append(stderr, l) \in Seq(Lines) /\ Once(Append(stderr, l))
      /\ Elements(Append(stderr, l)) = Elements(stderr) \cup {l}
    BY AppendElements
<1>2. stderr' = Append(stderr, l)
    BY DEF Report
<1>3. Elements(ruby)' = Elements(ruby) /\ Elements(stderr)' = Elements(Append(stderr, l))
    BY <1>2 DEF Elements
<1>4. stderr' \in Seq(Lines) /\ Once(stderr')
    BY <1>1, <1>2
<1>5. Elements(ruby) \cap (Elements(stderr) \cup {l}) = {}
    OBVIOUS
<1> QED
    BY <1>1, <1>3, <1>4, <1>5

LEMMA WrittenStep ==
    ASSUME IInv, IInv', LogTyped, WrittenInv, [AllNext]_allVars
    PROVE  WrittenInv'
<1> USE DEF WrittenInv
<1>1. CASE Quiet
    <2>1. UNCHANGED <<ruby, stderr>> /\ \A l \in Lines : run'[l] = run[l]
        BY <1>1 DEF Quiet, Emit, logVars
    <2>2. Elements(ruby)' = Elements(ruby) /\ Elements(stderr)' = Elements(stderr)
        BY <2>1 DEF Elements
    <2>3. Elements(ruby) \subseteq Lines /\ Elements(stderr) \subseteq Lines
        BY ElementOfSeq, LenProperties DEF Elements
    <2>4. Once(ruby)' /\ Once(stderr)'
        BY <2>1 DEF Once
    <2> QED
        BY <1>1, <2>1, <2>2, <2>3, <2>4, QuietSets
<1>2. ASSUME NEW l \in Lines, LineWritten(l) PROVE WrittenInv'
    <2>1. run[l] # "shutdown" /\ run' = run
        BY <1>2, LinesAreRuns DEF LineWritten, IInv, Answers
    <2>2. l \notin Elements(executed) /\ Elements(executed)' = Elements(executed) \cup {l}
        BY <1>2, NextLine
    <2>3. l \notin Elements(ruby) \cup Elements(stderr)
        BY <2>1, <2>2
    <2>4. CASE ruby' = Append(ruby, l) /\ stderr' = stderr
        <3>1. /\ Append(ruby, l) \in Seq(Lines) /\ Once(Append(ruby, l))
              /\ Elements(Append(ruby, l)) = Elements(ruby) \cup {l}
            BY <2>3, AppendElements
        <3>2. Elements(ruby)' = Elements(ruby) \cup {l} /\ Elements(stderr)' = Elements(stderr)
            BY <2>4, <3>1 DEF Elements
        <3>3. ruby' \in Seq(Lines) /\ stderr' \in Seq(Lines) /\ Once(ruby)' /\ Once(stderr)'
            BY <2>4, <3>1 DEF Once
        <3> QED
            BY <2>1, <2>2, <2>3, <3>2, <3>3
    <2>5. CASE Report(l) /\ ruby' = ruby
        BY <2>1, <2>2, <2>3, <2>5, LineReported DEF Once
    <2> QED
        BY <1>2, <2>4, <2>5 DEF LineWritten, WriteLine
<1>3. ASSUME NEW l \in Lines, LogEventEnds(l) PROVE WrittenInv'
    <2>1. /\ run[l] = "waiting" /\ ruby' = ruby /\ executed' = executed
          /\ run' = [run EXCEPT ![l] = IF answer[l] = "value" THEN "ok" ELSE "shutdown"]
        BY <1>3 DEF LogEventEnds, RunResolves, chanVars
    <2>2. l \in Runs /\ (answer[l] = "value" <=> l \in Elements(executed))
        BY LinesAreRuns DEF IInv, Answers
    <2>3. /\ Elements(executed)' = Elements(executed) /\ Elements(ruby)' = Elements(ruby)
          /\ Once(ruby)'
        BY <2>1 DEF Elements, Once
    <2>4. /\ run' \in [Runs -> {"idle", "waiting", "ok", "shutdown", "abandoned"}]
          /\ \A k \in Runs \ {l} : run'[k] = run[k]
          /\ run'[l] = IF answer[l] = "value" THEN "ok" ELSE "shutdown"
        BY <2>1, <2>2 DEF IInv, TypeOK
    <2>5. Elements(ruby) \subseteq Runs /\ Elements(stderr) \subseteq Runs
        BY LinesAreRuns, ElementOfSeq, LenProperties DEF Elements
    <2>6. CASE answer[l] = "value"
        <3>1. stderr' = stderr
            BY <1>3, <2>6 DEF LogEventEnds
        <3>2. Elements(stderr)' = Elements(stderr) /\ Once(stderr)'
            BY <3>1 DEF Elements, Once
        <3> QED
            BY <2>1, <2>2, <2>3, <2>4, <2>5, <2>6, <3>1, <3>2
    <2>7. CASE answer[l] # "value"
        <3>1. Report(l) /\ l \notin Elements(ruby) \cup Elements(stderr)
            BY <1>3, <2>1, <2>2, <2>7 DEF LogEventEnds
        <3> QED
            BY <2>1, <2>3, <2>4, <2>5, <2>7, <3>1, LineReported DEF Once
    <2> QED
        BY <2>6, <2>7
<1>4. CASE LogEvent
    <2> DEFINE h == Head(logChan)
    <2>1. /\ h \in Lines /\ h \in Runs /\ run[h] = "idle" /\ h \notin Elements(Trail)
          /\ executed' = executed /\ ruby' = ruby
          /\ run' = [run EXCEPT ![h] = IF Alive THEN "waiting" ELSE "shutdown"]
        BY <1>4, Requests, LinesAreRuns DEF LogEvent
    <2>2. h \notin Elements(ruby) \cup Elements(stderr)
        BY <2>1, Apart
    <2>3. /\ Elements(executed)' = Elements(executed) /\ Elements(ruby)' = Elements(ruby)
          /\ Once(ruby)'
        BY <2>1 DEF Elements, Once
    <2>4. /\ \A k \in Runs \ {h} : run'[k] = run[k]
          /\ run'[h] = IF Alive THEN "waiting" ELSE "shutdown"
        BY <2>1 DEF IInv, TypeOK
    <2>5. Elements(ruby) \subseteq Runs /\ Elements(stderr) \subseteq Runs
        BY LinesAreRuns, ElementOfSeq, LenProperties DEF Elements
    <2>6. CASE Alive
        <3>1. stderr' = stderr
            BY <1>4, <2>6 DEF LogEvent
        <3>2. Elements(stderr)' = Elements(stderr) /\ Once(stderr)'
            BY <3>1 DEF Elements, Once
        <3> QED
            BY <2>1, <2>2, <2>3, <2>4, <2>5, <3>1, <3>2
    <2>7. CASE ~Alive
        <3>1. Report(h)
            BY <1>4, <2>7 DEF LogEvent
        <3> QED
            BY <2>1, <2>2, <2>3, <2>4, <2>5, <2>7, <3>1, LineReported DEF Once
    <2> QED
        BY <2>6, <2>7
<1> QED
    BY <1>1, <1>2, <1>3, <1>4, KindsOfSteps

(* Whatever the logger raises, the bridge refuses or its end drops, a line *)
(* is written at most once (logging.rs:104).                               *)
THEOREM LinesWrittenOnce == AllSpec => []LineOnce
<1>1. AllInit => WrittenInv /\ LogTyped
    BY EmptySeq DEF AllInit, LogInit, LogTyped, WrittenInv, Once, Elements
<1>2. IInv /\ IInv' /\ LogTyped /\ WrittenInv /\ [AllNext]_allVars => LogTyped' /\ WrittenInv'
    BY UsersStep, WrittenStep
<1>3. WrittenInv => LineOnce
    BY ConcatOnce DEF WrittenInv, LineOnce, IsInjective, Once
<1>4. AllSpec => []IInv
    BY UsersAreCallers, Inductive, PTL
<1> QED
    BY <1>1, <1>2, <1>3, <1>4, PTL DEF AllSpec

--------------------------------------------------------------------------------
(* Lines in order.                                                         *)

Before(e, a, b) == \E m, n \in DOMAIN e : m < n /\ e[m] = a /\ e[n] = b

InOrder(e, s) ==
    \A i, j \in DOMAIN s : i < j /\ s[i] \in Lines /\ s[j] \in Lines => Before(e, s[i], s[j])

(* The lines on the trail and then those in the channel stand in the order *)
(* in which they were emitted, whatever calls stand between them.          *)
OrderInv ==
    /\ emitted \in Seq(Lines)
    /\ Elements(logChan) \subseteq Elements(emitted)
    /\ Elements(Trail) \cap Lines \subseteq Elements(emitted)
    /\ InOrder(emitted, logChan)
    /\ InOrder(emitted, Trail)
    /\ InOrder(emitted, ruby)
    /\ \A a \in Elements(Trail) \cap Lines, b \in Elements(logChan) : Before(emitted, a, b)

(* A line that comes last is in order if it was emitted last; what is no   *)
(* line does not matter.                                                   *)
LEMMA AppendOrder ==
    ASSUME NEW S, NEW e, NEW s \in Seq(S), NEW c \in S, InOrder(e, s),
           c \in Lines => \A a \in Elements(s) \cap Lines : Before(e, a, c)
    PROVE  InOrder(e, Append(s, c))
<1> DEFINE t == Append(s, c)
<1>1. /\ DOMAIN t = DOMAIN s \cup {Len(s) + 1} /\ DOMAIN s = 1 .. Len(s) /\ Len(s) \in Nat
      /\ \A i \in DOMAIN s : t[i] = s[i]
      /\ t[Len(s) + 1] = c
    BY LenProperties
<1> SUFFICES ASSUME NEW i \in DOMAIN t, NEW j \in DOMAIN t, i < j, t[i] \in Lines, t[j] \in Lines
             PROVE  Before(e, t[i], t[j])
    BY DEF InOrder
<1>2. i \in DOMAIN s
    BY <1>1
<1>3. CASE j \in DOMAIN s
    BY <1>1, <1>2, <1>3 DEF InOrder
<1>4. CASE j \notin DOMAIN s
    <2>1. t[j] = c /\ t[i] = s[i]
        BY <1>1, <1>2, <1>4
    <2>2. s[i] \in Elements(s)
        BY <1>2 DEF Elements
    <2> QED
        BY <2>1, <2>2
<1> QED
    BY <1>3, <1>4

LEMMA TailOrder ==
    ASSUME NEW S, NEW e, NEW s \in Seq(S), s # <<>>, InOrder(e, s)
    PROVE  /\ InOrder(e, Tail(s))
           /\ Elements(Tail(s)) \subseteq Elements(s) /\ Head(s) \in Elements(s)
           /\ \A b \in Elements(Tail(s)) : Head(s) \in Lines /\ b \in Lines => Before(e, Head(s), b)
<1>1. /\ Tail(s) \in Seq(S) /\ Len(s) \in Nat \ {0} /\ Len(Tail(s)) = Len(s) - 1
      /\ DOMAIN s = 1 .. Len(s) /\ DOMAIN Tail(s) = 1 .. Len(s) - 1
      /\ Head(s) = s[1]
    BY HeadTailProperties, EmptySeq, LenProperties
<1>2. \A i \in DOMAIN Tail(s) : i + 1 \in DOMAIN s /\ Tail(s)[i] = s[i + 1] /\ 1 < i + 1
    BY <1>1
<1>3. 1 \in DOMAIN s
    BY <1>1
<1>4. InOrder(e, Tail(s))
    <2> SUFFICES ASSUME NEW i \in DOMAIN Tail(s), NEW j \in DOMAIN Tail(s), i < j,
                        Tail(s)[i] \in Lines, Tail(s)[j] \in Lines
                 PROVE  Before(e, Tail(s)[i], Tail(s)[j])
        BY DEF InOrder
    <2>1. i + 1 < j + 1
        BY <1>1
    <2> QED
        BY <1>2, <2>1 DEF InOrder
<1>5. Elements(Tail(s)) \subseteq Elements(s) /\ Head(s) \in Elements(s)
    BY <1>1, <1>2, <1>3 DEF Elements
<1>6. \A b \in Elements(Tail(s)) : Head(s) \in Lines /\ b \in Lines => Before(e, Head(s), b)
    BY <1>1, <1>2, <1>3 DEF Elements, InOrder
<1> QED
    BY <1>4, <1>5, <1>6

(* A line that is emitted comes after all that were.                       *)
LEMMA EmittedLast ==
    ASSUME NEW e \in Seq(Lines), NEW l \in Lines
    PROVE  /\ \A a, b \in Lines : Before(e, a, b) => Before(Append(e, l), a, b)
           /\ \A a \in Elements(e) : Before(Append(e, l), a, l)
<1> DEFINE f == Append(e, l)
<1>1. /\ DOMAIN f = DOMAIN e \cup {Len(e) + 1} /\ DOMAIN e = 1 .. Len(e) /\ Len(e) \in Nat
      /\ \A i \in DOMAIN e : f[i] = e[i]
      /\ f[Len(e) + 1] = l
    BY LenProperties
<1>2. \A i \in DOMAIN e : i < Len(e) + 1 /\ i \in DOMAIN f
    BY <1>1
<1>3. Len(e) + 1 \in DOMAIN f
    BY <1>1
<1>4. \A a \in Elements(e) : Before(f, a, l)
    <2> SUFFICES ASSUME NEW i \in DOMAIN e PROVE Before(f, e[i], l)
        BY DEF Elements
    <2> HIDE DEF f
    <2> QED
        BY <1>1, <1>2, <1>3 DEF Before
<1>5. ASSUME NEW a \in Lines, NEW b \in Lines, Before(e, a, b) PROVE Before(f, a, b)
    <2> HIDE DEF f
    <2> QED
        BY <1>1, <1>2, <1>5 DEF Before
<1> QED
    BY <1>4, <1>5

(* What was in order stays so when a line is emitted.                      *)
LEMMA OrderGrows ==
    ASSUME NEW e, NEW f, NEW s, InOrder(e, s),
           \A a, b \in Lines : Before(e, a, b) => Before(f, a, b)
    PROVE  InOrder(f, s)
BY DEF InOrder

(* The trail of a step that moves no line.                                 *)
LEMMA QuietTrail ==
    ASSUME IInv, Quiet, InOrder(emitted, Trail)
    PROVE  InOrder(emitted, Trail')
<1>1. /\ executed \in Seq(Commands) /\ Trail \in Seq(Commands) /\ Pending \in Seq(Commands)
    BY Apart, TrailTyped DEF IInv
<1>2. InOrder(emitted, executed)
    <2>1. \A i \in DOMAIN executed : i \in DOMAIN Trail /\ Trail[i] = executed[i]
        <3>1. Len(executed) \in Nat /\ Len(Pending) \in Nat /\ DOMAIN executed = 1 .. Len(executed)
            BY <1>1, LenProperties
        <3>2. DOMAIN Trail = 1 .. Len(executed) + Len(Pending)
            BY <1>1, ConcatProperties, LenProperties DEF Trail
        <3> QED
            BY <1>1, <3>1, <3>2, ConcatProperties DEF Trail
    <2> QED
        BY <2>1 DEF InOrder
<1>3. CASE Trail' = executed'
    <2>1. CASE executed' = executed
        BY <1>2, <1>3, <2>1
    <2>2. ASSUME NEW c \in Commands \ Lines, executed' = Append(executed, c)
          PROVE  InOrder(emitted, Trail')
        BY <1>1, <1>2, <1>3, <2>2, AppendOrder
    <2> QED
        BY <2>1, <2>2 DEF Quiet
<1>4. ASSUME NEW c \in Commands \ Lines, Trail' = Append(Trail, c)
      PROVE  InOrder(emitted, Trail')
    BY <1>1, <1>4, AppendOrder
<1> QED
    BY <1>3, <1>4 DEF Quiet

LEMMA OrderStep ==
    ASSUME IInv, IInv', LogTyped, WrittenInv, OrderInv, [AllNext]_allVars
    PROVE  OrderInv'
<1>l. logChan \in Seq(Lines) /\ Elements(logChan) \subseteq Lines
    BY ElementOfSeq, LenProperties DEF LogTyped, Elements
<1>1. CASE Quiet
    <2>1. Elements(Trail)' \cap Lines \subseteq Elements(Trail) /\ InOrder(emitted, Trail')
        BY <1>1, QuietSets, QuietTrail DEF OrderInv
    <2>2. CASE UNCHANGED logVars
        <3>1. UNCHANGED <<emitted, logChan, ruby>>
            BY <2>2 DEF logVars
        <3>2. Elements(logChan)' = Elements(logChan) /\ Elements(emitted)' = Elements(emitted)
            BY <3>1 DEF Elements
        <3>3. \A a \in Elements(Trail)' \cap Lines, b \in Elements(logChan)' : Before(emitted', a, b)
            BY <2>1, <3>1, <3>2 DEF OrderInv
        <3>4. InOrder(emitted', logChan') /\ InOrder(emitted', Trail') /\ InOrder(emitted', ruby')
            BY <2>1, <3>1 DEF OrderInv
        <3> QED
            BY <2>1, <3>1, <3>2, <3>3, <3>4 DEF OrderInv
    <2>3. ASSUME NEW l \in Lines, Emit(l) PROVE OrderInv'
        <3>1. /\ emitted' = Append(emitted, l) /\ logChan' = Append(logChan, l) /\ ruby' = ruby
            BY <2>3 DEF Emit
        <3>2. /\ emitted' \in Seq(Lines) /\ Elements(emitted)' = Elements(emitted) \cup {l}
              /\ Elements(logChan)' = Elements(logChan) \cup {l}
            <4>1. /\ Append(emitted, l) \in Seq(Lines)
                  /\ Elements(Append(emitted, l)) = Elements(emitted) \cup {l}
                  /\ Elements(Append(logChan, l)) = Elements(logChan) \cup {l}
                BY <1>l, AppendElements DEF OrderInv
            <4> QED
                BY <3>1, <4>1 DEF Elements
        <3>3. /\ \A a, b \in Lines : Before(emitted, a, b) => Before(emitted', a, b)
              /\ \A a \in Elements(emitted) : Before(emitted', a, l)
            BY <3>1, EmittedLast DEF OrderInv
        <3>4. InOrder(emitted', logChan) /\ InOrder(emitted', Trail') /\ InOrder(emitted', ruby)
            BY <2>1, <3>3, OrderGrows DEF OrderInv
        <3>5. InOrder(emitted', logChan')
            BY <1>l, <3>1, <3>3, <3>4, AppendOrder DEF OrderInv
        <3>6. ASSUME NEW a \in Elements(Trail)' \cap Lines, NEW b \in Elements(logChan)'
              PROVE  Before(emitted', a, b)
            <4>1. CASE b = l
                BY <2>1, <3>3, <4>1 DEF OrderInv
            <4>2. CASE b \in Elements(logChan)
                BY <1>l, <2>1, <3>3, <4>2 DEF OrderInv
            <4> QED
                BY <3>2, <4>1, <4>2
        <3>7. /\ Elements(logChan)' \subseteq Elements(emitted)'
              /\ Elements(Trail)' \cap Lines \subseteq Elements(emitted)'
            BY <2>1, <3>2 DEF OrderInv
        <3> QED
            BY <3>1, <3>2, <3>4, <3>5, <3>6, <3>7 DEF OrderInv
    <2> QED
        BY <1>1, <2>2, <2>3 DEF Quiet
<1>2. ASSUME NEW l \in Lines, LineWritten(l) PROVE OrderInv'
    <2>1. /\ UNCHANGED <<emitted, logChan>> /\ Trail' = Trail
          /\ ruby' = ruby \/ ruby' = Append(ruby, l)
        BY <1>2 DEF LineWritten, WriteLine
    <2>2. ASSUME NEW a \in Elements(ruby) \cap Lines PROVE Before(emitted, a, l)
        <3>1. a \in Elements(executed)
            BY DEF WrittenInv
        <3>2. PICK i, j \in DOMAIN Trail : i < j /\ Trail[i] = a /\ Trail[j] = l
            BY <1>2, <3>1, NextLine
        <3> QED
            BY <3>2 DEF OrderInv, InOrder
    <2>3. InOrder(emitted, ruby')
        <3>1. InOrder(emitted, Append(ruby, l))
            BY <2>2, AppendOrder DEF OrderInv, WrittenInv
        <3> QED
            BY <2>1, <3>1 DEF OrderInv
    <2>4. /\ Elements(logChan)' = Elements(logChan) /\ Elements(emitted)' = Elements(emitted)
          /\ Elements(Trail)' = Elements(Trail)
        BY <2>1 DEF Elements
    <2> QED
        BY <2>1, <2>3, <2>4 DEF OrderInv
<1>3. ASSUME NEW l \in Lines, LogEventEnds(l) PROVE OrderInv'
    <2>1. UNCHANGED <<emitted, logChan, ruby>> /\ Trail' = Trail
        BY <1>3 DEF LogEventEnds, RunResolves, chanVars, Trail, Pending
    <2>2. /\ Elements(logChan)' = Elements(logChan) /\ Elements(emitted)' = Elements(emitted)
          /\ Elements(Trail)' = Elements(Trail)
        BY <2>1 DEF Elements
    <2> QED
        BY <2>1, <2>2 DEF OrderInv
<1>4. CASE LogEvent
    <2> DEFINE h == Head(logChan)
    <2>1. /\ h \in Lines /\ h \in Commands /\ logChan # <<>>
          /\ logChan' = Tail(logChan) /\ UNCHANGED <<emitted, ruby>>
          /\ Trail' = Trail \/ Trail' = Append(Trail, h)
        BY <1>4, Requests, LinesAreRuns DEF LogEvent
    <2>2. /\ InOrder(emitted, Tail(logChan))
          /\ Elements(Tail(logChan)) \subseteq Elements(logChan) /\ h \in Elements(logChan)
          /\ \A b \in Elements(Tail(logChan)) : Before(emitted, h, b)
        <3>1. InOrder(emitted, logChan)
            BY DEF OrderInv
        <3>2. /\ InOrder(emitted, Tail(logChan))
              /\ Elements(Tail(logChan)) \subseteq Elements(logChan) /\ h \in Elements(logChan)
              /\ \A b \in Elements(Tail(logChan)) :
                    h \in Lines /\ b \in Lines => Before(emitted, h, b)
            BY <1>l, <2>1, <3>1, TailOrder
        <3> QED
            BY <1>l, <2>1, <3>2
    <2>3. Trail \in Seq(Commands) /\ Elements(Append(Trail, h)) = Elements(Trail) \cup {h}
        BY <2>1, TrailTyped, AppendElements DEF IInv
    <2>4. InOrder(emitted, Append(Trail, h))
        BY <2>1, <2>2, <2>3, AppendOrder DEF OrderInv
    <2>5. /\ Elements(logChan)' = Elements(Tail(logChan)) /\ Elements(emitted)' = Elements(emitted)
          /\ Elements(Trail)' \subseteq Elements(Trail) \cup {h}
        BY <2>1, <2>3 DEF Elements
    <2>6. \A a \in Elements(Trail)' \cap Lines, b \in Elements(logChan)' : Before(emitted', a, b)
        BY <2>1, <2>2, <2>5 DEF OrderInv
    <2>7. InOrder(emitted', logChan') /\ InOrder(emitted', Trail') /\ InOrder(emitted', ruby')
        BY <2>1, <2>2, <2>4 DEF OrderInv
    <2>8. /\ Elements(logChan)' \subseteq Elements(emitted)'
          /\ Elements(Trail)' \cap Lines \subseteq Elements(emitted)'
        BY <2>2, <2>5 DEF OrderInv
    <2> QED
        BY <2>1, <2>6, <2>7, <2>8 DEF OrderInv
<1> QED
    BY <1>1, <1>2, <1>3, <1>4, KindsOfSteps

(* Up to Limit requests at once and batches of any size do not reorder     *)
(* what the user's logger is given (logging.rs:96).                        *)
THEOREM LinesKeepOrder == AllSpec => []LinesInOrder
<1>1. AllInit => WrittenInv /\ OrderInv /\ LogTyped
    <2> SUFFICES ASSUME AllInit PROVE WrittenInv /\ OrderInv /\ LogTyped
        OBVIOUS
    <2>1. Trail = <<>>
        BY EmptySeq, ConcatEmptySeq DEF AllInit, Init, Trail, Pending
    <2> QED
        BY <2>1, EmptySeq
        DEF AllInit, LogInit, LogTyped, WrittenInv, OrderInv, InOrder, Once, Elements
<1>2. IInv /\ IInv' /\ LogTyped /\ WrittenInv /\ OrderInv /\ [AllNext]_allVars
        => LogTyped' /\ WrittenInv' /\ OrderInv'
    BY UsersStep, WrittenStep, OrderStep
<1>3. WrittenInv /\ OrderInv => LinesInOrder
    <2> SUFFICES ASSUME WrittenInv, OrderInv, NEW i \in DOMAIN ruby, NEW j \in DOMAIN ruby, i < j
                 PROVE  Before(emitted, ruby[i], ruby[j])
        BY DEF LinesInOrder, Before
    <2>1. ruby[i] \in Lines /\ ruby[j] \in Lines
        BY ElementOfSeq, LenProperties DEF WrittenInv
    <2> QED
        BY <2>1 DEF OrderInv, InOrder
<1>4. AllSpec => []IInv
    BY UsersAreCallers, Inductive, PTL
<1> QED
    BY <1>1, <1>2, <1>3, <1>4, PTL DEF AllSpec

--------------------------------------------------------------------------------
(* Lines ahead of an event.                                                *)

(* The logger never awaits more than Limit calls, and a line in the hands  *)
(* of the bridge is one of those it awaits.                                *)
RequestInv ==
    /\ IsFiniteSet(InFlight) /\ Cardinality(InFlight) <= Limit
    /\ \A l \in Elements(Pending) \cap Lines : run[l] = "waiting"

LEMMA PendingOnce == IInv => Once(Pending)
<1> SUFFICES ASSUME IInv PROVE Once(Pending)
    OBVIOUS
<1>1. executed \in Seq(Commands) /\ Pending \in Seq(Commands) /\ Once(Trail)
    BY Apart DEF IInv
<1>2. Len(executed) \in Nat /\ Len(Pending) \in Nat /\ DOMAIN Pending = 1 .. Len(Pending)
    BY <1>1, LenProperties
<1>3. \A i \in DOMAIN Pending :
          Len(executed) + i \in DOMAIN Trail /\ Trail[Len(executed) + i] = Pending[i]
    <2>1. DOMAIN Trail = 1 .. Len(executed) + Len(Pending)
        BY <1>1, ConcatProperties, LenProperties DEF Trail
    <2> QED
        BY <1>1, <1>2, <2>1, ConcatProperties DEF Trail
<1>4. ASSUME NEW i \in DOMAIN Pending, NEW j \in DOMAIN Pending, Pending[i] = Pending[j]
      PROVE  i = j
    <2>1. Len(executed) + i = Len(executed) + j
        BY <1>1, <1>3, <1>4 DEF Once
    <2> QED
        BY <1>2, <2>1
<1> QED
    BY <1>4 DEF Once

LEMMA RequestStep ==
    ASSUME IInv, IInv', LogTyped, RequestInv, [AllNext]_allVars
    PROVE  RequestInv'
<1>a. (/\ Pending \in Seq(Commands)
       /\ Elements(Trail) = Elements(executed) \cup Elements(Pending)
       /\ Elements(executed) \cap Elements(Pending) = {})'
    BY Apart, PTL
<1>k. ASSUME \A l \in Lines : run'[l] = run[l],
             Elements(Pending)' \cap Lines \subseteq Elements(Pending)
      PROVE  RequestInv'
    <2>1. InFlight' = InFlight
        BY <1>k DEF InFlight
    <2> QED
        BY <1>k, <2>1 DEF RequestInv
<1>1. CASE Quiet
    BY <1>1, <1>k, QuietSets DEF Quiet
<1>2. ASSUME NEW l \in Lines, LineWritten(l) PROVE RequestInv'
    <2>1. Elements(Pending)' \subseteq Elements(Pending)
        BY <1>2, <1>a, NextLine, Apart
    <2> QED
        BY <1>2, <1>k, <2>1 DEF LineWritten
<1>3. ASSUME NEW l \in Lines, LogEventEnds(l) PROVE RequestInv'
    <2>1. /\ run[l] = "waiting" /\ answer[l] # "empty"
          /\ batch' = batch /\ chan' = chan
          /\ run' = [run EXCEPT ![l] = IF answer[l] = "value" THEN "ok" ELSE "shutdown"]
        BY <1>3 DEF LogEventEnds, RunResolves, chanVars
    <2>2. l \in Runs /\ Lines \subseteq Runs
        BY LinesAreRuns
    <2>3. run'[l] # "waiting" /\ \A k \in Lines \ {l} : run'[k] = run[k]
        BY <2>1, <2>2 DEF IInv, TypeOK
    <2>4. InFlight' = InFlight \ {l} /\ l \in InFlight
        BY <2>1, <2>3 DEF InFlight
    <2>5. /\ IsFiniteSet(InFlight') /\ Cardinality(InFlight') = Cardinality(InFlight) - 1
          /\ Cardinality(InFlight) \in Nat
        BY <2>4, FS_RemoveElement, FS_CardinalityType DEF RequestInv
    <2>6. l \notin Elements(Pending)
        <3>1. CASE answer[l] = "value"
            BY <2>2, <3>1, Apart DEF IInv, Answers
        <3>2. CASE answer[l] = "dropped"
            <4>1. Pending = <<>>
                BY <2>2, <3>2, EmptySeq, ConcatEmptySeq DEF IInv, Answers, TypeOK, Pending
            <4> QED
                BY <4>1 DEF Elements
        <3> QED
            BY <2>1, <2>2, <3>1, <3>2 DEF IInv, TypeOK
    <2>7. Elements(Pending)' = Elements(Pending)
        BY <2>1 DEF Elements, Pending
    <2> QED
        BY <2>3, <2>5, <2>6, <2>7, LoggingAssumption DEF RequestInv
<1>4. CASE LogEvent
    <2> DEFINE h == Head(logChan)
    <2>1. /\ h \in Lines /\ h \in Runs /\ run[h] = "idle" /\ h \in Commands
          /\ executed' = executed
          /\ Trail' = IF Alive THEN Append(Trail, h) ELSE Trail
          /\ run' = [run EXCEPT ![h] = IF Alive THEN "waiting" ELSE "shutdown"]
          /\ Cardinality(InFlight) < Limit
        BY <1>4, Requests, LinesAreRuns DEF LogEvent
    <2>2. /\ run'[h] = IF Alive THEN "waiting" ELSE "shutdown"
          /\ \A k \in Lines \ {h} : run'[k] = run[k]
        BY <2>1, LinesAreRuns DEF IInv, TypeOK
    <2>3. InFlight' = InFlight \cup (IF Alive THEN {h} ELSE {}) /\ h \notin InFlight
        BY <2>1, <2>2 DEF InFlight
    <2>4. /\ IsFiniteSet(InFlight \cup {h})
          /\ Cardinality(InFlight \cup {h}) = Cardinality(InFlight) + 1
          /\ Cardinality(InFlight) \in Nat
        BY <2>3, FS_AddElement, FS_CardinalityType DEF RequestInv
    <2>5. IsFiniteSet(InFlight') /\ Cardinality(InFlight') <= Limit
        <3>1. CASE Alive
            <4>1. InFlight' = InFlight \cup {h}
                BY <2>3, <3>1
            <4> QED
                BY <2>1, <2>4, <4>1, LoggingAssumption
        <3>2. CASE ~Alive
            <4>1. InFlight' = InFlight
                BY <2>3, <3>2
            <4> QED
                BY <4>1 DEF RequestInv
        <3> QED
            BY <3>1, <3>2
    <2>6. Trail \in Seq(Commands) /\ Elements(Append(Trail, h)) = Elements(Trail) \cup {h}
        BY <2>1, TrailTyped, AppendElements DEF IInv
    <2>7. /\ Elements(executed)' = Elements(executed)
          /\ Elements(Trail)' = Elements(Trail) \cup (IF Alive THEN {h} ELSE {})
        BY <2>1, <2>6 DEF Elements
    <2>8. /\ Elements(Trail) = Elements(executed) \cup Elements(Pending)
          /\ Elements(executed) \cap Elements(Pending) = {}
        BY Apart
    <2>9. Elements(Pending)' \subseteq Elements(Pending) \cup (IF Alive THEN {h} ELSE {})
        BY <1>a, <2>7, <2>8
    <2>10. ASSUME NEW l \in Elements(Pending)' \cap Lines PROVE run'[l] = "waiting"
        <3>1. CASE l = h
            <4>1. h \notin Elements(Pending)
                BY <1>4, <2>8, Requests
            <4> QED
                BY <2>2, <2>9, <3>1, <4>1
        <3>2. CASE l # h
            <4>1. l \in Elements(Pending) \cap Lines
                BY <2>9, <3>2
            <4>2. run'[l] = run[l]
                BY <2>2, <3>2
            <4> QED
                BY <4>1, <4>2 DEF RequestInv
        <3> QED
            BY <3>1, <3>2
    <2> QED
        BY <2>5, <2>10 DEF RequestInv
<1> QED
    BY <1>1, <1>2, <1>3, <1>4, KindsOfSteps

(* However many lines there are to write, an event waits behind at most    *)
(* CONCURRENT_LOG_REQUESTS of them (logging.rs:96).                        *)
THEOREM LinesAheadLimited == AllSpec => []LinesAheadBounded
<1>1. AllInit => RequestInv /\ LogTyped
    <2> SUFFICES ASSUME AllInit PROVE RequestInv /\ LogTyped
        OBVIOUS
    <2>1. Pending = <<>> /\ Elements(<<>>) = {}
        BY EmptySeq, ConcatEmptySeq DEF AllInit, Init, Pending, Elements
    <2>2. InFlight = {}
        BY LinesAreRuns DEF AllInit, Init, InFlight
    <2>3. Limit \in Nat
        BY LoggingAssumption
    <2> QED
        BY <2>1, <2>2, <2>3, FS_EmptySet, EmptySeq DEF RequestInv, AllInit, LogInit, LogTyped
<1>2. IInv /\ IInv' /\ LogTyped /\ RequestInv /\ [AllNext]_allVars => LogTyped' /\ RequestInv'
    BY UsersStep, RequestStep
<1>3. IInv /\ RequestInv => LinesAheadBounded
    <2> SUFFICES ASSUME IInv, RequestInv PROVE LinesAheadBounded
        OBVIOUS
    <2> DEFINE at == {i \in DOMAIN Pending : Pending[i] \in Lines}
               f == [i \in at |-> Pending[i]]
    <2>1. Once(Pending)
        BY PendingOnce
    <2>2. f \in Injection(at, InFlight)
        <3>1. ASSUME NEW i \in at PROVE Pending[i] \in InFlight
            BY DEF RequestInv, InFlight, Elements
        <3> QED
            BY <2>1, <3>1 DEF Once, Injection, IsInjective
    <2>3. Cardinality(at) <= Cardinality(InFlight)
        BY <2>2, FS_Injection DEF RequestInv
    <2>4. IsFiniteSet(at)
        BY <2>2, FS_Injection DEF RequestInv
    <2>5. Cardinality(at) \in Nat /\ Cardinality(InFlight) \in Nat /\ Limit \in Nat
        BY <2>4, FS_CardinalityType, LoggingAssumption DEF RequestInv
    <2>6. Cardinality(at) <= Limit
        BY <2>3, <2>5 DEF RequestInv
    <2> QED
        BY <2>6 DEF LinesAheadBounded, Pending
<1>4. AllSpec => []IInv
    BY UsersAreCallers, Inductive, PTL
<1> QED
    BY <1>1, <1>2, <1>3, <1>4, PTL DEF AllSpec

================================================================================
