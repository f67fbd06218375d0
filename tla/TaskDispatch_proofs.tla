--------------------------- MODULE TaskDispatch_proofs ---------------------------
(***************************************************************************)
(* Theorems of TaskDispatch, for every set of tasks, keys and faults.      *)
(*                                                                         *)
(* The inductive invariant says that a task goes through the two queues    *)
(* once: it is waiting for the bridge, or waiting for the loop, or has a   *)
(* worker, never two of these and never one of them twice.  From that it   *)
(* follows that the history of how its code ended is written once, and so  *)
(* that a verdict, once true to it, stays true.                            *)
(***************************************************************************)
EXTENDS TaskDispatch, TLAPS

--------------------------------------------------------------------------------
(* Queues.                                                                 *)

(* What joins a queue is in it, and nothing else is new.                   *)
LEMMA AppendQueued ==
    ASSUME NEW S, NEW s \in Seq(S), NEW e \in S, NEW x
    PROVE  Queued(Append(s, e), x) <=> Queued(s, x) \/ e = x
<1>1. DOMAIN Append(s, e) = DOMAIN s \cup {Len(s) + 1}
  OBVIOUS
<1>2. \A i \in DOMAIN s : Append(s, e)[i] = s[i] /\ i # Len(s) + 1
  OBVIOUS
<1>3. Append(s, e)[Len(s) + 1] = e
  OBVIOUS
<1> QED
  BY <1>1, <1>2, <1>3 DEF Queued

(* A queue that holds x once still does when something else joins.         *)
LEMMA AppendOnce ==
    ASSUME NEW S, NEW s \in Seq(S), NEW e \in S, NEW x,
           Once(s, x), e = x => ~Queued(s, x)
    PROVE  Once(Append(s, e), x)
<1>1. DOMAIN Append(s, e) = DOMAIN s \cup {Len(s) + 1}
  OBVIOUS
<1>2. \A i \in DOMAIN s : Append(s, e)[i] = s[i]
  OBVIOUS
<1>3. Append(s, e)[Len(s) + 1] = e
  OBVIOUS
<1> QED
  BY <1>1, <1>2, <1>3 DEF Queued, Once

(* What joins a queue, or does not, leaves the rest as it was.             *)
LEMMA AppendOther ==
    ASSUME NEW S, NEW s \in Seq(S), NEW e \in S, NEW x, e # x,
           NEW r, r = s \/ r = Append(s, e)
    PROVE  Queued(r, x) <=> Queued(s, x)
<1>1. Queued(Append(s, e), x) <=> Queued(s, x)
  BY AppendQueued
<1> QED
  BY <1>1, Zenon

(* What is left behind the head was in the queue, and once if it was once. *)
LEMMA TailQueued ==
    ASSUME NEW S, NEW s \in Seq(S), s # <<>>, NEW x
    PROVE  /\ Queued(Tail(s), x) => Queued(s, x)
           /\ Once(s, x) => Once(Tail(s), x)
           /\ x # Head(s) => (Queued(s, x) <=> Queued(Tail(s), x))
<1>1. DOMAIN Tail(s) = 1 .. (Len(s) - 1) /\ DOMAIN s = 1 .. Len(s)
  OBVIOUS
<1>2. \A i \in 1 .. (Len(s) - 1) : Tail(s)[i] = s[i + 1] /\ i + 1 \in 1 .. Len(s)
  OBVIOUS
<1>3. Len(s) \in Nat /\ Len(s) >= 1 /\ Head(s) = s[1]
  OBVIOUS
<1>4. Queued(Tail(s), x) => Queued(s, x)
  BY <1>1, <1>2 DEF Queued
<1>5. Once(s, x) => Once(Tail(s), x)
  BY <1>1, <1>2, <1>3 DEF Once
<1>6. x # Head(s) /\ Queued(s, x) => Queued(Tail(s), x)
  <2> SUFFICES ASSUME x # Head(s), Queued(s, x) PROVE Queued(Tail(s), x)
    OBVIOUS
  <2>1. PICK i \in 1 .. Len(s) : s[i] = x
    BY <1>1 DEF Queued
  <2>2. i # 1 /\ i - 1 \in 1 .. (Len(s) - 1) /\ (i - 1) + 1 = i
    BY <1>3, <2>1
  <2> QED
    BY <1>1, <1>2, <2>1, <2>2 DEF Queued
<1> QED
  BY <1>4, <1>5, <1>6

(* The head is in the queue, and not behind it if it is there once.        *)
LEMMA HeadQueued ==
    ASSUME NEW S, NEW s \in Seq(S), s # <<>>
    PROVE  /\ Queued(s, Head(s))
           /\ Once(s, Head(s)) => ~Queued(Tail(s), Head(s))
<1>1. DOMAIN Tail(s) = 1 .. (Len(s) - 1) /\ DOMAIN s = 1 .. Len(s)
  OBVIOUS
<1>2. \A i \in 1 .. (Len(s) - 1) : Tail(s)[i] = s[i + 1] /\ i + 1 \in 1 .. Len(s) /\ i + 1 # 1
  OBVIOUS
<1>3. 1 \in 1 .. Len(s) /\ Head(s) = s[1]
  OBVIOUS
<1> QED
  BY <1>1, <1>2, <1>3 DEF Queued, Once

(* What joins a queue last, and stays last as the others leave.            *)
LEMMA AppendLast ==
    ASSUME NEW S, NEW s \in Seq(S), NEW e \in S, NEW x, ~Queued(s, x)
    PROVE  LastOnly(Append(s, e), x)
<1>1. /\ DOMAIN Append(s, e) = DOMAIN s \cup {Len(s) + 1}
      /\ Len(Append(s, e)) = Len(s) + 1
      /\ \A i \in DOMAIN s : Append(s, e)[i] = s[i]
  OBVIOUS
<1> QED
  BY <1>1 DEF Queued, LastOnly

LEMMA TailLast ==
    ASSUME NEW S, NEW s \in Seq(S), s # <<>>, NEW x, LastOnly(s, x)
    PROVE  /\ LastOnly(Tail(s), x)
           /\ x = Head(s) => Tail(s) = <<>>
<1>1. /\ DOMAIN Tail(s) = 1 .. (Len(s) - 1) /\ DOMAIN s = 1 .. Len(s)
      /\ Len(Tail(s)) = Len(s) - 1
  OBVIOUS
<1>2. \A i \in 1 .. (Len(s) - 1) : Tail(s)[i] = s[i + 1] /\ i + 1 \in 1 .. Len(s)
  OBVIOUS
<1>3. 1 \in 1 .. Len(s) /\ Head(s) = s[1] /\ Len(s) \in Nat
  OBVIOUS
<1>4. LastOnly(Tail(s), x)
  BY <1>1, <1>2, <1>3 DEF LastOnly
<1>5. ASSUME x = Head(s) PROVE Tail(s) = <<>>
  <2>1. Len(s) = 1
    BY <1>1, <1>3, <1>5 DEF LastOnly
  <2> QED
    BY <1>1, <2>1
<1> QED
  BY <1>4, <1>5

(* The closures and the commands of different tasks, or of different       *)
(* kinds, are different.                                                   *)
LEMMA Distinct ==
    \A t, u \in Tasks :
        /\ Submit(t) = Submit(u) <=> t = u
        /\ Execute(t) = Execute(u) <=> t = u
        /\ Submit(t) # CancelOp(u) /\ Submit(t) # Stop
        /\ CancelOp(t) # Stop
        /\ Execute(t) # Shutdown
<1> SUFFICES ASSUME NEW t \in Tasks, NEW u \in Tasks
             PROVE  /\ Submit(t) = Submit(u) <=> t = u
                    /\ Execute(t) = Execute(u) <=> t = u
                    /\ Submit(t) # CancelOp(u) /\ Submit(t) # Stop
                    /\ CancelOp(t) # Stop
                    /\ Execute(t) # Shutdown
  OBVIOUS
<1>1. Submit(t).task = t /\ Submit(u).task = u /\ Execute(t).task = t /\ Execute(u).task = u
  BY DEF Submit, Execute
<1>2. Submit(t).op = "submit" /\ CancelOp(u).op = "cancel" /\ CancelOp(t).op = "cancel"
      /\ Stop.op = "stop" /\ Execute(t).op = "execute" /\ Shutdown.op = "shutdown"
  BY DEF Submit, CancelOp, Stop, Execute, Shutdown
<1> QED
  BY <1>1, <1>2

LEMMA CancelDistinct == \A t, u \in Tasks : CancelOp(t) = CancelOp(u) <=> t = u
<1> SUFFICES ASSUME NEW t \in Tasks, NEW u \in Tasks, CancelOp(t) = CancelOp(u) PROVE t = u
  OBVIOUS
<1>1. CancelOp(t).task = t /\ CancelOp(u).task = u
  BY DEF CancelOp
<1> QED
  BY <1>1

LEMMA Typed ==
    /\ \A t \in Tasks : Submit(t) \in Ops /\ CancelOp(t) \in Ops /\ Execute(t) \in Cmds
    /\ Stop \in Ops
    /\ Shutdown \in Cmds
BY DEF Ops, Cmds, Submit, CancelOp, Stop, Execute, Shutdown

--------------------------------------------------------------------------------
(* Type correctness.                                                       *)

LEMMA TypeInit == Init => TypeOK
<1> SUFFICES ASSUME Init PROVE TypeOK
  OBVIOUS
<1>1. commands \in Seq(Cmds) /\ bridgeQ \in Seq(Ops)
  BY DEF Init
<1>2. signal \in [Tasks -> Nat]
  BY DEF Init
<1>3. reply \in [Tasks -> Replies] /\ bridge \in {"open", "closed"}
  BY DEF Init, Replies
<1> QED
  BY <1>1, <1>2, <1>3, Zenon DEF Init, TypeOK

(* A call of the bridge keeps its channel and its answers in their ranges. *)
LEMMA CallTyped ==
    ASSUME TypeOK, NEW t \in Tasks, NEW op \in Ops, CallBridge(t, op)
    PROVE  bridgeQ' \in Seq(Ops) /\ reply' \in [Tasks -> Replies]
<1>1. bridgeQ \in Seq(Ops) /\ reply \in [Tasks -> Replies]
  BY DEF TypeOK
<1>2. CASE bridge = "open"
  <2>1. bridgeQ' = Append(bridgeQ, op) /\ reply' = reply
    BY <1>2, Zenon DEF CallBridge
  <2> QED
    BY <1>1, <2>1
<1>3. CASE bridge # "open"
  <2>1. bridgeQ' = bridgeQ /\ reply' = [reply EXCEPT ![t] = "shutdown"]
    BY <1>3, Zenon DEF CallBridge
  <2> QED
    BY <1>1, <2>1 DEF Replies
<1> QED
  BY <1>2, <1>3

LEMMA TypeNext == TypeOK /\ [Next]_vars => TypeOK'
<1> SUFFICES ASSUME TypeOK, [Next]_vars PROVE TypeOK'
  OBVIOUS
<1> USE DEF ActiveStates, Verdicts, Endings, Replies, futureVars, resultVars, fiberVars, threadVars, bridgeVars
<1>1. ASSUME NEW t \in Tasks, TaskNext(t) PROVE TypeOK'
  <2>1. CASE Dispatch(t)
    <3>1. bridgeQ' \in Seq(Ops) /\ reply' \in [Tasks -> Replies]
      BY <2>1, CallTyped, Typed DEF Dispatch
    <3> QED
      BY <2>1, <3>1 DEF TypeOK, Dispatch
  <2>2. CASE DispatchInternal(t)
    BY <2>2, Typed DEF TypeOK, DispatchInternal
  <2>3. CASE Cancel(t)
    BY <2>3, Typed DEF TypeOK, Cancel
  <2>4. CASE DropFuture(t)
    BY <2>4, Typed DEF TypeOK, DropFuture
  <2>5. CASE BridgeSubmit(t)
    <3>1. bridgeQ' \in Seq(Ops)
      BY <2>5 DEF TypeOK, BridgeSubmit
    <3>2. commands' = commands \/ commands' = Append(commands, Execute(t))
      BY <2>5, Zenon DEF BridgeSubmit
    <3>3. commands \in Seq(Cmds) /\ Execute(t) \in Cmds
      BY Typed DEF TypeOK
    <3>4. commands' \in Seq(Cmds)
      BY <3>2, <3>3
    <3>5. reply' \in [Tasks -> Replies]
      <4>1. \/ reply' = [reply EXCEPT ![t] = "rejected"]
            \/ reply' = [reply EXCEPT ![t] = "token"]
        BY <2>5, Zenon DEF BridgeSubmit
      <4>2. reply \in [Tasks -> Replies]
        BY DEF TypeOK
      <4> QED
        BY <4>1, <4>2
    <3> QED
      BY <2>5, <3>1, <3>4, <3>5 DEF TypeOK, BridgeSubmit
  <2>6. CASE BridgeCancel(t)
    BY <2>6, Typed DEF TypeOK, BridgeCancel
  <2>7. CASE Scheduled(t)
    <3>1. reply' = [reply EXCEPT ![t] = "none"]
          /\ UNCHANGED <<cancelled, resultVars, fiberVars, threadVars, bridgeVars>>
      BY <2>7 DEF Scheduled
    <3>2. CASE Settle(t, "transient")
      BY <3>1, <3>2 DEF TypeOK, Settle
    <3>3. CASE rust' = [rust EXCEPT ![t] = "waiting"] /\ UNCHANGED outcome
      BY <3>1, <3>3 DEF TypeOK
    <3> QED
      BY <2>7, <3>2, <3>3 DEF Scheduled
  <2>8. CASE ReceiveResult(t)
    BY <2>8, Typed DEF TypeOK, ReceiveResult, Settle, Received
  <2>9. CASE ObserveCancel(t)
    <3>1. bridgeQ' \in Seq(Ops) /\ reply' \in [Tasks -> Replies]
      BY <2>9, CallTyped, Typed DEF ObserveCancel
    <3> QED
      BY <2>9, <3>1 DEF TypeOK, ObserveCancel
  <2>10. CASE CancelAcked(t)
    BY <2>10, Typed DEF TypeOK, CancelAcked
  <2>11. CASE Drain(t)
    BY <2>11, Typed DEF TypeOK, Drain, Settle, Received
  <2>12. CASE PopExecute(t)
    BY <2>12, Typed DEF TypeOK, PopExecute
  <2>13. CASE HandlerReturns(t)
    BY <2>13, Typed DEF TypeOK, HandlerReturns, CallCallback, ReturnVerdicts
  <2>14. CASE HandlerRaises(t)
    BY <2>14, Typed DEF TypeOK, HandlerRaises
  <2>15. CASE HandlerStops(t)
    BY <2>15, Typed DEF TypeOK, HandlerStops, CallCallback, RaiseVerdict
  <2>16. CASE HandlerFatal(t)
    BY <2>16, Typed DEF TypeOK, HandlerFatal, Leave
  <2>17. CASE CaptureReturns(t)
    BY <2>17, Typed DEF TypeOK, CaptureReturns, CallCallback, RaiseVerdict
  <2>18. CASE WorkerExits(t)
    BY <2>18, Typed DEF TypeOK, WorkerExits, Leave
  <2>19. CASE CaptureRaises(t)
    <3>1. /\ worker' = [worker EXCEPT ![t] = "ended"]
          /\ signal' = [signal EXCEPT ![t] = @ + 1]
          /\ UNCHANGED <<futureVars, resultVars, ended, watcher, parent, threadVars, bridgeVars>>
      BY <2>19 DEF CaptureRaises, Leave
    <3> QED
      BY <3>1 DEF TypeOK
  <2>20. CASE ReactorStops(t)
    BY <2>20, Typed DEF TypeOK, ReactorStops
  <2>21. CASE StopRunning(t)
    BY <2>21, Typed DEF TypeOK, StopRunning, WatcherWakes
  <2>22. CASE StopCapturing(t)
    BY <2>22, Typed DEF TypeOK, StopCapturing
  <2>23. CASE StopReported(t)
    BY <2>23, Typed DEF TypeOK, StopReported, WatcherWakes, CallCallback, RaiseVerdict
  <2>24. CASE StopEnded(t)
    BY <2>24, Typed DEF TypeOK, StopEnded, WatcherWakes
  <2>25. CASE FinishTask(t)
    BY <2>25, Typed DEF TypeOK, FinishTask
  <2>26. CASE CollectCallback(t)
    BY <2>26, Typed DEF TypeOK, CollectCallback
  <2>27. CASE BridgeCallFails(t)
    BY <2>27 DEF TypeOK, BridgeCallFails, Settle
  <2> QED
    BY <1>1, <2>1, <2>2, <2>3, <2>4, <2>5, <2>6, <2>7, <2>8, <2>9, <2>10, <2>11, <2>12, <2>13, <2>14, <2>15, <2>16, <2>17, <2>18, <2>19, <2>20, <2>21, <2>22, <2>23, <2>24, <2>25, <2>26, <2>27
       DEF TaskNext, Core, BridgeTask, Future, HandlerEnds, WorkerMoves, WatcherMoves
<1>2. CASE ReleaseHandler
  BY <1>2, Typed DEF TypeOK, ReleaseHandler
<1>3. CASE BridgeStop
  BY <1>3, Typed DEF TypeOK, BridgeStop
<1>4. CASE PopShutdown
  BY <1>4, Typed DEF TypeOK, PopShutdown
<1>5. CASE LoopExits
  BY <1>5, Typed DEF TypeOK, LoopExits
<1>6. CASE Terminated
  BY <1>6, Typed DEF TypeOK, Terminated, vars
<1>7. CASE BridgeDies
  BY <1>7 DEF TypeOK, BridgeDies
<1>8. CASE UNCHANGED vars
  BY <1>8 DEF TypeOK, vars
<1> QED
  BY <1>1, <1>2, <1>3, <1>4, <1>5, <1>6, <1>7, <1>8 DEF Next

(* Every variable stays in its range, whatever the tasks and faults.       *)
THEOREM TypeCorrect == Spec => []TypeOK
<1>1. Init => TypeOK
  BY TypeInit
<1>2. TypeOK /\ [Next]_vars => TypeOK'
  BY TypeNext
<1> QED
  BY <1>1, <1>2, PTL DEF Spec

--------------------------------------------------------------------------------
(* The inductive invariant: one place per task, one ending per task.       *)

LEMMA InvInit == Init => IInv
<1> SUFFICES ASSUME Init PROVE IInv
  OBVIOUS
<1>1. TypeOK
  BY TypeInit
<1>2. OneActivePerKey /\ CallsOwed
  BY DEF Init, OneActivePerKey, CallsOwed, Active, ActiveStates
<1>3. ASSUME NEW t \in Tasks
      PROVE  OnePlace(t) /\ EndedOnce(t) /\ SettledIsFinal(t) /\ Truthful(t)
  <2>1. /\ ~Queued(bridgeQ, Submit(t)) /\ ~Queued(commands, Execute(t))
        /\ ~Queued(bridgeQ, CancelOp(t))
    BY DEF Init, Queued
  <2>2. Once(bridgeQ, Submit(t)) /\ Once(commands, Execute(t))
    BY DEF Init, Once
  <2> QED
    BY <2>1, <2>2 DEF Init, OnePlace, EndedOnce, SettledIsFinal, Truthful, TrueTo, Received, Refused
<1>4. KeyExclusive
  BY DEF Init, KeyExclusive, InRuby, Queued
<1> QED
  BY <1>1, <1>2, <1>3, <1>4 DEF IInv

LEMMA TaskStep ==
    ASSUME IInv, NEW t \in Tasks, TaskNext(t), NEW u \in Tasks
    PROVE  OnePlace(u)' /\ EndedOnce(u)' /\ SettledIsFinal(u)' /\ Truthful(u)'
<1> USE DEF ActiveStates, Active, Refused, GaveUp, futureVars, resultVars, fiberVars, threadVars, bridgeVars
<1>0. /\ TypeOK
      /\ OnePlace(t) /\ EndedOnce(t) /\ SettledIsFinal(t) /\ Truthful(t)
      /\ OnePlace(u) /\ EndedOnce(u) /\ SettledIsFinal(u) /\ Truthful(u)
      /\ bridge = "closed" => bridgeQ = <<>>
      /\ reply[t] = "shutdown" => bridge = "closed"
      /\ reply[u] = "shutdown" => bridge = "closed"
      /\ rust[t] = "cancelling" => cancelled[t]
  BY DEF IInv, CallsOwed
<1> USE <1>0
<1>1. CASE Dispatch(t)
  <2>1. /\ Queued(bridgeQ', Submit(u)) <=> Queued(bridgeQ, Submit(u)) \/ (u = t /\ bridge = "open")
        /\ Queued(bridgeQ', CancelOp(u)) <=> Queued(bridgeQ, CancelOp(u))
        /\ Queued(commands', Execute(u)) <=> Queued(commands, Execute(u))
        /\ Once(bridgeQ', Submit(u)) /\ Once(commands', Execute(u))
    <3>1. ~Queued(bridgeQ, Submit(t))
      BY <1>1 DEF Dispatch, OnePlace
    <3>2. CASE bridge = "open"
      <4>1. bridgeQ' = Append(bridgeQ, Submit(t)) /\ commands' = commands
        BY <1>1, <3>2, Zenon DEF Dispatch, CallBridge
      <4>2. bridgeQ \in Seq(Ops) /\ Submit(t) \in Ops
        BY Typed DEF TypeOK
      <4>3. Queued(bridgeQ', Submit(u)) <=> Queued(bridgeQ, Submit(u)) \/ u = t
        BY <4>1, <4>2, AppendQueued, Distinct
      <4>4. Queued(bridgeQ', CancelOp(u)) <=> Queued(bridgeQ, CancelOp(u))
        BY <4>1, <4>2, AppendQueued, Distinct
      <4>5. Once(bridgeQ', Submit(u))
        BY <4>1, <4>2, <3>1, AppendOnce, Distinct DEF OnePlace
      <4> QED
        BY <4>1, <4>3, <4>4, <4>5, <3>2 DEF OnePlace
    <3>3. CASE bridge # "open"
      <4>1. bridgeQ' = bridgeQ /\ commands' = commands
        BY <1>1, <3>3, Zenon DEF Dispatch, CallBridge
      <4> QED
        BY <4>1, <3>3 DEF OnePlace
    <3> QED
      BY <3>2, <3>3
  <2>c. /\ bridge = "open" => reply' = reply
        /\ bridge # "open" => reply' = [reply EXCEPT ![t] = "shutdown"]
        /\ rust' = [rust EXCEPT ![t] = "submitting"] /\ rust[t] = "idle" /\ t \notin Internal
        /\ UNCHANGED <<outcome, cancelled, resultVars, fiberVars, threadVars, bridge>>
    BY <1>1, Zenon DEF Dispatch, CallBridge
  <2>2. OnePlace(u)'
    BY <2>1, <2>c DEF OnePlace, TypeOK
  <2>3. EndedOnce(u)'
    BY <2>1, <2>c DEF EndedOnce
  <2>4. SettledIsFinal(u)'
    BY <2>1, <2>c DEF SettledIsFinal, InRuby, OnePlace, TypeOK
  <2>5. Truthful(u)'
    BY <2>c DEF Truthful, TrueTo, Received, SettledIsFinal, TypeOK
  <2> QED
    BY <2>2, <2>3, <2>4, <2>5
<1>2. CASE DispatchInternal(t)
  <2>1. OnePlace(u)'
    BY <1>2, Distinct DEF OnePlace, EndedOnce, SettledIsFinal, TypeOK, InRuby, DispatchInternal, KeyFree
  <2>2. EndedOnce(u)'
    BY <1>2 DEF EndedOnce, OnePlace, TypeOK, DispatchInternal, KeyFree
  <2>3. SettledIsFinal(u)'
    BY <1>2, Distinct DEF SettledIsFinal, InRuby, OnePlace, EndedOnce, TypeOK, DispatchInternal, KeyFree
  <2>4. Truthful(u)'
    BY <1>2 DEF Truthful, TrueTo, Received, SettledIsFinal, InRuby, OnePlace, EndedOnce, TypeOK, DispatchInternal, KeyFree
  <2> QED
    BY <2>1, <2>2, <2>3, <2>4
<1>3. CASE Cancel(t)
  <2>1. OnePlace(u)'
    BY <1>3, Distinct DEF OnePlace, EndedOnce, SettledIsFinal, TypeOK, InRuby, Cancel
  <2>2. EndedOnce(u)'
    BY <1>3 DEF EndedOnce, OnePlace, TypeOK, Cancel
  <2>3. SettledIsFinal(u)'
    BY <1>3, Distinct DEF SettledIsFinal, InRuby, OnePlace, EndedOnce, TypeOK, Cancel
  <2>4. Truthful(u)'
    BY <1>3 DEF Truthful, TrueTo, Received, SettledIsFinal, InRuby, OnePlace, EndedOnce, TypeOK, Cancel
  <2> QED
    BY <2>1, <2>2, <2>3, <2>4
<1>4. CASE DropFuture(t)
  <2>1. OnePlace(u)'
    BY <1>4, Distinct DEF OnePlace, EndedOnce, SettledIsFinal, TypeOK, InRuby, DropFuture
  <2>2. EndedOnce(u)'
    BY <1>4 DEF EndedOnce, OnePlace, TypeOK, DropFuture
  <2>3. SettledIsFinal(u)'
    BY <1>4, Distinct DEF SettledIsFinal, InRuby, OnePlace, EndedOnce, TypeOK, DropFuture
  <2>4. Truthful(u)'
    BY <1>4 DEF Truthful, TrueTo, Received, SettledIsFinal, InRuby, OnePlace, EndedOnce, TypeOK, DropFuture
  <2> QED
    BY <2>1, <2>2, <2>3, <2>4
<1>5. CASE BridgeSubmit(t)
  <2>1. /\ Queued(bridgeQ', Submit(u)) <=> Queued(bridgeQ, Submit(u)) /\ u # t
        /\ Queued(bridgeQ', CancelOp(u)) => Queued(bridgeQ, CancelOp(u))
        /\ Queued(commands', Execute(u)) <=> Queued(commands, Execute(u)) \/ (u = t /\ ~isShutdown)
        /\ Once(bridgeQ', Submit(u)) /\ Once(commands', Execute(u))
    <3>1. Queued(bridgeQ, Submit(t))
      BY <1>5, HeadQueued DEF BridgeSubmit, TypeOK
    <3>2. Queued(bridgeQ', Submit(u)) <=> Queued(bridgeQ, Submit(u)) /\ u # t
      BY <1>5, TailQueued, HeadQueued, Distinct DEF BridgeSubmit, OnePlace, TypeOK
    <3>3. Once(bridgeQ', Submit(u))
      BY <1>5, TailQueued DEF BridgeSubmit, OnePlace, TypeOK
    <3>c. Queued(bridgeQ', CancelOp(u)) => Queued(bridgeQ, CancelOp(u))
      BY <1>5, TailQueued DEF BridgeSubmit, TypeOK
    <3>4. CASE isShutdown
      <4>1. commands' = commands
        BY <1>5, <3>4, Zenon DEF BridgeSubmit
      <4> QED
        BY <4>1, <3>2, <3>3, <3>c, <3>4 DEF OnePlace
    <3>5. CASE ~isShutdown
      <4>1. commands' = Append(commands, Execute(t))
        BY <1>5, <3>5, Zenon DEF BridgeSubmit
      <4>2. commands \in Seq(Cmds) /\ Execute(t) \in Cmds
        BY Typed DEF TypeOK
      <4>3. Queued(commands', Execute(u)) <=> Queued(commands, Execute(u)) \/ u = t
        BY <4>1, <4>2, AppendQueued, Distinct
      <4>4. Once(commands', Execute(u))
        BY <4>1, <4>2, <3>1, AppendOnce, Distinct DEF OnePlace
      <4> QED
        BY <4>3, <4>4, <3>2, <3>3, <3>c, <3>5
    <3> QED
      BY <3>2, <3>4, <3>5
  <2>2. Queued(bridgeQ, Submit(t))
    BY <1>5, HeadQueued DEF BridgeSubmit, TypeOK
  <2>3. \/ reply' = [reply EXCEPT ![t] = "rejected"] /\ isShutdown
        \/ reply' = [reply EXCEPT ![t] = "token"] /\ ~isShutdown
    BY <1>5, Zenon DEF BridgeSubmit
  <2>4. OnePlace(u)'
    BY <1>5, <2>1, <2>2, <2>3, Distinct DEF OnePlace, EndedOnce, SettledIsFinal, TypeOK, InRuby, BridgeSubmit
  <2>5. EndedOnce(u)'
    BY <1>5, <2>1, <2>2, <2>3 DEF EndedOnce, OnePlace, TypeOK, BridgeSubmit
  <2>6. SettledIsFinal(u)'
    BY <1>5, <2>1, <2>2, <2>3, Distinct DEF SettledIsFinal, InRuby, OnePlace, EndedOnce, TypeOK, BridgeSubmit
  <2>7. Truthful(u)'
    BY <1>5 DEF Truthful, TrueTo, Received, SettledIsFinal, InRuby, OnePlace, EndedOnce, TypeOK, BridgeSubmit
  <2> QED
    BY <2>4, <2>5, <2>6, <2>7
<1>6. CASE BridgeCancel(t)
  <2>1. /\ Queued(bridgeQ', Submit(u)) <=> Queued(bridgeQ, Submit(u))
        /\ Queued(bridgeQ', CancelOp(u)) => Queued(bridgeQ, CancelOp(u))
        /\ Queued(commands', Execute(u)) <=> Queued(commands, Execute(u))
        /\ Once(bridgeQ', Submit(u)) /\ Once(commands', Execute(u))
    BY <1>6, TailQueued, Distinct DEF BridgeCancel, OnePlace, TypeOK
  <2>2. OnePlace(u)'
    BY <1>6, <2>1, Distinct DEF OnePlace, EndedOnce, SettledIsFinal, TypeOK, InRuby, BridgeCancel
  <2>3. EndedOnce(u)'
    BY <1>6, <2>1 DEF EndedOnce, OnePlace, TypeOK, BridgeCancel
  <2>4. SettledIsFinal(u)'
    BY <1>6, <2>1, Distinct DEF SettledIsFinal, InRuby, OnePlace, EndedOnce, TypeOK, BridgeCancel
  <2>5. Truthful(u)'
    BY <1>6 DEF Truthful, TrueTo, Received, SettledIsFinal, InRuby, OnePlace, EndedOnce, TypeOK, BridgeCancel
  <2> QED
    BY <2>2, <2>3, <2>4, <2>5
<1>7. CASE Scheduled(t)
  <2>1. OnePlace(u)'
    BY <1>7, Distinct DEF OnePlace, EndedOnce, SettledIsFinal, TypeOK, InRuby, Scheduled, Settle
  <2>2. EndedOnce(u)'
    BY <1>7 DEF EndedOnce, OnePlace, TypeOK, Scheduled, Settle
  <2>3. SettledIsFinal(u)'
    BY <1>7, Distinct DEF SettledIsFinal, InRuby, OnePlace, EndedOnce, TypeOK, Scheduled, Settle
  <2>4. Truthful(u)'
    BY <1>7 DEF Truthful, TrueTo, Received, SettledIsFinal, InRuby, OnePlace, EndedOnce, TypeOK, Scheduled, Settle
  <2> QED
    BY <2>1, <2>2, <2>3, <2>4
<1>8. CASE ReceiveResult(t)
  <2>1. OnePlace(u)'
    BY <1>8, Distinct DEF OnePlace, EndedOnce, SettledIsFinal, TypeOK, InRuby, ReceiveResult, Settle
  <2>2. EndedOnce(u)'
    BY <1>8 DEF EndedOnce, OnePlace, TypeOK, ReceiveResult, Settle
  <2>3. SettledIsFinal(u)'
    BY <1>8, Distinct DEF SettledIsFinal, InRuby, OnePlace, EndedOnce, TypeOK, ReceiveResult, Settle
  <2>4. Truthful(u)'
    BY <1>8 DEF Truthful, TrueTo, Received, SettledIsFinal, InRuby, OnePlace, EndedOnce, TypeOK, ReceiveResult, Settle
  <2> QED
    BY <2>1, <2>2, <2>3, <2>4
<1>9. CASE ObserveCancel(t)
  <2>1. /\ Queued(bridgeQ', Submit(u)) <=> Queued(bridgeQ, Submit(u))
        /\ Queued(bridgeQ', CancelOp(u)) => Queued(bridgeQ, CancelOp(u)) \/ u = t
        /\ Queued(commands', Execute(u)) <=> Queued(commands, Execute(u))
        /\ Once(bridgeQ', Submit(u)) /\ Once(commands', Execute(u))
    <3>1. CASE bridge = "open"
      <4>1. bridgeQ' = Append(bridgeQ, CancelOp(t)) /\ commands' = commands
        BY <1>9, <3>1, Zenon DEF ObserveCancel, CallBridge
      <4>2. bridgeQ \in Seq(Ops) /\ CancelOp(t) \in Ops
        BY Typed DEF TypeOK
      <4>3. Queued(bridgeQ', Submit(u)) <=> Queued(bridgeQ, Submit(u))
        BY <4>1, <4>2, AppendQueued, Distinct
      <4>4. Queued(bridgeQ', CancelOp(u)) => Queued(bridgeQ, CancelOp(u)) \/ u = t
        BY <4>1, <4>2, AppendQueued, CancelDistinct
      <4>5. Once(bridgeQ', Submit(u))
        BY <4>1, <4>2, AppendOnce, Distinct DEF OnePlace
      <4> QED
        BY <4>1, <4>3, <4>4, <4>5 DEF OnePlace
    <3>2. CASE bridge # "open"
      <4>1. bridgeQ' = bridgeQ /\ commands' = commands
        BY <1>9, <3>2, Zenon DEF ObserveCancel, CallBridge
      <4> QED
        BY <4>1 DEF OnePlace
    <3> QED
      BY <3>1, <3>2
  <2>c. /\ bridge = "open" => reply' = reply
        /\ bridge # "open" => reply' = [reply EXCEPT ![t] = "shutdown"]
        /\ rust' = [rust EXCEPT ![t] = "cancelling"] /\ rust[t] = "waiting"
        /\ UNCHANGED <<outcome, cancelled, resultVars, fiberVars, threadVars, bridge>>
    BY <1>9, Zenon DEF ObserveCancel, CallBridge
  <2>2. OnePlace(u)'
    BY <2>1, <2>c DEF OnePlace, TypeOK
  <2>3. EndedOnce(u)'
    BY <2>1, <2>c DEF EndedOnce
  <2>4. SettledIsFinal(u)'
    BY <2>1, <2>c DEF SettledIsFinal, InRuby, OnePlace, TypeOK
  <2>5. Truthful(u)'
    BY <2>c DEF Truthful, TrueTo, Received, SettledIsFinal, TypeOK
  <2> QED
    BY <2>2, <2>3, <2>4, <2>5
<1>10. CASE CancelAcked(t)
  <2>1. OnePlace(u)'
    BY <1>10, Distinct DEF OnePlace, EndedOnce, SettledIsFinal, TypeOK, InRuby, CancelAcked
  <2>2. EndedOnce(u)'
    BY <1>10 DEF EndedOnce, OnePlace, TypeOK, CancelAcked
  <2>3. SettledIsFinal(u)'
    BY <1>10, Distinct DEF SettledIsFinal, InRuby, OnePlace, EndedOnce, TypeOK, CancelAcked
  <2>4. Truthful(u)'
    BY <1>10 DEF Truthful, TrueTo, Received, SettledIsFinal, InRuby, OnePlace, EndedOnce, TypeOK, CancelAcked
  <2> QED
    BY <2>1, <2>2, <2>3, <2>4
<1>11. CASE Drain(t)
  <2>1. OnePlace(u)'
    BY <1>11, Distinct DEF OnePlace, EndedOnce, SettledIsFinal, TypeOK, InRuby, Drain, Settle
  <2>2. EndedOnce(u)'
    BY <1>11 DEF EndedOnce, OnePlace, TypeOK, Drain, Settle
  <2>3. SettledIsFinal(u)'
    BY <1>11, Distinct DEF SettledIsFinal, InRuby, OnePlace, EndedOnce, TypeOK, Drain, Settle
  <2>4. Truthful(u)'
    BY <1>11 DEF Truthful, TrueTo, Received, SettledIsFinal, InRuby, OnePlace, EndedOnce, TypeOK, Drain, Settle
  <2> QED
    BY <2>1, <2>2, <2>3, <2>4
<1>12. CASE PopExecute(t)
  <2>1. /\ Queued(bridgeQ', Submit(u)) <=> Queued(bridgeQ, Submit(u))
        /\ Queued(commands', Execute(u)) <=> Queued(commands, Execute(u)) /\ u # t
        /\ Once(bridgeQ', Submit(u)) /\ Once(commands', Execute(u))
    BY <1>12, TailQueued, HeadQueued, Distinct DEF PopExecute, OnePlace, TypeOK
  <2>2. Queued(commands, Execute(t))
    BY <1>12, HeadQueued DEF PopExecute, TypeOK
  <2>3. OnePlace(u)'
    BY <1>12, <2>1, <2>2, Distinct DEF OnePlace, EndedOnce, SettledIsFinal, TypeOK, InRuby, PopExecute
  <2>4. EndedOnce(u)'
    BY <1>12, <2>1, <2>2 DEF EndedOnce, OnePlace, TypeOK, PopExecute
  <2>5. SettledIsFinal(u)'
    BY <1>12, <2>1, <2>2, Distinct DEF SettledIsFinal, InRuby, OnePlace, EndedOnce, TypeOK, PopExecute
  <2>6. Truthful(u)'
    BY <1>12 DEF Truthful, TrueTo, Received, SettledIsFinal, InRuby, OnePlace, EndedOnce, TypeOK, PopExecute
  <2> QED
    BY <2>3, <2>4, <2>5, <2>6
<1>13. CASE HandlerReturns(t)
  <2>1. OnePlace(u)'
    BY <1>13, Distinct DEF OnePlace, EndedOnce, SettledIsFinal, TypeOK, InRuby, HandlerReturns, CallCallback, ReturnVerdicts
  <2>2. EndedOnce(u)'
    BY <1>13 DEF EndedOnce, OnePlace, TypeOK, HandlerReturns, CallCallback, ReturnVerdicts
  <2>3. SettledIsFinal(u)'
    BY <1>13, Distinct DEF SettledIsFinal, InRuby, OnePlace, EndedOnce, TypeOK, HandlerReturns, CallCallback, ReturnVerdicts
  <2>4. Truthful(u)'
    BY <1>13 DEF Truthful, TrueTo, Received, SettledIsFinal, InRuby, OnePlace, EndedOnce, TypeOK, HandlerReturns, CallCallback, ReturnVerdicts
  <2> QED
    BY <2>1, <2>2, <2>3, <2>4
<1>14. CASE HandlerRaises(t)
  <2>1. OnePlace(u)'
    BY <1>14, Distinct DEF OnePlace, EndedOnce, SettledIsFinal, TypeOK, InRuby, HandlerRaises
  <2>2. EndedOnce(u)'
    BY <1>14 DEF EndedOnce, OnePlace, TypeOK, HandlerRaises
  <2>3. SettledIsFinal(u)'
    BY <1>14, Distinct DEF SettledIsFinal, InRuby, OnePlace, EndedOnce, TypeOK, HandlerRaises
  <2>4. Truthful(u)'
    BY <1>14 DEF Truthful, TrueTo, Received, SettledIsFinal, InRuby, OnePlace, EndedOnce, TypeOK, HandlerRaises
  <2> QED
    BY <2>1, <2>2, <2>3, <2>4
<1>15. CASE HandlerStops(t)
  <2>1. OnePlace(u)'
    BY <1>15, Distinct DEF OnePlace, EndedOnce, SettledIsFinal, TypeOK, InRuby, HandlerStops, CallCallback, RaiseVerdict
  <2>2. EndedOnce(u)'
    BY <1>15 DEF EndedOnce, OnePlace, TypeOK, HandlerStops, CallCallback, RaiseVerdict
  <2>3. SettledIsFinal(u)'
    BY <1>15, Distinct DEF SettledIsFinal, InRuby, OnePlace, EndedOnce, TypeOK, HandlerStops, CallCallback, RaiseVerdict
  <2>4. Truthful(u)'
    BY <1>15 DEF Truthful, TrueTo, Received, SettledIsFinal, InRuby, OnePlace, EndedOnce, TypeOK, HandlerStops, CallCallback, RaiseVerdict
  <2> QED
    BY <2>1, <2>2, <2>3, <2>4
<1>16. CASE HandlerFatal(t)
  <2>1. OnePlace(u)'
    BY <1>16, Distinct DEF OnePlace, EndedOnce, SettledIsFinal, TypeOK, InRuby, HandlerFatal, Leave
  <2>2. EndedOnce(u)'
    BY <1>16 DEF EndedOnce, OnePlace, TypeOK, HandlerFatal, Leave
  <2>3. SettledIsFinal(u)'
    BY <1>16, Distinct DEF SettledIsFinal, InRuby, OnePlace, EndedOnce, TypeOK, HandlerFatal, Leave
  <2>4. Truthful(u)'
    BY <1>16 DEF Truthful, TrueTo, Received, SettledIsFinal, InRuby, OnePlace, EndedOnce, TypeOK, HandlerFatal, Leave
  <2> QED
    BY <2>1, <2>2, <2>3, <2>4
<1>17. CASE CaptureReturns(t)
  <2>1. OnePlace(u)'
    BY <1>17, Distinct DEF OnePlace, EndedOnce, SettledIsFinal, TypeOK, InRuby, CaptureReturns, CallCallback, RaiseVerdict
  <2>2. EndedOnce(u)'
    BY <1>17 DEF EndedOnce, OnePlace, TypeOK, CaptureReturns, CallCallback, RaiseVerdict
  <2>3. SettledIsFinal(u)'
    BY <1>17, Distinct DEF SettledIsFinal, InRuby, OnePlace, EndedOnce, TypeOK, CaptureReturns, CallCallback, RaiseVerdict
  <2>4. Truthful(u)'
    BY <1>17 DEF Truthful, TrueTo, Received, SettledIsFinal, InRuby, OnePlace, EndedOnce, TypeOK, CaptureReturns, CallCallback, RaiseVerdict
  <2> QED
    BY <2>1, <2>2, <2>3, <2>4
<1>18. CASE WorkerExits(t)
  <2>1. OnePlace(u)'
    BY <1>18, Distinct DEF OnePlace, EndedOnce, SettledIsFinal, TypeOK, InRuby, WorkerExits, Leave
  <2>2. EndedOnce(u)'
    BY <1>18 DEF EndedOnce, OnePlace, TypeOK, WorkerExits, Leave
  <2>3. SettledIsFinal(u)'
    BY <1>18, Distinct DEF SettledIsFinal, InRuby, OnePlace, EndedOnce, TypeOK, WorkerExits, Leave
  <2>4. Truthful(u)'
    BY <1>18 DEF Truthful, TrueTo, Received, SettledIsFinal, InRuby, OnePlace, EndedOnce, TypeOK, WorkerExits, Leave
  <2> QED
    BY <2>1, <2>2, <2>3, <2>4
<1>19. CASE CaptureRaises(t)
  <2>1. OnePlace(u)'
    BY <1>19, Distinct DEF OnePlace, EndedOnce, SettledIsFinal, TypeOK, InRuby, CaptureRaises, Leave
  <2>2. EndedOnce(u)'
    BY <1>19 DEF EndedOnce, OnePlace, TypeOK, CaptureRaises, Leave
  <2>3. SettledIsFinal(u)'
    BY <1>19, Distinct DEF SettledIsFinal, InRuby, OnePlace, EndedOnce, TypeOK, CaptureRaises, Leave
  <2>4. Truthful(u)'
    BY <1>19 DEF Truthful, TrueTo, Received, SettledIsFinal, InRuby, OnePlace, EndedOnce, TypeOK, CaptureRaises, Leave
  <2> QED
    BY <2>1, <2>2, <2>3, <2>4
<1>20. CASE ReactorStops(t)
  <2>1. OnePlace(u)'
    BY <1>20, Distinct DEF OnePlace, EndedOnce, SettledIsFinal, TypeOK, InRuby, ReactorStops
  <2>2. EndedOnce(u)'
    BY <1>20 DEF EndedOnce, OnePlace, TypeOK, ReactorStops
  <2>3. SettledIsFinal(u)'
    BY <1>20, Distinct DEF SettledIsFinal, InRuby, OnePlace, EndedOnce, TypeOK, ReactorStops
  <2>4. Truthful(u)'
    BY <1>20 DEF Truthful, TrueTo, Received, SettledIsFinal, InRuby, OnePlace, EndedOnce, TypeOK, ReactorStops
  <2> QED
    BY <2>1, <2>2, <2>3, <2>4
<1>21. CASE StopRunning(t)
  <2>1. OnePlace(u)'
    BY <1>21, Distinct DEF OnePlace, EndedOnce, SettledIsFinal, TypeOK, InRuby, StopRunning, WatcherWakes
  <2>2. EndedOnce(u)'
    BY <1>21 DEF EndedOnce, OnePlace, TypeOK, StopRunning, WatcherWakes
  <2>3. SettledIsFinal(u)'
    BY <1>21, Distinct DEF SettledIsFinal, InRuby, OnePlace, EndedOnce, TypeOK, StopRunning, WatcherWakes
  <2>4. Truthful(u)'
    BY <1>21 DEF Truthful, TrueTo, Received, SettledIsFinal, InRuby, OnePlace, EndedOnce, TypeOK, StopRunning, WatcherWakes
  <2> QED
    BY <2>1, <2>2, <2>3, <2>4
<1>22. CASE StopCapturing(t)
  <2>1. OnePlace(u)'
    BY <1>22, Distinct DEF OnePlace, EndedOnce, SettledIsFinal, TypeOK, InRuby, StopCapturing
  <2>2. EndedOnce(u)'
    BY <1>22 DEF EndedOnce, OnePlace, TypeOK, StopCapturing
  <2>3. SettledIsFinal(u)'
    BY <1>22, Distinct DEF SettledIsFinal, InRuby, OnePlace, EndedOnce, TypeOK, StopCapturing
  <2>4. Truthful(u)'
    BY <1>22 DEF Truthful, TrueTo, Received, SettledIsFinal, InRuby, OnePlace, EndedOnce, TypeOK, StopCapturing
  <2> QED
    BY <2>1, <2>2, <2>3, <2>4
<1>23. CASE StopReported(t)
  <2>1. OnePlace(u)'
    BY <1>23, Distinct DEF OnePlace, EndedOnce, SettledIsFinal, TypeOK, InRuby, StopReported, WatcherWakes, CallCallback
  <2>2. EndedOnce(u)'
    BY <1>23 DEF EndedOnce, OnePlace, TypeOK, StopReported, WatcherWakes, CallCallback
  <2>3. SettledIsFinal(u)'
    BY <1>23, Distinct DEF SettledIsFinal, InRuby, OnePlace, EndedOnce, TypeOK, StopReported, WatcherWakes, CallCallback
  <2>4. Truthful(u)'
    BY <1>23 DEF Truthful, TrueTo, Received, SettledIsFinal, InRuby, OnePlace, EndedOnce, TypeOK, StopReported, WatcherWakes, CallCallback
  <2> QED
    BY <2>1, <2>2, <2>3, <2>4
<1>24. CASE StopEnded(t)
  <2>1. OnePlace(u)'
    BY <1>24, Distinct DEF OnePlace, EndedOnce, SettledIsFinal, TypeOK, InRuby, StopEnded, WatcherWakes
  <2>2. EndedOnce(u)'
    BY <1>24 DEF EndedOnce, OnePlace, TypeOK, StopEnded, WatcherWakes
  <2>3. SettledIsFinal(u)'
    BY <1>24, Distinct DEF SettledIsFinal, InRuby, OnePlace, EndedOnce, TypeOK, StopEnded, WatcherWakes
  <2>4. Truthful(u)'
    BY <1>24 DEF Truthful, TrueTo, Received, SettledIsFinal, InRuby, OnePlace, EndedOnce, TypeOK, StopEnded, WatcherWakes
  <2> QED
    BY <2>1, <2>2, <2>3, <2>4
<1>25. CASE FinishTask(t)
  <2>1. OnePlace(u)'
    BY <1>25, Distinct DEF OnePlace, EndedOnce, SettledIsFinal, TypeOK, InRuby, FinishTask
  <2>2. EndedOnce(u)'
    BY <1>25 DEF EndedOnce, OnePlace, TypeOK, FinishTask
  <2>3. SettledIsFinal(u)'
    BY <1>25, Distinct DEF SettledIsFinal, InRuby, OnePlace, EndedOnce, TypeOK, FinishTask
  <2>4. Truthful(u)'
    BY <1>25 DEF Truthful, TrueTo, Received, SettledIsFinal, InRuby, OnePlace, EndedOnce, TypeOK, FinishTask
  <2> QED
    BY <2>1, <2>2, <2>3, <2>4
<1>26. CASE CollectCallback(t)
  <2>1. OnePlace(u)'
    BY <1>26, Distinct DEF OnePlace, EndedOnce, SettledIsFinal, TypeOK, InRuby, CollectCallback
  <2>2. EndedOnce(u)'
    BY <1>26 DEF EndedOnce, OnePlace, TypeOK, CollectCallback
  <2>3. SettledIsFinal(u)'
    BY <1>26, Distinct DEF SettledIsFinal, InRuby, OnePlace, EndedOnce, TypeOK, CollectCallback
  <2>4. Truthful(u)'
    BY <1>26 DEF Truthful, TrueTo, Received, SettledIsFinal, InRuby, OnePlace, EndedOnce, TypeOK, CollectCallback
  <2> QED
    BY <2>1, <2>2, <2>3, <2>4
<1>27. CASE BridgeCallFails(t)
  <2>1. OnePlace(u)'
    BY <1>27, Distinct DEF OnePlace, EndedOnce, SettledIsFinal, TypeOK, InRuby, BridgeCallFails, Settle
  <2>2. EndedOnce(u)'
    BY <1>27 DEF EndedOnce, OnePlace, TypeOK, BridgeCallFails, Settle
  <2>3. SettledIsFinal(u)'
    BY <1>27, Distinct DEF SettledIsFinal, InRuby, OnePlace, EndedOnce, TypeOK, BridgeCallFails, Settle
  <2>4. Truthful(u)'
    BY <1>27 DEF Truthful, TrueTo, Received, SettledIsFinal, InRuby, OnePlace, EndedOnce, TypeOK, BridgeCallFails, Settle
  <2> QED
    BY <2>1, <2>2, <2>3, <2>4
<1> QED
  BY <1>1, <1>2, <1>3, <1>4, <1>5, <1>6, <1>7, <1>8, <1>9, <1>10, <1>11, <1>12, <1>13, <1>14, <1>15, <1>16, <1>17, <1>18, <1>19, <1>20, <1>21, <1>22, <1>23, <1>24, <1>25, <1>26, <1>27
  DEF TaskNext, Core, BridgeTask, Future, HandlerEnds, WorkerMoves, WatcherMoves

LEMMA GlobalStep ==
    ASSUME IInv, NEW u \in Tasks,
           ReleaseHandler \/ BridgeStop \/ BridgeDies \/ PopShutdown \/ LoopExits
    PROVE  OnePlace(u)' /\ EndedOnce(u)' /\ SettledIsFinal(u)' /\ Truthful(u)'
<1> USE DEF Refused, GaveUp, futureVars, resultVars, fiberVars, threadVars, bridgeVars
<1>0. /\ TypeOK
      /\ OnePlace(u) /\ EndedOnce(u) /\ SettledIsFinal(u) /\ Truthful(u)
      /\ reply[u] = "shutdown" => bridge = "closed"
  BY DEF IInv, CallsOwed
<1> USE <1>0
<1>1. CASE ReleaseHandler
  <2>1. /\ Queued(bridgeQ', Submit(u)) <=> Queued(bridgeQ, Submit(u))
        /\ Queued(bridgeQ', CancelOp(u)) => Queued(bridgeQ, CancelOp(u))
        /\ Queued(commands', Execute(u)) <=> Queued(commands, Execute(u))
        /\ Once(bridgeQ', Submit(u)) /\ Once(commands', Execute(u))
    <3>1. CASE bridge = "open"
      BY <1>1, <3>1, AppendQueued, AppendOnce, Typed, Distinct DEF ReleaseHandler, OnePlace, TypeOK
    <3>2. CASE bridge # "open"
      BY <1>1, <3>2 DEF ReleaseHandler, OnePlace
    <3> QED
      BY <3>1, <3>2
  <2>2. OnePlace(u)'
    BY <1>1, <2>1, Distinct DEF OnePlace, EndedOnce, SettledIsFinal, TypeOK, InRuby, ReleaseHandler
  <2>3. EndedOnce(u)'
    BY <1>1, <2>1 DEF EndedOnce, OnePlace, TypeOK, ReleaseHandler
  <2>4. SettledIsFinal(u)'
    BY <1>1, <2>1, Distinct DEF SettledIsFinal, InRuby, OnePlace, EndedOnce, TypeOK, ReleaseHandler
  <2>5. Truthful(u)'
    BY <1>1 DEF Truthful, TrueTo, Received, SettledIsFinal, InRuby, OnePlace, EndedOnce, TypeOK, ReleaseHandler
  <2> QED
    BY <2>2, <2>3, <2>4, <2>5
<1>2. CASE BridgeStop
  <2>1. /\ Queued(bridgeQ', Submit(u)) <=> Queued(bridgeQ, Submit(u))
        /\ Queued(bridgeQ', CancelOp(u)) => Queued(bridgeQ, CancelOp(u))
        /\ Queued(commands', Execute(u)) <=> Queued(commands, Execute(u))
        /\ Once(bridgeQ', Submit(u)) /\ Once(commands', Execute(u))
    BY <1>2, TailQueued, AppendQueued, AppendOnce, Typed, Distinct DEF BridgeStop, OnePlace, TypeOK
  <2>2. OnePlace(u)'
    BY <1>2, <2>1, Distinct DEF OnePlace, EndedOnce, SettledIsFinal, TypeOK, InRuby, BridgeStop
  <2>3. EndedOnce(u)'
    BY <1>2, <2>1 DEF EndedOnce, OnePlace, TypeOK, BridgeStop
  <2>4. SettledIsFinal(u)'
    BY <1>2, <2>1, Distinct DEF SettledIsFinal, InRuby, OnePlace, EndedOnce, TypeOK, BridgeStop
  <2>5. Truthful(u)'
    BY <1>2 DEF Truthful, TrueTo, Received, SettledIsFinal, InRuby, OnePlace, EndedOnce, TypeOK, BridgeStop
  <2> QED
    BY <2>2, <2>3, <2>4, <2>5
<1>3. CASE PopShutdown
  <2>1. /\ Queued(bridgeQ', Submit(u)) <=> Queued(bridgeQ, Submit(u))
        /\ Queued(bridgeQ', CancelOp(u)) => Queued(bridgeQ, CancelOp(u))
        /\ Queued(commands', Execute(u)) <=> Queued(commands, Execute(u))
        /\ Once(bridgeQ', Submit(u)) /\ Once(commands', Execute(u))
    BY <1>3, TailQueued, Distinct DEF PopShutdown, OnePlace, TypeOK
  <2>2. OnePlace(u)'
    BY <1>3, <2>1, Distinct DEF OnePlace, EndedOnce, SettledIsFinal, TypeOK, InRuby, PopShutdown
  <2>3. EndedOnce(u)'
    BY <1>3, <2>1 DEF EndedOnce, OnePlace, TypeOK, PopShutdown
  <2>4. SettledIsFinal(u)'
    BY <1>3, <2>1, Distinct DEF SettledIsFinal, InRuby, OnePlace, EndedOnce, TypeOK, PopShutdown
  <2>5. Truthful(u)'
    BY <1>3 DEF Truthful, TrueTo, Received, SettledIsFinal, InRuby, OnePlace, EndedOnce, TypeOK, PopShutdown
  <2> QED
    BY <2>2, <2>3, <2>4, <2>5
<1>4. CASE LoopExits
  <2>1. OnePlace(u)'
    BY <1>4, Distinct DEF OnePlace, EndedOnce, SettledIsFinal, TypeOK, InRuby, LoopExits
  <2>2. EndedOnce(u)'
    BY <1>4 DEF EndedOnce, OnePlace, TypeOK, LoopExits
  <2>3. SettledIsFinal(u)'
    BY <1>4, Distinct DEF SettledIsFinal, InRuby, OnePlace, EndedOnce, TypeOK, LoopExits
  <2>4. Truthful(u)'
    BY <1>4 DEF Truthful, TrueTo, Received, SettledIsFinal, InRuby, OnePlace, EndedOnce, TypeOK, LoopExits
  <2> QED
    BY <2>1, <2>2, <2>3, <2>4
<1>5. CASE BridgeDies
  <2>1. /\ ~Queued(bridgeQ', Submit(u)) /\ ~Queued(bridgeQ', CancelOp(u)) /\ Once(bridgeQ', Submit(u))
        /\ UNCHANGED <<rust, outcome, cancelled, resultVars, fiberVars, threadVars>>
    BY <1>5 DEF BridgeDies, Queued, Once
  <2>q. /\ Queued(commands', Execute(u)) <=> Queued(commands, Execute(u))
        /\ Once(commands', Execute(u))
    BY <2>1 DEF OnePlace
  <2>2. bridge = "open" /\ bridge' = "closed"
    BY <1>5 DEF BridgeDies
  <2>3. \/ reply'[u] = reply[u]
        \/ reply'[u] = "shutdown" /\ (Queued(bridgeQ, Submit(u)) \/ Queued(bridgeQ, CancelOp(u)))
    BY <1>5 DEF BridgeDies
  <2>4. OnePlace(u)'
    BY <2>1, <2>2, <2>3, <2>q DEF OnePlace
  <2>5. EndedOnce(u)'
    BY <2>1 DEF EndedOnce
  <2>6. SettledIsFinal(u)'
    BY <2>1, <2>2 DEF SettledIsFinal, InRuby
  <2>7. Truthful(u)'
    BY <2>1, <2>2 DEF Truthful, TrueTo, Received
  <2> QED
    BY <2>4, <2>5, <2>6, <2>7
<1> QED
  BY <1>1, <1>2, <1>3, <1>4, <1>5

(* Only Dispatch makes a future active, and only when its key is free.     *)
LEMMA OneActiveStep == IInv /\ [Next]_vars => OneActivePerKey'
<1> SUFFICES ASSUME IInv, [Next]_vars PROVE OneActivePerKey'
  OBVIOUS
<1> USE DEF ActiveStates, Active, futureVars, resultVars, fiberVars, threadVars, bridgeVars
<1>1. TypeOK /\ OneActivePerKey
  BY DEF IInv
<1>2. ASSUME \A u \in Tasks : Active(u)' => Active(u) PROVE OneActivePerKey'
  BY <1>1, <1>2 DEF OneActivePerKey
<1>3. ASSUME NEW t \in Tasks, Dispatch(t) PROVE OneActivePerKey'
  BY <1>1, <1>3 DEF Dispatch, KeyFree, OneActivePerKey, TypeOK
<1>4. ASSUME NEW t \in Tasks, TaskNext(t), ~Dispatch(t)
      PROVE  \A u \in Tasks : Active(u)' => Active(u)
  <2>1. CASE DispatchInternal(t)
    BY <1>1, <2>1 DEF TypeOK, DispatchInternal
  <2>2. CASE Cancel(t)
    BY <1>1, <2>2 DEF TypeOK, Cancel
  <2>3. CASE DropFuture(t)
    BY <1>1, <2>3 DEF TypeOK, DropFuture
  <2>4. CASE BridgeSubmit(t)
    BY <1>1, <2>4 DEF TypeOK, BridgeSubmit
  <2>5. CASE BridgeCancel(t)
    BY <1>1, <2>5 DEF TypeOK, BridgeCancel
  <2>6. CASE Scheduled(t)
    BY <1>1, <2>6 DEF TypeOK, Scheduled, Settle
  <2>7. CASE ReceiveResult(t)
    BY <1>1, <2>7 DEF TypeOK, ReceiveResult, Settle
  <2>8. CASE ObserveCancel(t)
    BY <1>1, <2>8 DEF TypeOK, ObserveCancel
  <2>9. CASE CancelAcked(t)
    BY <1>1, <2>9 DEF TypeOK, CancelAcked
  <2>10. CASE Drain(t)
    BY <1>1, <2>10 DEF TypeOK, Drain, Settle
  <2>11. CASE PopExecute(t)
    BY <1>1, <2>11 DEF TypeOK, PopExecute
  <2>12. CASE HandlerReturns(t)
    BY <1>1, <2>12 DEF TypeOK, HandlerReturns
  <2>13. CASE HandlerRaises(t)
    BY <1>1, <2>13 DEF TypeOK, HandlerRaises
  <2>14. CASE HandlerStops(t)
    BY <1>1, <2>14 DEF TypeOK, HandlerStops
  <2>15. CASE HandlerFatal(t)
    BY <1>1, <2>15 DEF TypeOK, HandlerFatal
  <2>16. CASE CaptureReturns(t)
    BY <1>1, <2>16 DEF TypeOK, CaptureReturns
  <2>17. CASE WorkerExits(t)
    BY <1>1, <2>17 DEF TypeOK, WorkerExits
  <2>18. CASE CaptureRaises(t)
    BY <1>1, <2>18 DEF TypeOK, CaptureRaises
  <2>19. CASE ReactorStops(t)
    BY <1>1, <2>19 DEF TypeOK, ReactorStops
  <2>20. CASE StopRunning(t)
    BY <1>1, <2>20 DEF TypeOK, StopRunning
  <2>21. CASE StopCapturing(t)
    BY <1>1, <2>21 DEF TypeOK, StopCapturing
  <2>22. CASE StopReported(t)
    BY <1>1, <2>22 DEF TypeOK, StopReported
  <2>23. CASE StopEnded(t)
    BY <1>1, <2>23 DEF TypeOK, StopEnded
  <2>24. CASE FinishTask(t)
    BY <1>1, <2>24 DEF TypeOK, FinishTask
  <2>25. CASE CollectCallback(t)
    BY <1>1, <2>25 DEF TypeOK, CollectCallback
  <2>26. CASE BridgeCallFails(t)
    BY <1>1, <2>26 DEF TypeOK, BridgeCallFails, Settle
  <2> QED
    BY <1>4, <2>1, <2>2, <2>3, <2>4, <2>5, <2>6, <2>7, <2>8, <2>9, <2>10, <2>11, <2>12, <2>13, <2>14, <2>15, <2>16, <2>17, <2>18, <2>19, <2>20, <2>21, <2>22, <2>23, <2>24, <2>25, <2>26
    DEF TaskNext, Core, BridgeTask, Future, HandlerEnds, WorkerMoves, WatcherMoves
<1>5. CASE ReleaseHandler \/ BridgeStop \/ BridgeDies \/ PopShutdown \/ LoopExits \/ Terminated
  <2>1. rust' = rust
    BY <1>5 DEF ReleaseHandler, BridgeStop, BridgeDies, PopShutdown, LoopExits, Terminated, vars
  <2> QED
    BY <1>2, <2>1
<1>6. CASE UNCHANGED vars
  BY <1>2, <1>6 DEF vars
<1> QED
  BY <1>2, <1>3, <1>4, <1>5, <1>6 DEF Next

(* A call of the bridge fails only once the bridge is gone, and dies with  *)
(* everything it was sent.                                                 *)
LEMMA CallsOwedStep == IInv /\ [Next]_vars => CallsOwed'
<1> SUFFICES ASSUME IInv, [Next]_vars PROVE CallsOwed'
  OBVIOUS
<1> USE DEF futureVars, resultVars, fiberVars, threadVars, bridgeVars
<1>1. TypeOK /\ CallsOwed
  BY DEF IInv
<1>2. ASSUME NEW t \in Tasks, Dispatch(t) \/ ObserveCancel(t) PROVE CallsOwed'
  <2>1. /\ bridge' = bridge /\ cancelled' = cancelled
        /\ \/ Dispatch(t) /\ rust' = [rust EXCEPT ![t] = "submitting"]
           \/ cancelled[t] /\ rust' = [rust EXCEPT ![t] = "cancelling"]
    BY <1>2 DEF Dispatch, ObserveCancel
  <2>2. \/ bridge = "open" /\ reply' = reply
        \/ bridge # "open" /\ reply' = [reply EXCEPT ![t] = "shutdown"] /\ bridgeQ' = bridgeQ
    BY <1>2, Zenon DEF Dispatch, ObserveCancel, CallBridge
  <2> QED
    BY <1>1, <2>1, <2>2 DEF CallsOwed, TypeOK
<1>3. ASSUME NEW t \in Tasks, TaskNext(t), ~Dispatch(t), ~ObserveCancel(t)
      PROVE  /\ bridge' = bridge /\ (bridgeQ = <<>> => bridgeQ' = <<>>)
             /\ \A u \in Tasks : /\ reply'[u] = "shutdown" => reply[u] = "shutdown"
                                 /\ rust'[u] = "cancelling" => rust[u] = "cancelling"
                                 /\ cancelled[u] => cancelled'[u]
  <2>1. CASE DispatchInternal(t) \/ Cancel(t) \/ DropFuture(t)
    BY <1>1, <2>1 DEF TypeOK, DispatchInternal, Cancel, DropFuture
  <2>2. CASE BridgeSubmit(t)
    <3>1. \/ reply' = [reply EXCEPT ![t] = "rejected"]
          \/ reply' = [reply EXCEPT ![t] = "token"]
      BY <2>2, Zenon DEF BridgeSubmit
    <3> QED
      BY <1>1, <2>2, <3>1 DEF TypeOK, BridgeSubmit
  <2>3. CASE BridgeCancel(t)
    BY <1>1, <2>3 DEF TypeOK, BridgeCancel
  <2>4. CASE Scheduled(t) \/ CancelAcked(t)
    <3>1. /\ reply' = [reply EXCEPT ![t] = "none"]
          /\ \E c \in {"waiting", "draining", "done"} : rust' = [rust EXCEPT ![t] = c]
          /\ UNCHANGED <<cancelled, bridgeVars>>
      BY <2>4 DEF Scheduled, CancelAcked, Settle
    <3> QED
      BY <1>1, <3>1 DEF TypeOK
  <2>5. CASE BridgeCallFails(t) \/ ReceiveResult(t) \/ Drain(t)
    BY <1>1, <2>5 DEF TypeOK, BridgeCallFails, ReceiveResult, Drain, Settle
  <2>6. CASE HandlerEnds(t) \/ WorkerMoves(t)
    BY <2>6 DEF HandlerEnds, WorkerMoves, HandlerReturns, HandlerRaises, HandlerStops,
                HandlerFatal, CaptureReturns, WorkerExits, CaptureRaises, ReactorStops
  <2>7. CASE WatcherMoves(t) \/ PopExecute(t) \/ FinishTask(t) \/ CollectCallback(t)
    BY <2>7 DEF WatcherMoves, StopRunning, StopCapturing, StopReported, StopEnded,
                PopExecute, FinishTask, CollectCallback
  <2> QED
    BY <1>3, <2>1, <2>2, <2>3, <2>4, <2>5, <2>6, <2>7 DEF TaskNext, Core, BridgeTask, Future
<1>4. CASE ReleaseHandler
  BY <1>1, <1>4 DEF ReleaseHandler, CallsOwed
<1>5. CASE BridgeStop \/ PopShutdown \/ LoopExits \/ Terminated \/ UNCHANGED vars
  BY <1>1, <1>5 DEF BridgeStop, PopShutdown, LoopExits, Terminated, vars, CallsOwed
<1>6. CASE BridgeDies
  BY <1>1, <1>6 DEF BridgeDies, CallsOwed
<1>7. CASE \E t \in Tasks : TaskNext(t)
  <2>1. PICK t \in Tasks : TaskNext(t)
    BY <1>7
  <2>2. CASE Dispatch(t) \/ ObserveCancel(t)
    BY <1>2, <2>2
  <2>3. CASE ~Dispatch(t) /\ ~ObserveCancel(t)
    <3>1. /\ bridge' = bridge /\ (bridgeQ = <<>> => bridgeQ' = <<>>)
          /\ \A u \in Tasks : /\ reply'[u] = "shutdown" => reply[u] = "shutdown"
                              /\ rust'[u] = "cancelling" => rust[u] = "cancelling"
                              /\ cancelled[u] => cancelled'[u]
      BY <1>3, <2>1, <2>3
    <3> QED
      BY <1>1, <3>1 DEF CallsOwed
  <2> QED
    BY <2>2, <2>3
<1> QED
  BY <1>4, <1>5, <1>6, <1>7 DEF Next

(* The only way into Ruby is a call of the handler while the bridge lives. *)
LEMMA RubyEntry ==
    ASSUME IInv, NEW t \in Tasks, TaskNext(t), NEW u \in Tasks, InRuby(u)'
    PROVE  InRuby(u) \/ (u = t /\ Dispatch(t) /\ bridge = "open")
<1> USE DEF futureVars, resultVars, fiberVars, threadVars, bridgeVars
<1>0. TypeOK
  BY DEF IInv
<1>q. ASSUME worker' = worker, commands' = commands,
             Queued(bridgeQ', Submit(u)) => Queued(bridgeQ, Submit(u))
      PROVE  InRuby(u)
  BY <1>q DEF InRuby
<1>w. ASSUME bridgeQ' = bridgeQ, commands' = commands,
             worker'[u] \in {"running", "stopping"} => worker[u] \in {"running", "stopping"}
      PROVE  InRuby(u)
  BY <1>w DEF InRuby
<1>1. CASE Dispatch(t)
  <2>1. CASE bridge = "open" /\ u # t
    <3>1. bridgeQ' = Append(bridgeQ, Submit(t)) /\ commands' = commands /\ worker' = worker
      BY <1>1, <2>1, Zenon DEF Dispatch, CallBridge, threadVars, fiberVars
    <3>2. Queued(bridgeQ', Submit(u)) => Queued(bridgeQ, Submit(u))
      BY <1>0, <2>1, <3>1, AppendQueued, Typed, Distinct DEF TypeOK
    <3> QED
      BY <1>q, <3>1, <3>2
  <2>2. CASE bridge # "open"
    <3>1. bridgeQ' = bridgeQ /\ commands' = commands /\ worker' = worker
      BY <1>1, <2>2, Zenon DEF Dispatch, CallBridge, threadVars, fiberVars
    <3> QED
      BY <1>q, <3>1
  <2> QED
    BY <1>1, <2>1, <2>2
<1>2. CASE DispatchInternal(t) \/ Cancel(t) \/ DropFuture(t)
  BY <1>q, <1>2 DEF DispatchInternal, Cancel, DropFuture
<1>3. CASE BridgeSubmit(t)
  <2>1. Queued(bridgeQ, Submit(t))
    BY <1>0, <1>3, HeadQueued DEF BridgeSubmit, TypeOK
  <2>2. Queued(bridgeQ', Submit(u)) => Queued(bridgeQ, Submit(u))
    BY <1>0, <1>3, TailQueued DEF BridgeSubmit, TypeOK
  <2>3. commands' = commands \/ commands' = Append(commands, Execute(t))
    BY <1>3, Zenon DEF BridgeSubmit
  <2>4. Queued(commands', Execute(u)) => Queued(commands, Execute(u)) \/ u = t
    <3>1. commands \in Seq(Cmds) /\ Execute(t) \in Cmds
      BY <1>0, Typed DEF TypeOK
    <3>2. u # t => Execute(t) # Execute(u)
      BY Distinct
    <3> QED
      BY <2>3, <3>1, <3>2, AppendOther
  <2>5. worker' = worker
    BY <1>3 DEF BridgeSubmit
  <2> QED
    BY <2>1, <2>2, <2>4, <2>5 DEF InRuby
<1>4. CASE BridgeCancel(t)
  <2>1. Queued(bridgeQ', Submit(u)) => Queued(bridgeQ, Submit(u))
    BY <1>0, <1>4, TailQueued DEF BridgeCancel, TypeOK
  <2> QED
    BY <1>q, <1>4, <2>1 DEF BridgeCancel
<1>5. CASE Future(t)
  <2>1. CASE ObserveCancel(t)
    <3>1. commands' = commands /\ worker' = worker
      BY <2>1 DEF ObserveCancel
    <3>2. bridgeQ' = bridgeQ \/ bridgeQ' = Append(bridgeQ, CancelOp(t))
      BY <2>1, Zenon DEF ObserveCancel, CallBridge
    <3>3. Queued(bridgeQ', Submit(u)) => Queued(bridgeQ, Submit(u))
      <4>1. bridgeQ \in Seq(Ops) /\ CancelOp(t) \in Ops /\ CancelOp(t) # Submit(u)
        BY <1>0, Typed, Distinct DEF TypeOK
      <4> QED
        BY <3>2, <4>1, AppendOther
    <3> QED
      BY <1>q, <3>1, <3>3
  <2>2. CASE BridgeCallFails(t) \/ Scheduled(t) \/ ReceiveResult(t) \/ CancelAcked(t) \/ Drain(t)
    BY <1>q, <2>2 DEF BridgeCallFails, Scheduled, ReceiveResult, CancelAcked, Drain
  <2> QED
    BY <1>5, <2>1, <2>2 DEF Future
<1>6. CASE PopExecute(t)
  <2>1. Queued(commands, Execute(t))
    BY <1>0, <1>6, HeadQueued DEF PopExecute, TypeOK
  <2>2. Queued(commands', Execute(u)) => Queued(commands, Execute(u))
    BY <1>0, <1>6, TailQueued DEF PopExecute, TypeOK
  <2>3. bridgeQ' = bridgeQ /\ worker' = [worker EXCEPT ![t] = "running"]
    BY <1>6 DEF PopExecute
  <2> QED
    BY <1>0, <2>1, <2>2, <2>3 DEF InRuby, TypeOK
<1>7. CASE HandlerEnds(t) \/ WorkerMoves(t)
  <2>1. /\ bridgeQ' = bridgeQ /\ commands' = commands
        /\ \/ \E c \in {"reported", "capturing", "ended"} : worker' = [worker EXCEPT ![t] = c]
           \/ worker[t] = "running" /\ worker' = [worker EXCEPT ![t] = "stopping"]
    BY <1>7 DEF HandlerEnds, WorkerMoves, HandlerReturns, HandlerRaises, HandlerStops,
                HandlerFatal, CaptureReturns, WorkerExits, CaptureRaises, ReactorStops, Leave
  <2> QED
    BY <1>0, <1>w, <2>1 DEF TypeOK
<1>8. CASE WatcherMoves(t) \/ FinishTask(t) \/ CollectCallback(t)
  <2>1. /\ bridgeQ' = bridgeQ /\ commands' = commands
        /\ \/ worker' = worker
           \/ worker' = [worker EXCEPT ![t] = "ended"]
           \/ worker[t] = "running" /\ worker' = [worker EXCEPT ![t] = "stopping"]
    BY <1>8 DEF WatcherMoves, StopRunning, StopCapturing, StopReported, StopEnded,
                FinishTask, CollectCallback
  <2> QED
    BY <1>0, <1>w, <2>1 DEF TypeOK
<1> QED
  BY <1>1, <1>2, <1>3, <1>4, <1>5, <1>6, <1>7, <1>8 DEF TaskNext, Core, BridgeTask

(* A dropped future stays dropped.                                         *)
LEMMA DroppedStays ==
    ASSUME TypeOK, NEW t \in Tasks, TaskNext(t), NEW u \in Tasks, rust[u] = "dropped"
    PROVE  rust'[u] = "dropped"
<1> USE DEF Active, ActiveStates, futureVars
<1>1. CASE Core(t)
  BY <1>1 DEF TypeOK, Core, Dispatch, DispatchInternal, Cancel, DropFuture
<1>2. CASE Future(t)
  <2>1. CASE Scheduled(t)
    <3>1. rust[t] = "submitting" /\ \E c \in {"done", "waiting"} : rust' = [rust EXCEPT ![t] = c]
      BY <2>1 DEF Scheduled, Settle
    <3> QED
      BY <3>1 DEF TypeOK
  <2>2. CASE BridgeCallFails(t) \/ ReceiveResult(t) \/ ObserveCancel(t) \/ CancelAcked(t) \/ Drain(t)
    BY <2>2 DEF TypeOK, BridgeCallFails, ReceiveResult, ObserveCancel, CancelAcked, Drain, Settle
  <2> QED
    BY <1>2, <2>1, <2>2 DEF Future
<1>3. CASE BridgeTask(t) \/ PopExecute(t) \/ HandlerEnds(t) \/ WorkerMoves(t)
  BY <1>3 DEF BridgeTask, BridgeSubmit, BridgeCancel, PopExecute, HandlerEnds, WorkerMoves,
              HandlerReturns, HandlerRaises, HandlerStops, HandlerFatal, CaptureReturns,
              WorkerExits, CaptureRaises, ReactorStops
<1>4. CASE WatcherMoves(t) \/ FinishTask(t) \/ CollectCallback(t)
  BY <1>4 DEF WatcherMoves, StopRunning, StopCapturing, StopReported, StopEnded,
              FinishTask, CollectCallback
<1> QED
  BY <1>1, <1>2, <1>3, <1>4 DEF TaskNext

(* While the bridge lives, no other event of a free key has code in Ruby   *)
(* unless its future was dropped; and once it is dead nothing enters.      *)
LEMMA KeyExclusiveStep == IInv /\ [Next]_vars => KeyExclusive'
<1> SUFFICES ASSUME IInv, [Next]_vars,
                    NEW u \in Tasks, NEW v \in Tasks, u # v, Key[u] = Key[v],
                    InRuby(u)', InRuby(v)'
             PROVE  rust'[u] = "dropped" \/ rust'[v] = "dropped"
  BY DEF KeyExclusive
<1>1. TypeOK /\ (InRuby(u) /\ InRuby(v) => rust[u] = "dropped" \/ rust[v] = "dropped")
  BY DEF IInv, KeyExclusive
<1>2. ASSUME NEW t \in Tasks, Dispatch(t), bridge = "open",
             NEW w \in Tasks, w # t, Key[w] = Key[t], InRuby(w)
      PROVE  rust[w] = "dropped"
  <2>1. OnePlace(w) /\ SettledIsFinal(w) /\ ~Active(w)
    BY <1>2 DEF IInv, Dispatch, KeyFree
  <2> QED
    BY <1>1, <1>2, <2>1 DEF OnePlace, SettledIsFinal, InRuby, TypeOK, Active
<1>3. CASE \E t \in Tasks : TaskNext(t)
  <2>1. PICK t \in Tasks : TaskNext(t)
    BY <1>3
  <2>2. /\ InRuby(u) \/ (u = t /\ Dispatch(t) /\ bridge = "open")
        /\ InRuby(v) \/ (v = t /\ Dispatch(t) /\ bridge = "open")
    BY <2>1, RubyEntry
  <2>3. rust[u] = "dropped" \/ rust[v] = "dropped"
    BY <1>1, <1>2, <2>2
  <2> QED
    BY <1>1, <2>1, <2>3, DroppedStays
<1>4. CASE ReleaseHandler \/ BridgeStop \/ BridgeDies \/ PopShutdown \/ LoopExits
  <2>1. ASSUME NEW w \in Tasks, InRuby(w)' PROVE InRuby(w)
    <3>1. CASE ReleaseHandler
      <4>1. /\ bridgeQ' = bridgeQ \/ bridgeQ' = Append(bridgeQ, Stop)
            /\ commands' = commands /\ worker' = worker
        BY <3>1 DEF ReleaseHandler, fiberVars, threadVars
      <4>2. Queued(bridgeQ', Submit(w)) => Queued(bridgeQ, Submit(w))
        <5>1. bridgeQ \in Seq(Ops) /\ Stop \in Ops /\ Stop # Submit(w)
          BY <1>1, Typed, Distinct DEF TypeOK
        <5> QED
          BY <4>1, <5>1, AppendOther
      <4> QED
        BY <2>1, <4>1, <4>2 DEF InRuby
    <3>2. CASE BridgeStop
      <4>1. /\ bridgeQ # <<>> /\ bridgeQ' = Tail(bridgeQ) /\ worker' = worker
            /\ commands' = commands \/ commands' = Append(commands, Shutdown)
        BY <3>2 DEF BridgeStop, fiberVars
      <4>2. Queued(bridgeQ', Submit(w)) => Queued(bridgeQ, Submit(w))
        BY <1>1, <4>1, TailQueued DEF TypeOK
      <4>3. Queued(commands', Execute(w)) => Queued(commands, Execute(w))
        <5>1. commands \in Seq(Cmds) /\ Shutdown \in Cmds /\ Shutdown # Execute(w)
          BY <1>1, Typed, Distinct DEF TypeOK
        <5> QED
          BY <4>1, <5>1, AppendOther
      <4> QED
        BY <2>1, <4>1, <4>2, <4>3 DEF InRuby
    <3>3. CASE BridgeDies
      BY <2>1, <3>3 DEF BridgeDies, InRuby, Queued, fiberVars, threadVars
    <3>4. CASE PopShutdown
      <4>1. commands # <<>> /\ commands' = Tail(commands) /\ worker' = worker /\ bridgeQ' = bridgeQ
        BY <3>4 DEF PopShutdown, fiberVars, bridgeVars
      <4>2. Queued(commands', Execute(w)) => Queued(commands, Execute(w))
        BY <1>1, <4>1, TailQueued DEF TypeOK
      <4> QED
        BY <2>1, <4>1, <4>2 DEF InRuby
    <3>5. CASE LoopExits
      BY <2>1, <3>5 DEF LoopExits, InRuby, fiberVars, bridgeVars
    <3> QED
      BY <1>4, <3>1, <3>2, <3>3, <3>4, <3>5
  <2>2. rust' = rust
    BY <1>4 DEF ReleaseHandler, BridgeStop, BridgeDies, PopShutdown, LoopExits, futureVars
  <2> QED
    BY <1>1, <2>1, <2>2
<1>5. CASE Terminated \/ UNCHANGED vars
  BY <1>1, <1>5 DEF Terminated, vars, InRuby, futureVars, fiberVars, threadVars, bridgeVars
<1> QED
  BY <1>3, <1>4, <1>5 DEF Next

LEMMA InvNext == IInv /\ [Next]_vars => IInv'
<1> SUFFICES ASSUME IInv, [Next]_vars PROVE IInv'
  OBVIOUS
<1>1. TypeOK'
  BY TypeNext DEF IInv
<1>2. OneActivePerKey' /\ KeyExclusive' /\ CallsOwed'
  BY OneActiveStep, KeyExclusiveStep, CallsOwedStep
<1>3. ASSUME NEW u \in Tasks
      PROVE  OnePlace(u)' /\ EndedOnce(u)' /\ SettledIsFinal(u)' /\ Truthful(u)'
  <2>1. CASE \E t \in Tasks : TaskNext(t)
    BY <2>1, TaskStep
  <2>2. CASE ReleaseHandler \/ BridgeStop \/ BridgeDies \/ PopShutdown \/ LoopExits
    BY <2>2, GlobalStep
  <2>3. CASE Terminated \/ UNCHANGED vars
    BY <2>3 DEF Terminated, vars, futureVars, resultVars, fiberVars, threadVars, bridgeVars,
                IInv, OnePlace, EndedOnce, SettledIsFinal, Truthful, TrueTo, InRuby,
                Refused, GaveUp
  <2> QED
    BY <2>1, <2>2, <2>3 DEF Next
<1> QED
  BY <1>1, <1>2, <1>3 DEF IInv

(* The inductive invariant holds in every state.                           *)
THEOREM Invariant == Spec => []IInv
<1>1. Init => IInv
  BY InvInit
<1>2. IInv /\ [Next]_vars => IInv'
  BY InvNext
<1> QED
  BY <1>1, <1>2, PTL DEF Spec

--------------------------------------------------------------------------------
(* What follows from it.                                                   *)

(* The verdict of a future is true to how the handler's code ended, for    *)
(* every number of tasks and with every fault (RubyHandler, ResultSender). *)
THEOREM VerdictsTrue == Spec => []ResultTruthful
<1>1. IInv => ResultTruthful
  BY DEF IInv, Truthful, ResultTruthful
<1> QED
  BY <1>1, Invariant, PTL

(* Two events of a key never have code in Ruby together while the core     *)
(* keeps their futures (ARCHITECTURE.md, per-key order).                   *)
THEOREM KeysExclusive == Spec => []KeyExclusive
<1>1. IInv => KeyExclusive
  BY DEF IInv
<1> QED
  BY <1>1, Invariant, PTL

(* The channel keeps the first result it is given: no later callback, stop *)
(* or collection replaces it (ResultSender's AtomicTake).                  *)
THEOREM FirstResultKept == Spec => FirstResultWins
<1>1. IInv /\ [Next]_vars => [\A t \in Tasks : chan[t] # "empty" => chan'[t] = chan[t]]_vars
  <2> SUFFICES ASSUME IInv, [Next]_vars, NEW u \in Tasks, chan[u] # "empty"
               PROVE  chan'[u] = chan[u]
    OBVIOUS
  <2> USE DEF futureVars, resultVars, fiberVars, threadVars, bridgeVars
  <2>1. TypeOK /\ taken[u]
    BY DEF IInv, EndedOnce, TypeOK
  <2>2. ASSUME NEW t \in Tasks, TaskNext(t) PROVE chan'[u] = chan[u]
    <3>1. CASE HandlerReturns(t)
      BY <2>1, <3>1 DEF TypeOK, HandlerReturns, CallCallback
    <3>2. CASE HandlerStops(t) \/ CaptureReturns(t) \/ StopReported(t)
      BY <2>1, <3>2 DEF TypeOK, HandlerStops, CaptureReturns, StopReported, CallCallback
    <3>3. CASE CollectCallback(t)
      BY <2>1, <3>3 DEF TypeOK, CollectCallback
    <3>4. CASE Core(t) \/ BridgeTask(t) \/ Future(t) \/ PopExecute(t) \/ FinishTask(t)
      BY <3>4 DEF Core, BridgeTask, Future, PopExecute, FinishTask, Dispatch, DispatchInternal,
                  Cancel, DropFuture, BridgeSubmit, BridgeCancel, BridgeCallFails, Scheduled, ReceiveResult,
                  ObserveCancel, CancelAcked, Drain
    <3>5. CASE \/ HandlerRaises(t) \/ HandlerFatal(t) \/ WorkerExits(t) \/ CaptureRaises(t)
               \/ ReactorStops(t) \/ StopRunning(t) \/ StopCapturing(t) \/ StopEnded(t)
      BY <3>5 DEF HandlerRaises, HandlerFatal, WorkerExits, CaptureRaises, ReactorStops,
                  StopRunning, StopCapturing, StopEnded
    <3> QED
      BY <2>2, <3>1, <3>2, <3>3, <3>4, <3>5 DEF TaskNext, HandlerEnds, WorkerMoves, WatcherMoves
  <2>3. CASE ReleaseHandler \/ BridgeStop \/ BridgeDies \/ PopShutdown \/ LoopExits \/ Terminated
    BY <2>3 DEF ReleaseHandler, BridgeStop, BridgeDies, PopShutdown, LoopExits, Terminated, vars
  <2>4. CASE UNCHANGED vars
    BY <2>4 DEF vars
  <2> QED
    BY <2>2, <2>3, <2>4 DEF Next
<1> QED
  BY <1>1, Invariant, PTL DEF Spec, FirstResultWins

--------------------------------------------------------------------------------
(* Stops.                                                                  *)

(* A cancellation is sent to the bridge only for a cancelled event.        *)
LEMMA CancelSent ==
    ASSUME IInv, StopInv, [Next]_vars, NEW u \in Tasks, Queued(bridgeQ', CancelOp(u))
    PROVE  cancelled'[u]
<1> USE DEF futureVars, resultVars, fiberVars, threadVars, bridgeVars
<1>0. TypeOK /\ (Queued(bridgeQ, CancelOp(u)) => cancelled[u])
  BY DEF IInv, StopInv, SignalsOwed
<1>1. ASSUME cancelled' = cancelled, bridgeQ' = bridgeQ PROVE cancelled'[u]
  BY <1>0, <1>1
<1>2. ASSUME cancelled' = cancelled, bridgeQ # <<>>, bridgeQ' = Tail(bridgeQ) PROVE cancelled'[u]
  BY <1>0, <1>2, TailQueued DEF TypeOK
<1>3. ASSUME NEW e \in Ops, cancelled' = cancelled, bridgeQ' = Append(bridgeQ, e), e # CancelOp(u)
      PROVE  cancelled'[u]
  BY <1>0, <1>3, AppendQueued DEF TypeOK
<1>4. ASSUME NEW t \in Tasks, Core(t) PROVE cancelled'[u]
  <2>1. CASE Dispatch(t)
    <3>1. /\ cancelled' = cancelled /\ Submit(t) \in Ops /\ Submit(t) # CancelOp(u)
          /\ bridgeQ' = bridgeQ \/ bridgeQ' = Append(bridgeQ, Submit(t))
      BY <2>1, Typed, Distinct, Zenon DEF Dispatch, CallBridge
    <3> QED
      BY <3>1, <1>1, <1>3
  <2>2. CASE Cancel(t)
    BY <2>2, <1>0 DEF Cancel, TypeOK
  <2>3. CASE DispatchInternal(t) \/ DropFuture(t)
    BY <2>3, <1>1 DEF DispatchInternal, DropFuture
  <2> QED
    BY <1>4, <2>1, <2>2, <2>3 DEF Core
<1>5. ASSUME NEW t \in Tasks, BridgeTask(t) PROVE cancelled'[u]
  BY <1>2, <1>5 DEF BridgeTask, BridgeSubmit, BridgeCancel
<1>6. ASSUME NEW t \in Tasks, Future(t) PROVE cancelled'[u]
  <2>1. CASE ObserveCancel(t)
    <3>1. CASE t = u
      BY <2>1, <3>1 DEF ObserveCancel
    <3>2. CASE t # u
      <4>1. CancelOp(t) # CancelOp(u) /\ CancelOp(t) \in Ops
        BY <3>2, CancelDistinct, Typed
      <4>2. /\ cancelled' = cancelled
            /\ bridgeQ' = bridgeQ \/ bridgeQ' = Append(bridgeQ, CancelOp(t))
        BY <2>1, Zenon DEF ObserveCancel, CallBridge
      <4> QED
        BY <4>1, <4>2, <1>1, <1>3
    <3> QED
      BY <3>1, <3>2
  <2>2. CASE BridgeCallFails(t) \/ Scheduled(t) \/ ReceiveResult(t) \/ CancelAcked(t) \/ Drain(t)
    BY <2>2, <1>1 DEF BridgeCallFails, Scheduled, ReceiveResult, CancelAcked, Drain
  <2> QED
    BY <1>6, <2>1, <2>2 DEF Future
<1>7. ASSUME NEW t \in Tasks, HandlerEnds(t) \/ WorkerMoves(t) PROVE cancelled'[u]
  BY <1>1, <1>7 DEF HandlerEnds, WorkerMoves, HandlerReturns, HandlerRaises, HandlerStops,
                    HandlerFatal, CaptureReturns, WorkerExits, CaptureRaises, ReactorStops
<1>8. ASSUME NEW t \in Tasks,
             WatcherMoves(t) \/ PopExecute(t) \/ FinishTask(t) \/ CollectCallback(t)
      PROVE  cancelled'[u]
  BY <1>1, <1>8 DEF WatcherMoves, StopRunning, StopCapturing, StopReported, StopEnded,
                    PopExecute, FinishTask, CollectCallback
<1>9. CASE ReleaseHandler
  <2>1. Stop # CancelOp(u) /\ Stop \in Ops
    BY Distinct, Typed
  <2>2. cancelled' = cancelled /\ (bridgeQ' = bridgeQ \/ bridgeQ' = Append(bridgeQ, Stop))
    BY <1>9, Zenon DEF ReleaseHandler
  <2> QED
    BY <1>1, <1>3, <2>1, <2>2
<1>10. CASE BridgeStop
  BY <1>2, <1>10 DEF BridgeStop
<1>11. CASE PopShutdown \/ LoopExits \/ Terminated \/ UNCHANGED vars
  BY <1>1, <1>11 DEF PopShutdown, LoopExits, Terminated, vars
<1>12. CASE BridgeDies
  BY <1>12 DEF BridgeDies, Queued
<1> QED
  BY <1>4, <1>5, <1>6, <1>7, <1>8, <1>9, <1>10, <1>11, <1>12 DEF Next, TaskNext

(* Only the event's own cancellation signals a worker that has not left.   *)
LEMMA SignalStep ==
    ASSUME IInv, StopInv, [Next]_vars, NEW u \in Tasks
    PROVE  SignalsOwed(u)'
<1> USE DEF futureVars, resultVars, fiberVars, threadVars, bridgeVars
<1>0. TypeOK /\ SignalsOwed(u) /\ OnePlace(u) /\ EndedOnce(u)
  BY DEF IInv, StopInv
<1>c. cancelled[u] => cancelled'[u]
  <2>1. ASSUME NEW t \in Tasks, Cancel(t) PROVE cancelled[u] => cancelled'[u]
    BY <1>0, <2>1 DEF Cancel, TypeOK
  <2>2. ASSUME NEW t \in Tasks, TaskNext(t), ~Cancel(t) PROVE cancelled' = cancelled
    <3>1. CASE Core(t) \/ BridgeTask(t) \/ Future(t)
      BY <2>2, <3>1 DEF Core, BridgeTask, Future, Dispatch, DispatchInternal, DropFuture, BridgeSubmit,
                  BridgeCancel, BridgeCallFails, Scheduled, ReceiveResult, ObserveCancel, CancelAcked, Drain
    <3>2. CASE HandlerEnds(t) \/ WorkerMoves(t)
      BY <3>2 DEF HandlerEnds, WorkerMoves, HandlerReturns, HandlerRaises, HandlerStops,
                  HandlerFatal, CaptureReturns, WorkerExits, CaptureRaises, ReactorStops
    <3>3. CASE WatcherMoves(t) \/ PopExecute(t) \/ FinishTask(t) \/ CollectCallback(t)
      BY <3>3 DEF WatcherMoves, StopRunning, StopCapturing, StopReported, StopEnded,
                  PopExecute, FinishTask, CollectCallback
    <3> QED
      BY <2>2, <3>1, <3>2, <3>3 DEF TaskNext
  <2>3. CASE ReleaseHandler \/ BridgeStop \/ BridgeDies \/ PopShutdown \/ LoopExits \/ Terminated \/ UNCHANGED vars
    BY <2>3 DEF ReleaseHandler, BridgeStop, BridgeDies, PopShutdown, LoopExits, Terminated, vars
  <2> QED
    BY <2>1, <2>2, <2>3 DEF Next
<1>q. Queued(bridgeQ', CancelOp(u)) => cancelled'[u]
  BY CancelSent
<1>s. ASSUME UNCHANGED <<signal, worker, ended>>, loop = "crashed" => loop' = "crashed"
      PROVE  SignalsOwed(u)'
  BY <1>0, <1>c, <1>q, <1>s DEF SignalsOwed
<1>1. ASSUME NEW t \in Tasks, Core(t) \/ Future(t) \/ BridgeSubmit(t) PROVE SignalsOwed(u)'
  BY <1>1, <1>s DEF Core, Future, Dispatch, DispatchInternal, Cancel, DropFuture, BridgeSubmit,
                    BridgeCallFails, Scheduled, ReceiveResult, ObserveCancel, CancelAcked, Drain
<1>2. ASSUME NEW t \in Tasks, BridgeCancel(t) PROVE SignalsOwed(u)'
  <2>1. Queued(bridgeQ, CancelOp(t))
    BY <1>0, <1>2, HeadQueued DEF BridgeCancel, TypeOK
  <2>2. t = u => cancelled[u]
    BY <1>0, <2>1 DEF SignalsOwed
  <2>3. /\ UNCHANGED <<cancelled, worker, ended, loop>>
        /\ t # u => signal'[u] = signal[u]
    BY <1>0, <1>2 DEF BridgeCancel, TypeOK
  <2> QED
    BY <1>0, <1>q, <2>2, <2>3 DEF SignalsOwed
<1>3. ASSUME NEW t \in Tasks, PopExecute(t) PROVE SignalsOwed(u)'
  <2>1. Queued(commands, Execute(t))
    BY <1>0, <1>3, HeadQueued DEF PopExecute, TypeOK
  <2>2. t = u => worker[u] = "none"
    BY <1>0, <2>1 DEF OnePlace
  <2>3. /\ UNCHANGED <<cancelled, signal, ended, loop>>
        /\ worker'[u] = IF u = t THEN "running" ELSE worker[u]
    BY <1>0, <1>3 DEF PopExecute, TypeOK
  <2> QED
    BY <1>0, <1>q, <2>2, <2>3 DEF SignalsOwed
<1>4. ASSUME NEW t \in Tasks, HandlerReturns(t) \/ HandlerRaises(t) PROVE SignalsOwed(u)'
  <2>1. /\ UNCHANGED <<cancelled, signal, loop>>
        /\ worker[t] \in {"running", "stopping"} /\ worker'[t] \in {"reported", "capturing"}
        /\ ended'[t] # "stopped"
        /\ u # t => worker'[u] = worker[u] /\ ended'[u] = ended[u]
    BY <1>0, <1>4 DEF HandlerReturns, HandlerRaises, TypeOK
  <2> QED
    BY <1>0, <1>q, <2>1 DEF SignalsOwed
<1>5. ASSUME NEW t \in Tasks, HandlerStops(t) PROVE SignalsOwed(u)'
  <2>1. /\ UNCHANGED <<cancelled, signal, loop>>
        /\ worker[t] = "stopping" /\ worker'[t] = "reported"
        /\ u # t => worker'[u] = worker[u] /\ ended'[u] = ended[u]
    BY <1>0, <1>5 DEF HandlerStops, TypeOK
  <2> QED
    BY <1>0, <1>q, <2>1 DEF SignalsOwed
<1>6. ASSUME NEW t \in Tasks, HandlerFatal(t) PROVE SignalsOwed(u)'
  <2>1. /\ cancelled' = cancelled /\ loop' = "crashed" /\ worker'[t] = "ended"
        /\ u # t => worker'[u] = worker[u] /\ signal'[u] = signal[u]
    BY <1>0, <1>6 DEF HandlerFatal, Leave, TypeOK
  <2> QED
    BY <1>0, <1>q, <2>1 DEF SignalsOwed
<1>7. ASSUME NEW t \in Tasks, WorkerExits(t) \/ CaptureRaises(t) PROVE SignalsOwed(u)'
  <2>1. /\ UNCHANGED <<cancelled, ended, loop>> /\ worker'[t] = "ended"
        /\ u # t => worker'[u] = worker[u] /\ signal'[u] = signal[u]
    BY <1>0, <1>7 DEF WorkerExits, CaptureRaises, Leave, TypeOK
  <2> QED
    BY <1>0, <1>q, <2>1 DEF SignalsOwed
<1>8. ASSUME NEW t \in Tasks, CaptureReturns(t) PROVE SignalsOwed(u)'
  <2>1. /\ UNCHANGED <<cancelled, ended, signal, loop>> 
        /\ worker[t] = "capturing" /\ worker'[t] = "reported"
        /\ u # t => worker'[u] = worker[u]
    BY <1>0, <1>8 DEF CaptureReturns, TypeOK
  <2> QED
    BY <1>0, <1>q, <2>1 DEF SignalsOwed
<1>9. ASSUME NEW t \in Tasks, ReactorStops(t) PROVE SignalsOwed(u)'
  <2>1. /\ UNCHANGED <<cancelled, ended, signal, loop>> /\ loop = "crashed"
        /\ worker[t] = "running"
        /\ u # t => worker'[u] = worker[u]
    BY <1>0, <1>9 DEF ReactorStops, TypeOK
  <2> QED
    BY <1>0, <1>q, <2>1 DEF SignalsOwed
<1>10. ASSUME NEW t \in Tasks, StopRunning(t) PROVE SignalsOwed(u)'
  <2>1. /\ UNCHANGED <<cancelled, ended, loop>>
        /\ worker[t] = "running" /\ signal[t] > 0
        /\ u # t => worker'[u] = worker[u] /\ signal'[u] = signal[u]
    BY <1>0, <1>10 DEF StopRunning, WatcherWakes, TypeOK
  <2> QED
    BY <1>0, <1>q, <2>1 DEF SignalsOwed
<1>11. ASSUME NEW t \in Tasks, StopCapturing(t) PROVE SignalsOwed(u)'
  <2>1. /\ UNCHANGED <<cancelled, ended, signal, loop>> /\ worker'[t] = "ended"
        /\ u # t => worker'[u] = worker[u]
    BY <1>0, <1>11 DEF StopCapturing, TypeOK
  <2> QED
    BY <1>0, <1>q, <2>1 DEF SignalsOwed
<1>12. ASSUME NEW t \in Tasks, StopReported(t) \/ StopEnded(t) PROVE SignalsOwed(u)'
  <2>1. /\ UNCHANGED <<cancelled, ended, worker, loop>>
        /\ signal'[u] > 0 => signal[u] > 0
    BY <1>0, <1>12 DEF StopReported, StopEnded, WatcherWakes, TypeOK
  <2> QED
    BY <1>0, <1>q, <2>1 DEF SignalsOwed
<1>13. ASSUME NEW t \in Tasks, FinishTask(t) \/ CollectCallback(t) PROVE SignalsOwed(u)'
  BY <1>13, <1>s DEF FinishTask, CollectCallback
<1>14. CASE ReleaseHandler \/ BridgeStop \/ BridgeDies \/ PopShutdown \/ LoopExits \/ Terminated \/ UNCHANGED vars
  BY <1>14, <1>s DEF ReleaseHandler, BridgeStop, BridgeDies, PopShutdown, LoopExits, Terminated, vars
<1> QED
  BY <1>1, <1>2, <1>3, <1>4, <1>5, <1>6, <1>7, <1>8, <1>9, <1>10, <1>11, <1>12, <1>13, <1>14
     DEF Next, TaskNext, BridgeTask, HandlerEnds, WorkerMoves, WatcherMoves

(* Async::Stop rises only in code whose own event was cancelled, or when   *)
(* the reactor goes down (CancellationToken, run_with_cancellation).       *)
THEOREM StopsJustified == Spec => []NoSpuriousStop
<1>1. Init => StopInv
  <2> SUFFICES ASSUME Init, NEW t \in Tasks PROVE SignalsOwed(t)
    BY DEF StopInv
  <2>1. ~Queued(bridgeQ, CancelOp(t))
    BY DEF Init, Queued
  <2> QED
    BY <2>1 DEF Init, SignalsOwed
<1>2. IInv /\ StopInv /\ [Next]_vars => StopInv'
  BY SignalStep DEF StopInv
<1>3. StopInv => NoSpuriousStop
  BY DEF StopInv, SignalsOwed, NoSpuriousStop
<1> QED
  BY <1>1, <1>2, <1>3, Invariant, PTL DEF Spec

--------------------------------------------------------------------------------
(* The end of the loop.                                                    *)

(* Tasks keep their fibers attended, and none of them is refused.          *)
LEMMA AttendedStep ==
    ASSUME IInv, ShutdownInv, [Next]_vars, NEW u \in Tasks
    PROVE  Attended(u)'
<1> USE DEF futureVars, resultVars, fiberVars, threadVars, bridgeVars
<1>0. TypeOK /\ Attended(u) /\ OnePlace(u) /\ (isShutdown => bridgeQ = <<>>)
  BY DEF IInv, ShutdownInv, StopIsLast
<1>1. ASSUME NEW t \in Tasks, Core(t) PROVE Attended(u)'
  <2>1. /\ UNCHANGED <<worker, watcher, parent>>
        /\ reply' = reply \/ reply' = [reply EXCEPT ![t] = "shutdown"]
    BY <1>1, Zenon DEF Core, Dispatch, CallBridge, DispatchInternal, Cancel, DropFuture
  <2>2. reply'[u] # "rejected"
    BY <1>0, <2>1 DEF Attended, TypeOK
  <2> QED
    BY <1>0, <2>1, <2>2 DEF Attended
<1>2. ASSUME NEW t \in Tasks, BridgeTask(t) PROVE Attended(u)'
  <2>1. /\ UNCHANGED <<worker, watcher, parent>>
        /\ reply' = [reply EXCEPT ![t] = "token"] \/ reply' = [reply EXCEPT ![t] = "cancelled"]
    BY <1>0, <1>2 DEF BridgeTask, BridgeSubmit, BridgeCancel
  <2>2. reply'[u] # "rejected"
    BY <1>0, <2>1 DEF Attended, TypeOK
  <2> QED
    BY <1>0, <2>1, <2>2 DEF Attended
<1>3. ASSUME NEW t \in Tasks, Future(t) PROVE Attended(u)'
  <2>1. /\ UNCHANGED <<worker, watcher, parent>>
        /\ reply' = reply \/ \E a \in {"none", "shutdown"} : reply' = [reply EXCEPT ![t] = a]
    BY <1>3 DEF Future, CallBridge, BridgeCallFails, Scheduled, ReceiveResult, ObserveCancel, CancelAcked, Drain
  <2>2. reply'[u] # "rejected"
    BY <1>0, <2>1 DEF Attended, TypeOK
  <2> QED
    BY <1>0, <2>1, <2>2 DEF Attended
<1>4. ASSUME NEW t \in Tasks, PopExecute(t) PROVE Attended(u)'
  BY <1>0, <1>4 DEF Attended, PopExecute, TypeOK
<1>5. ASSUME NEW t \in Tasks, HandlerEnds(t) \/ WorkerMoves(t) PROVE Attended(u)'
  <2>1. /\ UNCHANGED <<reply, watcher, parent>>
        /\ worker[t] \notin {"none", "ended"}
        /\ u # t => worker'[u] = worker[u]
    BY <1>0, <1>5 DEF TypeOK, HandlerEnds, WorkerMoves, HandlerReturns, HandlerRaises, HandlerStops,
                HandlerFatal, CaptureReturns, WorkerExits, CaptureRaises, ReactorStops, Leave
  <2> QED
    BY <1>0, <2>1 DEF Attended
<1>6. ASSUME NEW t \in Tasks, WatcherMoves(t) PROVE Attended(u)'
  <2>1. /\ UNCHANGED <<reply, parent>>
        /\ watcher' = [watcher EXCEPT ![t] = "done"]
        /\ worker'[t] = worker[t] \/ worker[t] \in {"running", "capturing"}
        /\ u # t => worker'[u] = worker[u]
    BY <1>0, <1>6 DEF TypeOK, WatcherMoves, StopRunning, StopCapturing, StopReported, StopEnded,
                      WatcherWakes
  <2>2. watcher'[u] = "waiting" => watcher[u] = "waiting"
    BY <1>0, <2>1 DEF TypeOK
  <2> QED
    BY <1>0, <2>1, <2>2 DEF Attended
<1>7. ASSUME NEW t \in Tasks, FinishTask(t) PROVE Attended(u)'
  BY <1>0, <1>7 DEF Attended, FinishTask, TypeOK
<1>8. ASSUME NEW t \in Tasks, CollectCallback(t) PROVE Attended(u)'
  BY <1>0, <1>8 DEF Attended, CollectCallback
<1>9. CASE ReleaseHandler \/ BridgeStop \/ BridgeDies \/ PopShutdown \/ LoopExits \/ Terminated \/ UNCHANGED vars
  BY <1>0, <1>9 DEF Attended, ReleaseHandler, BridgeStop, BridgeDies, PopShutdown, LoopExits, Terminated, vars
<1> QED
  BY <1>1, <1>2, <1>3, <1>4, <1>5, <1>6, <1>7, <1>8, <1>9 DEF Next, TaskNext

(* Steps that leave the queues, the loop and the handler alone.            *)
LEMMA StopKept ==
    ASSUME StopIsLast, UNCHANGED <<bridgeQ, commands, loop, isShutdown, handler>>,
           \A t \in Tasks : Active(t)' => Active(t),
           \A t \in Tasks : parent'[t] = "running" => parent[t] = "running"
    PROVE  StopIsLast'
BY DEF StopIsLast, LastOnly, Queued

(* Once the stop is sent nothing follows it, in either queue.              *)
LEMMA StopStep == ASSUME IInv, ShutdownInv, [Next]_vars PROVE StopIsLast'
<1> USE DEF futureVars, resultVars, fiberVars, threadVars, bridgeVars
<1>0. TypeOK /\ StopIsLast
  BY DEF IInv, ShutdownInv
<1>t. bridgeQ \in Seq(Ops) /\ commands \in Seq(Cmds) /\ Stop \in Ops /\ Shutdown \in Cmds
  BY <1>0, Typed DEF TypeOK
<1>a. ASSUME NEW e \in Ops, e # Stop, handler = "held",
             bridgeQ' = bridgeQ \/ bridgeQ' = Append(bridgeQ, e),
             UNCHANGED <<commands, loop, isShutdown, handler, parent>>
      PROVE  StopIsLast'
  <2>1. ~Queued(bridgeQ, Stop) /\ ~isShutdown
    BY <1>0, <1>a DEF StopIsLast
  <2>2. ~Queued(bridgeQ', Stop)
    BY <1>a, <1>t, <2>1, AppendOther
  <2>3. LastOnly(bridgeQ', Stop)
    BY <2>2 DEF LastOnly, Queued
  <2> QED
    BY <1>0, <1>a, <2>1, <2>2, <2>3 DEF StopIsLast
<1>1. ASSUME NEW t \in Tasks, Dispatch(t) PROVE StopIsLast'
  <2>1. /\ handler = "held" /\ UNCHANGED <<commands, loop, isShutdown, handler, parent>>
        /\ bridgeQ' = bridgeQ \/ bridgeQ' = Append(bridgeQ, Submit(t))
    BY <1>1, Zenon DEF Dispatch, CallBridge
  <2> QED
    BY <2>1, <1>a, Typed, Distinct
<1>2. ASSUME NEW t \in Tasks, ObserveCancel(t) PROVE StopIsLast'
  <2>1. handler = "held"
    BY <1>0, <1>2 DEF ObserveCancel, StopIsLast, Active, ActiveStates, TypeOK
  <2> QED
    <3>1. /\ UNCHANGED <<commands, loop, isShutdown, handler, parent>>
          /\ bridgeQ' = bridgeQ \/ bridgeQ' = Append(bridgeQ, CancelOp(t))
      BY <1>2, Zenon DEF ObserveCancel, CallBridge
    <3> QED
      BY <3>1, <2>1, <1>a, Typed, Distinct
<1>3. ASSUME NEW t \in Tasks, DispatchInternal(t) \/ Cancel(t) \/ DropFuture(t) PROVE StopIsLast'
  <2>1. /\ UNCHANGED <<bridgeQ, commands, loop, isShutdown, handler, parent>>
        /\ \A v \in Tasks : Active(v)' => Active(v)
    BY <1>0, <1>3 DEF DispatchInternal, Cancel, DropFuture, TypeOK, Active, ActiveStates
  <2> QED
    BY <1>0, <2>1, StopKept
<1>4. ASSUME NEW t \in Tasks,
             BridgeCallFails(t) \/ Scheduled(t) \/ ReceiveResult(t) \/ CancelAcked(t) \/ Drain(t)
      PROVE  StopIsLast'
  <2>1. /\ UNCHANGED <<bridgeQ, commands, loop, isShutdown, handler, parent>>
        /\ Active(t) /\ \A v \in Tasks \ {t} : rust'[v] = rust[v]
    BY <1>0, <1>4 DEF BridgeCallFails, Scheduled, ReceiveResult, CancelAcked, Drain, Settle, TypeOK,
                      Active, ActiveStates
  <2>2. \A v \in Tasks : Active(v)' => Active(v)
    BY <2>1 DEF Active
  <2> QED
    BY <1>0, <2>1, <2>2, StopKept
<1>5. ASSUME NEW t \in Tasks, BridgeSubmit(t) PROVE StopIsLast'
  <2>1. /\ bridgeQ # <<>> /\ bridgeQ' = Tail(bridgeQ) /\ ~isShutdown
        /\ UNCHANGED <<rust, loop, isShutdown, handler, parent>>
    BY <1>0, <1>5 DEF BridgeSubmit, StopIsLast
  <2>2. commands' = Append(commands, Execute(t))
    BY <1>5, <2>1, Zenon DEF BridgeSubmit
  <2>3. LastOnly(bridgeQ', Stop) /\ (Queued(bridgeQ', Stop) => Queued(bridgeQ, Stop))
    BY <1>0, <1>t, <2>1, TailLast, TailQueued DEF StopIsLast
  <2>4. ~Queued(commands, Shutdown) /\ loop \notin {"draining", "exited"}
    BY <1>0, <2>1 DEF StopIsLast
  <2>5. LastOnly(commands', Shutdown) /\ ~Queued(commands', Shutdown)
    BY <1>t, <2>2, <2>4, AppendLast, AppendQueued, Typed, Distinct
  <2> QED
    BY <1>0, <2>1, <2>3, <2>4, <2>5 DEF StopIsLast, Active
<1>6. ASSUME NEW t \in Tasks, BridgeCancel(t) PROVE StopIsLast'
  <2>1. /\ bridgeQ # <<>> /\ bridgeQ' = Tail(bridgeQ) /\ ~isShutdown
        /\ UNCHANGED <<rust, commands, loop, isShutdown, handler, parent>>
    BY <1>0, <1>6 DEF BridgeCancel, StopIsLast
  <2>3. LastOnly(bridgeQ', Stop) /\ (Queued(bridgeQ', Stop) => Queued(bridgeQ, Stop))
    BY <1>0, <1>t, <2>1, TailLast, TailQueued DEF StopIsLast
  <2> QED
    BY <1>0, <2>1, <2>3 DEF StopIsLast, Active
<1>7. ASSUME NEW t \in Tasks, PopExecute(t) PROVE StopIsLast'
  <2>1. /\ commands # <<>> /\ commands' = Tail(commands) /\ loop = "popping"
        /\ UNCHANGED <<rust, bridgeQ, loop, isShutdown, handler>>
    BY <1>7 DEF PopExecute
  <2>2. LastOnly(commands', Shutdown) /\ (Queued(commands', Shutdown) => Queued(commands, Shutdown))
    BY <1>0, <1>t, <2>1, TailLast, TailQueued DEF StopIsLast
  <2> QED
    BY <1>0, <2>1, <2>2 DEF StopIsLast, Active
<1>8. ASSUME NEW t \in Tasks, HandlerFatal(t) PROVE StopIsLast'
  BY <1>0, <1>8 DEF HandlerFatal, StopIsLast, LastOnly, Queued, Active
<1>9. ASSUME NEW t \in Tasks,
             HandlerReturns(t) \/ HandlerRaises(t) \/ HandlerStops(t) \/ WorkerMoves(t)
      PROVE  StopIsLast'
  <2>1. UNCHANGED <<rust, bridgeQ, commands, loop, isShutdown, handler, parent>>
    BY <1>9 DEF HandlerReturns, HandlerRaises, HandlerStops, WorkerMoves,
                CaptureReturns, WorkerExits, CaptureRaises, ReactorStops
  <2> QED
    BY <1>0, <2>1, StopKept DEF Active
<1>10. ASSUME NEW t \in Tasks, WatcherMoves(t) \/ FinishTask(t) \/ CollectCallback(t)
       PROVE  StopIsLast'
  <2>1. CASE FinishTask(t)
    <3>1. UNCHANGED <<rust, bridgeQ, commands, loop, isShutdown, handler>>
      BY <2>1 DEF FinishTask
    <3>2. \A v \in Tasks : parent'[v] = "running" => parent[v] = "running"
      BY <1>0, <2>1 DEF TypeOK, FinishTask
    <3> QED
      BY <1>0, <3>1, <3>2, StopKept DEF Active
  <2>2. CASE WatcherMoves(t) \/ CollectCallback(t)
    <3>1. UNCHANGED <<rust, bridgeQ, commands, loop, isShutdown, handler, parent>>
      BY <2>2 DEF WatcherMoves, StopRunning, StopCapturing, StopReported, StopEnded, CollectCallback
    <3> QED
      BY <1>0, <3>1, StopKept DEF Active
  <2> QED
    BY <1>10, <2>1, <2>2
<1>11. CASE ReleaseHandler
  <2>1. /\ ~Queued(bridgeQ, Stop) /\ ~isShutdown /\ loop \notin {"draining", "exited"}
        /\ ~Queued(commands, Shutdown)
    BY <1>0, <1>11 DEF StopIsLast, ReleaseHandler
  <2>2. LastOnly(bridgeQ', Stop)
    <3>1. bridgeQ' = bridgeQ \/ bridgeQ' = Append(bridgeQ, Stop)
      BY <1>11, Zenon DEF ReleaseHandler
    <3>2. CASE bridgeQ' = bridgeQ
      BY <2>1, <3>2 DEF LastOnly, Queued
    <3>3. CASE bridgeQ' = Append(bridgeQ, Stop)
      BY <1>t, <2>1, <3>3, AppendLast
    <3> QED
      BY <3>1, <3>2, <3>3
  <2> QED
    BY <1>0, <1>11, <2>1, <2>2 DEF ReleaseHandler, StopIsLast, Active
<1>12. CASE BridgeStop
  <2>1. Queued(bridgeQ, Stop) /\ bridgeQ' = <<>>
    BY <1>0, <1>12, <1>t, HeadQueued, TailLast DEF BridgeStop, StopIsLast
  <2>2. ~isShutdown /\ ~Queued(commands, Shutdown) /\ loop \notin {"draining", "exited"}
    <3>1. bridgeQ # <<>>
      BY <1>12 DEF BridgeStop
    <3> QED
      BY <1>0, <3>1 DEF StopIsLast
  <2>3. LastOnly(commands', Shutdown)
    <3>1. commands' = commands \/ commands' = Append(commands, Shutdown)
      BY <1>12 DEF BridgeStop
    <3> QED
      BY <1>0, <1>t, <2>2, <3>1, AppendLast DEF StopIsLast
  <2>4. LastOnly(bridgeQ', Stop)
    BY <2>1 DEF LastOnly
  <2> QED
    BY <1>0, <1>12, <2>1, <2>2, <2>3, <2>4 DEF BridgeStop, StopIsLast, Active
<1>13. CASE PopShutdown
  <2>1. Queued(commands, Shutdown) /\ commands' = <<>>
    BY <1>0, <1>13, <1>t, HeadQueued, TailLast DEF PopShutdown, StopIsLast
  <2>2. isShutdown
    BY <1>0, <2>1 DEF StopIsLast
  <2>3. LastOnly(commands', Shutdown) /\ ~Queued(commands', Shutdown)
    BY <2>1 DEF LastOnly, Queued
  <2> QED
    BY <1>0, <1>13, <2>1, <2>2, <2>3 DEF PopShutdown, StopIsLast, Active
<1>14. CASE LoopExits
  BY <1>0, <1>14 DEF LoopExits, StopIsLast, Active
<1>15. CASE Terminated \/ UNCHANGED vars
  BY <1>0, <1>15, StopKept DEF Terminated, vars, Active
<1>16. CASE BridgeDies
  BY <1>0, <1>16 DEF BridgeDies, StopIsLast, LastOnly, Queued, Active
<1> QED
  BY <1>1, <1>2, <1>3, <1>4, <1>5, <1>6, <1>7, <1>8, <1>9, <1>10, <1>11, <1>12, <1>13, <1>14, <1>15, <1>16
     DEF Next, TaskNext, Core, BridgeTask, Future, HandlerEnds

(* A loop that has left through Shutdown cut nothing off: no command, no   *)
(* fiber and no submission is left behind (Scheduler's Drop, barrier.wait).*)
THEOREM ShutdownIsGraceful == Spec => []GracefulShutdown
<1>1. Init => ShutdownInv
  <2> SUFFICES ASSUME Init PROVE ShutdownInv
    OBVIOUS
  <2>1. StopIsLast
    BY DEF Init, StopIsLast, LastOnly, Queued
  <2>2. \A t \in Tasks : Attended(t)
    BY DEF Init, Attended
  <2> QED
    BY <2>1, <2>2 DEF ShutdownInv
<1>2. IInv /\ ShutdownInv /\ [Next]_vars => ShutdownInv'
  <2> SUFFICES ASSUME IInv, ShutdownInv, [Next]_vars PROVE ShutdownInv'
    OBVIOUS
  <2>1. StopIsLast'
    BY StopStep
  <2>2. \A t \in Tasks : Attended(t)'
    BY AttendedStep
  <2> QED
    BY <2>1, <2>2 DEF ShutdownInv
<1>3. IInv /\ ShutdownInv => GracefulShutdown
  <2> SUFFICES ASSUME IInv, ShutdownInv, loop = "exited", NEW t \in Tasks
               PROVE  /\ commands = <<>> /\ worker[t] \in {"none", "ended"}
                      /\ watcher[t] # "waiting" /\ reply[t] # "rejected"
                      /\ ~Queued(bridgeQ, Submit(t))
    BY DEF ShutdownInv, StopIsLast, GracefulShutdown
  <2>1. commands = <<>> /\ bridgeQ = <<>> /\ parent[t] # "running" /\ Attended(t)
    BY DEF ShutdownInv, StopIsLast
  <2>2. ~Queued(bridgeQ, Submit(t))
    BY <2>1 DEF Queued
  <2> QED
    BY <2>1, <2>2 DEF Attended
<1> QED
  BY <1>1, <1>2, <1>3, Invariant, PTL DEF Spec

--------------------------------------------------------------------------------
(* The callback.                                                           *)

(* Without faults a worker goes through its callback to its end.           *)
LEMMA ReportedStep ==
    ASSUME Faults \cap {"capture", "fatal"} = {}, TypeOK, NEW u \in Tasks, Reported(u), [Next]_vars
    PROVE  Reported(u)'
<1> USE DEF futureVars, resultVars, fiberVars, threadVars, bridgeVars
<1>s. ASSUME UNCHANGED <<worker, taken>> PROVE Reported(u)'
  BY <1>s DEF Reported
<1>c. ASSUME NEW t \in Tasks, taken' = [taken EXCEPT ![t] = TRUE], \A v \in Tasks \ {t} : worker'[v] = worker[v]
      PROVE  Reported(u)'
  BY <1>c DEF Reported, TypeOK
<1>1. ASSUME NEW t \in Tasks, Core(t) \/ BridgeTask(t) \/ Future(t) PROVE Reported(u)'
  BY <1>1, <1>s DEF Core, BridgeTask, Future, Dispatch, DispatchInternal, Cancel, DropFuture, BridgeSubmit,
              BridgeCancel, BridgeCallFails, Scheduled, ReceiveResult, ObserveCancel, CancelAcked, Drain
<1>2. ASSUME NEW t \in Tasks, HandlerReturns(t) \/ HandlerStops(t) \/ CaptureReturns(t) PROVE Reported(u)'
  <2>1. taken' = [taken EXCEPT ![t] = TRUE] /\ \A v \in Tasks \ {t} : worker'[v] = worker[v]
    BY <1>2 DEF HandlerReturns, HandlerStops, CaptureReturns, CallCallback, TypeOK
  <2> QED
    BY <1>c, <2>1
<1>3. ASSUME NEW t \in Tasks, StopReported(t) \/ CollectCallback(t) PROVE Reported(u)'
  <2>1. taken' = [taken EXCEPT ![t] = TRUE] /\ worker' = worker
    BY <1>3 DEF StopReported, CollectCallback, CallCallback
  <2> QED
    BY <1>c, <2>1
<1>4. ASSUME NEW t \in Tasks, HandlerRaises(t) \/ PopExecute(t) \/ ReactorStops(t) \/ StopRunning(t)
      PROVE  Reported(u)'
  <2>1. /\ taken' = taken /\ worker'[t] \notin {"reported", "ended"}
        /\ \A v \in Tasks \ {t} : worker'[v] = worker[v]
    BY <1>4 DEF HandlerRaises, PopExecute, ReactorStops, StopRunning, TypeOK
  <2> QED
    BY <2>1 DEF Reported
<1>5. ASSUME NEW t \in Tasks, WorkerExits(t) PROVE Reported(u)'
  <2>1. taken' = taken /\ worker[t] = "reported" /\ \A v \in Tasks \ {t} : worker'[v] = worker[v]
    BY <1>5 DEF WorkerExits, Leave, TypeOK
  <2> QED
    BY <2>1 DEF Reported
<1>6. ASSUME NEW t \in Tasks, HandlerFatal(t) \/ CaptureRaises(t) \/ StopCapturing(t) PROVE FALSE
  BY <1>6 DEF HandlerFatal, CaptureRaises, StopCapturing
<1>7. ASSUME NEW t \in Tasks, StopEnded(t) \/ FinishTask(t) PROVE Reported(u)'
  BY <1>7, <1>s DEF StopEnded, FinishTask
<1>8. CASE ReleaseHandler \/ BridgeStop \/ BridgeDies \/ PopShutdown \/ LoopExits \/ Terminated \/ UNCHANGED vars
  BY <1>8, <1>s DEF ReleaseHandler, BridgeStop, BridgeDies, PopShutdown, LoopExits, Terminated, vars
<1> QED
  BY <1>1, <1>2, <1>3, <1>4, <1>5, <1>6, <1>7, <1>8
     DEF Next, TaskNext, HandlerEnds, WorkerMoves, WatcherMoves

(* A task that is over has called its callback, as long as nothing raises  *)
(* out of the capture and no handler takes the reactor down: callback_lost *)
(* shows that the hypothesis is needed (processor.rb, handle_execute).     *)
THEOREM TasksReport ==
    ASSUME Faults \cap {"capture", "fatal"} = {}
    PROVE  Spec => []CompletedTaskReported
<1>1. Init => \A t \in Tasks : Reported(t)
  BY DEF Init, Reported
<1>2. IInv /\ (\A t \in Tasks : Reported(t)) /\ [Next]_vars => \A t \in Tasks : Reported(t)'
  BY ReportedStep DEF IInv
<1>3. IInv /\ (\A t \in Tasks : Reported(t)) => CompletedTaskReported
  BY DEF IInv, OnePlace, Reported, CompletedTaskReported
<1> DEFINE AllReported == \A t \in Tasks : Reported(t)
<1>4. (Init => AllReported) /\ (IInv /\ AllReported /\ [Next]_vars => AllReported')
      /\ (IInv /\ AllReported => CompletedTaskReported)
  BY <1>1, <1>2, <1>3
<1> HIDE DEF AllReported
<1> QED
  BY <1>4, Invariant, PTL DEF Spec

--------------------------------------------------------------------------------
(* The refinement.                                                         *)

(* The contract sees of a task's code whether it is queued, whether it     *)
(* runs and how it ended.                                                  *)
LEMMA CodeKept ==
    ASSUME TypeOK, ended' = ended,
           \A t \in Tasks : /\ worker'[t] \in {"running", "stopping"}
                               <=> worker[t] \in {"running", "stopping"}
                            /\ Queued(commands', Execute(t)) <=> Queued(commands, Execute(t))
    PROVE  Code' = Code
<1>1. ASSUME NEW t \in Tasks PROVE Code'[t] = Code[t]
  BY <1>1 DEF Code
<1> QED
  BY <1>1 DEF Code

(* A step that changes none of that, no future and no cancellation, and    *)
(* leaves the bridge alone, is a stutter of the contract.                  *)
LEMMA Stutter ==
    ASSUME TypeOK, UNCHANGED <<rust, outcome, ended, cancelled, bridge>>,
           \A t \in Tasks : /\ worker'[t] \in {"running", "stopping"}
                               <=> worker[t] \in {"running", "stopping"}
                            /\ Queued(commands', Execute(t)) <=> Queued(commands, Execute(t))
    PROVE  UNCHANGED Contract!vars
<1>1. Phase' = Phase
  BY DEF Phase, Active
<1>2. Code' = Code
  BY CodeKept
<1> QED
  BY <1>1, <1>2 DEF Contract!vars

(* The code of t, and of no other task, moves from one point to another.   *)
LEMMA CodeMoves ==
    ASSUME TypeOK, NEW t \in Tasks, rust' = rust,
           \A u \in Tasks \ {t} :
               /\ worker'[u] = worker[u] /\ ended'[u] = ended[u]
               /\ Queued(commands', Execute(u)) <=> Queued(commands, Execute(u)),
           NEW c, Code'[t] = c
    PROVE  Code' = [Code EXCEPT ![t] = c] /\ Phase' = Phase
<1>1. ASSUME NEW u \in Tasks \ {t} PROVE Code'[u] = Code[u]
  BY <1>1 DEF Code
<1>2. Phase' = Phase
  BY DEF Phase, Active
<1> QED
  BY <1>1, <1>2 DEF Code

(* The future of t, and of no other task, moves.                           *)
LEMMA PhaseMoves ==
    ASSUME TypeOK, NEW t \in Tasks, worker' = worker, ended' = ended, commands' = commands,
           NEW r, rust' = [rust EXCEPT ![t] = r],
           NEW p, p = IF r \in ActiveStates THEN "pending"
                      ELSE IF r = "done" THEN "settled" ELSE r
    PROVE  Phase' = [Phase EXCEPT ![t] = p] /\ Code' = Code
<1>1. Phase' = [Phase EXCEPT ![t] = p]
  BY DEF TypeOK, Phase, Active
<1>2. Code' = Code
  BY CodeKept
<1> QED
  BY <1>1, <1>2

(* Nothing of a task whose code has ended waits in the command queue.      *)
LEMMA EndedCode ==
    ASSUME IInv, NEW t \in Tasks, worker[t] \notin {"none", "running", "stopping"}
    PROVE  Code[t] = ended[t] /\ ended[t] \in Endings
<1>1. TypeOK /\ OnePlace(t) /\ EndedOnce(t)
  BY DEF IInv
<1>2. ~Queued(commands, Execute(t)) /\ ended[t] # "none"
  BY <1>1 DEF OnePlace, EndedOnce
<1> QED
  BY <1>1, <1>2 DEF Code, TypeOK

(* A future that hands on what the channel holds settles honestly.         *)
LEMMA SettlesHonestly ==
    ASSUME IInv, NEW t \in Tasks, ReceiveResult(t) \/ Drain(t)
    PROVE  Contract!Settle(t)
<1>1. /\ TypeOK /\ OnePlace(t) /\ EndedOnce(t) /\ Truthful(t)
  BY DEF IInv
<1>2. Active(t) /\ chan[t] # "empty"
  BY DEF ReceiveResult, Drain, Active, ActiveStates
<1>3. ended[t] # "none" /\ worker[t] \notin {"none", "running", "stopping"}
  BY <1>1, <1>2 DEF EndedOnce, TypeOK
<1>4. Code[t] = ended[t] /\ ended[t] \in Endings /\ Phase[t] = "pending"
  BY <1>2, <1>3, EndedCode DEF Phase
<1>5. t \notin Internal
  BY <1>1, <1>2 DEF OnePlace, Active, ActiveStates
<1>6. Received(chan[t]) \in Verdicts
  BY <1>1, <1>2 DEF TypeOK, Received, Verdicts
<1>7. Received(chan[t]) \in Contract!Honest(t, ended[t])
  BY <1>1, <1>4, <1>5, <1>6 DEF Truthful, TrueTo, Contract!Honest, Verdicts, Endings
<1>8. /\ rust' = [rust EXCEPT ![t] = "done"]
      /\ outcome' = [outcome EXCEPT ![t] = Received(chan[t])]
      /\ UNCHANGED <<worker, ended, commands, cancelled, bridge>>
  BY DEF ReceiveResult, Drain, Settle, fiberVars, threadVars, bridgeVars
<1>9. Phase' = [Phase EXCEPT ![t] = "settled"] /\ Code' = Code
  BY <1>1, <1>8, PhaseMoves DEF ActiveStates
<1>10. Code[t] \notin {"queued", "running"}
  BY <1>4 DEF Endings
<1> QED
  BY <1>4, <1>7, <1>8, <1>9, <1>10 DEF Contract!Settle

(* A submission that failed settles as an event whose code never starts.   *)
LEMMA RefusedRefines ==
    ASSUME IInv, NEW t \in Tasks, Refused(t), Active(t),
           Settle(t, "transient"), UNCHANGED <<worker, ended, commands, cancelled, bridge>>
    PROVE  Contract!Settle(t)
<1>1. TypeOK /\ OnePlace(t) /\ EndedOnce(t)
  BY DEF IInv
<1>2. worker[t] = "none" /\ ended[t] = "none" /\ ~Queued(commands, Execute(t))
  BY <1>1 DEF OnePlace, EndedOnce
<1>3. Phase[t] = "pending" /\ Code[t] = "none"
  BY <1>2 DEF Phase, Code
<1>4. rust' = [rust EXCEPT ![t] = "done"] /\ outcome' = [outcome EXCEPT ![t] = "transient"]
  BY DEF Settle
<1>5. Phase' = [Phase EXCEPT ![t] = "settled"] /\ Code' = Code
  BY <1>1, <1>4, PhaseMoves DEF ActiveStates
<1>6. "transient" \in Contract!Honest(t, "none")
  BY DEF Contract!Honest
<1> QED
  BY <1>3, <1>4, <1>5, <1>6 DEF Contract!Settle

LEMMA ScheduledRefines ==
    ASSUME IInv, NEW t \in Tasks, Scheduled(t)
    PROVE  Contract!Settle(t) \/ UNCHANGED Contract!vars
<1> USE DEF ActiveStates, fiberVars, threadVars, bridgeVars
<1>1. TypeOK
  BY DEF IInv
<1>2. Active(t) /\ UNCHANGED <<worker, ended, commands, cancelled, bridge>>
  BY DEF Scheduled, Active
<1>3. CASE reply[t] = "rejected"
  <2>1. Refused(t) /\ Settle(t, "transient")
    BY <1>3, Zenon DEF Scheduled, Refused
  <2> QED
    BY <1>2, <2>1, RefusedRefines
<1>4. CASE reply[t] # "rejected"
  <2>1. rust' = [rust EXCEPT ![t] = "waiting"] /\ outcome' = outcome
    BY <1>4 DEF Scheduled
  <2>2. Phase' = [Phase EXCEPT ![t] = "pending"] /\ Code' = Code
    BY <1>1, <1>2, <2>1, PhaseMoves
  <2>3. Phase' = Phase
    BY <1>2, <2>2 DEF Phase
  <2> QED
    BY <1>2, <2>1, <2>2, <2>3 DEF Contract!vars
<1> QED
  BY <1>3, <1>4

(* A call that fails because the bridge is gone: a submission was never    *)
(* taken, a cancellation leaves the code to itself.                        *)
LEMMA FailureRefines ==
    ASSUME IInv, NEW t \in Tasks, BridgeCallFails(t)
    PROVE  Contract!Settle(t) \/ Contract!GiveUp(t)
<1> USE DEF ActiveStates, fiberVars, threadVars, bridgeVars
<1>1. TypeOK /\ bridge = "closed" /\ (rust[t] = "cancelling" => cancelled[t])
  BY DEF IInv, CallsOwed, BridgeCallFails
<1>2. Active(t) /\ Settle(t, "transient") /\ UNCHANGED <<worker, ended, commands, cancelled, bridge>>
  BY DEF BridgeCallFails, Active
<1>3. CASE rust[t] = "submitting"
  <2>1. Refused(t)
    BY <1>3 DEF BridgeCallFails, Refused
  <2> QED
    BY <1>2, <2>1, RefusedRefines
<1>4. CASE rust[t] = "cancelling"
  <2>1. rust' = [rust EXCEPT ![t] = "done"] /\ outcome' = [outcome EXCEPT ![t] = "transient"]
    BY <1>2 DEF Settle
  <2>2. Phase' = [Phase EXCEPT ![t] = "settled"] /\ Code' = Code
    BY <1>1, <1>2, <2>1, PhaseMoves
  <2>3. Phase[t] = "pending" /\ cancelled[t] /\ ~(bridge = "open")
    BY <1>1, <1>2, <1>4 DEF Phase
  <2> QED
    BY <1>2, <2>1, <2>2, <2>3 DEF Contract!GiveUp
<1> QED
  BY <1>3, <1>4 DEF BridgeCallFails

(* The bridge hands the code over, or refuses it.                          *)
LEMMA SubmitRefines ==
    ASSUME IInv, NEW t \in Tasks, BridgeSubmit(t)
    PROVE  Contract!Hand(t) \/ UNCHANGED Contract!vars
<1> USE DEF fiberVars, bridgeVars
<1>1. TypeOK /\ OnePlace(t) /\ EndedOnce(t) /\ SettledIsFinal(t) /\ CallsOwed
  BY DEF IInv
<1>2. UNCHANGED <<rust, outcome, ended, worker, cancelled, bridge>>
  BY DEF BridgeSubmit
<1>3. CASE isShutdown
  <2>1. commands' = commands
    BY <1>3, Zenon DEF BridgeSubmit
  <2> QED
    BY <1>1, <1>2, <2>1, Stutter
<1>4. CASE ~isShutdown
  <2>1. commands' = Append(commands, Execute(t))
    BY <1>4, Zenon DEF BridgeSubmit
  <2>2. commands \in Seq(Cmds) /\ Execute(t) \in Cmds
    BY <1>1, Typed DEF TypeOK
  <2>3. \A u \in Tasks : Queued(commands', Execute(u)) <=> Queued(commands, Execute(u)) \/ u = t
    BY <2>1, <2>2, AppendQueued, Distinct
  <2>4. Queued(bridgeQ, Submit(t)) /\ bridge = "open"
    BY <1>1, HeadQueued DEF BridgeSubmit, TypeOK, CallsOwed
  <2>5. worker[t] = "none" /\ ended[t] = "none" /\ ~Queued(commands, Execute(t)) /\ rust[t] # "idle"
    BY <1>1, <2>4 DEF OnePlace, EndedOnce
  <2>6. rust[t] # "done"
    BY <1>1, <2>4 DEF SettledIsFinal, InRuby
  <2>7. Phase[t] \in {"pending", "dropped"}
    BY <1>1, <2>5, <2>6 DEF Phase, Active, TypeOK
  <2>8. Code[t] = "none" /\ Code'[t] = "queued"
    BY <1>2, <2>3, <2>5 DEF Code
  <2>9. Code' = [Code EXCEPT ![t] = "queued"] /\ Phase' = Phase
    BY <1>1, <1>2, <2>3, <2>8, CodeMoves
  <2> QED
    BY <1>2, <2>4, <2>7, <2>8, <2>9 DEF Contract!Hand
<1> QED
  BY <1>3, <1>4

(* Every step of the dispatch is a step of the contract or a stutter.      *)
LEMMA StepRefines == IInv /\ [Next]_vars => [Contract!Next]_(Contract!vars)
<1> SUFFICES ASSUME IInv, [Next]_vars PROVE [Contract!Next]_(Contract!vars)
  OBVIOUS
<1> USE DEF futureVars, resultVars, fiberVars, threadVars, bridgeVars
<1>1. TypeOK /\ \A t \in Tasks : OnePlace(t) /\ EndedOnce(t) /\ SettledIsFinal(t)
  BY DEF IInv
<1>2. ASSUME NEW t \in Tasks, TaskNext(t) PROVE [Contract!Next]_(Contract!vars)
  <2>0. Contract!EventNext(t) => Contract!Next
    BY DEF Contract!Next
  <2>1. CASE Dispatch(t)
    <3>1. Phase' = [Phase EXCEPT ![t] = "pending"] /\ Code' = Code
      BY <1>1, <2>1, PhaseMoves DEF Dispatch, ActiveStates
    <3>2. Phase[t] = "idle" /\ \A u \in Tasks : Key[u] = Key[t] => Phase[u] # "pending"
      BY <1>1, <2>1 DEF Dispatch, KeyFree, Phase, Active, ActiveStates, TypeOK
    <3>3. t \notin Internal /\ UNCHANGED <<outcome, cancelled, bridge>>
      BY <2>1 DEF Dispatch
    <3> QED
      BY <2>0, <3>1, <3>2, <3>3 DEF Contract!EventNext, Contract!Accept
  <2>2. CASE DispatchInternal(t)
    <3>1. Phase' = [Phase EXCEPT ![t] = "settled"] /\ Code' = Code
      BY <1>1, <2>2, PhaseMoves DEF DispatchInternal, ActiveStates
    <3>2. Phase[t] = "idle"
      BY <2>2 DEF DispatchInternal, Phase, Active, ActiveStates
    <3> QED
      BY <2>0, <2>2, <3>1, <3>2 DEF DispatchInternal, Contract!EventNext, Contract!Skip
  <2>3. CASE DropFuture(t)
    <3>1. Phase' = [Phase EXCEPT ![t] = "dropped"] /\ Code' = Code
      BY <1>1, <2>3, PhaseMoves DEF DropFuture, ActiveStates
    <3>2. Phase[t] = "pending"
      BY <2>3 DEF DropFuture, Phase
    <3> QED
      BY <2>0, <2>3, <3>1, <3>2 DEF DropFuture, Contract!EventNext, Contract!Abandon
  <2>4. CASE Cancel(t)
    <3>1. Code' = Code /\ Phase' = Phase
      BY <2>4 DEF Cancel, Code, Phase, Active
    <3>2. Phase[t] = "pending"
      BY <2>4 DEF Cancel, Phase
    <3> QED
      BY <2>0, <2>4, <3>1, <3>2 DEF Cancel, Contract!EventNext, Contract!Cancel
  <2>5. CASE ReceiveResult(t) \/ Drain(t)
    BY <2>0, <2>5, SettlesHonestly DEF Contract!EventNext
  <2>6. CASE Scheduled(t)
    BY <2>0, <2>6, ScheduledRefines DEF Contract!EventNext
  <2>7. CASE BridgeCallFails(t)
    BY <2>0, <2>7, FailureRefines DEF Contract!EventNext
  <2>8. CASE BridgeSubmit(t)
    BY <2>0, <2>8, SubmitRefines DEF Contract!EventNext
  <2>9. CASE PopExecute(t)
    <3>1. Queued(commands, Execute(t))
      BY <1>1, <2>9, HeadQueued DEF PopExecute, TypeOK
    <3>2. worker[t] = "none"
      BY <1>1, <3>1 DEF OnePlace
    <3>3. Code[t] = "queued"
      BY <3>1, <3>2 DEF Code
    <3>4. /\ worker' = [worker EXCEPT ![t] = "running"]
          /\ UNCHANGED <<rust, outcome, ended, cancelled, bridge>>
      BY <2>9 DEF PopExecute
    <3>5. \A u \in Tasks \ {t} : Queued(commands', Execute(u)) <=> Queued(commands, Execute(u))
      BY <1>1, <2>9, TailQueued, Distinct DEF PopExecute, TypeOK
    <3>6. Code'[t] = "running" /\ \A u \in Tasks \ {t} : worker'[u] = worker[u]
      BY <1>1, <3>4 DEF Code, TypeOK
    <3>7. Code' = [Code EXCEPT ![t] = "running"] /\ Phase' = Phase
      BY <1>1, <3>4, <3>5, <3>6, CodeMoves
    <3> QED
      BY <2>0, <3>3, <3>4, <3>7 DEF Contract!EventNext, Contract!Start
  <2>10. CASE HandlerEnds(t)
    <3>1. worker[t] \in {"running", "stopping"} /\ UNCHANGED <<rust, outcome, cancelled, commands, bridge>>
      BY <2>10 DEF HandlerEnds, HandlerReturns, HandlerRaises, HandlerStops, HandlerFatal
    <3>2. PICK w \in {"reported", "capturing", "ended"} : worker' = [worker EXCEPT ![t] = w]
      BY <2>10 DEF HandlerEnds, HandlerReturns, HandlerRaises, HandlerStops, HandlerFatal, Leave
    <3>3. PICK e \in Endings : ended' = [ended EXCEPT ![t] = e]
      BY <2>10 DEF HandlerEnds, HandlerReturns, HandlerRaises, HandlerStops, HandlerFatal, Endings
    <3>4. ~Queued(commands, Execute(t))
      BY <1>1, <3>1 DEF OnePlace
    <3>5. Code[t] = "running" /\ Code'[t] = e
      BY <1>1, <3>1, <3>2, <3>3, <3>4 DEF Code, TypeOK
    <3>6. \A u \in Tasks \ {t} : worker'[u] = worker[u] /\ ended'[u] = ended[u]
      BY <1>1, <3>2, <3>3 DEF TypeOK
    <3>7. Code' = [Code EXCEPT ![t] = e] /\ Phase' = Phase
      BY <1>1, <3>1, <3>5, <3>6, CodeMoves
    <3>8. e \in Contract!Endings
      BY <3>3 DEF Endings, Contract!Endings
    <3> QED
      BY <2>0, <3>1, <3>5, <3>7, <3>8 DEF Contract!EventNext, Contract!End
  <2>11. CASE \/ BridgeCancel(t) \/ FinishTask(t) \/ CollectCallback(t)
              \/ StopEnded(t) \/ StopReported(t)
    <3>1. UNCHANGED <<rust, outcome, ended, worker, commands, cancelled, bridge>>
      BY <2>11 DEF BridgeCancel, FinishTask, CollectCallback, StopEnded, StopReported
    <3> QED
      BY <1>1, <3>1, Stutter
  <2>12. CASE ObserveCancel(t) \/ CancelAcked(t)
    <3>1. PICK r \in {"cancelling", "draining"} : rust' = [rust EXCEPT ![t] = r]
      BY <2>12 DEF ObserveCancel, CancelAcked
    <3>2. Active(t) /\ UNCHANGED <<worker, ended, commands, outcome, cancelled, bridge>>
      BY <2>12 DEF ObserveCancel, CancelAcked, Active, ActiveStates
    <3>3. Phase' = [Phase EXCEPT ![t] = "pending"] /\ Code' = Code
      BY <1>1, <3>1, <3>2, PhaseMoves DEF ActiveStates
    <3>4. Phase' = Phase
      BY <3>2, <3>3 DEF Phase
    <3> QED
      BY <3>2, <3>3, <3>4 DEF Contract!vars
  <2>13. CASE WorkerMoves(t) \/ StopRunning(t) \/ StopCapturing(t)
    <3>1. /\ UNCHANGED <<rust, outcome, ended, commands, cancelled, bridge>>
          /\ \/ worker[t] \in {"capturing", "reported"}
                /\ \E w \in {"reported", "ended"} : worker' = [worker EXCEPT ![t] = w]
             \/ worker[t] = "running" /\ worker' = [worker EXCEPT ![t] = "stopping"]
      BY <2>13 DEF WorkerMoves, CaptureReturns, WorkerExits, CaptureRaises, ReactorStops,
                   StopRunning, StopCapturing, Leave
    <3>2. \A u \in Tasks : worker'[u] \in {"running", "stopping"}
                             <=> worker[u] \in {"running", "stopping"}
      BY <1>1, <3>1 DEF TypeOK
    <3> QED
      BY <1>1, <3>1, <3>2, Stutter
  <2> QED
    BY <1>2, <2>1, <2>2, <2>3, <2>4, <2>5, <2>6, <2>7, <2>8, <2>9, <2>10, <2>11, <2>12, <2>13
    DEF TaskNext, Core, BridgeTask, Future, WatcherMoves
<1>3. CASE BridgeDies
  <2>1. UNCHANGED <<rust, outcome, ended, worker, commands, cancelled>>
    BY <1>3 DEF BridgeDies
  <2>2. Phase' = Phase /\ Code' = Code
    BY <2>1 DEF Phase, Code, Active
  <2>3. (bridge = "open") = TRUE /\ (bridge = "open")' = FALSE
    BY <1>3 DEF BridgeDies
  <2> QED
    BY <2>1, <2>2, <2>3 DEF Contract!Next, Contract!Lose
<1>4. CASE BridgeStop
  <2>1. /\ UNCHANGED <<rust, outcome, ended, worker, cancelled, bridge>>
        /\ commands' = commands \/ commands' = Append(commands, Shutdown)
    BY <1>4 DEF BridgeStop
  <2>2. commands \in Seq(Cmds) /\ Shutdown \in Cmds
    BY <1>1, Typed DEF TypeOK
  <2>3. \A u \in Tasks : Queued(commands', Execute(u)) <=> Queued(commands, Execute(u))
    BY <2>1, <2>2, AppendOther, Distinct
  <2> QED
    BY <1>1, <2>1, <2>3, Stutter
<1>5. CASE PopShutdown
  <2>1. /\ UNCHANGED <<rust, outcome, ended, worker, cancelled, bridge>>
        /\ commands # <<>> /\ commands' = Tail(commands) /\ Head(commands) = Shutdown
    BY <1>5 DEF PopShutdown
  <2>2. \A u \in Tasks : Queued(commands', Execute(u)) <=> Queued(commands, Execute(u))
    BY <1>1, <2>1, TailQueued, Distinct DEF TypeOK
  <2> QED
    BY <1>1, <2>1, <2>2, Stutter
<1>6. CASE ReleaseHandler \/ LoopExits \/ Terminated \/ UNCHANGED vars
  <2>1. UNCHANGED <<rust, outcome, ended, worker, commands, cancelled, bridge>>
    BY <1>6 DEF ReleaseHandler, LoopExits, Terminated, vars
  <2> QED
    BY <1>1, <2>1, Stutter
<1> QED
  BY <1>2, <1>3, <1>4, <1>5, <1>6 DEF Next

(* The bridge, the queues, the fibers and the channel together implement   *)
(* what HandlerContract promises the core, for every set of events and     *)
(* under every fault of the model, the bridge's death included.            *)
THEOREM Refinement == Spec => ImplementsContract
<1>1. Init => Contract!Init
  <2> SUFFICES ASSUME Init PROVE Contract!Init
    OBVIOUS
  <2>1. Phase = [t \in Tasks |-> "idle"]
    BY DEF Init, Phase, Active, ActiveStates
  <2>2. Code = [t \in Tasks |-> "none"]
    <3>1. \A t \in Tasks : ~Queued(commands, Execute(t))
      BY DEF Init, Queued
    <3> QED
      BY <3>1 DEF Init, Code
  <2> QED
    BY <2>1, <2>2 DEF Init, Contract!Init
<1>2. IInv /\ [Next]_vars => [Contract!Next]_(Contract!vars)
  BY StepRefines
<1> QED
  BY <1>1, <1>2, Invariant, PTL DEF Spec, ImplementsContract, Contract!Spec

================================================================================
