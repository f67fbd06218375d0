----------------------- MODULE ClientLifecycle_proofs -----------------------
(***************************************************************************)
(* Theorems of ClientLifecycle, for any number of calls.                   *)
(*                                                                         *)
(* Both safety properties need to know who is inside the core's lock, what *)
(* that future holds, and that whoever drives the Shared shutdown is the   *)
(* call the slot names: a slot with an output has no driver left.          *)
(***************************************************************************)
EXTENDS ClientLifecycle, TLAPS

\* The lock names the one future inside, and a future inside has no answer.
LockHeld ==
    \A c \in Call : /\ future[c] = "inside" <=> lock = c
                    /\ answer[c] # "none" <=> future[c] = "done"

\* Where the handler of a subscribe is, seen from the state of its call.
HandlerPlace ==
    \A c \in Call :
        /\ caller[c] = "idle" => owner[c] = "none" /\ processor[c] = "none"
        /\ caller[c] \in {"idle", "calling"} => future[c] = "none"
        /\ owner[c] = "future" => processor[c] = "running"
        /\ owner[c] = "future" /\ future[c] = "none" => caller[c] = "calling"
        /\ op[c] = "subscribe" /\ future[c] \in {"spawned", "inside"} => owner[c] = "future"
        /\ op[c] = "subscribe" /\ caller[c] = "calling" => owner[c] = "future"
        /\ op[c] # "subscribe" => owner[c] = "none"

\* The Shared future: a driver has the slot, an output means the client is
\* down, and an answered shutdown has that output.
SlotHeld ==
    /\ \A c \in Call : op[c] = "shutdown" /\ future[c] = "inside" => shared = c
    /\ shared \in Output => core.state = "shut_down"
    /\ \A c \in Call : op[c] = "shutdown" /\ answer[c] # "none" =>
          shared \in Output /\ answer[c] = shared
    /\ \A c \in Call : caller[c] = "idle" <=> op[c] = "none"

IInv == TypeOK /\ SubscriptionServed /\ LockHeld /\ HandlerPlace /\ SlotHeld

LEMMA InitIInv == Init => IInv
<1> SUFFICES ASSUME Init PROVE IInv
  OBVIOUS
<1>1. TypeOK
  BY LifecycleAssumption DEF Init, TypeOK
<1>2. SubscriptionServed
  BY LifecycleAssumption DEF Init, SubscriptionServed
<1>3. LockHeld /\ HandlerPlace /\ SlotHeld
  BY LifecycleAssumption DEF Init, LockHeld, HandlerPlace, SlotHeld, Output
<1> QED
  BY <1>1, <1>2, <1>3 DEF IInv

(* Every step of the specification keeps the invariant.                    *)
LEMMA Step == IInv /\ [Next]_vars => IInv'
<1> SUFFICES ASSUME IInv, [Next]_vars PROVE IInv'
  OBVIOUS
<1> USE LifecycleAssumption DEF IInv
<1>1. ASSUME NEW c \in Call, SubscribeRefused(c) PROVE IInv'
  <2>1. TypeOK'
    BY <1>1 DEF SubscribeRefused, TypeOK, Op, Output
  <2>2. SubscriptionServed'
    BY <1>1 DEF SubscribeRefused, TypeOK, SubscriptionServed, LockHeld, HandlerPlace
  <2>3. LockHeld'
    BY <1>1 DEF SubscribeRefused, TypeOK, LockHeld, HandlerPlace, Output
  <2>4. HandlerPlace'
    BY <1>1 DEF SubscribeRefused, TypeOK, LockHeld, HandlerPlace, SubscriptionServed, SlotHeld
  <2>5. SlotHeld'
    BY <1>1 DEF SubscribeRefused, TypeOK, LockHeld, SlotHeld, Output
  <2> QED
    BY <2>1, <2>2, <2>3, <2>4, <2>5
<1>2. ASSUME NEW c \in Call, Subscribe(c) PROVE IInv'
  <2>1. TypeOK'
    BY <1>2 DEF Subscribe, TypeOK, Op, Output
  <2>2. SubscriptionServed'
    BY <1>2 DEF Subscribe, TypeOK, SubscriptionServed, LockHeld, HandlerPlace
  <2>3. LockHeld'
    BY <1>2 DEF Subscribe, TypeOK, LockHeld, HandlerPlace, Output
  <2>4. HandlerPlace'
    BY <1>2 DEF Subscribe, TypeOK, LockHeld, HandlerPlace, SubscriptionServed, SlotHeld
  <2>5. SlotHeld'
    BY <1>2 DEF Subscribe, TypeOK, LockHeld, SlotHeld, Output
  <2> QED
    BY <2>1, <2>2, <2>3, <2>4, <2>5
<1>3. ASSUME NEW c \in Call, Ask(c, "unsubscribe") PROVE IInv'
  <2>1. TypeOK'
    BY <1>3 DEF Ask, TypeOK, Op, Output
  <2>2. SubscriptionServed'
    BY <1>3 DEF Ask, TypeOK, SubscriptionServed, LockHeld, HandlerPlace
  <2>3. LockHeld'
    BY <1>3 DEF Ask, TypeOK, LockHeld, HandlerPlace, Output
  <2>4. HandlerPlace'
    BY <1>3 DEF Ask, TypeOK, LockHeld, HandlerPlace, SubscriptionServed, SlotHeld
  <2>5. SlotHeld'
    BY <1>3 DEF Ask, TypeOK, LockHeld, SlotHeld, Output
  <2> QED
    BY <2>1, <2>2, <2>3, <2>4, <2>5
<1>4. ASSUME NEW c \in Call, Ask(c, "shutdown") PROVE IInv'
  <2>1. TypeOK'
    BY <1>4 DEF Ask, TypeOK, Op, Output
  <2>2. SubscriptionServed'
    BY <1>4 DEF Ask, TypeOK, SubscriptionServed, LockHeld, HandlerPlace
  <2>3. LockHeld'
    BY <1>4 DEF Ask, TypeOK, LockHeld, HandlerPlace, Output
  <2>4. HandlerPlace'
    BY <1>4 DEF Ask, TypeOK, LockHeld, HandlerPlace, SubscriptionServed, SlotHeld
  <2>5. SlotHeld'
    BY <1>4 DEF Ask, TypeOK, LockHeld, HandlerPlace, SlotHeld, Output
  <2> QED
    BY <2>1, <2>2, <2>3, <2>4, <2>5
<1>5. ASSUME NEW c \in Call, Interrupt(c) PROVE IInv'
  <2>1. TypeOK'
    BY <1>5 DEF Interrupt, TypeOK, Op, Output
  <2>2. SubscriptionServed'
    BY <1>5 DEF Interrupt, TypeOK, SubscriptionServed, LockHeld, HandlerPlace
  <2>3. LockHeld'
    BY <1>5 DEF Interrupt, TypeOK, LockHeld, HandlerPlace, Output
  <2>4. HandlerPlace'
    BY <1>5 DEF Interrupt, TypeOK, LockHeld, HandlerPlace, SubscriptionServed, SlotHeld
  <2>5. SlotHeld'
    BY <1>5 DEF Interrupt, TypeOK, LockHeld, SlotHeld, Output
  <2> QED
    BY <2>1, <2>2, <2>3, <2>4, <2>5
<1>6. ASSUME NEW c \in Call, InterruptEarly(c) PROVE IInv'
  <2>1. TypeOK'
    BY <1>6 DEF InterruptEarly, TypeOK, Op, Output
  <2>2. SubscriptionServed'
    BY <1>6 DEF InterruptEarly, TypeOK, SubscriptionServed, LockHeld, HandlerPlace
  <2>3. LockHeld'
    BY <1>6 DEF InterruptEarly, TypeOK, LockHeld, HandlerPlace, Output
  <2>4. HandlerPlace'
    BY <1>6 DEF InterruptEarly, TypeOK, LockHeld, HandlerPlace, SubscriptionServed, SlotHeld
  <2>5. SlotHeld'
    BY <1>6 DEF InterruptEarly, TypeOK, LockHeld, SlotHeld, Output
  <2> QED
    BY <2>1, <2>2, <2>3, <2>4, <2>5
<1>7. ASSUME NEW c \in Call, WaitFor(c) PROVE IInv'
  <2>1. TypeOK'
    BY <1>7 DEF WaitFor, TypeOK, Op, Output
  <2>2. SubscriptionServed'
    BY <1>7 DEF WaitFor, TypeOK, SubscriptionServed, LockHeld, HandlerPlace
  <2>3. LockHeld'
    BY <1>7 DEF WaitFor, TypeOK, LockHeld, HandlerPlace, Output
  <2>4. HandlerPlace'
    BY <1>7 DEF WaitFor, TypeOK, LockHeld, HandlerPlace, SubscriptionServed, SlotHeld
  <2>5. SlotHeld'
    BY <1>7 DEF WaitFor, TypeOK, LockHeld, SlotHeld, Output
  <2> QED
    BY <2>1, <2>2, <2>3, <2>4, <2>5
<1>8. ASSUME NEW c \in Call, Return(c) PROVE IInv'
  <2>1. TypeOK'
    BY <1>8 DEF Return, TypeOK, Op, Output
  <2>2. SubscriptionServed'
    BY <1>8 DEF Return, TypeOK, SubscriptionServed, LockHeld, HandlerPlace
  <2>3. LockHeld'
    BY <1>8 DEF Return, TypeOK, LockHeld, HandlerPlace, Output
  <2>4. HandlerPlace'
    BY <1>8 DEF Return, TypeOK, LockHeld, HandlerPlace, SubscriptionServed, SlotHeld
  <2>5. SlotHeld'
    BY <1>8 DEF Return, TypeOK, LockHeld, SlotHeld, Output
  <2> QED
    BY <2>1, <2>2, <2>3, <2>4, <2>5
<1>9. ASSUME NEW c \in Call, Enter(c) PROVE IInv'
  <2>1. TypeOK'
    BY <1>9 DEF Enter, TypeOK, Op, Output
  <2>2. SubscriptionServed'
    BY <1>9 DEF Enter, TypeOK, SubscriptionServed, LockHeld, HandlerPlace
  <2>3. LockHeld'
    BY <1>9 DEF Enter, TypeOK, LockHeld, HandlerPlace, Output
  <2>4. HandlerPlace'
    BY <1>9 DEF Enter, TypeOK, LockHeld, HandlerPlace, SubscriptionServed, SlotHeld
  <2>5. SlotHeld'
    BY <1>9 DEF Enter, TypeOK, LockHeld, SlotHeld, Output
  <2> QED
    BY <2>1, <2>2, <2>3, <2>4, <2>5
<1>10. ASSUME NEW c \in Call, PollShared(c) PROVE IInv'
  <2>1. TypeOK'
    BY <1>10 DEF PollShared, TypeOK, Op, Output
  <2>2. SubscriptionServed'
    BY <1>10 DEF PollShared, TypeOK, SubscriptionServed, LockHeld, HandlerPlace
  <2>3. LockHeld'
    BY <1>10 DEF PollShared, TypeOK, LockHeld, HandlerPlace, Output
  <2>4. HandlerPlace'
    BY <1>10 DEF PollShared, TypeOK, LockHeld, HandlerPlace, SubscriptionServed, SlotHeld
  <2>5. SlotHeld'
    BY <1>10 DEF PollShared, TypeOK, LockHeld, SlotHeld, Output
  <2> QED
    BY <2>1, <2>2, <2>3, <2>4, <2>5
<1>11. ASSUME NEW c \in Call, ShareOutput(c) PROVE IInv'
  <2>1. TypeOK'
    BY <1>11 DEF ShareOutput, Finish, TypeOK, Op, Output
  <2>2. SubscriptionServed'
    BY <1>11 DEF ShareOutput, Finish, TypeOK, SubscriptionServed, LockHeld, HandlerPlace
  <2>3. LockHeld'
    BY <1>11 DEF ShareOutput, Finish, TypeOK, LockHeld, HandlerPlace, Output
  <2>4. HandlerPlace'
    BY <1>11 DEF ShareOutput, Finish, TypeOK, LockHeld, HandlerPlace, SubscriptionServed, SlotHeld
  <2>5. SlotHeld'
    BY <1>11 DEF ShareOutput, Finish, TypeOK, LockHeld, SlotHeld, Output
  <2> QED
    BY <2>1, <2>2, <2>3, <2>4, <2>5
<1>12. ASSUME NEW c \in Call, SubscribeTaken(c) PROVE IInv'
  <2>1. TypeOK'
    BY <1>12 DEF SubscribeTaken, Finish, TypeOK, Op, Output
  <2>2. SubscriptionServed'
    BY <1>12 DEF SubscribeTaken, Finish, TypeOK, SubscriptionServed, LockHeld, HandlerPlace
  <2>3. LockHeld'
    BY <1>12 DEF SubscribeTaken, Finish, TypeOK, LockHeld, HandlerPlace, Output
  <2>4. HandlerPlace'
    BY <1>12 DEF SubscribeTaken, Finish, TypeOK, LockHeld, HandlerPlace, SubscriptionServed, SlotHeld
  <2>5. SlotHeld'
    BY <1>12 DEF SubscribeTaken, Finish, TypeOK, LockHeld, SlotHeld, Output
  <2> QED
    BY <2>1, <2>2, <2>3, <2>4, <2>5
<1>13. ASSUME NEW c \in Call, SubscribeFails(c) PROVE IInv'
  <2>1. TypeOK'
    BY <1>13 DEF SubscribeFails, Finish, TypeOK, Op, Output
  <2>2. SubscriptionServed'
    BY <1>13 DEF SubscribeFails, Finish, TypeOK, SubscriptionServed, LockHeld, HandlerPlace
  <2>3. LockHeld'
    BY <1>13 DEF SubscribeFails, Finish, TypeOK, LockHeld, HandlerPlace, Output
  <2>4. HandlerPlace'
    BY <1>13 DEF SubscribeFails, Finish, TypeOK, LockHeld, HandlerPlace, SubscriptionServed, SlotHeld
  <2>5. SlotHeld'
    BY <1>13 DEF SubscribeFails, Finish, TypeOK, LockHeld, SlotHeld, Output
  <2> QED
    BY <2>1, <2>2, <2>3, <2>4, <2>5
<1>14. ASSUME NEW c \in Call, Unsubscribed(c) PROVE IInv'
  <2>1. TypeOK'
    BY <1>14 DEF Unsubscribed, Finish, Release, TypeOK, Op, Output
  <2>2. SubscriptionServed'
    BY <1>14 DEF Unsubscribed, Finish, Release, TypeOK, SubscriptionServed, LockHeld, HandlerPlace
  <2>3. LockHeld'
    BY <1>14 DEF Unsubscribed, Finish, Release, TypeOK, LockHeld, HandlerPlace, Output
  <2>4. HandlerPlace'
    BY <1>14 DEF Unsubscribed, Finish, Release, TypeOK, LockHeld, HandlerPlace, SubscriptionServed, SlotHeld
  <2>5. SlotHeld'
    BY <1>14 DEF Unsubscribed, Finish, Release, TypeOK, LockHeld, SlotHeld, Output
  <2> QED
    BY <2>1, <2>2, <2>3, <2>4, <2>5
<1>15. ASSUME NEW c \in Call, NEW out \in Output, ShutDown(c, out) PROVE IInv'
  <2>1. TypeOK'
    BY <1>15 DEF ShutDown, Finish, Release, TypeOK, Op, Output
  <2>2. SubscriptionServed'
    BY <1>15 DEF ShutDown, Finish, Release, TypeOK, SubscriptionServed, LockHeld, HandlerPlace
  <2>3. LockHeld'
    BY <1>15 DEF ShutDown, Finish, Release, TypeOK, LockHeld, HandlerPlace, Output
  <2>4. HandlerPlace'
    BY <1>15 DEF ShutDown, Finish, Release, TypeOK, LockHeld, HandlerPlace, SubscriptionServed, SlotHeld
  <2>5. SlotHeld'
    BY <1>15 DEF ShutDown, Finish, Release, TypeOK, LockHeld, SlotHeld, Output
  <2> QED
    BY <2>1, <2>2, <2>3, <2>4, <2>5
<1>16. ASSUME NEW c \in Call, Stop(c) PROVE IInv'
  <2>1. TypeOK'
    BY <1>16 DEF Stop, TypeOK, Op, Output
  <2>2. SubscriptionServed'
    BY <1>16 DEF Stop, TypeOK, SubscriptionServed, LockHeld, HandlerPlace
  <2>3. LockHeld'
    BY <1>16 DEF Stop, TypeOK, LockHeld, HandlerPlace, Output
  <2>4. HandlerPlace'
    BY <1>16 DEF Stop, TypeOK, LockHeld, HandlerPlace, SubscriptionServed, SlotHeld
  <2>5. SlotHeld'
    BY <1>16 DEF Stop, TypeOK, LockHeld, SlotHeld, Output
  <2> QED
    BY <2>1, <2>2, <2>3, <2>4, <2>5
<1>17. ASSUME NEW c \in Call, ThreadEnds(c) PROVE IInv'
  <2>1. TypeOK'
    BY <1>17 DEF ThreadEnds, TypeOK, Op, Output
  <2>2. SubscriptionServed'
    BY <1>17 DEF ThreadEnds, TypeOK, SubscriptionServed, LockHeld, HandlerPlace
  <2>3. LockHeld'
    BY <1>17 DEF ThreadEnds, TypeOK, LockHeld, HandlerPlace, Output
  <2>4. HandlerPlace'
    BY <1>17 DEF ThreadEnds, TypeOK, LockHeld, HandlerPlace, SubscriptionServed, SlotHeld
  <2>5. SlotHeld'
    BY <1>17 DEF ThreadEnds, TypeOK, LockHeld, SlotHeld, Output
  <2> QED
    BY <2>1, <2>2, <2>3, <2>4, <2>5
<1>18. CASE UNCHANGED vars
  BY <1>18 DEF vars, TypeOK, SubscriptionServed, LockHeld, HandlerPlace, SlotHeld
<1> QED
  BY <1>1, <1>2, <1>3, <1>4, <1>5, <1>6, <1>7, <1>8, <1>9, <1>10, <1>11, <1>12, <1>13, <1>14, <1>15, <1>16, <1>17, <1>18 DEF Next, Ruby, Runtime, Finished

(* The variables keep their types.                                         *)
THEOREM LifecycleTypes == Spec => []TypeOK
<1>1. IInv => TypeOK
  BY DEF IInv
<1> QED
  BY InitIInv, Step, <1>1, PTL DEF Spec

(* However subscribes, unsubscribes, shutdowns and interrupts interleave,  *)
(* the client runs at most one handler, with its processing thread.        *)
THEOREM SubscriptionKept == Spec => []SubscriptionServed
<1>1. IInv => SubscriptionServed
  BY DEF IInv
<1> QED
  BY InitIInv, Step, <1>1, PTL DEF Spec

(* Client#shutdown: "concurrent and repeated calls wait for the same       *)
(* operation".                                                             *)
THEOREM ShutdownShared == Spec => []OneShutdown
<1>1. IInv => OneShutdown
  BY DEF IInv, OneShutdown, SlotHeld
<1> QED
  BY InitIInv, Step, <1>1, PTL DEF Spec
=============================================================================
