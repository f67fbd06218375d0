------------------------------ MODULE Bridge_proofs ------------------------------
(***************************************************************************)
(* Theorems of Bridge, for any calls and any batch size: run tells the     *)
(* truth, and batching, interrupts and panics are invisible in the queue   *)
(* that CommandQueue promises.                                             *)
(*                                                                         *)
(* The inductive invariant follows a closure through the channel and the   *)
(* batch into the history: it is in one of them at most, once, and only    *)
(* after its call was made; the oneshot of a run is filled exactly when    *)
(* the closure has run.                                                    *)
(***************************************************************************)
EXTENDS Bridge, SequenceTheorems, TLAPS

(* What is sent and has not run, and what was ever sent and not given up.  *)
Pending == batch \o chan
Trail == executed \o Pending

Once(s) == \A i, j \in DOMAIN s : s[i] = s[j] => i = j

(* A closure appears on the trail when its call is made, not before; the   *)
(* future of a wait_for begins with its call.                              *)
Fresh ==
    /\ \A r \in Runs : run[r] = "idle" => r \notin Elements(Trail)
    /\ \A w \in Waits : future[w] # "resolved" => w \notin Elements(Trail)
    /\ \A w \in Waits : caller[w] = "idle" => future[w] = "none"
    /\ \A s \in Sends \ fired : s \notin Elements(Trail)

(* The oneshot of a run is filled when its closure has run and its sender  *)
(* is dropped only with the thread; its caller is told accordingly.        *)
Answers ==
    \A r \in Runs :
        /\ answer[r] = "value" <=> r \in Elements(executed)
        /\ answer[r] = "dropped" => thread = "dead"
        /\ run[r] = "ok" => answer[r] = "value"
        /\ run[r] = "shutdown" => thread = "dead" /\ r \notin Elements(executed)

IInv ==
    /\ TypeOK
    /\ Once(Trail)
    /\ Fresh
    /\ Answers
    /\ thread = "dead" => chan = <<>>

--------------------------------------------------------------------------------
(* Sequences.                                                              *)

LEMMA AppendElements ==
    ASSUME NEW S, NEW s \in Seq(S), NEW c \in S
    PROVE  /\ Append(s, c) \in Seq(S)
           /\ Elements(Append(s, c)) = Elements(s) \cup {c}
           /\ Once(s) /\ c \notin Elements(s) => Once(Append(s, c))
<1>1. /\ DOMAIN Append(s, c) = DOMAIN s \cup {Len(s) + 1}
      /\ Len(s) + 1 \notin DOMAIN s
      /\ \A i \in DOMAIN s : Append(s, c)[i] = s[i]
      /\ Append(s, c)[Len(s) + 1] = c
    OBVIOUS
<1> QED
    BY <1>1 DEF Elements, Once

LEMMA ConcatElements ==
    ASSUME NEW S, NEW s \in Seq(S), NEW t \in Seq(S)
    PROVE  /\ s \o t \in Seq(S)
           /\ Elements(s \o t) = Elements(s) \cup Elements(t)
           /\ Once(s \o t) => Once(s) /\ Elements(s) \cap Elements(t) = {}
<1>1. /\ s \o t \in Seq(S) /\ Len(s) \in Nat /\ Len(t) \in Nat
      /\ DOMAIN s = 1 .. Len(s) /\ DOMAIN t = 1 .. Len(t)
      /\ DOMAIN (s \o t) = 1 .. Len(s) + Len(t)
    BY LenProperties, ConcatProperties
<1>2. /\ \A i \in 1 .. Len(s) : i \in DOMAIN (s \o t) /\ (s \o t)[i] = s[i]
      /\ \A i \in 1 .. Len(t) : i + Len(s) \in DOMAIN (s \o t) /\ (s \o t)[i + Len(s)] = t[i]
    BY <1>1, ConcatProperties
<1>3. \A i \in DOMAIN (s \o t) : i \in 1 .. Len(s) \/ i - Len(s) \in 1 .. Len(t)
    BY <1>1
<1>4. \A i \in DOMAIN (s \o t) : (s \o t)[i] \in Elements(s) \cup Elements(t)
    BY <1>1, <1>2, <1>3, ConcatProperties DEF Elements
<1>5. Elements(s \o t) = Elements(s) \cup Elements(t)
    <2>1. Elements(s \o t) \subseteq Elements(s) \cup Elements(t)
        BY <1>4, Zenon DEF Elements
    <2>2. \A i \in DOMAIN s : s[i] \in Elements(s \o t)
        BY <1>1, <1>2, Zenon DEF Elements
    <2>3. \A i \in DOMAIN t : t[i] \in Elements(s \o t)
        BY <1>1, <1>2, Zenon DEF Elements
    <2>4. Elements(s) \subseteq Elements(s \o t) /\ Elements(t) \subseteq Elements(s \o t)
        BY <2>2, <2>3, Zenon DEF Elements
    <2> QED
        BY <2>1, <2>4
<1>6. Once(s \o t) => Once(s)
    BY <1>1, <1>2 DEF Once
<1>7. ASSUME Once(s \o t), NEW i \in 1 .. Len(s), NEW j \in 1 .. Len(t) PROVE s[i] # t[j]
    <2>1. i # j + Len(s)
        BY <1>1
    <2> QED
        BY <1>2, <1>7, <2>1 DEF Once
<1> QED
    BY <1>1, <1>5, <1>6, <1>7 DEF Elements

(* An element that moves from the front of t to the back of s.             *)
LEMMA Handover ==
    ASSUME NEW S, NEW s \in Seq(S), NEW t \in Seq(S), t # <<>>
    PROVE  Append(s, Head(t)) \o Tail(t) = s \o t
<1>1. Head(t) \in S /\ Tail(t) \in Seq(S) /\ Len(t) \in Nat \ {0} /\ Len(s) \in Nat
    BY HeadTailProperties, EmptySeq, LenProperties
<1>2. /\ Append(s, Head(t)) \in Seq(S) /\ Len(Append(s, Head(t))) = Len(s) + 1
      /\ Len(Tail(t)) = Len(t) - 1
    BY <1>1, AppendProperties, HeadTailProperties
<1>3. /\ Append(s, Head(t)) \o Tail(t) \in Seq(S) /\ s \o t \in Seq(S)
      /\ Len(Append(s, Head(t)) \o Tail(t)) = Len(s) + Len(t)
      /\ Len(s \o t) = Len(s) + Len(t)
    BY <1>1, <1>2, ConcatProperties
<1>4. ASSUME NEW i \in 1 .. Len(s) + Len(t)
      PROVE  (Append(s, Head(t)) \o Tail(t))[i] = (s \o t)[i]
    BY <1>1, <1>2
<1> QED
    BY <1>3, <1>4, SeqEqual

(* What joins at the back, and what leaves at the front.                   *)
LEMMA Ends ==
    ASSUME NEW S, NEW s \in Seq(S), NEW t \in Seq(S), NEW c \in S
    PROVE  /\ s \o Append(t, c) = Append(s \o t, c)
           /\ s # <<>> => /\ s \o t # <<>>
                          /\ Head(s \o t) = Head(s)
                          /\ Tail(s \o t) = Tail(s) \o t
<1>1. /\ Append(t, c) = t \o <<c>> /\ <<c>> \in Seq(S) /\ s \o t \in Seq(S)
      /\ Append(s \o t, c) = (s \o t) \o <<c>>
    BY AppendIsConcat, ConcatProperties
<1>2. s \o Append(t, c) = Append(s \o t, c)
    BY <1>1, ConcatAssociative
<1>3. ASSUME s # <<>>
      PROVE  s \o t # <<>> /\ Head(s \o t) = Head(s) /\ Tail(s \o t) = Tail(s) \o t
    <2>1. /\ Len(s) \in Nat \ {0} /\ Len(t) \in Nat /\ Tail(s) \in Seq(S)
          /\ Len(Tail(s)) = Len(s) - 1
          /\ Len(s \o t) = Len(s) + Len(t)
        BY <1>3, EmptySeq, LenProperties, HeadTailProperties, ConcatProperties
    <2>2. s \o t # <<>>
        BY <1>1, <1>3, ConcatEqualIffEmpty
    <2>3. Head(s \o t) = Head(s)
        BY <1>1, <2>1, <2>2
    <2>4. /\ Tail(s \o t) \in Seq(S) /\ Tail(s) \o t \in Seq(S)
          /\ Len(Tail(s \o t)) = Len(s) + Len(t) - 1
          /\ Len(Tail(s) \o t) = Len(s) + Len(t) - 1
        BY <1>1, <2>1, <2>2, HeadTailProperties, ConcatProperties
    <2>5. ASSUME NEW i \in 1 .. Len(s) + Len(t) - 1
          PROVE  Tail(s \o t)[i] = (Tail(s) \o t)[i]
        <3>1. Tail(s \o t)[i] = (s \o t)[i + 1]
            BY <1>1, <2>2, <2>4, HeadTailProperties
        <3> QED
            BY <2>1, <3>1
    <2> QED
        BY <2>2, <2>3, <2>4, <2>5, SeqEqual
<1> QED
    BY <1>2, <1>3

--------------------------------------------------------------------------------
(* The steps.                                                              *)

(* Every variable stays in its range.                                      *)
LEMMA TypeStep == TypeOK /\ [Next]_vars => TypeOK'
<1> SUFFICES ASSUME TypeOK, [Next]_vars PROVE TypeOK'
    OBVIOUS
<1>a. /\ chan \in Seq(Commands) /\ batch \in Seq(Commands) /\ executed \in Seq(Commands)
      /\ Len(batch) \in Nat /\ BatchSize \in Nat \ {0}
      /\ <<>> \in Seq(Commands) /\ Len(<<>>) = 0
      /\ (batch # <<>> => Len(batch) # 0)
    BY BridgeAssumption, EmptySeq, LenProperties DEF TypeOK
<1>b. ASSUME NEW c \in Commands, Enqueue(c) PROVE chan' \in Seq(Commands)
    BY <1>a, <1>b, AppendProperties DEF Enqueue
<1>c. chan # <<>> => Head(chan) \in Commands /\ Tail(chan) \in Seq(Commands)
    BY <1>a, HeadTailProperties
<1>1. ASSUME NEW r \in Runs, Run(r) PROVE TypeOK'
    BY <1>1, <1>b DEF Run, TypeOK, Commands, waitVars
<1>2. ASSUME NEW r \in Runs, RunResolves(r) PROVE TypeOK'
    BY <1>2 DEF RunResolves, TypeOK, chanVars, waitVars
<1>3. ASSUME NEW r \in Runs, RunAbandoned(r) PROVE TypeOK'
    BY <1>3 DEF RunAbandoned, TypeOK, chanVars, waitVars
<1>4. ASSUME NEW w \in Waits, WaitFor(w) PROVE TypeOK'
    BY <1>4 DEF WaitFor, TypeOK, chanVars, runVars
<1>5. ASSUME NEW w \in Waits, FutureResolves(w) PROVE TypeOK'
    BY <1>5, <1>b DEF FutureResolves, TypeOK, Commands, runVars
<1>6. ASSUME NEW w \in Waits, WaitReturns(w) PROVE TypeOK'
    BY <1>6 DEF WaitReturns, TypeOK, chanVars, runVars
<1>7. ASSUME NEW s \in Sends, Send(s) PROVE TypeOK'
    BY <1>7, <1>b DEF Send, TypeOK, Commands, runVars, waitVars
<1>8. CASE TakeFirst
    <2>1. <<Head(chan)>> \in Seq(Commands) /\ Len(<<Head(chan)>>) = 1 /\ <<Head(chan)>> # <<>>
        BY <1>8, <1>c DEF TakeFirst
    <2>2. /\ batch' \in Seq(Commands) /\ Len(batch') <= BatchSize /\ batch' # <<>>
          /\ chan' \in Seq(Commands) /\ thread' = "collecting" /\ interrupted' = FALSE
          /\ UNCHANGED <<executed, runVars, waitVars, fired>>
        BY <1>8, <1>a, <1>c, <2>1 DEF TakeFirst
    <2> QED
        BY <2>2 DEF TypeOK, runVars, waitVars
<1>9. CASE TakeNext
    <2>1. /\ Append(batch, Head(chan)) \in Seq(Commands)
          /\ Append(batch, Head(chan)) # <<>>
          /\ Len(Append(batch, Head(chan))) = Len(batch) + 1
        BY <1>9, <1>a, <1>c, AppendProperties DEF TakeNext
    <2>2. Len(batch) + 1 <= BatchSize
        BY <1>9, <1>a DEF TakeNext
    <2> QED
        BY <1>9, <1>c, <2>1, <2>2 DEF TakeNext, TypeOK, runVars, waitVars
<1>10. CASE StopCollecting
    BY <1>10 DEF StopCollecting, TypeOK, runVars, waitVars
<1>11. CASE Execute
    <2>1. batch # <<>>
        BY <1>11 DEF Execute, TypeOK
    <2>2. /\ Head(batch) \in Commands /\ Tail(batch) \in Seq(Commands)
          /\ Len(Tail(batch)) = Len(batch) - 1
          /\ Append(executed, Head(batch)) \in Seq(Commands)
        BY <1>a, <2>1, HeadTailProperties, AppendProperties
    <2>3. Tail(batch) = <<>> <=> Len(batch) = 1
        <3>1. Tail(batch) # <<>> => Len(Tail(batch)) # 0
            BY <2>2, EmptySeq
        <3>2. Tail(batch) = <<>> => Len(Tail(batch)) = 0
            BY <1>a
        <3> QED
            BY <1>a, <2>2, <3>1, <3>2
    <2>4. Len(Tail(batch)) <= BatchSize
        BY <1>a, <2>2 DEF TypeOK
    <2>5. answer' \in [Runs -> {"empty", "value", "dropped"}] /\ queue' \in [Waits -> {"empty", "full"}]
        BY <1>11 DEF Execute, Effect, TypeOK
    <2> QED
        BY <1>11, <2>2, <2>3, <2>4, <2>5 DEF Execute, TypeOK
<1>12. CASE Interrupt
    BY <1>12 DEF Interrupt, TypeOK, runVars, waitVars
<1>13. CASE PollCancelled
    BY <1>13 DEF PollCancelled, TypeOK, runVars, waitVars
<1>14. CASE Panic
    BY <1>14, <1>a DEF Panic, TypeOK, waitVars
<1>15. CASE UNCHANGED vars
    BY <1>15 DEF vars, chanVars, runVars, waitVars, TypeOK
<1> QED
    BY <1>1, <1>2, <1>3, <1>4, <1>5, <1>6, <1>7, <1>8, <1>9, <1>10, <1>11, <1>12, <1>13, <1>14,
       <1>15 DEF Next, ThreadStep

LEMMA TypeInit == Init => TypeOK
<1>1. <<>> \in Seq(Commands) /\ Len(<<>>) <= BatchSize
    BY BridgeAssumption, EmptySeq
<1> SUFFICES ASSUME Init PROVE TypeOK
    OBVIOUS
<1>2. /\ chan \in Seq(Commands) /\ batch \in Seq(Commands) /\ executed \in Seq(Commands)
      /\ Len(batch) <= BatchSize
      /\ thread = "polling" /\ batch = <<>> /\ interrupted \in BOOLEAN
    BY <1>1, Zenon DEF Init
<1>3. /\ answer \in [Runs -> {"empty", "value", "dropped"}]
      /\ run \in [Runs -> {"idle", "waiting", "ok", "shutdown", "abandoned"}]
      /\ future \in [Waits -> {"none", "running", "resolved"}]
      /\ queue \in [Waits -> {"empty", "full"}]
      /\ caller \in [Waits -> {"idle", "blocked", "returned"}]
      /\ fired \subseteq Sends
    BY DEF Init
<1> QED
    BY <1>2, <1>3 DEF TypeOK

(* Every variable of the bridge stays in its range, a batch within         *)
(* POLL_BATCH_SIZE (bridge/mod.rs:242).                                    *)
THEOREM BridgeTypes == Spec => []TypeOK
BY TypeInit, TypeStep, PTL DEF Spec

--------------------------------------------------------------------------------
(* The trail.                                                              *)

LEMMA TrailTyped ==
    ASSUME TypeOK
    PROVE  /\ Pending \in Seq(Commands) /\ Trail \in Seq(Commands)
           /\ Elements(Pending) = Elements(batch) \cup Elements(chan)
           /\ Elements(Trail) = Elements(executed) \cup Elements(Pending)
           /\ Once(Trail) => /\ Once(executed)
                             /\ Elements(executed) \cap Elements(Pending) = {}
<1>1. chan \in Seq(Commands) /\ batch \in Seq(Commands) /\ executed \in Seq(Commands)
    BY DEF TypeOK
<1>2. Pending \in Seq(Commands) /\ Elements(Pending) = Elements(batch) \cup Elements(chan)
    BY <1>1, ConcatElements DEF Pending
<1> QED
    BY <1>1, <1>2, ConcatElements DEF Trail

(* A call puts its closure at the end of the trail, or nowhere.            *)
LEMMA Enqueued ==
    ASSUME TypeOK, NEW c \in Commands, Enqueue(c), UNCHANGED <<batch, executed>>
    PROVE  /\ Alive => Pending' = Append(Pending, c) /\ Trail' = Append(Trail, c)
           /\ ~Alive => Pending' = Pending /\ Trail' = Trail
<1>1. chan \in Seq(Commands) /\ batch \in Seq(Commands) /\ executed \in Seq(Commands)
    BY DEF TypeOK
<1>2. CASE Alive
    <2>1. Pending' = Append(Pending, c)
        BY <1>1, <1>2, Ends DEF Enqueue, Pending
    <2>2. Trail' = Append(Trail, c)
        BY <1>1, <2>1, TrailTyped, Ends DEF Trail
    <2> QED
        BY <1>2, <2>1, <2>2
<1>3. CASE ~Alive
    BY <1>3 DEF Enqueue, Pending, Trail
<1> QED
    BY <1>2, <1>3

(* Collecting a batch moves closures along and leaves the order as it was. *)
LEMMA Collected ==
    ASSUME TypeOK, TakeFirst \/ TakeNext \/ StopCollecting
    PROVE  Pending' = Pending /\ Trail' = Trail
<1>1. chan \in Seq(Commands) /\ batch \in Seq(Commands)
    BY DEF TypeOK
<1>2. executed' = executed
    BY DEF TakeFirst, TakeNext, StopCollecting
<1>3. CASE TakeFirst
    <2>1. chan # <<>> /\ batch = <<>> /\ batch' = <<Head(chan)>> /\ chan' = Tail(chan)
        BY <1>3 DEF TakeFirst, TypeOK
    <2>2. Append(batch, Head(chan)) = <<Head(chan)>>
        BY <1>1, <2>1, AppendIsConcat, HeadTailProperties, ConcatEmptySeq
    <2> QED
        BY <1>1, <1>2, <2>1, <2>2, Handover DEF Pending, Trail
<1>4. CASE TakeNext
    BY <1>1, <1>2, <1>4, Handover DEF TakeNext, Pending, Trail
<1>5. CASE StopCollecting
    BY <1>2, <1>5 DEF StopCollecting, Pending, Trail
<1> QED
    BY <1>3, <1>4, <1>5

(* A closure that runs goes from the front of what is pending to the end   *)
(* of what has run.                                                        *)
LEMMA Executed ==
    ASSUME TypeOK, Execute
    PROVE  /\ Pending # <<>> /\ Head(batch) = Head(Pending)
           /\ executed' = Append(executed, Head(Pending))
           /\ Pending' = Tail(Pending)
           /\ Trail' = Trail
<1>1. /\ chan \in Seq(Commands) /\ batch \in Seq(Commands) /\ executed \in Seq(Commands)
      /\ batch # <<>>
    BY DEF TypeOK, Execute
<1>2. Head(batch) \in Commands
    BY <1>1, HeadTailProperties
<1>3. Pending # <<>> /\ Head(Pending) = Head(batch) /\ Tail(Pending) = Tail(batch) \o chan
    BY <1>1, <1>2, Ends DEF Pending
<1>4. executed' = Append(executed, Head(Pending)) /\ Pending' = Tail(Pending)
    BY <1>3 DEF Execute, Pending
<1>5. Trail' = Trail
    <2>1. Pending \in Seq(Commands)
        BY TrailTyped
    <2>2. Append(executed, Head(Pending)) \o Tail(Pending) = executed \o Pending
        BY <1>1, <1>3, <2>1, Handover
    <2> QED
        BY <1>4, <2>2 DEF Trail
<1> QED
    BY <1>3, <1>4, <1>5

(* A call that was not made before keeps the trail without repetition.     *)
LEMMA CallKeeps ==
    ASSUME IInv, NEW c \in Commands, c \notin Elements(Trail), Enqueue(c),
           UNCHANGED <<batch, executed, thread>>
    PROVE  /\ Once(Trail')
           /\ \A d : d # c /\ d \notin Elements(Trail) => d \notin Elements(Trail')
           /\ thread' = "dead" => chan' = <<>>
<1>1. CASE Alive
    <2>1. Trail' = Append(Trail, c)
        BY <1>1, Enqueued DEF IInv
    <2> QED
        BY <1>1, <2>1, TrailTyped, AppendElements DEF IInv, Alive
<1>2. CASE ~Alive
    BY <1>2, Enqueued DEF IInv, Enqueue, Alive
<1> QED
    BY <1>1, <1>2

(* The invariant after a step that leaves the trail and the thread alone.  *)
LEMMA QuietKeeps ==
    ASSUME IInv, TypeOK', Trail' = Trail, executed' = executed, answer' = answer,
           thread' = "dead" <=> thread = "dead", chan' = chan \/ thread # "dead",
           UNCHANGED <<future, fired>>,
           \A w \in Waits : caller'[w] = "idle" => caller[w] = "idle",
           \A r \in Runs : run'[r] # run[r] =>
               /\ run'[r] # "idle"
               /\ run'[r] = "ok" => answer[r] = "value"
               /\ run'[r] = "shutdown" => thread = "dead" /\ answer[r] # "value"
    PROVE  IInv'
<1>1. Fresh'
    BY DEF IInv, Fresh
<1>2. Answers'
    BY DEF IInv, Answers
<1> QED
    BY <1>1, <1>2 DEF IInv

LEMMA Inductive == Spec => []IInv
<1>1. Init => IInv
    <2> SUFFICES ASSUME Init PROVE IInv
        OBVIOUS
    <2>1. TypeOK
        BY TypeInit
    <2>2. Trail = <<>>
        BY EmptySeq, ConcatEmptySeq DEF Init, Trail, Pending
    <2>3. Elements(<<>>) = {} /\ Once(<<>>)
        BY DEF Elements, Once
    <2>f. \A w \in Waits : future[w] = "none"
        BY DEF Init
    <2>4. Fresh
        BY <2>2, <2>3, <2>f DEF Fresh
    <2>5. Answers
        BY <2>3 DEF Init, Answers
    <2> QED
        BY <2>1, <2>2, <2>3, <2>4, <2>5 DEF Init, IInv
<1>2. IInv /\ [Next]_vars => IInv'
    <2> SUFFICES ASSUME IInv, [Next]_vars PROVE IInv'
        OBVIOUS
    <2>t. TypeOK /\ TypeOK'
        BY TypeStep DEF IInv
    <2>d. (Runs \cap Waits = {}) /\ (Runs \cap Sends = {}) /\ (Waits \cap Sends = {})
        BY BridgeAssumption
    <2>1. ASSUME NEW r \in Runs, Run(r) PROVE IInv'
        <3>1. r \notin Elements(Trail)
            BY <2>1 DEF Run, IInv, Fresh
        <3>2. /\ Enqueue(r) /\ UNCHANGED <<batch, executed, thread, answer, future, caller, fired>>
              /\ run' = [run EXCEPT ![r] = IF Alive THEN "waiting" ELSE "shutdown"]
            BY <2>1 DEF Run, waitVars
        <3>3. /\ Once(Trail')
              /\ \A c : c # r /\ c \notin Elements(Trail) => c \notin Elements(Trail')
              /\ thread' = "dead" => chan' = <<>>
            BY <3>1, <3>2, CallKeeps DEF Commands
        <3>4. run'[r] # "idle" /\ \A o \in Runs \ {r} : run'[o] = run[o]
            BY <2>t, <3>2 DEF TypeOK
        <3>5. Fresh'
            BY <2>d, <3>2, <3>3, <3>4 DEF Fresh, IInv
        <3>6. r \notin Elements(executed)
            BY <2>t, <3>1, TrailTyped
        <3>7. Answers'
            BY <2>t, <3>2, <3>6 DEF Answers, IInv, Alive, TypeOK
        <3> QED
            BY <2>t, <3>3, <3>5, <3>7 DEF IInv
    <2>2. ASSUME NEW r \in Runs, RunResolves(r) PROVE IInv'
        <3>1. /\ UNCHANGED <<chan, batch, thread, executed, answer, future, caller, fired>>
              /\ answer[r] # "empty"
              /\ run' = [run EXCEPT ![r] = IF answer[r] = "value" THEN "ok" ELSE "shutdown"]
            BY <2>2 DEF RunResolves, chanVars, waitVars
        <3>2. answer[r] # "value" => thread = "dead"
            BY <2>t, <3>1 DEF IInv, Answers, TypeOK
        <3>3. \A o \in Runs : run'[o] # run[o] =>
                  /\ run'[o] # "idle"
                  /\ run'[o] = "ok" => answer[o] = "value"
                  /\ run'[o] = "shutdown" => thread = "dead" /\ answer[o] # "value"
            BY <2>t, <3>1, <3>2 DEF TypeOK
        <3> QED
            BY <2>t, <3>1, <3>3, QuietKeeps DEF Trail, Pending
    <2>3. ASSUME NEW r \in Runs, RunAbandoned(r) PROVE IInv'
        <3>1. /\ UNCHANGED <<chan, batch, thread, executed, answer, future, caller, fired>>
              /\ run' = [run EXCEPT ![r] = "abandoned"]
            BY <2>3 DEF RunAbandoned, chanVars, waitVars
        <3>2. \A o \in Runs : run'[o] # run[o] => run'[o] = "abandoned"
            BY <2>t, <3>1 DEF TypeOK
        <3> QED
            BY <2>t, <3>1, <3>2, QuietKeeps DEF Trail, Pending
    <2>4. ASSUME NEW w \in Waits, WaitFor(w) PROVE IInv'
        <3>1. /\ UNCHANGED <<chan, batch, thread, executed, answer, run, fired>>
              /\ future' = [future EXCEPT ![w] = "running"]
              /\ caller[w] = "idle" /\ caller' = [caller EXCEPT ![w] = "blocked"]
            BY <2>4 DEF WaitFor, chanVars, runVars
        <3>2. Trail' = Trail
            BY <3>1 DEF Trail, Pending
        <3>3. future[w] # "resolved"
            BY <3>1 DEF Fresh, IInv
        <3>4. Fresh'
            BY <2>t, <3>1, <3>2, <3>3 DEF Fresh, IInv, TypeOK
        <3>5. Answers'
            BY <3>1 DEF Answers, IInv
        <3> QED
            BY <2>t, <3>1, <3>2, <3>4, <3>5 DEF IInv
    <2>5. ASSUME NEW w \in Waits, FutureResolves(w) PROVE IInv'
        <3>1. w \notin Elements(Trail)
            BY <2>5 DEF FutureResolves, IInv, Fresh
        <3>2. /\ Enqueue(w) /\ UNCHANGED <<batch, executed, thread, answer, run, caller, fired>>
              /\ future[w] = "running" /\ future' = [future EXCEPT ![w] = "resolved"]
            BY <2>5 DEF FutureResolves, runVars
        <3>3. /\ Once(Trail')
              /\ \A c : c # w /\ c \notin Elements(Trail) => c \notin Elements(Trail')
              /\ thread' = "dead" => chan' = <<>>
            BY <3>1, <3>2, CallKeeps DEF Commands
        <3>4. future'[w] = "resolved" /\ \A o \in Waits \ {w} : future'[o] = future[o]
            BY <2>t, <3>2 DEF TypeOK
        <3>5. Fresh'
            BY <2>d, <3>2, <3>3, <3>4 DEF Fresh, IInv
        <3>6. Answers'
            BY <3>2 DEF Answers, IInv
        <3> QED
            BY <2>t, <3>3, <3>5, <3>6 DEF IInv
    <2>6. ASSUME NEW w \in Waits, WaitReturns(w) PROVE IInv'
        <3>1. /\ UNCHANGED <<chan, batch, thread, executed, answer, run, future, fired>>
              /\ caller' = [caller EXCEPT ![w] = "returned"]
            BY <2>6 DEF WaitReturns, chanVars, runVars
        <3>2. \A o \in Waits : caller'[o] = "idle" => caller[o] = "idle"
            BY <2>t, <3>1 DEF TypeOK
        <3> QED
            BY <2>t, <3>1, <3>2, QuietKeeps DEF Trail, Pending
    <2>7. ASSUME NEW s \in Sends, Send(s) PROVE IInv'
        <3>1. s \notin Elements(Trail)
            BY <2>7 DEF Send, IInv, Fresh
        <3>2. /\ Enqueue(s) /\ UNCHANGED <<batch, executed, thread, answer, run, future, caller>>
              /\ fired' = fired \cup {s}
            BY <2>7 DEF Send, runVars, waitVars
        <3>3. /\ Once(Trail')
              /\ \A c : c # s /\ c \notin Elements(Trail) => c \notin Elements(Trail')
              /\ thread' = "dead" => chan' = <<>>
            BY <3>1, <3>2, CallKeeps DEF Commands
        <3>4. Fresh'
            BY <2>d, <3>2, <3>3 DEF Fresh, IInv
        <3>5. Answers'
            BY <3>2 DEF Answers, IInv
        <3> QED
            BY <2>t, <3>3, <3>4, <3>5 DEF IInv
    <2>8. CASE TakeFirst \/ TakeNext \/ StopCollecting
        <3>1. Trail' = Trail
            BY <2>t, <2>8, Collected
        <3>2. /\ UNCHANGED <<executed, answer, run, future, caller, fired>>
              /\ thread # "dead" /\ thread' # "dead"
            BY <2>8 DEF TakeFirst, TakeNext, StopCollecting, runVars, waitVars
        <3> QED
            BY <2>t, <3>1, <3>2, QuietKeeps
    <2>9. CASE Execute
        <3>1. /\ Trail' = Trail
              /\ executed' = Append(executed, Head(batch))
              /\ Head(batch) \in Elements(Pending)
            <4>1. 1 \in DOMAIN Pending /\ Head(Pending) = Pending[1]
                BY <2>t, <2>9, Executed, TrailTyped
            <4> QED
                BY <2>t, <2>9, <4>1, Executed DEF Elements
        <3>2. Elements(executed') = Elements(executed) \cup {Head(batch)}
            <4>1. Head(batch) \in Commands
                BY <2>t, <2>9, HeadTailProperties DEF TypeOK, Execute
            <4> QED
                BY <2>t, <3>1, <4>1, AppendElements DEF TypeOK
        <3>3. /\ UNCHANGED <<chan, run, future, caller, fired>>
              /\ thread # "dead" /\ thread' # "dead"
              /\ answer' = [r \in Runs |-> IF r = Head(batch) THEN "value" ELSE answer[r]]
            BY <2>9 DEF Execute, Effect
        <3>4. Fresh'
            BY <3>1, <3>3 DEF Fresh, IInv
        <3>5. Answers'
            BY <3>2, <3>3 DEF Answers, IInv
        <3> QED
            BY <2>t, <3>1, <3>3, <3>4, <3>5 DEF IInv
    <2>10. CASE Interrupt \/ PollCancelled
        BY <2>t, <2>10, QuietKeeps DEF Interrupt, PollCancelled, runVars, waitVars, Trail, Pending
    <2>11. CASE Panic
        <3>1. /\ UNCHANGED <<executed, run, future, caller, fired>>
              /\ batch' = <<>> /\ chan' = <<>> /\ thread' = "dead" /\ thread # "dead"
              /\ answer' = [r \in Runs |-> IF r \in Elements(Pending) THEN "dropped" ELSE answer[r]]
            BY <2>11 DEF Panic, waitVars, Pending
        <3>2. Trail' = executed
            BY <2>t, <3>1, EmptySeq, ConcatEmptySeq DEF Trail, Pending, TypeOK
        <3>3. /\ Once(executed) /\ Elements(executed) \subseteq Elements(Trail)
              /\ Elements(executed) \cap Elements(Pending) = {}
            BY <2>t, TrailTyped DEF IInv
        <3>4. Fresh'
            BY <3>1, <3>2, <3>3 DEF Fresh, IInv
        <3>5. Answers'
            BY <3>1, <3>3 DEF Answers, IInv
        <3> QED
            BY <2>t, <3>1, <3>2, <3>3, <3>4, <3>5 DEF IInv
    <2>12. CASE UNCHANGED vars
        BY <2>t, <2>12, QuietKeeps DEF vars, chanVars, runVars, waitVars, Trail, Pending
    <2> QED
        BY <2>1, <2>2, <2>3, <2>4, <2>5, <2>6, <2>7, <2>8, <2>9, <2>10, <2>11, <2>12
        DEF Next, ThreadStep
<1> QED
    BY <1>1, <1>2, PTL DEF Spec

--------------------------------------------------------------------------------
(* A caller of run is told Ok when its closure ran to the end, and         *)
(* Shutdown only when it did not (bridge/mod.rs:110).                      *)
THEOREM RunIsTruthful == Spec => []RunTruthful
<1>1. IInv => RunTruthful
    BY DEF IInv, Answers, RunTruthful
<1> QED
    BY <1>1, Inductive, PTL

--------------------------------------------------------------------------------
(* The refinement.                                                         *)

LEMMA StepRefines == IInv /\ [Next]_vars => [Abstract!Next]_(Abstract!vars)
<1> SUFFICES ASSUME IInv, [Next]_vars PROVE [Abstract!Next]_(Abstract!vars)
    OBVIOUS
<1>t. TypeOK
    BY DEF IInv
<1>a. \A c : Abstract!Elements(c) = Elements(c)
    BY DEF Abstract!Elements, Elements
<1>s. ASSUME NEW c \in Commands, c \notin Elements(Trail), Enqueue(c),
             UNCHANGED <<batch, executed, thread>>
      PROVE  [Abstract!Next]_(Abstract!vars)
    <2>1. CASE Alive
        <3>1. Pending' = Append(Pending, c)
            BY <1>t, <1>s, <2>1, Enqueued
        <3>2. c \notin Elements(Pending) \cup Elements(executed)
            BY <1>t, <1>s, TrailTyped
        <3>3. Abstract!Send(c)
            BY <1>a, <1>s, <2>1, <3>1, <3>2 DEF Abstract!Send, Pending, Alive
        <3> QED
            BY <3>3 DEF Abstract!Next
    <2>2. CASE ~Alive
        BY <1>s, <2>2 DEF Enqueue, Abstract!vars
    <2> QED
        BY <2>1, <2>2
<1>1. ASSUME NEW r \in Runs, Run(r) PROVE [Abstract!Next]_(Abstract!vars)
    BY <1>1, <1>s DEF Run, IInv, Fresh, Commands
<1>2. ASSUME NEW w \in Waits, FutureResolves(w) PROVE [Abstract!Next]_(Abstract!vars)
    BY <1>2, <1>s DEF FutureResolves, IInv, Fresh, Commands
<1>3. ASSUME NEW s \in Sends, Send(s) PROVE [Abstract!Next]_(Abstract!vars)
    BY <1>3, <1>s DEF Send, IInv, Fresh, Commands
<1>4. CASE TakeFirst \/ TakeNext \/ StopCollecting
    <2>1. Pending' = Pending /\ executed' = executed /\ thread # "dead" /\ thread' # "dead"
        BY <1>t, <1>4, Collected DEF TakeFirst, TakeNext, StopCollecting
    <2> QED
        BY <2>1 DEF Abstract!vars, Pending
<1>5. CASE Execute
    <2>1. thread # "dead" /\ thread' # "dead"
        BY <1>5 DEF Execute
    <2>2. Abstract!Perform
        BY <1>t, <1>5, <2>1, Executed DEF Abstract!Perform, Pending
    <2> QED
        BY <2>2 DEF Abstract!Next
<1>6. CASE Panic
    <2>1. batch' = <<>> /\ chan' = <<>> /\ executed' = executed /\ thread # "dead" /\ thread' = "dead"
        BY <1>6 DEF Panic
    <2>2. batch' \o chan' = <<>>
        BY <2>1, EmptySeq, ConcatEmptySeq
    <2>3. Abstract!Close
        BY <2>1, <2>2 DEF Abstract!Close
    <2> QED
        BY <2>3 DEF Abstract!Next
<1>7. CASE \/ \E r \in Runs : RunResolves(r) \/ RunAbandoned(r)
           \/ \E w \in Waits : WaitFor(w) \/ WaitReturns(w)
           \/ Interrupt \/ PollCancelled \/ UNCHANGED vars
    <2>1. UNCHANGED <<chan, batch, executed, thread>>
        BY <1>7 DEF RunResolves, RunAbandoned, WaitFor, WaitReturns, Interrupt, PollCancelled,
                    vars, chanVars
    <2> QED
        BY <2>1 DEF Abstract!vars
<1> QED
    BY <1>1, <1>2, <1>3, <1>4, <1>5, <1>6, <1>7 DEF Next, ThreadStep

(* Whatever its callers do, the bridge is the queue of CommandQueue:       *)
(* closures run one at a time, at most once, in the order they were sent.  *)
THEOREM Refinement == Spec => ImplementsCommandQueue
<1>1. Init => Abstract!Init
    <2> SUFFICES ASSUME Init PROVE Abstract!Init
        OBVIOUS
    <2>1. batch \o chan = <<>>
        BY EmptySeq, ConcatEmptySeq DEF Init
    <2> QED
        BY <2>1 DEF Init, Abstract!Init
<1>2. IInv /\ [Next]_vars => [Abstract!Next]_(Abstract!vars)
    BY StepRefines
<1> QED
    BY <1>1, <1>2, Inductive, PTL DEF Spec, ImplementsCommandQueue, Abstract!Spec
================================================================================
