-------------------------- MODULE ForkSafety_proofs --------------------------
(***************************************************************************)
(* Theorems of ForkSafety, for any number of processes.                    *)
(*                                                                         *)
(* GuardedAnswered is not inductive: a guard that lets a call pass says    *)
(* only that this process made the object.  What makes the call answerable *)
(* is that a client is kept only once an answer came, so its process had   *)
(* its own workers and its own bridge thread, and keeps them.              *)
(***************************************************************************)
EXTENDS ForkSafety, TLAPS

\* What the holder of an object with a guard that is a client's may rely on:
\* the process that made it runs, with the workers and the bridge it names.
Sound(o) ==
    /\ o.pid \in alive
    /\ o.bridge = o.pid
    /\ runtime[o.pid] = o.pid

FromClient == {"client", "reader"}

ObjectsSound == \A p \in Process : \A o \in objects[p] :
                    o.kind \in FromClient => Sound(o)

CallsSound == \A p \in Process : call[p] # NoCall =>
                 /\ p \in alive
                 /\ call[p].on \in FromClient => Sound(call[p]) /\ call[p].pid = p
                 /\ call[p].makes # "nothing" => call[p].pid = p

IInv == TypeOK /\ ObjectsSound /\ CallsSound

LEMMA InitIInv == Init => IInv
  BY ForkAssumption DEF Init, IInv, TypeOK, ObjectsSound, CallsSound, NoCall

(* Once made, the workers of a process stay.                               *)
LEMMA ContextKept ==
    ASSUME TypeOK, NEW p \in Process, EnsureContext(p)
    PROVE  /\ runtime' \in [Process -> Process \union {None}]
           /\ bridge' \in [Process -> Process \union {None}]
           /\ bridge'[p] \in Process
           /\ \A q \in Process : runtime[q] = q => runtime'[q] = q
  BY ForkAssumption DEF TypeOK, EnsureContext

LEMMA Step == IInv /\ [Next]_vars => IInv'
<1> SUFFICES ASSUME IInv, [Next]_vars PROVE IInv'
  OBVIOUS
<1> USE DEF IInv
<1>1. ASSUME NEW p \in Process, NEW q \in Process, Fork(p, q) PROVE IInv'
  <2>1. TypeOK'
    BY <1>1 DEF Fork, TypeOK
  <2>2. \A s \in Process : s # q =>
            objects'[s] = objects[s] /\ runtime'[s] = runtime[s]
    BY <1>1 DEF Fork, TypeOK
  <2>3. objects'[q] = objects[p]
    BY <1>1 DEF Fork, TypeOK
  <2>4. \A s \in alive : s # q /\ s \in alive'
    BY <1>1 DEF Fork
  <2>5. ObjectsSound'
    BY <2>2, <2>3, <2>4 DEF ObjectsSound, Sound, TypeOK
  <2>6. CallsSound'
    BY <1>1, <2>2, <2>4 DEF CallsSound, Sound, Fork, TypeOK
  <2> QED
    BY <2>1, <2>5, <2>6
<1>2. ASSUME NEW p \in Process, NewClient(p) PROVE IInv'
  <2>1. /\ EnsureContext(p) /\ p \in alive /\ alive' = alive
        /\ objects' = objects /\ result' = result
        /\ call' = [call EXCEPT ![p] = [on |-> "new", pid |-> p,
                                        bridge |-> bridge'[p], makes |-> "client"]]
    BY <1>2 DEF NewClient, Ready, WaitFor
  <2>2. TypeOK'
    BY <2>1, ContextKept DEF TypeOK, Waiting
  <2>3. ObjectsSound'
    BY <2>1, ContextKept DEF ObjectsSound, Sound, TypeOK
  <2>4. CallsSound'
    BY <2>1, ContextKept DEF CallsSound, Sound, TypeOK, FromClient
  <2> QED
    BY <2>2, <2>3, <2>4
<1>3. ASSUME NEW p \in Process, NewAdmin(p) PROVE IInv'
  <2>1. /\ EnsureContext(p) /\ alive' = alive /\ call' = call
        /\ result' = "returned"
        /\ objects' = [objects EXCEPT ![p] = @ \union
               {[kind |-> "admin", pid |-> p, bridge |-> bridge'[p]]}]
    BY <1>3 DEF NewAdmin, Keep
  <2>2. TypeOK'
    BY <2>1, ContextKept DEF TypeOK, Object, Kind
  <2>3. ObjectsSound'
    BY <2>1, ContextKept DEF ObjectsSound, Sound, TypeOK, FromClient
  <2>4. CallsSound'
    BY <2>1, ContextKept DEF CallsSound, Sound, TypeOK
  <2> QED
    BY <2>2, <2>3, <2>4
<1>4. ASSUME NEW p \in Process, Answer(p) PROVE IInv'
  <2> DEFINE made == [kind |-> call[p].makes, pid |-> call[p].pid,
                      bridge |-> call[p].bridge]
  <2>1. /\ call[p] \in Waiting /\ runtime[p] = p /\ call[p].bridge = p
        /\ p \in alive
    BY <1>4 DEF Answer, Answerable, TypeOK, CallsSound
  <2>2. /\ alive' = alive /\ runtime' = runtime /\ bridge' = bridge
        /\ result' = "returned" /\ call' = [call EXCEPT ![p] = NoCall]
        /\ objects' = [objects EXCEPT ![p] =
                           @ \union {o \in {made} : o.kind # "nothing"}]
    BY <1>4 DEF Answer
  <2>3. made.kind # "nothing" =>
            made \in Object /\ made.pid = p /\ made.bridge = p
    BY <1>4, <2>1 DEF CallsSound, Waiting, Object, Kind, Answer
  <2>4. TypeOK'
    BY <2>2, <2>3 DEF TypeOK
  <2>5. ObjectsSound'
    BY <2>1, <2>2, <2>3 DEF ObjectsSound, Sound, TypeOK
  <2>6. CallsSound'
    BY <2>2 DEF CallsSound, Sound, TypeOK
  <2> QED
    BY <2>4, <2>5, <2>6
<1>5. ASSUME NEW p \in Process, Raise(p) PROVE IInv'
  BY <1>5 DEF Raise, TypeOK, ObjectsSound, CallsSound, Sound
<1>6. ASSUME NEW p \in Process, NEW o \in objects[p],
             NEW makes \in {"nothing", "reader"}, makes = "reader" => o.kind = "client",
             Attempt(p, o, makes)
      PROVE  IInv'
  <2>1. CASE ~Check(p, o)
    BY <1>5, <1>6, <2>1 DEF Attempt
  <2>2. CASE Check(p, o)
    <3>1. o \in Object
      BY DEF TypeOK
    <3>2. o.kind \in FromClient => Sound(o) /\ o.pid = p
      BY <2>2 DEF ObjectsSound, Check, FromClient, Guarded
    <3>3. TypeOK'
      BY <1>6, <2>2, <3>1 DEF Attempt, TypeOK, WaitFor, Waiting, Object
    <3>4. ObjectsSound'
      BY <1>6, <2>2 DEF Attempt, ObjectsSound, Sound
    <3>5. CallsSound'
      BY <1>6, <2>2, <3>1, <3>2
      DEF Attempt, CallsSound, Sound, WaitFor, Ready, TypeOK, FromClient, Object
    <3> QED
      BY <3>3, <3>4, <3>5
  <2> QED
    BY <2>1, <2>2
<1>7. ASSUME NEW p \in Process, NEW o \in objects[p],
             NEW kind \in {"scan", "state", "context"},
             Keep(p, [o EXCEPT !.kind = kind]),
             UNCHANGED <<alive, runtime, bridge, call>>
      PROVE  IInv'
  <2>1. o \in Object
    BY DEF TypeOK
  <2>2. /\ [o EXCEPT !.kind = kind] \in Object
        /\ [o EXCEPT !.kind = kind].kind \notin FromClient
    BY <2>1 DEF Object, Kind, FromClient
  <2>3. TypeOK'
    BY <1>7, <2>2 DEF TypeOK, Keep
  <2>4. ObjectsSound'
    BY <1>7, <2>2 DEF ObjectsSound, Sound, Keep, TypeOK
  <2>5. CallsSound'
    BY <1>7 DEF CallsSound, Sound
  <2> QED
    BY <2>3, <2>4, <2>5
<1>8. ASSUME NEW p \in Process, NEW o \in objects[p], NEW kind \in {"scan", "state"},
             Derive(p, o, kind)
      PROVE  IInv'
  BY <1>5, <1>7, <1>8 DEF Derive
<1>9. ASSUME NEW p \in Process, NEW o \in objects[p],
             \/ ClientCall(p, o) \/ Request(p, o) \/ Read(p, o) \/ ContextCall(p, o)
             \/ StateCall(p, o) \/ Pull(p, o) \/ AdminCall(p, o) \/ OpenReader(p, o)
      PROVE  IInv'
  BY <1>6, <1>9
  DEF ClientCall, Request, Read, ContextCall, StateCall, Pull, AdminCall, OpenReader
<1>10. ASSUME NEW p \in Process, NEW o \in objects[p],
              ReaderScan(p, o) \/ Vend(p, o) \/ StateScan(p, o)
       PROVE  IInv'
  BY <1>8, <1>10 DEF ReaderScan, Vend, StateScan
<1>11. ASSUME NEW p \in Process, NEW o \in objects[p], HandleEvent(p, o) PROVE IInv'
  BY <1>7, <1>11 DEF HandleEvent
<1>12. CASE UNCHANGED vars
  BY <1>12 DEF vars, TypeOK, ObjectsSound, CallsSound, Sound
<1> QED
  BY <1>1, <1>2, <1>3, <1>4, <1>9, <1>10, <1>11, <1>12 DEF Next

(* The variables keep their types: every waiting call holds a bridge.      *)
THEOREM ForkTypes == Spec => []TypeOK
<1>1. IInv => TypeOK
  BY DEF IInv
<1> QED
  BY InitIInv, Step, <1>1, PTL DEF Spec

(* A call of a client or of a reader that waits is answered, in any family *)
(* of processes: ForkGuard::check is enough for what came out of an        *)
(* answered call.                                                          *)
THEOREM ClientsAnswered == Spec => []GuardedAnswered
<1>1. IInv => GuardedAnswered
  <2> SUFFICES ASSUME IInv, NEW p \in Process, Blocked(p), call[p].on \in FromClient
               PROVE  FALSE
    BY DEF GuardedAnswered, FromClient
  <2> QED
    BY DEF IInv, CallsSound, Sound, Blocked, Answerable
<1> QED
  BY InitIInv, Step, <1>1, PTL DEF Spec
=============================================================================
