---------------------------- MODULE ThreadSafeValues ----------------------------
(***************************************************************************)
(* util.rs: a Ruby value that Rust holds is unregistered only on a Ruby    *)
(* thread.  Dropped elsewhere it travels to the bridge in a closure of its *)
(* own; when the bridge is gone it is leaked with a warning, which is a    *)
(* line for Logging.  This module completes Logging: it says how every     *)
(* Send of the bridge comes about.                                         *)
(***************************************************************************)
EXTENDS Logging

VARIABLES
    holder,    \* who holds a value: Rust, a closure, nobody, or a leak
    releases   \* times rb_gc_unregister_address was called for it (capped at 2)

valueVars == <<holder, releases>>
allVars == <<vars, logVars, valueVars>>

AllInit ==
    /\ Init
    /\ LogInit
    /\ holder = [v \in Sends |-> "rust"]
    /\ releases = [v \in Sends |-> 0]

--------------------------------------------------------------------------------
(* RubyDrop::drop on a Ruby thread, for a set of values.                   *)
Release(vs) ==
    /\ holder' = [v \in Sends |-> IF v \in vs THEN "none" ELSE holder[v]]
    /\ releases' = [v \in Sends |-> IF v \in vs /\ releases[v] < 2 THEN releases[v] + 1
                                                                   ELSE releases[v]]

DropOnRubyThread(v) ==
    /\ holder[v] = "rust"
    /\ Release({v})
    /\ UNCHANGED <<vars, logVars>>

(* Faulty variant: the failed send is ignored and the closure forgotten.   *)
DropElsewhereForgets(v) ==
    /\ holder[v] = "rust"
    /\ Send(v)
    /\ holder' = [holder EXCEPT ![v] = "closure"]
    /\ UNCHANGED <<releases, logVars>>

(* The SendError owns the closure and drops it here, on a tokio thread.    *)
DropElsewhere(v) ==
    /\ holder[v] = "rust"
    /\ Send(v)
    /\ holder' = [holder EXCEPT ![v] = IF Alive THEN "closure" ELSE "leaked"]
    /\ IF Alive THEN UNCHANGED logVars ELSE Emit(Line(v))
    /\ UNCHANGED releases

(* A closure that ran has dropped the value it owned.                      *)
ExecuteClosure ==
    /\ ExecuteLogged
    /\ Release({Head(batch)} \cap Sends)

(* Faulty variant: the unwinding thread leaks what it holds.               *)
PanicLeaksValues ==
    /\ Panic
    /\ holder' = [v \in Sends |-> IF holder[v] = "closure" THEN "leaked" ELSE holder[v]]
    /\ UNCHANGED <<releases, logVars>>

(* The unwinding bridge thread is a Ruby thread: what it drops is released. *)
PanicReleases ==
    /\ Panic
    /\ Release(ToSet(batch \o chan) \cap Sends)
    /\ UNCHANGED logVars

AllNext ==
    \/ \E v \in Sends : DropOnRubyThread(v) \/ DropElsewhere(v)
    \/ ExecuteClosure
    \/ PanicReleases
    \/ (\E w \in Waits : FutureResolvesLogged(w)) /\ UNCHANGED valueVars
    \/ PollCancelledLogged /\ UNCHANGED valueVars
    \/ QuietBridge /\ UNCHANGED <<logVars, valueVars>>
    \/ LogStep /\ UNCHANGED valueVars

AllSpec == AllInit /\ [][AllNext]_allVars

(* The bridge thread keeps polling and running, resolved oneshots and      *)
(* filled queues wake their waiters, and the task of the logger is polled. *)
(* Futures, drops and events may never come.                               *)
AllFairness ==
    /\ WF_allVars((TakeFirst \/ TakeNext \/ StopCollecting) /\ UNCHANGED <<logVars, valueVars>>)
    /\ WF_allVars(ExecuteClosure)
    /\ \A r \in Calls : WF_allVars(RunResolves(r) /\ UNCHANGED <<logVars, valueVars>>)
    /\ \A w \in Waits : WF_allVars(WaitReturns(w) /\ UNCHANGED <<logVars, valueVars>>)
    /\ WF_allVars(LogTask /\ UNCHANGED valueVars)

AllFairSpec == AllSpec /\ AllFairness

--------------------------------------------------------------------------------
(* Properties.                                                             *)

(* A value is released at most once and never after it was leaked, and     *)
(* until then exactly one owner has it: a closure that holds a value is in *)
(* the bridge's hands.                                                     *)
OneOwner ==
    \A v \in Sends :
        /\ releases[v] = (IF holder[v] = "none" THEN 1 ELSE 0)
        /\ holder[v] = "closure" <=> v \in ToSet(batch \o chan)

(* A value dropped on a tokio thread is released, even if the bridge dies  *)
(* with it; it is leaked only if the bridge was dead before.               *)
DroppedReleased ==
    \A v \in Sends : holder[v] = "closure" ~> releases[v] = 1

================================================================================
