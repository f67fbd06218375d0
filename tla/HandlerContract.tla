---------------------------- MODULE HandlerContract ----------------------------
(***************************************************************************)
(* What the Ruby handler promises the Prosody core, with no bridge, queue  *)
(* or fiber in sight.  The core offers an event by polling the future of   *)
(* on_message, on_excise or on_timer; the user's code for it runs at most  *)
(* once; the future settles with a verdict that tells the truth about how  *)
(* that code ended, and never while the code waits or runs.                *)
(*                                                                         *)
(* The promise has one exception.  The way into Ruby may be lost, for good *)
(* and for every event; then the future of an event that the core          *)
(* cancelled may give up on its code and report a transient failure        *)
(* whatever becomes of it, and no code of a later event gets in.           *)
(***************************************************************************)
CONSTANTS
    Events,     \* the events the core offers, each offered once
    Key,        \* Key[e] is the key the core serialises e under
    Replying,   \* events whose producer asked for the handler's result
    Internal    \* timers of the core's own middleware

VARIABLES
    phase,      \* where the future of an event stands
    code,       \* how far the user's code for an event got
    verdict,    \* what the settled future told the core
    cancelled,  \* the core wants the event to end early
    reachable   \* whether there is a way into Ruby

vars == <<phase, code, verdict, cancelled, reachable>>

Phases == {"idle", "pending", "settled", "dropped"}
Endings == {"returned", "transient", "permanent", "stopped", "fatal"}
Codes == {"none", "queued", "running"} \cup Endings
Verdicts == {"none", "ok", "transient", "permanent"}

(* The verdicts that are honest about an ending.  A reply with no JSON     *)
(* form is a handler mistake and retried; a permanent error whose report   *)
(* was lost is retried too; everything that did not end well is retried.   *)
Honest(e, ending) ==
    CASE ending = "returned"  -> IF e \in Replying THEN {"ok", "transient"} ELSE {"ok"}
      [] ending = "permanent" -> {"permanent", "transient"}
      [] OTHER                -> {"transient"}

Init ==
    /\ phase = [e \in Events |-> "idle"]
    /\ code = [e \in Events |-> "none"]
    /\ verdict = [e \in Events |-> "none"]
    /\ cancelled = [e \in Events |-> FALSE]
    /\ reachable = TRUE

(* The core offers e: no other event of its key is in the handler.         *)
Accept(e) ==
    /\ phase[e] = "idle"
    /\ e \notin Internal
    /\ \A d \in Events : Key[d] = Key[e] => phase[d] # "pending"
    /\ phase' = [phase EXCEPT ![e] = "pending"]
    /\ UNCHANGED <<code, verdict, cancelled, reachable>>

(* A middleware timer is acknowledged without running any code.            *)
Skip(e) ==
    /\ phase[e] = "idle"
    /\ e \in Internal
    /\ phase' = [phase EXCEPT ![e] = "settled"]
    /\ verdict' = [verdict EXCEPT ![e] = "ok"]
    /\ UNCHANGED <<code, cancelled, reachable>>

(* The user's code is handed to Ruby, once, for a future that has not      *)
(* settled; the core may have dropped it.                                  *)
Hand(e) ==
    /\ reachable
    /\ phase[e] \in {"pending", "dropped"}
    /\ code[e] = "none"
    /\ code' = [code EXCEPT ![e] = "queued"]
    /\ UNCHANGED <<phase, verdict, cancelled, reachable>>

Start(e) ==
    /\ code[e] = "queued"
    /\ code' = [code EXCEPT ![e] = "running"]
    /\ UNCHANGED <<phase, verdict, cancelled, reachable>>

End(e) ==
    /\ code[e] = "running"
    /\ \E ending \in Endings : code' = [code EXCEPT ![e] = ending]
    /\ UNCHANGED <<phase, verdict, cancelled, reachable>>

(* The future settles: the code has ended, or was refused and never starts. *)
Settle(e) ==
    /\ phase[e] = "pending"
    /\ code[e] \notin {"queued", "running"}
    /\ phase' = [phase EXCEPT ![e] = "settled"]
    /\ \E v \in Honest(e, code[e]) : verdict' = [verdict EXCEPT ![e] = v]
    /\ UNCHANGED <<code, cancelled, reachable>>

(* The core drops the future before it settles.                            *)
Abandon(e) ==
    /\ phase[e] = "pending"
    /\ phase' = [phase EXCEPT ![e] = "dropped"]
    /\ UNCHANGED <<code, verdict, cancelled, reachable>>

(* The core asks for an early end; what comes of it is up to the code.     *)
Cancel(e) ==
    /\ phase[e] = "pending"
    /\ ~cancelled[e]
    /\ cancelled' = [cancelled EXCEPT ![e] = TRUE]
    /\ UNCHANGED <<phase, code, verdict, reachable>>

(* The way into Ruby is lost.                                              *)
Lose ==
    /\ reachable
    /\ reachable' = FALSE
    /\ UNCHANGED <<phase, code, verdict, cancelled>>

(* The future settles without its code, which may be anywhere.             *)
GiveUp(e) ==
    /\ ~reachable
    /\ cancelled[e]
    /\ phase[e] = "pending"
    /\ phase' = [phase EXCEPT ![e] = "settled"]
    /\ verdict' = [verdict EXCEPT ![e] = "transient"]
    /\ UNCHANGED <<code, cancelled, reachable>>

EventNext(e) ==
    \/ Accept(e) \/ Skip(e) \/ Hand(e) \/ Start(e) \/ End(e)
    \/ Settle(e) \/ Abandon(e) \/ Cancel(e) \/ GiveUp(e)

Next == Lose \/ \E e \in Events : EventNext(e)

Spec == Init /\ [][Next]_vars

================================================================================
