------------------------------ MODULE CommandQueue ------------------------------
(***************************************************************************)
(* What the bridge promises everybody who hands it a closure: the closures *)
(* run one at a time, each at most once, in the order they were sent, and  *)
(* when the Ruby side is gone all that have not run are given up together. *)
(***************************************************************************)
EXTENDS Naturals, Sequences

CONSTANT Commands

VARIABLES
    pending,    \* sent and not yet run, in order
    performed,  \* run to completion, in order
    open        \* the Ruby side is there

vars == <<pending, performed, open>>

Elements(s) == {s[i] : i \in DOMAIN s}

Init ==
    /\ pending = <<>>
    /\ performed = <<>>
    /\ open = TRUE

Send(c) ==
    /\ open
    /\ c \notin Elements(pending) \cup Elements(performed)
    /\ pending' = Append(pending, c)
    /\ UNCHANGED <<performed, open>>

Perform ==
    /\ pending # <<>>
    /\ performed' = Append(performed, Head(pending))
    /\ pending' = Tail(pending)
    /\ UNCHANGED open

Close ==
    /\ open
    /\ open' = FALSE
    /\ pending' = <<>>
    /\ UNCHANGED performed

Next == (\E c \in Commands : Send(c)) \/ Perform \/ Close

Spec == Init /\ [][Next]_vars

================================================================================
