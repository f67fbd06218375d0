--------------------------------- MODULE Deques ---------------------------------
(***************************************************************************)
(* One deque of keyed state: the attempt that owns its key changes it      *)
(* through DequeState, one operation at a time, and readers elsewhere read *)
(* what is committed through PublishedDeque.  The store and its            *)
(* transaction are the core's; caches, capacity and TTL are left out.      *)
(*                                                                         *)
(* Elements are numbered as they are made, so that every one is different. *)
(***************************************************************************)
EXTENDS Integers, Sequences

CONSTANTS
    MaxElements,   \* bound on the elements ever pushed
    OwnedIndexes,  \* indexes the handler reads at
    ReadIndexes    \* indexes readers read at

ASSUME DequesAssumption ==
    /\ MaxElements \in Nat
    /\ OwnedIndexes \subseteq Int
    /\ ReadIndexes \subseteq Int

VARIABLES
    deque,      \* the deque as the attempt sees it
    committed,  \* the deque as it is stored
    made,       \* elements pushed so far
    reads,      \* one read each of the handler and of a reader
    right       \* what would have been right to answer since the read began

dequeVars == <<deque, committed, made, reads, right>>

Nothing == 0   \* nil: no element, and no length read
Element == 1 .. MaxElements

(* Who reads: the handler its own view, a reader what is committed.        *)
Readers == {"handler", "reader"}
View(d, c) == [handler |-> d, reader |-> c]
Indexes == [handler |-> OwnedIndexes, reader |-> ReadIndexes]

Idle == [at |-> "idle"]

--------------------------------------------------------------------------------
(* The native operations on a deque q.                                     *)
NativeGet(q, index) == IF index < Len(q) THEN q[index + 1] ELSE Nothing
PeekBack(q) == IF q = << >> THEN Nothing ELSE q[Len(q)]

(* What get is documented to answer: -n is the nth from the end.           *)
ElementAt(q, index) ==
    CASE index >= 0 /\ index < Len(q) -> q[index + 1]
      [] index < 0 /\ -index <= Len(q) -> q[Len(q) + index + 1]
      [] OTHER -> Nothing

(* A change of the deque is one more moment for every read under way.      *)
Moves(d, c) ==
    /\ deque' = d
    /\ committed' = c
    /\ right' = [r \in Readers |->
                    IF reads[r].at = "length"
                    THEN right[r] \cup {ElementAt(View(d, c)[r], reads[r].index)}
                    ELSE right[r]]

--------------------------------------------------------------------------------
(* The attempt.  Its fiber waits for each operation, so none begins while  *)
(* it is between the two steps of a read.                                  *)
Attempt == reads["handler"].at # "length"

Push ==
    /\ Attempt
    /\ made < MaxElements
    /\ made' = made + 1
    /\ Moves(Append(deque, made + 1), committed)
    /\ UNCHANGED reads

Unshift ==
    /\ Attempt
    /\ made < MaxElements
    /\ made' = made + 1
    /\ Moves(<<made + 1>> \o deque, committed)
    /\ UNCHANGED reads

Pop ==
    /\ Attempt
    /\ deque # << >>
    /\ Moves(SubSeq(deque, 1, Len(deque) - 1), committed)
    /\ UNCHANGED <<made, reads>>

Shift ==
    /\ Attempt
    /\ deque # << >>
    /\ Moves(Tail(deque), committed)
    /\ UNCHANGED <<made, reads>>

Clear ==
    /\ Attempt
    /\ Moves(<< >>, committed)
    /\ UNCHANGED <<made, reads>>

(* commit and rollback; the end of an attempt does the one or the other.   *)
Commit ==
    /\ Attempt
    /\ Moves(deque, deque)
    /\ UNCHANGED <<made, reads>>

Rollback ==
    /\ Attempt
    /\ Moves(committed, committed)
    /\ UNCHANGED <<made, reads>>

--------------------------------------------------------------------------------
(* get: at_negative of DequeState, which PublishedDeque repeats.           *)

Answer(r, index, value, asOf) ==
    /\ reads' = [reads EXCEPT ![r] = [at |-> "done", index |-> index, value |-> value]]
    /\ right' = [right EXCEPT ![r] = asOf]

(* A position from the front and the back element take one operation.      *)
GetDirectly(r, index) ==
    LET q == View(deque, committed)[r]
    IN  /\ reads[r].at # "length"
        /\ index >= -1
        /\ Answer(r, index, IF index = -1 THEN PeekBack(q) ELSE NativeGet(q, index),
                  {ElementAt(q, index)})
        /\ UNCHANGED <<deque, committed, made>>

(* Every other position reads the length first.                            *)
GetLength(r, index) ==
    LET q == View(deque, committed)[r]
    IN  /\ reads[r].at # "length"
        /\ index < -1
        /\ reads' = [reads EXCEPT ![r] = [at |-> "length", index |-> index, len |-> Len(q)]]
        /\ right' = [right EXCEPT ![r] = {ElementAt(q, index)}]
        /\ UNCHANGED <<deque, committed, made>>

\* Faulty variant: an index before the front reads the front.
ResolvedClamped(read) == IF read.len + read.index < 0 THEN 0 ELSE read.len + read.index

Resolved(read) == read.len + read.index

GetResolved(r) ==
    LET q == View(deque, committed)[r]
        index == Resolved(reads[r])
    IN  /\ reads[r].at = "length"
        /\ Answer(r, reads[r].index, IF index < 0 THEN Nothing ELSE NativeGet(q, index),
                  right[r])
        /\ UNCHANGED <<deque, committed, made>>

--------------------------------------------------------------------------------
DequesInit ==
    /\ deque = << >>
    /\ committed = << >>
    /\ made = 0
    /\ reads = [r \in Readers |-> Idle]
    /\ right = [r \in Readers |-> {}]

DequesNext ==
    \/ Push \/ Unshift \/ Pop \/ Shift \/ Clear \/ Commit \/ Rollback
    \/ \E r \in Readers :
          \/ \E index \in Indexes[r] : GetDirectly(r, index) \/ GetLength(r, index)
          \/ GetResolved(r)

DequesSpec == DequesInit /\ [][DequesNext]_dequeVars

--------------------------------------------------------------------------------
(* What get answers is the element that was at the index, counted from the *)
(* end if it is negative, at some moment between its beginning and its end *)
(* (deque.rb:61, 202); for the handler that is the only moment there is,   *)
(* because the deque has a single writer per attempt.                      *)
AnsweredAsOfSomeMoment ==
    \A r \in Readers : reads[r].at = "done" => reads[r].value \in right[r]
================================================================================
