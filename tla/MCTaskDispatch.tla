----------------------------- MODULE MCTaskDispatch -----------------------------
(***************************************************************************)
(* Instances of TaskDispatch for TLC: two events of one key, the first of  *)
(* which may ask for a reply, an event of another key, a middleware timer. *)
(***************************************************************************)
EXTENDS TaskDispatch

CONSTANTS a1, a2, b1, i1

MCKey == [t \in Tasks |-> IF t = b1 THEN "kb" ELSE "ka"]

================================================================================
