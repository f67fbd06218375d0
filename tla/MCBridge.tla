-------------------------------- MODULE MCBridge --------------------------------
(***************************************************************************)
(* An instance of the bridge and its users for TLC: calls of every kind,   *)
(* the lines they can make, and more closures than one batch takes.        *)
(***************************************************************************)
EXTENDS ThreadSafeValues

CONSTANTS r1, w1, s1

MCRuns == Calls \cup Lines

================================================================================
