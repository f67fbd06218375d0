---------------------------- MODULE MCForkSafety ----------------------------
(* A parent and a child for TLC; the theorem covers larger families.       *)
EXTENDS ForkSafety

MCProcess == {"parent", "child"}
=============================================================================
