-------------------------- MODULE MCClientLifecycle --------------------------
(* Three concurrent calls for TLC.                                         *)
EXTENDS ClientLifecycle

MCCall == {"c1", "c2", "c3"}
MCInitial == {"unconfigured", "configured"}
=============================================================================
