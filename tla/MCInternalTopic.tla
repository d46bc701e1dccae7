---------------------------- MODULE MCInternalTopic ----------------------------
(* Small instances of InternalTopic for TLC. *)
EXTENDS InternalTopic
================================================================================
