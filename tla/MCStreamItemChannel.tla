-------------------------- MODULE MCStreamItemChannel --------------------------
(* A small instance of StreamItemChannel for TLC: seconds of ten nanoseconds,  *)
(* of which sixteen fit into a time stamp.  The first sample is within its       *)
(* second, the second on the last nanosecond that fits, the third beyond.      *)
EXTENDS StreamItemChannel

MCTime == <<14, 159, 160>>
================================================================================
