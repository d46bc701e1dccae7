-------------------------- MODULE MCBlockingReception --------------------------
(* Small instances of BlockingReception for TLC. *)
EXTENDS BlockingReception, TLC

(* The readers are interchangeable, and so are the receivers: sound for the   *)
(* runs that check safety only.                                               *)
Symmetry == Permutations(Readers) \cup Permutations(Receivers)

================================================================================
