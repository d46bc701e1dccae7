----------------------------- MODULE LossyChannel ------------------------------
(***************************************************************************)
(* What a best effort topic promises between one writer and one receiver:  *)
(* what is received was sent, in the order of sending and at most once;    *)
(* anything may be missing.                                                *)
(***************************************************************************)
EXTENDS Naturals

CONSTANT First   \* what the writer sent when it was created

VARIABLES
  sent,   \* number of the last item sent
  got     \* number of the item received last, 0 before the first

vars == <<sent, got>>

Init == sent = First /\ got = 0

Send == sent' = sent + 1 /\ UNCHANGED got

Receive == got' \in (got + 1)..sent /\ UNCHANGED sent

Next == Send \/ Receive

Spec == Init /\ [][Next]_vars

================================================================================
