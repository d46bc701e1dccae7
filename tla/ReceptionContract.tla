--------------------------- MODULE ReceptionContract ---------------------------
(***************************************************************************)
(* What startBlockingReception and stopBlockingReception promise to the    *)
(* thread that owns the simulation bus, whatever the reception thread does *)
(* in between: every call that was given a preparation callback invokes it *)
(* exactly once before it returns, and a call is still running when it is  *)
(* told to stop or has already announced that it is prepared.              *)
(***************************************************************************)
EXTENDS Naturals

VARIABLES
  active,     \* a call of startBlockingReception has not returned yet
  asked,      \* the call was given a preparation callback
  calls,      \* invocations of that callback during the call
  stopping    \* stopBlockingReception was called for this call

vars == <<active, asked, calls, stopping>>

Init ==
  /\ active = FALSE
  /\ asked = FALSE
  /\ calls = 0
  /\ stopping = FALSE

Begin(cb) ==
  /\ ~active
  /\ active' = TRUE
  /\ asked' = cb
  /\ calls' = 0
  /\ stopping' = FALSE

(* The callback, if there is one, is still owed and is paid now. *)
Announce ==
  /\ active
  /\ asked
  /\ calls = 0
  /\ calls' = 1
  /\ UNCHANGED <<active, asked, stopping>>

(* The owner asks for the end; with a callback it does so only after it. *)
RequestStop ==
  /\ ~stopping
  /\ asked => calls = 1
  /\ stopping' = TRUE
  /\ UNCHANGED <<active, asked, calls>>

(* A stopped call has told its owner before it returns; so has one that ends *)
(* without a request (no collection, or the preparation threw).              *)
End ==
  /\ active
  /\ active' = FALSE
  /\ calls' = IF asked THEN 1 ELSE 0
  /\ UNCHANGED <<asked, stopping>>

(* The owner has joined the thread and may start again. *)
Joined ==
  /\ ~active
  /\ stopping
  /\ stopping' = FALSE
  /\ UNCHANGED <<active, asked, calls>>

Next ==
  \/ \E cb \in BOOLEAN : Begin(cb)
  \/ Announce
  \/ RequestStop
  \/ End
  \/ Joined

Spec == Init /\ [][Next]_vars

================================================================================
