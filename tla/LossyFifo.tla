------------------------------- MODULE LossyFifo -------------------------------
(***************************************************************************)
(* What a topic that transports its data "via a fifo queue" promises when  *)
(* the queue is bounded: a reader gets the data in the order in which they *)
(* were written, each at most once, and a write may push out the oldest.   *)
(***************************************************************************)
EXTENDS Naturals, Sequences

VARIABLES
  queue,      \* written and neither read nor pushed out, oldest first
  written,    \* number of the last write
  last        \* number of the write read last, 0 before the first

vars == <<queue, written, last>>

Init == queue = <<>> /\ written = 0 /\ last = 0

(* Any number of the oldest are pushed out. *)
Write ==
  /\ written' = written + 1
  /\ \E k \in 1..(Len(queue) + 1) :
       queue' = Append(SubSeq(queue, k, Len(queue)), written + 1)
  /\ UNCHANGED last

Read ==
  /\ queue # <<>>
  /\ last' = Head(queue)
  /\ queue' = Tail(queue)
  /\ UNCHANGED written

Next == Write \/ Read

Spec == Init /\ [][Next]_vars

(* The data are read in the order of the writes, none of them twice. *)
ReadInOrder == [][last' # last => last' > last]_vars

================================================================================
