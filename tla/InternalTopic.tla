----------------------------- MODULE InternalTopic -----------------------------
(***************************************************************************)
(* InternalTopic: the topic that publishes the bus information inside the  *)
(* process.  One queue under a mutex, written by the callback of BusInfo   *)
(* and read by every InternalReader that was created for the topic.  A     *)
(* read checks the size and takes the front in two critical sections.      *)
(***************************************************************************)
EXTENDS Integers, Sequences

CONSTANTS
  Readers,    \* threads that pop, each through its InternalReader
  Limit,      \* the literal 10 of InternalTopic::write
  MaxWrites   \* bound: writes in all

ASSUME TopicAssumption == Limit \in Nat /\ MaxWrites \in Nat

VARIABLES
  queue,      \* _queue: the numbers of the writes
  written,    \* number of the last write
  pc,         \* per reader: "out", or "popping" after the check of the size
  last,       \* what a receiver was given last, 0 for nothing
  broken      \* front or pop was called on an empty queue: undefined behaviour

vars == <<queue, written, pc, last, broken>>

Init ==
  /\ queue = <<>>
  /\ written = 0
  /\ pc = [r \in Readers |-> "out"]
  /\ last = 0
  /\ broken = FALSE

(* mutant: the size is compared after the push *)
MutTrimmed(q) == q

(* mutant: while (size >= limit) pop *)
MutTrimmedEarly(q) == IF Len(q) >= Limit THEN SubSeq(q, Len(q) - Limit + 2, Len(q)) ELSE q

(* while (size > limit) pop *)
Trimmed(q) == IF Len(q) > Limit THEN SubSeq(q, Len(q) - Limit + 1, Len(q)) ELSE q

Write ==
  /\ ~broken
  /\ written < MaxWrites
  /\ written' = written + 1
  /\ queue' = Append(Trimmed(queue), written + 1)
  /\ UNCHANGED <<pc, last, broken>>

(* if (size() > 0): the mutex is free again when the body begins. *)
PopChecksSize(r) ==
  /\ ~broken
  /\ pc[r] = "out"
  /\ queue # <<>>
  /\ pc' = [pc EXCEPT ![r] = "popping"]
  /\ UNCHANGED <<queue, written, last, broken>>

(* mutant: the newest entry is taken *)
MutPopTakesBack(r) ==
  /\ ~broken
  /\ pc[r] = "popping"
  /\ queue # <<>>
  /\ pc' = [pc EXCEPT ![r] = "out"]
  /\ last' = queue[Len(queue)]
  /\ queue' = SubSeq(queue, 1, Len(queue) - 1)
  /\ UNCHANGED <<written, broken>>

(* front, pop and the call of the receiver, under the mutex. *)
PopTakesFront(r) ==
  /\ ~broken
  /\ pc[r] = "popping"
  /\ queue # <<>>
  /\ pc' = [pc EXCEPT ![r] = "out"]
  /\ last' = Head(queue)
  /\ queue' = Tail(queue)
  /\ UNCHANGED <<written, broken>>

(* Another reader emptied the queue: the receiver is given anything that may  *)
(* lie in the storage, and nothing can be said of the queue any more.         *)
PopFromEmptyQueue(r) ==
  /\ ~broken
  /\ pc[r] = "popping"
  /\ queue = <<>>
  /\ last' \in 0..written
  /\ broken' = TRUE
  /\ UNCHANGED <<queue, written, pc>>

Pop(r) == PopChecksSize(r) \/ PopTakesFront(r) \/ PopFromEmptyQueue(r)

Next == Write \/ \E r \in Readers : Pop(r)

Spec == Init /\ [][Next]_vars

--------------------------------------------------------------------------------
(* Properties *)

(* Every variable keeps its type; with more than Limit entries left over a    *)
(* write drops entries before it adds one.                                    *)
TypeOK ==
  /\ queue \in Seq(1..written)
  /\ Len(queue) <= Limit + 1
  /\ written \in Nat
  /\ pc \in [Readers -> {"out", "popping"}]
  /\ last \in 0..written
  /\ broken \in BOOLEAN

(* The size a reader checked is still positive when it takes the front.       *)
NeverPopsEmpty == ~broken /\ \A r \in Readers : pc[r] = "popping" => queue # <<>>

(* "Data will be transported via a fifo queue". *)
Fifo == INSTANCE LossyFifo

ImplementsFifo == Fifo!Spec

(* What the receivers of all readers are given comes in the order of the      *)
(* writes, nothing twice, as long as no reader met an empty queue: the front  *)
(* is handed out before the mutex is released.                                *)
ReadInOrder == [][last' # last /\ ~broken' => last' > last]_vars

(* A reader that finds entries skipped has Limit newer ones behind the one it *)
(* is given: nothing is pushed out of a queue that is not full, and readers   *)
(* that keep up get all.                                                      *)
NoEarlyLoss ==
  [][last' # last /\ ~broken' => last' = last + 1 \/ last' + Limit <= written]_vars

================================================================================
