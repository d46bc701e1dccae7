-------------------------- MODULE InternalTopicProofs --------------------------
(***************************************************************************)
(* What TLAPS proves of InternalTopic: for every limit of the queue and    *)
(* every number of writes.                                                 *)
(***************************************************************************)
EXTENDS InternalTopic, SequenceTheorems, TLAPS

(* The queue holds the last writes without a gap, and what was read last is   *)
(* older than all of them.                                                    *)
Consecutive ==
  /\ \A i \in 1..Len(queue) : queue[i] = written - Len(queue) + i
  /\ ~broken => last <= written - Len(queue)

IInv == TypeOK /\ Consecutive

--------------------------------------------------------------------------------

(* Trimming leaves at most Limit entries, the newest. *)
LEMMA TrimmedProperties ==
  ASSUME NEW S, NEW q \in Seq(S)
  PROVE  /\ Trimmed(q) \in Seq(S)
         /\ Len(Trimmed(q)) <= Limit
         /\ Len(Trimmed(q)) <= Len(q)
         /\ Len(Trimmed(q)) # Len(q) => Len(Trimmed(q)) = Limit
         /\ \A i \in 1..Len(Trimmed(q)) :
              Trimmed(q)[i] = q[Len(q) - Len(Trimmed(q)) + i]
         /\ \E k \in 1..(Len(q) + 1) : Trimmed(q) = SubSeq(q, k, Len(q))
<1>0. Limit \in Nat /\ Len(q) \in Nat
  BY TopicAssumption, LenProperties
<1>1. CASE Len(q) > Limit
  <2> DEFINE k == Len(q) - Limit + 1
  <2>1. k \in 1..(Len(q) + 1) /\ k \in Int /\ Len(q) - k + 1 = Limit
    BY <1>0, <1>1
  <2>2. Trimmed(q) = SubSeq(q, k, Len(q))
    BY <1>1 DEF Trimmed
  <2>3. \A i \in k..Len(q) : q[i] \in S
    BY <1>0, <2>1, ElementOfSeq
  <2>4. /\ SubSeq(q, k, Len(q)) \in Seq(S)
        /\ Len(SubSeq(q, k, Len(q))) = IF k <= Len(q) THEN Len(q) - k + 1 ELSE 0
        /\ \A i \in 1..(Len(q) - k + 1) : SubSeq(q, k, Len(q))[i] = q[k + i - 1]
    BY <1>0, <2>1, <2>3, SubSeqProperties
  <2>5. Len(Trimmed(q)) = Limit
    BY <1>0, <1>1, <2>1, <2>2, <2>4
  <2>6. \A i \in 1..Limit : Trimmed(q)[i] = q[Len(q) - Limit + i]
    BY <1>0, <2>1, <2>2, <2>4
  <2>7. Trimmed(q) \in Seq(S)
    BY <2>2, <2>4
  <2>8. \E m \in 1..(Len(q) + 1) : Trimmed(q) = SubSeq(q, m, Len(q))
    BY <2>1, <2>2
  <2>9. Len(Trimmed(q)) <= Limit /\ Len(Trimmed(q)) <= Len(q)
    BY <1>0, <1>1, <2>5
  <2> QED
    BY <2>5, <2>6, <2>7, <2>8, <2>9
<1>2. CASE ~(Len(q) > Limit)
  <2>1. Trimmed(q) = q
    BY <1>2 DEF Trimmed
  <2>2. SubSeq(q, 1, Len(q)) = q
    BY SubSeqFull
  <2> QED
    BY <1>0, <1>2, <2>1, <2>2
<1> QED
  BY <1>1, <1>2

LEMMA InitIInv == Init => IInv
<1> SUFFICES ASSUME Init
             PROVE  IInv
  OBVIOUS
<1>1. queue = <<>> /\ queue \in Seq(1..written) /\ Len(queue) = 0
  BY EmptySeq DEF Init
<1>2. TypeOK
  <2>1. Len(queue) <= Limit + 1 /\ written \in Nat /\ last \in 0..written
    BY <1>1, TopicAssumption DEF Init
  <2>2. pc \in [Readers -> {"out", "popping"}] /\ broken \in BOOLEAN
    BY DEF Init
  <2> QED
    BY <1>1, <2>1, <2>2 DEF TypeOK
<1>3. Consecutive
  BY <1>1 DEF Init, Consecutive
<1> QED
  BY <1>2, <1>3 DEF IInv

LEMMA WriteStep ==
  ASSUME IInv, Write
  PROVE  IInv'
<1> DEFINE q == Trimmed(queue)
<1> USE DEF IInv, TypeOK, Consecutive
<1>1. Limit \in Nat /\ Len(queue) \in Nat /\ written \in Nat
  BY TopicAssumption, LenProperties
<1>2. /\ q \in Seq(1..written) /\ Len(q) <= Limit /\ Len(q) <= Len(queue)
      /\ \A i \in 1..Len(q) : q[i] = queue[Len(queue) - Len(q) + i]
  BY TrimmedProperties
<1>3. written' = written + 1 /\ queue' = Append(q, written + 1)
  BY DEF Write
<1>4. q \in Seq(1..written') /\ written' \in 1..written' /\ Len(q) \in Nat
  BY <1>1, <1>2, <1>3, SeqMonotonic, LenProperties
<1>5. /\ queue' \in Seq(1..written')
      /\ Len(queue') = Len(q) + 1
      /\ \A i \in 1..Len(q) : queue'[i] = q[i]
      /\ queue'[Len(q) + 1] = written'
  BY <1>3, <1>4, AppendProperties
<1>6. ASSUME NEW i \in 1..Len(q)
      PROVE  q[i] = written - Len(q) + i
  <2>1. Len(queue) - Len(q) + i \in 1..Len(queue)
    BY <1>1, <1>2, <1>4
  <2>2. queue[Len(queue) - Len(q) + i]
          = written - Len(queue) + (Len(queue) - Len(q) + i)
    BY <2>1
  <2>3. q[i] = queue[Len(queue) - Len(q) + i]
    BY <1>2
  <2>4. written - Len(queue) + (Len(queue) - Len(q) + i) = written - Len(q) + i
    BY <1>1, <1>4
  <2> QED
    BY <2>2, <2>3, <2>4
<1>7. \A i \in 1..Len(queue') : queue'[i] = written' - Len(queue') + i
  BY <1>1, <1>3, <1>4, <1>5, <1>6
<1>8. ~broken' => last' <= written' - Len(queue')
  BY <1>1, <1>2, <1>3, <1>4, <1>5 DEF Write
<1>9. TypeOK'
  BY <1>1, <1>2, <1>3, <1>4, <1>5 DEF Write
<1> QED
  BY <1>7, <1>8, <1>9

LEMMA PopTakesFrontStep ==
  ASSUME IInv, NEW r \in Readers, PopTakesFront(r)
  PROVE  /\ IInv'
         /\ last' = written - Len(queue) + 1
<1> USE DEF IInv, TypeOK, Consecutive
<1>1. Limit \in Nat /\ Len(queue) \in Nat /\ written \in Nat
  BY TopicAssumption, LenProperties
<1>2. queue # <<>> /\ queue' = Tail(queue) /\ last' = Head(queue)
      /\ written' = written /\ broken' = broken
  BY DEF PopTakesFront
<1>3. /\ Head(queue) \in 1..written
      /\ Tail(queue) \in Seq(1..written)
      /\ Len(Tail(queue)) = Len(queue) - 1
      /\ \A i \in 1..Len(Tail(queue)) : Tail(queue)[i] = queue[i + 1]
  BY <1>2, HeadTailProperties
<1>4. Len(queue) >= 1 /\ Head(queue) = queue[1]
  BY <1>1, <1>2, EmptySeq
<1>5. last' = written - Len(queue) + 1
  BY <1>1, <1>2, <1>4
<1>6. \A i \in 1..Len(queue') : queue'[i] = written' - Len(queue') + i
  BY <1>1, <1>2, <1>3
<1>7. TypeOK'
  BY <1>1, <1>2, <1>3 DEF PopTakesFront
<1> QED
  BY <1>1, <1>2, <1>3, <1>5, <1>6, <1>7

LEMMA NextIInv == IInv /\ [Next]_vars => IInv'
<1> SUFFICES ASSUME IInv, [Next]_vars
             PROVE  IInv'
  OBVIOUS
<1>1. CASE Write
  BY <1>1, WriteStep
<1>2. ASSUME NEW r \in Readers, PopChecksSize(r)
      PROVE  IInv'
  BY <1>2 DEF PopChecksSize, IInv, TypeOK, Consecutive
<1>3. ASSUME NEW r \in Readers, PopTakesFront(r)
      PROVE  IInv'
  BY <1>3, PopTakesFrontStep
<1>4. ASSUME NEW r \in Readers, PopFromEmptyQueue(r)
      PROVE  IInv'
  BY <1>4 DEF PopFromEmptyQueue, IInv, TypeOK, Consecutive
<1>5. CASE UNCHANGED vars
  BY <1>5 DEF vars, IInv, TypeOK, Consecutive
<1> QED
  BY <1>1, <1>2, <1>3, <1>4, <1>5 DEF Next, Pop

LEMMA InductiveInvariant == Spec => []IInv
  BY InitIInv, NextIInv, PTL DEF Spec

--------------------------------------------------------------------------------

(* Every variable keeps its type, and the queue never holds more than one     *)
(* entry above the limit.                                                     *)
THEOREM TypeCorrect == Spec => []TypeOK
<1>1. IInv => TypeOK
  BY DEF IInv
<1> QED
  BY <1>1, InductiveInvariant, PTL

(* The receivers of all readers together are given the writes in order,       *)
(* however many readers there are, until one of them meets an empty queue.    *)
THEOREM ReadInOrderHolds == Spec => ReadInOrder
<1>1. ASSUME IInv, [Next]_vars
      PROVE  [last' # last /\ ~broken' => last' > last]_vars
  <2>1. ASSUME NEW r \in Readers, PopTakesFront(r)
        PROVE  last' > last
    <3>1. last <= written - Len(queue) /\ last' = written - Len(queue) + 1
      BY <1>1, <2>1, PopTakesFrontStep DEF IInv, Consecutive, PopTakesFront
    <3>2. last \in Int /\ written \in Int /\ Len(queue) \in Int
      BY <1>1, LenProperties DEF IInv, TypeOK
    <3> QED
      BY <3>1, <3>2
  <2>2. CASE Write
    BY <2>2 DEF Write
  <2>3. ASSUME NEW r \in Readers, PopChecksSize(r) \/ PopFromEmptyQueue(r)
        PROVE  ~(last' # last /\ ~broken')
    BY <2>3 DEF PopChecksSize, PopFromEmptyQueue
  <2> QED
    BY <1>1, <2>1, <2>2, <2>3 DEF Next, Pop
<1> QED
  BY <1>1, InductiveInvariant, PTL DEF Spec, ReadInOrder

--------------------------------------------------------------------------------
(* What was read last is followed by the front of the queue, unless a write   *)
(* trimmed it; the queue is then full, and stays so until the next read.      *)

NoGap == ~broken => last = written - Len(queue) \/ Len(queue) = Limit + 1

LEMMA NoGapStep ==
  ASSUME IInv, NoGap, [Next]_vars
  PROVE  NoGap'
<1> USE DEF NoGap
<1>0. /\ queue \in Seq(1..written) /\ Len(queue) \in Nat
      /\ Limit \in Nat /\ written \in Nat /\ last \in Nat
      /\ Len(queue) <= Limit + 1
  BY TopicAssumption, LenProperties DEF IInv, TypeOK
<1>1. CASE Write
  <2> DEFINE q == Trimmed(queue)
  <2>1. /\ q \in Seq(1..written) /\ Len(q) <= Limit
        /\ Len(q) # Len(queue) => Len(q) = Limit
    BY <1>0, TrimmedProperties
  <2>2. q \in Seq(1..written + 1) /\ written + 1 \in 1..written + 1 /\ Len(q) \in Nat
    BY <1>0, <2>1, SeqMonotonic, LenProperties
  <2>3. written' = written + 1 /\ last' = last /\ broken' = broken
        /\ queue' = Append(q, written + 1)
    BY <1>1 DEF Write
  <2>4. Len(queue') = Len(q) + 1
    BY <2>2, <2>3, AppendProperties
  <2>5. CASE Len(q) = Len(queue)
    <3>1. written' - Len(queue') = written - Len(queue)
      <4>1. written' = written + 1 /\ Len(queue') = Len(queue) + 1
        BY <2>3, <2>4, <2>5
      <4> QED
        BY <1>0, <4>1
    <3>2. Len(queue) # Limit + 1
      <4>1. Len(queue) <= Limit
        BY <2>1, <2>5
      <4> QED
        BY <1>0, <4>1
    <3> QED
      BY <2>3, <3>1, <3>2
  <2>6. CASE Len(q) # Len(queue)
    BY <2>1, <2>4, <2>6
  <2> QED
    BY <2>5, <2>6
<1>2. ASSUME NEW r \in Readers, PopTakesFront(r)
      PROVE  NoGap'
  <2>1. last' = written - Len(queue) + 1 /\ written' = written
    BY <1>2, PopTakesFrontStep DEF PopTakesFront
  <2>2. Len(queue') = Len(queue) - 1
    BY <1>0, <1>2, HeadTailProperties DEF PopTakesFront
  <2>3. last' = written' - Len(queue')
    BY <1>0, <2>1, <2>2
  <2> QED
    BY <2>3
<1>3. ASSUME NEW r \in Readers, PopChecksSize(r) \/ PopFromEmptyQueue(r)
      PROVE  NoGap'
  BY <1>3 DEF PopChecksSize, PopFromEmptyQueue
<1>4. CASE UNCHANGED vars
  BY <1>4 DEF vars
<1> QED
  BY <1>1, <1>2, <1>3, <1>4 DEF Next, Pop

(* Entries are skipped only by a reader that is Limit writes behind, however  *)
(* many readers share the queue, until one of them meets it empty.            *)
THEOREM NoEarlyLossHolds == Spec => NoEarlyLoss
<1>1. Init => NoGap
  <2>1. Init => queue = <<>> /\ Len(queue) = 0
    BY EmptySeq DEF Init
  <2>2. Init => written - Len(queue) = 0 /\ last = 0
    <3>1. 0 - 0 = 0
      OBVIOUS
    <3> QED
      BY <2>1, <3>1 DEF Init
  <2> QED
    BY <2>2 DEF NoGap
<1>2. IInv /\ NoGap /\ [Next]_vars => NoGap'
  BY NoGapStep
<1>3. ASSUME IInv, NoGap, [Next]_vars
      PROVE  [last' # last /\ ~broken'
                => last' = last + 1 \/ last' + Limit <= written]_vars
  <2>1. ASSUME NEW r \in Readers, PopTakesFront(r)
        PROVE  last' = last + 1 \/ last' + Limit <= written
    <3>1. last' = written - Len(queue) + 1 /\ ~broken
      BY <1>3, <2>1, PopTakesFrontStep DEF PopTakesFront
    <3>2. Limit \in Nat /\ last \in Nat /\ written \in Nat /\ Len(queue) \in Nat
      BY <1>3, TopicAssumption, LenProperties DEF IInv, TypeOK
    <3> QED
      BY <1>3, <3>1, <3>2 DEF NoGap
  <2>2. CASE Write
    BY <2>2 DEF Write
  <2>3. ASSUME NEW r \in Readers, PopChecksSize(r) \/ PopFromEmptyQueue(r)
        PROVE  ~(last' # last /\ ~broken')
    BY <2>3 DEF PopChecksSize, PopFromEmptyQueue
  <2> QED
    BY <1>3, <2>1, <2>2, <2>3 DEF Next, Pop
<1> QED
  BY <1>1, <1>2, <1>3, InductiveInvariant, PTL DEF Spec, NoEarlyLoss

--------------------------------------------------------------------------------
(* One reader: what it saw in its first critical section still holds in the   *)
(* second, for writes never empty the queue.                                  *)

LEMMA NeverPopsEmptyStep ==
  ASSUME NEW r, Readers = {r}, IInv, NeverPopsEmpty, [Next]_vars
  PROVE  NeverPopsEmpty'
<1> USE DEF NeverPopsEmpty
<1>1. CASE Write
  <2>1. Trimmed(queue) \in Seq(1..written)
    BY TrimmedProperties DEF IInv, TypeOK
  <2>2. Trimmed(queue) \in Seq(1..written + 1) /\ written + 1 \in 1..written + 1
    BY <2>1, SeqMonotonic DEF IInv, TypeOK
  <2>3. queue' # <<>>
    BY <1>1, <2>2, AppendProperties DEF Write
  <2> QED
    BY <1>1, <2>3 DEF Write
<1>2. CASE PopChecksSize(r)
  BY <1>2 DEF PopChecksSize
<1>3. CASE PopTakesFront(r)
  BY <1>3 DEF PopTakesFront, IInv, TypeOK
<1>4. CASE PopFromEmptyQueue(r)
  BY <1>4 DEF PopFromEmptyQueue
<1>5. CASE UNCHANGED vars
  BY <1>5 DEF vars
<1> QED
  BY <1>1, <1>2, <1>3, <1>4, <1>5 DEF Next, Pop

THEOREM NeverPopsEmptyHolds ==
  ASSUME NEW r, Readers = {r}
  PROVE  Spec => []NeverPopsEmpty
<1>1. Init => NeverPopsEmpty
  BY DEF Init, NeverPopsEmpty
<1>2. IInv /\ NeverPopsEmpty /\ [Next]_vars => NeverPopsEmpty'
  BY NeverPopsEmptyStep
<1> QED
  BY <1>1, <1>2, InductiveInvariant, PTL DEF Spec

(* With one reader the topic is the fifo queue its comment promises. *)
THEOREM FifoRefinement ==
  ASSUME NEW r, Readers = {r}
  PROVE  Spec => ImplementsFifo
<1>1. Init => Fifo!Init
  BY DEF Init, Fifo!Init
<1>2. ASSUME IInv, NeverPopsEmpty, [Next]_vars
      PROVE  [Fifo!Next]_(Fifo!vars)
  <2> USE DEF Fifo!vars
  <2>1. CASE Write
    <3>1. PICK k \in 1..(Len(queue) + 1) :
            Trimmed(queue) = SubSeq(queue, k, Len(queue))
      BY <1>2, TrimmedProperties DEF IInv, TypeOK
    <3>2. Fifo!Write
      BY <2>1, <3>1 DEF Write, Fifo!Write
    <3> QED
      BY <3>2 DEF Fifo!Next
  <2>2. CASE PopChecksSize(r)
    BY <2>2 DEF PopChecksSize
  <2>3. CASE PopTakesFront(r)
    <3>1. Fifo!Read
      BY <2>3 DEF PopTakesFront, Fifo!Read
    <3> QED
      BY <3>1 DEF Fifo!Next
  <2>4. CASE PopFromEmptyQueue(r)
    BY <1>2, <2>4 DEF PopFromEmptyQueue, NeverPopsEmpty
  <2>5. CASE UNCHANGED vars
    BY <2>5 DEF vars
  <2> QED
    BY <1>2, <2>1, <2>2, <2>3, <2>4, <2>5 DEF Next, Pop
<1> QED
  BY <1>1, <1>2, InductiveInvariant, NeverPopsEmptyHolds, PTL
  DEF Spec, ImplementsFifo, Fifo!Spec

================================================================================
