------------------------- MODULE StreamItemTopicProofs -------------------------
(***************************************************************************)
(* Theorems about StreamItemTopic, for every int, message size, set of     *)
(* stream types and set of threads.                                        *)
(***************************************************************************)
EXTENDS StreamItemTopic, TLAPS

(* No profile is ever found, so that all threads and the topic have the same. *)
OneProfile ==
  /\ qosProfile = DefaultProfile
  /\ \A t \in Threads : found[t] = DefaultProfile

IInv == TypeOK /\ OneProfile /\ SizeDecided

--------------------------------------------------------------------------------
(* The decision on one stream type *)

(* Where the sizes are read they are numbers, of the machine.                 *)
LEMMA ReadSizes ==
  ASSUME NEW x \in StreamTypes, ~Throws(x)
  PROVE  /\ x.maxByteSize \in Size /\ x.maxArraySize \in Size
         /\ x.maxByteSize # Absent => x.maxByteSize \in MachineInt
         /\ LooksAtArraySize(x) => x.maxArraySize \in MachineInt
         /\ MachineInt \subseteq Int
BY TopicAssumption DEF Throws, StoiThrows, MachineInt

LEMMA TimesEightType ==
  ASSUME NEW n \in Int
  PROVE  TimesEight(n) \subseteq Int
<1>1. IntMax \in Nat /\ 2 * (IntMax + 1) \in Int /\ 2 * (IntMax + 1) > 0
  BY TopicAssumption
<1>2. 8 * n \in Int /\ 8 * n + IntMax + 1 \in Int
  BY <1>1
<1>3. Wrapped(8 * n) \in Int
  BY <1>1, <1>2 DEF Wrapped
<1> QED
  BY <1>2, <1>3 DEF TimesEight

LEMMA AnswerIsBoolean ==
  ASSUME NEW x \in StreamTypes, ~Throws(x), NEW isBig \in IsBigStreamType(x)
  PROVE  isBig \in BOOLEAN
<1>1. CASE LooksAtArraySize(x)
  <2>1. TimesEight(x.maxArraySize) \subseteq Int
    BY <1>1, ReadSizes, TimesEightType
  <2>2. PICK bytes \in TimesEight(x.maxArraySize) : isBig = (bytes >= MaxMessageSize)
    BY <1>1 DEF IsBigStreamType
  <2> QED
    BY <2>1, <2>2, TopicAssumption
<1>2. CASE ~LooksAtArraySize(x)
  BY <1>2 DEF IsBigStreamType, BigByByteSize
<1> QED
  BY <1>1, <1>2

(* Without overflow there is one answer, and it is the right one.             *)
LEMMA BigIsExact ==
  ASSUME NEW x \in StreamTypes, ~Throws(x), ~Overflows(x),
         NEW isBig \in IsBigStreamType(x)
  PROVE  isBig <=> NeedsFragmentation(x)
<1> USE TopicAssumption
<1>1. /\ x.maxByteSize # Absent => x.maxByteSize \in MachineInt
      /\ LooksAtArraySize(x) => x.maxArraySize \in MachineInt
      /\ MachineInt \subseteq Int
      /\ x.maxByteSize \in Size /\ x.maxArraySize \in Size
  BY ReadSizes
<1>2. BigByByteSize(x) <=> x.maxByteSize \in Int /\ x.maxByteSize >= MaxMessageSize
  BY <1>1 DEF BigByByteSize
<1>3. CASE LooksAtArraySize(x)
  <2>1. TimesEight(x.maxArraySize) = {8 * x.maxArraySize}
    BY <1>3 DEF Overflows, TimesEight
  <2>2. isBig <=> 8 * x.maxArraySize >= MaxMessageSize
    BY <1>3, <2>1 DEF IsBigStreamType
  <2>3. ~BigByByteSize(x) /\ x.meta = PlainArray /\ x.maxArraySize \in Int
    BY <1>1, <1>3 DEF LooksAtArraySize
  <2> QED
    BY <1>2, <2>2, <2>3 DEF NeedsFragmentation
<1>4. CASE ~LooksAtArraySize(x)
  <2>1. isBig <=> BigByByteSize(x)
    BY <1>4 DEF IsBigStreamType, BigByByteSize
  <2>2. ~BigByByteSize(x) => ~(x.meta = PlainArray /\ x.maxArraySize \in Int)
    BY <1>4 DEF LooksAtArraySize
  <2> QED
    BY <1>2, <2>1, <2>2 DEF NeedsFragmentation
<1> QED
  BY <1>3, <1>4

LEMMA NoProfileFound ==
  ASSUME NEW x \in StreamTypes, NEW isBig \in BOOLEAN
  PROVE  FindQosProfile(x, isBig) = DefaultProfile
BY DEF FindQosProfile, ContainsProfile

--------------------------------------------------------------------------------
(* The inductive invariant *)

LEMMA InitStep == Init => IInv
<1> SUFFICES ASSUME Init PROVE IInv
  OBVIOUS
<1>1. PICK isBig \in IsBigStreamType(streamType) :
        qosProfile = FindQosProfile(streamType, isBig)
  BY DEF Init
<1>2. OneProfile
  BY <1>1, AnswerIsBoolean, NoProfileFound DEF Init, OneProfile
<1>3. TypeOK
  BY <1>2 DEF Init, TypeOK, QosProfile, OneProfile
<1>4. SizeDecided
  BY DEF Init, SizeDecided
<1> QED
  BY <1>2, <1>3, <1>4 DEF IInv

(* A call that ends, whatever it answers, leaves the topic as it was.         *)
LEMMA ReturnStep ==
  ASSUME IInv, NEW t \in Threads, Return(t), UNCHANGED <<streamType, qosProfile>>
  PROVE  IInv'
<1>1. TypeOK'
  BY DEF IInv, TypeOK, QosProfile, Return, Throws, StoiThrows, LooksAtArraySize, BigByByteSize
<1>2. OneProfile'
  BY DEF IInv, OneProfile, TypeOK, Return
<1>3. SizeDecided'
  <2> SUFFICES ASSUME NEW s \in Threads, pc'[s] = "compare"
               PROVE  (~Overflows(arg[s]) => (big[s] <=> NeedsFragmentation(arg[s])))'
    BY DEF SizeDecided
  <2>1. s # t
    BY DEF IInv, TypeOK, Return
  <2>2. pc[s] = "compare" /\ arg'[s] = arg[s] /\ big'[s] = big[s]
    BY <2>1 DEF IInv, TypeOK, Return
  <2> QED
    BY <2>2 DEF IInv, SizeDecided, Overflows, NeedsFragmentation, LooksAtArraySize,
       BigByByteSize
<1> QED
  BY <1>1, <1>2, <1>3 DEF IInv

LEMMA FindStep ==
  ASSUME IInv, NEW t \in Threads, Find(t)
  PROVE  IInv'
<1>1. PICK isBig \in IsBigStreamType(arg[t]) :
        /\ big' = [big EXCEPT ![t] = isBig]
        /\ found' = [found EXCEPT ![t] = FindQosProfile(arg[t], isBig)]
  BY DEF Find
<1>2. /\ ~Throws(arg[t]) /\ arg[t] \in StreamTypes /\ isBig \in BOOLEAN
      /\ pc' = [pc EXCEPT ![t] = "compare"]
      /\ UNCHANGED <<streamType, qosProfile, arg>>
  BY AnswerIsBoolean DEF Find, IInv, TypeOK
<1>3. TypeOK'
  BY <1>1, <1>2, NoProfileFound
     DEF IInv, TypeOK, QosProfile, Throws, StoiThrows, LooksAtArraySize, BigByByteSize
<1>4. OneProfile'
  BY <1>1, <1>2, NoProfileFound DEF IInv, TypeOK, OneProfile
<1>5. SizeDecided'
  <2> SUFFICES ASSUME NEW s \in Threads, pc'[s] = "compare", ~Overflows(arg[s])
               PROVE  big'[s] <=> NeedsFragmentation(arg[s])
    BY <1>2 DEF SizeDecided, Overflows, NeedsFragmentation, LooksAtArraySize,
       BigByByteSize
  <2>1. CASE s = t
    <3>1. big'[t] = isBig
      BY <1>1 DEF IInv, TypeOK
    <3> QED
      BY <1>2, <2>1, <3>1, BigIsExact
  <2>2. CASE s # t
    <3>1. pc[s] = "compare" /\ big'[s] = big[s]
      BY <1>1, <1>2, <2>2 DEF IInv, TypeOK
    <3> QED
      BY <3>1 DEF IInv, SizeDecided
  <2> QED
    BY <2>1, <2>2
<1> QED
  BY <1>3, <1>4, <1>5 DEF IInv

LEMMA CallUpdateStep ==
  ASSUME IInv, NEW t \in Threads, NEW x \in StreamTypes, CallUpdate(t, x)
  PROVE  IInv'
<1>0. /\ pc' = [pc EXCEPT ![t] = "find"] /\ arg' = [arg EXCEPT ![t] = x]
      /\ UNCHANGED <<streamType, qosProfile, big, found>>
  BY DEF CallUpdate
<1>1. TypeOK'
  BY <1>0 DEF IInv, TypeOK, QosProfile, Throws, StoiThrows, LooksAtArraySize, BigByByteSize
<1>2. OneProfile'
  BY <1>0 DEF IInv, OneProfile
<1>3. SizeDecided'
  <2> SUFFICES ASSUME NEW s \in Threads, pc'[s] = "compare"
               PROVE  (~Overflows(arg[s]) => (big[s] <=> NeedsFragmentation(arg[s])))'
    BY DEF SizeDecided
  <2>1. pc[s] = "compare" /\ arg'[s] = arg[s] /\ big'[s] = big[s]
    BY <1>0 DEF IInv, TypeOK
  <2> QED
    BY <2>1 DEF IInv, SizeDecided, Overflows, NeedsFragmentation, LooksAtArraySize,
       BigByByteSize
<1> QED
  BY <1>1, <1>2, <1>3 DEF IInv

LEMMA UpdateReturnsEffect ==
  ASSUME IInv, NEW t \in Threads, UpdateReturns(t)
  PROVE  ~Answer(t) /\ UNCHANGED <<streamType, qosProfile>> /\ Return(t)
BY DEF IInv, OneProfile, UpdateReturns, Answer

LEMMA NextStep ==
  ASSUME IInv, [Next]_vars
  PROVE  IInv' /\ UNCHANGED qosProfile
<1>1. CASE UNCHANGED vars
  BY <1>1 DEF vars, locals, IInv, TypeOK, QosProfile, OneProfile, SizeDecided, Throws, StoiThrows,
     Overflows, NeedsFragmentation, LooksAtArraySize, BigByByteSize
<1>2. ASSUME NEW t \in Threads, NEW x \in StreamTypes, CallUpdate(t, x)
      PROVE  IInv' /\ UNCHANGED qosProfile
  BY <1>2, CallUpdateStep DEF CallUpdate
<1>3. ASSUME NEW t \in Threads, UpdateThrows(t)
      PROVE  IInv' /\ UNCHANGED qosProfile
  BY <1>3, ReturnStep DEF UpdateThrows
<1>4. ASSUME NEW t \in Threads, Find(t)
      PROVE  IInv' /\ UNCHANGED qosProfile
  BY <1>4, FindStep DEF Find
<1>5. ASSUME NEW t \in Threads, UpdateReturns(t)
      PROVE  IInv' /\ UNCHANGED qosProfile
  BY <1>5, UpdateReturnsEffect, ReturnStep
<1> QED
  BY <1>1, <1>2, <1>3, <1>4, <1>5 DEF Next

LEMMA InductiveInvariant == Spec => []IInv
<1>1. Init => IInv
  BY InitStep
<1>2. IInv /\ [Next]_vars => IInv'
  BY NextStep
<1> QED
  BY <1>1, <1>2, PTL DEF Spec

--------------------------------------------------------------------------------
(* The theorems *)

(* Every variable keeps its type, and the stream type the topic announces to  *)
(* each of its writers is one whose sizes can be read.                        *)
THEOREM TypeCorrect == Spec => []TypeOK
BY InductiveInvariant, PTL DEF IInv

(* isBigStreamType decides by the sizes wherever the product fits into an     *)
(* int, for an int of any width and any limit.                                *)
THEOREM SizeDecidedHolds == Spec => []SizeDecided
BY InductiveInvariant, PTL DEF IInv

(* No thread is ever told to recreate its DDS reader or writer and            *)
(* _qos_profile keeps its value, however many threads bring whatever types.   *)
THEOREM NeverRecreatedHolds == Spec => NeverRecreated
<1>1. ASSUME IInv, [Next]_vars
      PROVE  [/\ qosProfile' = qosProfile
              /\ \A t \in Threads : pc[t] = "compare" /\ pc'[t] = "idle" => ~Answer(t)]_vars
  BY <1>1, NextStep DEF IInv, OneProfile, Answer
<1> QED
  BY <1>1, InductiveInvariant, PTL DEF Spec, NeverRecreated

--------------------------------------------------------------------------------
(* With overflow: the product of a count that is not negative                 *)

CountsArePossible(x) == x.maxArraySize \in Int => x.maxArraySize >= 0

LEMMA BigNeedsFragmentation ==
  ASSUME NEW x \in StreamTypes, ~Throws(x), CountsArePossible(x),
         TRUE \in IsBigStreamType(x)
  PROVE  NeedsFragmentation(x)
<1>1. CASE Overflows(x)
  <2>1. x.maxArraySize \in MachineInt /\ x.maxArraySize \in Int /\ x.meta = PlainArray
    BY <1>1, ReadSizes DEF Overflows, LooksAtArraySize
  <2>2. 8 * x.maxArraySize \in Int /\ 8 * x.maxArraySize >= 0
    BY <2>1 DEF CountsArePossible
  <2>3. 8 * x.maxArraySize > IntMax
    BY <1>1, <2>2, TopicAssumption DEF Overflows, MachineInt
  <2> QED
    BY <2>1, <2>2, <2>3, TopicAssumption DEF NeedsFragmentation
<1>2. CASE ~Overflows(x)
  BY <1>2, BigIsExact
<1> QED
  BY <1>1, <1>2

(* What big holds is an answer of isBigStreamType.                            *)
BigIsAnAnswer ==
  \A t \in Threads : pc[t] = "compare" => ~Throws(arg[t]) /\ big[t] \in IsBigStreamType(arg[t])

(* Overflow included: what isBigStreamType takes for big needs fragmentation, *)
(* as long as array sizes are not negative.  The overflow can only hide a big *)
(* stream type, never invent one.                                             *)
NoneInvented ==
  \A t \in Threads :
    pc[t] = "compare" /\ CountsArePossible(arg[t]) /\ big[t] => NeedsFragmentation(arg[t])

LEMMA BigIsAnAnswerStep ==
  ASSUME IInv, BigIsAnAnswer, [Next]_vars
  PROVE  BigIsAnAnswer'
<1> SUFFICES ASSUME NEW t \in Threads, pc'[t] = "compare"
             PROVE  ~Throws(arg'[t]) /\ big'[t] \in IsBigStreamType(arg'[t])
  BY DEF BigIsAnAnswer, Throws, StoiThrows, LooksAtArraySize, BigByByteSize, MachineInt,
         IsBigStreamType, TimesEight, Wrapped
<1> USE DEF IInv, TypeOK
<1>1. ASSUME NEW u \in Threads, NEW x \in StreamTypes, CallUpdate(u, x)
      PROVE  t # u /\ UNCHANGED <<pc[t], arg[t], big[t]>>
  BY <1>1 DEF CallUpdate
<1>2. ASSUME NEW u \in Threads, Return(u)
      PROVE  t # u /\ UNCHANGED <<pc[t], arg[t], big[t]>>
  BY <1>2 DEF Return
<1>3. ASSUME NEW u \in Threads, Find(u)
      PROVE  \/ t # u /\ UNCHANGED <<pc[t], arg[t], big[t]>>
             \/ ~Throws(arg'[t]) /\ big'[t] \in IsBigStreamType(arg'[t])
  <2>1. PICK isBig \in IsBigStreamType(arg[u]) : big' = [big EXCEPT ![u] = isBig]
    BY <1>3 DEF Find
  <2>2. ~Throws(arg[u]) /\ UNCHANGED arg /\ pc' = [pc EXCEPT ![u] = "compare"]
    BY <1>3 DEF Find
  <2> QED
    BY <2>1, <2>2
<1>4. CASE UNCHANGED vars
  BY <1>4 DEF vars, locals, BigIsAnAnswer
<1> QED
  BY <1>1, <1>2, <1>3, <1>4 DEF Next, UpdateThrows, UpdateReturns, BigIsAnAnswer

(* The answer "big" can be relied on, for an int of any width, by any number  *)
(* of threads; it is "small" that may be wrong.                               *)
THEOREM NoneInventedHolds == Spec => []NoneInvented
<1>1. Init => BigIsAnAnswer
  BY DEF Init, BigIsAnAnswer
<1>2. IInv /\ BigIsAnAnswer /\ [Next]_vars => BigIsAnAnswer'
  BY BigIsAnAnswerStep
<1>3. IInv /\ BigIsAnAnswer => NoneInvented
  <2> SUFFICES ASSUME IInv, BigIsAnAnswer, NEW t \in Threads, pc[t] = "compare",
                      CountsArePossible(arg[t]), big[t]
               PROVE  NeedsFragmentation(arg[t])
    BY DEF NoneInvented
  <2>1. arg[t] \in StreamTypes /\ big[t] = TRUE
    BY DEF IInv, TypeOK
  <2>2. ~Throws(arg[t]) /\ TRUE \in IsBigStreamType(arg[t])
    BY <2>1 DEF BigIsAnAnswer
  <2> QED
    BY <2>1, <2>2, BigNeedsFragmentation
<1> QED
  BY <1>1, <1>2, <1>3, InductiveInvariant, PTL DEF Spec

================================================================================
