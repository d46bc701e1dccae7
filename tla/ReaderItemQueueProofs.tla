------------------------- MODULE ReaderItemQueueProofs -------------------------
(***************************************************************************)
(* What TLAPS proves of ReaderItemQueue: for every number of threads that  *)
(* call popFrom concurrently, every depth and every number of samples.     *)
(***************************************************************************)
EXTENDS ReaderItemQueue, TLAPS

(* What a thread took is held between the take and the hand-out only. *)
Holding ==
  \A t \in Threads :
    /\ pc[t] # "deliver" => batch[t] = {}
    /\ pc[t] # "type" => typeTaken[t] = 0

(* What a thread handed out is older than what it holds, and this is older    *)
(* than everything unread.                                                    *)
Ordered ==
  \A t \in Threads :
    /\ \A i \in delivered[t], j \in batch[t] : i < j
    /\ \A i \in delivered[t] \cup batch[t], j \in Unread : i < j

TypesOrdered ==
  \A t \in Threads :
    /\ typeTaken[t] # 0 => heard[t] < typeTaken[t]
    /\ typeCache # 0 => heard[t] < typeCache /\ typeTaken[t] < typeCache

IInv ==
  /\ TypeOK
  /\ Holding
  /\ AtMostOnce
  /\ NothingVanishes
  /\ Ordered
  /\ TypesOrdered

--------------------------------------------------------------------------------

LEMMA InitIInv == Init => IInv
<1> SUFFICES ASSUME Init
             PROVE  IInv
  OBVIOUS
<1>1. TypeOK
  BY DEF Init, TypeOK
<1>2. Holding /\ Ordered /\ TypesOrdered
  BY DEF Init, Holding, Ordered, TypesOrdered, Unread
<1>3. AtMostOnce
  BY DEF Init, AtMostOnce, Gone
<1>4. NothingVanishes
  BY DEF Init, NothingVanishes
<1> QED
  BY <1>1, <1>2, <1>3, <1>4 DEF IInv

(* The type invariant, action by action. *)
LEMMA TypeStep ==
  ASSUME TypeOK, [Next]_vars
  PROVE  TypeOK'
<1> USE QueueAssumption DEF TypeOK, ddsVars, popVars, fateVars
<1>1. CASE StoreSample
  <2>1. arrived' = arrived + 1 /\ arrived \in Nat /\ arrived' \in Nat
    BY <1>1 DEF StoreSample
  <2>2. \A S : S \subseteq 1..arrived => S \subseteq 1..arrived'
    BY <2>1
  <2>3. PICK out \in SUBSET cache :
          /\ cache' = (cache \ out) \cup {arrived + 1}
          /\ read' = read \ out
          /\ overwritten' = overwritten \cup out
    BY <1>1 DEF StoreSample
  <2>4. cache' \subseteq 1..arrived' /\ overwritten' \subseteq 1..arrived'
    BY <2>1, <2>2, <2>3
  <2>5. read' \subseteq cache'
    BY <2>3
  <2>6. batch' \in [Threads -> SUBSET (1..arrived')]
        /\ delivered' \in [Threads -> SUBSET (1..arrived')]
    BY <1>1, <2>2 DEF StoreSample
  <2> QED
    BY <1>1, <2>1, <2>2, <2>4, <2>5, <2>6 DEF StoreSample
<1>2. CASE StoreStreamType
  <2>1. typesArrived' = typesArrived + 1 /\ typesArrived \in Nat
        /\ typesArrived' \in Nat /\ typeCache' = typesArrived'
    BY <1>2 DEF StoreStreamType
  <2>2. 0..typesArrived \subseteq 0..typesArrived'
    BY <2>1
  <2>3. typeTaken' \in [Threads -> 0..typesArrived']
        /\ heard' \in [Threads -> 0..typesArrived']
    BY <1>2, <2>2 DEF StoreStreamType
  <2> QED
    BY <1>2, <2>1, <2>3 DEF StoreStreamType
<1>3. CASE WriterGone \/ WriterBack
  BY <1>3 DEF WriterGone, WriterBack
<1>4. ASSUME NEW t \in Threads, Pop(t) \/ Dispatch(t)
      PROVE  TypeOK'
  BY <1>4 DEF Pop, Dispatch
<1>5. ASSUME NEW t \in Threads, TakeSamples(t)
      PROVE  TypeOK'
  BY <1>5 DEF TakeSamples, Takeable, Unread
<1>6. ASSUME NEW t \in Threads, DeliverSample(t)
      PROVE  TypeOK'
  BY <1>6 DEF DeliverSample
<1>7. ASSUME NEW t \in Threads, TakeStreamType(t)
      PROVE  TypeOK'
  BY <1>7 DEF TakeStreamType
<1>8. ASSUME NEW t \in Threads, DeliverStreamType(t)
      PROVE  TypeOK'
  BY <1>8 DEF DeliverStreamType
<1>9. ASSUME NEW t \in Threads, PopFromReturns(t)
      PROVE  TypeOK'
  BY <1>9 DEF PopFromReturns
<1>10. ASSUME NEW t \in Threads, ReceiverThrows(t)
       PROVE  TypeOK'
  <2>1. dropped' \subseteq 1..arrived /\ arrived' = arrived
    BY <1>10 DEF ReceiverThrows
  <2>2. batch' \in [Threads -> SUBSET (1..arrived)]
    BY <1>10 DEF ReceiverThrows
  <2>3. typeTaken' \in [Threads -> 0..typesArrived] /\ typesArrived' = typesArrived
    BY <1>10 DEF ReceiverThrows
  <2>4. pc' \in [Threads -> {"idle", "take", "deliver", "type"}]
        /\ readSomething' \in [Threads -> BOOLEAN]
    BY <1>10 DEF ReceiverThrows
  <2> QED
    BY <1>10, <2>1, <2>2, <2>3, <2>4 DEF ReceiverThrows
<1>11. CASE CountSize
  BY <1>11 DEF CountSize, Takeable, Unread
<1>12. CASE GetFrontTime
  BY <1>12 DEF GetFrontTime
<1>13. CASE UNCHANGED vars
  BY <1>13 DEF vars
<1> QED
  BY <1>1, <1>2, <1>3, <1>4, <1>5, <1>6, <1>7, <1>8, <1>9, <1>10, <1>11, <1>12,
     <1>13
  DEF Next, DDSStep, ThreadStep, PopFromStep, Observe

LEMMA HoldingStep ==
  ASSUME TypeOK, Holding, [Next]_vars
  PROVE  Holding'
<1> USE DEF TypeOK, Holding, ddsVars, popVars, fateVars
<1>1. CASE DDSStep \/ Observe
  BY <1>1 DEF DDSStep, StoreSample, StoreStreamType, WriterGone, WriterBack,
              Observe, CountSize, GetFrontTime
<1>2. ASSUME NEW t \in Threads, Pop(t) \/ Dispatch(t)
      PROVE  Holding'
  BY <1>2 DEF Pop, Dispatch
<1>3. ASSUME NEW t \in Threads, TakeSamples(t)
      PROVE  Holding'
  BY <1>3 DEF TakeSamples
<1>4. ASSUME NEW t \in Threads, DeliverSample(t)
      PROVE  Holding'
  BY <1>4 DEF DeliverSample
<1>5. ASSUME NEW t \in Threads, TakeStreamType(t) \/ DeliverStreamType(t)
      PROVE  Holding'
  BY <1>5 DEF TakeStreamType, DeliverStreamType
<1>6. ASSUME NEW t \in Threads, PopFromReturns(t) \/ ReceiverThrows(t)
      PROVE  Holding'
  BY <1>6 DEF PopFromReturns, ReceiverThrows
<1>7. CASE UNCHANGED vars
  BY <1>7 DEF vars
<1> QED
  BY <1>1, <1>2, <1>3, <1>4, <1>5, <1>6, <1>7 DEF Next, ThreadStep, PopFromStep

(* A sample moves from one place to the next and is never copied: a take      *)
(* empties the cache of what it takes in one step.                            *)
LEMMA AtMostOnceStep ==
  ASSUME TypeOK, Holding, AtMostOnce, [Next]_vars
  PROVE  AtMostOnce'
<1> USE DEF AtMostOnce, Gone, ddsVars, popVars, fateVars
<1>1. CASE StoreSample
  <2>1. PICK out \in SUBSET cache :
          /\ cache' = (cache \ out) \cup {arrived + 1}
          /\ overwritten' = overwritten \cup out
    BY <1>1 DEF StoreSample
  <2>2. /\ \A t \in Threads : arrived + 1 \notin batch[t] \cup delivered[t]
        /\ arrived + 1 \notin Gone \cup cache
    BY DEF TypeOK
  <2>3. batch' = batch /\ delivered' = delivered /\ dropped' = dropped
    BY <1>1 DEF StoreSample
  <2>4. Gone' = Gone \cup out
    BY <2>1, <2>3
  <2>5. cache' \cap Gone' = {}
    BY <2>1, <2>2, <2>4
  <2>6. ASSUME NEW t \in Threads
        PROVE  /\ cache' \cap (batch[t] \cup delivered[t]) = {}
               /\ Gone' \cap (batch[t] \cup delivered[t]) = {}
    BY <2>1, <2>2, <2>4
  <2> QED
    BY <2>3, <2>5, <2>6
<1>2. CASE StoreStreamType \/ WriterGone \/ WriterBack \/ Observe
  BY <1>2 DEF StoreStreamType, WriterGone, WriterBack, Observe, CountSize,
              GetFrontTime
<1>3. ASSUME NEW t \in Threads, Pop(t) \/ Dispatch(t)
      PROVE  AtMostOnce'
  BY <1>3 DEF Pop, Dispatch
<1>4. ASSUME NEW t \in Threads, TakeSamples(t)
      PROVE  AtMostOnce'
  <2>1. Takeable \subseteq cache
    BY DEF Takeable, Unread
  <2>2. /\ cache' = cache \ Takeable
        /\ batch' = [batch EXCEPT ![t] = Takeable]
        /\ UNCHANGED fateVars
    BY <1>4 DEF TakeSamples
  <2>3. batch'[t] = Takeable /\ \A u \in Threads \ {t} : batch'[u] = batch[u]
    BY <2>2 DEF TypeOK
  <2> QED
    BY <2>1, <2>2, <2>3
<1>5. ASSUME NEW t \in Threads, DeliverSample(t)
      PROVE  AtMostOnce'
  <2>1. PICK i \in batch[t] :
          /\ batch' = [batch EXCEPT ![t] = @ \ {i}]
          /\ delivered' = [delivered EXCEPT ![t] = @ \cup {i}]
    BY <1>5 DEF DeliverSample
  <2>2. cache' = cache /\ Gone' = Gone
    BY <1>5 DEF DeliverSample
  <2>3. /\ batch'[t] = batch[t] \ {i} /\ delivered'[t] = delivered[t] \cup {i}
        /\ \A u \in Threads \ {t} :
             batch'[u] = batch[u] /\ delivered'[u] = delivered[u]
    BY <2>1 DEF TypeOK
  <2> QED
    BY <2>1, <2>2, <2>3
<1>6. ASSUME NEW t \in Threads,
             TakeStreamType(t) \/ DeliverStreamType(t) \/ PopFromReturns(t)
      PROVE  AtMostOnce'
  BY <1>6 DEF TakeStreamType, DeliverStreamType, PopFromReturns
<1>7. ASSUME NEW t \in Threads, ReceiverThrows(t)
      PROVE  AtMostOnce'
  <2>1. /\ dropped' = dropped \cup batch[t]
        /\ UNCHANGED <<cache, delivered, overwritten>>
    BY <1>7 DEF ReceiverThrows
  <2>2. batch'[t] = {} /\ \A u \in Threads \ {t} : batch'[u] = batch[u]
    BY <1>7 DEF ReceiverThrows, TypeOK
  <2> QED
    BY <2>1, <2>2
<1>8. CASE UNCHANGED vars
  BY <1>8 DEF vars
<1> QED
  BY <1>1, <1>2, <1>3, <1>4, <1>5, <1>6, <1>7, <1>8
  DEF Next, DDSStep, ThreadStep, PopFromStep

LEMMA NothingVanishesStep ==
  ASSUME TypeOK, Holding, NothingVanishes, [Next]_vars
  PROVE  NothingVanishes'
<1> USE DEF NothingVanishes, Gone, ddsVars, popVars, fateVars
<1>1. CASE StoreSample
  <2>1. PICK out \in SUBSET cache :
          /\ cache' = (cache \ out) \cup {arrived + 1}
          /\ overwritten' = overwritten \cup out
    BY <1>1 DEF StoreSample
  <2>2. \A i \in 1..arrived' : i \in 1..arrived \/ i = arrived + 1
    BY <1>1 DEF StoreSample, TypeOK
  <2>3. batch' = batch /\ delivered' = delivered /\ dropped' = dropped
    BY <1>1 DEF StoreSample
  <2> QED
    BY <2>1, <2>2, <2>3
<1>2. CASE StoreStreamType \/ WriterGone \/ WriterBack \/ Observe
  BY <1>2 DEF StoreStreamType, WriterGone, WriterBack, Observe, CountSize,
              GetFrontTime
<1>3. ASSUME NEW t \in Threads, Pop(t) \/ Dispatch(t)
      PROVE  NothingVanishes'
  BY <1>3 DEF Pop, Dispatch
<1>4. ASSUME NEW t \in Threads, TakeSamples(t)
      PROVE  NothingVanishes'
  <2>1. cache' = cache \ Takeable /\ arrived' = arrived /\ UNCHANGED fateVars
    BY <1>4 DEF TakeSamples
  <2>2. batch[t] = {}
    BY <1>4 DEF TakeSamples, Holding
  <2>3. batch'[t] = Takeable /\ \A u \in Threads \ {t} : batch'[u] = batch[u]
    BY <1>4 DEF TakeSamples, TypeOK
  <2> QED
    BY <2>1, <2>2, <2>3
<1>5. ASSUME NEW t \in Threads, DeliverSample(t)
      PROVE  NothingVanishes'
  <2>1. PICK i \in batch[t] :
          /\ batch' = [batch EXCEPT ![t] = @ \ {i}]
          /\ delivered' = [delivered EXCEPT ![t] = @ \cup {i}]
    BY <1>5 DEF DeliverSample
  <2>2. UNCHANGED <<arrived, cache, overwritten, dropped>>
    BY <1>5 DEF DeliverSample
  <2>3. \A u \in Threads :
          batch'[u] \cup delivered'[u] = batch[u] \cup delivered[u]
    BY <2>1 DEF TypeOK
  <2> QED
    BY <2>2, <2>3
<1>6. ASSUME NEW t \in Threads,
             TakeStreamType(t) \/ DeliverStreamType(t) \/ PopFromReturns(t)
      PROVE  NothingVanishes'
  BY <1>6 DEF TakeStreamType, DeliverStreamType, PopFromReturns
<1>7. ASSUME NEW t \in Threads, ReceiverThrows(t)
      PROVE  NothingVanishes'
  <2>1. /\ dropped' = dropped \cup batch[t]
        /\ UNCHANGED <<arrived, cache, delivered, overwritten>>
    BY <1>7 DEF ReceiverThrows
  <2>2. batch'[t] = {} /\ \A u \in Threads \ {t} : batch'[u] = batch[u]
    BY <1>7 DEF ReceiverThrows, TypeOK
  <2> QED
    BY <2>1, <2>2
<1>8. CASE UNCHANGED vars
  BY <1>8 DEF vars
<1> QED
  BY <1>1, <1>2, <1>3, <1>4, <1>5, <1>6, <1>7, <1>8
  DEF Next, DDSStep, ThreadStep, PopFromStep

(* A take empties the cache of everything unread, so that what arrives later  *)
(* is newer than every batch; and a batch is handed out from its oldest on.   *)
LEMMA OrderedStep ==
  ASSUME TypeOK, Holding, Ordered, [Next]_vars
  PROVE  Ordered'
<1> USE DEF Ordered, Unread, ddsVars, popVars, fateVars
<1>1. CASE StoreSample
  <2>1. Unread' \subseteq Unread \cup {arrived + 1}
    BY <1>1 DEF StoreSample
  <2>2. \A t \in Threads : \A i \in delivered[t] \cup batch[t] : i < arrived + 1
    BY DEF TypeOK
  <2>3. batch' = batch /\ delivered' = delivered
    BY <1>1 DEF StoreSample
  <2> QED
    BY <2>1, <2>2, <2>3
<1>2. CASE StoreStreamType \/ WriterGone \/ WriterBack \/ Observe
  <2>1. Unread' \subseteq Unread /\ batch' = batch /\ delivered' = delivered
    BY <1>2 DEF StoreStreamType, WriterGone, WriterBack, Observe, CountSize,
                GetFrontTime
  <2> QED
    BY <2>1
<1>3. ASSUME NEW t \in Threads, Pop(t) \/ Dispatch(t)
      PROVE  Ordered'
  BY <1>3 DEF Pop, Dispatch
<1>4. ASSUME NEW t \in Threads, TakeSamples(t)
      PROVE  Ordered'
  <2>1. /\ cache' = cache \ Takeable /\ read' = read
        /\ batch' = [batch EXCEPT ![t] = Takeable]
        /\ delivered' = delivered
    BY <1>4 DEF TakeSamples
  <2>2. batch'[t] = Takeable /\ \A u \in Threads \ {t} : batch'[u] = batch[u]
    BY <2>1 DEF TypeOK
  <2>3. Takeable \subseteq Unread /\ Unread' = Unread \ Takeable
    BY <2>1 DEF Takeable
  <2>4. Takeable = {} \/ Unread' = {}
    BY <2>3 DEF Takeable
  <2>5. ASSUME NEW u \in Threads \ {t}
        PROVE  /\ \A i \in delivered'[u], j \in batch'[u] : i < j
               /\ \A i \in delivered'[u] \cup batch'[u], j \in Unread' : i < j
    BY <2>1, <2>2, <2>3
  <2>6. \A i \in delivered'[t], j \in batch'[t] : i < j
    BY <2>1, <2>2, <2>3
  <2>7. \A i \in delivered'[t] \cup batch'[t], j \in Unread' : i < j
    BY <2>1, <2>2, <2>3, <2>4
  <2> QED
    BY <2>5, <2>6, <2>7
<1>5. ASSUME NEW t \in Threads, DeliverSample(t)
      PROVE  Ordered'
  <2>1. PICK i \in batch[t] :
          /\ \A j \in batch[t] : i <= j
          /\ batch' = [batch EXCEPT ![t] = @ \ {i}]
          /\ delivered' = [delivered EXCEPT ![t] = @ \cup {i}]
    BY <1>5 DEF DeliverSample
  <2>2. Unread' = Unread
    BY <1>5 DEF DeliverSample
  <2>3. /\ batch'[t] = batch[t] \ {i} /\ delivered'[t] = delivered[t] \cup {i}
        /\ \A u \in Threads \ {t} :
             batch'[u] = batch[u] /\ delivered'[u] = delivered[u]
    BY <2>1 DEF TypeOK
  <2>4. \A j \in batch'[t] : i < j
    BY <2>1, <2>3 DEF TypeOK
  <2> QED
    BY <2>2, <2>3, <2>4
<1>6. ASSUME NEW t \in Threads,
             TakeStreamType(t) \/ DeliverStreamType(t) \/ PopFromReturns(t)
      PROVE  Ordered'
  BY <1>6 DEF TakeStreamType, DeliverStreamType, PopFromReturns
<1>7. ASSUME NEW t \in Threads, ReceiverThrows(t)
      PROVE  Ordered'
  <2>1. Unread' = Unread /\ delivered' = delivered
    BY <1>7 DEF ReceiverThrows
  <2>2. \A u \in Threads : batch'[u] \subseteq batch[u]
    BY <1>7 DEF ReceiverThrows, TypeOK
  <2> QED
    BY <2>1, <2>2
<1>8. CASE UNCHANGED vars
  BY <1>8 DEF vars
<1> QED
  BY <1>1, <1>2, <1>3, <1>4, <1>5, <1>6, <1>7, <1>8
  DEF Next, DDSStep, ThreadStep, PopFromStep

LEMMA TypesOrderedStep ==
  ASSUME TypeOK, Holding, TypesOrdered, [Next]_vars
  PROVE  TypesOrdered'
<1> USE DEF TypesOrdered, TypeOK, ddsVars, popVars, fateVars
<1>1. CASE StoreStreamType
  BY <1>1 DEF StoreStreamType
<1>2. CASE StoreSample \/ WriterGone \/ WriterBack \/ Observe
  BY <1>2 DEF StoreSample, WriterGone, WriterBack, Observe, CountSize, GetFrontTime
<1>3. ASSUME NEW t \in Threads,
             Pop(t) \/ Dispatch(t) \/ TakeSamples(t) \/ DeliverSample(t)
      PROVE  TypesOrdered'
  BY <1>3 DEF Pop, Dispatch, TakeSamples, DeliverSample
<1>4. ASSUME NEW t \in Threads, TakeStreamType(t)
      PROVE  TypesOrdered'
  BY <1>4 DEF TakeStreamType
<1>5. ASSUME NEW t \in Threads, DeliverStreamType(t)
      PROVE  TypesOrdered'
  BY <1>5 DEF DeliverStreamType
<1>6. ASSUME NEW t \in Threads, PopFromReturns(t) \/ ReceiverThrows(t)
      PROVE  TypesOrdered'
  BY <1>6 DEF PopFromReturns, ReceiverThrows
<1>7. CASE UNCHANGED vars
  BY <1>7 DEF vars
<1> QED
  BY <1>1, <1>2, <1>3, <1>4, <1>5, <1>6, <1>7
  DEF Next, DDSStep, ThreadStep, PopFromStep

LEMMA InductiveInvariant == Spec => []IInv
<1>1. IInv /\ [Next]_vars => IInv'
  BY TypeStep, HoldingStep, AtMostOnceStep, NothingVanishesStep, OrderedStep,
     TypesOrderedStep DEF IInv
<1> QED
  BY InitIInv, <1>1, PTL DEF Spec

--------------------------------------------------------------------------------

(* Every variable keeps its type. *)
THEOREM TypeCorrect == Spec => []TypeOK
<1>1. IInv => TypeOK
  BY DEF IInv
<1> QED
  BY <1>1, InductiveInvariant, PTL

(* However many threads pop and dispatch at the same time, no sample is       *)
(* handed out twice and none is in two places.                                *)
THEOREM AtMostOnceHolds == Spec => []AtMostOnce
<1>1. IInv => AtMostOnce
  BY DEF IInv
<1> QED
  BY <1>1, InductiveInvariant, PTL

(* No sample that was stored disappears without a reason. *)
THEOREM NothingVanishesHolds == Spec => []NothingVanishes
<1>1. IInv => NothingVanishes
  BY DEF IInv
<1> QED
  BY <1>1, InductiveInvariant, PTL

(* Each thread hands out samples and stream types in the order of arrival. *)
THEOREM InOrderHolds == Spec => InOrder
<1> DEFINE Step ==
      \A t \in Threads :
        /\ \A i \in delivered'[t] \ delivered[t], j \in delivered[t] : j < i
        /\ heard'[t] # heard[t] => heard[t] < heard'[t]
<1>1. ASSUME IInv, [Next]_vars
      PROVE  [Step]_vars
  <2> USE DEF ddsVars, popVars, fateVars
  <2>1. ASSUME NEW t \in Threads, DeliverSample(t)
        PROVE  Step
    <3>1. heard' = heard
      BY <2>1 DEF DeliverSample
    <3>2. \A u \in Threads : delivered'[u] \subseteq delivered[u] \cup batch[u]
      BY <1>1, <2>1 DEF DeliverSample, IInv, TypeOK
    <3>3. \A u \in Threads : \A i \in delivered[u], j \in batch[u] : i < j
      BY <1>1 DEF IInv, Ordered
    <3>4. \A u \in Threads :
            \A i \in delivered'[u] \ delivered[u], j \in delivered[u] : j < i
      BY <3>2, <3>3
    <3> QED
      BY <3>1, <3>4
  <2>2. ASSUME NEW t \in Threads, DeliverStreamType(t)
        PROVE  Step
    <3>1. delivered' = delivered
      BY <2>2 DEF DeliverStreamType
    <3>2. heard' = [heard EXCEPT ![t] = typeTaken[t]] /\ typeTaken[t] # 0
      BY <2>2 DEF DeliverStreamType
    <3>3. heard[t] < typeTaken[t] /\ heard \in [Threads -> 0..typesArrived]
      BY <1>1, <3>2 DEF IInv, TypeOK, TypesOrdered
    <3>4. \A u \in Threads : heard'[u] # heard[u] => u = t /\ heard'[u] = typeTaken[t]
      BY <3>2, <3>3
    <3>5. \A u \in Threads : heard'[u] # heard[u] => heard[u] < heard'[u]
      BY <3>3, <3>4
    <3> QED
      BY <3>1, <3>5
  <2>3. ASSUME NEW t \in Threads,
               Pop(t) \/ Dispatch(t) \/ TakeSamples(t) \/ TakeStreamType(t)
                 \/ PopFromReturns(t) \/ ReceiverThrows(t)
        PROVE  Step
    BY <2>3 DEF Pop, Dispatch, TakeSamples, TakeStreamType, PopFromReturns,
                ReceiverThrows
  <2>4. CASE DDSStep \/ Observe
    BY <2>4 DEF DDSStep, StoreSample, StoreStreamType, WriterGone, WriterBack,
                Observe, CountSize, GetFrontTime
  <2> QED
    BY <1>1, <2>1, <2>2, <2>3, <2>4 DEF Next, ThreadStep, PopFromStep
<1>2. Spec => [][Step]_vars
  BY <1>1, InductiveInvariant, PTL DEF Spec
<1> QED
  BY <1>2 DEF InOrder

================================================================================
