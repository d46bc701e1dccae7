------------------------ MODULE StreamItemChannelProofs ------------------------
(***************************************************************************)
(* What TLAPS proves of StreamItemChannel: for every number of samples,    *)
(* stream types and losses, every depth of the history and both kinds of   *)
(* network.                                                                *)
(***************************************************************************)
EXTENDS StreamItemChannel, ConverterProofs, SequenceTheorems

(* The theorems about the queue hold of the one in the channel. *)
QP == INSTANCE ReaderItemQueueProofs WITH
        Threads <- {Reception}, MaxSamples <- MaxWritten, MaxTypes <- MaxAnnounced,
        Observed <- FALSE, WriterLeaves <- FALSE

SampleMessage == {SampleMsg(s) : s \in 1..written}
TypeMessage == {TypeMsg(t) : t \in 1..announced}

WriterTypeOK ==
  /\ users \in {"one", "several"}
  /\ network = IF users = "one" THEN "ordered" ELSE "any"
  /\ written \in Nat
  /\ announced \in Nat \ {0}
  /\ transmitted \in 0..written
  /\ under \in Seq(1..announced) /\ Len(under) = written
  /\ flushing \in 0..MaxTransmits
  /\ sampleBatch \in Seq(SampleMessage)
  /\ typeBatch \in Seq(TypeMessage)
  /\ wire \in Seq(Message)
  /\ lost \subseteq Message

(* Messages of one kind are numbered in their order. *)
Ascending(s) ==
  \A i, j \in DOMAIN s : i < j /\ s[i].kind = s[j].kind => s[i].id < s[j].id

Before(s, t) ==
  \A i \in DOMAIN s, j \in DOMAIN t : s[i].kind = t[j].kind => s[i].id < t[j].id

(* What is still to come is newer than the numbers in ids. *)
StillToCome(ids, kind, s) ==
  \A i \in DOMAIN ids, j \in DOMAIN s : s[j].kind = kind => ids[i] < s[j].id

SendingOrder ==
  /\ Ascending(wire) /\ Ascending(sampleBatch) /\ Ascending(typeBatch)
  /\ Before(wire, sampleBatch) /\ Before(wire, typeBatch)

ArrivalOrder ==
  /\ origin \in [1..arrived -> 1..written]
  /\ typeOrigin \in [1..typesArrived -> 1..announced]
  /\ \A i, j \in 1..arrived : i < j => origin[i] < origin[j]
  /\ \A i, j \in 1..typesArrived : i < j => typeOrigin[i] < typeOrigin[j]
  /\ StillToCome(origin, "sample", wire) /\ StillToCome(origin, "sample", sampleBatch)
  /\ StillToCome(typeOrigin, "type", wire) /\ StillToCome(typeOrigin, "type", typeBatch)

(* The samples handed out have a last one. *)
HasLast ==
  delivered[Reception] # {} =>
    \E i \in delivered[Reception] : \A j \in delivered[Reception] : j <= i

(* Stream type t has arrived or is lost: it does not come later. *)
Here(t) == TypeMsg(t) \in lost \/ \E j \in 1..typesArrived : typeOrigin[j] = t

(* Here, or on the wire before the k-th message. *)
Ahead(t, k) == Here(t) \/ \E j \in 1..(k - 1) : wire[j] = TypeMsg(t)

(* On an ordered network under one thread no stream type is behind a sample   *)
(* that was written after it, but in the batches before the flush.            *)
TypesAhead ==
  /\ \A t \in 1..announced :
       Here(t) \/ Contains(wire, TypeMsg(t)) \/ Contains(typeBatch, TypeMsg(t))
  /\ flushing > 0 => typeBatch = <<>>
  /\ \A k \in DOMAIN wire :
       wire[k].kind = "sample" => Ahead(under[wire[k].id], k)
  /\ \A i \in 1..arrived : Here(under[origin[i]])

(* Stream type t is lost, or a newer one. *)
LostSince(t) == \E u \in t..announced : TypeMsg(u) \in lost

(* What arrived is newer than what the receiver knows only as long as it is   *)
(* in the cache or in the hands of popFrom.                                   *)
TypesPass ==
  \A j \in 1..typesArrived :
    \/ j <= typeCache
    \/ j <= typeTaken[Reception]
    \/ j <= heard[Reception]
    \/ LostSince(typeOrigin[j])

(* After the stream type was taken none is needed that is in the cache. *)
TypesTaken ==
  pc[Reception] = "type" =>
    \A i \in delivered[Reception] :
      \/ LostSince(under[origin[i]])
      \/ \E j \in 1..typesArrived :
           /\ under[origin[i]] <= typeOrigin[j]
           /\ j <= typeTaken[Reception] \/ j <= heard[Reception]

CInv ==
  /\ WriterTypeOK
  /\ SendingOrder
  /\ ArrivalOrder
  /\ QP!IInv
  /\ HasLast

KnownInv == network = "ordered" => TypesAhead /\ TypesPass /\ TypesTaken

--------------------------------------------------------------------------------
(* Sequences *)

LEMMA RemoveAtProperties ==
  ASSUME NEW S, NEW s \in Seq(S), NEW k \in DOMAIN s
  PROVE  /\ RemoveAt(s, k) \in Seq(S)
         /\ Len(RemoveAt(s, k)) = Len(s) - 1
         /\ \A i \in DOMAIN RemoveAt(s, k) :
              RemoveAt(s, k)[i] = IF i < k THEN s[i] ELSE s[i + 1]
<1> DEFINE front == SubSeq(s, 1, k - 1)
           back == SubSeq(s, k + 1, Len(s))
<1>1. Len(s) \in Nat /\ k \in 1..Len(s)
  BY LenProperties
<1>2. /\ front \in Seq(S) /\ Len(front) = k - 1
      /\ \A i \in 1..(k - 1) : front[i] = s[i]
  BY <1>1, ElementOfSeq, SubSeqProperties
<1>3. /\ back \in Seq(S) /\ Len(back) = Len(s) - k
      /\ \A i \in 1..(Len(s) - k) : back[i] = s[k + i]
  <2>1. /\ back \in Seq(S)
        /\ Len(back) = IF k + 1 <= Len(s) THEN Len(s) - (k + 1) + 1 ELSE 0
        /\ \A i \in 1..(Len(s) - (k + 1) + 1) : back[i] = s[k + 1 + i - 1]
    BY <1>1, ElementOfSeq, SubSeqProperties
  <2> QED
    BY <1>1, <2>1
<1> HIDE DEF front, back
<1>4. /\ front \o back \in Seq(S)
      /\ Len(front \o back) = Len(front) + Len(back)
      /\ \A i \in 1..(Len(front) + Len(back)) :
           (front \o back)[i] = IF i <= Len(front) THEN front[i] ELSE back[i - Len(front)]
  BY <1>2, <1>3, ConcatProperties
<1>5. RemoveAt(s, k) = front \o back
  BY DEF RemoveAt, front, back
<1>6. Len(RemoveAt(s, k)) = Len(s) - 1
  BY <1>1, <1>2, <1>3, <1>4, <1>5
<1>7. ASSUME NEW i \in DOMAIN RemoveAt(s, k)
      PROVE  RemoveAt(s, k)[i] = IF i < k THEN s[i] ELSE s[i + 1]
  <2>1. i \in 1..(Len(s) - 1)
    BY <1>4, <1>5, <1>6, LenProperties
  <2>2. RemoveAt(s, k)[i] = IF i <= k - 1 THEN front[i] ELSE back[i - (k - 1)]
    <3>1. i \in 1..(Len(front) + Len(back)) /\ Len(front) = k - 1
      BY <1>1, <1>2, <1>3, <2>1
    <3> QED
      BY <1>4, <1>5, <3>1
  <2>3. CASE i < k
    BY <1>1, <1>2, <2>1, <2>2, <2>3
  <2>4. CASE ~(i < k)
    <3>1. i - (k - 1) \in 1..(Len(s) - k) /\ k + (i - (k - 1)) = i + 1
      BY <1>1, <2>1, <2>4
    <3> QED
      BY <1>1, <1>3, <2>1, <2>2, <2>4, <3>1
  <2> QED
    BY <2>3, <2>4
<1> QED
  BY <1>4, <1>5, <1>6, <1>7

(* What is removed leaves the order as it was. *)
LEMMA RemoveAtElements ==
  ASSUME NEW S, NEW s \in Seq(S), NEW k \in DOMAIN s,
         NEW i \in DOMAIN RemoveAt(s, k)
  PROVE  LET h == IF i < k THEN i ELSE i + 1
         IN  h \in DOMAIN s \ {k} /\ RemoveAt(s, k)[i] = s[h]
BY RemoveAtProperties, LenProperties

LEMMA RemoveAtKeeps ==
  ASSUME NEW S, NEW s \in Seq(S), NEW k \in DOMAIN s
  PROVE  \A h \in DOMAIN s \ {k} :
           LET i == IF h < k THEN h ELSE h - 1
           IN  i \in DOMAIN RemoveAt(s, k) /\ RemoveAt(s, k)[i] = s[h]
<1>1. /\ Len(s) \in Nat /\ DOMAIN s = 1..Len(s) /\ k \in 1..Len(s)
      /\ DOMAIN RemoveAt(s, k) = 1..(Len(s) - 1)
  BY RemoveAtProperties, LenProperties
<1>2. \A i \in 1..(Len(s) - 1) :
        RemoveAt(s, k)[i] = IF i < k THEN s[i] ELSE s[i + 1]
  BY <1>1, RemoveAtProperties
<1> TAKE h \in DOMAIN s \ {k}
<1>3. CASE h < k
  BY <1>1, <1>2, <1>3
<1>4. CASE ~(h < k)
  <2>1. h - 1 \in 1..(Len(s) - 1) /\ ~(h - 1 < k) /\ h - 1 + 1 = h
    BY <1>1, <1>4
  <2> QED
    BY <1>1, <1>2, <1>4, <2>1
<1> QED
  BY <1>3, <1>4

LEMMA RemoveAtOrder ==
  ASSUME NEW S, NEW s \in Seq(S), NEW k \in DOMAIN s
  PROVE  /\ Ascending(s) => Ascending(RemoveAt(s, k))
         /\ \A t : Before(s, t) => Before(RemoveAt(s, k), t)
         /\ \A ids, kind : StillToCome(ids, kind, s)
                             => StillToCome(ids, kind, RemoveAt(s, k))
<1> DEFINE r == RemoveAt(s, k)
           h(i) == IF i < k THEN i ELSE i + 1
<1>1. \A i \in DOMAIN r : h(i) \in DOMAIN s /\ r[i] = s[h(i)]
  BY RemoveAtElements
<1>2. \A i, j \in DOMAIN r : i < j => h(i) < h(j)
  BY RemoveAtProperties, LenProperties
<1> HIDE DEF r, h
<1>3. Ascending(s) => Ascending(r)
  BY <1>1, <1>2 DEF Ascending
<1>4. \A t : Before(s, t) => Before(r, t)
  BY <1>1 DEF Before
<1>5. \A ids, kind : StillToCome(ids, kind, s) => StillToCome(ids, kind, r)
  BY <1>1 DEF StillToCome
<1> QED
  BY <1>3, <1>4, <1>5 DEF r

LEMMA ConcatElements ==
  ASSUME NEW S, NEW s \in Seq(S), NEW t \in Seq(S)
  PROVE  /\ s \o t \in Seq(S)
         /\ Len(s \o t) = Len(s) + Len(t)
         /\ \A i \in DOMAIN s : i \in DOMAIN (s \o t) /\ (s \o t)[i] = s[i]
         /\ \A i \in DOMAIN t :
              Len(s) + i \in DOMAIN (s \o t) /\ (s \o t)[Len(s) + i] = t[i]
         /\ \A i \in DOMAIN (s \o t) :
              i \in DOMAIN s \/ (i > Len(s) /\ i - Len(s) \in DOMAIN t
                                   /\ (s \o t)[i] = t[i - Len(s)])
BY ConcatProperties, LenProperties

LEMMA ConcatOrder ==
  ASSUME NEW S, NEW s \in Seq(S), NEW t \in Seq(S)
  PROVE  /\ Ascending(s) /\ Ascending(t) /\ Before(s, t) => Ascending(s \o t)
         /\ \A u : Before(s, u) /\ Before(t, u) => Before(s \o t, u)
         /\ \A u : Before(u, s) /\ Before(u, t) => Before(u, s \o t)
         /\ \A ids, kind :
              StillToCome(ids, kind, s) /\ StillToCome(ids, kind, t)
                => StillToCome(ids, kind, s \o t)
<1> DEFINE c == s \o t
<1>1. \A i \in DOMAIN c :
        \/ i \in DOMAIN s /\ c[i] = s[i]
        \/ i > Len(s) /\ i - Len(s) \in DOMAIN t /\ c[i] = t[i - Len(s)]
  BY ConcatElements
<1>2. /\ DOMAIN s = 1..Len(s) /\ DOMAIN c \subseteq Nat /\ Len(s) \in Nat
  BY ConcatElements, LenProperties
<1> HIDE DEF c
<1>3. ASSUME Ascending(s), Ascending(t), Before(s, t)
      PROVE  Ascending(c)
  <2> SUFFICES ASSUME NEW i \in DOMAIN c, NEW j \in DOMAIN c,
                      i < j, c[i].kind = c[j].kind
               PROVE  c[i].id < c[j].id
    BY DEF Ascending
  <2>1. CASE i \in DOMAIN s /\ c[i] = s[i] /\ j \in DOMAIN s /\ c[j] = s[j]
    BY <1>3, <2>1 DEF Ascending
  <2>2. CASE /\ i \in DOMAIN s /\ c[i] = s[i]
             /\ j - Len(s) \in DOMAIN t /\ c[j] = t[j - Len(s)]
    BY <1>3, <2>2 DEF Before
  <2>3. CASE /\ i - Len(s) \in DOMAIN t /\ c[i] = t[i - Len(s)]
             /\ j - Len(s) \in DOMAIN t /\ c[j] = t[j - Len(s)]
    <3>1. i - Len(s) < j - Len(s)
      BY <1>2
    <3> QED
      BY <1>3, <2>3, <3>1 DEF Ascending
  <2> QED
    BY <1>1, <1>2, <2>1, <2>2, <2>3
<1>4. \A u : Before(s, u) /\ Before(t, u) => Before(c, u)
  BY <1>1 DEF Before
<1>5. \A u : Before(u, s) /\ Before(u, t) => Before(u, c)
  BY <1>1 DEF Before
<1>6. \A ids, kind : StillToCome(ids, kind, s) /\ StillToCome(ids, kind, t)
                       => StillToCome(ids, kind, c)
  BY <1>1 DEF StillToCome
<1> QED
  BY <1>3, <1>4, <1>5, <1>6 DEF c

--------------------------------------------------------------------------------
(* The queue *)

(* Whatever happens in the channel is a step of the queue, or none.           *)
LEMMA QueueStep ==
  ASSUME [Next]_vars
  PROVE  [QP!Next]_QP!vars
<1> USE DEF Q!ddsVars, QP!ddsVars, Q!popVars, QP!popVars, Q!fateVars, QP!fateVars,
            Q!Unread, QP!Unread, Q!Takeable, QP!Takeable
<1>1. CASE Q!StoreSample
  <2>1. QP!StoreSample
    BY <1>1 DEF Q!StoreSample, QP!StoreSample, Q!Cardinality, QP!Cardinality
  <2> QED
    BY <2>1 DEF QP!Next, QP!DDSStep
<1>2. CASE Q!StoreStreamType
  <2>1. QP!StoreStreamType
    BY <1>2 DEF Q!StoreStreamType, QP!StoreStreamType
  <2> QED
    BY <2>1 DEF QP!Next, QP!DDSStep
<1>3. CASE Q!Dispatch(Reception)
  <2>1. QP!Dispatch(Reception)
    BY <1>3 DEF Q!Dispatch, QP!Dispatch, Q!Triggered, QP!Triggered
  <2> QED
    BY <2>1 DEF QP!Next, QP!ThreadStep
<1>4. CASE Q!PopFromStep(Reception)
  <2>1. Q!TakeSamples(Reception) => QP!TakeSamples(Reception)
    BY DEF Q!TakeSamples, QP!TakeSamples
  <2>2. Q!DeliverSample(Reception) => QP!DeliverSample(Reception)
    BY DEF Q!DeliverSample, QP!DeliverSample
  <2>3. Q!TakeStreamType(Reception) => QP!TakeStreamType(Reception)
    BY DEF Q!TakeStreamType, QP!TakeStreamType
  <2>4. Q!DeliverStreamType(Reception) => QP!DeliverStreamType(Reception)
    BY DEF Q!DeliverStreamType, QP!DeliverStreamType
  <2>5. Q!PopFromReturns(Reception) => QP!PopFromReturns(Reception)
    BY DEF Q!PopFromReturns, QP!PopFromReturns
  <2>6. Q!ReceiverThrows(Reception) => QP!ReceiverThrows(Reception)
    BY DEF Q!ReceiverThrows, QP!ReceiverThrows
  <2>7. QP!PopFromStep(Reception)
    BY <1>4, <2>1, <2>2, <2>3, <2>4, <2>5, <2>6 DEF Q!PopFromStep, QP!PopFromStep
  <2> QED
    BY <2>7 DEF QP!Next, QP!ThreadStep
<1>5. CASE UNCHANGED queueVars
  BY <1>5 DEF queueVars, QP!vars
<1> QED
  BY <1>1, <1>2, <1>3, <1>4, <1>5
  DEF Next, vars, Write, Arrive, Lose, SendEarly, Dispatch, PopFromStep

LEMMA QueueInvariant ==
  ASSUME QP!IInv, [Next]_vars
  PROVE  QP!IInv'
<1>1. QP!QueueAssumption
  BY WriterAssumption, ChannelAssumption DEF QP!QueueAssumption
<1> QED
  BY <1>1, QueueStep, QP!TypeStep, QP!HoldingStep, QP!AtMostOnceStep,
     QP!NothingVanishesStep, QP!OrderedStep, QP!TypesOrderedStep DEF QP!IInv

(* What the other lemmas need of it. *)
LEMMA QueueFacts ==
  ASSUME QP!IInv
  PROVE  /\ arrived \in Nat /\ typesArrived \in Nat
         /\ typeCache \in 0..typesArrived
         /\ typeTaken \in [{Reception} -> 0..typesArrived]
         /\ heard \in [{Reception} -> 0..typesArrived]
         /\ pc \in [{Reception} -> {"idle", "take", "deliver", "type"}]
         /\ batch \in [{Reception} -> SUBSET (1..arrived)]
         /\ delivered \in [{Reception} -> SUBSET (1..arrived)]
         /\ \A i \in delivered[Reception], j \in batch[Reception] : i < j
         /\ pc[Reception] # "type" => typeTaken[Reception] = 0
         /\ typeTaken[Reception] # 0 => heard[Reception] < typeTaken[Reception]
BY DEF QP!IInv, QP!TypeOK, QP!Holding, QP!Ordered, QP!TypesOrdered

(* What the channel does besides to the numbers of arrival. *)
LEMMA NoArrival ==
  ASSUME QP!IInv, [Next]_vars, ~Arrive
  PROVE  UNCHANGED <<arrived, typesArrived, origin, typeOrigin>>
BY DEF Next, vars, netVars, queueVars, Write, Lose, SendEarly, Dispatch, PopFromStep,
       Q!ddsVars, Q!popVars, Q!fateVars, Q!Dispatch, Q!PopFromStep, Q!TakeSamples,
       Q!DeliverSample, Q!TakeStreamType, Q!DeliverStreamType, Q!PopFromReturns,
       Q!ReceiverThrows

LEMMA InitInvariants == Init => CInv /\ KnownInv
<1> SUFFICES ASSUME Init
             PROVE  CInv /\ KnownInv
  OBVIOUS
<1> USE DEF Init, WriterInit
<1>1. QP!IInv
  <2>1. QP!QueueAssumption
    BY WriterAssumption, ChannelAssumption DEF QP!QueueAssumption
  <2>2. QP!Init
    BY DEF Q!Init, QP!Init
  <2> QED
    BY <2>1, <2>2, QP!InitIInv
<1>2. written = 0 /\ announced = 1 /\ wire = <<>> /\ sampleBatch = <<>>
      /\ under = <<>> /\ origin = <<>> /\ typeOrigin = <<>>
  OBVIOUS
<1>3. arrived = 0 /\ typesArrived = 0 /\ delivered[Reception] = {} /\ flushing = 0
      /\ pc[Reception] = "idle"
  BY DEF Q!Init
<1>4. TypeMsg(1) \in TypeMessage /\ TypeMsg(1) \in Message
  BY <1>2 DEF TypeMessage, Message
<1>5. /\ typeBatch \in Seq(TypeMessage)
      /\ \/ typeBatch = <<>> /\ lost = {TypeMsg(1)}
         \/ typeBatch = <<TypeMsg(1)>> /\ lost = {}
  <2>1. CASE typeBatch = <<>>
    BY <2>1, EmptySeq
  <2>2. CASE typeBatch = <<TypeMsg(1)>>
    <3>1. typeBatch # <<>>
      BY <2>2
    <3> QED
      BY <1>4, <2>2, <3>1
  <2> QED
    BY <2>1, <2>2
<1>6. WriterTypeOK
  <2>1. /\ under \in Seq(1..announced) /\ sampleBatch \in Seq(SampleMessage)
        /\ wire \in Seq(Message) /\ Len(under) = 0
    BY <1>2, EmptySeq
  <2>2. lost \subseteq Message
    BY <1>4, <1>5
  <2>3. flushing \in 0..MaxTransmits
    BY <1>3, WriterAssumption
  <2> QED
    BY <1>2, <1>3, <1>5, <2>1, <2>2, <2>3 DEF WriterTypeOK
<1>7. SendingOrder
  BY <1>2, <1>5 DEF SendingOrder, Ascending, Before
<1>8. ArrivalOrder
  <2>1. 1..arrived = {} /\ 1..typesArrived = {} /\ DOMAIN origin = {} /\ DOMAIN typeOrigin = {}
    BY <1>2, <1>3
  <2> QED
    BY <1>2, <1>3, <2>1 DEF ArrivalOrder, StillToCome
<1>9. KnownInv
  <2>1. 1..announced = {1}
    BY <1>2
  <2>2. Here(1) \/ Contains(typeBatch, TypeMsg(1))
    BY <1>5 DEF Here, Contains
  <2>3. TypesAhead
    BY <1>2, <1>3, <2>1, <2>2 DEF TypesAhead
  <2> QED
    BY <1>3, <2>3 DEF KnownInv, TypesPass, TypesTaken
<1> QED
  BY <1>1, <1>3, <1>6, <1>7, <1>8, <1>9 DEF CInv, HasLast

--------------------------------------------------------------------------------
(* What a step leaves alone, and what grows *)

LEMMA MessagesGrow ==
  ASSUME WriterTypeOK, written' \in Nat, announced' \in Nat,
         written <= written', announced <= announced'
  PROVE  /\ Message \subseteq Message'
         /\ SampleMessage \subseteq SampleMessage'
         /\ TypeMessage \subseteq TypeMessage'
<1>1. 1..written \subseteq 1..written' /\ 1..announced \subseteq 1..announced'
  BY DEF WriterTypeOK
<1>2. /\ SampleMessage \subseteq SampleMessage'
      /\ TypeMessage \subseteq TypeMessage'
  BY <1>1 DEF SampleMessage, TypeMessage, SampleMsg, TypeMsg
<1> QED
  BY <1>2 DEF Message, SampleMessage, TypeMessage

LEMMA SameMessages ==
  ASSUME UNCHANGED <<written, announced>>
  PROVE  /\ Message' = Message
         /\ SampleMessage' = SampleMessage
         /\ TypeMessage' = TypeMessage
BY DEF Message, SampleMessage, TypeMessage

LEMMA Messages ==
  /\ Message = SampleMessage \cup TypeMessage
  /\ \A m \in SampleMessage :
       m.kind = "sample" /\ m.id \in 1..written /\ m = SampleMsg(m.id)
  /\ \A m \in TypeMessage :
       m.kind = "type" /\ m.id \in 1..announced /\ m = TypeMsg(m.id)
BY DEF Message, SampleMessage, TypeMessage, SampleMsg, TypeMsg

LEMMA ReceptionStep ==
  ASSUME Dispatch \/ PopFromStep
  PROVE  /\ UNCHANGED <<users, written, announced, under, sampleBatch, typeBatch,
                        flushing, transmitted, wire, network, origin, typeOrigin,
                        arrived, typesArrived>>
         /\ lost \subseteq lost'
<1>1. UNCHANGED <<users, written, announced, under, sampleBatch, typeBatch,
                  flushing, transmitted, wire, network, origin, typeOrigin>>
  BY DEF Dispatch, PopFromStep, writerVars, netVars
<1>2. UNCHANGED <<arrived, typesArrived>>
  BY DEF Dispatch, PopFromStep, Q!ddsVars, Q!popVars, Q!fateVars, Q!Dispatch,
         Q!PopFromStep, Q!TakeSamples, Q!DeliverSample, Q!TakeStreamType,
         Q!DeliverStreamType, Q!PopFromReturns, Q!ReceiverThrows
<1>3. lost \subseteq lost'
  BY DEF Dispatch, PopFromStep, netVars
<1> QED
  BY <1>1, <1>2, <1>3

(* The k-th message on the wire arrives. *)
LEMMA ArrivalStep ==
  ASSUME CInv, Arrive
  PROVE  \E k \in DOMAIN wire :
           /\ InTurn(k)
           /\ wire' = RemoveAt(wire, k)
           /\ UNCHANGED <<writerVars, network, lost>>
           /\ UNCHANGED <<pc, looping, batch, typeTaken, delivered, heard>>
           /\ \/ /\ wire[k] \in SampleMessage
                 /\ arrived' = arrived + 1
                 /\ origin' = Append(origin, wire[k].id)
                 /\ UNCHANGED <<typesArrived, typeOrigin, typeCache>>
              \/ /\ wire[k] \in TypeMessage
                 /\ typesArrived' = typesArrived + 1
                 /\ typeCache' = typesArrived + 1
                 /\ typeOrigin' = Append(typeOrigin, wire[k].id)
                 /\ UNCHANGED <<arrived, origin>>
<1>1. PICK k \in DOMAIN wire :
        /\ InTurn(k)
        /\ wire' = RemoveAt(wire, k)
        /\ \/ /\ wire[k].kind = "sample"
              /\ Q!StoreSample
              /\ origin' = Append(origin, wire[k].id)
              /\ UNCHANGED typeOrigin
           \/ /\ wire[k].kind = "type"
              /\ Q!StoreStreamType
              /\ typeOrigin' = Append(typeOrigin, wire[k].id)
              /\ UNCHANGED origin
  BY DEF Arrive
<1>2. UNCHANGED <<writerVars, network, lost>>
  BY DEF Arrive
<1>3. wire[k] \in Message
  BY ElementOfSeq, LenProperties DEF CInv, WriterTypeOK
<1>4. CASE wire[k].kind = "sample"
  <2>1. wire[k] \in SampleMessage
    BY <1>3, <1>4, Messages
  <2>2. /\ arrived' = arrived + 1
        /\ UNCHANGED <<pc, looping, batch, typeTaken, delivered, heard>>
        /\ UNCHANGED <<typesArrived, typeCache>>
    BY <1>1, <1>4 DEF Q!StoreSample, Q!popVars
  <2> QED
    BY <1>1, <1>2, <1>4, <2>1, <2>2
<1>5. CASE wire[k].kind = "type"
  <2>1. wire[k] \in TypeMessage
    BY <1>3, <1>5, Messages
  <2>2. /\ typesArrived' = typesArrived + 1 /\ typeCache' = typesArrived + 1
        /\ UNCHANGED <<pc, looping, batch, typeTaken, delivered, heard>>
        /\ UNCHANGED arrived
    BY <1>1, <1>5 DEF Q!StoreStreamType, Q!popVars, Q!fateVars
  <2> QED
    BY <1>1, <1>2, <1>5, <2>1, <2>2
<1> QED
  BY <1>1, <1>4, <1>5

LEMMA WriterTypeStep ==
  ASSUME CInv, [Next]_vars
  PROVE  WriterTypeOK'
<1> USE DEF WriterTypeOK
<1>0. WriterTypeOK
  BY DEF CInv
<1>1. CASE WriteSample /\ UNCHANGED <<netVars, queueVars>>
  <2>1. /\ written' = written + 1 /\ under' = Append(under, announced)
        /\ sampleBatch' = Append(sampleBatch, SampleMsg(written + 1))
        /\ UNCHANGED <<users, announced, typeBatch, flushing, transmitted, wire, network, lost>>
    BY <1>1 DEF WriteSample, netVars
  <2>2. /\ Message \subseteq Message' /\ SampleMessage \subseteq SampleMessage'
        /\ TypeMessage \subseteq TypeMessage'
    BY <1>0, <2>1, MessagesGrow
  <2>3. SampleMsg(written + 1) \in SampleMessage'
    <3>1. written + 1 \in 1..written'
      BY <1>0, <2>1
    <3> QED
      BY <3>1 DEF SampleMessage
  <2>4. sampleBatch' \in Seq(SampleMessage')
    BY <1>0, <2>1, <2>2, <2>3, SeqMonotonic, AppendProperties
  <2>5. typeBatch' \in Seq(TypeMessage') /\ wire' \in Seq(Message')
    BY <1>0, <2>1, <2>2, SeqMonotonic
  <2>6. under' \in Seq(1..announced') /\ Len(under') = written'
    <3>1. announced \in 1..announced
      BY <1>0, <1>1
    <3> QED
      BY <1>0, <2>1, <3>1, AppendProperties
  <2> QED
    BY <1>0, <2>1, <2>2, <2>4, <2>5, <2>6
<1>2. CASE WriteStreamType /\ UNCHANGED <<netVars, queueVars>>
  <2>1. /\ announced' = announced + 1
        /\ typeBatch' = Append(typeBatch, TypeMsg(announced + 1))
        /\ UNCHANGED <<users, written, under, sampleBatch, flushing, transmitted, wire,
                       network, lost>>
    BY <1>2 DEF WriteStreamType, netVars
  <2>2. /\ Message \subseteq Message' /\ SampleMessage \subseteq SampleMessage'
        /\ TypeMessage \subseteq TypeMessage' /\ 1..announced \subseteq 1..announced'
    BY <1>0, <2>1, MessagesGrow
  <2>3. TypeMsg(announced + 1) \in TypeMessage'
    <3>1. announced + 1 \in 1..announced'
      BY <1>0, <2>1
    <3> QED
      BY <3>1 DEF TypeMessage, TypeMsg
  <2>4. typeBatch' \in Seq(TypeMessage')
    BY <1>0, <2>1, <2>2, <2>3, SeqMonotonic, AppendProperties
  <2>5. /\ sampleBatch' \in Seq(SampleMessage') /\ wire' \in Seq(Message')
        /\ under' \in Seq(1..announced')
    BY <1>0, <2>1, <2>2, SeqMonotonic
  <2> QED
    BY <1>0, <2>1, <2>2, <2>4, <2>5
<1>3. CASE TransmitTypes /\ UNCHANGED <<netVars, queueVars>>
  <2>1. /\ wire' = wire \o typeBatch /\ typeBatch' = <<>> /\ flushing' = flushing + 1
        /\ UNCHANGED <<users, written, announced, under, sampleBatch, transmitted,
                       network, lost>>
    BY <1>3 DEF TransmitTypes, netVars
  <2>2. typeBatch \in Seq(Message)
    BY <1>0, Messages, SeqMonotonic
  <2>3. wire' \in Seq(Message)
    BY <1>0, <2>1, <2>2, ConcatProperties
  <2>4. typeBatch' \in Seq(TypeMessage)
    BY <2>1, EmptySeq
  <2>5. flushing' \in 0..MaxTransmits
    BY <1>0, <1>3, WriterAssumption DEF TransmitTypes
  <2> QED
    BY <1>0, <2>1, <2>3, <2>4, <2>5, SameMessages
<1>4. CASE TransmitSamples /\ UNCHANGED <<netVars, queueVars>>
  <2>1. /\ wire' = wire \o sampleBatch /\ sampleBatch' = <<>> /\ flushing' = flushing - 1
        /\ transmitted' = written
        /\ UNCHANGED <<users, written, announced, under, typeBatch, network, lost>>
    BY <1>4 DEF TransmitSamples, netVars
  <2>2. sampleBatch \in Seq(Message)
    BY <1>0, Messages, SeqMonotonic
  <2>3. wire' \in Seq(Message)
    BY <1>0, <2>1, <2>2, ConcatProperties
  <2>4. sampleBatch' \in Seq(SampleMessage)
    BY <2>1, EmptySeq
  <2>5. flushing' \in 0..MaxTransmits
    BY <1>0, <1>4, WriterAssumption DEF TransmitSamples
  <2> QED
    BY <1>0, <2>1, <2>3, <2>4, <2>5, SameMessages
<1>5. CASE TransmitFails /\ UNCHANGED <<netVars, queueVars>>
  <2>1. flushing' \in 0..MaxTransmits
    BY <1>0, <1>5, WriterAssumption DEF TransmitFails
  <2>2. UNCHANGED <<users, written, announced, under, sampleBatch, typeBatch, transmitted,
                    wire, network, lost>>
    BY <1>5 DEF TransmitFails, netVars
  <2> QED
    BY <1>0, <2>1, <2>2, SameMessages
<1>6. CASE SendEarly
  <2>1. UNCHANGED <<users, written, announced, under, flushing, transmitted, network, lost>>
    BY <1>6 DEF SendEarly, netVars
  <2>2. typeBatch \in Seq(Message) /\ sampleBatch \in Seq(Message)
    BY <1>0, Messages, SeqMonotonic
  <2>3. /\ wire \o typeBatch \in Seq(Message) /\ wire \o sampleBatch \in Seq(Message)
        /\ <<>> \in Seq(SampleMessage) /\ <<>> \in Seq(TypeMessage)
    BY <1>0, <2>2, EmptySeq, ConcatProperties
  <2>4. /\ wire' \in Seq(Message) /\ sampleBatch' \in Seq(SampleMessage)
        /\ typeBatch' \in Seq(TypeMessage)
    BY <1>0, <1>6, <2>3 DEF SendEarly
  <2> QED
    BY <1>0, <2>1, <2>4, SameMessages
<1>7. CASE Arrive \/ Lose
  <2>1. UNCHANGED <<users, written, announced, under, sampleBatch, typeBatch, flushing,
                    transmitted, network>>
    BY <1>7 DEF Arrive, Lose, writerVars
  <2>2. PICK k \in DOMAIN wire :
          wire' = RemoveAt(wire, k) /\ (lost' = lost \/ lost' = lost \cup {wire[k]})
    BY <1>7 DEF Arrive, Lose
  <2>3. wire[k] \in Message
    BY <1>0, ElementOfSeq, LenProperties
  <2>4. wire' \in Seq(Message) /\ lost' \subseteq Message
    BY <1>0, <2>2, <2>3, RemoveAtProperties
  <2> QED
    BY <1>0, <2>1, <2>4, SameMessages
<1>8. CASE Dispatch \/ PopFromStep
  <2>1. UNCHANGED <<users, written, announced, under, sampleBatch, typeBatch, flushing,
                    transmitted, wire, network>>
    BY <1>8, ReceptionStep
  <2>2. lost' = lost \/ \E t \in 1..typesArrived : lost' = lost \cup {TypeMsg(typeOrigin[t])}
    <3>1. typeTaken[Reception] \in 0..typesArrived /\ typesArrived \in Nat
      BY QueueFacts DEF CInv
    <3>2. typeTaken[Reception] # 0 => typeTaken[Reception] \in 1..typesArrived
      BY <3>1
    <3> QED
      BY <1>8, <3>2 DEF Dispatch, PopFromStep, netVars
  <2>3. lost' \subseteq Message
    BY <1>0, <2>2 DEF CInv, ArrivalOrder, Message
  <2> QED
    BY <1>0, <2>1, <2>3, SameMessages
<1>9. CASE UNCHANGED vars
  BY <1>0, <1>9, SameMessages DEF vars, writerVars, netVars
<1> QED
  BY <1>1, <1>2, <1>3, <1>4, <1>5, <1>6, <1>7, <1>8, <1>9
  DEF Next, Write, WriterStep

--------------------------------------------------------------------------------
(* The order of sending *)

LEMMA AppendOrder ==
  ASSUME NEW S, NEW s \in Seq(S), NEW m \in S
  PROVE  /\ Ascending(s) /\ (\A i \in DOMAIN s : s[i].kind = m.kind => s[i].id < m.id)
              => Ascending(Append(s, m))
         /\ \A u : Before(u, s) /\ (\A i \in DOMAIN u : u[i].kind = m.kind => u[i].id < m.id)
                     => Before(u, Append(s, m))
         /\ \A ids, kind :
              /\ StillToCome(ids, kind, s)
              /\ m.kind = kind => \A i \in DOMAIN ids : ids[i] < m.id
              => StillToCome(ids, kind, Append(s, m))
<1> DEFINE a == Append(s, m)
<1>1. /\ Len(s) \in Nat /\ DOMAIN s = 1..Len(s) /\ DOMAIN a = 1..(Len(s) + 1)
      /\ \A i \in DOMAIN s : a[i] = s[i]
      /\ a[Len(s) + 1] = m
  BY LenProperties, AppendProperties
<1> HIDE DEF a
<1>2. \A i \in DOMAIN a : i \in DOMAIN s \/ i = Len(s) + 1
  BY <1>1
<1>3. ASSUME Ascending(s), \A i \in DOMAIN s : s[i].kind = m.kind => s[i].id < m.id
      PROVE  Ascending(a)
  <2> SUFFICES ASSUME NEW i \in DOMAIN a, NEW j \in DOMAIN a,
                      i < j, a[i].kind = a[j].kind
               PROVE  a[i].id < a[j].id
    BY DEF Ascending
  <2>1. i \in DOMAIN s /\ a[i] = s[i]
    BY <1>1, <1>2
  <2>2. CASE j \in DOMAIN s
    BY <1>1, <1>3, <2>1, <2>2 DEF Ascending
  <2>3. CASE j = Len(s) + 1
    BY <1>1, <1>3, <2>1, <2>3
  <2> QED
    BY <1>2, <2>2, <2>3
<1>4. \A u : Before(u, s) /\ (\A i \in DOMAIN u : u[i].kind = m.kind => u[i].id < m.id)
               => Before(u, a)
  BY <1>1, <1>2 DEF Before
<1>5. \A ids, kind :
        /\ StillToCome(ids, kind, s)
        /\ m.kind = kind => \A i \in DOMAIN ids : ids[i] < m.id
        => StillToCome(ids, kind, a)
  BY <1>1, <1>2 DEF StillToCome
<1> QED
  BY <1>3, <1>4, <1>5 DEF a

LEMMA SentMessages ==
  ASSUME WriterTypeOK
  PROVE  /\ \A i \in DOMAIN wire : wire[i] \in Message
         /\ \A i \in DOMAIN sampleBatch : sampleBatch[i] \in SampleMessage
         /\ \A i \in DOMAIN typeBatch : typeBatch[i] \in TypeMessage
         /\ sampleBatch \in Seq(Message) /\ typeBatch \in Seq(Message)
<1>1. /\ wire \in Seq(Message)
      /\ sampleBatch \in Seq(SampleMessage)
      /\ typeBatch \in Seq(TypeMessage)
  BY DEF WriterTypeOK
<1>2. sampleBatch \in Seq(Message) /\ typeBatch \in Seq(Message)
  BY <1>1, Messages, SeqMonotonic
<1> QED
  BY <1>1, <1>2, ElementOfSeq, LenProperties

(* Each batch is newer than everything of its kind that left before.          *)
LEMMA FlushOrder ==
  ASSUME WriterTypeOK, SendingOrder
  PROVE  /\ Ascending(wire \o sampleBatch) /\ Before(wire \o sampleBatch, typeBatch)
         /\ Ascending(wire \o typeBatch) /\ Before(wire \o typeBatch, sampleBatch)
<1>1. wire \in Seq(Message) /\ sampleBatch \in Seq(Message) /\ typeBatch \in Seq(Message)
  BY SentMessages DEF WriterTypeOK
<1>2. Before(sampleBatch, typeBatch) /\ Before(typeBatch, sampleBatch)
  BY SentMessages, Messages DEF Before
<1> QED
  BY <1>1, <1>2, ConcatOrder DEF SendingOrder

LEMMA EmptyOrder ==
  /\ Ascending(<<>>)
  /\ \A s : Before(s, <<>>)
  /\ \A ids, kind : StillToCome(ids, kind, <<>>)
BY DEF Ascending, Before, StillToCome

LEMMA SendingOrderStep ==
  ASSUME CInv, [Next]_vars
  PROVE  SendingOrder'
<1> USE DEF SendingOrder
<1>0. WriterTypeOK /\ SendingOrder
  BY DEF CInv
<1>1. CASE WriteSample
  <2>1. /\ sampleBatch' = Append(sampleBatch, SampleMsg(written + 1))
        /\ UNCHANGED <<typeBatch, wire>>
    BY <1>1 DEF WriteSample
  <2>2. written \in Nat
    BY <1>0 DEF WriterTypeOK
  <2>3. /\ SampleMsg(written + 1).kind = "sample"
        /\ SampleMsg(written + 1).id = written + 1
    BY DEF SampleMsg
  <2>4. \A m \in Message : m.kind = "sample" => m.id < written + 1
    BY <2>2, Messages
  <2>5. sampleBatch \in Seq(Message \cup {SampleMsg(written + 1)})
    BY <1>0, SentMessages, SeqMonotonic
  <2>6. /\ \A i \in DOMAIN sampleBatch : sampleBatch[i] \in Message
        /\ \A i \in DOMAIN wire : wire[i] \in Message
    BY <1>0, SentMessages, Messages
  <2>7. Ascending(sampleBatch') /\ Before(wire, sampleBatch')
    BY <1>0, <2>1, <2>3, <2>4, <2>5, <2>6, AppendOrder
  <2> QED
    BY <1>0, <2>1, <2>7
<1>2. CASE WriteStreamType
  <2>1. /\ typeBatch' = Append(typeBatch, TypeMsg(announced + 1))
        /\ UNCHANGED <<sampleBatch, wire>>
    BY <1>2 DEF WriteStreamType
  <2>2. announced \in Nat
    BY <1>0 DEF WriterTypeOK
  <2>3. /\ TypeMsg(announced + 1).kind = "type"
        /\ TypeMsg(announced + 1).id = announced + 1
    BY DEF TypeMsg
  <2>4. \A m \in Message : m.kind = "type" => m.id < announced + 1
    BY <2>2, Messages
  <2>5. typeBatch \in Seq(Message \cup {TypeMsg(announced + 1)})
    BY <1>0, SentMessages, SeqMonotonic
  <2>6. /\ \A i \in DOMAIN typeBatch : typeBatch[i] \in Message
        /\ \A i \in DOMAIN wire : wire[i] \in Message
    BY <1>0, SentMessages, Messages
  <2>7. Ascending(typeBatch') /\ Before(wire, typeBatch')
    BY <1>0, <2>1, <2>3, <2>4, <2>5, <2>6, AppendOrder
  <2> QED
    BY <1>0, <2>1, <2>7
<1>3. CASE TransmitTypes \/ TransmitSamples \/ SendEarly
  <2>1. \/ /\ wire' = wire \o typeBatch /\ typeBatch' = <<>>
           /\ UNCHANGED sampleBatch
        \/ /\ wire' = wire \o sampleBatch /\ sampleBatch' = <<>>
           /\ UNCHANGED typeBatch
    BY <1>3 DEF TransmitTypes, TransmitSamples, SendEarly
  <2> QED
    BY <1>0, <2>1, FlushOrder, EmptyOrder
<1>4. CASE Arrive \/ Lose
  <2>1. PICK k \in DOMAIN wire : wire' = RemoveAt(wire, k)
    BY <1>4 DEF Arrive, Lose
  <2>2. UNCHANGED <<sampleBatch, typeBatch>>
    BY <1>4 DEF Arrive, Lose, writerVars
  <2>3. wire \in Seq(Message)
    BY <1>0 DEF WriterTypeOK
  <2> QED
    BY <1>0, <2>1, <2>2, <2>3, RemoveAtOrder
<1>5. CASE TransmitFails \/ Dispatch \/ PopFromStep \/ UNCHANGED vars
  <2>1. UNCHANGED <<sampleBatch, typeBatch, wire>>
    BY <1>5, ReceptionStep DEF TransmitFails, vars, writerVars
  <2> QED
    BY <1>0, <2>1
<1> QED
  BY <1>1, <1>2, <1>3, <1>4, <1>5 DEF Next, Write, WriterStep

LEMMA ArrivalOrderStep ==
  ASSUME CInv, [Next]_vars
  PROVE  ArrivalOrder'
<1> USE DEF ArrivalOrder
<1>0. /\ WriterTypeOK /\ SendingOrder /\ ArrivalOrder
      /\ written \in Nat /\ announced \in Nat /\ wire \in Seq(Message)
      /\ arrived \in Nat /\ typesArrived \in Nat
      /\ DOMAIN origin = 1..arrived /\ DOMAIN typeOrigin = 1..typesArrived
  BY QueueFacts DEF CInv, WriterTypeOK
<1>1. CASE WriteSample /\ UNCHANGED <<netVars, queueVars>>
  <2>1. /\ sampleBatch' = Append(sampleBatch, SampleMsg(written + 1))
        /\ written' = written + 1
        /\ UNCHANGED <<announced, typeBatch, wire, origin, typeOrigin, arrived, typesArrived>>
    BY <1>1 DEF WriteSample, netVars, queueVars
  <2>2. /\ SampleMsg(written + 1).id = written + 1
        /\ SampleMsg(written + 1).kind = "sample"
    BY DEF SampleMsg
  <2>3. \A i \in DOMAIN origin : origin[i] < written + 1
    BY <1>0
  <2>4. sampleBatch \in Seq(Message \cup {SampleMsg(written + 1)})
    BY <1>0, SentMessages, SeqMonotonic
  <2>5. StillToCome(origin, "sample", sampleBatch')
    BY <1>0, <2>1, <2>2, <2>3, <2>4, AppendOrder
  <2>6. origin \in [1..arrived -> 1..written']
    BY <1>0, <2>1
  <2> QED
    BY <1>0, <2>1, <2>5, <2>6
<1>2. CASE WriteStreamType /\ UNCHANGED <<netVars, queueVars>>
  <2>1. /\ typeBatch' = Append(typeBatch, TypeMsg(announced + 1))
        /\ announced' = announced + 1
        /\ UNCHANGED <<written, sampleBatch, wire, origin, typeOrigin, arrived, typesArrived>>
    BY <1>2 DEF WriteStreamType, netVars, queueVars
  <2>2. /\ TypeMsg(announced + 1).id = announced + 1
        /\ TypeMsg(announced + 1).kind = "type"
    BY DEF TypeMsg
  <2>3. \A i \in DOMAIN typeOrigin : typeOrigin[i] < announced + 1
    BY <1>0
  <2>4. typeBatch \in Seq(Message \cup {TypeMsg(announced + 1)})
    BY <1>0, SentMessages, SeqMonotonic
  <2>5. StillToCome(typeOrigin, "type", typeBatch')
    BY <1>0, <2>1, <2>2, <2>3, <2>4, AppendOrder
  <2>6. typeOrigin \in [1..typesArrived -> 1..announced']
    BY <1>0, <2>1
  <2> QED
    BY <1>0, <2>1, <2>5, <2>6
<1>3. CASE \/ (TransmitTypes \/ TransmitSamples) /\ UNCHANGED <<netVars, queueVars>>
           \/ SendEarly
  <2>1. /\ UNCHANGED <<written, announced, origin, typeOrigin, arrived, typesArrived>>
        /\ \/ /\ wire' = wire \o typeBatch /\ typeBatch' = <<>>
              /\ UNCHANGED sampleBatch
           \/ /\ wire' = wire \o sampleBatch /\ sampleBatch' = <<>>
              /\ UNCHANGED typeBatch
    BY <1>3 DEF TransmitTypes, TransmitSamples, SendEarly, netVars, queueVars
  <2>2. /\ StillToCome(origin, "sample", typeBatch)
        /\ StillToCome(typeOrigin, "type", sampleBatch)
    BY <1>0, SentMessages, Messages DEF StillToCome
  <2>3. typeBatch \in Seq(Message) /\ sampleBatch \in Seq(Message)
    BY <1>0, SentMessages
  <2>4. /\ StillToCome(origin, "sample", wire \o typeBatch)
        /\ StillToCome(typeOrigin, "type", wire \o typeBatch)
        /\ StillToCome(origin, "sample", wire \o sampleBatch)
        /\ StillToCome(typeOrigin, "type", wire \o sampleBatch)
    BY <1>0, <2>2, <2>3, ConcatOrder
  <2> QED
    BY <1>0, <2>1, <2>4, EmptyOrder
<1>4. CASE Lose
  <2>1. /\ \E k \in DOMAIN wire : wire' = RemoveAt(wire, k)
        /\ UNCHANGED <<written, announced, sampleBatch, typeBatch, origin, typeOrigin,
                       arrived, typesArrived>>
    BY <1>4 DEF Lose, writerVars, queueVars
  <2>2. StillToCome(origin, "sample", wire') /\ StillToCome(typeOrigin, "type", wire')
    BY <1>0, <2>1, RemoveAtOrder
  <2> QED
    BY <1>0, <2>1, <2>2
<1>5. CASE Arrive
  <2>1. PICK k \in DOMAIN wire :
          /\ InTurn(k)
          /\ wire' = RemoveAt(wire, k)
          /\ UNCHANGED <<writerVars, network, lost>>
          /\ \/ /\ wire[k] \in SampleMessage
                /\ arrived' = arrived + 1
                /\ origin' = Append(origin, wire[k].id)
                /\ UNCHANGED <<typesArrived, typeOrigin>>
             \/ /\ wire[k] \in TypeMessage
                /\ typesArrived' = typesArrived + 1
                /\ typeOrigin' = Append(typeOrigin, wire[k].id)
                /\ UNCHANGED <<arrived, origin>>
    BY <1>5, ArrivalStep
  <2>2. UNCHANGED <<written, announced, sampleBatch, typeBatch>>
    BY <2>1 DEF writerVars
  <2>3. /\ StillToCome(origin, "sample", wire') /\ StillToCome(typeOrigin, "type", wire')
    BY <1>0, <2>1, RemoveAtOrder
  <2>4. ASSUME NEW i \in DOMAIN wire', wire'[i].kind = wire[k].kind
        PROVE  wire[k].id < wire'[i].id
    <3>0. i \in DOMAIN RemoveAt(wire, k) /\ wire'[i] = RemoveAt(wire, k)[i]
      BY <2>1
    <3>1. PICK h \in DOMAIN wire \ {k} : wire'[i] = wire[h]
      <4> DEFINE h == IF i < k THEN i ELSE i + 1
      <4>1. h \in DOMAIN wire \ {k} /\ RemoveAt(wire, k)[i] = wire[h]
        BY <1>0, <3>0, RemoveAtElements
      <4> HIDE DEF h
      <4> QED
        BY <3>0, <4>1
    <3>2. h > k
      <4>1. DOMAIN wire \subseteq Nat \ {0}
        BY <1>0, LenProperties
      <4>2. \A j \in 1..(k - 1) : wire[j].kind # wire[k].kind
        BY <2>1 DEF InTurn
      <4>3. h \notin 1..(k - 1)
        BY <2>4, <3>1, <4>2
      <4> QED
        BY <3>1, <4>1, <4>3
    <3> QED
      BY <1>0, <2>4, <3>1, <3>2 DEF SendingOrder, Ascending
  <2>5. CASE wire[k] \in SampleMessage
    <3>1. /\ wire[k].kind = "sample" /\ wire[k].id \in 1..written
      BY <2>5, Messages
    <3>2. /\ arrived' = arrived + 1
          /\ origin' = Append(origin, wire[k].id)
          /\ UNCHANGED <<typesArrived, typeOrigin>>
      BY <2>1, <2>5, Messages
    <3>4. /\ origin' \in [1..arrived' -> 1..written]
          /\ \A i \in 1..arrived : origin'[i] = origin[i]
          /\ origin'[arrived'] = wire[k].id
      <4> DEFINE S == 1..written
                 m == wire[k].id
                 longer == Append(origin, m)
      <4>1. origin \in Seq(S) /\ Len(origin) = arrived /\ m \in S
        BY <1>0, <3>1
      <4> HIDE DEF S, m
      <4>2. /\ longer \in Seq(S) /\ Len(longer) = arrived + 1
            /\ \A i \in 1..arrived : longer[i] = origin[i]
            /\ longer[arrived + 1] = m
        BY <4>1, AppendProperties
      <4> HIDE DEF longer
      <4>3. longer \in [1..(arrived + 1) -> S]
        BY <4>2, LenProperties
      <4> QED
        BY <3>2, <4>2, <4>3 DEF S, m, longer
    <3>5. \A i \in 1..arrived : origin[i] < wire[k].id
      BY <1>0, <3>1 DEF StillToCome
    <3>6. \A i \in 1..arrived' : i \in 1..arrived \/ i = arrived'
      BY <1>0, <3>2
    <3>7. \A i, j \in 1..arrived' : i < j => origin'[i] < origin'[j]
      <4>1. \A i, j \in 1..arrived : i < j => origin'[i] < origin'[j]
        BY <1>0, <3>4
      <4>2. \A i \in 1..arrived : origin'[i] < origin'[arrived']
        BY <3>4, <3>5
      <4>3. \A j \in 1..arrived' : ~(arrived' < j)
        BY <1>0, <3>2
      <4> QED
        BY <3>6, <4>1, <4>2, <4>3
    <3>8. StillToCome(origin', "sample", wire')
      BY <2>3, <2>4, <3>1, <3>4, <3>6, <1>0 DEF StillToCome
    <3>9. StillToCome(origin', "sample", sampleBatch)
      BY <1>0, <3>1, <3>4, <3>6 DEF StillToCome, SendingOrder, Before
    <3> QED
      BY <1>0, <2>2, <2>3, <3>2, <3>4, <3>7, <3>8, <3>9
  <2>6. CASE wire[k] \in TypeMessage
    <3>1. /\ wire[k].kind = "type" /\ wire[k].id \in 1..announced
      BY <2>6, Messages
    <3>2. /\ typesArrived' = typesArrived + 1
          /\ typeOrigin' = Append(typeOrigin, wire[k].id)
          /\ UNCHANGED <<arrived, origin>>
      BY <2>1, <2>6, Messages
    <3>4. /\ typeOrigin' \in [1..typesArrived' -> 1..announced]
          /\ \A i \in 1..typesArrived : typeOrigin'[i] = typeOrigin[i]
          /\ typeOrigin'[typesArrived'] = wire[k].id
      <4> DEFINE S == 1..announced
                 m == wire[k].id
                 longer == Append(typeOrigin, m)
      <4>1. typeOrigin \in Seq(S) /\ Len(typeOrigin) = typesArrived /\ m \in S
        BY <1>0, <3>1
      <4> HIDE DEF S, m
      <4>2. /\ longer \in Seq(S) /\ Len(longer) = typesArrived + 1
            /\ \A i \in 1..typesArrived : longer[i] = typeOrigin[i]
            /\ longer[typesArrived + 1] = m
        BY <4>1, AppendProperties
      <4> HIDE DEF longer
      <4>3. longer \in [1..(typesArrived + 1) -> S]
        BY <4>2, LenProperties
      <4> QED
        BY <3>2, <4>2, <4>3 DEF S, m, longer
    <3>5. \A i \in 1..typesArrived : typeOrigin[i] < wire[k].id
      BY <1>0, <3>1 DEF StillToCome
    <3>6. \A i \in 1..typesArrived' : i \in 1..typesArrived \/ i = typesArrived'
      BY <1>0, <3>2
    <3>7. \A i, j \in 1..typesArrived' : i < j => typeOrigin'[i] < typeOrigin'[j]
      <4>1. \A i, j \in 1..typesArrived : i < j => typeOrigin'[i] < typeOrigin'[j]
        BY <1>0, <3>4
      <4>2. \A i \in 1..typesArrived : typeOrigin'[i] < typeOrigin'[typesArrived']
        BY <3>4, <3>5
      <4>3. \A j \in 1..typesArrived' : ~(typesArrived' < j)
        BY <1>0, <3>2
      <4> QED
        BY <3>6, <4>1, <4>2, <4>3
    <3>8. StillToCome(typeOrigin', "type", wire')
      BY <2>3, <2>4, <3>1, <3>4, <3>6, <1>0 DEF StillToCome
    <3>9. StillToCome(typeOrigin', "type", typeBatch)
      BY <1>0, <3>1, <3>4, <3>6 DEF StillToCome, SendingOrder, Before
    <3> QED
      BY <1>0, <2>2, <2>3, <3>2, <3>4, <3>7, <3>8, <3>9
  <2> QED
    BY <2>1, <2>5, <2>6
<1>6. CASE \/ TransmitFails /\ UNCHANGED <<netVars, queueVars>>
           \/ Dispatch \/ PopFromStep \/ UNCHANGED vars
  <2>1. UNCHANGED <<written, announced, sampleBatch, typeBatch, wire, origin, typeOrigin,
                    arrived, typesArrived>>
    BY <1>6, ReceptionStep DEF TransmitFails, vars, writerVars, netVars, queueVars
  <2> QED
    BY <1>0, <2>1
<1> QED
  BY <1>1, <1>2, <1>3, <1>4, <1>5, <1>6 DEF Next, Write, WriterStep

--------------------------------------------------------------------------------
(* What the receiver was given *)

(* The next sample is newer than those handed out, so that it is the last.    *)
LEMMA DeliveryStep ==
  ASSUME CInv, [Next]_vars
  PROVE  \/ UNCHANGED delivered
         \/ \E i \in 1..arrived :
              /\ \A j \in delivered[Reception] : j < i
              /\ delivered'[Reception] = delivered[Reception] \cup {i}
<1>1. CASE Q!DeliverSample(Reception)
  <2>1. PICK i \in batch[Reception] :
          delivered' = [delivered EXCEPT ![Reception] = @ \cup {i}]
    BY <1>1 DEF Q!DeliverSample
  <2>2. /\ delivered'[Reception] = delivered[Reception] \cup {i}
        /\ i \in 1..arrived
        /\ \A j \in delivered[Reception] : j < i
    BY <2>1, QueueFacts DEF CInv
  <2> QED
    BY <2>2
<1>2. CASE ~Q!DeliverSample(Reception)
  <2>1. CASE Arrive
    BY <2>1, ArrivalStep
  <2>2. CASE ~Arrive
    BY <1>2, <2>2
    DEF Next, vars, netVars, queueVars, Write, Lose, SendEarly, Dispatch, PopFromStep,
        Q!ddsVars, Q!popVars, Q!fateVars, Q!Dispatch, Q!PopFromStep, Q!TakeSamples,
        Q!TakeStreamType, Q!DeliverStreamType, Q!PopFromReturns, Q!ReceiverThrows
  <2> QED
    BY <2>1, <2>2
<1> QED
  BY <1>1, <1>2

LEMMA HasLastStep ==
  ASSUME CInv, [Next]_vars
  PROVE  HasLast'
<1>1. CASE UNCHANGED delivered
  BY <1>1 DEF CInv, HasLast
<1>2. ASSUME NEW i \in 1..arrived,
             \A j \in delivered[Reception] : j < i,
             delivered'[Reception] = delivered[Reception] \cup {i}
      PROVE  HasLast'
  <2>1. \A j \in delivered[Reception] : j \in Nat /\ i \in Nat
    BY QueueFacts DEF CInv
  <2>2. \A j \in delivered'[Reception] : j <= i
    BY <1>2, <2>1
  <2> QED
    BY <1>2, <2>2 DEF HasLast
<1> QED
  BY <1>1, <1>2, DeliveryStep

LEMMA ChannelInvariant == Spec => []CInv
<1>1. Init => CInv
  BY InitInvariants
<1>2. CInv /\ [Next]_vars => CInv'
  BY WriterTypeStep, SendingOrderStep, ArrivalOrderStep, QueueInvariant, HasLastStep
  DEF CInv
<1> QED
  BY <1>1, <1>2, PTL DEF Spec

LEMMA InjectiveConcat ==
  ASSUME NEW S, NEW s \in Seq(S), NEW t \in Seq(S),
         IsInjective(s), IsInjective(t), \A i \in DOMAIN s, j \in DOMAIN t : s[i] # t[j]
  PROVE  IsInjective(s \o t)
<1> DEFINE c == s \o t
<1>1. \A i \in DOMAIN c :
        \/ i \in DOMAIN s /\ c[i] = s[i]
        \/ i - Len(s) \in DOMAIN t /\ c[i] = t[i - Len(s)]
  BY ConcatElements
<1>2. DOMAIN c \subseteq Nat /\ Len(s) \in Nat
  BY ConcatElements, LenProperties
<1> HIDE DEF c
<1> SUFFICES ASSUME NEW i \in DOMAIN c, NEW j \in DOMAIN c, c[i] = c[j]
             PROVE  i = j
  BY DEF IsInjective, c
<1>3. CASE i \in DOMAIN s /\ c[i] = s[i]
  BY <1>1, <1>3 DEF IsInjective
<1>4. CASE i - Len(s) \in DOMAIN t /\ c[i] = t[i - Len(s)]
  <2>1. j - Len(s) \in DOMAIN t /\ c[j] = t[j - Len(s)]
    BY <1>1, <1>4
  <2>2. i - Len(s) = j - Len(s)
    BY <1>4, <2>1 DEF IsInjective
  <2> QED
    BY <1>2, <2>2
<1> QED
  BY <1>1, <1>3, <1>4

LEMMA AscendingIsInjective ==
  ASSUME WriterTypeOK, NEW s \in Seq(Message), Ascending(s)
  PROVE  IsInjective(s)
<1>1. DOMAIN s \subseteq Nat /\ \A i \in DOMAIN s : s[i].id \in Nat
  BY Messages, ElementOfSeq, LenProperties
<1> SUFFICES ASSUME NEW i \in DOMAIN s, NEW j \in DOMAIN s, s[i] = s[j]
             PROVE  i = j
  BY DEF IsInjective
<1>2. ~(i < j) /\ ~(j < i)
  BY <1>1 DEF Ascending
<1> QED
  BY <1>1, <1>2

(* What is held back or on its way is so once, whatever was lost or sent early. *)
LEMMA PendingOnce ==
  ASSUME CInv
  PROVE  LET pending == sampleBatch \o typeBatch \o wire
         IN  ToSet(pending) \subseteq Message /\ IsInjective(pending)
<1> DEFINE batches == sampleBatch \o typeBatch
           pending == batches \o wire
<1>0. WriterTypeOK /\ SendingOrder /\ wire \in Seq(Message)
  BY DEF CInv, WriterTypeOK
<1>1. sampleBatch \in Seq(Message) /\ typeBatch \in Seq(Message)
  BY <1>0, SentMessages
<1>2. IsInjective(sampleBatch) /\ IsInjective(typeBatch) /\ IsInjective(wire)
  BY <1>0, <1>1, AscendingIsInjective DEF SendingOrder
<1>3. \A i \in DOMAIN sampleBatch, j \in DOMAIN typeBatch : sampleBatch[i] # typeBatch[j]
  BY <1>0, SentMessages, Messages
<1>4. batches \in Seq(Message) /\ IsInjective(batches)
  BY <1>1, <1>2, <1>3, InjectiveConcat, ConcatProperties
<1>5. \A m \in Message : m.id \in Nat
  BY Messages
<1>6. /\ \A i \in DOMAIN sampleBatch, j \in DOMAIN wire : sampleBatch[i] # wire[j]
      /\ \A i \in DOMAIN typeBatch, j \in DOMAIN wire : typeBatch[i] # wire[j]
  <2>1. \A j \in DOMAIN wire : wire[j].id \in Nat
    BY <1>0, <1>5, SentMessages
  <2>2. ASSUME NEW i \in DOMAIN sampleBatch, NEW j \in DOMAIN wire,
               sampleBatch[i] = wire[j]
        PROVE  FALSE
    BY <1>0, <2>1, <2>2 DEF SendingOrder, Before
  <2>3. ASSUME NEW i \in DOMAIN typeBatch, NEW j \in DOMAIN wire,
               typeBatch[i] = wire[j]
        PROVE  FALSE
    BY <1>0, <2>1, <2>3 DEF SendingOrder, Before
  <2> QED
    BY <2>2, <2>3
<1>7. \A i \in DOMAIN batches, j \in DOMAIN wire : batches[i] # wire[j]
  <2>1. \A i \in DOMAIN batches :
          \/ i \in DOMAIN sampleBatch /\ batches[i] = sampleBatch[i]
          \/ i - Len(sampleBatch) \in DOMAIN typeBatch
               /\ batches[i] = typeBatch[i - Len(sampleBatch)]
    BY <1>1, ConcatElements
  <2> QED
    BY <1>6, <2>1
<1> HIDE DEF batches
<1>8. pending \in Seq(Message) /\ IsInjective(pending)
  BY <1>0, <1>2, <1>4, <1>7, InjectiveConcat, ConcatProperties
<1> HIDE DEF pending
<1>9. ToSet(pending) \subseteq Message
  BY <1>8, ElementOfSeq, LenProperties DEF ToSet
<1> QED
  BY <1>8, <1>9 DEF pending, batches

--------------------------------------------------------------------------------

(* Every variable keeps its type, and no message is on its way twice.         *)
THEOREM TypeCorrect == Spec => []TypeOK
<1>1. ASSUME CInv
      PROVE  TypeOK
  <2>1. /\ flushing \in 0..MaxTransmits /\ transmitted \in 0..written
        /\ network \in {"ordered", "any"} /\ lost \subseteq Message
    BY <1>1 DEF CInv, WriterTypeOK
  <2>2. under \in [1..written -> 1..announced]
    BY <1>1, LenProperties DEF CInv, WriterTypeOK
  <2>3. origin \in [1..arrived -> 1..written] /\ typeOrigin \in [1..typesArrived -> 1..announced]
    BY <1>1 DEF CInv, ArrivalOrder
  <2>4. Q!TypeOK
    BY <1>1 DEF CInv, QP!IInv, Q!TypeOK, QP!TypeOK
  <2> QED
    BY <1>1, <2>1, <2>2, <2>3, <2>4, PendingOnce DEF TypeOK
<1> QED
  BY <1>1, ChannelInvariant, PTL

(* A time that fits into a time stamp reaches the receiver as it was written. *)
THEOREM TimesKeptHolds == Spec => []TimesKept
<1>1. TimesKept
  BY RoundTrip DEF TimesKept, SampleTime
<1> QED
  BY <1>1, PTL

--------------------------------------------------------------------------------
(* The channel implements a lossy one *)

LEMMA LastOf ==
  ASSUME NEW got \in SUBSET Nat, NEW i \in got, \A j \in got : j <= i
  PROVE  (CHOOSE n \in got : \A j \in got : j <= n) = i
<1> DEFINE last == CHOOSE n \in got : \A j \in got : j <= n
<1>1. last \in got /\ \A j \in got : j <= last
  OBVIOUS
<1> HIDE DEF last
<1>2. last = i
  BY <1>1
<1> QED
  BY <1>2 DEF last

(* What has arrived keeps its number. *)
LEMMA OriginsKept ==
  ASSUME CInv, [Next]_vars
  PROVE  /\ \A i \in 1..arrived : origin'[i] = origin[i]
         /\ \A i \in 1..typesArrived : typeOrigin'[i] = typeOrigin[i]
<1>1. CASE Arrive
  <2>1. PICK k \in DOMAIN wire :
          \/ /\ wire[k] \in SampleMessage
             /\ origin' = Append(origin, wire[k].id)
             /\ UNCHANGED typeOrigin
          \/ /\ wire[k] \in TypeMessage
             /\ typeOrigin' = Append(typeOrigin, wire[k].id)
             /\ UNCHANGED origin
    BY <1>1, ArrivalStep
  <2>2. /\ origin \in Seq(1..written) /\ Len(origin) = arrived
        /\ typeOrigin \in Seq(1..announced) /\ Len(typeOrigin) = typesArrived
    <3>1. /\ origin \in [1..arrived -> 1..written] /\ arrived \in Nat
          /\ typeOrigin \in [1..typesArrived -> 1..announced] /\ typesArrived \in Nat
          /\ DOMAIN origin = 1..arrived /\ DOMAIN typeOrigin = 1..typesArrived
          /\ written \in Nat /\ announced \in Nat
      BY QueueFacts DEF CInv, ArrivalOrder, WriterTypeOK
    <3>2. origin \in Seq(1..written) /\ Len(origin) = arrived
      BY <3>1
    <3>3. typeOrigin \in Seq(1..announced) /\ Len(typeOrigin) = typesArrived
      BY <3>1
    <3> QED
      BY <3>2, <3>3
  <2>3. CASE wire[k] \in SampleMessage /\ origin' = Append(origin, wire[k].id)
                                       /\ UNCHANGED typeOrigin
    <3>1. wire[k].id \in 1..written
      BY <2>3, Messages
    <3> QED
      BY <2>2, <2>3, <3>1, AppendProperties
  <2>4. CASE wire[k] \in TypeMessage /\ typeOrigin' = Append(typeOrigin, wire[k].id)
                                     /\ UNCHANGED origin
    <3>1. wire[k].id \in 1..announced
      BY <2>4, Messages
    <3> QED
      BY <2>2, <2>4, <3>1, AppendProperties
  <2> QED
    BY <2>1, <2>3, <2>4
<1>2. CASE ~Arrive
  BY <1>2, NoArrival DEF CInv
<1> QED
  BY <1>1, <1>2

(* From write to the receiver: on any network, under any number of writing    *)
(* threads, with exceptions of the receiver and transmits that fail half way, *)
(* the samples come in the order of writing and none twice.                   *)
THEOREM SampleChannelRefinement == Spec => ImplementsSampleChannel
<1>1. ASSUME Init
      PROVE  SampleChannel!Init
  BY <1>1 DEF Init, WriterInit, Q!Init, SampleChannel!Init, LastSample
<1>2. ASSUME CInv, CInv', [Next]_vars
      PROVE  [SampleChannel!Next]_SampleChannel!vars
  <2> DEFINE got == delivered[Reception]
  <2>0. /\ got \subseteq 1..arrived /\ got \subseteq Nat
        /\ delivered'[Reception] \subseteq Nat
        /\ arrived \in Nat /\ written \in Nat
        /\ origin \in [1..arrived -> 1..written]
    <3>1. /\ got \subseteq 1..arrived /\ arrived \in Nat /\ written \in Nat
          /\ origin \in [1..arrived -> 1..written]
      BY <1>2, QueueFacts DEF CInv, ArrivalOrder, WriterTypeOK
    <3>2. delivered'[Reception] \subseteq 1..arrived' /\ arrived' \in Nat
      BY <1>2 DEF CInv, QP!IInv, QP!TypeOK
    <3> QED
      BY <3>1, <3>2
  <2>1. written' = written \/ (written' = written + 1 /\ UNCHANGED delivered)
    BY <1>2, ArrivalStep, ReceptionStep
    DEF Next, Write, WriterStep, WriteSample, WriteStreamType, TransmitTypes,
        TransmitSamples, TransmitFails, Arrive, Lose, SendEarly, vars, writerVars, queueVars
  <2>2. \A i \in 1..arrived : origin'[i] = origin[i]
    BY <1>2, OriginsKept
  <2>3. CASE UNCHANGED delivered
    <3>1. LastSample' = LastSample
      <4>1. CASE got = {}
        BY <2>3, <4>1 DEF LastSample
      <4>2. CASE got # {}
        <5>1. PICK i \in got : \A j \in got : j <= i
          BY <1>2, <4>2 DEF CInv, HasLast
        <5>2. (CHOOSE n \in got : \A j \in got : j <= n) = i
          BY <2>0, <5>1, LastOf
        <5>3. LastSample = origin[i] /\ LastSample' = origin'[i]
          BY <2>3, <4>2, <5>2 DEF LastSample
        <5> QED
          BY <2>0, <2>2, <5>3
      <4> QED
        BY <4>1, <4>2
    <3> QED
      BY <2>1, <3>1 DEF SampleChannel!Next, SampleChannel!Send, SampleChannel!vars
  <2>4. ASSUME NEW i \in 1..arrived,
               \A j \in got : j < i,
               delivered'[Reception] = got \cup {i}
        PROVE  [SampleChannel!Next]_SampleChannel!vars
    <3>0. i \notin got /\ i \in Nat /\ delivered' # delivered
      BY <2>0, <2>4
    <3>1. \A j \in got \cup {i} : j <= i
      BY <2>0, <2>4
    <3>2. (CHOOSE n \in delivered'[Reception] : \A j \in delivered'[Reception] : j <= n) = i
      BY <2>0, <2>4, <3>1, LastOf
    <3>3. LastSample' = origin[i]
      BY <2>2, <2>4, <3>2 DEF LastSample
    <3>4. LastSample < origin[i] /\ LastSample \in Nat
      <4>1. CASE got = {}
        BY <2>0, <4>1 DEF LastSample
      <4>2. CASE got # {}
        <5>1. PICK h \in got : \A j \in got : j <= h
          BY <1>2, <4>2 DEF CInv, HasLast
        <5>2. (CHOOSE n \in got : \A j \in got : j <= n) = h
          BY <2>0, <5>1, LastOf
        <5>3. LastSample = origin[h]
          BY <4>2, <5>2 DEF LastSample
        <5>4. h < i /\ h \in 1..arrived
          BY <2>0, <2>4, <5>1
        <5> QED
          BY <1>2, <2>0, <5>3, <5>4 DEF CInv, ArrivalOrder
      <4> QED
        BY <4>1, <4>2
    <3>5. LastSample' \in (LastSample + 1)..written /\ written' = written
      BY <2>0, <2>1, <3>0, <3>3, <3>4
    <3> QED
      BY <3>5 DEF SampleChannel!Next, SampleChannel!Receive
  <2> QED
    BY <1>2, <2>3, <2>4, DeliveryStep
<1>3. Spec => SampleChannel!Init /\ [][SampleChannel!Next]_SampleChannel!vars
  BY <1>1, <1>2, ChannelInvariant, PTL DEF Spec
<1> QED
  BY <1>3 DEF ImplementsSampleChannel, SampleChannel!Spec

LEMMA HearingStep ==
  ASSUME CInv, [Next]_vars
  PROVE  \/ UNCHANGED heard
         \/ /\ typeTaken[Reception] \in 1..typesArrived
            /\ heard[Reception] < typeTaken[Reception]
            /\ heard'[Reception] = typeTaken[Reception]
            /\ UNCHANGED announced
<1>1. CASE PopFromStep /\ Q!DeliverStreamType(Reception)
  <2>1. /\ typeTaken[Reception] # 0
        /\ heard' = [heard EXCEPT ![Reception] = typeTaken[Reception]]
        /\ UNCHANGED announced
    BY <1>1, ReceptionStep DEF Q!DeliverStreamType
  <2>2. /\ typeTaken[Reception] \in 0..typesArrived /\ typesArrived \in Nat
        /\ heard \in [{Reception} -> 0..typesArrived]
        /\ heard[Reception] < typeTaken[Reception]
    BY <2>1, QueueFacts DEF CInv
  <2> QED
    BY <2>1, <2>2
<1>2. CASE ~(PopFromStep /\ Q!DeliverStreamType(Reception))
  <2>1. CASE Arrive
    BY <2>1, ArrivalStep
  <2>2. CASE ~Arrive
    BY <1>2, <2>2
    DEF Next, vars, netVars, queueVars, Write, Lose, SendEarly, Dispatch, PopFromStep,
        Q!ddsVars, Q!popVars, Q!fateVars, Q!Dispatch, Q!PopFromStep, Q!TakeSamples,
        Q!DeliverSample, Q!TakeStreamType, Q!PopFromReturns, Q!ReceiverThrows
  <2> QED
    BY <2>1, <2>2
<1> QED
  BY <1>1, <1>2

(* And so do the stream types. *)
THEOREM TypeChannelRefinement == Spec => ImplementsTypeChannel
<1>1. ASSUME Init
      PROVE  TypeChannel!Init
  BY <1>1 DEF Init, WriterInit, Q!Init, TypeChannel!Init, LastType
<1>2. ASSUME CInv, [Next]_vars
      PROVE  [TypeChannel!Next]_TypeChannel!vars
  <2>0. /\ heard[Reception] \in 0..typesArrived /\ typesArrived \in Nat
        /\ typeOrigin \in [1..typesArrived -> 1..announced] /\ announced \in Nat
        /\ \A i, j \in 1..typesArrived : i < j => typeOrigin[i] < typeOrigin[j]
        /\ \A i \in 1..typesArrived : typeOrigin'[i] = typeOrigin[i]
    BY <1>2, QueueFacts, OriginsKept DEF CInv, ArrivalOrder, WriterTypeOK
  <2>1. CASE UNCHANGED heard
    <3>1. announced' = announced \/ announced' = announced + 1
      BY <1>2, ReceptionStep
      DEF Next, Write, WriterStep, WriteSample, WriteStreamType, TransmitTypes,
          TransmitSamples, TransmitFails, Arrive, Lose, SendEarly, vars, writerVars
    <3>2. LastType' = LastType
      <4>1. CASE heard[Reception] = 0
        BY <2>1, <4>1 DEF LastType
      <4>2. CASE heard[Reception] # 0
        <5>1. heard[Reception] \in 1..typesArrived
          BY <2>0, <4>2
        <5> QED
          BY <2>0, <2>1, <4>2, <5>1 DEF LastType
      <4> QED
        BY <4>1, <4>2
    <3> QED
      BY <3>1, <3>2 DEF TypeChannel!Next, TypeChannel!Send, TypeChannel!vars
  <2>2. CASE /\ typeTaken[Reception] \in 1..typesArrived
             /\ heard[Reception] < typeTaken[Reception]
             /\ heard'[Reception] = typeTaken[Reception]
             /\ UNCHANGED announced
    <3>1. LastType' = typeOrigin[typeTaken[Reception]]
      BY <2>0, <2>2 DEF LastType
    <3>2. LastType < typeOrigin[typeTaken[Reception]] /\ LastType \in Nat
      <4>1. CASE heard[Reception] = 0
        BY <2>0, <2>2, <4>1 DEF LastType
      <4>2. CASE heard[Reception] # 0
        <5>1. heard[Reception] \in 1..typesArrived
          BY <2>0, <4>2
        <5> QED
          BY <2>0, <2>2, <4>2, <5>1 DEF LastType
      <4> QED
        BY <4>1, <4>2
    <3>3. LastType' \in (LastType + 1)..announced
      BY <2>0, <2>2, <3>1, <3>2
    <3> QED
      BY <2>2, <3>3 DEF TypeChannel!Next, TypeChannel!Receive
  <2> QED
    BY <1>2, <2>1, <2>2, HearingStep
<1>3. Spec => TypeChannel!Init /\ [][TypeChannel!Next]_TypeChannel!vars
  BY <1>1, <1>2, ChannelInvariant, PTL DEF Spec
<1> QED
  BY <1>3 DEF ImplementsTypeChannel, TypeChannel!Spec

--------------------------------------------------------------------------------
(* On an ordered network a sample does not overtake its stream type *)

LEMMA UnderKept ==
  ASSUME CInv, [Next]_vars
  PROVE  /\ \A s \in 1..written : under'[s] = under[s]
         /\ announced <= announced' /\ announced \in Nat /\ announced' \in Nat
         /\ lost \subseteq lost'
         /\ typesArrived <= typesArrived' /\ typesArrived \in Nat /\ typesArrived' \in Nat
         /\ UNCHANGED <<users, network>>
<1>0. announced \in Nat \ {0} /\ under \in Seq(1..announced) /\ Len(under) = written
      /\ typesArrived \in Nat
  BY QueueFacts DEF CInv, WriterTypeOK
<1>1. CASE WriteSample /\ UNCHANGED <<netVars, queueVars>>
  <2>1. /\ under' = Append(under, announced)
        /\ UNCHANGED <<announced, lost, typesArrived, users, network>>
    BY <1>1 DEF WriteSample, netVars, queueVars
  <2>2. announced \in 1..announced
    BY <1>0
  <2>3. \A s \in 1..written : under'[s] = under[s]
    BY <1>0, <2>1, <2>2, AppendProperties
  <2> QED
    BY <1>0, <2>1, <2>3
<1>2. CASE Arrive
  BY <1>0, <1>2, ArrivalStep DEF writerVars
<1>3. CASE Dispatch \/ PopFromStep
  BY <1>0, <1>3, ReceptionStep
<1>4. CASE (Write /\ ~WriteSample) \/ Lose \/ SendEarly \/ UNCHANGED vars
  <2>1. announced' = announced \/ announced' = announced + 1
    BY <1>4 DEF vars, netVars, queueVars, writerVars, Write, Lose, SendEarly, WriterStep,
        WriteStreamType, TransmitTypes, TransmitSamples, TransmitFails
  <2>2. UNCHANGED <<under, typesArrived, users, network>> /\ lost \subseteq lost'
    BY <1>4 DEF vars, netVars, queueVars, writerVars, Write, Lose, SendEarly, WriterStep,
        WriteStreamType, TransmitTypes, TransmitSamples, TransmitFails
  <2> QED
    BY <1>0, <2>1, <2>2
<1> QED
  BY <1>1, <1>2, <1>3, <1>4 DEF Next, Write, WriterStep

(* What has arrived or is lost stays so. *)
LEMMA HereStays ==
  ASSUME CInv, [Next]_vars, NEW t, Here(t)
  PROVE  Here(t)'
<1>1. CASE TypeMsg(t) \in lost
  BY <1>1, UnderKept DEF Here
<1>2. CASE \E j \in 1..typesArrived : typeOrigin[j] = t
  BY <1>2, UnderKept, OriginsKept DEF Here
<1> QED
  BY <1>1, <1>2 DEF Here

(* Taking a message from the wire, when it is here afterwards, leaves what is *)
(* ahead ahead.                                                               *)
LEMMA RemovalKeepsAhead ==
  ASSUME CInv, [Next]_vars, NEW k \in DOMAIN wire, wire' = RemoveAt(wire, k),
         \A t : wire[k] = TypeMsg(t) => Here(t)'
  PROVE  /\ \A t : Contains(wire, TypeMsg(t)) => Here(t)' \/ Contains(wire', TypeMsg(t))
         /\ \A i \in DOMAIN wire' : \E h \in DOMAIN wire \ {k} :
              /\ wire'[i] = wire[h]
              /\ \A t : Ahead(t, h) => Ahead(t, i)'
<1>0. /\ wire \in Seq(Message) /\ Len(wire) \in Nat /\ DOMAIN wire = 1..Len(wire)
      /\ k \in 1..Len(wire) /\ DOMAIN wire' = 1..(Len(wire) - 1)
      /\ Len(wire') = Len(wire) - 1
  BY RemoveAtProperties, LenProperties DEF CInv, WriterTypeOK
<1>1. \A i \in 1..(Len(wire) - 1) : wire'[i] = IF i < k THEN wire[i] ELSE wire[i + 1]
  BY <1>0, RemoveAtProperties
<1>2. ASSUME NEW h \in 1..Len(wire), h # k
      PROVE  \E i \in 1..(Len(wire) - 1) : wire'[i] = wire[h]
  <2>1. CASE h < k
    BY <1>0, <1>1, <2>1
  <2>2. CASE k < h
    <3>1. h - 1 \in 1..(Len(wire) - 1) /\ ~(h - 1 < k) /\ h - 1 + 1 = h
      BY <1>0, <2>2
    <3>2. wire'[h - 1] = wire[h]
      BY <1>1, <3>1
    <3> QED
      BY <1>0, <3>1, <3>2
  <2> QED
    BY <1>0, <1>2, <2>1, <2>2
<1>3. ASSUME NEW t, Contains(wire, TypeMsg(t))
      PROVE  Here(t)' \/ Contains(wire', TypeMsg(t))
  <2>1. PICK h \in 1..Len(wire) : wire[h] = TypeMsg(t)
    BY <1>3 DEF Contains
  <2>2. CASE h = k
    BY <2>1, <2>2
  <2>3. CASE h # k
    BY <1>0, <1>2, <2>1, <2>3 DEF Contains
  <2> QED
    BY <2>2, <2>3
<1>4. ASSUME NEW i \in DOMAIN wire'
      PROVE  \E h \in DOMAIN wire \ {k} :
               wire'[i] = wire[h] /\ \A t : Ahead(t, h) => Ahead(t, i)'
  <2>1. PICK h \in 1..Len(wire) :
          h # k /\ wire'[i] = wire[h] /\ (IF i < k THEN h = i ELSE h = i + 1)
    <3>1. CASE i < k
      BY <1>0, <1>1, <1>4, <3>1
    <3>2. CASE ~(i < k)
      BY <1>0, <1>1, <1>4, <3>2
    <3> QED
      BY <3>1, <3>2
  <2>2. ASSUME NEW t, Ahead(t, h)
        PROVE  Ahead(t, i)'
    <3>1. CASE Here(t)
      BY <3>1, HereStays DEF Ahead
    <3>2. ASSUME NEW j \in 1..(h - 1), wire[j] = TypeMsg(t)
          PROVE  Ahead(t, i)'
      <4>1. CASE j = k
        BY <3>2, <4>1 DEF Ahead
      <4>2. CASE j < k
        <5>1. j \in 1..(Len(wire) - 1) /\ wire'[j] = wire[j] /\ j \in 1..(i - 1)
          BY <1>0, <1>1, <1>4, <2>1, <3>2, <4>2
        <5> QED
          BY <3>2, <5>1 DEF Ahead
      <4>3. CASE k < j
        <5>1. /\ j - 1 \in 1..(Len(wire) - 1) /\ ~(j - 1 < k) /\ j - 1 + 1 = j
              /\ j - 1 \in 1..(i - 1)
          BY <1>0, <1>4, <2>1, <3>2, <4>3
        <5>2. wire'[j - 1] = TypeMsg(t)
          BY <1>1, <3>2, <5>1
        <5> QED
          BY <5>1, <5>2 DEF Ahead
      <4> QED
        BY <1>0, <3>2, <4>1, <4>2, <4>3
    <3> QED
      BY <2>2, <3>1, <3>2 DEF Ahead
  <2> QED
    BY <1>0, <2>1, <2>2
<1> QED
  BY <1>3, <1>4

LEMMA TypesAheadAfterRemoval ==
  ASSUME CInv, TypesAhead, [Next]_vars, NEW k \in DOMAIN wire, wire' = RemoveAt(wire, k),
         \A t : wire[k] = TypeMsg(t) => Here(t)',
         UNCHANGED <<written, announced, under, typeBatch, flushing>>,
         \A i \in 1..arrived' : Here(under[origin[i]])'
  PROVE  TypesAhead'
<1>1. ASSUME NEW t \in 1..announced'
      PROVE  Here(t)' \/ Contains(wire', TypeMsg(t)) \/ Contains(typeBatch', TypeMsg(t))
  BY HereStays, RemovalKeepsAhead DEF TypesAhead
<1>2. ASSUME NEW i \in DOMAIN wire', wire'[i].kind = "sample"
      PROVE  Ahead(under[wire[i].id], i)'
  <2>1. PICK h \in DOMAIN wire \ {k} :
          wire'[i] = wire[h] /\ \A t : Ahead(t, h) => Ahead(t, i)'
    BY RemovalKeepsAhead
  <2>2. Ahead(under[wire[h].id], h)
    BY <1>2, <2>1 DEF TypesAhead
  <2> QED
    BY <2>1, <2>2
<1>3. flushing' > 0 => typeBatch' = <<>>
  BY DEF TypesAhead
<1> QED
  BY <1>1, <1>2, <1>3 DEF TypesAhead

LEMMA TypesAheadStep ==
  ASSUME CInv, TypesAhead, network = "ordered", [Next]_vars
  PROVE  TypesAhead'
<1>0. /\ users = "one" /\ WriterTypeOK
      /\ wire \in Seq(Message) /\ Len(wire) \in Nat /\ DOMAIN wire = 1..Len(wire)
      /\ written \in Nat /\ announced \in Nat /\ under \in [1..written -> 1..announced]
      /\ arrived \in Nat /\ origin \in [1..arrived -> 1..written]
  BY QueueFacts, LenProperties DEF CInv, WriterTypeOK, ArrivalOrder
<1>1. /\ \A t : Here(t) => Here(t)'
      /\ \A s \in 1..written : under'[s] = under[s]
  BY HereStays, UnderKept
<1>2. /\ \A i \in DOMAIN wire : wire[i].kind = "sample" => wire[i].id \in 1..written
      /\ \A i \in 1..arrived : origin[i] \in 1..written
  BY <1>0, SentMessages, Messages
<1>3. CASE /\ WriteSample \/ WriteStreamType \/ TransmitFails \/ Dispatch \/ PopFromStep
              \/ UNCHANGED vars
           /\ UNCHANGED <<wire, origin, arrived>>
  <2>1. /\ \A k : \A t : Ahead(t, k) => Ahead(t, k)'
        /\ flushing' > 0 => typeBatch' = <<>>
    <3>1. CASE WriteSample \/ WriteStreamType \/ TransmitFails
      <4>1. \A k : \A t : Ahead(t, k) => Ahead(t, k)'
        BY <1>1, <1>3 DEF Ahead
      <4>2. CASE WriteSample \/ WriteStreamType
        <5>1. flushing' = 0
          BY <1>0, <4>2 DEF WriteSample, WriteStreamType, MayCall
        <5> QED
          BY <4>1, <5>1
      <4>3. CASE TransmitFails
        <5>1. flushing > 0 /\ typeBatch' = typeBatch
          BY <4>3 DEF TransmitFails
        <5> QED
          BY <4>1, <5>1 DEF TypesAhead
      <4> QED
        BY <3>1, <4>2, <4>3
    <3>2. CASE Dispatch \/ PopFromStep \/ UNCHANGED vars
      BY <1>1, <1>3, <3>2, ReceptionStep DEF vars, writerVars, Ahead, TypesAhead
    <3> QED
      BY <1>3, <3>1, <3>2
  <2>2. ASSUME NEW t \in 1..announced'
        PROVE  Here(t)' \/ Contains(wire', TypeMsg(t)) \/ Contains(typeBatch', TypeMsg(t))
    <3>1. CASE WriteStreamType
      <4>1. /\ typeBatch' = Append(typeBatch, TypeMsg(announced + 1))
            /\ announced' = announced + 1
        BY <3>1 DEF WriteStreamType
      <4>2. /\ typeBatch \in Seq(TypeMessage \cup {TypeMsg(announced + 1)})
            /\ TypeMsg(announced + 1) \in TypeMessage \cup {TypeMsg(announced + 1)}
        BY <1>0, SeqMonotonic DEF WriterTypeOK
      <4>3. /\ Len(typeBatch') = Len(typeBatch) + 1 /\ Len(typeBatch) \in Nat
            /\ \A i \in 1..Len(typeBatch) : typeBatch'[i] = typeBatch[i]
            /\ typeBatch'[Len(typeBatch) + 1] = TypeMsg(announced + 1)
        BY <4>1, <4>2, AppendProperties, LenProperties
      <4>4. \A m : Contains(typeBatch, m) => Contains(typeBatch', m)
        BY <4>3 DEF Contains
      <4>5. Contains(typeBatch', TypeMsg(announced + 1))
        BY <4>3 DEF Contains
      <4>6. t \in 1..announced \/ t = announced + 1
        BY <1>0, <4>1
      <4> QED
        BY <1>1, <1>3, <4>4, <4>5, <4>6 DEF TypesAhead
    <3>2. CASE ~WriteStreamType
      <4>1. UNCHANGED <<announced, typeBatch>>
        BY <1>3, <3>2, ReceptionStep DEF WriteSample, TransmitFails, vars, writerVars
      <4> QED
        BY <1>1, <1>3, <4>1 DEF TypesAhead
    <3> QED
      BY <3>1, <3>2
  <2>3. \A k \in DOMAIN wire' : wire'[k].kind = "sample" => Ahead(under[wire[k].id], k)'
    BY <1>1, <1>2, <1>3, <2>1 DEF TypesAhead
  <2>4. \A i \in 1..arrived' : Here(under[origin[i]])'
    BY <1>1, <1>2, <1>3 DEF TypesAhead
  <2> QED
    BY <2>1, <2>2, <2>3, <2>4 DEF TypesAhead
<1>4. CASE TransmitTypes /\ UNCHANGED <<netVars, queueVars>>
  <2>1. /\ wire' = wire \o typeBatch /\ typeBatch' = <<>>
        /\ UNCHANGED <<written, announced, under, arrived, origin>>
    BY <1>4 DEF TransmitTypes, netVars, queueVars
  <2>2. typeBatch \in Seq(Message) /\ \A j \in DOMAIN typeBatch : typeBatch[j].kind = "type"
    BY <1>0, SentMessages, Messages
  <2>3. /\ Len(wire') = Len(wire) + Len(typeBatch) /\ Len(typeBatch) \in Nat
        /\ DOMAIN wire' = 1..Len(wire') /\ DOMAIN typeBatch = 1..Len(typeBatch)
        /\ \A j \in 1..Len(wire) : wire'[j] = wire[j]
        /\ \A j \in 1..Len(typeBatch) : wire'[Len(wire) + j] = typeBatch[j]
        /\ \A k \in DOMAIN wire' :
             k \in 1..Len(wire) \/ (k - Len(wire) \in 1..Len(typeBatch)
                                      /\ wire'[k] = typeBatch[k - Len(wire)])
    BY <1>0, <2>1, <2>2, ConcatElements, LenProperties
  <2>4. ASSUME NEW t \in 1..announced'
        PROVE  Here(t)' \/ Contains(wire', TypeMsg(t))
    <3>1. Here(t) \/ Contains(wire, TypeMsg(t)) \/ Contains(typeBatch, TypeMsg(t))
      BY <2>1 DEF TypesAhead
    <3>2. \A j \in 1..Len(wire) : j \in 1..Len(wire')
      BY <1>0, <2>3
    <3>3. \A j \in 1..Len(typeBatch) : Len(wire) + j \in 1..Len(wire')
      BY <1>0, <2>3
    <3>4. Contains(wire, TypeMsg(t)) => Contains(wire', TypeMsg(t))
      BY <2>3, <3>2 DEF Contains
    <3>5. Contains(typeBatch, TypeMsg(t)) => Contains(wire', TypeMsg(t))
      BY <2>3, <3>3 DEF Contains
    <3> QED
      BY <1>1, <3>1, <3>4, <3>5
  <2>5. ASSUME NEW k \in DOMAIN wire', wire'[k].kind = "sample"
        PROVE  Ahead(under[wire[k].id], k)'
    <3>1. k \in 1..Len(wire) /\ wire'[k] = wire[k]
      BY <2>2, <2>3, <2>5
    <3>2. Ahead(under[wire[k].id], k)
      BY <1>0, <2>5, <3>1 DEF TypesAhead
    <3>3. \A j \in 1..(k - 1) : wire'[j] = wire[j]
      BY <1>0, <2>3, <3>1
    <3> QED
      BY <1>1, <2>1, <3>1, <3>2, <3>3 DEF Ahead
  <2>6. \A i \in 1..arrived' : Here(under[origin[i]])'
    BY <1>1, <1>2, <2>1 DEF TypesAhead
  <2> QED
    BY <2>1, <2>4, <2>5, <2>6 DEF TypesAhead
<1>5. CASE TransmitSamples /\ UNCHANGED <<netVars, queueVars>>
  <2>1. /\ wire' = wire \o sampleBatch /\ flushing > 0 /\ typeBatch = <<>> /\ flushing' = flushing - 1
        /\ UNCHANGED <<written, announced, under, arrived, origin, typeBatch>>
    BY <1>5 DEF TransmitSamples, netVars, queueVars, TypesAhead
  <2>2. /\ sampleBatch \in Seq(Message)
        /\ \A j \in DOMAIN sampleBatch : sampleBatch[j].id \in 1..written
    BY <1>0, SentMessages, Messages
  <2>3. /\ Len(wire') = Len(wire) + Len(sampleBatch) /\ Len(sampleBatch) \in Nat
        /\ DOMAIN wire' = 1..Len(wire')
        /\ \A j \in 1..Len(wire) : wire'[j] = wire[j]
        /\ \A k \in DOMAIN wire' :
             k \in 1..Len(wire) \/ (k > Len(wire) /\ k - Len(wire) \in DOMAIN sampleBatch
                                      /\ wire'[k] = sampleBatch[k - Len(wire)])
    BY <1>0, <2>1, <2>2, ConcatElements, LenProperties
  <2>4. ASSUME NEW t \in 1..announced
        PROVE  Here(t) \/ \E j \in 1..Len(wire) : wire[j] = TypeMsg(t)
    <3>1. ~Contains(typeBatch, TypeMsg(t))
      BY <2>1 DEF Contains
    <3> QED
      BY <3>1 DEF TypesAhead, Contains
  <2>5. ASSUME NEW t \in 1..announced'
        PROVE  Here(t)' \/ Contains(wire', TypeMsg(t))
    <3>1. \A j \in 1..Len(wire) : j \in 1..Len(wire')
      BY <1>0, <2>3
    <3> QED
      BY <1>1, <2>1, <2>3, <2>4, <3>1 DEF Contains
  <2>6. ASSUME NEW k \in DOMAIN wire', wire'[k].kind = "sample"
        PROVE  Ahead(under[wire[k].id], k)'
    <3>1. CASE k \in 1..Len(wire)
      <4>1. Ahead(under[wire[k].id], k) /\ wire'[k] = wire[k]
        BY <1>0, <2>3, <2>6, <3>1 DEF TypesAhead
      <4>2. \A j \in 1..(k - 1) : wire'[j] = wire[j]
        BY <1>0, <2>3, <3>1
      <4> QED
        BY <1>1, <2>1, <4>1, <4>2 DEF Ahead
    <3>2. CASE k > Len(wire) /\ wire'[k].id \in 1..written
      <4>1. PICK t \in 1..announced : t = under[wire'[k].id]
        BY <1>0, <3>2
      <4>2. \A j \in 1..Len(wire) : j \in 1..(k - 1)
        BY <1>0, <2>3, <3>2
      <4>3. Here(t)' \/ \E j \in 1..(k - 1) : wire'[j] = TypeMsg(t)
        BY <1>1, <2>3, <2>4, <4>2
      <4>4. Ahead(t, k)'
        BY <4>3 DEF Ahead
      <4> QED
        BY <2>1, <4>1, <4>4
    <3> QED
      BY <2>2, <2>3, <3>1, <3>2
  <2>7. \A i \in 1..arrived' : Here(under[origin[i]])'
    BY <1>1, <1>2, <2>1 DEF TypesAhead
  <2> QED
    BY <2>1, <2>5, <2>6, <2>7 DEF TypesAhead
<1>6. CASE Lose
  <2>1. PICK k \in DOMAIN wire : wire' = RemoveAt(wire, k) /\ lost' = lost \cup {wire[k]}
    BY <1>6 DEF Lose
  <2>2. UNCHANGED <<written, announced, under, typeBatch, flushing, arrived, origin>>
    BY <1>6 DEF Lose, writerVars, queueVars
  <2>3. \A t : wire[k] = TypeMsg(t) => Here(t)'
    BY <2>1 DEF Here
  <2>4. \A i \in 1..arrived' : Here(under[origin[i]])'
    BY <1>1, <1>2, <2>2 DEF TypesAhead
  <2> QED
    BY <2>1, <2>2, <2>3, <2>4, TypesAheadAfterRemoval
<1>7. CASE Arrive
  <2>1. PICK k \in DOMAIN wire :
          /\ InTurn(k)
          /\ wire' = RemoveAt(wire, k)
          /\ UNCHANGED <<writerVars, network, lost>>
          /\ \/ /\ wire[k] \in SampleMessage
                /\ arrived' = arrived + 1
                /\ origin' = Append(origin, wire[k].id)
                /\ UNCHANGED <<typesArrived, typeOrigin, typeCache>>
             \/ /\ wire[k] \in TypeMessage
                /\ typesArrived' = typesArrived + 1
                /\ typeCache' = typesArrived + 1
                /\ typeOrigin' = Append(typeOrigin, wire[k].id)
                /\ UNCHANGED <<arrived, origin>>
    BY <1>7, ArrivalStep
  <2>2. UNCHANGED <<written, announced, under, typeBatch, flushing>>
    BY <2>1 DEF writerVars
  <2>3. k = 1
    <3>1. network # "any"
      OBVIOUS
    <3>2. ~(1 \in 1..(k - 1)) /\ k \in 1..Len(wire)
      BY <1>0, <2>1, <3>1 DEF InTurn
    <3> QED
      BY <1>0, <3>2
  <2>4. CASE wire[k] \in TypeMessage
    <3>1. /\ typesArrived' = typesArrived + 1
          /\ typeOrigin' = Append(typeOrigin, wire[k].id)
          /\ UNCHANGED <<arrived, origin>>
      BY <2>1, <2>4, Messages
    <3>2. ASSUME NEW t, wire[k] = TypeMsg(t)
          PROVE  Here(t)'
      <4>1. wire[k].id = t /\ wire[k].id \in 1..announced
        BY <2>4, <3>2, Messages DEF TypeMsg
      <4>2. /\ typeOrigin \in Seq(1..announced) /\ Len(typeOrigin) = typesArrived
            /\ typesArrived \in Nat
        <5>1. /\ typeOrigin \in [1..typesArrived -> 1..announced]
              /\ DOMAIN typeOrigin = 1..typesArrived /\ typesArrived \in Nat
          BY QueueFacts DEF CInv, ArrivalOrder
        <5> QED
          BY <1>0, <5>1
      <4>3. typeOrigin'[typesArrived + 1] = t
        BY <3>1, <4>1, <4>2, AppendProperties
      <4> QED
        BY <3>1, <4>2, <4>3 DEF Here
    <3>3. \A i \in 1..arrived' : Here(under[origin[i]])'
      BY <1>1, <1>2, <2>2, <3>1 DEF TypesAhead
    <3> QED
      BY <2>1, <2>2, <3>2, <3>3, TypesAheadAfterRemoval
  <2>5. CASE wire[k] \in SampleMessage
    <3>1. /\ arrived' = arrived + 1
          /\ origin' = Append(origin, wire[k].id)
          /\ wire[k].kind = "sample" /\ wire[k].id \in 1..written
      BY <2>1, <2>5, Messages
    <3>2. \A t : wire[k] # TypeMsg(t)
      BY <3>1 DEF TypeMsg
    <3>3. Here(under[wire[k].id])
      <4>1. Ahead(under[wire[k].id], 1)
        BY <2>3, <3>1 DEF TypesAhead
      <4>2. 1..(1 - 1) = {}
        OBVIOUS
      <4> QED
        BY <4>1, <4>2 DEF Ahead
    <3>4. /\ \A i \in 1..arrived : origin'[i] = origin[i]
          /\ origin'[arrived + 1] = wire[k].id
      <4>1. origin \in Seq(1..written) /\ Len(origin) = arrived
        <5>1. DOMAIN origin = 1..arrived
          BY <1>0
        <5> QED
          BY <1>0, <5>1
      <4> QED
        BY <3>1, <4>1, AppendProperties
    <3>5. \A i \in 1..arrived' : i \in 1..arrived \/ i = arrived + 1
      BY <1>0, <3>1
    <3>6. ASSUME NEW i \in 1..arrived'
          PROVE  Here(under[origin[i]])'
      <4>1. Here(under[origin'[i]]) /\ origin'[i] \in 1..written
        BY <1>2, <3>1, <3>3, <3>4, <3>5 DEF TypesAhead
      <4> QED
        BY <1>1, <2>2, <4>1
    <3> QED
      BY <2>1, <2>2, <3>2, <3>6, TypesAheadAfterRemoval
  <2> QED
    BY <2>1, <2>4, <2>5
<1>8. CASE SendEarly
  BY <1>8 DEF SendEarly
<1> QED
  <2>1. CASE Write /\ ~TransmitTypes /\ ~TransmitSamples
    BY <1>3, <2>1 DEF Write, WriterStep, WriteSample, WriteStreamType, TransmitFails,
                      netVars, queueVars
  <2>2. CASE Dispatch \/ PopFromStep \/ UNCHANGED vars
    BY <1>3, <2>2, ReceptionStep DEF vars, netVars, queueVars
  <2> QED
    BY <1>4, <1>5, <1>6, <1>7, <1>8, <2>1, <2>2 DEF Next, Write

LEMMA LostStays ==
  ASSUME CInv, [Next]_vars, NEW t \in Nat, LostSince(t)
  PROVE  LostSince(t)'
<1>1. PICK u \in t..announced : TypeMsg(u) \in lost
  BY DEF LostSince
<1>2. u \in t..announced' /\ TypeMsg(u) \in lost'
  BY <1>1, UnderKept
<1> QED
  BY <1>2 DEF LostSince

LEMMA TypesPassStep ==
  ASSUME CInv, TypesPass, [Next]_vars
  PROVE  TypesPass'
<1>0. /\ typesArrived \in Nat /\ typeCache \in 0..typesArrived
      /\ typeTaken[Reception] \in 0..typesArrived /\ heard[Reception] \in 0..typesArrived
      /\ typeTaken \in [{Reception} -> 0..typesArrived]
      /\ typeOrigin \in [1..typesArrived -> 1..announced]
      /\ \A i, j \in 1..typesArrived : i < j => typeOrigin[i] < typeOrigin[j]
      /\ pc[Reception] # "type" => typeTaken[Reception] = 0
      /\ typeTaken[Reception] # 0 => heard[Reception] < typeTaken[Reception]
  BY QueueFacts DEF CInv, ArrivalOrder
<1>1. ASSUME NEW j \in 1..typesArrived, LostSince(typeOrigin[j])
      PROVE  LostSince(typeOrigin[j])'
  BY <1>0, <1>1, LostStays, OriginsKept
<1>2. CASE Arrive
  <2>1. PICK k \in DOMAIN wire :
          /\ UNCHANGED <<typeTaken, heard>>
          /\ \/ UNCHANGED <<typesArrived, typeCache>>
             \/ typesArrived' = typesArrived + 1 /\ typeCache' = typesArrived + 1
    BY <1>2, ArrivalStep
  <2>2. CASE UNCHANGED <<typesArrived, typeCache>>
    BY <1>1, <2>1, <2>2 DEF TypesPass
  <2>3. CASE typesArrived' = typesArrived + 1 /\ typeCache' = typesArrived + 1
    BY <1>0, <2>3 DEF TypesPass
  <2> QED
    BY <2>1, <2>2, <2>3
<1>3. CASE PopFromStep /\ Q!TakeStreamType(Reception)
  <2>1. /\ pc[Reception] = "deliver"
        /\ typeTaken'[Reception] = typeCache
        /\ UNCHANGED <<typesArrived, heard>>
    BY <1>0, <1>3 DEF Q!TakeStreamType, Q!fateVars
  <2>2. typeTaken[Reception] = 0
    BY <1>0, <2>1
  <2>3. ASSUME NEW j \in 1..typesArrived
        PROVE  \/ j <= typeTaken'[Reception]
               \/ j <= heard'[Reception]
               \/ LostSince(typeOrigin[j])'
    BY <1>0, <1>1, <2>1, <2>2 DEF TypesPass
  <2> QED
    BY <2>1, <2>3 DEF TypesPass
<1>4. CASE PopFromStep /\ Q!DeliverStreamType(Reception)
  <2>1. /\ typeTaken[Reception] # 0
        /\ heard' = [heard EXCEPT ![Reception] = typeTaken[Reception]]
        /\ UNCHANGED <<typesArrived, typeCache>>
    BY <1>4 DEF Q!DeliverStreamType, Q!ddsVars
  <2>2. heard'[Reception] = typeTaken[Reception] /\ heard[Reception] < typeTaken[Reception]
    BY <1>0, <2>1, QueueFacts DEF CInv
  <2>3. ASSUME NEW j \in 1..typesArrived
        PROVE  \/ j <= typeCache'
               \/ j <= heard'[Reception]
               \/ LostSince(typeOrigin[j])'
    BY <1>0, <1>1, <2>1, <2>2 DEF TypesPass
  <2> QED
    BY <2>1, <2>3 DEF TypesPass
<1>5. CASE PopFromStep /\ Q!ReceiverThrows(Reception)
  <2>1. /\ typeTaken'[Reception] = 0
        /\ UNCHANGED <<typesArrived, typeCache, heard, typeOrigin>>
    BY <1>0, <1>5, ReceptionStep DEF Q!ReceiverThrows, Q!ddsVars
  <2>2. typeTaken[Reception] # 0 => TypeMsg(typeOrigin[typeTaken[Reception]]) \in lost'
    BY <1>5, <2>1 DEF PopFromStep
  <2>3. ASSUME NEW j \in 1..typesArrived, j <= typeTaken[Reception]
        PROVE  LostSince(typeOrigin[j])'
    <3>1. typeTaken[Reception] \in 1..typesArrived
      BY <1>0, <2>3
    <3>2. typeOrigin[j] <= typeOrigin[typeTaken[Reception]]
      BY <1>0, <2>3, <3>1
    <3>3. typeOrigin[typeTaken[Reception]] \in typeOrigin'[j]..announced'
      BY <1>0, <2>1, <3>1, <3>2, UnderKept
    <3> QED
      BY <1>0, <2>2, <3>1, <3>3 DEF LostSince
  <2> QED
    BY <1>1, <2>1, <2>3 DEF TypesPass
<1>6. CASE UNCHANGED <<typesArrived, typeCache, typeTaken, heard>>
  BY <1>1, <1>6 DEF TypesPass
<1> QED
  <2>1. CASE PopFromStep /\ (Q!TakeSamples(Reception) \/ Q!DeliverSample(Reception)
                               \/ Q!PopFromReturns(Reception))
    BY <1>6, <2>1 DEF Q!TakeSamples, Q!DeliverSample, Q!PopFromReturns, Q!ddsVars, Q!fateVars
  <2>2. CASE Write \/ Lose \/ SendEarly \/ Dispatch \/ UNCHANGED vars
    BY <1>6, <2>2 DEF Write, Lose, SendEarly, Dispatch, Q!Dispatch, Q!ddsVars, Q!fateVars,
                      vars, queueVars
  <2> QED
    BY <1>2, <1>3, <1>4, <1>5, <2>1, <2>2 DEF Next, PopFromStep, Q!PopFromStep

LEMMA TypesTakenStep ==
  ASSUME CInv, TypesAhead, TypesPass, TypesTaken, [Next]_vars
  PROVE  TypesTaken'
<1>0. /\ typesArrived \in Nat /\ typeCache \in 0..typesArrived
      /\ typeTaken \in [{Reception} -> 0..typesArrived]
      /\ heard \in [{Reception} -> 0..typesArrived]
      /\ pc \in [{Reception} -> {"idle", "take", "deliver", "type"}]
      /\ delivered[Reception] \subseteq 1..arrived
      /\ typeOrigin \in [1..typesArrived -> 1..announced]
      /\ pc[Reception] # "type" => typeTaken[Reception] = 0
      /\ typeTaken[Reception] # 0 => heard[Reception] < typeTaken[Reception]
  BY QueueFacts DEF CInv, ArrivalOrder
<1>1. /\ announced \in Nat /\ under \in [1..written -> 1..announced]
      /\ origin \in [1..arrived -> 1..written]
  BY LenProperties DEF CInv, WriterTypeOK, ArrivalOrder
<1>2. ASSUME NEW i \in 1..arrived
      PROVE  /\ under[origin[i]] \in 1..announced
             /\ under'[origin'[i]] = under[origin[i]]
             /\ LostSince(under[origin[i]]) => LostSince(under[origin[i]])'
  <2>1. origin[i] \in 1..written /\ origin'[i] = origin[i]
    BY <1>1, OriginsKept
  <2>2. under[origin[i]] \in 1..announced /\ under'[origin'[i]] = under[origin[i]]
    BY <1>1, <2>1, UnderKept
  <2> QED
    BY <1>1, <2>2, LostStays
<1>3. /\ \A j \in 1..typesArrived : typeOrigin'[j] = typeOrigin[j]
      /\ 1..typesArrived \subseteq 1..typesArrived'
  BY UnderKept, OriginsKept
<1>4. CASE UNCHANGED <<pc, typeTaken, heard, delivered>>
  BY <1>0, <1>2, <1>3, <1>4 DEF TypesTaken
<1>5. CASE pc'[Reception] # "type"
  BY <1>5 DEF TypesTaken
<1>6. CASE PopFromStep /\ Q!TakeStreamType(Reception)
  <2>1. /\ pc[Reception] = "deliver"
        /\ typeTaken' = [typeTaken EXCEPT ![Reception] = typeCache]
        /\ UNCHANGED <<heard, delivered>>
    BY <1>6 DEF Q!TakeStreamType, Q!fateVars
  <2>2. typeTaken[Reception] = 0 /\ typeTaken'[Reception] = typeCache
    BY <1>0, <2>1
  <2>3. ASSUME NEW i \in delivered[Reception]
        PROVE  \/ LostSince(under[origin[i]])'
               \/ \E j \in 1..typesArrived :
                    /\ under[origin[i]] <= typeOrigin[j]
                    /\ j <= typeTaken'[Reception] \/ j <= heard'[Reception]
    <3>0. i \in 1..arrived /\ under[origin[i]] \in 1..announced
      BY <1>0, <1>2
    <3>1. Here(under[origin[i]])
      BY <3>0 DEF TypesAhead
    <3>2. CASE TypeMsg(under[origin[i]]) \in lost
      <4>1. LostSince(under[origin[i]])
        BY <1>1, <3>0, <3>2 DEF LostSince
      <4> QED
        BY <1>2, <3>0, <4>1
    <3>3. ASSUME NEW j \in 1..typesArrived, typeOrigin[j] = under[origin[i]]
          PROVE  \/ LostSince(under[origin[i]])
                 \/ j <= typeTaken'[Reception] \/ j <= heard'[Reception]
      BY <1>0, <2>1, <2>2, <3>3 DEF TypesPass
    <3> QED
      BY <1>1, <1>2, <3>0, <3>1, <3>2, <3>3 DEF Here
  <2> QED
    BY <1>0, <1>2, <1>3, <2>1, <2>3 DEF TypesTaken
<1>7. CASE PopFromStep /\ Q!DeliverStreamType(Reception)
  <2>1. /\ pc[Reception] = "type" /\ typeTaken[Reception] # 0
        /\ heard' = [heard EXCEPT ![Reception] = typeTaken[Reception]]
        /\ UNCHANGED delivered
    BY <1>7 DEF Q!DeliverStreamType
  <2>2. heard'[Reception] = typeTaken[Reception] /\ heard[Reception] < typeTaken[Reception]
    BY <1>0, <2>1
  <2>3. typeTaken[Reception] \in Nat /\ heard[Reception] \in Nat
    BY <1>0
  <2>4. ASSUME NEW j \in 1..typesArrived,
               j <= typeTaken[Reception] \/ j <= heard[Reception]
        PROVE  j <= heard'[Reception]
    BY <2>2, <2>3, <2>4
  <2> QED
    BY <1>0, <1>2, <1>3, <2>1, <2>4 DEF TypesTaken
<1> QED
  <2>1. CASE Arrive
    BY <1>4, <2>1, ArrivalStep
  <2>2. CASE Write \/ Lose \/ SendEarly \/ UNCHANGED vars
    BY <1>4, <2>2 DEF Write, Lose, SendEarly, vars, queueVars
  <2>3. CASE Dispatch
    BY <1>0, <1>5, <2>3 DEF Dispatch, Q!Dispatch
  <2>4. CASE PopFromStep /\ (Q!TakeSamples(Reception) \/ Q!DeliverSample(Reception)
                               \/ Q!PopFromReturns(Reception) \/ Q!ReceiverThrows(Reception))
    BY <1>0, <1>5, <2>4
    DEF Q!TakeSamples, Q!DeliverSample, Q!PopFromReturns, Q!ReceiverThrows
  <2> QED
    BY <1>6, <1>7, <2>1, <2>2, <2>3, <2>4 DEF Next, PopFromStep, Q!PopFromStep

(* transmit flushes the stream types first and popFrom hands them out last:   *)
(* on an ordered network, under one writing thread, a receiver knows the      *)
(* stream type of its samples, or a newer one, when popFrom returns, unless   *)
(* that was lost.                                                             *)
THEOREM TypeKnownOnReturnHolds == Spec => TypeKnownOnReturn
<1> DEFINE Step ==
      network = "ordered" /\ Q!PopFromReturns(Reception)
        => \A i \in delivered[Reception] : Known(under[origin[i]])
<1>1. Init => KnownInv
  BY InitInvariants
<1>2. CInv /\ KnownInv /\ [Next]_vars => KnownInv'
  BY TypesAheadStep, TypesPassStep, TypesTakenStep, UnderKept DEF KnownInv
<1>3. ASSUME CInv, KnownInv
      PROVE  Step
  <2> SUFFICES ASSUME network = "ordered", Q!PopFromReturns(Reception),
                      NEW i \in delivered[Reception]
               PROVE  Known(under[origin[i]])
    OBVIOUS
  <2>1. pc[Reception] = "type" /\ typeTaken[Reception] = 0
    BY DEF Q!PopFromReturns
  <2>2. \/ LostSince(under[origin[i]])
        \/ \E j \in 1..typesArrived : under[origin[i]] <= typeOrigin[j] /\ j <= heard[Reception]
    BY <1>3, <2>1 DEF KnownInv, TypesTaken
  <2>3. ASSUME NEW j \in 1..typesArrived,
               under[origin[i]] <= typeOrigin[j], j <= heard[Reception]
        PROVE  under[origin[i]] <= LastType
    <3>1. /\ typesArrived \in Nat /\ heard[Reception] \in 0..typesArrived
          /\ i \in 1..arrived
          /\ typeOrigin \in [1..typesArrived -> 1..announced]
          /\ \A h, k \in 1..typesArrived : h < k => typeOrigin[h] < typeOrigin[k]
      BY <1>3, QueueFacts DEF CInv, ArrivalOrder
    <3>2. under[origin[i]] \in 1..announced
      BY <1>3, <3>1, LenProperties DEF CInv, ArrivalOrder, WriterTypeOK
    <3>3. heard[Reception] \in 1..typesArrived /\ LastType = typeOrigin[heard[Reception]]
      BY <2>3, <3>1 DEF LastType
    <3>4. typeOrigin[j] <= typeOrigin[heard[Reception]]
      <4>1. typeOrigin[j] \in Int
        BY <3>1
      <4>2. j = heard[Reception] \/ j < heard[Reception]
        BY <2>3, <3>1
      <4>3. CASE j = heard[Reception]
        BY <4>1, <4>3
      <4>4. CASE j < heard[Reception]
        <5>1. typeOrigin[j] < typeOrigin[heard[Reception]]
          BY <3>1, <3>3, <4>4
        <5> QED
          BY <3>1, <3>3, <4>1, <5>1
      <4> QED
        BY <4>2, <4>3, <4>4
    <3> QED
      BY <2>3, <3>1, <3>2, <3>3, <3>4
  <2> QED
    BY <2>2, <2>3 DEF Known, LostSince
<1>4. Spec => [][Step]_vars
  BY <1>1, <1>2, <1>3, ChannelInvariant, PTL DEF Spec
<1> QED
  BY <1>4 DEF TypeKnownOnReturn

--------------------------------------------------------------------------------
(* A sample moves from the batch to the wire, and from there to the reader or *)
(* to what is lost; it is never in two places and never in none.              *)

InBatch(s) == Contains(sampleBatch, SampleMsg(s))
OnWire(s) == Contains(wire, SampleMsg(s))
IsLost(s) == SampleMsg(s) \in lost
AtReader(s) == \E i \in 1..arrived : origin[i] = s

OnePlace(s) ==
  \/ InBatch(s) /\ ~OnWire(s) /\ ~IsLost(s) /\ ~AtReader(s)
  \/ ~InBatch(s) /\ OnWire(s) /\ ~IsLost(s) /\ ~AtReader(s)
  \/ ~InBatch(s) /\ ~OnWire(s) /\ IsLost(s) /\ ~AtReader(s)
  \/ ~InBatch(s) /\ ~OnWire(s) /\ ~IsLost(s) /\ AtReader(s)

LEMMA OnePlaceIsOne ==
  ASSUME NEW s
  PROVE  OnePlace(s)
           <=> \E place \in Places : \A other \in Places : IsAt(s, other) <=> other = place
<1>1. /\ IsAt(s, "batch") <=> InBatch(s)
      /\ IsAt(s, "wire") <=> OnWire(s)
      /\ IsAt(s, "lost") <=> IsLost(s)
      /\ IsAt(s, "reader") <=> AtReader(s)
  BY DEF IsAt, InBatch, OnWire, IsLost, AtReader
<1> DEFINE Only(place) == \A other \in Places : IsAt(s, other) <=> other = place
<1>2. /\ Only("batch") <=> InBatch(s) /\ ~OnWire(s) /\ ~IsLost(s) /\ ~AtReader(s)
      /\ Only("wire") <=> ~InBatch(s) /\ OnWire(s) /\ ~IsLost(s) /\ ~AtReader(s)
      /\ Only("lost") <=> ~InBatch(s) /\ ~OnWire(s) /\ IsLost(s) /\ ~AtReader(s)
      /\ Only("reader") <=> ~InBatch(s) /\ ~OnWire(s) /\ ~IsLost(s) /\ AtReader(s)
  BY <1>1 DEF Places
<1> HIDE DEF Only
<1>3. (\E place \in Places : Only(place))
        <=> Only("batch") \/ Only("wire") \/ Only("lost") \/ Only("reader")
  BY DEF Places
<1> QED
  BY <1>2, <1>3 DEF OnePlace, Only

(* Where a sequence contains something after a step of the channel.           *)
LEMMA ContainsAppend ==
  ASSUME NEW S, NEW s \in Seq(S), NEW m \in S, NEW x
  PROVE  Contains(Append(s, m), x) <=> Contains(s, x) \/ x = m
<1>1. /\ Len(Append(s, m)) = Len(s) + 1 /\ Len(s) \in Nat
      /\ \A i \in 1..Len(s) : Append(s, m)[i] = s[i]
      /\ Append(s, m)[Len(s) + 1] = m
  BY AppendProperties, LenProperties
<1>2. \A i \in 1..(Len(s) + 1) : i \in 1..Len(s) \/ i = Len(s) + 1
  BY <1>1
<1>3. 1..Len(s) \subseteq 1..(Len(s) + 1) /\ Len(s) + 1 \in 1..(Len(s) + 1)
  BY <1>1
<1> QED
  BY <1>1, <1>2, <1>3 DEF Contains

LEMMA ContainsConcat ==
  ASSUME NEW S, NEW s \in Seq(S), NEW t \in Seq(S), NEW x
  PROVE  Contains(s \o t, x) <=> Contains(s, x) \/ Contains(t, x)
<1>1. /\ DOMAIN s = 1..Len(s) /\ DOMAIN t = 1..Len(t)
      /\ DOMAIN (s \o t) = 1..Len(s \o t)
  BY ConcatElements, LenProperties
<1>2. \A i \in DOMAIN (s \o t) :
        \/ i \in DOMAIN s /\ (s \o t)[i] = s[i]
        \/ i - Len(s) \in DOMAIN t /\ (s \o t)[i] = t[i - Len(s)]
  BY ConcatElements
<1>3. /\ \A i \in DOMAIN s : i \in DOMAIN (s \o t) /\ (s \o t)[i] = s[i]
      /\ \A i \in DOMAIN t :
           Len(s) + i \in DOMAIN (s \o t) /\ (s \o t)[Len(s) + i] = t[i]
  BY ConcatElements
<1>4. Contains(s \o t, x) => Contains(s, x) \/ Contains(t, x)
  BY <1>1, <1>2 DEF Contains
<1>5. Contains(s, x) \/ Contains(t, x) => Contains(s \o t, x)
  BY <1>1, <1>3 DEF Contains
<1> QED
  BY <1>4, <1>5

LEMMA ContainsRemoved ==
  ASSUME NEW S, NEW s \in Seq(S), IsInjective(s), NEW k \in DOMAIN s, NEW x
  PROVE  Contains(RemoveAt(s, k), x) <=> Contains(s, x) /\ x # s[k]
<1> DEFINE r == RemoveAt(s, k)
<1>1. DOMAIN s = 1..Len(s) /\ DOMAIN r = 1..Len(r)
  BY RemoveAtProperties, LenProperties
<1>2. \A i \in DOMAIN r : \E h \in DOMAIN s \ {k} : r[i] = s[h]
  BY RemoveAtElements
<1>3. \A h \in DOMAIN s \ {k} : \E i \in DOMAIN r : r[i] = s[h]
  BY RemoveAtKeeps
<1> HIDE DEF r
<1>4. \A h \in DOMAIN s \ {k} : s[h] # s[k]
  BY DEF IsInjective
<1>5. Contains(r, x) => Contains(s, x) /\ x # s[k]
  BY <1>1, <1>2, <1>4 DEF Contains
<1>6. Contains(s, x) /\ x # s[k] => Contains(r, x)
  BY <1>1, <1>3 DEF Contains
<1> QED
  BY <1>5, <1>6 DEF r

LEMMA NothingInEmpty == \A x : ~Contains(<<>>, x)
BY DEF Contains

(* A step that moves no sample. *)
LEMMA SamplesStay ==
  ASSUME InOnePlace, UNCHANGED <<written, transmitted, arrived, origin>>,
         \A s \in 1..written :
           /\ InBatch(s)' <=> InBatch(s)
           /\ OnWire(s)' <=> OnWire(s)
           /\ IsLost(s)' <=> IsLost(s)
  PROVE  InOnePlace'
<1> SUFFICES ASSUME NEW s \in 1..written
             PROVE  OnePlace(s)' /\ (s <= transmitted => ~InBatch(s)')
  BY OnePlaceIsOne DEF InOnePlace, OnePlace, Places, IsAt, InBatch, OnWire, IsLost, AtReader
<1>1. OnePlace(s) /\ (s <= transmitted => ~InBatch(s))
  BY OnePlaceIsOne DEF InOnePlace, IsAt, InBatch
<1>2. AtReader(s)' <=> AtReader(s)
  BY DEF AtReader
<1> QED
  BY <1>1, <1>2 DEF OnePlace

(* The samples that move: one that is written, a batch that is sent, and one  *)
(* that leaves the wire.                                                      *)
LEMMA WriteKeepsPlaces ==
  ASSUME CInv, InOnePlace, WriteSample, UNCHANGED <<netVars, queueVars>>
  PROVE  InOnePlace'
<1>0. /\ WriterTypeOK /\ ArrivalOrder /\ written \in Nat /\ transmitted \in 0..written
      /\ sampleBatch \in Seq(SampleMessage)
  BY DEF CInv, WriterTypeOK
<1>1. /\ written' = written + 1
      /\ sampleBatch' = Append(sampleBatch, SampleMsg(written + 1))
      /\ UNCHANGED <<wire, lost, transmitted, arrived, origin>>
  BY DEF WriteSample, netVars, queueVars
<1>2. \A m \in Message : m # SampleMsg(written + 1)
  BY <1>0, Messages DEF SampleMsg
<1>3. \A s \in 1..(written + 1) :
        InBatch(s)' <=> InBatch(s) \/ s = written + 1
  <2> TAKE s \in 1..(written + 1)
  <2>1. sampleBatch \in Seq(SampleMessage \cup {SampleMsg(written + 1)})
    BY <1>0, SeqMonotonic
  <2>2. Contains(sampleBatch', SampleMsg(s))
          <=> Contains(sampleBatch, SampleMsg(s)) \/ SampleMsg(s) = SampleMsg(written + 1)
    BY <1>1, <2>1, ContainsAppend
  <2>3. SampleMsg(s) = SampleMsg(written + 1) <=> s = written + 1
    BY DEF SampleMsg
  <2> QED
    BY <2>2, <2>3 DEF InBatch
<1>4. /\ \A s : OnWire(s)' <=> OnWire(s)
      /\ \A s : IsLost(s)' <=> IsLost(s)
      /\ \A s : AtReader(s)' <=> AtReader(s)
  BY <1>1 DEF OnWire, IsLost, AtReader
<1>5. ~OnWire(written + 1) /\ ~IsLost(written + 1) /\ ~AtReader(written + 1)
  <2>1. ~OnWire(written + 1)
    BY <1>0, <1>2, SentMessages, LenProperties DEF OnWire, Contains, WriterTypeOK
  <2>2. ~IsLost(written + 1)
    BY <1>0, <1>2 DEF IsLost, WriterTypeOK
  <2>3. ~AtReader(written + 1)
    BY <1>0 DEF AtReader, ArrivalOrder
  <2> QED
    BY <2>1, <2>2, <2>3
<1> SUFFICES ASSUME NEW s \in 1..(written + 1)
             PROVE  OnePlace(s)' /\ (s <= transmitted => ~InBatch(s)')
  BY <1>1, OnePlaceIsOne
  DEF InOnePlace, OnePlace, Places, IsAt, InBatch, OnWire, IsLost, AtReader
<1>6. CASE s = written + 1
  BY <1>0, <1>3, <1>4, <1>5, <1>6 DEF OnePlace
<1>7. CASE s # written + 1
  <2>1. s \in 1..written
    BY <1>0, <1>7
  <2>2. OnePlace(s) /\ (s <= transmitted => ~InBatch(s))
    BY <2>1, OnePlaceIsOne DEF InOnePlace, IsAt, InBatch
  <2> QED
    BY <1>3, <1>4, <1>7, <2>2 DEF OnePlace
<1> QED
  BY <1>6, <1>7

LEMMA SendKeepsPlaces ==
  ASSUME CInv, InOnePlace, wire' = wire \o sampleBatch, sampleBatch' = <<>>,
         transmitted' \in 0..written, UNCHANGED <<written, lost, arrived, origin>>
  PROVE  InOnePlace'
<1>1. wire \in Seq(Message) /\ sampleBatch \in Seq(Message)
  BY SentMessages DEF CInv, WriterTypeOK
<1>2. \A s : /\ OnWire(s)' <=> OnWire(s) \/ InBatch(s)
             /\ ~InBatch(s)'
             /\ IsLost(s)' <=> IsLost(s)
             /\ AtReader(s)' <=> AtReader(s)
  <2>1. \A s : OnWire(s)' <=> OnWire(s) \/ InBatch(s)
    BY <1>1, ContainsConcat DEF OnWire, InBatch
  <2>2. \A s : ~InBatch(s)'
    BY NothingInEmpty DEF InBatch
  <2>3. \A s : (IsLost(s)' <=> IsLost(s)) /\ (AtReader(s)' <=> AtReader(s))
    BY DEF IsLost, AtReader
  <2> QED
    BY <2>1, <2>2, <2>3
<1> SUFFICES ASSUME NEW s \in 1..written
             PROVE  OnePlace(s)' /\ (s <= transmitted' => ~InBatch(s)')
  BY OnePlaceIsOne
  DEF InOnePlace, OnePlace, Places, IsAt, InBatch, OnWire, IsLost, AtReader
<1>3. OnePlace(s)
  BY OnePlaceIsOne DEF InOnePlace
<1> QED
  BY <1>2, <1>3 DEF OnePlace

(* The k-th message arrives or is lost.                                      *)
LEMMA RemovalKeepsPlaces ==
  ASSUME CInv, InOnePlace, NEW k \in DOMAIN wire, wire' = RemoveAt(wire, k),
         UNCHANGED <<written, transmitted, sampleBatch>>,
         \A s \in 1..written :
           \/ /\ IsLost(s)' <=> IsLost(s) \/ SampleMsg(s) = wire[k]
              /\ AtReader(s)' <=> AtReader(s)
           \/ /\ IsLost(s)' <=> IsLost(s)
              /\ AtReader(s)' <=> AtReader(s) \/ SampleMsg(s) = wire[k]
  PROVE  InOnePlace'
<1>1. wire \in Seq(Message) /\ IsInjective(wire)
  BY AscendingIsInjective DEF CInv, WriterTypeOK, SendingOrder
<1>2. \A s : /\ OnWire(s)' <=> OnWire(s) /\ SampleMsg(s) # wire[k]
             /\ InBatch(s)' <=> InBatch(s)
  BY <1>1, ContainsRemoved DEF OnWire, InBatch
<1>3. \A s : SampleMsg(s) = wire[k] => OnWire(s)
  BY <1>1, LenProperties DEF OnWire, Contains
<1> SUFFICES ASSUME NEW s \in 1..written
             PROVE  OnePlace(s)' /\ (s <= transmitted => ~InBatch(s)')
  BY OnePlaceIsOne
  DEF InOnePlace, OnePlace, Places, IsAt, InBatch, OnWire, IsLost, AtReader
<1>4. OnePlace(s) /\ (s <= transmitted => ~InBatch(s))
  BY OnePlaceIsOne DEF InOnePlace, IsAt, InBatch
<1>5. CASE SampleMsg(s) = wire[k]
  BY <1>2, <1>3, <1>4, <1>5 DEF OnePlace
<1>6. CASE SampleMsg(s) # wire[k]
  BY <1>2, <1>4, <1>6 DEF OnePlace
<1> QED
  BY <1>5, <1>6

LEMMA InOnePlaceStep ==
  ASSUME CInv, InOnePlace, [Next]_vars
  PROVE  InOnePlace'
<1>0. WriterTypeOK /\ wire \in Seq(Message) /\ written \in Nat /\ arrived \in Nat
      /\ transmitted \in 0..written
  BY QueueFacts DEF CInv, WriterTypeOK
<1>1. CASE WriteSample /\ UNCHANGED <<netVars, queueVars>>
  BY <1>1, WriteKeepsPlaces
<1>2. CASE TransmitSamples /\ UNCHANGED <<netVars, queueVars>>
  <2>1. /\ wire' = wire \o sampleBatch /\ sampleBatch' = <<>>
        /\ transmitted' = written
        /\ UNCHANGED <<written, lost, arrived, origin>>
    BY <1>2 DEF TransmitSamples, netVars, queueVars
  <2>2. transmitted' \in 0..written
    BY <1>0, <2>1
  <2> QED
    BY <2>1, <2>2, SendKeepsPlaces
<1>3. CASE SendEarly
  <2>1. UNCHANGED <<written, transmitted, lost, arrived, origin>>
    BY <1>3 DEF SendEarly, netVars, queueVars
  <2>2. CASE wire' = wire \o sampleBatch /\ sampleBatch' = <<>>
    BY <1>0, <2>1, <2>2, SendKeepsPlaces
  <2>3. CASE wire' = wire \o typeBatch /\ UNCHANGED sampleBatch
    <3>1. typeBatch \in Seq(Message) /\ \A s : ~Contains(typeBatch, SampleMsg(s))
      BY <1>0, SentMessages, Messages, LenProperties DEF Contains, SampleMsg
    <3>2. \A s : /\ OnWire(s)' <=> OnWire(s)
                 /\ InBatch(s)' <=> InBatch(s)
                 /\ IsLost(s)' <=> IsLost(s)
      BY <1>0, <2>1, <2>3, <3>1, ContainsConcat DEF OnWire, InBatch, IsLost
    <3> QED
      BY <2>1, <3>2, SamplesStay
  <2> QED
    BY <1>3, <2>2, <2>3 DEF SendEarly
<1>4. CASE TransmitTypes /\ UNCHANGED <<netVars, queueVars>>
  <2>1. /\ wire' = wire \o typeBatch
        /\ UNCHANGED <<written, transmitted, sampleBatch, lost, arrived, origin>>
    BY <1>4 DEF TransmitTypes, netVars, queueVars
  <2>2. typeBatch \in Seq(Message) /\ \A s : ~Contains(typeBatch, SampleMsg(s))
    BY <1>0, SentMessages, Messages, LenProperties DEF Contains, SampleMsg
  <2>3. \A s : /\ OnWire(s)' <=> OnWire(s)
               /\ InBatch(s)' <=> InBatch(s)
               /\ IsLost(s)' <=> IsLost(s)
    BY <1>0, <2>1, <2>2, ContainsConcat DEF OnWire, InBatch, IsLost
  <2> QED
    BY <2>1, <2>3, SamplesStay
<1>5. CASE Arrive
  <2>1. PICK k \in DOMAIN wire :
          /\ wire' = RemoveAt(wire, k)
          /\ UNCHANGED <<writerVars, lost>>
          /\ \/ /\ wire[k] \in SampleMessage
                /\ arrived' = arrived + 1
                /\ origin' = Append(origin, wire[k].id)
             \/ /\ wire[k] \in TypeMessage
                /\ UNCHANGED <<arrived, origin>>
    BY <1>5, ArrivalStep
  <2>2. UNCHANGED <<written, transmitted, sampleBatch>>
    BY <2>1 DEF writerVars
  <2>3. \A s : IsLost(s)' <=> IsLost(s)
    BY <2>1 DEF IsLost
  <2>4. \A s \in 1..written : AtReader(s)' <=> AtReader(s) \/ SampleMsg(s) = wire[k]
    <3> TAKE s \in 1..written
    <3>1. CASE wire[k] \in SampleMessage /\ arrived' = arrived + 1
               /\ origin' = Append(origin, wire[k].id)
      <4>1. wire[k] = SampleMsg(wire[k].id) /\ wire[k].id \in 1..written
        BY <3>1, Messages
      <4>2. SampleMsg(s) = wire[k] <=> s = wire[k].id
        BY <4>1 DEF SampleMsg
      <4>3. origin \in Seq(1..written) /\ Len(origin) = arrived
        <5>1. origin \in [1..arrived -> 1..written]
          BY DEF CInv, ArrivalOrder
        <5> QED
          BY <1>0, <5>1
      <4>4. /\ \A i \in 1..arrived : origin'[i] = origin[i]
            /\ origin'[arrived + 1] = wire[k].id
        BY <3>1, <4>1, <4>3, AppendProperties
      <4>5. /\ \A i \in 1..(arrived + 1) : i \in 1..arrived \/ i = arrived + 1
            /\ 1..arrived \subseteq 1..(arrived + 1) /\ arrived + 1 \in 1..(arrived + 1)
        BY <1>0
      <4> QED
        BY <3>1, <4>2, <4>4, <4>5 DEF AtReader
    <3>2. CASE wire[k] \in TypeMessage /\ UNCHANGED <<arrived, origin>>
      <4>1. SampleMsg(s) # wire[k]
        BY <3>2, Messages DEF SampleMsg
      <4> QED
        BY <3>2, <4>1 DEF AtReader
    <3> QED
      BY <2>1, <3>1, <3>2
  <2> QED
    BY <2>1, <2>2, <2>3, <2>4, RemovalKeepsPlaces
<1>6. CASE Lose
  <2>1. PICK k \in DOMAIN wire :
          wire' = RemoveAt(wire, k) /\ lost' = lost \cup {wire[k]}
    BY <1>6 DEF Lose
  <2>2. UNCHANGED <<written, transmitted, sampleBatch, arrived, origin>>
    BY <1>6 DEF Lose, writerVars, queueVars
  <2>3. \A s : /\ IsLost(s)' <=> IsLost(s) \/ SampleMsg(s) = wire[k]
               /\ AtReader(s)' <=> AtReader(s)
    BY <2>1, <2>2 DEF IsLost, AtReader
  <2> QED
    BY <2>1, <2>2, <2>3, RemovalKeepsPlaces
<1>7. CASE Dispatch \/ PopFromStep
  <2>1. UNCHANGED <<written, transmitted, sampleBatch, wire, arrived, origin>>
    BY <1>7, ReceptionStep
  <2>2. \A s : IsLost(s)' <=> IsLost(s)
    BY <1>7 DEF Dispatch, PopFromStep, netVars, IsLost, SampleMsg, TypeMsg
  <2>3. \A s : (InBatch(s)' <=> InBatch(s)) /\ (OnWire(s)' <=> OnWire(s))
    BY <2>1 DEF InBatch, OnWire
  <2> QED
    BY <2>1, <2>2, <2>3, SamplesStay
<1>8. CASE \/ (WriteStreamType \/ TransmitFails) /\ UNCHANGED <<netVars, queueVars>>
           \/ UNCHANGED vars
  <2>1. UNCHANGED <<written, transmitted, sampleBatch, wire, lost, arrived, origin>>
    BY <1>8 DEF WriteStreamType, TransmitFails, vars, writerVars, netVars, queueVars
  <2>2. \A s : /\ InBatch(s)' <=> InBatch(s)
               /\ OnWire(s)' <=> OnWire(s)
               /\ IsLost(s)' <=> IsLost(s)
    BY <2>1 DEF InBatch, OnWire, IsLost
  <2> QED
    BY <2>1, <2>2, SamplesStay
<1> QED
  BY <1>1, <1>2, <1>3, <1>4, <1>5, <1>6, <1>7, <1>8 DEF Next, Write, WriterStep

(* However flushes fail, batches are sent early and messages are lost, every  *)
(* sample is in one place, and transmit leaves none behind.                   *)
THEOREM InOnePlaceHolds == Spec => []InOnePlace
<1>1. Init => InOnePlace
  <2>1. Init => 1..written = {}
    BY DEF Init, WriterInit
  <2> QED
    BY <2>1 DEF InOnePlace
<1>2. CInv /\ InOnePlace /\ [Next]_vars => InOnePlace'
  BY InOnePlaceStep
<1> QED
  BY <1>1, <1>2, ChannelInvariant, PTL DEF Spec

--------------------------------------------------------------------------------

LEMMA NewestTypeKeptStep ==
  ASSUME CInv, NewestTypeKept, [Next]_vars
  PROVE  NewestTypeKept'
<1> USE DEF NewestTypeKept
<1>0. /\ typesArrived \in Nat /\ typeCache \in 0..typesArrived
      /\ typeTaken \in [{Reception} -> 0..typesArrived]
      /\ heard \in [{Reception} -> 0..typesArrived]
      /\ pc[Reception] # "type" => typeTaken[Reception] = 0
  BY QueueFacts DEF CInv
<1>1. typesArrived # 0 /\ TypeMsg(typeOrigin[typesArrived]) \in lost
        => TypeMsg(typeOrigin'[typesArrived]) \in lost'
  <2>1. typesArrived # 0 => typesArrived \in 1..typesArrived
    BY <1>0
  <2> QED
    BY <2>1, OriginsKept, UnderKept
<1>2. CASE Arrive
  <2>1. PICK k \in DOMAIN wire :
          /\ UNCHANGED <<typeTaken, heard>>
          /\ \/ UNCHANGED <<typesArrived, typeCache>>
             \/ typesArrived' = typesArrived + 1 /\ typeCache' = typesArrived + 1
    BY <1>2, ArrivalStep
  <2>2. CASE UNCHANGED <<typesArrived, typeCache>>
    BY <1>1, <2>1, <2>2
  <2>3. CASE typesArrived' = typesArrived + 1 /\ typeCache' = typesArrived + 1
    BY <2>3
  <2> QED
    BY <2>1, <2>2, <2>3
<1>3. CASE PopFromStep /\ Q!TakeStreamType(Reception)
  <2>1. /\ typeTaken'[Reception] = typeCache /\ typeTaken[Reception] = 0
        /\ UNCHANGED <<typesArrived, heard>>
    BY <1>0, <1>3 DEF Q!TakeStreamType, Q!fateVars
  <2> QED
    BY <1>1, <2>1
<1>4. CASE PopFromStep /\ Q!DeliverStreamType(Reception)
  <2>1. /\ typeTaken[Reception] # 0
        /\ heard' = [heard EXCEPT ![Reception] = typeTaken[Reception]]
        /\ UNCHANGED <<typesArrived, typeCache>>
    BY <1>4 DEF Q!DeliverStreamType, Q!ddsVars
  <2>2. /\ heard'[Reception] = typeTaken[Reception]
        /\ heard[Reception] < typeTaken[Reception]
        /\ typeTaken[Reception] <= typesArrived
    BY <1>0, <2>1, QueueFacts DEF CInv
  <2>3. heard[Reception] # typesArrived
    BY <1>0, <2>2
  <2> QED
    BY <1>1, <2>1, <2>2, <2>3
<1>5. CASE PopFromStep /\ Q!ReceiverThrows(Reception)
  <2>1. /\ typeTaken'[Reception] = 0
        /\ UNCHANGED <<typesArrived, typeCache, heard, typeOrigin>>
    BY <1>0, <1>5, ReceptionStep DEF Q!ReceiverThrows, Q!ddsVars
  <2>2. typeTaken[Reception] # 0 => TypeMsg(typeOrigin[typeTaken[Reception]]) \in lost'
    BY <1>5, <2>1 DEF PopFromStep
  <2> QED
    BY <1>1, <2>1, <2>2
<1>6. CASE UNCHANGED <<typesArrived, typeCache, typeTaken, heard>>
  BY <1>1, <1>6
<1> QED
  <2>1. CASE PopFromStep /\ (Q!TakeSamples(Reception) \/ Q!DeliverSample(Reception)
                               \/ Q!PopFromReturns(Reception))
    BY <1>6, <2>1 DEF Q!TakeSamples, Q!DeliverSample, Q!PopFromReturns, Q!ddsVars, Q!fateVars
  <2>2. CASE Write \/ Lose \/ SendEarly \/ Dispatch \/ UNCHANGED vars
    BY <1>6, <2>2 DEF Write, Lose, SendEarly, Dispatch, Q!Dispatch, Q!ddsVars, Q!fateVars,
                      vars, queueVars
  <2> QED
    BY <1>2, <1>3, <1>4, <1>5, <2>1, <2>2 DEF Next, PopFromStep, Q!PopFromStep

(* The newest stream type that arrived is not passed over, whether it came    *)
(* with samples or alone; only a receiver that throws at it loses it.         *)
THEOREM NewestTypeKeptHolds == Spec => []NewestTypeKept
<1>1. Init => NewestTypeKept
  BY DEF Init, Q!Init, NewestTypeKept
<1>2. CInv /\ NewestTypeKept /\ [Next]_vars => NewestTypeKept'
  BY NewestTypeKeptStep
<1> QED
  BY <1>1, <1>2, ChannelInvariant, PTL DEF Spec

--------------------------------------------------------------------------------
(* What TransmittedIsSettled rests on: a sample that is not settled is where   *)
(* the network or the reception thread goes on with it.                       *)

(* The writer does not leave and nobody counts: all that is in the cache can  *)
(* be taken and triggers the condition.                                       *)
AllTakeable == alive = TRUE /\ read = {}

LEMMA AllTakeableStep ==
  ASSUME AllTakeable, [Next]_vars
  PROVE  AllTakeable'
BY DEF AllTakeable, Next, vars, queueVars, Write, Arrive, Lose, SendEarly, Dispatch,
       PopFromStep, Q!StoreSample, Q!StoreStreamType, Q!ddsVars, Q!popVars, Q!fateVars,
       Q!Dispatch, Q!PopFromStep, Q!TakeSamples, Q!DeliverSample, Q!TakeStreamType,
       Q!DeliverStreamType, Q!PopFromReturns, Q!ReceiverThrows

(* Sample s is on the wire, in the hands of popFrom, or where it triggers the *)
(* condition and can be taken.                                                *)
UnderWay(s) ==
  \/ OnWire(s)
  \/ \E i \in 1..arrived :
       origin[i] = s /\ (i \in batch[Reception] \/ i \in Q!Unread \cap Q!Takeable)

NoneStranded == \A s \in 1..transmitted : Settled(s) \/ UnderWay(s)

(* No sample for which transmit answered success is left where nothing would  *)
(* move it on: not in the batch of the writer after a flush that failed, and  *)
(* not in a cache whose condition does not trigger.                           *)
THEOREM NoneStrandedHolds == Spec => []NoneStranded
<1>1. Init => AllTakeable
  BY DEF Init, Q!Init, AllTakeable
<1>2. AllTakeable /\ [Next]_vars => AllTakeable'
  BY AllTakeableStep
<1>3. ASSUME CInv, InOnePlace, AllTakeable
      PROVE  NoneStranded
  <2> SUFFICES ASSUME NEW s \in 1..transmitted
               PROVE  Settled(s) \/ UnderWay(s)
    BY DEF NoneStranded
  <2>1. OnePlace(s) /\ ~InBatch(s)
    <3>1. s \in 1..written /\ s <= transmitted
      BY <1>3 DEF CInv, WriterTypeOK
    <3> QED
      BY <1>3, <3>1, OnePlaceIsOne DEF InOnePlace, IsAt, InBatch
  <2>2. CASE OnWire(s)
    BY <2>2 DEF UnderWay
  <2>3. CASE IsLost(s)
    BY <2>3 DEF IsLost, Settled
  <2>4. CASE AtReader(s)
    <3>1. PICK i \in 1..arrived : origin[i] = s
      BY <2>4 DEF AtReader
    <3>2. \/ i \in cache \cup overwritten \cup dropped
          \/ i \in batch[Reception] \cup delivered[Reception]
      BY <1>3, <3>1 DEF CInv, QP!IInv, QP!NothingVanishes, QP!Gone
    <3>3. cache = Q!Unread \cap Q!Takeable
      BY <1>3 DEF AllTakeable, Q!Unread, Q!Takeable
    <3> QED
      BY <3>1, <3>2, <3>3 DEF Settled, UnderWay
  <2> QED
    BY <2>1, <2>2, <2>3, <2>4 DEF OnePlace
<1> QED
  BY <1>1, <1>2, <1>3, ChannelInvariant, InOnePlaceHolds, PTL DEF Spec

================================================================================
