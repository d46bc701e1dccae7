-------------------------- MODULE SimulationBusProofs --------------------------
(***************************************************************************)
(* Theorems about SimulationBus, for every set of buses, names, stream     *)
(* types and domains and any number of sessions.                           *)
(***************************************************************************)
EXTENDS SimulationBus, TLAPS

(* Each session has a participant and a collection of its own number.         *)
SessionNumbers ==
  \A b \in Buses :
    IF phase[b] = "initialized"
    THEN participant[b] # 0 /\ collection[b] = participant[b]
    ELSE collection[b] = 0

(* Outside of a session a bus has topics of the participant it kept only:     *)
(* those of the session went with deinitialize.                               *)
KeptParticipant ==
  \A b \in Buses : phase[b] # "initialized" =>
    \A n \in DOMAIN topics[b] :
      topics[b][n] = InternalTopic \/ topics[b][n].participant = participant[b]

(* A writer of the running session or, outside of one, of the time since the  *)
(* last: its topic is still in the map, unless initBusInfo replaced it.       *)
OfThisTime(w) ==
  /\ w.session = collection[w.bus]
  /\ w.session = 0 => w.participant = participant[w.bus]

WriterHasItsTopic ==
  \A w \in writers : OfThisTime(w) =>
    /\ w.name \in DOMAIN topics[w.bus]
    /\ \/ topics[w.bus][w.name] = InternalTopic
       \/ topics[w.bus][w.name] = [participant |-> w.participant, type |-> w.type]

(* A writer that was created outside of a session is not on the participant   *)
(* of a later one.                                                            *)
NoStrayWriter ==
  \A w \in writers :
    phase[w.bus] = "initialized" /\ w.session = 0 => w.participant # participant[w.bus]

(* No participant is used by two buses: what the destructor of one closes is  *)
(* none of another.                                                           *)
Apart == \A b, c \in Buses : b # c => Uses(b) \cap Uses(c) = {}

IInv ==
  /\ TypeOK
  /\ SessionNumbers
  /\ KeptParticipant
  /\ WriterHasItsTopic
  /\ NoStrayWriter
  /\ ReadersOfThisSession
  /\ OneStreamTypePerTopic
  /\ LiveOnOpenParticipant
  /\ Apart

--------------------------------------------------------------------------------
(* The maps of topics *)

LEMMA TopicMapElements ==
  ASSUME NEW f \in TopicMap
  PROVE  /\ DOMAIN f \subseteq TopicNames
         /\ \A n \in DOMAIN f : f[n] \in Topic
BY DEF TopicMap

LEMMA TopicMapIntro ==
  ASSUME NEW N \in SUBSET TopicNames, NEW g, g \in [N -> Topic]
  PROVE  g \in TopicMap
BY DEF TopicMap

(* What a topic is made of.  Stream item topics are no internal topics.       *)
LEMMA TopicFields ==
  ASSUME created \in Nat, Raw \in StreamTypes, NEW x \in Topic
  PROVE  /\ x.participant \in 0..created
         /\ x.type \in StreamTypes
         /\ x = [participant |-> x.participant, type |-> x.type]
         /\ x # InternalTopic => x.participant \in 1..created
         /\ x = InternalTopic => x.participant = 0
BY DEF Topic, StreamItemTopic, InternalTopic

(* A participant that is created makes no topic of before a stranger.         *)
LEMMA TopicMapGrows ==
  ASSUME TypeOK, created' = created + 1, NEW f \in TopicMap
  PROVE  f \in TopicMap'
<1>1. StreamItemTopic \subseteq StreamItemTopic'
  BY DEF StreamItemTopic, TypeOK
<1>2. Topic \subseteq Topic'
  BY <1>1 DEF Topic, InternalTopic
<1> QED
  BY <1>2 DEF TopicMap, TopicNames

(* getOrCreateTopic: what it returns is a topic of the map from then on, the  *)
(* others are as they were.                                                   *)
LEMMA TopicOfType ==
  ASSUME TypeOK, NEW b \in Buses, NEW n \in TopicNames, NEW type \in StreamTypes,
         ~NoParticipant(b, n)
  PROVE  /\ TopicOf(b, n, type) \in Topic
         /\ TopicOf(b, n, type) = InternalTopic => n = BuiltIn
<1>1. CASE Found(b, n)
  <2>1. topics[b] \in TopicMap
    BY DEF TypeOK
  <2> QED
    BY <1>1, <2>1, TopicMapElements DEF TopicOf, NewStreamItemTopic, Found, TypeOK
<1>2. CASE ~Found(b, n)
  <2>1. participant[b] \in 1..created
    BY <1>2 DEF NoParticipant, TypeOK
  <2>2. TopicOf(b, n, type) \in StreamItemTopic
    BY <1>2, <2>1 DEF TopicOf, NewStreamItemTopic, StreamItemTopic
  <2>3. TopicOf(b, n, type).participant # 0
    BY <1>2, <2>1 DEF TopicOf, NewStreamItemTopic, TypeOK
  <2> QED
    BY <2>2, <2>3 DEF Topic, InternalTopic
<1> QED
  BY <1>1, <1>2

LEMMA GetOrCreateTopicEffect ==
  ASSUME TypeOK, NEW b \in Buses, NEW n \in TopicNames, NEW type \in StreamTypes,
         ~NoParticipant(b, n), GetOrCreateTopic(b, n, type), created' = created
  PROVE  /\ topics' \in [Buses -> TopicMap']
         /\ DOMAIN topics'[b] = DOMAIN topics[b] \cup {n}
         /\ topics'[b][n] = TopicOf(b, n, type)
         /\ \A m \in DOMAIN topics[b] : topics'[b][m] = topics[b][m]
         /\ \A c \in Buses \ {b} : topics'[c] = topics[c]
         /\ \A c \in Buses : \A m \in DOMAIN topics'[c] :
              topics'[c][m] = InternalTopic' => m = BuiltIn
<1> DEFINE g == [m \in DOMAIN topics[b] \cup {n} |->
                   IF m = n THEN TopicOf(b, n, type) ELSE topics[b][m]]
<1>1. topics[b] \in TopicMap /\ topics \in [Buses -> TopicMap]
  BY DEF TypeOK
<1>2. topics' = [topics EXCEPT ![b] = g]
  BY DEF GetOrCreateTopic
<1>3. topics'[b] = g /\ \A c \in Buses \ {b} : topics'[c] = topics[c]
  BY <1>1, <1>2
<1>4. TopicMap' = TopicMap /\ InternalTopic' = InternalTopic
  BY DEF TopicMap, Topic, StreamItemTopic, InternalTopic, TopicNames
<1>5. g \in [DOMAIN topics[b] \cup {n} -> Topic]
  BY <1>1, TopicMapElements, TopicOfType
<1>6. g \in TopicMap
  <2>1. DOMAIN topics[b] \cup {n} \in SUBSET TopicNames
    BY <1>1, TopicMapElements
  <2> QED
    BY <2>1, <1>5, TopicMapIntro
<1>7. topics' \in [Buses -> TopicMap']
  BY <1>1, <1>2, <1>4, <1>6
<1>8. \A m \in DOMAIN topics[b] : g[m] = topics[b][m]
  BY DEF TopicOf, NewStreamItemTopic, Found
<1>9. \A c \in Buses : \A m \in DOMAIN topics'[c] :
        topics'[c][m] = InternalTopic' => m = BuiltIn
  <2>1. \A m \in DOMAIN g : g[m] = InternalTopic => m = BuiltIn
    BY <1>8, TopicOfType DEF TypeOK
  <2> QED
    BY <2>1, <1>3, <1>4 DEF TypeOK
<1> QED
  BY <1>3, <1>7, <1>8, <1>9

--------------------------------------------------------------------------------
(* The participants a bus uses *)

LEMMA UsesCreated ==
  ASSUME TypeOK, NEW b \in Buses
  PROVE  Uses(b) \subseteq 1..created
<1>1. topics[b] \in TopicMap /\ participant[b] \in 0..created /\ created \in Nat
  BY DEF TypeOK
<1>2. \A n \in DOMAIN topics[b] : topics[b][n].participant \in 0..created
  BY <1>1, TopicMapElements, TopicFields, BusAssumption
<1> QED
  BY <1>1, <1>2 DEF Uses

(* A step after which no bus uses a participant it did not use.               *)
LEMMA NothingAcquired ==
  ASSUME LiveOnOpenParticipant, Apart, UNCHANGED closed,
         \A c \in Buses : Uses(c)' \subseteq Uses(c)
  PROVE  LiveOnOpenParticipant' /\ Apart'
BY DEF LiveOnOpenParticipant, Apart

--------------------------------------------------------------------------------
(* The inductive invariant *)

LEMMA NoTopicsType == NoTopics \in TopicMap /\ DOMAIN NoTopics = {}
<1>1. NoTopics \in [{} -> Topic]
  BY DEF NoTopics
<1> QED
  BY <1>1, TopicMapIntro

LEMMA InitStep == Init => IInv
<1> SUFFICES ASSUME Init PROVE IInv
  OBVIOUS
<1> USE BusAssumption
<1>1. NoTopics \in TopicMap /\ DOMAIN NoTopics = {}
  BY NoTopicsType
<1>2. TypeOK
  BY <1>1 DEF Init, TypeOK
<1>3. SessionNumbers /\ KeptParticipant
  BY <1>1 DEF Init, SessionNumbers, KeptParticipant
<1>4. WriterHasItsTopic /\ NoStrayWriter /\ OneStreamTypePerTopic
  BY DEF Init, WriterHasItsTopic, NoStrayWriter, OneStreamTypePerTopic
<1>5. ReadersOfThisSession
  BY DEF Init, ReadersOfThisSession
<1>6. LiveOnOpenParticipant /\ Apart
  BY <1>1 DEF Init, LiveOnOpenParticipant, Apart, Uses
<1> QED
  BY <1>2, <1>3, <1>4, <1>5, <1>6 DEF IInv

(* Without a new participant the topics keep their types.                     *)
LEMMA SameTopicMaps ==
  ASSUME UNCHANGED created
  PROVE  TopicMap' = TopicMap /\ InternalTopic' = InternalTopic
BY DEF TopicMap, Topic, StreamItemTopic, InternalTopic, TopicNames

(* Steps that leave Impl and what was handed out alone, but for _bus_info,    *)
(* and neither begin nor end a session.                                       *)
LEMMA OutsideStep ==
  ASSUME IInv, NEW b \in Buses, phase[b] # "initialized",
         NEW p \in {"none", "created"}, phase' = [phase EXCEPT ![b] = p],
         busInfo' \in [Buses -> BOOLEAN],
         UNCHANGED <<dds, participant, topics, collection, readers, writers>>
  PROVE  IInv'
<1> USE DEF IInv
<1>1. UNCHANGED <<created, domain, tag, closed, participant, topics, collection, readers, writers>>
  BY DEF dds
<1>2. \A c \in Buses : phase'[c] = "initialized" <=> phase[c] = "initialized"
  BY DEF TypeOK
<1>3. TypeOK'
  BY <1>1, SameTopicMaps DEF TypeOK
<1>4. SessionNumbers' /\ KeptParticipant'
  BY <1>1, <1>2, SameTopicMaps DEF SessionNumbers, KeptParticipant
<1>5. WriterHasItsTopic'
  BY <1>1, SameTopicMaps DEF WriterHasItsTopic, OfThisTime
<1>6. NoStrayWriter' /\ ReadersOfThisSession'
  BY <1>1, <1>2 DEF NoStrayWriter, ReadersOfThisSession, TypeOK
<1>7. OneStreamTypePerTopic'
  BY <1>1 DEF OneStreamTypePerTopic
<1>8. LiveOnOpenParticipant' /\ Apart'
  BY <1>1, NothingAcquired DEF Uses
<1> QED
  BY <1>3, <1>4, <1>5, <1>6, <1>7, <1>8

(* initBusInfo enters the internal topic and leaves the others.               *)
LEMMA InitBusInfoEffect ==
  ASSUME TypeOK, NEW b \in Buses, InitBusInfo(b)
  PROVE  /\ busInfo' \in [Buses -> BOOLEAN]
         /\ topics' \in [Buses -> TopicMap]
         /\ DOMAIN topics'[b] = DOMAIN topics[b] \cup {BuiltIn}
         /\ topics'[b][BuiltIn] = InternalTopic
         /\ \A m \in DOMAIN topics[b] \ {BuiltIn} : topics'[b][m] = topics[b][m]
         /\ \A c \in Buses \ {b} : topics'[c] = topics[c]
         /\ \A c \in Buses : \A n \in DOMAIN topics'[c] :
              topics'[c][n] = InternalTopic => n = BuiltIn
<1> DEFINE g == [n \in DOMAIN topics[b] \cup {BuiltIn} |->
                   IF n = BuiltIn THEN InternalTopic ELSE topics[b][n]]
<1>1. topics[b] \in TopicMap /\ topics \in [Buses -> TopicMap]
  BY DEF TypeOK
<1>2. topics' = [topics EXCEPT ![b] = g]
  BY DEF InitBusInfo
<1>3. g \in TopicMap
  <2>1. DOMAIN topics[b] \cup {BuiltIn} \in SUBSET TopicNames
    BY <1>1, TopicMapElements DEF TopicNames
  <2>2. g \in [DOMAIN topics[b] \cup {BuiltIn} -> Topic]
    BY <1>1, TopicMapElements DEF Topic
  <2> QED
    BY <2>1, <2>2, TopicMapIntro
<1>4. topics' \in [Buses -> TopicMap] /\ topics'[b] = g
      /\ \A c \in Buses \ {b} : topics'[c] = topics[c]
  BY <1>1, <1>2, <1>3
<1>5. busInfo' \in [Buses -> BOOLEAN]
  BY DEF InitBusInfo, TypeOK
<1>6. \A c \in Buses : \A n \in DOMAIN topics'[c] :
        topics'[c][n] = InternalTopic => n = BuiltIn
  <2>1. \A n \in DOMAIN g : g[n] = InternalTopic => n = BuiltIn
    BY DEF TypeOK
  <2> QED
    BY <2>1, <1>4 DEF TypeOK
<1> QED
  BY <1>4, <1>5, <1>6

LEMMA InitializeStep ==
  ASSUME IInv, NEW b \in Buses, Initialize(b)
  PROVE  IInv'
<1> USE BusAssumption DEF IInv
<1>0. /\ phase[b] = "created" /\ created \in Nat /\ created < MaxCreated
      /\ created' = created + 1
      /\ phase' = [phase EXCEPT ![b] = "initialized"]
      /\ participant' = [participant EXCEPT ![b] = created + 1]
      /\ collection' = [collection EXCEPT ![b] = created + 1]
      /\ UNCHANGED <<closed, readers, writers>>
  BY DEF Initialize, TypeOK
<1>1. /\ InitBusInfo(b)
      /\ InternalTopic' = InternalTopic
      /\ \A f \in TopicMap : f \in TopicMap'
  BY <1>0, TopicMapGrows DEF Initialize, InternalTopic
<1>2. TypeOK'
  <2>1. /\ phase' \in [Buses -> {"none", "created", "initialized"}]
        /\ created' \in 0..MaxCreated
        /\ participant' \in [Buses -> 0..created']
        /\ collection' \in [Buses -> 0..created']
        /\ busInfo' \in [Buses -> BOOLEAN]
    <3>1. busInfo' \in [Buses -> BOOLEAN]
      BY <1>1, InitBusInfoEffect DEF TypeOK
    <3>2. phase' \in [Buses -> {"none", "created", "initialized"}]
      BY <1>0 DEF TypeOK
    <3>3. created' \in 0..MaxCreated
      BY <1>0
    <3>4. /\ participant' \in [Buses -> 0..created']
          /\ collection' \in [Buses -> 0..created']
      <4>1. participant \in [Buses -> 0..created] /\ collection \in [Buses -> 0..created]
        BY DEF TypeOK
      <4>2. 0..created \subseteq 0..created' /\ created + 1 \in 0..created'
        BY <1>0
      <4> QED
        BY <1>0, <4>1, <4>2
    <3> QED
      BY <3>1, <3>2, <3>3, <3>4
  <2>2. domain' \in [1..MaxCreated -> Domains \cup {0}]
    BY <1>0 DEF Initialize, TypeOK
  <2>3. (tag \in [1..MaxCreated -> {NoTag} \cup {System[c] : c \in Buses}])'
    BY <1>0 DEF Initialize, TypeOK, NoTag
  <2>4. topics' \in [Buses -> TopicMap']
    BY <1>1, InitBusInfoEffect
  <2>5. (\A c \in Buses : \A n \in DOMAIN topics[c] :
           topics[c][n] = InternalTopic => n = BuiltIn)'
    BY <1>1, InitBusInfoEffect
  <2>6. (readers \subseteq [bus : Buses, name : TopicNames,
                            participant : 0..created, collection : 0..created])'
    BY <1>0 DEF TypeOK, TopicNames
  <2>7. (writers \subseteq [bus : Buses, name : TopicNames, participant : 1..created,
                            session : 0..created, type : StreamTypes])'
    BY <1>0 DEF TypeOK, TopicNames
  <2>8. (closed \subseteq 1..created)'
    BY <1>0 DEF TypeOK
  <2> QED
    BY <2>1, <2>2, <2>3, <2>4, <2>5, <2>6, <2>7, <2>8 DEF TypeOK
<1>3. SessionNumbers'
  BY <1>0 DEF SessionNumbers, TypeOK
<1>4. KeptParticipant'
  <2> SUFFICES ASSUME NEW c \in Buses, phase'[c] # "initialized",
                      NEW n \in DOMAIN topics'[c]
               PROVE  \/ topics'[c][n] = InternalTopic'
                      \/ topics'[c][n].participant = participant'[c]
    BY DEF KeptParticipant
  <2>1. c # b /\ phase[c] # "initialized" /\ participant'[c] = participant[c]
    BY <1>0 DEF TypeOK
  <2>2. topics'[c] = topics[c]
    BY <1>1, <2>1, InitBusInfoEffect
  <2> QED
    BY <1>1, <2>1, <2>2 DEF KeptParticipant
<1>5. WriterHasItsTopic'
  <2> SUFFICES ASSUME NEW w \in writers, OfThisTime(w)'
               PROVE  (/\ w.name \in DOMAIN topics[w.bus]
                       /\ \/ topics[w.bus][w.name] = InternalTopic
                          \/ topics[w.bus][w.name] =
                               [participant |-> w.participant, type |-> w.type])'
    BY <1>0 DEF WriterHasItsTopic
  <2>1. w.bus \in Buses /\ w.session \in 0..created
    BY DEF TypeOK
  <2>2. w.bus # b
    BY <1>0, <2>1 DEF OfThisTime, TypeOK
  <2>3. OfThisTime(w) /\ topics'[w.bus] = topics[w.bus]
    BY <1>0, <1>1, <2>1, <2>2, InitBusInfoEffect DEF OfThisTime, TypeOK
  <2> QED
    BY <1>1, <2>3 DEF WriterHasItsTopic
<1>6. NoStrayWriter'
  BY <1>0 DEF NoStrayWriter, TypeOK
<1>7. ReadersOfThisSession'
  BY <1>0 DEF ReadersOfThisSession, TypeOK
<1>8. OneStreamTypePerTopic'
  BY <1>0 DEF OneStreamTypePerTopic
(* The bus acquires the new participant, which nobody used or closed.         *)
<1>9. /\ Uses(b)' \subseteq Uses(b) \cup {created + 1}
      /\ \A c \in Buses \ {b} : Uses(c)' = Uses(c)
  <2>1. participant'[b] = created + 1
        /\ \A c \in Buses \ {b} : participant'[c] = participant[c]
    BY <1>0 DEF TypeOK
  <2>2. /\ \A n \in DOMAIN topics'[b] :
             topics'[b][n].participant = 0 \/ topics'[b][n].participant \in Uses(b)
        /\ \A c \in Buses \ {b} : topics'[c] = topics[c]
    BY <1>1, InitBusInfoEffect DEF InternalTopic, Uses
  <2> QED
    BY <2>1, <2>2 DEF Uses
<1>10. /\ \A c \in Buses : Uses(c) \subseteq 1..created
       /\ closed \subseteq 1..created
       /\ created + 1 \notin 1..created
  BY <1>0, UsesCreated DEF TypeOK
<1>11. LiveOnOpenParticipant'
  <2> SUFFICES ASSUME NEW c \in Buses PROVE Uses(c)' \cap closed = {}
    BY <1>0 DEF LiveOnOpenParticipant
  <2>1. Uses(c) \cap closed = {} /\ Uses(c)' \subseteq Uses(c) \cup {created + 1}
    BY <1>9 DEF LiveOnOpenParticipant
  <2> QED
    BY <2>1, <1>10
<1>12. Apart'
  <2> SUFFICES ASSUME NEW c \in Buses, NEW d \in Buses, c # d
               PROVE  Uses(c)' \cap Uses(d)' = {}
    BY DEF Apart
  <2>1. Uses(c) \cap Uses(d) = {}
    BY DEF Apart
  <2>2. CASE c # b
    BY <1>9, <1>10, <2>1, <2>2
  <2>3. CASE c = b
    BY <1>9, <1>10, <2>1, <2>3
  <2> QED
    BY <2>2, <2>3
<1> QED
  BY <1>2, <1>3, <1>4, <1>5, <1>6, <1>7, <1>8, <1>11, <1>12

LEMMA InitializeFailsStep ==
  ASSUME IInv, NEW b \in Buses, InitializeFails(b)
  PROVE  IInv'
<1> USE DEF IInv
<1>0. /\ InitBusInfo(b)
      /\ UNCHANGED <<phase, created, domain, tag, closed, participant, collection>>
      /\ UNCHANGED <<readers, writers>>
  BY DEF InitializeFails, dds
<1>1. TopicMap' = TopicMap /\ InternalTopic' = InternalTopic
  BY <1>0, SameTopicMaps
<1>2. TypeOK'
  <2>1. /\ busInfo' \in [Buses -> BOOLEAN]
        /\ topics' \in [Buses -> TopicMap']
        /\ (\A c \in Buses : \A n \in DOMAIN topics[c] :
              topics[c][n] = InternalTopic => n = BuiltIn)'
    BY <1>0, <1>1, InitBusInfoEffect
  <2> QED
    BY <1>0, <2>1 DEF TypeOK
<1>3. SessionNumbers'
  BY <1>0 DEF SessionNumbers
<1>4. KeptParticipant'
  BY <1>0, <1>1, InitBusInfoEffect DEF KeptParticipant
<1>5. WriterHasItsTopic'
  <2> SUFFICES ASSUME NEW w \in writers, OfThisTime(w)
               PROVE  (/\ w.name \in DOMAIN topics[w.bus]
                       /\ \/ topics[w.bus][w.name] = InternalTopic
                          \/ topics[w.bus][w.name] =
                               [participant |-> w.participant, type |-> w.type])'
    BY <1>0 DEF WriterHasItsTopic, OfThisTime
  <2>1. w.bus \in Buses
    BY DEF TypeOK
  <2>2. CASE w.bus = b
    BY <1>0, <1>1, <2>2, InitBusInfoEffect DEF WriterHasItsTopic
  <2>3. CASE w.bus # b
    BY <1>0, <1>1, <2>1, <2>3, InitBusInfoEffect DEF WriterHasItsTopic
  <2> QED
    BY <2>2, <2>3
<1>6. NoStrayWriter' /\ ReadersOfThisSession'
  BY <1>0 DEF NoStrayWriter, ReadersOfThisSession
<1>7. OneStreamTypePerTopic'
  BY <1>0 DEF OneStreamTypePerTopic
<1>8. LiveOnOpenParticipant' /\ Apart'
  <2>1. \A c \in Buses : \A n \in DOMAIN topics'[c] :
          topics'[c][n].participant = 0 \/ topics'[c][n].participant \in Uses(c)
    BY <1>0, InitBusInfoEffect DEF InternalTopic, Uses
  <2>2. \A c \in Buses : Uses(c)' \subseteq Uses(c)
    BY <1>0, <2>1 DEF Uses
  <2> QED
    BY <1>0, <2>2, NothingAcquired
<1> QED
  BY <1>2, <1>3, <1>4, <1>5, <1>6, <1>7, <1>8

LEMMA DeinitializeStep ==
  ASSUME IInv, NEW b \in Buses, Deinitialize(b)
  PROVE  IInv'
<1> USE BusAssumption DEF IInv
<1>0. /\ phase[b] = "initialized"
      /\ phase' = [phase EXCEPT ![b] = "created"]
      /\ collection' = [collection EXCEPT ![b] = 0]
      /\ topics' = [topics EXCEPT ![b] = NoTopics]
      /\ busInfo' = [busInfo EXCEPT ![b] = FALSE]
      /\ UNCHANGED <<created, domain, tag, closed, participant, readers, writers>>
  BY DEF Deinitialize, dds
<1>1. TopicMap' = TopicMap /\ InternalTopic' = InternalTopic
  BY <1>0, SameTopicMaps
<1>2. NoTopics \in TopicMap /\ DOMAIN NoTopics = {}
  BY NoTopicsType
<1>3. topics \in [Buses -> TopicMap]
  BY DEF TypeOK
<1>4. topics'[b] = NoTopics /\ \A c \in Buses \ {b} : topics'[c] = topics[c]
  BY <1>0, <1>3
<1>5. TypeOK'
  <2>1. topics' \in [Buses -> TopicMap']
    BY <1>0, <1>1, <1>2, <1>3
  <2>2. (\A c \in Buses : \A n \in DOMAIN topics[c] :
           topics[c][n] = InternalTopic => n = BuiltIn)'
    BY <1>1, <1>2, <1>4 DEF TypeOK
  <2> QED
    BY <1>0, <2>1, <2>2 DEF TypeOK
<1>6. SessionNumbers'
  BY <1>0 DEF SessionNumbers, TypeOK
<1>7. KeptParticipant'
  BY <1>0, <1>1, <1>2, <1>4 DEF KeptParticipant, TypeOK
<1>8. WriterHasItsTopic'
  <2> SUFFICES ASSUME NEW w \in writers, OfThisTime(w)'
               PROVE  (/\ w.name \in DOMAIN topics[w.bus]
                       /\ \/ topics[w.bus][w.name] = InternalTopic
                          \/ topics[w.bus][w.name] =
                               [participant |-> w.participant, type |-> w.type])'
    BY <1>0 DEF WriterHasItsTopic
  <2>1. w.bus \in Buses
    BY DEF TypeOK
  <2>2. w.bus # b
    BY <1>0 DEF OfThisTime, NoStrayWriter, TypeOK
  <2>3. OfThisTime(w) /\ topics'[w.bus] = topics[w.bus]
    BY <1>0, <1>4, <2>1, <2>2 DEF OfThisTime, TypeOK
  <2> QED
    BY <1>1, <2>3 DEF WriterHasItsTopic
<1>9. NoStrayWriter' /\ ReadersOfThisSession'
  BY <1>0 DEF NoStrayWriter, ReadersOfThisSession, TypeOK
<1>10. OneStreamTypePerTopic'
  BY <1>0 DEF OneStreamTypePerTopic
<1>11. LiveOnOpenParticipant' /\ Apart'
  BY <1>0, <1>2, <1>4, NothingAcquired DEF Uses
<1> QED
  BY <1>5, <1>6, <1>7, <1>8, <1>9, <1>10, <1>11

LEMMA DeleteStep ==
  ASSUME IInv, NEW b \in Buses, Delete(b)
  PROVE  IInv'
<1> USE BusAssumption DEF IInv
<1>0. /\ phase[b] = "none"
      /\ collection' = [collection EXCEPT ![b] = 0]
      /\ topics' = [topics EXCEPT ![b] = NoTopics]
      /\ busInfo' = [busInfo EXCEPT ![b] = FALSE]
      /\ participant' = [participant EXCEPT ![b] = 0]
      /\ closed' = closed \cup ({participant[b]} \ {0})
      /\ UNCHANGED <<phase, created, domain, tag, readers, writers>>
  BY DEF Delete
<1>1. TopicMap' = TopicMap /\ InternalTopic' = InternalTopic
  BY <1>0, SameTopicMaps
<1>2. NoTopics \in TopicMap /\ DOMAIN NoTopics = {}
  BY NoTopicsType
<1>3. /\ topics \in [Buses -> TopicMap]
      /\ participant \in [Buses -> 0..created] /\ created \in Nat
  BY DEF TypeOK
<1>4. /\ topics'[b] = NoTopics /\ participant'[b] = 0
      /\ \A c \in Buses \ {b} : topics'[c] = topics[c] /\ participant'[c] = participant[c]
  BY <1>0, <1>3
<1>5. TypeOK'
  <2>1. topics' \in [Buses -> TopicMap']
    BY <1>0, <1>1, <1>2, <1>3
  <2>2. (\A c \in Buses : \A n \in DOMAIN topics[c] :
           topics[c][n] = InternalTopic => n = BuiltIn)'
    BY <1>1, <1>2, <1>4 DEF TypeOK
  <2>3. closed' \subseteq 1..created'
    <3>1. participant[b] \in 0..created /\ closed \subseteq 1..created
      BY <1>3 DEF TypeOK
    <3>2. participant[b] # 0 => participant[b] \in 1..created
      BY <1>3, <3>1
    <3>3. closed' = closed \cup ({participant[b]} \ {0}) /\ created' = created
      BY <1>0
    <3> QED
      BY <3>1, <3>2, <3>3
  <2>4. participant' \in [Buses -> 0..created'] /\ collection' \in [Buses -> 0..created']
    BY <1>0, <1>3 DEF TypeOK
  <2> QED
    BY <1>0, <2>1, <2>2, <2>3, <2>4 DEF TypeOK
<1>6. SessionNumbers'
  BY <1>0 DEF SessionNumbers, TypeOK
<1>7. KeptParticipant'
  BY <1>0, <1>1, <1>2, <1>4 DEF KeptParticipant, TypeOK
(* A writer without a session is on a participant, and b has none now.        *)
<1>8. WriterHasItsTopic'
  <2> SUFFICES ASSUME NEW w \in writers, OfThisTime(w)'
               PROVE  (/\ w.name \in DOMAIN topics[w.bus]
                       /\ \/ topics[w.bus][w.name] = InternalTopic
                          \/ topics[w.bus][w.name] =
                               [participant |-> w.participant, type |-> w.type])'
    BY <1>0 DEF WriterHasItsTopic
  <2>1. w.bus \in Buses /\ w.participant # 0
    BY DEF TypeOK
  <2>2. w.bus # b
    BY <1>0, <1>4, <2>1 DEF OfThisTime, TypeOK
  <2>3. OfThisTime(w) /\ topics'[w.bus] = topics[w.bus]
    BY <1>0, <1>4, <2>1, <2>2 DEF OfThisTime, TypeOK
  <2> QED
    BY <1>1, <2>3 DEF WriterHasItsTopic
<1>9. NoStrayWriter' /\ ReadersOfThisSession'
  BY <1>0 DEF NoStrayWriter, ReadersOfThisSession, TypeOK
<1>10. OneStreamTypePerTopic'
  BY <1>0 DEF OneStreamTypePerTopic
(* What is closed was a participant b used, and b uses none now.              *)
<1>11. /\ Uses(b)' = {}
       /\ \A c \in Buses \ {b} : Uses(c)' = Uses(c)
       /\ closed' \subseteq closed \cup Uses(b)
  BY <1>0, <1>2, <1>4 DEF Uses
<1>12. LiveOnOpenParticipant' /\ Apart'
  BY <1>11 DEF LiveOnOpenParticipant, Apart
<1> QED
  BY <1>5, <1>6, <1>7, <1>8, <1>9, <1>10, <1>12

(* Steps of getOrCreateTopic, whatever becomes of the reader or writer.       *)
LEMMA TopicStepFacts ==
  ASSUME IInv, NEW b \in Buses, NEW n \in TopicNames, NEW type \in StreamTypes,
         ~NoParticipant(b, n), GetOrCreateTopic(b, n, type),
         UNCHANGED <<phase, dds, participant, busInfo, collection>>
  PROVE  /\ KeptParticipant'
         /\ LiveOnOpenParticipant' /\ Apart'
         /\ \A w \in writers :
              OfThisTime(w)' =>
                (/\ w.name \in DOMAIN topics[w.bus]
                 /\ \/ topics[w.bus][w.name] = InternalTopic
                    \/ topics[w.bus][w.name] =
                         [participant |-> w.participant, type |-> w.type])'
<1> USE BusAssumption DEF IInv
<1>0. /\ UNCHANGED <<phase, created, closed, participant, collection>>
      /\ InternalTopic' = InternalTopic
  BY SameTopicMaps DEF dds
<1>1. KeptParticipant'
  <2> SUFFICES ASSUME NEW c \in Buses, phase[c] # "initialized",
                      NEW m \in DOMAIN topics'[c]
               PROVE  \/ topics'[c][m] = InternalTopic
                      \/ topics'[c][m].participant = participant[c]
    BY <1>0 DEF KeptParticipant
  <2>1. CASE c # b \/ m \in DOMAIN topics[b]
    BY <1>0, <2>1, GetOrCreateTopicEffect DEF KeptParticipant
  <2>2. CASE c = b /\ m \notin DOMAIN topics[b]
    <3>1. m = n /\ topics'[c][m] = TopicOf(b, n, type)
      BY <1>0, <2>2, GetOrCreateTopicEffect
    <3> QED
      BY <2>2, <3>1 DEF TopicOf, NewStreamItemTopic, Found
  <2> QED
    BY <2>1, <2>2
<1>2. ASSUME NEW w \in writers, OfThisTime(w)'
      PROVE  (/\ w.name \in DOMAIN topics[w.bus]
              /\ \/ topics[w.bus][w.name] = InternalTopic
                 \/ topics[w.bus][w.name] =
                      [participant |-> w.participant, type |-> w.type])'
  <2>1. w.bus \in Buses /\ OfThisTime(w)
    BY <1>0, <1>2 DEF TypeOK, OfThisTime
  <2>2. /\ w.name \in DOMAIN topics[w.bus]
        /\ \/ topics[w.bus][w.name] = InternalTopic
           \/ topics[w.bus][w.name] = [participant |-> w.participant, type |-> w.type]
    BY <2>1 DEF WriterHasItsTopic
  <2>3. w.name \in DOMAIN topics'[w.bus] /\ topics'[w.bus][w.name] = topics[w.bus][w.name]
    BY <1>0, <2>1, <2>2, GetOrCreateTopicEffect
  <2> QED
    BY <1>0, <2>2, <2>3
(* The participant of a new topic is the one of the bus.                      *)
<1>3. \A c \in Buses : \A m \in DOMAIN topics'[c] :
        topics'[c][m].participant \in Uses(c) \cup {0}
  <2> SUFFICES ASSUME NEW c \in Buses, NEW m \in DOMAIN topics'[c]
               PROVE  topics'[c][m].participant \in Uses(c) \cup {0}
    OBVIOUS
  <2>1. CASE c # b \/ m \in DOMAIN topics[b]
    BY <1>0, <2>1, GetOrCreateTopicEffect DEF Uses
  <2>2. CASE c = b /\ m \notin DOMAIN topics[b]
    <3>1. m = n /\ topics'[c][m] = TopicOf(b, n, type)
      BY <1>0, <2>2, GetOrCreateTopicEffect
    <3> QED
      BY <2>2, <3>1 DEF TopicOf, NewStreamItemTopic, Found, Uses
  <2> QED
    BY <2>1, <2>2
<1>4. LiveOnOpenParticipant' /\ Apart'
  <2>1. \A c \in Buses : Uses(c)' \subseteq Uses(c)
    BY <1>0, <1>3 DEF Uses
  <2> QED
    BY <1>0, <2>1, NothingAcquired
<1> QED
  BY <1>1, <1>2, <1>4

(* The capacity overload of getWriter, and a creation that fails.             *)
LEMMA TopicOnlyStep ==
  ASSUME IInv, NEW b \in Buses, NEW n \in TopicNames, NEW type \in StreamTypes,
         ~NoParticipant(b, n), GetOrCreateTopic(b, n, type),
         UNCHANGED <<phase, dds, participant, busInfo, collection, readers, writers>>
  PROVE  IInv'
<1> USE DEF IInv
<1>0. /\ UNCHANGED <<phase, created, domain, tag, closed, participant, busInfo, collection>>
      /\ UNCHANGED <<readers, writers>>
  BY DEF dds
<1>1. TypeOK'
  <2>1. /\ topics' \in [Buses -> TopicMap']
        /\ (\A c \in Buses : \A m \in DOMAIN topics[c] :
              topics[c][m] = InternalTopic => m = BuiltIn)'
    BY <1>0, GetOrCreateTopicEffect
  <2> QED
    BY <1>0, <2>1 DEF TypeOK
<1>2. SessionNumbers'
  BY <1>0 DEF SessionNumbers
<1>3. KeptParticipant' /\ WriterHasItsTopic' /\ LiveOnOpenParticipant' /\ Apart'
  BY <1>0, TopicStepFacts DEF WriterHasItsTopic
<1>4. NoStrayWriter' /\ ReadersOfThisSession'
  BY <1>0 DEF NoStrayWriter, ReadersOfThisSession
<1>5. OneStreamTypePerTopic'
  BY <1>0 DEF OneStreamTypePerTopic
<1> QED
  BY <1>1, <1>2, <1>3, <1>4, <1>5

LEMMA GetReaderStep ==
  ASSUME IInv, NEW b \in Buses, NEW n \in TopicNames, NEW type \in StreamTypes,
         GetReader(b, n, type)
  PROVE  IInv'
<1> USE BusAssumption DEF IInv
<1> DEFINE topic == TopicOf(b, n, type)
           reader == [bus |-> b, name |-> n, participant |-> topic.participant,
                      collection |-> IF topic = InternalTopic THEN 0 ELSE collection[b]]
<1>0. /\ ~NoParticipant(b, n)
      /\ GetOrCreateTopic(b, n, type)
      /\ readers' = readers \cup {reader}
      /\ UNCHANGED <<phase, created, domain, tag, closed, participant, busInfo, collection>>
      /\ UNCHANGED writers
  BY DEF GetReader, CreateDataReader, dds
<1>1. /\ topic.participant \in 0..created
      /\ topic = InternalTopic => topic.participant = 0 /\ n = BuiltIn
      /\ topic # InternalTopic => topic.participant # 0
  <2>1. topic \in Topic /\ (topic = InternalTopic => n = BuiltIn)
    BY <1>0, TopicOfType
  <2>2. created \in Nat
    BY DEF TypeOK
  <2> QED
    BY <2>1, <2>2, TopicFields
<1>2. TypeOK'
  <2>1. /\ topics' \in [Buses -> TopicMap']
        /\ (\A c \in Buses : \A m \in DOMAIN topics[c] :
              topics[c][m] = InternalTopic => m = BuiltIn)'
    BY <1>0, GetOrCreateTopicEffect
  <2>2. reader \in [bus : Buses, name : TopicNames,
                    participant : 0..created, collection : 0..created]
    BY <1>1 DEF TypeOK
  <2> QED
    BY <1>0, <2>1, <2>2 DEF TypeOK, TopicNames
<1>3. SessionNumbers'
  BY <1>0 DEF SessionNumbers
<1>4. KeptParticipant' /\ WriterHasItsTopic' /\ LiveOnOpenParticipant' /\ Apart'
  BY <1>0, TopicStepFacts DEF WriterHasItsTopic, dds
<1>5. ReadersOfThisSession'
  <2> SUFFICES ASSUME NEW r \in readers', phase[r.bus] = "initialized",
                      r.participant = participant[r.bus]
               PROVE  r.collection = collection[r.bus] /\ collection[r.bus] # 0
    BY <1>0 DEF ReadersOfThisSession
  <2>1. CASE r \in readers
    BY <2>1 DEF ReadersOfThisSession
  <2>2. CASE r = reader
    BY <1>1, <2>2 DEF SessionNumbers
  <2> QED
    BY <1>0, <2>1, <2>2
<1>6. NoStrayWriter' /\ OneStreamTypePerTopic'
  BY <1>0 DEF NoStrayWriter, OneStreamTypePerTopic
<1> QED
  BY <1>2, <1>3, <1>4, <1>5, <1>6

LEMMA GetWriterStep ==
  ASSUME IInv, NEW b \in Buses, NEW n \in TopicNames, NEW type \in StreamTypes,
         GetWriter(b, n, type)
  PROVE  IInv'
<1> USE BusAssumption DEF IInv
<1> DEFINE topic == TopicOf(b, n, type)
           writer == [bus |-> b, name |-> n, participant |-> topic.participant,
                      session |-> collection[b], type |-> topic.type]
<1>0. /\ ~NoParticipant(b, n)
      /\ GetOrCreateTopic(b, n, type)
      /\ topic # InternalTopic
      /\ writers' = writers \cup {writer}
      /\ UNCHANGED <<phase, created, domain, tag, closed, participant, busInfo, collection>>
      /\ UNCHANGED readers
      /\ InternalTopic' = InternalTopic
  BY SameTopicMaps DEF GetWriter, CreateDataWriter, dds
<1>1. /\ topic.participant \in 1..created
      /\ topic.type \in StreamTypes
      /\ topic = [participant |-> topic.participant, type |-> topic.type]
  <2>1. topic \in Topic
    BY <1>0, TopicOfType
  <2>2. created \in Nat
    BY DEF TypeOK
  <2> HIDE DEF topic, IInv
  <2> QED
    BY <1>0, <2>1, <2>2, TopicFields
<1>2. TypeOK'
  <2>1. /\ topics' \in [Buses -> TopicMap']
        /\ (\A c \in Buses : \A m \in DOMAIN topics[c] :
              topics[c][m] = InternalTopic => m = BuiltIn)'
    BY <1>0, GetOrCreateTopicEffect
  <2>2. writer \in [bus : Buses, name : TopicNames, participant : 1..created,
                    session : 0..created, type : StreamTypes]
    BY <1>1 DEF TypeOK
  <2> QED
    BY <1>0, <2>1, <2>2 DEF TypeOK, TopicNames
<1>3. SessionNumbers'
  BY <1>0 DEF SessionNumbers
<1>4. KeptParticipant' /\ LiveOnOpenParticipant' /\ Apart'
  BY <1>0, TopicStepFacts DEF dds
<1>5. n \in DOMAIN topics'[b] /\ topics'[b][n] = topic
  BY <1>0, GetOrCreateTopicEffect
<1>6. WriterHasItsTopic'
  <2> SUFFICES ASSUME NEW w \in writers', OfThisTime(w)'
               PROVE  (/\ w.name \in DOMAIN topics[w.bus]
                       /\ \/ topics[w.bus][w.name] = InternalTopic
                          \/ topics[w.bus][w.name] =
                               [participant |-> w.participant, type |-> w.type])'
    BY DEF WriterHasItsTopic
  <2>1. CASE w \in writers
    BY <1>0, <2>1, TopicStepFacts DEF dds
  <2>2. CASE w = writer
    BY <1>1, <1>5, <2>2
  <2> QED
    BY <1>0, <2>1, <2>2
<1>7. NoStrayWriter'
  <2> SUFFICES ASSUME NEW w \in writers', phase[w.bus] = "initialized", w.session = 0
               PROVE  w.participant # participant[w.bus]
    BY <1>0 DEF NoStrayWriter
  <2>1. CASE w \in writers
    BY <2>1 DEF NoStrayWriter
  <2>2. CASE w = writer
    BY <2>2 DEF SessionNumbers
  <2> QED
    BY <1>0, <2>1, <2>2
(* The topic of the new writer is of this time, so that a writer like it has  *)
(* the same topic.                                                            *)
<1>8. OfThisTime(writer)
  <2>1. CASE phase[b] = "initialized"
    BY <2>1 DEF OfThisTime, SessionNumbers
  <2>2. CASE phase[b] # "initialized"
    <3>1. topic.participant = participant[b]
      BY <1>0, <2>2 DEF TopicOf, NewStreamItemTopic, Found, KeptParticipant
    <3> QED
      BY <3>1 DEF OfThisTime
  <2> QED
    BY <2>1, <2>2
<1>9. ASSUME NEW v \in writers, v.bus = b, v.session = writer.session,
             v.name = n, v.participant = writer.participant
      PROVE  v.type = writer.type
  <2>1. OfThisTime(v)
    BY <1>8, <1>9 DEF OfThisTime
  <2>2. /\ n \in DOMAIN topics[b]
        /\ \/ topics[b][n] = InternalTopic
           \/ topics[b][n] = [participant |-> v.participant, type |-> v.type]
    BY <1>9, <2>1 DEF WriterHasItsTopic
  <2>3. topic = topics[b][n]
    BY <2>2 DEF TopicOf, NewStreamItemTopic, Found
  <2> QED
    BY <1>0, <1>1, <2>2, <2>3
<1>10. OneStreamTypePerTopic'
  BY <1>0, <1>9 DEF OneStreamTypePerTopic
<1>11. ReadersOfThisSession'
  BY <1>0 DEF ReadersOfThisSession
<1> QED
  BY <1>2, <1>3, <1>4, <1>6, <1>7, <1>10, <1>11

LEMMA NextStep ==
  ASSUME IInv, [Next]_vars
  PROVE  IInv'
<1>1. CASE UNCHANGED vars
  <2>1. /\ UNCHANGED <<phase, created, domain, tag, closed, participant, busInfo>>
        /\ UNCHANGED <<topics, collection, readers, writers>>
    BY <1>1 DEF vars, impl, dds
  <2>2. TypeOK'
    BY <2>1, SameTopicMaps DEF IInv, TypeOK
  <2>3. SessionNumbers' /\ KeptParticipant' /\ WriterHasItsTopic'
    BY <2>1, SameTopicMaps
       DEF IInv, SessionNumbers, KeptParticipant, WriterHasItsTopic, OfThisTime
  <2>4. /\ NoStrayWriter' /\ ReadersOfThisSession'
        /\ OneStreamTypePerTopic'
    BY <2>1 DEF IInv, NoStrayWriter, ReadersOfThisSession, OneStreamTypePerTopic
  <2>5. LiveOnOpenParticipant' /\ Apart'
    BY <2>1, NothingAcquired DEF IInv, Uses
  <2> QED
    BY <2>2, <2>3, <2>4, <2>5 DEF IInv
<1>2. ASSUME NEW b \in Buses, ComponentStep(b)
      PROVE  IInv'
  <2>1. CASE Create(b)
    BY <2>1, OutsideStep DEF Create, impl, dds, IInv, TypeOK
  <2>2. CASE Initialize(b)
    BY <2>2, InitializeStep
  <2>3. CASE InitializeFails(b)
    BY <2>3, InitializeFailsStep
  <2>4. CASE InitializeThrows(b)
    <3>1. busInfo' \in [Buses -> BOOLEAN] /\ phase' = [phase EXCEPT ![b] = "created"]
      BY <2>4 DEF InitializeThrows, IInv, TypeOK
    <3> QED
      BY <2>4, <3>1, OutsideStep DEF InitializeThrows
  <2>5. CASE Deinitialize(b)
    BY <2>5, DeinitializeStep
  <2>6. CASE Destroy(b)
    BY <2>6, OutsideStep DEF Destroy, impl, dds, IInv, TypeOK
  <2>7. CASE Delete(b)
    BY <2>7, DeleteStep
  <2> QED
    BY <1>2, <2>1, <2>2, <2>3, <2>4, <2>5, <2>6, <2>7 DEF ComponentStep
<1>3. ASSUME NEW b \in Buses, TopicStep(b)
      PROVE  IInv'
  <2>1. PICK n \in TopicNames :
          \/ GetWriterWithCapacity(b, n)
          \/ \E type \in StreamTypes :
               GetReader(b, n, type) \/ GetWriter(b, n, type) \/ CreationFails(b, n, type)
    BY <1>3 DEF TopicStep
  <2>2. CASE GetWriterWithCapacity(b, n)
    BY <2>2, TopicOnlyStep, BusAssumption DEF GetWriterWithCapacity
  <2>3. ASSUME NEW type \in StreamTypes,
               GetReader(b, n, type) \/ GetWriter(b, n, type) \/ CreationFails(b, n, type)
        PROVE  IInv'
    <3>1. CASE GetReader(b, n, type)
      BY <3>1, GetReaderStep
    <3>2. CASE GetWriter(b, n, type)
      BY <3>2, GetWriterStep
    <3>3. CASE CreationFails(b, n, type)
      BY <3>3, TopicOnlyStep DEF CreationFails
    <3> QED
      BY <2>3, <3>1, <3>2, <3>3
  <2> QED
    BY <2>1, <2>2, <2>3
<1> QED
  BY <1>1, <1>2, <1>3 DEF Next

LEMMA InductiveInvariant == Spec => []IInv
<1>1. Init => IInv
  BY InitStep
<1>2. IInv /\ [Next]_vars => IInv'
  BY NextStep
<1> QED
  BY <1>1, <1>2, PTL DEF Spec

--------------------------------------------------------------------------------
(* The theorems *)

(* Every variable keeps its type, however often a bus is initialized and      *)
(* fails to initialize, and in whatever state it is asked for readers and     *)
(* writers.                                                                   *)
THEOREM TypeCorrect == Spec => []TypeOK
BY InductiveInvariant, PTL DEF IInv

(* A reader on the participant of the running session refers to the           *)
(* collection of that session, though deinitialize keeps the participant.     *)
THEOREM ReadersOfThisSessionHolds == Spec => []ReadersOfThisSession
BY InductiveInvariant, PTL DEF IInv

(* All writers of a topic that were created in one session announce the same  *)
(* stream type, whatever their callers asked for.                             *)
THEOREM OneStreamTypePerTopicHolds == Spec => []OneStreamTypePerTopic
BY InductiveInvariant, PTL DEF IInv

(* Whatever the order of destructors and sessions, no bus holds a participant *)
(* that was closed: participants are never shared, and a bus that closed its  *)
(* own is gone with it.                                                       *)
THEOREM LiveOnOpenParticipantHolds == Spec => []LiveOnOpenParticipant
BY InductiveInvariant, PTL DEF IInv

(* A reader of the running session is on the participant its topic has; the   *)
(* topic is in the map until the session ends.                                *)
HasItsTopic(r) ==
  r.collection # 0 /\ r.collection = collection[r.bus] =>
    /\ r.name \in DOMAIN topics[r.bus]
    /\ topics[r.bus][r.name].participant = r.participant
    /\ r.participant # 0

ReaderHasItsTopic == \A r \in readers : HasItsTopic(r)

(* No step of a session takes a topic back, and a new session has a number of *)
(* its own.                                                                   *)
LEMMA OldReadersKeepTopic ==
  ASSUME TypeOK, ReaderHasItsTopic,
         \A c \in Buses :
           \/ collection'[c] = 0
           \/ collection'[c] = created + 1
           \/ /\ collection'[c] = collection[c]
              /\ collection[c] # 0 =>
                   \A m \in DOMAIN topics[c] :
                     m \in DOMAIN topics'[c] /\ topics'[c][m] = topics[c][m]
  PROVE  \A r \in readers : HasItsTopic(r)'
<1> SUFFICES ASSUME NEW r \in readers, r.collection # 0,
                    r.collection = collection'[r.bus]
             PROVE  /\ r.name \in DOMAIN topics'[r.bus]
                    /\ topics'[r.bus][r.name].participant = r.participant
                    /\ r.participant # 0
  BY DEF HasItsTopic
<1>1. r.bus \in Buses /\ r.collection \in 0..created /\ created \in Nat
  BY DEF TypeOK
<1>2. r.collection # created + 1
  BY <1>1
<1>3. /\ collection[r.bus] = r.collection
      /\ \A m \in DOMAIN topics[r.bus] :
           m \in DOMAIN topics'[r.bus] /\ topics'[r.bus][m] = topics[r.bus][m]
  BY <1>1, <1>2
<1>4. /\ r.name \in DOMAIN topics[r.bus]
      /\ topics[r.bus][r.name].participant = r.participant
      /\ r.participant # 0
  BY <1>3 DEF ReaderHasItsTopic, HasItsTopic
<1> QED
  BY <1>3, <1>4

(* The map of a session only grows, whatever step is taken.                   *)
LEMMA TopicsOfSessionStay ==
  ASSUME IInv, [Next]_vars
  PROVE  \A c \in Buses :
           \/ collection'[c] = 0
           \/ collection'[c] = created + 1
           \/ /\ collection'[c] = collection[c]
              /\ collection[c] # 0 =>
                   \A m \in DOMAIN topics[c] :
                     m \in DOMAIN topics'[c] /\ topics'[c][m] = topics[c][m]
<1> USE DEF IInv
<1> DEFINE Goal == \A c \in Buses :
                     \/ collection'[c] = 0
                     \/ collection'[c] = created + 1
                     \/ /\ collection'[c] = collection[c]
                        /\ collection[c] # 0 =>
                             \A m \in DOMAIN topics[c] :
                               m \in DOMAIN topics'[c] /\ topics'[c][m] = topics[c][m]
<1>1. CASE UNCHANGED <<topics, collection>>
  BY <1>1
<1>2. ASSUME NEW b \in Buses, ComponentStep(b)
      PROVE  Goal
  <2>1. CASE Create(b) \/ InitializeThrows(b) \/ Destroy(b)
    BY <1>1, <2>1 DEF Create, InitializeThrows, Destroy, impl
  <2>2. CASE Initialize(b)
    <3>1. InitBusInfo(b) /\ collection' = [collection EXCEPT ![b] = created + 1]
      BY <2>2 DEF Initialize
    <3>2. \A c \in Buses \ {b} : topics'[c] = topics[c] /\ collection'[c] = collection[c]
      BY <3>1, InitBusInfoEffect DEF TypeOK
    <3>3. collection'[b] = created + 1
      BY <3>1 DEF TypeOK
    <3> QED
      BY <3>2, <3>3
  (* A bus that may be initialized is in no session.                          *)
  <2>3. CASE InitializeFails(b)
    <3>1. collection[b] = 0 /\ collection' = collection /\ InitBusInfo(b)
      BY <2>3 DEF InitializeFails, SessionNumbers
    <3>2. \A c \in Buses \ {b} : topics'[c] = topics[c]
      BY <3>1, InitBusInfoEffect
    <3> QED
      BY <3>1, <3>2
  <2>4. CASE Deinitialize(b) \/ Delete(b)
    <3>1. /\ collection'[b] = 0
          /\ \A c \in Buses \ {b} : topics'[c] = topics[c] /\ collection'[c] = collection[c]
      BY <2>4 DEF Deinitialize, Delete, TypeOK
    <3> QED
      BY <3>1
  <2> QED
    BY <1>2, <2>1, <2>2, <2>3, <2>4 DEF ComponentStep
<1>3. ASSUME NEW b \in Buses, TopicStep(b)
      PROVE  Goal
  <2>1. PICK n \in TopicNames, type \in StreamTypes :
          /\ ~NoParticipant(b, n)
          /\ GetOrCreateTopic(b, n, type)
          /\ UNCHANGED <<created, collection>>
    BY <1>3, BusAssumption
       DEF TopicStep, GetWriterWithCapacity, GetReader, GetWriter, CreationFails, dds
  <2>2. /\ DOMAIN topics'[b] = DOMAIN topics[b] \cup {n}
        /\ \A m \in DOMAIN topics[b] : topics'[b][m] = topics[b][m]
        /\ \A c \in Buses \ {b} : topics'[c] = topics[c]
    BY <2>1, GetOrCreateTopicEffect
  <2> QED
    BY <2>1, <2>2
<1> QED
  BY <1>1, <1>2, <1>3 DEF Next, vars, impl

LEMMA ReaderHasItsTopicStep ==
  ASSUME IInv, ReaderHasItsTopic, [Next]_vars
  PROVE  ReaderHasItsTopic'
<1>1. \A r \in readers : HasItsTopic(r)'
  BY OldReadersKeepTopic, TopicsOfSessionStay DEF IInv
<1>2. ASSUME NEW b \in Buses, NEW n \in TopicNames, NEW type \in StreamTypes,
             GetReader(b, n, type)
      PROVE  ReaderHasItsTopic'
  <2>t. PICK topic : topic = TopicOf(b, n, type)
    OBVIOUS
  <2>r. PICK reader : reader = CreateDataReader(topic, b, n)
    OBVIOUS
  <2>1. /\ n \in DOMAIN topics'[b] /\ topics'[b][n] = topic
        /\ topic # InternalTopic => topic.participant # 0
    <3>1. /\ ~NoParticipant(b, n) /\ GetOrCreateTopic(b, n, type)
          /\ created' = created
      BY <1>2 DEF GetReader, dds
    <3>2. topic \in Topic /\ created \in Nat
      BY <3>1, <2>t, TopicOfType DEF IInv, TypeOK
    <3> QED
      BY <2>t, <3>1, <3>2, GetOrCreateTopicEffect, TopicFields, BusAssumption DEF IInv
  <2>2. reader.collection # 0 => topic # InternalTopic
    BY <2>r DEF CreateDataReader
  <2>3. /\ reader.bus = b /\ reader.name = n
        /\ reader.participant = topic.participant
    BY <2>r DEF CreateDataReader
  <2>4. readers' = readers \cup {reader}
    BY <1>2, <2>t, <2>r DEF GetReader
  <2>5. HasItsTopic(reader)'
    BY <2>1, <2>2, <2>3 DEF HasItsTopic
  <2> QED
    BY <1>1, <2>4, <2>5 DEF ReaderHasItsTopic
<1>3. CASE readers' = readers
  BY <1>1, <1>3 DEF ReaderHasItsTopic
<1> QED
  BY <1>2, <1>3, BusAssumption
  DEF Next, vars, ComponentStep, Create, Initialize, InitializeFails, InitializeThrows,
      Deinitialize, Destroy, Delete, TopicStep, GetWriterWithCapacity, GetWriter,
      CreationFails

(* The reader or the writer that comes second finds the topic of the first.   *)
LEMMA ReaderMeetsWriterStep ==
  ASSUME IInv, ReaderHasItsTopic, ReaderMeetsWriter, [Next]_vars
  PROVE  ReaderMeetsWriter'
<1> USE DEF ReaderMeetsWriter
<1>1. ASSUME NEW b \in Buses, NEW n \in TopicNames, NEW type \in StreamTypes,
             GetReader(b, n, type)
      PROVE  ReaderMeetsWriter'
  <2> DEFINE topic == TopicOf(b, n, type)
             reader == CreateDataReader(topic, b, n)
  <2>1. readers' = readers \cup {reader} /\ writers' = writers
    BY <1>1 DEF GetReader
  <2>2. ASSUME NEW w \in writers, w.bus = b, w.name = n,
               reader.collection = w.session, w.session # 0
        PROVE  reader.participant = w.participant
    <3>1. topic # InternalTopic /\ w.session = collection[b]
      BY <2>2 DEF CreateDataReader
    <3>2. OfThisTime(w)
      BY <2>2, <3>1 DEF OfThisTime
    <3>3. /\ n \in DOMAIN topics[b]
          /\ \/ topics[b][n] = InternalTopic
             \/ topics[b][n] = [participant |-> w.participant, type |-> w.type]
      BY <2>2, <3>2 DEF IInv, WriterHasItsTopic
    <3>4. topic = topics[b][n]
      BY <3>3 DEF TopicOf, Found
    <3> QED
      BY <3>1, <3>3, <3>4 DEF CreateDataReader
  <2>3. reader.bus = b /\ reader.name = n
    BY DEF CreateDataReader
  <2> HIDE DEF reader, topic
  <2> QED
    BY <2>1, <2>2, <2>3
<1>2. ASSUME NEW b \in Buses, NEW n \in TopicNames, NEW type \in StreamTypes,
             GetWriter(b, n, type)
      PROVE  ReaderMeetsWriter'
  <2> DEFINE topic == TopicOf(b, n, type)
             writer == CreateDataWriter(topic, b, n)
  <2>1. writers' = writers \cup {writer} /\ readers' = readers
    BY <1>2 DEF GetWriter
  <2>2. ASSUME NEW r \in readers, r.bus = b, r.name = n,
               r.collection = writer.session, writer.session # 0
        PROVE  r.participant = writer.participant
    <3>1. r.collection # 0 /\ r.collection = collection[b]
      BY <2>2 DEF CreateDataWriter
    <3>2. n \in DOMAIN topics[b] /\ topics[b][n].participant = r.participant
      BY <2>2, <3>1 DEF ReaderHasItsTopic, HasItsTopic
    <3>3. topic = topics[b][n]
      BY <3>2 DEF TopicOf, Found
    <3> QED
      BY <3>2, <3>3 DEF CreateDataWriter
  <2>3. writer.bus = b /\ writer.name = n
    BY DEF CreateDataWriter
  <2> HIDE DEF writer, topic
  <2> QED
    BY <2>1, <2>2, <2>3
<1>3. CASE readers' = readers /\ writers' = writers
  BY <1>3
<1> QED
  BY <1>1, <1>2, <1>3, BusAssumption
  DEF Next, vars, ComponentStep, Create, Initialize, InitializeFails, InitializeThrows,
      Deinitialize, Destroy, Delete, TopicStep, GetWriterWithCapacity, CreationFails

(* What a session hands out for one name is on one participant, also when the *)
(* map still holds a topic of an earlier one.                                 *)
THEOREM ReaderMeetsWriterHolds == Spec => []ReaderMeetsWriter
<1>1. Init => ReaderHasItsTopic /\ ReaderMeetsWriter
  BY DEF Init, ReaderHasItsTopic, ReaderMeetsWriter
<1>2. /\ IInv /\ ReaderHasItsTopic /\ ReaderMeetsWriter /\ [Next]_vars
      => ReaderHasItsTopic' /\ ReaderMeetsWriter'
  BY ReaderHasItsTopicStep, ReaderMeetsWriterStep
<1> QED
  BY <1>1, <1>2, InductiveInvariant, PTL DEF Spec

(* In a session the built-in name is that of an internal topic.               *)
BuiltInIsInternal ==
  \A b \in Buses :
    phase[b] = "initialized" =>
      BuiltIn \in DOMAIN topics[b] /\ topics[b][BuiltIn] = InternalTopic

LEMMA BuiltInStep ==
  ASSUME IInv, BuiltInIsInternal, [Next]_vars
  PROVE  BuiltInIsInternal'
<1> USE DEF IInv
<1>1. ASSUME UNCHANGED topics,
             \A c \in Buses : phase'[c] = "initialized" => phase[c] = "initialized"
      PROVE  BuiltInIsInternal'
  BY <1>1 DEF BuiltInIsInternal, InternalTopic
<1>2. CASE UNCHANGED vars
  BY <1>1, <1>2 DEF vars, impl
<1>3. ASSUME NEW b \in Buses, ComponentStep(b)
      PROVE  BuiltInIsInternal'
  <2>1. CASE Create(b) \/ InitializeThrows(b) \/ Destroy(b)
    BY <1>1, <2>1 DEF Create, InitializeThrows, Destroy, impl, TypeOK
  <2>2. CASE Initialize(b) \/ InitializeFails(b)
    <3>1. /\ InitBusInfo(b)
          /\ \A c \in Buses \ {b} : phase'[c] = phase[c]
      BY <2>2 DEF Initialize, InitializeFails, TypeOK
    <3> QED
      BY <3>1, InitBusInfoEffect DEF BuiltInIsInternal, InternalTopic
  <2>3. CASE Deinitialize(b) \/ Delete(b)
    <3>1. /\ phase'[b] # "initialized"
          /\ \A c \in Buses \ {b} : phase'[c] = phase[c] /\ topics'[c] = topics[c]
      BY <2>3 DEF Deinitialize, Delete, TypeOK
    <3> QED
      BY <3>1 DEF BuiltInIsInternal, InternalTopic
  <2> QED
    BY <1>3, <2>1, <2>2, <2>3 DEF ComponentStep
<1>4. ASSUME NEW b \in Buses, TopicStep(b)
      PROVE  BuiltInIsInternal'
  <2>1. PICK n \in TopicNames, type \in StreamTypes :
          /\ ~NoParticipant(b, n)
          /\ GetOrCreateTopic(b, n, type)
          /\ UNCHANGED <<phase, created>>
    BY <1>4, BusAssumption
       DEF TopicStep, GetWriterWithCapacity, GetReader, GetWriter, CreationFails, dds
  <2>2. /\ DOMAIN topics'[b] = DOMAIN topics[b] \cup {n}
        /\ \A m \in DOMAIN topics[b] : topics'[b][m] = topics[b][m]
        /\ \A c \in Buses \ {b} : topics'[c] = topics[c]
    BY <2>1, GetOrCreateTopicEffect
  <2> QED
    BY <2>1, <2>2 DEF BuiltInIsInternal, InternalTopic
<1> QED
  BY <1>2, <1>3, <1>4 DEF Next

(* Outside of a session there is no collection to register with.              *)
LEMMA BusInfoServedStep ==
  ASSUME IInv, BuiltInIsInternal, BusInfoServed, [Next]_vars
  PROVE  BusInfoServed'
<1> USE DEF BusInfoServed
<1>1. ASSUME NEW b \in Buses, NEW type \in StreamTypes, collection[b] # 0
      PROVE  TopicOf(b, BuiltIn, type) = InternalTopic
  BY <1>1 DEF IInv, SessionNumbers, BuiltInIsInternal, TopicOf, Found
<1>2. ASSUME NEW b \in Buses, NEW n \in TopicNames, NEW type \in StreamTypes,
             GetReader(b, n, type)
      PROVE  BusInfoServed'
  <2>1. /\ readers' = readers \cup {CreateDataReader(TopicOf(b, n, type), b, n)}
        /\ writers' = writers
    BY <1>2 DEF GetReader
  <2> QED
    BY <1>1, <2>1 DEF CreateDataReader
<1>3. ASSUME NEW b \in Buses, NEW n \in TopicNames, NEW type \in StreamTypes,
             GetWriter(b, n, type)
      PROVE  BusInfoServed'
  <2>1. /\ TopicOf(b, n, type) # InternalTopic
        /\ writers' = writers \cup {CreateDataWriter(TopicOf(b, n, type), b, n)}
        /\ readers' = readers
    BY <1>3 DEF GetWriter
  <2> QED
    BY <1>1, <2>1 DEF CreateDataWriter
<1>4. CASE readers' = readers /\ writers' = writers
  BY <1>4
<1> QED
  BY <1>2, <1>3, <1>4, BusAssumption
  DEF Next, vars, ComponentStep, Create, Initialize, InitializeFails, InitializeThrows,
      Deinitialize, Destroy, Delete, TopicStep, GetWriterWithCapacity, CreationFails

(* Whoever asked for the built-in name and when, in a session it leads to the *)
(* internal topic, and nobody is given a DDS reader or writer of it.          *)
THEOREM BusInfoServedHolds == Spec => []BusInfoServed
<1>1. Init => BuiltInIsInternal /\ BusInfoServed
  BY DEF Init, BuiltInIsInternal, BusInfoServed
<1>2. /\ IInv /\ BuiltInIsInternal /\ BusInfoServed /\ [Next]_vars
      => BuiltInIsInternal' /\ BusInfoServed'
  BY BuiltInStep, BusInfoServedStep
<1> QED
  BY <1>1, <1>2, InductiveInvariant, PTL DEF Spec

(* If readers and writers are requested of an initialized bus only, then a    *)
(* bus has nothing but the internal topic outside of a session.               *)
OnlyInternalOutside ==
  \A b \in Buses :
    phase[b] # "initialized" => DOMAIN topics[b] \subseteq {BuiltIn}

LEMMA TopicsStep ==
  ASSUME OnlyInitialized, IInv, OnlyInternalOutside, TopicsOfThisSession, [Next]_vars
  PROVE  OnlyInternalOutside' /\ TopicsOfThisSession'
<1> USE DEF IInv
<1>1. ASSUME UNCHANGED <<participant, topics>>,
             \A c \in Buses : phase'[c] = "initialized" <=> phase[c] = "initialized"
      PROVE  OnlyInternalOutside' /\ TopicsOfThisSession'
  BY <1>1 DEF OnlyInternalOutside, TopicsOfThisSession
<1>2. CASE UNCHANGED vars
  BY <1>1, <1>2 DEF vars, impl
<1>3. ASSUME NEW b \in Buses, ComponentStep(b)
      PROVE  OnlyInternalOutside' /\ TopicsOfThisSession'
  <2>1. CASE Create(b) \/ InitializeThrows(b) \/ Destroy(b)
    BY <1>1, <2>1 DEF Create, InitializeThrows, Destroy, impl, TypeOK
  (* The internal topic is the only one that is left from before.             *)
  <2>2. CASE Initialize(b)
    <3>1. /\ phase[b] = "created"
          /\ phase' = [phase EXCEPT ![b] = "initialized"]
          /\ InitBusInfo(b)
          /\ \A c \in Buses \ {b} : participant'[c] = participant[c]
      BY <2>2 DEF Initialize, TypeOK
    <3>2. DOMAIN topics'[b] \subseteq {BuiltIn}
      BY <3>1, InitBusInfoEffect DEF OnlyInternalOutside
    <3> QED
      BY <3>1, <3>2, InitBusInfoEffect
         DEF OnlyInternalOutside, TopicsOfThisSession, TypeOK
  <2>3. CASE InitializeFails(b)
    <3>1. /\ phase[b] = "created"
          /\ InitBusInfo(b)
          /\ UNCHANGED <<phase, participant>>
      BY <2>3 DEF InitializeFails
    <3>2. DOMAIN topics'[b] \subseteq {BuiltIn}
      BY <3>1, InitBusInfoEffect DEF OnlyInternalOutside
    <3> QED
      BY <3>1, <3>2, InitBusInfoEffect DEF OnlyInternalOutside, TopicsOfThisSession
  <2>4. CASE Deinitialize(b)
    <3>1. /\ phase' = [phase EXCEPT ![b] = "created"]
          /\ topics'[b] = NoTopics
          /\ \A c \in Buses \ {b} : topics'[c] = topics[c]
          /\ UNCHANGED participant
      BY <2>4 DEF Deinitialize, TypeOK
    <3> QED
      BY <3>1, NoTopicsType DEF OnlyInternalOutside, TopicsOfThisSession, TypeOK
  <2>5. CASE Delete(b)
    <3>1. /\ phase' = phase /\ phase[b] = "none"
          /\ topics'[b] = NoTopics
          /\ \A c \in Buses \ {b} : topics'[c] = topics[c] /\ participant'[c] = participant[c]
      BY <2>5 DEF Delete, TypeOK
    <3> QED
      BY <3>1, NoTopicsType DEF OnlyInternalOutside, TopicsOfThisSession, TypeOK
  <2> QED
    BY <1>3, <2>1, <2>2, <2>3, <2>4, <2>5 DEF ComponentStep
<1>4. ASSUME NEW b \in Buses, TopicStep(b)
      PROVE  OnlyInternalOutside' /\ TopicsOfThisSession'
  <2>1. PICK n \in TopicNames, type \in StreamTypes :
          /\ phase[b] = "initialized"
          /\ ~NoParticipant(b, n)
          /\ GetOrCreateTopic(b, n, type)
          /\ UNCHANGED <<phase, participant, created>>
    BY <1>4, BusAssumption
       DEF TopicStep, GetWriterWithCapacity, GetReader, CreateDataReader,
           GetWriter, CreateDataWriter, CreationFails,
           MayCall, dds
  <2>2. OnlyInternalOutside'
    BY <2>1, GetOrCreateTopicEffect DEF OnlyInternalOutside
  <2>3. TopicsOfThisSession'
    <3> SUFFICES ASSUME NEW c \in Buses, phase[c] = "initialized",
                        NEW m \in DOMAIN topics'[c] \ {BuiltIn}
                 PROVE  topics'[c][m].participant = participant[c]
      BY <2>1 DEF TopicsOfThisSession
    <3>1. CASE c # b \/ m \in DOMAIN topics[b]
      BY <2>1, <3>1, GetOrCreateTopicEffect DEF TopicsOfThisSession
    <3>2. CASE c = b /\ m \notin DOMAIN topics[b]
      <4>1. m = n /\ topics'[b][m] = TopicOf(b, n, type)
        BY <2>1, <3>2, GetOrCreateTopicEffect
      <4> QED
        BY <3>2, <4>1 DEF TopicOf, NewStreamItemTopic, Found
    <3> QED
      BY <3>1, <3>2
  <2> QED
    BY <2>2, <2>3
<1> QED
  BY <1>2, <1>3, <1>4 DEF Next

(* Under that discipline the topics of a session are on its participant, also *)
(* after sessions that ended and calls of initialize that failed.  What the   *)
(* run bus_stale_topic shows takes a call outside of a session.               *)
THEOREM TopicsOfThisSessionHolds ==
  ASSUME OnlyInitialized
  PROVE  Spec => []TopicsOfThisSession
<1>1. Init => OnlyInternalOutside /\ TopicsOfThisSession
  BY NoTopicsType DEF Init, OnlyInternalOutside, TopicsOfThisSession
<1>2. /\ IInv /\ OnlyInternalOutside /\ TopicsOfThisSession
      /\ [Next]_vars
      => OnlyInternalOutside' /\ TopicsOfThisSession'
  BY TopicsStep
<1> QED
  BY <1>1, <1>2, InductiveInvariant, PTL DEF Spec

================================================================================
