----------------------------- MODULE SimulationBus -----------------------------
(***************************************************************************)
(* CycloneDDSSimulationBus as a component: create, initialize,             *)
(* deinitialize, destroy and the destructor, the topics of the bus, and    *)
(* the readers and writers it hands out.  Several buses live in one DDS    *)
(* network.                                                                *)
(*                                                                         *)
(* A domain participant and a data access collection are told apart by the *)
(* number they got when they were created, 0 is the null pointer; internal *)
(* topics are not told apart.  The framework calls the four state changes of a          *)
(* component in order and does not call deinitialize after an initialize   *)
(* that failed.                                                            *)
(***************************************************************************)
EXTENDS Integers, FiniteSets

CONSTANTS
  Buses,            \* simulation buses, one per FEP participant
  System,           \* System[b]: the system name of the participant of b
  Names,            \* names of stream item topics
  BuiltIn,          \* "_built_in_topic_businfo"
  StreamTypes,      \* stream types, with
  Raw,              \* StreamTypeRaw, what the calls without a stream type use
  Domains,          \* values of the property participant_domain
  MaxCreated,       \* bound: participants created in all
  MaxObjects,       \* bound: readers and writers created in all
  OnlyInitialized   \* getReader and getWriter are called on an initialized bus only

ASSUME BusAssumption ==
  /\ Raw \in StreamTypes
  /\ BuiltIn \notin Names
  /\ Domains \subseteq Nat \ {0}
  /\ MaxCreated \in Nat
  /\ MaxObjects \in Nat
  /\ OnlyInitialized \in BOOLEAN

VARIABLES
  phase,         \* what the framework made of the component
  created,       \* number of the participant created last, in the network
  domain,        \* domain[p]: the domain participant p joined
  tag,           \* tag[p]: its domain tag, NoTag for the default
  closed,        \* participants that were closed
  participant,   \* Impl::_participant
  busInfo,       \* Impl::_bus_info is not null
  topics,        \* Impl::_topics: name -> participant and stream type
  collection,    \* Impl::_data_access_collection
  readers,       \* data readers handed out so far
  writers        \* data writers handed out so far

dds == <<created, domain, tag, closed>>
impl == <<participant, busInfo, topics, collection>>
vars == <<phase, dds, impl, readers, writers>>

NoTag == "no tag"
TopicNames == Names \cup {BuiltIn}
StreamItemTopic == [participant : 1..created, type : StreamTypes]
InternalTopic == [participant |-> 0, type |-> Raw]
Topic == StreamItemTopic \cup {InternalTopic}
TopicMap == UNION {[N -> Topic] : N \in SUBSET TopicNames}

(* ~Impl and deinitialize drop the topics; the readers and writers keep theirs. *)
NoTopics == [n \in {} |-> InternalTopic]

--------------------------------------------------------------------------------
(* The state machine of the component *)

(* Logger, configuration, participant info; without one of the last two the   *)
(* component is not created.                                                  *)
Create(b) ==
  /\ phase[b] = "none"
  /\ phase' = [phase EXCEPT ![b] = "created"]
  /\ UNCHANGED <<dds, impl, readers, writers>>

(* mutant: the entry is inserted only if there is none of that name *)
MutInitBusInfo(b) ==
  /\ busInfo' = [busInfo EXCEPT ![b] = TRUE]
  /\ topics' = [topics EXCEPT ![b] =
                  [n \in DOMAIN @ \cup {BuiltIn} |->
                     IF n \in DOMAIN @ THEN @[n] ELSE InternalTopic]]

(* initBusInfo: a new BusInfo, and the internal topic that publishes it in    *)
(* the place of whatever the map had under that name.                         *)
InitBusInfo(b) ==
  /\ busInfo' = [busInfo EXCEPT ![b] = TRUE]
  /\ topics' = [topics EXCEPT ![b] =
                  [n \in DOMAIN @ \cup {BuiltIn} |->
                     IF n = BuiltIn THEN InternalTopic ELSE @[n]]]

(* mutant: the collection of an earlier session is expected to be there *)
MutInitialize(b) ==
  /\ phase[b] = "created"
  /\ created < MaxCreated
  /\ InitBusInfo(b)
  /\ created' = created + 1
  /\ \E d \in Domains : domain' = [domain EXCEPT ![created + 1] = d]
  /\ tag' = [tag EXCEPT ![created + 1] = NoTag]
  /\ participant' = [participant EXCEPT ![b] = created + 1]
  /\ phase' = [phase EXCEPT ![b] = "initialized"]
  /\ UNCHANGED <<closed, collection, readers, writers>>

(* The domain is what the property participant_domain says at that time.  The *)
(* DDS configuration that holds the system name as domain tag is filled       *)
(* in and not passed on: the participant is created with the domain alone.    *)
Initialize(b) ==
  /\ phase[b] = "created"
  /\ created < MaxCreated
  /\ InitBusInfo(b)
  /\ created' = created + 1
  /\ \E d \in Domains : domain' = [domain EXCEPT ![created + 1] = d]
  /\ tag' = [tag EXCEPT ![created + 1] = NoTag]
  /\ participant' = [participant EXCEPT ![b] = created + 1]
  /\ collection' = [collection EXCEPT ![b] = created + 1]
  /\ phase' = [phase EXCEPT ![b] = "initialized"]
  /\ UNCHANGED <<closed, readers, writers>>

(* The constructor of the participant throws: the bus information and its     *)
(* topic stay, the participant is the one of before.                          *)
InitializeFails(b) ==
  /\ phase[b] = "created"
  /\ InitBusInfo(b)
  /\ UNCHANGED <<phase, dds, participant, collection, readers,
                 writers>>

(* The bus information does not fit into the user data: registerUserData      *)
(* throws through initialize, before the internal topic is created.           *)
InitializeThrows(b) ==
  /\ phase[b] = "created"
  /\ busInfo' = [busInfo EXCEPT ![b] = TRUE]
  /\ UNCHANGED <<phase, dds, participant, topics, collection,
                 readers, writers>>

(* mutant: the test before close is put right, the assignment is not *)
MutDeinitialize(b) ==
  /\ phase[b] = "initialized"
  /\ collection' = [collection EXCEPT ![b] = 0]
  /\ busInfo' = [busInfo EXCEPT ![b] = FALSE]
  /\ topics' = [topics EXCEPT ![b] = NoTopics]
  /\ phase' = [phase EXCEPT ![b] = "created"]
  /\ closed' = closed \cup {participant[b]}
  /\ UNCHANGED <<created, domain, tag, participant, readers, writers>>

(* The participant is neither closed (the test is for a null pointer) nor set *)
(* to null (the statement compares).                                          *)
Deinitialize(b) ==
  /\ phase[b] = "initialized"
  /\ collection' = [collection EXCEPT ![b] = 0]
  /\ busInfo' = [busInfo EXCEPT ![b] = FALSE]
  /\ topics' = [topics EXCEPT ![b] = NoTopics]
  /\ phase' = [phase EXCEPT ![b] = "created"]
  /\ UNCHANGED <<dds, participant, readers, writers>>

Destroy(b) ==
  /\ phase[b] = "created"
  /\ phase' = [phase EXCEPT ![b] = "none"]
  /\ UNCHANGED <<dds, impl, readers, writers>>

(* ~Impl, and the Impl of the bus that is constructed next.  The participant  *)
(* of the last session is closed, whoever still has a reader on it.           *)
Delete(b) ==
  /\ phase[b] = "none"
  /\ topics' = [topics EXCEPT ![b] = NoTopics]
  /\ busInfo' = [busInfo EXCEPT ![b] = FALSE]
  /\ closed' = closed \cup ({participant[b]} \ {0})
  /\ participant' = [participant EXCEPT ![b] = 0]
  /\ collection' = [collection EXCEPT ![b] = 0]
  /\ UNCHANGED <<phase, created, domain, tag, readers, writers>>

--------------------------------------------------------------------------------
(* getReader and getWriter *)

MayCall(b) == OnlyInitialized => phase[b] = "initialized"

Room == Cardinality(readers) + Cardinality(writers) < MaxObjects

(* getOrCreateTopic: a topic that is there is used whatever type was asked    *)
(* for; TopicOf is what it returns when it does not throw.                    *)
Found(b, n) == n \in DOMAIN topics[b]

(* mutant: the null pointer is not tested *)
MutNoParticipant(b, n) == FALSE

NoParticipant(b, n) == ~Found(b, n) /\ participant[b] = 0

(* The constructor of StreamItemTopic: the topic refers to the participant    *)
(* and copies the stream type.                                                *)
NewStreamItemTopic(p, type) == [participant |-> p, type |-> type]

TopicOf(b, n, type) ==
  IF Found(b, n)
  THEN topics[b][n]
  ELSE NewStreamItemTopic(participant[b], type)

(* mutant: a topic of another stream type is replaced by one of the right type *)
MutGetOrCreateTopic(b, n, type) ==
  topics' = [topics EXCEPT ![b] =
               [m \in DOMAIN @ \cup {n} |->
                  IF m # n THEN @[m]
                  ELSE IF Found(b, n) /\ topics[b][n] # InternalTopic
                          /\ topics[b][n].type # type /\ participant[b] # 0
                  THEN NewStreamItemTopic(participant[b], type)
                  ELSE TopicOf(b, n, type)]]

GetOrCreateTopic(b, n, type) ==
  topics' = [topics EXCEPT ![b] =
               [m \in DOMAIN @ \cup {n} |->
                  IF m = n THEN TopicOf(b, n, type) ELSE @[m]]]

(* The reader is built on the participant of the topic and gets the           *)
(* collection of the bus; one of an internal topic has neither.               *)
CreateDataReader(topic, b, n) ==
  [bus |-> b, name |-> n, participant |-> topic.participant,
   collection |-> IF topic = InternalTopic THEN 0 ELSE collection[b]]

(* createDataWriter writes the stream type of the topic to the new writer; an *)
(* internal topic has no writer, and a null pointer is returned.  The session *)
(* of the writer, 0 outside of one, is noted for OneStreamTypePerTopic only.  *)
CreateDataWriter(topic, b, n) ==
  [bus |-> b, name |-> n, participant |-> topic.participant,
   session |-> collection[b], type |-> topic.type]

GetReader(b, n, type) ==
  /\ MayCall(b)
  /\ ~NoParticipant(b, n)
  /\ Room
  /\ GetOrCreateTopic(b, n, type)
  /\ readers' = readers \cup {CreateDataReader(TopicOf(b, n, type), b, n)}
  /\ UNCHANGED <<phase, dds, participant, busInfo, collection, writers>>

(* mutant: the writer announces what its caller asked for *)
MutGetWriter(b, n, type) ==
  /\ MayCall(b)
  /\ ~NoParticipant(b, n)
  /\ Room
  /\ GetOrCreateTopic(b, n, type)
  /\ LET topic == TopicOf(b, n, type)
     IN  /\ topic # InternalTopic
         /\ writers' = writers \cup
              {[CreateDataWriter(topic, b, n) EXCEPT !.type = type]}
  /\ UNCHANGED <<phase, dds, participant, busInfo, collection, readers>>

GetWriter(b, n, type) ==
  /\ MayCall(b)
  /\ ~NoParticipant(b, n)
  /\ Room
  /\ GetOrCreateTopic(b, n, type)
  /\ LET topic == TopicOf(b, n, type)
     IN  /\ topic # InternalTopic
         /\ writers' = writers \cup {CreateDataWriter(topic, b, n)}
  /\ UNCHANGED <<phase, dds, participant, busInfo, collection, readers>>

(* getWriter(name, queue_capacity): the writer is created, destroyed with the *)
(* local variable that holds it, and a null pointer is returned.              *)
GetWriterWithCapacity(b, n) ==
  /\ MayCall(b)
  /\ ~NoParticipant(b, n)
  /\ GetOrCreateTopic(b, n, Raw)
  /\ UNCHANGED <<phase, dds, participant, busInfo, collection,
                 readers, writers>>

(* The topic is in the map when the constructor of the reader or writer       *)
(* throws.  When the constructor of the topic does, or when there is no       *)
(* participant, nothing has changed: such a call is not a step of the model.  *)
CreationFails(b, n, type) ==
  /\ MayCall(b)
  /\ ~NoParticipant(b, n)
  /\ GetOrCreateTopic(b, n, type)
  /\ UNCHANGED <<phase, dds, participant, busInfo, collection,
                 readers, writers>>

--------------------------------------------------------------------------------

Init ==
  /\ phase = [b \in Buses |-> "none"]
  /\ created = 0
  /\ domain = [p \in 1..MaxCreated |-> 0]
  /\ tag = [p \in 1..MaxCreated |-> NoTag]
  /\ closed = {}
  /\ participant = [b \in Buses |-> 0]
  /\ busInfo = [b \in Buses |-> FALSE]
  /\ topics = [b \in Buses |-> NoTopics]
  /\ collection = [b \in Buses |-> 0]
  /\ readers = {}
  /\ writers = {}

ComponentStep(b) ==
  \/ Create(b)
  \/ Initialize(b) \/ InitializeFails(b) \/ InitializeThrows(b)
  \/ Deinitialize(b) \/ Destroy(b) \/ Delete(b)

TopicStep(b) ==
  \E n \in TopicNames :
    \/ GetWriterWithCapacity(b, n)
    \/ \E type \in StreamTypes :
         GetReader(b, n, type) \/ GetWriter(b, n, type) \/ CreationFails(b, n, type)

Next == \E b \in Buses : ComponentStep(b) \/ TopicStep(b)

Spec == Init /\ [][Next]_vars

--------------------------------------------------------------------------------
(* Properties *)

(* Every variable keeps its type. *)
TypeOK ==
  /\ phase \in [Buses -> {"none", "created", "initialized"}]
  /\ created \in 0..MaxCreated
  /\ domain \in [1..MaxCreated -> Domains \cup {0}]
  /\ tag \in [1..MaxCreated -> {NoTag} \cup {System[b] : b \in Buses}]
  /\ closed \subseteq 1..created
  /\ participant \in [Buses -> 0..created]
  /\ busInfo \in [Buses -> BOOLEAN]
  /\ topics \in [Buses -> TopicMap]
  /\ \A b \in Buses : \A n \in DOMAIN topics[b] :
       topics[b][n] = InternalTopic => n = BuiltIn
  /\ collection \in [Buses -> 0..created]
  /\ readers \subseteq [bus : Buses, name : TopicNames,
                        participant : 0..created, collection : 0..created]
  /\ writers \subseteq [bus : Buses, name : TopicNames, participant : 1..created,
                        session : 0..created, type : StreamTypes]

(* "Participant pointer empty. Simulation Bus not initialized.": there is no  *)
(* way to a topic of a participant of another session: while the bus is       *)
(* initialized its topics are those of its participant.                       *)
TopicsOfThisSession ==
  \A b \in Buses :
    phase[b] = "initialized" =>
      \A n \in DOMAIN topics[b] \ {BuiltIn} :
        topics[b][n].participant = participant[b]

(* A reader on the participant of a running session can register a receiver:  *)
(* the collection it refers to is the one the reception of the session walks. *)
ReadersOfThisSession ==
  \A r \in readers :
    phase[r.bus] = "initialized" /\ r.participant = participant[r.bus]
      => r.collection = collection[r.bus] /\ collection[r.bus] # 0

(* The writers of one topic in one session all announce the same stream type, *)
(* that of the first call that named the topic.                               *)
OneStreamTypePerTopic ==
  \A v, w \in writers :
    /\ v.bus = w.bus /\ v.session = w.session
    /\ v.name = w.name /\ v.participant = w.participant
    => v.type = w.type

(* A reader and a writer of one name that are handed out in the same session  *)
(* are on the same participant, also where the topic is left from an earlier  *)
(* session: the two meet.                                                     *)
ReaderMeetsWriter ==
  \A r \in readers, w \in writers :
    /\ r.bus = w.bus /\ r.name = w.name
    /\ r.collection = w.session /\ w.session # 0
    => r.participant = w.participant

(* "Create built in topic to make bus informations available via              *)
(* ISimulationBus": in a session the built-in name is that of the internal    *)
(* topic for every caller, also when somebody asked for it outside of one     *)
(* and got a stream item topic, or when an earlier initialize failed: nobody  *)
(* is given a reader or a writer in the DDS network under that name.          *)
BusInfoServed ==
  /\ \A r \in readers : r.name = BuiltIn => r.collection = 0
  /\ \A w \in writers : w.name = BuiltIn => w.session = 0

(* The participants a bus holds, its own and those of its topics. *)
Uses(b) ==
  ({participant[b]} \cup {topics[b][n].participant : n \in DOMAIN topics[b]}) \ {0}

(* Nobody closes a participant a bus still creates readers and writers on:    *)
(* not deinitialize, which keeps the participant of the session it ends, and  *)
(* not the destructor of another bus.                                         *)
LiveOnOpenParticipant == \A b \in Buses : Uses(b) \cap closed = {}

(* Two participants discover each other. *)
Discover(p, q) == domain[p] = domain[q] /\ tag[p] = tag[q]

(* "Participant with system name isolation through DDS domain tags".          *)
SystemIsolation ==
  \A b, c \in Buses :
    System[b] # System[c] /\ participant[b] # 0 /\ participant[c] # 0
      => ~Discover(participant[b], participant[c])

================================================================================
