---------------------------- MODULE ReaderItemQueue ----------------------------
(***************************************************************************)
(* ReaderItemQueue: the caches of the two DDS readers of one data reader,  *)
(* for samples and for stream types, and popFrom, which the reception      *)
(* thread (through the functor of the ReadCondition) and the threads that  *)
(* call pop run concurrently and without a lock.                           *)
(*                                                                         *)
(* Samples and stream types are numbered in the order in which they are    *)
(* stored; the payload is left out.  updateStreamType never answers true   *)
(* (no QoS profile can be found), so its branch, which drains and          *)
(* recreates the sample reader, is left out.                               *)
(***************************************************************************)
EXTENDS Integers, FiniteSets

CONSTANTS
  Threads,      \* threads that pop or dispatch
  Depth,        \* history depth of the sample reader, KeepLast(Depth)
  MaxSamples,   \* bound: samples stored in all
  MaxTypes,     \* bound: stream types stored in all
  Observed,     \* size and getFrontTime are called
  WriterLeaves  \* the last writer of the topic may leave and come back

ASSUME QueueAssumption ==
  /\ Depth \in Nat \ {0}
  /\ MaxSamples \in Nat
  /\ MaxTypes \in Nat
  /\ Observed \in BOOLEAN
  /\ WriterLeaves \in BOOLEAN

VARIABLES
  \* ---- DDS: the reader caches ----
  arrived,        \* samples stored so far
  cache,          \* samples in the cache of _sample_reader
  read,           \* those of them whose sample state is READ
  alive,          \* instance state ALIVE: the topic has a writer
  typesArrived,   \* stream types stored so far
  typeCache,      \* the one in the cache of _streamtype_reader, 0 for none
  \* ---- popFrom, per thread ----
  pc,             \* where the thread stands
  looping,        \* called by the functor, which repeats it
  batch,          \* samples taken and not handed out yet
  typeTaken,      \* stream type taken and not handed out yet, 0 for none
  readSomething,  \* read_something
  \* ---- what became of it ----
  delivered,      \* samples handed to the receiver, per thread
  heard,          \* the last stream type handed to the receiver, per thread
  overwritten,    \* samples a newer one pushed out of the cache
  dropped,        \* samples lost with a batch whose receiver threw
  counted         \* samples the last call of size counted

ddsVars == <<arrived, cache, read, alive, typesArrived, typeCache>>
popVars == <<pc, looping, batch, typeTaken, readSomething>>
fateVars == <<delivered, heard, overwritten, dropped, counted>>
vars == <<ddsVars, popVars, fateVars>>

Unread == cache \ read

(* DataState::new_data(): not read, any view state, instance alive. *)
Takeable == IF alive THEN Unread ELSE {}

(* The mask of the ReadCondition: not read, any instance state. *)
Triggered == Unread # {}

--------------------------------------------------------------------------------
(* DDS *)

(* KeepLast(Depth): a full cache loses its oldest sample, read or not. *)
StoreSample ==
  /\ arrived < MaxSamples
  /\ alive
  /\ arrived' = arrived + 1
  /\ \E out \in SUBSET cache :
       /\ IF Cardinality(cache) < Depth
          THEN out = {}
          ELSE \E i \in cache : out = {i} /\ \A j \in cache : i <= j
       /\ cache' = (cache \ out) \cup {arrived + 1}
       /\ read' = read \ out
       /\ overwritten' = overwritten \cup out
  /\ UNCHANGED <<alive, typesArrived, typeCache, popVars, delivered, heard,
                 dropped, counted>>

(* The stream type reader keeps one: the default QoS is KeepLast(1). *)
StoreStreamType ==
  /\ typesArrived < MaxTypes
  /\ typesArrived' = typesArrived + 1
  /\ typeCache' = typesArrived + 1
  /\ UNCHANGED <<arrived, cache, read, alive, popVars, fateVars>>

WriterGone ==
  /\ WriterLeaves
  /\ alive
  /\ alive' = FALSE
  /\ UNCHANGED <<arrived, cache, read, typesArrived, typeCache, popVars, fateVars>>

WriterBack ==
  /\ ~alive
  /\ alive' = TRUE
  /\ UNCHANGED <<arrived, cache, read, typesArrived, typeCache, popVars, fateVars>>

--------------------------------------------------------------------------------
(* popFrom, step by step: the takes are atomic in DDS, the calls of the       *)
(* receiver between them are not.                                             *)

(* ReaderItemQueue::pop *)
Pop(t) ==
  /\ pc[t] = "idle"
  /\ pc' = [pc EXCEPT ![t] = "take"]
  /\ looping' = [looping EXCEPT ![t] = FALSE]
  /\ UNCHANGED <<ddsVars, batch, typeTaken, readSomething, fateVars>>

(* The functor of createSampleReadCondition *)
Dispatch(t) ==
  /\ pc[t] = "idle"
  /\ Triggered
  /\ pc' = [pc EXCEPT ![t] = "take"]
  /\ looping' = [looping EXCEPT ![t] = TRUE]
  /\ UNCHANGED <<ddsVars, batch, typeTaken, readSomething, fateVars>>

(* mutant: the samples are read and stay in the cache *)
MutTakeSamples(t) ==
  /\ pc[t] = "take"
  /\ batch' = [batch EXCEPT ![t] = Takeable]
  /\ readSomething' = [readSomething EXCEPT ![t] = Takeable # {}]
  /\ pc' = [pc EXCEPT ![t] = "deliver"]
  /\ UNCHANGED <<ddsVars, looping, typeTaken, fateVars>>

(* mutant: everything is taken and what is not new is skipped afterwards *)
MutTakeAll(t) ==
  /\ pc[t] = "take"
  /\ batch' = [batch EXCEPT ![t] = Takeable]
  /\ cache' = {}
  /\ read' = {}
  /\ readSomething' = [readSomething EXCEPT ![t] = Takeable # {}]
  /\ pc' = [pc EXCEPT ![t] = "deliver"]
  /\ UNCHANGED <<arrived, alive, typesArrived, typeCache, looping, typeTaken,
                 fateVars>>

(* mutant: the samples are marked before they are removed *)
MutTakeMarks(t) ==
  /\ pc[t] = "take"
  /\ batch' = [batch EXCEPT ![t] = Takeable]
  /\ cache' = cache \ Takeable
  /\ read' = read \cup Takeable
  /\ readSomething' = [readSomething EXCEPT ![t] = Takeable # {}]
  /\ pc' = [pc EXCEPT ![t] = "deliver"]
  /\ UNCHANGED <<arrived, alive, typesArrived, typeCache, looping, typeTaken,
                 fateVars>>

TakeSamples(t) ==
  /\ pc[t] = "take"
  /\ batch' = [batch EXCEPT ![t] = Takeable]
  /\ cache' = cache \ Takeable
  /\ readSomething' = [readSomething EXCEPT ![t] = Takeable # {}]
  /\ pc' = [pc EXCEPT ![t] = "deliver"]
  /\ UNCHANGED <<arrived, read, alive, typesArrived, typeCache, looping,
                 typeTaken, fateVars>>

(* mutant: the batch is handed out in any order *)
MutDeliverSample(t) ==
  /\ pc[t] = "deliver"
  /\ \E i \in batch[t] :
       /\ batch' = [batch EXCEPT ![t] = @ \ {i}]
       /\ delivered' = [delivered EXCEPT ![t] = @ \cup {i}]
  /\ UNCHANGED <<ddsVars, pc, looping, typeTaken, readSomething, heard,
                 overwritten, dropped, counted>>

(* The samples come in the order of their arrival. *)
DeliverSample(t) ==
  /\ pc[t] = "deliver"
  /\ \E i \in batch[t] :
       /\ \A j \in batch[t] : i <= j
       /\ batch' = [batch EXCEPT ![t] = @ \ {i}]
       /\ delivered' = [delivered EXCEPT ![t] = @ \cup {i}]
  /\ UNCHANGED <<ddsVars, pc, looping, typeTaken, readSomething, heard,
                 overwritten, dropped, counted>>

(* mutant: stream types are left to pop *)
MutTakeStreamType(t) ==
  /\ pc[t] = "deliver"
  /\ batch[t] = {}
  /\ typeTaken' = [typeTaken EXCEPT ![t] = IF looping[t] THEN 0 ELSE typeCache]
  /\ typeCache' = IF looping[t] THEN typeCache ELSE 0
  /\ pc' = [pc EXCEPT ![t] = "type"]
  /\ UNCHANGED <<arrived, cache, read, alive, typesArrived, looping, batch,
                 readSomething, fateVars>>

(* mutant: a stream type that came without samples is thrown away *)
MutTakeStreamTypeAlone(t) ==
  /\ pc[t] = "deliver"
  /\ batch[t] = {}
  /\ typeTaken' = [typeTaken EXCEPT ![t] = IF readSomething[t] THEN typeCache ELSE 0]
  /\ typeCache' = 0
  /\ pc' = [pc EXCEPT ![t] = "type"]
  /\ UNCHANGED <<arrived, cache, read, alive, typesArrived, looping, batch,
                 readSomething, fateVars>>

TakeStreamType(t) ==
  /\ pc[t] = "deliver"
  /\ batch[t] = {}
  /\ typeTaken' = [typeTaken EXCEPT ![t] = typeCache]
  /\ typeCache' = 0
  /\ pc' = [pc EXCEPT ![t] = "type"]
  /\ UNCHANGED <<arrived, cache, read, alive, typesArrived, looping, batch,
                 readSomething, fateVars>>

(* The receiver gets the type, then updateStreamType looks at it, and throws  *)
(* when a size among its properties is no number that fits an int.            *)
DeliverStreamType(t) ==
  /\ pc[t] = "type"
  /\ typeTaken[t] # 0
  /\ heard' = [heard EXCEPT ![t] = typeTaken[t]]
  /\ typeTaken' = [typeTaken EXCEPT ![t] = 0]
  /\ \E throws \in BOOLEAN :
       /\ readSomething' = [readSomething EXCEPT ![t] = ~throws]
       /\ pc' = [pc EXCEPT ![t] = IF throws THEN "idle" ELSE "type"]
  /\ UNCHANGED <<ddsVars, looping, batch, delivered, overwritten, dropped,
                 counted>>

(* The functor calls popFrom until it finds nothing; pop calls it once. *)
PopFromReturns(t) ==
  /\ pc[t] = "type"
  /\ typeTaken[t] = 0
  /\ pc' = [pc EXCEPT ![t] = IF looping[t] /\ readSomething[t] THEN "take" ELSE "idle"]
  /\ readSomething' = [readSomething EXCEPT ![t] = FALSE]
  /\ UNCHANGED <<ddsVars, looping, batch, typeTaken, fateVars>>

(* The receiver (or the conversion) throws: the loan is returned, and what    *)
(* was taken and not handed out is gone.  pop logs an exception of DDS and    *)
(* passes on any other; the reception loop logs them all.                     *)
ReceiverThrows(t) ==
  /\ pc[t] \in {"deliver", "type"}
  /\ batch[t] # {} \/ typeTaken[t] # 0
  /\ dropped' = dropped \cup batch[t]
  /\ batch' = [batch EXCEPT ![t] = {}]
  /\ typeTaken' = [typeTaken EXCEPT ![t] = 0]
  /\ readSomething' = [readSomething EXCEPT ![t] = FALSE]
  /\ pc' = [pc EXCEPT ![t] = "idle"]
  /\ UNCHANGED <<ddsVars, looping, delivered, heard, overwritten, counted>>

--------------------------------------------------------------------------------
(* The observers *)

(* size counts the samples by reading them, and what was read is READ. *)
CountSize ==
  /\ Observed
  /\ counted' = Takeable
  /\ read' = read \cup Takeable
  /\ UNCHANGED <<arrived, cache, alive, typesArrived, typeCache, popVars,
                 delivered, heard, overwritten, dropped>>

(* getFrontTime reads the oldest sample in whatever state it is.  On an empty *)
(* cache it dereferences the end iterator: what it returns is undefined, the  *)
(* queue is left as it was.                                                   *)
GetFrontTime ==
  /\ Observed
  /\ \E i \in cache : /\ \A j \in cache : i <= j
                      /\ read' = read \cup {i}
  /\ UNCHANGED <<arrived, cache, alive, typesArrived, typeCache, popVars, fateVars>>

--------------------------------------------------------------------------------

Init ==
  /\ arrived = 0
  /\ cache = {}
  /\ read = {}
  /\ alive = TRUE
  /\ typesArrived = 0
  /\ typeCache = 0
  /\ pc = [t \in Threads |-> "idle"]
  /\ looping = [t \in Threads |-> FALSE]
  /\ batch = [t \in Threads |-> {}]
  /\ typeTaken = [t \in Threads |-> 0]
  /\ readSomething = [t \in Threads |-> FALSE]
  /\ delivered = [t \in Threads |-> {}]
  /\ heard = [t \in Threads |-> 0]
  /\ overwritten = {}
  /\ dropped = {}
  /\ counted = {}

DDSStep == StoreSample \/ StoreStreamType \/ WriterGone \/ WriterBack

(* A thread that is inside popFrom, or is woken by its condition, goes on. *)
PopFromStep(t) ==
  \/ TakeSamples(t)
  \/ DeliverSample(t)
  \/ TakeStreamType(t)
  \/ DeliverStreamType(t)
  \/ PopFromReturns(t)
  \/ ReceiverThrows(t)

ThreadStep(t) == Pop(t) \/ Dispatch(t) \/ PopFromStep(t)

Observe == CountSize \/ GetFrontTime

Next == DDSStep \/ (\E t \in Threads : ThreadStep(t)) \/ Observe

Spec == Init /\ [][Next]_vars

(* The reception thread waits on the condition, and a thread inside popFrom   *)
(* goes on.  Nobody has to call pop, and no writer has to come back.          *)
Fairness ==
  /\ WF_vars(\E t \in Threads : Dispatch(t))
  /\ \A t \in Threads : WF_vars(PopFromStep(t))

FairSpec == Spec /\ Fairness

--------------------------------------------------------------------------------
(* Properties *)

(* Every variable keeps its type. *)
TypeOK ==
  /\ arrived \in Nat
  /\ cache \subseteq 1..arrived
  /\ read \subseteq cache
  /\ alive \in BOOLEAN
  /\ typesArrived \in Nat
  /\ typeCache \in 0..typesArrived
  /\ pc \in [Threads -> {"idle", "take", "deliver", "type"}]
  /\ looping \in [Threads -> BOOLEAN]
  /\ batch \in [Threads -> SUBSET (1..arrived)]
  /\ typeTaken \in [Threads -> 0..typesArrived]
  /\ readSomething \in [Threads -> BOOLEAN]
  /\ delivered \in [Threads -> SUBSET (1..arrived)]
  /\ heard \in [Threads -> 0..typesArrived]
  /\ overwritten \subseteq 1..arrived
  /\ dropped \subseteq 1..arrived
  /\ counted \subseteq 1..arrived

Gone == overwritten \cup dropped

(* No sample is handed out twice, by whichever threads, and none that was     *)
(* handed out is waiting somewhere else: a sample is in one place only.       *)
AtMostOnce ==
  /\ \A t \in Threads :
       /\ cache \cap (batch[t] \cup delivered[t]) = {}
       /\ Gone \cap (batch[t] \cup delivered[t]) = {}
       /\ batch[t] \cap delivered[t] = {}
  /\ \A t, u \in Threads :
       t # u => (batch[t] \cup delivered[t]) \cap (batch[u] \cup delivered[u]) = {}
  /\ cache \cap Gone = {}

(* No sample disappears: it is in the cache, in the hands of a thread, handed *)
(* out, pushed out by a newer one or lost with a receiver that threw.         *)
NothingVanishes ==
  \A i \in 1..arrived :
    \/ i \in cache \cup Gone
    \/ \E t \in Threads : i \in batch[t] \cup delivered[t]

(* A receiver that is served by one thread gets the samples in the order of   *)
(* their arrival, and so the stream types, each of them once.                 *)
InOrder ==
  [][\A t \in Threads :
       /\ \A i \in delivered'[t] \ delivered[t], j \in delivered[t] : j < i
       /\ heard'[t] # heard[t] => heard[t] < heard'[t]]_vars

(* The condition triggers on samples of writers that left, which popFrom does *)
(* not take, so that the reception thread spins on them in vain.  Once the    *)
(* topic has a writer for good, whatever is not read is taken all the same:   *)
(* no thread is caught in a loop that takes nothing, and no sample waits for  *)
(* another one to arrive.                                                     *)
TakenOnceAlive == <>[]alive => []<>(Unread = {})

(* size is const: what it counted can still be popped as long as it is there. *)
SizeKeepsItems == alive => counted \cap cache \subseteq Takeable

================================================================================
