# Verification of the FEP3 Eclipse Cyclone DDS simulation bus

TLA+ modules, TLC runs and TLAPS proofs kept beside the plugin in `src/src/cyclone_dds`.
Paths below are relative to `src/src/cyclone_dds/simulation_bus/`; `SB` is
`fep_cyclone_dds_simulation_bus.cpp`, `RIQ` is `reader_item_queue.cpp`, `SIR`, `SIW` and `SIT`
are `stream_item_reader.cpp`, `stream_item_writer.cpp` and `stream_item_topic.cpp` in
`stream_item_topic/`, `IT` is `internal_topic/internal_topic.cpp`, `BI` is `bus_info/bus_info.cpp`.

The plugin implements FEP3's `ISimulationBus` on Cyclone DDS. The repository has no tests, and
the FEP3 SDK and Cyclone DDS are not part of it: what the plugin relies on there is modelled
from the way the plugin uses it, and is marked `external` in the map.

## 1. Inventory

| Component | State | Operations | Hard behaviour |
|---|---|---|---|
| **Blocking reception** (`SB:193-292`, `SIR:45-67`) | `_receiving`, `_guard_condition`, `_data_access_collection`; the WaitSet, its remembered size and the callback object are locals of the call | `startBlockingReception`, `stopBlockingReception`; `reset`, `pop` and the destructor of `StreamItemDataReader` | one thread in the loop, one that stops it, any number that reset, pop and destroy readers, without a common lock; a stop that meets a rebuild; a condition that outlives its reader; state that survives a session; a timeout |
| **Reader item queue** (`RIQ`) | two DDS readers: samples, stream types | `popFrom` by `pop` and by the functor of the ReadCondition; `size`, `getFrontTime`, `capacity` | reception thread and application threads take concurrently; a receiver that throws in a batch; KeepLast(1); reading marks as read |
| **Internal topic** (`IT`) | `_queue` under `_queue_mutex` | `write`, `InternalReader::pop`, `size`, `capacity` | the check of the size and the taking are two critical sections; dropping at the limit |
| **Simulation bus component** (`SB:329-640`) | `_participant`, `_topics`, `_bus_info`, `_data_access_collection` | `create`, `initialize`, `deinitialize`, `destroy`, the destructor, eight `getReader`/`getWriter` | initialize that fails half way; what of a session, and of the bus, outlives it; calls outside of a session |
| **Stream item topic** (`SIT`) | stream type, name of the QoS profile, two DDS topics | `createDataReader`, `createDataWriter`, `updateStreamType` | `stoi` and `* 8` in `int`; threads that update without a lock |
| **Stream item writer** (`SIW`) | two batching DDS writers | `write` (sample, stream type), `transmit` | order of the flushes; a flush that throws between them; several threads at one writer |
| **Bus information** (`BI`) | own and received participant infos, update callback | `registerUserData`, `unregisterParticipant`, `onUserDataReceived` | a failure in the middle of `initialize` |
| **Time stamp conversion** (`converter.cpp`) | none | two conversions | seconds in 32 bits |
| **Raw memory adapter**, **plugin factory** | none | copying, two exported functions | none |

How they interact: the bus creates a topic on the first request of a name and keeps it in
`_topics`; the topic creates readers and writers. A reader owns a queue, and holds a `weak_ptr`
to the collection of the session. `reset` enters the queue and a receiver into that collection;
the reception thread turns every entry into a ReadCondition, waits, and dispatches, which calls
the queue's `popFrom`, which calls the receiver. An application may `pop` the same queue in
another thread. The internal topic `_built_in_topic_businfo` is written by the callback of the
bus information and read like any other topic.

What makes each component correct:

* Reception: the preparation callback exactly once per call, on every way out; no return
  without a stop (or a reason); a stop that follows the callback is
  not undone and ends the call, at once if nothing was reset; what is registered is attached and
  served, whatever happens to other readers and their writers; no condition outlives its queue; nothing an earlier session left matters.
* Queue: each sample in exactly one place, none twice, none gone without a reason, order of
  arrival per thread, nothing unread for good, and that looking does not change what can be popped.
* Internal topic: a bounded fifo queue; at the limit the oldest goes, and only there.
* Component: what belongs to a session does not leak into the next; nothing is built on a closed
  participant; the built-in name leads to the bus information in every session; a reader and a writer of one name and session are on one
  participant; the writers of a topic agree on the stream type; systems are isolated.
* Stream item topic: the sizes decide, limits included; nobody loses a DDS reader or writer
  because another thread brought a stream type.
* Writer to receiver: samples and stream types in order and at most once each, with the times they
  were written with; each sample in one place; the stream type known with its sample, the
  newest not passed over; nothing transmitted gets stuck.

`PROJECT.json` lists the hazards, each at its line, and the property that watches it or the
reason why none does.

## 2. Modules

| Module | Content |
|---|---|
| `ReceptionContract` | what start and stop promise their caller (abstract) |
| `BlockingReception` | the loop, its owner and the resets, step by step |
| `BlockingReceptionProofs` | its theorems |
| `ReaderItemQueue`, `ReaderItemQueueProofs` | the caches and `popFrom`, step by step |
| `LossyFifo` | a bounded fifo queue that loses the oldest (abstract) |
| `InternalTopic`, `InternalTopicProofs` | the internal topic |
| `SimulationBus`, `SimulationBusProofs` | the component, its topics, readers and writers |
| `StreamItemTopic`, `StreamItemTopicProofs` | `updateStreamType`, the sizes and the QoS profile |
| `Converter`, `ConverterProofs` | time stamps to DDS and back, pure operators |
| `StreamItemWriter` | the two batching DDS writers and `transmit` |
| `LossyChannel` | in order, at most once, perhaps not at all (abstract) |
| `StreamItemChannel`, `StreamItemChannelProofs` | writer, network, converter and an instance of `ReaderItemQueue`, composed |
| `MC...` | symmetry sets, function values and sets of stream types for TLC; nothing else |

Definitions named `Mut...` are not used by any specification: they are faulty versions of the
definition behind them, and each property is known to notice the one `PROJECT.json` pairs it with.

### BlockingReception

`rpc` is the line at which the reception thread stands, and there is an action for each piece
another thread can come between. The function compares the size (`compare`), walks the
collection (`attach`), resets the guard condition (`resetGuard`), drops the callback object
(`notify`), reads the size a second time (`record`) and waits. `armed` is the `unique_ptr` whose
deleter calls the callback; `FireCallback` is its reset and its destructor. `Leave` is any way
out of the function: it destroys the locals. `AttachThrows` leaves `receiving` as it was, since
nothing in the function catches.

The owner is the thread that starts and stops: `CallStart`, then the two statements of
`stopBlockingReception` as `StopClearsReceiving` and `StopTriggersGuard`, then `Join`. An owner that passed a
callback waits for it before it stops, which is what the callback is for; one that passed none
may stop at any time, and its stop may then be undone by `_receiving = true` (`SB:216`). The
properties about stopping speak of the first kind.

`reset` is two actions, `ResetRemove` and `ResetAdd`, since the collection is locked twice.
`ResetMode` is the assumption about the application: `"any"` (no restriction) or `"register"` (a
reader gets its first receiver at any time and keeps it). `disturbed` is there for the properties: the
readers that were reset since the call of start, or were in the middle of a reset then. What the
code promises, it promises of the others. The walk over the collection (`SB:226-238`) is one step of
the model though no lock is held across it: what a reset does to the iterator meanwhile depends on a
container of the SDK that is not in the repository, and may be undefined behaviour. The collection is
released by an owner that has joined; a release while the loop runs would end its plain reference
to the collection and is undefined behaviour. With the collection its entries go, and a member of
`Readers` stands for a newly created reader from then on, since an old one refers to a list that
is gone.

`DestroyReader` is the destructor, which is empty: the entry of the reader stays in the
collection. The entry owns the queue, so that `QueueAlive` is "the reader or an entry is there".
The condition in the WaitSet does not own the queue, it has a raw pointer. `QueuesInUseAlive`
says that this is enough for every reader nobody reset. `Pop` competes with the dispatching
thread for what is unread.

`unread` is what triggers a condition (`RIQ:228`: not read, any instance state). `orphaned` is the
part of it whose last writer left: the take (`RIQ:166`) wants instances that are alive, so that
popFrom answers false with the sample still there (`PopFromEmpty`), and the next wait returns at
once, again and again. This spin is in the model; `WriterGone` begins it, and `Arrive`, a sample of a
writer that is there, ends it.

### ReaderItemQueue

Samples and stream types are the numbers of their arrival. `cache`, `read` and `alive` are the
sample reader's cache, the sample states and the instance state; `typeCache` is the other reader.
A thread goes through `take`, `deliver`, `type`; each call of the receiver and each DDS take is a
step. `Dispatch` is the functor (it calls `popFrom` until nothing comes), `Pop` the public
function. The state mask of the take (`new_data`: not read, alive) and that of the condition (not read) differ,
and so do `Takeable` and `Triggered`: samples of a writer that left make the reception thread spin, and
`TakenOnceAlive` says that they are taken once a writer is back.

The depth of the sample reader is 1, because `createReader` gets the default QoS. The module has
it as the constant `Depth`, since the theorems hold for every depth and the runs about order and
concurrency need more than one sample at a time.

Left out: the recreation of the sample reader. It runs only if `updateStreamType` answers true,
which it never does: `containsProfile` is a stub that returns false (`SIT:126-130`), so
`findQosProfile` always returns the default and the comparison at `SIT:49` fails; `NeverRecreated`
of `StreamItemTopic` is this argument, for all threads that call it. It may throw,
though (`stoi` at `SIT:68`), which `DeliverStreamType` has as its second outcome. Sample
validity is left out too; `createStreamTypeReadCondition` and the listener functions have no
caller or no content.

### InternalTopic

`_queue` and the readers, which check the size in one critical section and take the front in
another. After a pop from an empty `std::queue` nothing can be said: `broken` is set and the
model stops, and the value the receiver gets is arbitrary. Dropping is by the code: `while (size
> 10) pop` and then a push, so that the queue can hold 11.

### SimulationBus

A participant and the collection of a session are told apart by the number of the participant; 0 is
null. Internal topics are not told apart. `Deinitialize` keeps the participant, because `SB:461` compares
instead of assigning, and does not close it, because the test at `SB:457` is the wrong way
round. `InitializeFails` and `InitializeThrows` are the two ways in which `initialize` ends
early after it changed something. `Delete` is the destructor, which closes the participant
(`closed`); the bus that is constructed next begins with null. `GetOrCreateTopic` uses a topic that exists for whatever
type was asked. Calls that end in an error and change nothing (an empty name, no participant, a
constructor of a topic that throws) are no steps. `OnlyInitialized` says whether readers and
writers are requested of an initialized bus only.
`session` of a writer and the two `NoTag`s are there for the properties.

### StreamItemTopic and Converter

A size is a property of a stream type, a text: absent, something `std::stoi` throws at, or an integer of
any size. `IntMax` is the largest `int`. `LooksAtArraySize` keeps the early return (`SIT:70`): the
array size is parsed only if the byte size did not decide, so that a bad text is not always
noticed. The product with 8 overflows an `int` from 2^28 on; `TimesEight` has what the build can make of that. A
thread in `updateStreamType` goes through `find` and `compare`, and `_qos_profile` is read and written
without a lock.

`ToDds` and `FromDds` are the two conversions, with the width of the parts (`Modulus`, 2^32).

### StreamItemWriter and StreamItemChannel

A writer holds back what is written in `sampleBatch` and `typeBatch`; `transmit` is two actions,
`TransmitTypes` and `TransmitSamples` (or `TransmitFails`), since the network, the reader and, if
several threads use the writer (`users`), other calls of `write` and of `transmit` come between the
two flushes: `flushing` counts the calls that stand there, up to the bound `MaxTransmits`. `WriterInit`
is the writer that `createDataWriter` returns: the stream type of the topic is written and not
flushed, or was not written, because the result of that write is not looked at (`SIT:147`).

`StreamItemChannel` owns all variables and instantiates `ReaderItemQueue` on its own. Its
network is external: the readers have the default QoS, best effort, so `Lose` takes any
message away; messages of one DDS writer do not overtake each other; between the two DDS writers there is
no order, and DDS may send a batch that is full, or whose reader is local, before the flush
(`SendEarly`). `network` is chosen once: `"any"` is all of that, `"ordered"` keeps the order
across the DDS writers and sends what is flushed. `TypeKnownOnReturn` speaks of the second only; it is
what the order of the flushes and of `popFrom` is for, and it needs a writer that one thread uses:
`Init` ties `"ordered"` to `"one"` and `"any"` to `"several"`, which are the extremes of the four. `SampleTime`
is the time `createSample` gives to a sample. `origin` and `typeOrigin` give the number
that something had when it was written, by the number of its arrival; `under` and `lost` are
there for the properties.

## 3. Runs

| Run | Bounds | Result |
|---|---|---|
| `reception_any_reset` | 2 readers, 1 receiver, any reset, pop and destruction, writers that leave; fair | `TypeOK`, `NoSpuriousWakeUp`, `StopNotUndone`, `PromptStop`, `UndisturbedAttached`, `QueuesInUseAlive`, `ImplementsContract`, `ReturnsOnlyWhenStopped`, `StopReturns`, `DataReachesReceiver` hold |
| `reception_register` | 2 readers, 1 receiver, first receivers at any time; fair | `NewReaderAttached` violated |
| `reception_replace` | 1 reader, 2 receivers, any reset; fair | `ReplacedReceiverServed` violated |
| `queue_safety` | 2 threads, depth 2, 3 samples, 2 types; fair | `TypeOK`, `AtMostOnce`, `NothingVanishes`, `InOrder`, `TakenOnceAlive` hold |
| `channel` | depth 1, 3 samples, 2 types, 1 loss, both networks, one thread at the writer or several with 2 overlapping calls of `transmit`; fair | `TypeOK`, `TimesKept`, `InOnePlace`, `NewestTypeKept`, `ImplementsSampleChannel`, `ImplementsTypeChannel`, `TypeKnownOnReturn`, `TransmittedIsSettled`, `TypeFollowsSample` hold |
| `queue_size` | 1 thread, depth 1, 2 samples | `SizeKeepsItems` violated |
| `internal_topic_order` | 3 readers, limit 2, 6 writes | `TypeOK`, `ReadInOrder`, `NoEarlyLoss` hold |
| `internal_topic_fifo` | 2 readers, limit 10, 3 writes | `ImplementsFifo` violated |
| `bus_anytime` | 2 buses of one system, 1 name and the built-in one, 2 types, 2 participants, 2 readers and writers in all | `TypeOK`, `ReadersOfThisSession`, `OneStreamTypePerTopic`, `ReaderMeetsWriter`, `BusInfoServed`, `LiveOnOpenParticipant` hold |
| `topic_update` | 2 threads, 51 stream types, `int` of 10 bits, limit 64 | `TypeOK`, `SizeDecided`, `NeverRecreated` hold |
| `bus_stale_topic` | 1 bus, 2 domains, calls at any time | `TopicsOfThisSession` violated |
| `bus_isolation` | 2 buses of different systems in one domain | `SystemIsolation` violated |

### What the violated properties show

1. **A new reader may never be attached** (`SB:249`). The loop attaches what it finds at
   `SB:226-238` and records the size later. A reader registered in between is counted and not
   attached; the sizes agree from then on, so the WaitSet is not rebuilt until another change.
2. **A replaced receiver goes on being served** (`SB:223`). `reset` removes one entry and adds
   one. When the loop compares after both, the size is the old one. The WaitSet keeps the
   condition of the old receiver and never gets that of the new one.
3. **`size` consumes** (`RIQ:96`). It counts with `read()`, which marks as read; `popFrom` and
   the condition want samples that are not read.
4. **Two readers of the internal topic can pop one entry twice** (`IT:65`). Both see size 1.
   The class does this to whoever uses it; in this build nobody writes to an internal topic, since the
   update callback of the bus information, the only caller of `InternalTopic::write`, is never
   called (section 5).
5. **A topic of an ended session is used by the next** (`SB:461`). A request between
   `deinitialize` and `initialize` does not fail with "Participant pointer empty" but creates a
   topic on the old participant, which the next session finds in its map.
6. **Systems are not isolated** (`SB:422`). The domain tag is filled into a configuration that
   is not given to the participant.

Four more disagreements with the text of the repository have no run of their own. The overload
`getWriter(name, queue_capacity)` drops the writer it created and returns null (`SB:587`).
"8 Bytes for the biggest plain type" (`SIT:79-81`) does not make an array of 2^28 elements big: the product
overflows. `SizeDecided` excludes this case by name, and it does no harm as long as
`containsProfile` finds no profile. "Metadata as user info on bultin participant topic" (`Readme.md:12`)
is not there in this build: the QoS that holds the user data and the listener that would receive that
of others are in the part of the constructor call that is commented out (`SB:425-428`). And
"run until ::stop was called" (`SB:215`) does not hold against a publisher that is faster than
the drain loop of a condition, which does not look at `_receiving` (`RIQ:238`): this is why
the liveness properties of the reception speak of data that stops coming (`Quiet`).

### Bounds, and why they are enough

* Reception: two readers are needed for one that is served while the loop spins on the other, for a
  new or reset one beside an attached one and for a round with two conditions. One receiver is enough for all properties of the passing run: a reset to the
  same receiver removes and adds an entry like any other, and `reception_replace` has two. The
  number of sessions, resets and arrivals is unbounded: the state space is finite without a bound.
* Queue: two threads, more samples than the depth (so that one is overwritten while another is
  in the hands of a thread) and two stream types. `MaxSamples` and `MaxTypes` are the bounds.
* Channel: depth 1 is that of the code. Three samples are enough for one that is overwritten while another
  is in the hands of the receiver and a third is held back; two stream types for one that overwrites
  the other. `MaxWritten`, `MaxAnnounced`, `MaxLost` and `MaxTransmits` are the bounds. The writer does not leave
  and nobody calls `size` or `getFrontTime` there: section 5 says what that leaves out. Times are scaled: seconds of ten
  nanoseconds, of which 16 fit; the three samples lie within a second, on the last nanosecond that
  fits, and beyond.
* Topic: an `int` of 10 bits and a limit of 64 stand for 32 bits and 64000. There are sizes on both
  sides of the limit, of its eighth, and of the overflow, one whose product wraps to a negative
  number, one that wraps to 0, one that is no `int`, a text and none.
* Internal topic: `MaxWrites` bounds the writes. With limit 2 the queue overflows after three; three readers
  are enough for two that hold a checked size while a third one takes.
* Component: `MaxCreated` bounds the participants, with 2 for a session that follows another, or
  two buses that have one each; one name shows every clash of a topic with its past. `MaxObjects` bounds
  the readers and writers of all sessions. No property relates more than two of them, which
  `bus_anytime` has; the buses are interchangeable there, and all its properties are invariants, so that
  symmetry is sound. Initialize may fail any number of times.

Deadlock is checked, except for the internal topic, whose bounded writes end and whose model
stops when the queue is broken.

### Fairness

* `WF_vars(ReceptionStep)`: the operating system schedules the reception thread. It is never
  blocked for good, since the wait has a timeout of 100 ms (`SB:257`): `WaitTimesOut` is enabled
  when nothing is triggered. It is not a fairness of the timeout on its own.
* `WF_vars(StopTriggersGuard)`: a thread that executed the first statement of
  `stopBlockingReception` executes the second.
* Queue: `WF` of `Dispatch` by any thread and of `PopFromStep` by each: the reception thread waits on the
  condition and a call of `popFrom` goes on. Nobody has to call `pop`, and no writer has to come back.
* Channel: `WF` of `Dispatch` (the reception thread waits on the condition) and of
  `PopFromStep` (a call of `popFrom` goes on, and may go on to an exception), and of `Arrive`: what is on
  the wire arrives, unless it is lost before. A network that loses all is still one of the behaviours.

No fairness is assumed of owners, resets, receivers or writers: nobody has to write or to transmit.
`DataReachesReceiver` speaks of readers whose own topic has a writer in the end (`r` is not orphaned
from some moment on), and lets the others be orphaned for good; without that condition the spin
above violates it. `StopReturns` needs no such condition: every round of the spin passes the test of
`_receiving`.

## 4. Proofs

All theorems are for every value of the constants, under the named assumptions of the modules. They
are listed in `PROJECT.json`; the argument of each family is this.

**Reception.** `TypeOK` alone is not inductive: `callbacks \in 0..1` needs that an armed object has
not fired yet. `CallbackAccounting` relates `armed`, `callbacks`, `withCallback` and `rpc`;
`OwnerAccounting` says where the owner stands while a call runs; `ReceivingUntilStopped` says that
`_receiving` is true in the loop while nobody stopped; `GuardIsReset` that the guard condition is
not triggered behind `resetGuard` while nobody stopped, whatever an earlier stop left.
`StopNotUndoneHolds` needs one thing more: `EnterOwesCallback`, that a call which took a callback
still owes it at its first statement, so that an owner that waits for it cannot stop before
`SB:216`. From these follow `TypeCorrect`, `NoSpuriousWakeUpHolds`, `ReturnsOnlyWhenStoppedHolds`
and, step by step, `ContractRefinement`: the reception implements `ReceptionContract`. `QInv` is
about readers that were not reset. As long as there was no reset at all the loop builds one WaitSet
(`BuiltOnce`) and the trigger of a stop that follows the callback survives (`TriggerSurvives`):
`PromptStopHolds`. `UsedIsRegistered` and `RegisteredIsAttached` say of each undisturbed reader that
the collection and what the loop holds agree, however often the others make it rebuild. They hold
because no entry is taken out before the owner has joined except by a reset, and they give
`UndisturbedAttachedHolds` and `QueuesInUseAliveHolds`. `DataWakesHolds` is the safety core of
`DataReachesReceiver`: the wait does not time out over the data of a reader nobody reset, and takes
that reader into its round.

**Queue.** `Holding` says in which positions a thread holds a batch or a stream type, `Ordered` that
what is in the cache is newer than what a thread holds, and this newer than what it handed out, and
`TypesOrdered` the same for stream types. `AtMostOnceHolds` and `NothingVanishesHolds` together say
that the places a sample can be in partition the samples, for any number of threads.

**Internal topic.** `Consecutive`: the queue is an interval of the writes that ends with the last
one and lies above what was read last. `NoGap`: either the queue goes on right behind what was read
last, or it is full; `NoEarlyLossHolds` rests on it. `ReadInOrderHolds` and `NoEarlyLossHolds` are
for any number of readers; `NeverPopsEmptyHolds` and `FifoRefinement` are for a single one, which is
as far as they go: the run `internal_topic_fifo` breaks the refinement with two.

**Component.** `SessionNumbers` ties participant and collection of a session together.
`KeptParticipant` says that outside of a session the topics are on the kept participant.
`WriterHasItsTopic` and `NoStrayWriter` relate every writer of the running time to the topic in the
map, which decides the stream type of the next writer, and `ReaderHasItsTopic` does so for the
readers: since a topic stays in the map as long as its session runs, a reader and a writer of one
name were created from one topic, also when it is a stale one (`ReaderMeetsWriterHolds`). `Apart`
says that no participant is used by two buses; with that a destructor closes nothing another bus
holds (`LiveOnOpenParticipantHolds`). `BuiltInIsInternal`: in a session the entry of the built-in name
is an internal topic, since `initBusInfo` overwrites what it finds and a session takes no topic back
(`BusInfoServedHolds`). `TopicsOfThisSessionHolds` assumes `OnlyInitialized`; without
it the property is false (`bus_stale_topic`).

**Topic.** `OneProfile`: the default profile is all that `_qos_profile` and the locals ever hold.
`NeverRecreatedHolds` follows. `SizeDecidedHolds` needs that the product is exact where it fits
(`BigIsExact`), for an `int` of any width. Where it does not fit, `NoneInventedHolds` says which way
the answer may be wrong: what counts as big needs fragmentation, as long as array sizes are not
negative (a negative one may wrap to a big one).

**Converter.** `RoundTrip`: `FromDds(ToDds(t)) = t` for every time whose seconds fit, from the
uniqueness of quotient and remainder; nothing is assumed of the unit and the width but that a second
fits. `ExactRange` adds that no other time comes back: `Representable` is neither too wide nor too
narrow.

**Channel.** The invariant of the queue is not proved again. `QP` instantiates
`ReaderItemQueueProofs` with the one reception thread, and `QueueStep` shows that every step of the
channel is a step of the queue or leaves it alone. `CInv` adds that numbers of one kind increase
from what arrived over the wire to the batches (`SendingOrder`, `ArrivalOrder`). A step that hands
out a sample then hands out a greater number than before: `SampleChannelRefinement` and
`TypeChannelRefinement`, on every network and with any number of threads at the writer. `KnownInv`
is for the ordered network. `TypesAhead`: the stream type of a sample is lost, has arrived, or is on
the wire before the sample. `TypesPass`: a stream type that arrived is in the cache, in the hands of
`popFrom`, heard or superseded by one that is, unless it or a newer one was lost. `TypesTaken`:
behind the take of the stream type it is not in the cache any more. Together they give
`TypeKnownOnReturnHolds`. `InOnePlaceHolds` follows each message through `Append`, concatenation and
`RemoveAt`; relative to `CInv` the property is inductive itself. `NewestTypeKeptHolds` is inductive
relative to `CInv` too: a stream type that is heard is newer than what was heard before.
`NoneStrandedHolds` is the safety half of `TransmittedIsSettled`: a transmitted sample that is not settled is on the wire, in the hands of
`popFrom`, or unread in a cache whose condition triggers and from which it can be taken
(`AllTakeable`); only that the network and the reception thread then go on is left to fairness.

**Only model-checked**: liveness (`StopReturns`, `DataReachesReceiver`, `TakenOnceAlive`,
`TransmittedIsSettled`, `TypeFollowsSample`), which is beyond the prover, and of course the violated
properties. Every invariant, action property and refinement of a passing run is also a theorem.

## 5. Not modelled

* The recreation of readers and writers after a change of the stream type, and with it
  `setRecreateWaitSetCondition`: `NeverRecreated` shows that it is never asked for. The Readme says
  that dynamic stream metatype change does not work.
* `BusInfo` beyond its creation and the ways it can fail in `initialize`: no listener is installed in this build, so no
  participant info is ever received and the update callback is never called. Its JSON has no control.
* What a reader or writer answers that outlives the bus: its participant is closed, and the
  answers of a closed entity are those of the DDS library.
* Concurrent calls of `getReader` and `getWriter`, which race on `_topics` and on one `std::map`;
  whether the framework ever makes them is not visible here, and what a race on the map does is undefined.
* The release of the collection during a call of the reception: undefined behaviour, excluded by the order
  in which the framework stops, joins and deinitializes.
* The destruction of a writer with what it holds back (what DDS does with that is not visible here), and
  `wait_for_reader`, which has no caller.
* `size` and `getFrontTime` on the channel, and a writer that leaves it. A sample that one of the
  first two marked as read (`SizeKeepsItems`), or whose writer left (`TakenOnceAlive`), was
  transmitted and stays in the cache: `TransmittedIsSettled` and `NoneStrandedHolds` do not speak of
  such samples.
* A change of the collection under the iterator of the walk at `SB:226-230`.
* Samples that carry no data (`RIQ:174`), and what `getFrontTime` returns for an empty reader.
* Raw memory adapter, plugin factory, `isSupported`, logging, the Windows working directory.

## 6. Plan

Done, in this order: reception, queue, internal topic, component, writer and channel; then the life
time of readers, of the bus and of its participants, the topic with its sizes, the time stamps, several threads at one
writer, the theorems about the channel, and those about where each sample and stream type is. Next:

1. Several readers and several writers of one topic: `StreamItemChannel` for sets of both, and how
   the stream types of two writers overwrite each other in the KeepLast(1) cache of a reader.
2. The internal topic composed with the bus information that writes to it.
3. Concurrent `getOrCreateTopic`, if the framework turns out to call it from several threads.
