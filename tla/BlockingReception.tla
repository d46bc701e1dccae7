--------------------------- MODULE BlockingReception ---------------------------
(***************************************************************************)
(* CycloneDDSSimulationBus::Impl::startBlockingReception and               *)
(* stopBlockingReception: the loop that waits on a DDS WaitSet and hands   *)
(* what it finds to the registered receivers, together with the threads it *)
(* races with: the owner of the bus, which starts and stops the reception, *)
(* and the threads that reset, pop and destroy data readers.               *)
(*                                                                         *)
(* A data access is a pair <<reader, receiver>>: an element of the         *)
(* SimulationDataAccessCollection and, once attached, the ReadCondition    *)
(* that captured the same reader and receiver.  The payload is left out:   *)
(* a reader either holds unread samples or it does not, of an instance     *)
(* that is alive or not.  Stream types, which popFrom takes along and      *)
(* which wake nobody, and the observers are left to ReaderItemQueue.       *)
(***************************************************************************)
EXTENDS Naturals, FiniteSets

CONSTANTS
  Readers,          \* StreamItemDataReader objects
  Receivers,        \* IDataReceiver objects
  None,             \* the null pointer
  GuardCondition,   \* Impl::_guard_condition
  ResetMode         \* how the environment calls reset, see MayReset

Accesses == Readers \X Receivers
Conditions == Accesses \cup {GuardCondition}

ASSUME ReceptionAssumption ==
  /\ IsFiniteSet(Readers)
  /\ IsFiniteSet(Receivers)
  /\ None \notin Receivers
  /\ None \notin Accesses
  /\ GuardCondition \notin Accesses
  /\ ResetMode \in {"register", "any"}

VARIABLES
  \* ---- Impl ----
  collection,    \* _data_access_collection is not null
  entries,       \* the data accesses it holds
  receiving,     \* _receiving
  guard,         \* the trigger value of _guard_condition
  \* ---- locals of startBlockingReception ----
  rpc,           \* where the reception thread stands
  armed,         \* reception_preparation_done_callback_caller is not null
  waitset,       \* the attached conditions, {} for the null WaitSet
  lastSize,      \* last_size_of_data_access_collection
  todo,          \* conditions of this round that were not dispatched yet
  current,       \* the condition being dispatched, or None
  \* ---- the other threads ----
  owner,         \* where the thread stands that starts and stops
  withCallback,  \* it passed a callback to the current call
  callbacks,     \* how often that callback was invoked
  resets,        \* calls of reset between their remove and their add
  gone,          \* readers that were destroyed
  disturbed,     \* for the properties: readers reset since the call of start
  \* ---- DDS ----
  unread,        \* readers whose sample reader holds unread samples
  orphaned       \* those of them whose instance is not ALIVE: no writer is left

busVars == <<collection, entries, receiving, guard>>
loopVars == <<rpc, armed, waitset, lastSize, todo, current>>
ownerVars == <<owner, withCallback, callbacks>>
readerVars == <<resets, gone, disturbed, unread, orphaned>>
envVars == <<ownerVars, readerVars>>
vars == <<busVars, loopVars, envVars>>

Size == Cardinality(entries)
AccessesOf(r) == {a \in entries : a[1] = r}

(* A reader and every entry it has in the collection own its ReaderItemQueue.  *)
QueueAlive(r) == r \notin gone \/ AccessesOf(r) # {}

--------------------------------------------------------------------------------
(* The owner of the bus: initialize and deinitialize as far as they touch the *)
(* collection, startBlockingReception's call, stopBlockingReception.          *)

CreateDataAccessCollection ==
  /\ owner = "off"
  /\ ~collection
  /\ collection' = TRUE
  /\ UNCHANGED <<entries, receiving, guard, loopVars, envVars>>

(* The readers hold a weak_ptr: with the list goes what was registered, and a *)
(* reset that is under way finishes on a list nobody looks at any more.  From *)
(* then on a member of Readers stands for a reader of the next session.       *)
ReleaseDataAccessCollection ==
  /\ owner = "off"
  /\ collection
  /\ collection' = FALSE
  /\ entries' = {}
  /\ resets' = {}
  /\ gone' = {}
  /\ unread' = {}
  /\ orphaned' = {}
  /\ UNCHANGED <<receiving, guard, loopVars, ownerVars, disturbed>>

CallStart(cb) ==
  /\ owner = "off"
  /\ rpc = "idle"
  /\ owner' = "on"
  /\ withCallback' = cb
  /\ callbacks' = 0
  /\ armed' = cb
  /\ rpc' = "enter"
  /\ disturbed' = {pending[1] : pending \in resets}
  /\ UNCHANGED <<busVars, waitset, lastSize, todo, current, resets, gone, unread,
                 orphaned>>

(* An owner that passed a callback waits for it before it calls stop. *)
StopClearsReceiving ==
  /\ owner = "on"
  /\ withCallback => callbacks > 0
  /\ receiving' = FALSE
  /\ owner' = "stopping"
  /\ UNCHANGED <<collection, entries, guard, loopVars, withCallback, callbacks,
                 readerVars>>

StopTriggersGuard ==
  /\ owner = "stopping"
  /\ guard' = TRUE
  /\ owner' = "stopped"
  /\ UNCHANGED <<collection, entries, receiving, loopVars, withCallback,
                 callbacks, readerVars>>

Join ==
  /\ owner = "stopped"
  /\ rpc = "idle"
  /\ owner' = "off"
  /\ disturbed' = {}
  /\ UNCHANGED <<busVars, loopVars, withCallback, callbacks, resets, gone, unread,
                 orphaned>>

--------------------------------------------------------------------------------
(* startBlockingReception, one action per step another thread can come       *)
(* between.  FireCallback is the reset or the destructor of the unique_ptr   *)
(* whose deleter invokes the callback.                                       *)

FireCallback ==
  /\ callbacks' = IF armed THEN callbacks + 1 ELSE callbacks
  /\ armed' = FALSE

(* mutant: the destructor runs the deleter's callback without disarming it *)
MutLeaveFires ==
  /\ callbacks' = callbacks + 1
  /\ armed' = FALSE
  /\ waitset' = {}
  /\ todo' = {}
  /\ current' = None
  /\ lastSize' = 0
  /\ rpc' = "idle"

(* mutant: no RAII, the callback is invoked by the line that announces it *)
MutLeaveSilent ==
  /\ armed' = FALSE
  /\ waitset' = {}
  /\ todo' = {}
  /\ current' = None
  /\ lastSize' = 0
  /\ rpc' = "idle"
  /\ UNCHANGED callbacks

(* Return or unwinding: the locals are destroyed. *)
Leave ==
  /\ FireCallback
  /\ waitset' = {}
  /\ todo' = {}
  /\ current' = None
  /\ lastSize' = 0
  /\ rpc' = "idle"

NoCollection ==
  /\ rpc = "enter"
  /\ ~collection
  /\ Leave
  /\ UNCHANGED <<busVars, owner, withCallback, readerVars>>

(* mutant: _receiving is set by the constructor only *)
MutEnterKeepsReceiving ==
  /\ rpc = "enter"
  /\ collection
  /\ lastSize' = 0
  /\ waitset' = {}
  /\ rpc' = "loop"
  /\ UNCHANGED <<busVars, armed, todo, current, envVars>>

Enter ==
  /\ rpc = "enter"
  /\ collection
  /\ lastSize' = 0
  /\ waitset' = {}
  /\ receiving' = TRUE
  /\ rpc' = "loop"
  /\ UNCHANGED <<collection, entries, guard, armed, todo, current, envVars>>

LoopContinues ==
  /\ rpc = "loop"
  /\ receiving
  /\ rpc' = "compare"
  /\ UNCHANGED <<busVars, armed, waitset, lastSize, todo, current, envVars>>

LoopEnds ==
  /\ rpc = "loop"
  /\ ~receiving
  /\ Leave
  /\ UNCHANGED <<busVars, owner, withCallback, readerVars>>

NeedsRebuild == lastSize # Size \/ waitset = {}

CompareSize ==
  /\ rpc = "compare"
  /\ rpc' = IF NeedsRebuild THEN "attach" ELSE "wait"
  /\ UNCHANGED <<busVars, armed, waitset, lastSize, todo, current, envVars>>

(* mutant: the preparation is announced before the guard condition is reset *)
MutAttachAnnounces ==
  /\ rpc = "attach"
  /\ waitset' = entries \cup {GuardCondition}
  /\ FireCallback
  /\ rpc' = "resetGuard"
  /\ UNCHANGED <<busVars, lastSize, todo, current, owner, withCallback,
                 readerVars>>

(* mutant: the walk over the data accesses ends after the first *)
MutAttachMissesOne ==
  /\ rpc = "attach"
  /\ waitset' = {a \in entries : a = CHOOSE b \in entries : TRUE} \cup {GuardCondition}
  /\ rpc' = "resetGuard"
  /\ UNCHANGED <<busVars, armed, lastSize, todo, current, envVars>>

AttachConditions ==
  /\ rpc = "attach"
  /\ waitset' = entries \cup {GuardCondition}
  /\ rpc' = "resetGuard"
  /\ UNCHANGED <<busVars, armed, lastSize, todo, current, envVars>>

(* Creating or attaching a condition throws: nothing catches it in here, so  *)
(* the call unwinds and _receiving keeps its value.                          *)
AttachThrows ==
  /\ rpc = "attach"
  /\ Leave
  /\ UNCHANGED <<busVars, owner, withCallback, readerVars>>

(* mutant: the guard condition keeps the trigger value of an earlier stop *)
MutResetGuardForgotten ==
  /\ rpc = "resetGuard"
  /\ rpc' = "notify"
  /\ UNCHANGED <<busVars, armed, waitset, lastSize, todo, current, envVars>>

ResetGuard ==
  /\ rpc = "resetGuard"
  /\ guard' = FALSE
  /\ rpc' = "notify"
  /\ UNCHANGED <<collection, entries, receiving, armed, waitset, lastSize, todo,
                 current, envVars>>

(* mutant: _receiving is set where the preparation is announced *)
MutNotifyPrepared ==
  /\ rpc = "notify"
  /\ FireCallback
  /\ receiving' = TRUE
  /\ rpc' = "record"
  /\ UNCHANGED <<collection, entries, guard, waitset, lastSize, todo, current,
                 owner, withCallback, readerVars>>

NotifyPrepared ==
  /\ rpc = "notify"
  /\ FireCallback
  /\ rpc' = "record"
  /\ UNCHANGED <<busVars, waitset, lastSize, todo, current, owner, withCallback,
                 readerVars>>

RecordSize ==
  /\ rpc = "record"
  /\ lastSize' = Size
  /\ rpc' = "wait"
  /\ UNCHANGED <<busVars, armed, waitset, todo, current, envVars>>

(* The mask of the ReadCondition is not_read, with any instance state. *)
Triggered(c) == IF c = GuardCondition THEN guard ELSE c[1] \in unread
TriggeredConditions == {c \in waitset : Triggered(c)}

WaitReturns ==
  /\ rpc = "wait"
  /\ TriggeredConditions # {}
  /\ todo' = TriggeredConditions \ {GuardCondition}
  /\ rpc' = "dispatch"
  /\ UNCHANGED <<busVars, armed, waitset, lastSize, current, envVars>>

(* mutant: wait without the timeout of 100 ms *)
MutWaitForever ==
  /\ rpc = "wait"
  /\ FALSE
  /\ UNCHANGED vars

(* An empty result or a TimeoutError, which the catch clause swallows. *)
WaitTimesOut ==
  /\ rpc = "wait"
  /\ TriggeredConditions = {}
  /\ rpc' = "loop"
  /\ UNCHANGED <<busVars, armed, waitset, lastSize, todo, current, envVars>>

DispatchNext ==
  /\ rpc = "dispatch"
  /\ current = None
  /\ \E c \in todo : /\ current' = c
                     /\ todo' = todo \ {c}
  /\ UNCHANGED <<busVars, rpc, armed, waitset, lastSize, envVars>>

(* What popFrom takes, DataState::new_data(), is unread and of an instance that *)
(* is alive: less than what triggers the condition.                             *)
Takeable == unread \ orphaned

TakeSamples(r) ==
  /\ unread' = unread \ ({r} \cap Takeable)
  /\ UNCHANGED orphaned

(* popFrom took what was takeable and handed it to the receiver of the          *)
(* condition; the functor calls it again.                                       *)
PopFromDelivers ==
  /\ rpc = "dispatch"
  /\ current # None
  /\ current[1] \in Takeable
  /\ TakeSamples(current[1])
  /\ UNCHANGED <<busVars, loopVars, ownerVars, resets, gone, disturbed>>

(* The receiver threw, or the DDS reader was closed with its queue: the rest   *)
(* of the round is skipped.                                                    *)
PopFromThrows ==
  /\ rpc = "dispatch"
  /\ current # None
  /\ current[1] \in Takeable \/ ~QueueAlive(current[1])
  /\ TakeSamples(current[1])
  /\ todo' = {}
  /\ current' = None
  /\ rpc' = "loop"
  /\ UNCHANGED <<busVars, armed, waitset, lastSize, ownerVars, resets, gone,
                 disturbed>>

(* popFrom found nothing to take and answers false.  If it left samples whose  *)
(* writers are gone, the next wait returns for them at once.                   *)
PopFromEmpty ==
  /\ rpc = "dispatch"
  /\ current # None
  /\ current[1] \notin Takeable
  /\ QueueAlive(current[1])
  /\ current' = None
  /\ UNCHANGED <<busVars, rpc, armed, waitset, lastSize, todo, envVars>>

RoundDone ==
  /\ rpc = "dispatch"
  /\ current = None
  /\ todo = {}
  /\ rpc' = "loop"
  /\ UNCHANGED <<busVars, armed, waitset, lastSize, todo, current, envVars>>

ReceptionStep ==
  \/ NoCollection \/ Enter
  \/ LoopContinues \/ LoopEnds
  \/ CompareSize
  \/ AttachConditions \/ AttachThrows
  \/ ResetGuard \/ NotifyPrepared \/ RecordSize
  \/ WaitReturns \/ WaitTimesOut
  \/ DispatchNext \/ PopFromDelivers \/ PopFromThrows \/ PopFromEmpty
  \/ RoundDone

--------------------------------------------------------------------------------
(* StreamItemDataReader::reset, called by any thread: remove the entry this    *)
(* reader has, then add one for the new receiver.  Without a collection it     *)
(* changes nothing.                                                            *)

(* ResetMode names the assumption about the application: "register", a reader  *)
(* gets its first receiver at any time and keeps it; "any", no restriction.    *)
MayReset(r, receiver) ==
  \/ ResetMode = "any"
  \/ ResetMode = "register" /\ AccessesOf(r) = {} /\ receiver # None

ResetRemove(r, receiver) ==
  /\ collection
  /\ r \notin gone
  /\ \A pending \in resets : pending[1] # r
  /\ MayReset(r, receiver)
  /\ entries' = entries \ AccessesOf(r)
  /\ resets' = resets \cup {<<r, receiver>>}
  /\ disturbed' = IF owner = "off" THEN disturbed ELSE disturbed \cup {r}
  /\ UNCHANGED <<collection, receiving, guard, loopVars, ownerVars, gone, unread,
                 orphaned>>

ResetAdd(r, receiver) ==
  /\ <<r, receiver>> \in resets
  /\ resets' = resets \ {<<r, receiver>>}
  /\ entries' = IF receiver # None THEN entries \cup {<<r, receiver>>} ELSE entries
  /\ UNCHANGED <<collection, receiving, guard, loopVars, ownerVars, gone,
                 disturbed, unread, orphaned>>

(* mutant: the destructor takes the entry of the reader back *)
MutDestroyReader(r) ==
  /\ r \notin gone
  /\ \A pending \in resets : pending[1] # r
  /\ gone' = gone \cup {r}
  /\ entries' = entries \ AccessesOf(r)
  /\ unread' = unread \ {r}
  /\ orphaned' = orphaned \ {r}
  /\ UNCHANGED <<collection, receiving, guard, loopVars, ownerVars, resets,
                 disturbed>>

(* The destructor is empty: the entry stays and with it the queue.  Without an *)
(* entry the queue is destroyed, and closes its DDS readers.                   *)
DestroyReader(r) ==
  /\ r \notin gone
  /\ \A pending \in resets : pending[1] # r
  /\ gone' = gone \cup {r}
  /\ unread' = IF AccessesOf(r) = {} THEN unread \ {r} ELSE unread
  /\ orphaned' = orphaned \cap unread'
  /\ UNCHANGED <<busVars, loopVars, ownerVars, resets, disturbed>>

(* StreamItemDataReader::pop, called by any thread: it takes what it can from  *)
(* under the reception thread.                                                 *)
Pop(r) ==
  /\ r \in Takeable \ gone
  /\ TakeSamples(r)
  /\ UNCHANGED <<busVars, loopVars, ownerVars, resets, gone, disturbed>>

(* DDS stores a sample in the cache of the sample reader of r: the instance is *)
(* alive, again if it was not.                                                 *)
Arrive(r) ==
  /\ QueueAlive(r)
  /\ r \notin Takeable
  /\ unread' = unread \cup {r}
  /\ orphaned' = orphaned \ {r}
  /\ UNCHANGED <<busVars, loopVars, ownerVars, resets, gone, disturbed>>

(* The last writer of the topic leaves while samples of it are unread. *)
WriterGone(r) ==
  /\ r \in Takeable
  /\ orphaned' = orphaned \cup {r}
  /\ UNCHANGED <<busVars, loopVars, ownerVars, resets, gone, disturbed, unread>>

--------------------------------------------------------------------------------

Init ==
  /\ collection = FALSE
  /\ entries = {}
  /\ receiving = FALSE
  /\ guard = FALSE
  /\ rpc = "idle"
  /\ armed = FALSE
  /\ waitset = {}
  /\ lastSize = 0
  /\ todo = {}
  /\ current = None
  /\ owner = "off"
  /\ withCallback = FALSE
  /\ callbacks = 0
  /\ resets = {}
  /\ gone = {}
  /\ disturbed = {}
  /\ unread = {}
  /\ orphaned = {}

OwnerStep ==
  \/ CreateDataAccessCollection \/ ReleaseDataAccessCollection
  \/ \E cb \in BOOLEAN : CallStart(cb)
  \/ StopClearsReceiving \/ StopTriggersGuard \/ Join

ReaderStep(r) ==
  \/ \E receiver \in Receivers \cup {None} :
       ResetRemove(r, receiver) \/ ResetAdd(r, receiver)
  \/ DestroyReader(r)
  \/ Pop(r)
  \/ Arrive(r)
  \/ WriterGone(r)

Next ==
  \/ OwnerStep
  \/ ReceptionStep
  \/ \E r \in Readers : ReaderStep(r)

Spec == Init /\ [][Next]_vars

(* The reception thread is scheduled, and a stop that began is finished.  The *)
(* timeout needs no fairness of its own: it is the only step of a thread that *)
(* waits for conditions of which none is triggered.                           *)
Fairness ==
  /\ WF_vars(ReceptionStep)
  /\ WF_vars(StopTriggersGuard)

FairSpec == Spec /\ Fairness

--------------------------------------------------------------------------------
(* Properties *)

(* Every variable keeps its type; the callback of a call is never invoked a   *)
(* second time.                                                               *)
TypeOK ==
  /\ collection \in BOOLEAN
  /\ entries \subseteq Accesses
  /\ receiving \in BOOLEAN
  /\ guard \in BOOLEAN
  /\ rpc \in {"idle", "enter", "loop", "compare", "attach", "resetGuard",
              "notify", "record", "wait", "dispatch"}
  /\ armed \in BOOLEAN
  /\ waitset \subseteq Conditions
  /\ lastSize \in Nat
  /\ todo \subseteq Accesses
  /\ current \in Accesses \cup {None}
  /\ owner \in {"off", "on", "stopping", "stopped"}
  /\ withCallback \in BOOLEAN
  /\ callbacks \in 0..1
  /\ resets \subseteq Readers \X (Receivers \cup {None})
  /\ gone \subseteq Readers
  /\ disturbed \subseteq Readers
  /\ unread \subseteq Readers
  /\ orphaned \subseteq unread

(* The promise of start and stop to their caller: the preparation callback is *)
(* invoked exactly once per call, before the call returns, also when the      *)
(* preparation throws (the RAII object of startBlockingReception).            *)
Contract == INSTANCE ReceptionContract WITH
  active <- rpc # "idle",
  asked <- withCallback,
  calls <- callbacks,
  stopping <- owner \in {"stopping", "stopped"}

ImplementsContract == Contract!Spec

(* "Run until ::stop was called": the call returns without a stop only if     *)
(* there is no collection to serve or the preparation threw, whatever an      *)
(* earlier session left in _receiving and in the guard condition.             *)
ReturnsOnlyWhenStopped ==
  [][rpc # "idle" /\ rpc' = "idle"
       => \/ owner \in {"stopping", "stopped"}
          \/ rpc = "enter" /\ ~collection
          \/ rpc = "attach"]_vars

(* The trigger of an earlier stop is gone before the first wait: a session    *)
(* nobody stops waits for data only and never spins on its guard condition.   *)
NoSpuriousWakeUp == owner = "on" /\ rpc = "wait" => ~guard

(* Nothing the loop does, however often it builds its WaitSet anew, takes     *)
(* back a stop that followed the callback: _receiving stays what the stop     *)
(* made it until the call is over and another one begins.                     *)
StopNotUndone ==
  owner \in {"stopping", "stopped"} /\ withCallback => ~receiving

(* Prepared "for a call to stopBlockingReception": a stop that follows the    *)
(* callback of a call during which no reader was reset finds the guard        *)
(* condition attached and its trigger is not erased, so the wait it meets     *)
(* returns at once and not after the timeout.                                 *)
PromptStop ==
  owner = "stopped" /\ withCallback /\ rpc = "wait" /\ disturbed = {}
    => guard /\ GuardCondition \in waitset

(* The WaitSet and the collection agree on every reader that was not reset    *)
(* since the call of start, however often the others are reset: it is         *)
(* attached with the receiver it has, and with no other.                      *)
UndisturbedAttached ==
  rpc = "wait" =>
    \A a \in Accesses : a[1] \notin disturbed => (a \in waitset <=> a \in entries)

(* The functor of a condition has a raw pointer to the queue.  A reader may   *)
(* be destroyed while the WaitSet holds its condition, and while the          *)
(* condition is dispatched, if it is not reset: the entry it leaves behind    *)
(* keeps the queue.                                                           *)
QueuesInUseAlive ==
  \A c \in (waitset \cup todo \cup {current}) \ {GuardCondition, None} :
    c[1] \notin disturbed => QueueAlive(c[1])

(* No reader receives anything new from some moment on. *)
Quiet == <>[][unread' \subseteq unread]_unread

(* A stop that follows the callback ends the call once the data stops coming, *)
(* also when a rebuild of the WaitSet erased the trigger of the guard         *)
(* condition: the timeout of 100 ms makes the loop read _receiving again, and *)
(* so does every round in which the loop spins on samples nobody can take.    *)
StopReturns ==
  Quiet => ((owner = "stopped" /\ withCallback) ~> (rpc = "idle"))

(* A registered reader that was not reset holds something unread in a session *)
(* nobody stops.  While the session goes on, only a take ends that.           *)
Waiting(r) ==
  /\ r \in unread
  /\ AccessesOf(r) # {}
  /\ r \notin disturbed
  /\ rpc # "idle"
  /\ owner = "on"

(* No reader waits forever: what it holds unread when the reception runs, or  *)
(* gets while it runs, is taken, by the reception or by a call of pop, unless *)
(* the session ends first or the reader is reset, whatever happens to the     *)
(* other readers, also when their writers are gone and the loop spins on what *)
(* they left.  The reader's own topic has to have a writer in the end: without *)
(* one popFrom leaves the sample where it is.                                 *)
DataReachesReceiver ==
  Quiet => \A r \in Readers : <>[](r \notin orphaned) => []<>~Waiting(r)

(* "Recreate WaitSet if a new reader was created": an access that is          *)
(* registered while the loop runs gets attached, or the session ends, or the  *)
(* access is taken back.                                                      *)
NewReaderAttached ==
  Quiet =>
    \A a \in Accesses :
      (a \in entries /\ rpc = "wait" /\ owner = "on")
        ~> (a \in waitset \/ a \notin entries \/ rpc = "idle" \/ owner # "on")

(* reset "removes the previous receiver" and "adds the new receiver": a        *)
(* reader that is attached with a receiver it has no more gets attached with  *)
(* the new one, or the session ends, or the reader is reset again.            *)
ReplacedReceiverServed ==
  Quiet =>
    \A a, b \in Accesses :
      (/\ a[1] = b[1] /\ a # b
       /\ a \in entries /\ b \in waitset
       /\ rpc = "wait" /\ owner = "on")
        ~> (a \in waitset \/ a \notin entries \/ rpc = "idle" \/ owner # "on")

================================================================================
